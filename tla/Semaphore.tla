------------------------------- MODULE Semaphore -------------------------------
(***************************************************************************)
(* The counting semaphore of lib/semaphore.js that bounds the parallel     *)
(* connection attempts of findAndConnect (lib/connect.js).                 *)
(*                                                                         *)
(* A caller is an asynchronous task of the event loop.  It calls wait(),   *)
(* runs while it holds a permit, and calls signal() once when its attempt  *)
(* settles (the ".then(signal, signal)" of lib/connect.js).  A caller may  *)
(* also flush(), which resolves when no permit is out, and the owner may   *)
(* destroy() the semaphore at any moment.                                  *)
(***************************************************************************)
EXTENDS Integers, Sequences, FiniteSets

CONSTANTS
  Procs,    (* the asynchronous tasks that share the semaphore               *)
  Limit     (* the number of permits, "limit" of the constructor             *)

ASSUME SemaphoreAssumption == /\ IsFiniteSet(Procs)
                              /\ Limit \in Nat \ {0}

VARIABLES
  active,     (* permits out, as the code counts them                        *)
  waiting,    (* the tasks whose wait() promise is queued, oldest first      *)
  flushing,   (* a flushedPromise is pending                                 *)
  destroyed,
  phase       (* what each task is doing                                     *)

vars == <<active, waiting, flushing, destroyed, phase>>

(***************************************************************************)
(* "idle": neither waiting nor holding; "queued": its wait() is pending;   *)
(* "held": its wait() resolved true; "flush": it awaits flush().  A        *)
(* refused task (wait() resolved false) goes back to "idle".               *)
(***************************************************************************)
Phases == {"idle", "queued", "held", "flush"}

Holders == {p \in Procs : phase[p] = "held"}

Init ==
  /\ active = 0
  /\ waiting = <<>>
  /\ flushing = FALSE
  /\ destroyed = FALSE
  /\ phase = [p \in Procs |-> "idle"]

(* Mutant: the limit is tested with "<=" instead of "<".                   *)
PermitFreeOffByOne == active <= Limit /\ waiting = <<>>

(* The fast path of wait(): a permit is free and nobody is queued for it.  *)
PermitFree == active < Limit /\ waiting = <<>>

(* wait() on the fast path resolves true at once.                          *)
WaitDone(p) ==
  /\ phase[p] = "idle"
  /\ ~destroyed
  /\ PermitFree
  /\ active' = active + 1
  /\ phase' = [phase EXCEPT ![p] = "held"]
  /\ UNCHANGED <<waiting, flushing, destroyed>>

(* wait() otherwise: the promise is queued by _queueWaiting.               *)
WaitQueued(p) ==
  /\ phase[p] = "idle"
  /\ ~destroyed
  /\ ~PermitFree
  /\ waiting' = Append(waiting, p)
  /\ phase' = [phase EXCEPT ![p] = "queued"]
  /\ UNCHANGED <<active, flushing, destroyed>>

(* Mutant: signal() forgets the hand-over loop.                            *)
HandOverNobody == [served |-> <<>>, rest |-> waiting]

(***************************************************************************)
(* The while loop of signal(), run after active was decremented: as many   *)
(* of the oldest waiters as there are free permits are shifted out.        *)
(***************************************************************************)
HandOver ==
  LET free == Limit - (active - 1)
      n == IF free <= Len(waiting) THEN free ELSE Len(waiting)
  IN [served |-> SubSeq(waiting, 1, n), rest |-> SubSeq(waiting, n + 1, Len(waiting))]

(* The end of signal(): no permit is out and a flush is pending.           *)
FlushResolves(stillOut) == stillOut = 0 /\ flushing

(* signal(): the permit comes back, is handed over, and a flush may end.   *)
Signal(p) ==
  /\ phase[p] = "held"
  /\ ~destroyed
  /\ LET stillOut == active - 1 + Len(HandOver.served)
         flushed == FlushResolves(stillOut)
     IN /\ active' = stillOut
        /\ waiting' = HandOver.rest
        /\ flushing' = (flushing /\ ~flushed)
        /\ phase' = [q \in Procs |->
             IF \E i \in 1..Len(HandOver.served) : HandOver.served[i] = q THEN "held"
             ELSE IF q = p \/ (phase[q] = "flush" /\ flushed) THEN "idle"
             ELSE phase[q]]
  /\ UNCHANGED destroyed

(* signal() after destroy(): the early return.                             *)
SignalDestroyed(p) ==
  /\ phase[p] = "held"
  /\ destroyed
  /\ phase' = [phase EXCEPT ![p] = "idle"]
  /\ UNCHANGED <<active, waiting, flushing, destroyed>>

(* Mutant: flush() does not look whether any permit is out.                *)
FlushNeededAlways == TRUE

(* flush() returns at once when no permit is out.                          *)
FlushNeeded == active # 0

(* flush() with permits out: every caller shares one flushedPromise.       *)
Flush(p) ==
  /\ phase[p] = "idle"
  /\ ~destroyed
  /\ FlushNeeded
  /\ flushing' = TRUE
  /\ phase' = [phase EXCEPT ![p] = "flush"]
  /\ UNCHANGED <<active, waiting, destroyed>>

(* destroy(): every queued wait() resolves false, a pending flush too.     *)
Destroy ==
  /\ ~destroyed
  /\ destroyed' = TRUE
  /\ active' = 0
  /\ waiting' = <<>>
  /\ phase' = [p \in Procs |->
                 IF phase[p] \in {"queued", "flush"} THEN "idle" ELSE phase[p]]
  /\ UNCHANGED flushing

Next ==
  \/ \E p \in Procs : \/ WaitDone(p)
                      \/ WaitQueued(p)
                      \/ Signal(p)
                      \/ SignalDestroyed(p)
                      \/ Flush(p)
  \/ Destroy

Spec == Init /\ [][Next]_vars

-----------------------------------------------------------------------------
(***************************************************************************)
(* Type invariant: the fields of the semaphore keep their types, and the   *)
(* queue holds tasks (lib/semaphore.js constructor).                       *)
(***************************************************************************)
TypeOK ==
  /\ active \in Nat
  /\ waiting \in Seq(Procs)
  /\ flushing \in BOOLEAN
  /\ destroyed \in BOOLEAN
  /\ phase \in [Procs -> Phases]

(* The queue and the phases agree, and no task is queued twice.            *)
QueueCoherent ==
  /\ \A i \in 1..Len(waiting) : phase[waiting[i]] = "queued"
  /\ \A p \in Procs : phase[p] = "queued" => \E i \in 1..Len(waiting) : waiting[i] = p
  /\ \A i, j \in 1..Len(waiting) : waiting[i] = waiting[j] => i = j

(***************************************************************************)
(* Bounded parallelism: never more than Limit tasks hold a permit, through *)
(* wait(), hand-over in signal(), and destroy() with permits still out;    *)
(* and until destroy() the counter is exactly the number of holders.       *)
(***************************************************************************)
PermitsBounded ==
  /\ Cardinality(Holders) <= Limit
  /\ ~destroyed => active = Cardinality(Holders)

(***************************************************************************)
(* No lost wake-up: while a wait() is queued every permit is out, so a     *)
(* freed permit can never be left lying while somebody waits for it        *)
(* (the hand-over loop of signal()).                                       *)
(***************************************************************************)
NoLostWakeup == waiting # <<>> => active = Limit

(* A pending flushedPromise has a permit out that will resolve it.         *)
FlushHasSignaller ==
  (~destroyed /\ \E p \in Procs : phase[p] = "flush") => flushing /\ active # 0

=============================================================================
