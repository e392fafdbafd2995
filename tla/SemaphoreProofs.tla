---------------------------- MODULE SemaphoreProofs ----------------------------
(***************************************************************************)
(* Proofs about the semaphore of lib/semaphore.js for any set of tasks and *)
(* any limit.  PermitsBounded alone is not inductive: that signal() hands  *)
(* over at most the permit it took back needs NoLostWakeup (a queue only   *)
(* exists while all permits are out), and that the woken task was not a    *)
(* holder already needs QueueCoherent.                                     *)
(***************************************************************************)
EXTENDS Semaphore, FiniteSetTheorems, SequenceTheorems, TLAPS

IInv == TypeOK /\ QueueCoherent /\ PermitsBounded /\ NoLostWakeup

(* A set of holders is finite, so its cardinality is a number.             *)
LEMMA HoldersFinite ==
  ASSUME TypeOK
  PROVE  IsFiniteSet(Holders) /\ Cardinality(Holders) \in Nat
  BY SemaphoreAssumption, FS_Subset, FS_CardinalityType DEF Holders

(* The semaphore starts with no permit out and nobody queued.              *)
LEMMA InitIInv == Init => IInv
<1> SUFFICES ASSUME Init PROVE IInv
  OBVIOUS
<1>1. TypeOK
  <2>1. waiting \in Seq(Procs)
    BY DEF Init
  <2>2. flushing \in BOOLEAN /\ destroyed \in BOOLEAN
    BY Zenon DEF Init
  <2>3. active \in Nat /\ phase \in [Procs -> Phases]
    BY DEF Init, Phases
  <2>4. QED
    BY <2>1, <2>2, <2>3 DEF TypeOK
<1>2. QueueCoherent
  BY DEF Init, QueueCoherent
<1>3. Holders = {}
  BY DEF Init, Holders
<1>4. PermitsBounded
  BY <1>3, FS_EmptySet, SemaphoreAssumption DEF Init, PermitsBounded
<1>5. NoLostWakeup
  BY DEF Init, NoLostWakeup
<1>6. QED
  BY <1>1, <1>2, <1>4, <1>5 DEF IInv

(* wait() on the fast path adds one holder while a permit is free.         *)
LEMMA WaitDoneIInv ==
  ASSUME IInv, NEW p \in Procs, WaitDone(p)
  PROVE  IInv'
<1> USE DEF IInv, WaitDone, PermitFree
<1>1. TypeOK'
  BY DEF TypeOK, Phases
<1>2. QueueCoherent'
  BY DEF TypeOK, QueueCoherent, Phases
<1>3. Holders' = Holders \cup {p} /\ p \notin Holders
  BY DEF Holders, TypeOK
<1>4. Cardinality(Holders') = Cardinality(Holders) + 1
  BY <1>3, HoldersFinite, FS_AddElement
<1>5. PermitsBounded'
  BY <1>4, HoldersFinite, SemaphoreAssumption DEF PermitsBounded, TypeOK
<1>6. NoLostWakeup'
  BY DEF NoLostWakeup
<1>7. QED
  BY <1>1, <1>2, <1>5, <1>6

(* wait() on the slow path only appends the caller to the queue.           *)
LEMMA WaitQueuedIInv ==
  ASSUME IInv, NEW p \in Procs, WaitQueued(p)
  PROVE  IInv'
<1> USE DEF IInv, WaitQueued, PermitFree
<1>1. TypeOK'
  BY DEF TypeOK, Phases
<1>2. /\ Len(waiting') = Len(waiting) + 1
      /\ \A i \in 1..Len(waiting) : waiting'[i] = waiting[i]
      /\ waiting'[Len(waiting) + 1] = p
      /\ Len(waiting) \in Nat
  BY DEF TypeOK
<1>3. QueueCoherent'
  <2>1. \A i \in 1..Len(waiting) : waiting[i] # p
    BY DEF QueueCoherent, TypeOK
  <2>2. ASSUME NEW i \in 1..Len(waiting') PROVE phase'[waiting'[i]] = "queued"
    BY <1>2, <2>1 DEF QueueCoherent, TypeOK
  <2>3. ASSUME NEW q \in Procs, phase'[q] = "queued"
        PROVE  \E i \in 1..Len(waiting') : waiting'[i] = q
    BY <1>2, <2>3 DEF QueueCoherent, TypeOK
  <2>4. ASSUME NEW i \in 1..Len(waiting'), NEW j \in 1..Len(waiting'),
               waiting'[i] = waiting'[j]
        PROVE  i = j
    BY <1>2, <2>1, <2>4 DEF QueueCoherent
  <2>5. QED
    BY <2>2, <2>3, <2>4 DEF QueueCoherent
<1>4. Holders' = Holders
  BY DEF Holders, TypeOK
<1>5. PermitsBounded'
  BY <1>4 DEF PermitsBounded
<1>6. NoLostWakeup'
  BY HoldersFinite, SemaphoreAssumption DEF NoLostWakeup, PermitsBounded, TypeOK
<1>7. QED
  BY <1>1, <1>3, <1>5, <1>6

(* What the loop of signal() does: nothing if nobody is queued, otherwise  *)
(* every permit was out and exactly the oldest waiter takes the freed one. *)
LEMMA HandOverIsOne ==
  ASSUME IInv, ~destroyed
  PROVE  /\ waiting = <<>> => HandOver.served = <<>> /\ HandOver.rest = <<>>
         /\ waiting # <<>> =>
              /\ active = Limit
              /\ Len(waiting) \in Nat /\ Len(waiting) >= 1
              /\ Len(HandOver.served) = 1
              /\ HandOver.served[1] = waiting[1]
              /\ HandOver.rest \in Seq(Procs)
              /\ Len(HandOver.rest) = Len(waiting) - 1
              /\ \A i \in 1..(Len(waiting) - 1) : HandOver.rest[i] = waiting[i + 1]
<1> USE DEF IInv, TypeOK
<1>1. Cardinality(Holders) \in Nat /\ active = Cardinality(Holders) /\ active <= Limit
  BY HoldersFinite DEF PermitsBounded
<1>2. CASE waiting = <<>>
  BY <1>1, <1>2, SemaphoreAssumption DEF HandOver
<1>3. CASE waiting # <<>>
  <2>1. active = Limit
    BY <1>3 DEF NoLostWakeup
  <2>2. Len(waiting) \in Nat /\ Len(waiting) >= 1
    BY <1>3
  <2> DEFINE free == Limit - (active - 1)
             n == IF free <= Len(waiting) THEN free ELSE Len(waiting)
  <2>3. n = 1
    BY <2>1, <2>2, SemaphoreAssumption
  <2>4. /\ HandOver.served = SubSeq(waiting, 1, n)
        /\ HandOver.rest = SubSeq(waiting, n + 1, Len(waiting))
    BY DEF HandOver
  <2> HIDE DEF n
  <2>5. Len(HandOver.served) = 1 /\ HandOver.served[1] = waiting[1]
    BY <2>2, <2>3, <2>4
  <2>6. HandOver.rest = SubSeq(waiting, 2, Len(waiting))
    BY <2>3, <2>4
  <2>7. /\ HandOver.rest \in Seq(Procs)
        /\ Len(HandOver.rest) = Len(waiting) - 1
        /\ \A i \in 1..(Len(waiting) - 1) : HandOver.rest[i] = waiting[i + 1]
    <3>1. \A i \in 2..Len(waiting) : waiting[i] \in Procs
      BY <2>2
    <3>2. 2 \in Int /\ Len(waiting) \in Int
      BY <2>2
    <3> DEFINE rest == SubSeq(waiting, 2, Len(waiting))
    <3>3. /\ rest \in Seq(Procs)
          /\ Len(rest) = IF 2 <= Len(waiting) THEN Len(waiting) - 2 + 1 ELSE 0
          /\ \A i \in 1..(Len(waiting) - 2 + 1) : rest[i] = waiting[2 + i - 1]
      BY <3>1, <3>2, SubSeqProperties
    <3>4. HandOver.rest = rest
      BY <2>6
    <3> HIDE DEF rest
    <3>5. Len(rest) = Len(waiting) - 1
      <4>1. \A k \in Nat : k >= 1 => (IF 2 <= k THEN k - 2 + 1 ELSE 0) = k - 1
        OBVIOUS
      <4>2. QED
        BY <2>2, <3>3, <4>1, Zenon
    <3>6. ASSUME NEW i \in 1..(Len(waiting) - 1) PROVE rest[i] = waiting[i + 1]
      <4>1. i \in 1..(Len(waiting) - 2 + 1) /\ 2 + i - 1 = i + 1
        BY <2>2
      <4>2. rest[i] = waiting[2 + i - 1]
        BY <3>3, <4>1
      <4>3. QED
        BY <4>1, <4>2
    <3>7. QED
      BY <3>3, <3>4, <3>5, <3>6
  <2>8. QED
    BY <1>3, <2>1, <2>2, <2>5, <2>7
<1>4. QED
  BY <1>2, <1>3

(* signal() with an empty queue takes one permit back.                     *)
LEMMA SignalAloneIInv ==
  ASSUME IInv, NEW p \in Procs, Signal(p), waiting = <<>>
  PROVE  IInv'
<1> USE DEF IInv
<1>1. /\ waiting' = <<>>
      /\ active' = active - 1
      /\ ~destroyed /\ destroyed' = destroyed
      /\ phase[p] = "held"
  BY HandOverIsOne DEF Signal, TypeOK
<1>2. flushing' \in BOOLEAN
  BY Zenon DEF Signal
<1>3. phase' = [q \in Procs |->
         IF q = p \/ (phase[q] = "flush" /\ FlushResolves(active - 1)) THEN "idle"
         ELSE phase[q]]
  <2>1. active - 1 + Len(HandOver.served) = active - 1
    BY <1>1, HandOverIsOne DEF TypeOK
  <2>2. \A q \in Procs : ~ \E i \in 1..Len(HandOver.served) : HandOver.served[i] = q
    BY <1>1, HandOverIsOne
  <2>3. QED
    BY <2>1, <2>2 DEF Signal
<1>4. Holders' = Holders \ {p} /\ p \in Holders
  BY <1>1, <1>3 DEF Holders, TypeOK
<1>5. Cardinality(Holders') = Cardinality(Holders) - 1 /\ Cardinality(Holders) \in Nat
      /\ Cardinality(Holders') \in Nat
  BY <1>4, HoldersFinite, FS_RemoveElement, FS_CardinalityType
<1>6. PermitsBounded'
  BY <1>1, <1>5, SemaphoreAssumption DEF PermitsBounded
<1>7. TypeOK'
  <2>1. active' \in Nat
    BY <1>1, <1>5 DEF PermitsBounded
  <2>2. phase' \in [Procs -> Phases]
    BY <1>3 DEF TypeOK, Phases
  <2>3. waiting' \in Seq(Procs)
    BY <1>1
  <2>4. destroyed' \in BOOLEAN
    BY <1>1 DEF TypeOK
  <2>5. QED
    BY <1>2, <2>1, <2>2, <2>3, <2>4 DEF TypeOK
<1>8. QueueCoherent'
  BY <1>1, <1>3 DEF QueueCoherent, TypeOK
<1>9. NoLostWakeup'
  BY <1>1 DEF NoLostWakeup
<1>10. QED
  BY <1>6, <1>7, <1>8, <1>9

(* signal() with a queue passes the permit on to the oldest waiter.        *)
LEMMA SignalPassesOnIInv ==
  ASSUME IInv, NEW p \in Procs, Signal(p), waiting # <<>>
  PROVE  IInv'
<1> USE DEF IInv
<1> DEFINE w == waiting[1]
<1>1. /\ active = Limit
      /\ Len(waiting) \in Nat /\ Len(waiting) >= 1
      /\ Len(HandOver.served) = 1 /\ HandOver.served[1] = w
      /\ waiting' \in Seq(Procs)
      /\ Len(waiting') = Len(waiting) - 1
      /\ \A i \in 1..(Len(waiting) - 1) : waiting'[i] = waiting[i + 1]
      /\ ~destroyed /\ destroyed' = destroyed
      /\ phase[p] = "held"
  BY HandOverIsOne DEF Signal
<1>2. active' = active
  BY <1>1 DEF Signal, TypeOK
<1>3. flushing' \in BOOLEAN
  BY Zenon DEF Signal
<1>4. phase' = [q \in Procs |->
         IF w = q THEN "held"
         ELSE IF q = p \/ (phase[q] = "flush" /\ FlushResolves(active)) THEN "idle"
         ELSE phase[q]]
  <2>1. active - 1 + Len(HandOver.served) = active
    BY <1>1 DEF TypeOK
  <2>2. \A q \in Procs : (\E i \in 1..Len(HandOver.served) : HandOver.served[i] = q) <=> w = q
    BY <1>1
  <2>3. QED
    BY <2>1, <2>2 DEF Signal
<1>5. w \in Procs /\ phase[w] = "queued" /\ w # p
  BY <1>1 DEF QueueCoherent, TypeOK
<1>6. Holders' = (Holders \ {p}) \cup {w} /\ p \in Holders /\ w \notin Holders
  BY <1>1, <1>4, <1>5 DEF Holders, TypeOK
<1>7. Cardinality(Holders') = Cardinality(Holders)
  <2>1. IsFiniteSet(Holders \ {p}) /\ Cardinality(Holders \ {p}) = Cardinality(Holders) - 1
    BY <1>6, HoldersFinite, FS_RemoveElement
  <2>2. Cardinality((Holders \ {p}) \cup {w}) = Cardinality(Holders \ {p}) + 1
    BY <1>6, <2>1, FS_AddElement
  <2>3. QED
    BY <1>6, <2>1, <2>2, HoldersFinite
<1>8. PermitsBounded'
  BY <1>1, <1>2, <1>7 DEF PermitsBounded
<1>9. TypeOK'
  <2>1. phase' \in [Procs -> Phases]
    BY <1>4 DEF TypeOK, Phases
  <2>2. active' \in Nat /\ destroyed' \in BOOLEAN
    BY <1>1, <1>2 DEF TypeOK
  <2>3. QED
    BY <1>1, <1>3, <2>1, <2>2 DEF TypeOK
<1>10. QueueCoherent'
  <2>1. ASSUME NEW i \in 1..Len(waiting') PROVE phase'[waiting'[i]] = "queued"
    <3>1. i + 1 \in 1..Len(waiting) /\ waiting'[i] = waiting[i + 1]
      BY <1>1
    <3>2. waiting[i + 1] # w /\ waiting[i + 1] \in Procs
      BY <1>1, <3>1 DEF QueueCoherent, TypeOK
    <3>3. phase[waiting[i + 1]] = "queued"
      BY <3>1 DEF QueueCoherent
    <3>4. QED
      BY <1>1, <1>4, <3>1, <3>2, <3>3
  <2>2. ASSUME NEW q \in Procs, phase'[q] = "queued"
        PROVE  \E i \in 1..Len(waiting') : waiting'[i] = q
    <3>1. phase[q] = "queued" /\ q # w
      BY <1>4, <2>2 DEF TypeOK
    <3>2. PICK j \in 1..Len(waiting) : waiting[j] = q
      BY <3>1 DEF QueueCoherent
    <3>3. j - 1 \in 1..Len(waiting') /\ waiting'[j - 1] = q
      BY <1>1, <3>1, <3>2
    <3>4. QED
      BY <3>3
  <2>3. ASSUME NEW i \in 1..Len(waiting'), NEW j \in 1..Len(waiting'),
               waiting'[i] = waiting'[j]
        PROVE  i = j
    <3>1. /\ i + 1 \in 1..Len(waiting) /\ j + 1 \in 1..Len(waiting)
          /\ waiting[i + 1] = waiting[j + 1]
      BY <1>1, <2>3
    <3>2. i + 1 = j + 1
      BY <3>1 DEF QueueCoherent
    <3>3. QED
      BY <1>1, <3>2
  <2>4. QED
    BY <2>1, <2>2, <2>3 DEF QueueCoherent
<1>11. NoLostWakeup'
  BY <1>1, <1>2 DEF NoLostWakeup
<1>12. QED
  BY <1>8, <1>9, <1>10, <1>11

(* signal() after destroy() only ends the holding of its caller.           *)
LEMMA SignalDestroyedIInv ==
  ASSUME IInv, NEW p \in Procs, SignalDestroyed(p)
  PROVE  IInv'
<1> USE DEF IInv, SignalDestroyed
<1>1. TypeOK'
  BY DEF TypeOK, Phases
<1>2. QueueCoherent'
  BY DEF TypeOK, QueueCoherent
<1>3. Holders' = Holders \ {p} /\ p \in Holders
  BY DEF Holders, TypeOK
<1>4. Cardinality(Holders') = Cardinality(Holders) - 1
  BY <1>3, HoldersFinite, FS_RemoveElement
<1>5. PermitsBounded'
  BY <1>4, HoldersFinite, SemaphoreAssumption DEF PermitsBounded
<1>6. NoLostWakeup'
  BY DEF NoLostWakeup
<1>7. QED
  BY <1>1, <1>2, <1>5, <1>6

(* flush() adds no holder and no waiter.                                   *)
LEMMA FlushIInv ==
  ASSUME IInv, NEW p \in Procs, Flush(p)
  PROVE  IInv'
<1> USE DEF IInv, Flush
<1>1. TypeOK'
  BY DEF TypeOK, Phases
<1>2. QueueCoherent'
  BY DEF TypeOK, QueueCoherent
<1>3. Holders' = Holders
  BY DEF Holders, TypeOK
<1>4. PermitsBounded' /\ NoLostWakeup'
  BY <1>3 DEF PermitsBounded, NoLostWakeup
<1>5. QED
  BY <1>1, <1>2, <1>4

(* destroy() empties the queue and leaves the holders alone.               *)
LEMMA DestroyIInv ==
  ASSUME IInv, Destroy
  PROVE  IInv'
<1> USE DEF IInv, Destroy
<1>1. TypeOK'
  <2>1. waiting' \in Seq(Procs)
    OBVIOUS
  <2>2. destroyed' \in BOOLEAN /\ flushing' \in BOOLEAN
    BY Zenon DEF TypeOK
  <2>3. active' \in Nat /\ phase' \in [Procs -> Phases]
    BY DEF TypeOK, Phases
  <2>4. QED
    BY <2>1, <2>2, <2>3 DEF TypeOK
<1>2. QueueCoherent'
  BY DEF TypeOK, QueueCoherent
<1>3. Holders' = Holders
  BY DEF Holders, TypeOK
<1>4. PermitsBounded' /\ NoLostWakeup'
  BY <1>3 DEF PermitsBounded, NoLostWakeup
<1>5. QED
  BY <1>1, <1>2, <1>4

(* Every step of lib/semaphore.js keeps the inductive invariant.           *)
LEMMA NextIInv == IInv /\ [Next]_vars => IInv'
<1> SUFFICES ASSUME IInv, [Next]_vars PROVE IInv'
  OBVIOUS
<1>1. ASSUME NEW p \in Procs, WaitDone(p) PROVE IInv'
  BY <1>1, WaitDoneIInv
<1>2. ASSUME NEW p \in Procs, WaitQueued(p) PROVE IInv'
  BY <1>2, WaitQueuedIInv
<1>3. ASSUME NEW p \in Procs, Signal(p) PROVE IInv'
  BY <1>3, SignalAloneIInv, SignalPassesOnIInv
<1>4. ASSUME NEW p \in Procs, SignalDestroyed(p) PROVE IInv'
  BY <1>4, SignalDestroyedIInv
<1>5. ASSUME NEW p \in Procs, Flush(p) PROVE IInv'
  BY <1>5, FlushIInv
<1>6. CASE Destroy
  BY <1>6, DestroyIInv
<1>7. CASE UNCHANGED vars
  BY <1>7 DEF vars, IInv, TypeOK, QueueCoherent, PermitsBounded, NoLostWakeup, Holders
<1>8. QED
  BY <1>1, <1>2, <1>3, <1>4, <1>5, <1>6, <1>7 DEF Next

(* The inductive invariant holds in every behaviour.                       *)
LEMMA SpecIInv == Spec => []IInv
  BY InitIInv, NextIInv, PTL DEF Spec

(***************************************************************************)
(* For any number of tasks and any limit: never more than Limit attempts   *)
(* hold a permit, and active counts exactly them (lib/semaphore.js).       *)
(***************************************************************************)
THEOREM PermitsBoundedHolds == Spec => []PermitsBounded
<1>1. IInv => PermitsBounded
  BY DEF IInv
<1>2. QED
  BY SpecIInv, <1>1, PTL

(***************************************************************************)
(* For any number of tasks and any limit: a wait() is only queued while    *)
(* every permit is out, so signal() never leaves a freed permit unused.    *)
(***************************************************************************)
THEOREM NoLostWakeupHolds == Spec => []NoLostWakeup
<1>1. IInv => NoLostWakeup
  BY DEF IInv
<1>2. QED
  BY SpecIInv, <1>1, PTL

(* The fields of the semaphore keep their types.                           *)
THEOREM TypeCorrect == Spec => []TypeOK
<1>1. IInv => TypeOK
  BY DEF IInv
<1>2. QED
  BY SpecIInv, <1>1, PTL

-----------------------------------------------------------------------------
(* A task that still awaits flush() after a signal() awaited it before,    *)
(* and signal() did not end the flush: a permit is still out.              *)
LEMMA SignalFlush ==
  ASSUME TypeOK, FlushHasSignaller, NEW p \in Procs, Signal(p)
  PROVE  FlushHasSignaller'
<1> DEFINE stillOut == active - 1 + Len(HandOver.served)
<1> SUFFICES ASSUME NEW q \in Procs, phase'[q] = "flush"
             PROVE  flushing' /\ active' # 0
  BY DEF FlushHasSignaller
<1>1. /\ ~destroyed /\ active' = stillOut
      /\ flushing' = (flushing /\ ~FlushResolves(stillOut))
      /\ phase' = [r \in Procs |->
           IF \E i \in 1..Len(HandOver.served) : HandOver.served[i] = r THEN "held"
           ELSE IF r = p \/ (phase[r] = "flush" /\ FlushResolves(stillOut)) THEN "idle"
           ELSE phase[r]]
  BY DEF Signal
<1> HIDE DEF stillOut
<1>2. phase[q] = "flush" /\ ~FlushResolves(stillOut)
  BY <1>1
<1>3. flushing
  BY <1>1, <1>2 DEF FlushHasSignaller
<1>4. QED
  BY <1>1, <1>2, <1>3 DEF FlushResolves

(* No step leaves a pending flush() without a permit that will resolve it. *)
LEMMA NextFlush == TypeOK /\ FlushHasSignaller /\ [Next]_vars => FlushHasSignaller'
<1> SUFFICES ASSUME TypeOK, FlushHasSignaller, [Next]_vars PROVE FlushHasSignaller'
  OBVIOUS
<1>1. ASSUME NEW p \in Procs, WaitDone(p) PROVE FlushHasSignaller'
  BY <1>1 DEF WaitDone, FlushHasSignaller, TypeOK
<1>2. ASSUME NEW p \in Procs, WaitQueued(p) PROVE FlushHasSignaller'
  BY <1>2 DEF WaitQueued, FlushHasSignaller, TypeOK
<1>3. ASSUME NEW p \in Procs, Signal(p) PROVE FlushHasSignaller'
  BY <1>3, SignalFlush
<1>4. ASSUME NEW p \in Procs, SignalDestroyed(p) PROVE FlushHasSignaller'
  BY <1>4 DEF SignalDestroyed, FlushHasSignaller
<1>5. ASSUME NEW p \in Procs, Flush(p) PROVE FlushHasSignaller'
  BY <1>5 DEF Flush, FlushNeeded, FlushHasSignaller
<1>6. CASE Destroy
  BY <1>6 DEF Destroy, FlushHasSignaller
<1>7. CASE UNCHANGED vars
  BY <1>7 DEF vars, FlushHasSignaller
<1>8. QED
  BY <1>1, <1>2, <1>3, <1>4, <1>5, <1>6, <1>7 DEF Next

(***************************************************************************)
(* For any number of tasks and any limit: flush() never waits for a        *)
(* promise that no signal() will resolve (lib/semaphore.js).               *)
(***************************************************************************)
THEOREM FlushHasSignallerHolds == Spec => []FlushHasSignaller
<1>1. Init => FlushHasSignaller
  BY DEF Init, FlushHasSignaller
<1>2. IInv => TypeOK
  BY DEF IInv
<1>3. QED
  BY <1>1, <1>2, SpecIInv, NextFlush, PTL DEF Spec
=============================================================================
