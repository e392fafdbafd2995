---------------------------- MODULE AnnouncerProofs ----------------------------
(***************************************************************************)
(* Proofs about the announcer, lib/announcer.js, for any number of relays, *)
(* of overlapping suspend() calls and of ping rounds.                      *)
(*                                                                         *)
(* That an unannounce never runs beside an update (UnannounceExcludes-     *)
(* Update) holds because an update that waits for _unannouncing is the     *)
(* last in line (QueueInv).  Where the record is, in every phase of an     *)
(* update, is StoredInv; when the newest generation is exact is CleanInv;  *)
(* what a suspend() still owes is SuspendInv.                              *)
(***************************************************************************)
EXTENDS Announcer, FiniteSetTheorems, SequenceTheorems, TLAPS

InUpdate == bg \in {"query", "commit", "remove"}

Shapes ==
  /\ gen \in [0..2 -> SUBSET Relays]
  /\ suspPc \in [Suspends -> {"idle", "updating", "unannounce"}]
  /\ queue \in Seq(Tasks)
  /\ owner \in Suspends \cup {StopTask, Nobody}

(* The line of tasks that await _unannouncing: empty when nothing runs, an *)
(* update only at its end, and no suspend() twice.                         *)
QueueInv ==
  /\ InUpdate => owner = Nobody
  /\ owner = Nobody => queue = <<>> /\ unannounces = {}
  /\ \A i \in 1..Len(queue) : queue[i] = Update => i = Len(queue) /\ bg = "unannounced"
  /\ \A i \in 1..Len(queue) : queue[i] # owner
  /\ \A i, j \in 1..Len(queue) : queue[i] = queue[j] => i = j

(* The record is nowhere but on the relays the announcer knows of.         *)
StoredInv ==
  ~aborted =>
    /\ ~InUpdate => stored \ lost \subseteq gen[2]
    /\ bg \in {"query", "commit"} => stored \ lost \subseteq gen[1] \cup gen[2]
    /\ bg = "remove" => stored \ lost \subseteq gen[2] \cup removing

(* No unannounce has begun since the newest generation was committed: one  *)
(* that a resume() overtook leaves its refresh owed until the next update. *)
Clean ==
  \/ bg \in {"commit", "remove"}
  \/ bg \in {"ping", "sleep", "offline"} /\ ~suspended /\ ~stopped /\ ~wanted

CleanInv ==
  /\ Clean => owner = Nobody /\ gen[2] \ lost \subseteq stored
  /\ bg = "query" => gen[2] = {}
  /\ bg = "remove" => removing \cap gen[2] = {}

(* The tasks that own or await _unannouncing say so.                       *)
OwnersInv ==
  /\ owner \in Suspends => suspPc[owner] = "unannounce"
  /\ owner = StopTask => stopPc = "unannounce"
  /\ \A i \in 1..Len(queue) :
       /\ queue[i] \in Suspends => suspPc[queue[i]] = "unannounce"
       /\ queue[i] = StopTask => stopPc = "unannounce"
  /\ stopPc # "no" => stopped
  /\ bg = "done" => stopped

SomeoneAwaits == \E s \in Suspends : suspPc[s] = "updating"

(* A suspended announcer is unannounced, or some suspend() will see to it. *)
SuspendInv ==
  /\ ~aborted /\ owner # Nobody => stored \ lost \subseteq unannounces
  /\ suspended /\ ~stopped /\ Updating => SomeoneAwaits
  /\ suspended /\ ~stopped /\ ~aborted => SomeoneAwaits \/ owner # Nobody \/ stored \subseteq lost

AInv == Shapes /\ QueueInv /\ StoredInv /\ CleanInv /\ OwnersInv /\ SuspendInv

-----------------------------------------------------------------------------
(* start() begins its first update with an empty generation.               *)
LEMMA InitAInv == Init => AInv
<1> SUFFICES ASSUME Init PROVE AInv
  OBVIOUS
<1> USE DEF Init, InUpdate, Updating, Nobody
<1>1. Shapes
  BY DEF Shapes
<1>2. QueueInv
  BY DEF QueueInv
<1>3. StoredInv
  BY DEF StoredInv
<1>4. CleanInv
  BY DEF CleanInv, Clean
<1>5. OwnersInv
  BY AnnouncerAssumption DEF OwnersInv, StopTask
<1>6. SuspendInv
  BY DEF SuspendInv
<1>7. QED
  BY <1>1, <1>2, <1>3, <1>4, <1>5, <1>6 DEF AInv

(* A request of _commit() settles: the new generation only gains a relay   *)
(* that stored the record.                                                 *)
LEMMA CommitSettlesAInv ==
  ASSUME AInv, NEW r \in Relays, CommitSettles(r)
  PROVE  AInv'
<1> USE DEF AInv, CommitSettles, unVars, flagVars, InUpdate, Updating, Nobody
<1>0. gen' \in [0..2 -> SUBSET Relays] /\ gen'[1] = gen[1] /\ gen[2] \subseteq gen'[2]
  BY DEF Shapes
<1>1. Shapes'
  BY <1>0 DEF Shapes
<1>2. QueueInv'
  BY DEF QueueInv
<1>3. StoredInv'
  BY <1>0 DEF StoredInv, Shapes
<1>4. CleanInv'
  BY <1>0 DEF CleanInv, Clean, Shapes
<1>5. OwnersInv'
  BY DEF OwnersInv
<1>6. SuspendInv'
  BY DEF SuspendInv, SomeoneAwaits, CleanInv, Clean
<1>7. QED
  BY <1>1, <1>2, <1>3, <1>4, <1>5, <1>6 DEF AInv

(* An UNANNOUNCE of _update() settles: its relay is not of the newest      *)
(* generation, and one fewer may still hold the record.                    *)
LEMMA RemoveSettlesAInv ==
  ASSUME AInv, NEW r \in Relays, RemoveSettles(r)
  PROVE  AInv'
<1> USE DEF AInv, RemoveSettles, Unannounced, unVars, flagVars, InUpdate, Updating, Nobody
<1>1. Shapes'
  BY DEF Shapes
<1>2. QueueInv'
  BY DEF QueueInv
<1>3. StoredInv'
  BY DEF StoredInv, Shapes
<1>4. CleanInv'
  BY DEF CleanInv, Clean, Shapes
<1>5. OwnersInv'
  BY DEF OwnersInv
<1>6. SuspendInv'
  BY DEF SuspendInv, SomeoneAwaits, CleanInv, Clean
<1>7. QED
  BY <1>1, <1>2, <1>3, <1>4, <1>5, <1>6 DEF AInv

(* An UNANNOUNCE of _unannounceAll() settles.                              *)
LEMMA UnannounceSettlesAInv ==
  ASSUME AInv, NEW r \in Relays, UnannounceSettles(r)
  PROVE  AInv'
<1> USE DEF AInv, UnannounceSettles, Unannounced, bgVars, flagVars, InUpdate, Updating, Nobody
<1>0. owner # Nobody
  BY DEF QueueInv
<1>1. Shapes'
  BY DEF Shapes
<1>2. QueueInv'
  BY <1>0 DEF QueueInv
<1>3. StoredInv'
  BY <1>0 DEF StoredInv, Shapes, QueueInv
<1>4. CleanInv'
  BY <1>0 DEF CleanInv, Clean, Shapes
<1>5. OwnersInv'
  BY DEF OwnersInv
<1>6. SuspendInv'
  BY <1>0 DEF SuspendInv, SomeoneAwaits
<1>7. QED
  BY <1>1, <1>2, <1>3, <1>4, <1>5, <1>6 DEF AInv

-----------------------------------------------------------------------------
(* An enumeration of the awaiting suspend() calls has each of them once.   *)
LEMMA OrderOfAwaiting ==
  ASSUME Shapes, AwaitingUpdate # {}, NEW order \in SetToSeqs(AwaitingUpdate)
  PROVE  /\ order \in Seq(AwaitingUpdate) /\ order # <<>>
         /\ Len(order) \in Nat \ {0}
         /\ \A i, j \in 1..Len(order) : order[i] = order[j] => i = j
<1> DEFINE n == Cardinality(AwaitingUpdate)
<1>1. AwaitingUpdate \in SUBSET Suspends
  BY DEF AwaitingUpdate
<1>2. IsFiniteSet(AwaitingUpdate) /\ n \in Nat
  BY <1>1, AnnouncerAssumption, FS_Subset, FS_CardinalityType
<1>3. n # 0
  BY <1>2, FS_EmptySet
<1> HIDE DEF n
<1>4. /\ order \in [1..n -> AwaitingUpdate]
      /\ \A i, j \in 1..n : i # j => order[i] # order[j]
  BY DEF SetToSeqs, n
<1>5. order \in Seq(AwaitingUpdate) /\ Len(order) = n
  BY <1>2, <1>4
<1>6. QED
  BY <1>2, <1>3, <1>4, <1>5

(* Where the loop goes when an update returns: it rests only if nothing    *)
(* interrupted it.                                                         *)
LEMMA AfterUpdateGoes ==
  ASSUME AfterUpdate
  PROVE  /\ bg' \in {"offline", "done", "suspended", "ping"}
         /\ bg' = "done" => stopped
         /\ bg' = "offline" => ~suspended /\ ~stopped
         /\ bg' = "ping" => ~suspended /\ ~stopped
  BY DEF AfterUpdate, LoopHead

(* _update() returns, early or not, and the suspend() calls that awaited   *)
(* it start an unannounce if the announcer is still suspended.             *)
LEMMA EndUpdateAInv ==
  ASSUME AInv, InUpdate, NEW early \in BOOLEAN, EndUpdate(early),
         early => Interrupted, ~early => bg = "remove" /\ removing = {},
         UNCHANGED <<suspended, stopped, stopPc, notified, stored, lost>>
  PROVE  AInv'
<1> USE DEF AInv, EndUpdate, Nobody
<1>0. owner = Nobody /\ queue = <<>> /\ unannounces = {}
  BY DEF QueueInv
<1>1. /\ bg' \in {"offline", "done", "suspended", "ping"}
      /\ bg' = "done" => stopped
      /\ bg' = "offline" => ~suspended /\ ~stopped
      /\ bg' = "ping" => ~suspended /\ ~stopped
  BY AfterUpdateGoes
<1>2. ~InUpdate' /\ ~Updating'
  BY <1>1 DEF InUpdate, Updating
<1>3. /\ suspPc' \in [Suspends -> {"idle", "updating", "unannounce"}]
      /\ queue' \in Seq(Tasks) /\ owner' \in Suspends \cup {Nobody}
      /\ owner' = Nobody => queue' = <<>> /\ unannounces' = {}
      /\ owner' # Nobody => suspended /\ ~stopped /\ unannounces' = gen[2]
      /\ AwaitingUpdate # {} /\ suspended /\ ~stopped => owner' # Nobody
      /\ owner' # Nobody => suspPc'[owner'] = "unannounce"
      /\ \A i \in 1..Len(queue') :
            queue'[i] \in Suspends /\ suspPc'[queue'[i]] = "unannounce" /\ queue'[i] # owner'
      /\ \A i, j \in 1..Len(queue') : queue'[i] = queue'[j] => i = j
  <2>1. CASE AwaitingUpdate # {} /\ StillSuspended
    <3>1. PICK order \in SetToSeqs(AwaitingUpdate) :
             owner' = Head(order) /\ queue' = queue \o Tail(order)
      BY <2>1 DEF ResumeSuspends
    <3>2. /\ order \in Seq(AwaitingUpdate) /\ order # <<>>
          /\ Len(order) \in Nat \ {0}
          /\ \A i, j \in 1..Len(order) : order[i] = order[j] => i = j
      BY <2>1, OrderOfAwaiting
    <3>3. /\ Tail(order) \in Seq(AwaitingUpdate)
          /\ Len(Tail(order)) = Len(order) - 1
          /\ \A i \in 1..Len(Tail(order)) : Tail(order)[i] = order[i + 1]
      BY <3>2, HeadTailProperties
    <3>4. queue' = Tail(order)
      BY <1>0, <3>1, <3>3
    <3>5. owner' = order[1] /\ owner' \in AwaitingUpdate
      BY <3>1, <3>2
    <3>6. AwaitingUpdate \subseteq Suspends /\ Suspends \subseteq Tasks /\ Nobody \notin Suspends
      BY AnnouncerAssumption DEF AwaitingUpdate, Tasks
    <3>7. queue' \in Seq(Tasks)
      BY <3>3, <3>4, <3>6
    <3>8. /\ suspPc' = [s \in Suspends |->
                          IF s \in AwaitingUpdate THEN "unannounce" ELSE suspPc[s]]
          /\ unannounces' = gen[2]
      BY <2>1 DEF ResumeSuspends, CurrentRelays
    <3>9. \A i \in 1..Len(queue') : queue'[i] = order[i + 1] /\ queue'[i] \in AwaitingUpdate
      BY <3>3, <3>4
    <3>10. \A i \in 1..Len(queue') : i + 1 \in 1..Len(order) /\ i + 1 # 1
      BY <3>2, <3>3, <3>4
    <3>11. \A i \in 1..Len(queue') :
            queue'[i] \in Suspends /\ suspPc'[queue'[i]] = "unannounce" /\ queue'[i] # owner'
      BY <3>2, <3>5, <3>6, <3>8, <3>9, <3>10
    <3>12. \A i, j \in 1..Len(queue') : queue'[i] = queue'[j] => i = j
      BY <3>2, <3>9, <3>10
    <3>13. suspPc' \in [Suspends -> {"idle", "updating", "unannounce"}]
      BY <3>8 DEF Shapes
    <3>14. owner' \in Suspends \cup {Nobody} /\ owner' # Nobody /\ suspPc'[owner'] = "unannounce"
      BY <3>5, <3>6, <3>8
    <3>15. QED
      BY <2>1, <3>7, <3>8, <3>11, <3>12, <3>13, <3>14 DEF StillSuspended
  <2>2. CASE ~(AwaitingUpdate # {} /\ StillSuspended)
    <3>1. /\ suspPc' = [s \in Suspends |->
                          IF s \in AwaitingUpdate THEN "idle" ELSE suspPc[s]]
          /\ owner' = Nobody /\ queue' = <<>> /\ unannounces' = {}
      BY <1>0, <2>2 DEF ResumeSuspends, unVars
    <3>2. suspPc' \in [Suspends -> {"idle", "updating", "unannounce"}]
      BY <3>1 DEF Shapes
    <3>3. queue' \in Seq(Tasks) /\ Len(queue') = 0
      BY <3>1
    <3>4. QED
      BY <2>2, <3>1, <3>2, <3>3 DEF StillSuspended
  <2>3. QED
    BY <2>1, <2>2
<1>4. ~aborted' => bg = "remove" /\ removing = {} /\ stored' \ lost' \subseteq gen'[2] /\ ~aborted
  BY DEF StoredInv
<1>5. Shapes'
  BY <1>3 DEF Shapes
<1>6. QueueInv'
  BY <1>2, <1>3, AnnouncerAssumption DEF QueueInv, Update
<1>7. StoredInv'
  BY <1>1, <1>2, <1>4 DEF StoredInv
<1>8. CleanInv'
  <2>1. bg' \in {"offline", "ping"} => owner' = Nobody /\ ~early /\ bg = "remove"
    BY <1>1, <1>3 DEF Interrupted
  <2>2. Clean' => bg' \in {"offline", "ping"}
    BY <1>1 DEF Clean
  <2>3. bg = "remove" => gen'[2] \ lost' \subseteq stored'
    BY DEF CleanInv, Clean
  <2>4. QED
    BY <1>1, <2>1, <2>2, <2>3 DEF CleanInv
<1>9. OwnersInv'
  BY <1>1, <1>3, AnnouncerAssumption DEF OwnersInv, StopTask
<1>10. SuspendInv'
  <2>1. suspended /\ ~stopped => AwaitingUpdate # {}
    BY DEF SuspendInv, SomeoneAwaits, AwaitingUpdate, InUpdate, Updating
  <2>2. QED
    BY <1>2, <1>3, <1>4, <2>1 DEF SuspendInv
<1>11. QED
  BY <1>5, <1>6, <1>7, <1>8, <1>9, <1>10 DEF AInv

(* The query of an update finished.                                        *)
LEMMA QueryDoneAInv ==
  ASSUME AInv, QueryDone
  PROVE  AInv'
<1>1. CASE Interrupted
  BY <1>1, EndUpdateAInv DEF QueryDone, InUpdate
<1>2. CASE ~Interrupted
  <2> USE <1>2 DEF AInv, QueryDone, unVars, InUpdate, Updating, Nobody
  <2>1. Shapes'
    BY DEF Shapes
  <2>2. QueueInv'
    BY DEF QueueInv
  <2>3. StoredInv'
    BY DEF StoredInv
  <2>4. CleanInv'
    BY DEF CleanInv, Clean, QueueInv
  <2>5. OwnersInv'
    BY DEF OwnersInv
  <2>6. SuspendInv'
    BY DEF SuspendInv, SomeoneAwaits, Interrupted
  <2>7. QED
    BY <2>1, <2>2, <2>3, <2>4, <2>5, <2>6 DEF AInv
<1>3. QED
  BY <1>1, <1>2

(* The requests of an update are settled: it removes the relays of the     *)
(* generation before that the new one does not have.                       *)
LEMMA CommitsDoneAInv ==
  ASSUME AInv, CommitsDone
  PROVE  AInv'
<1>1. CASE Interrupted
  BY <1>1, EndUpdateAInv DEF CommitsDone, InUpdate
<1>2. CASE ~Interrupted
  <2> USE <1>2 DEF AInv, CommitsDone, unVars, InUpdate, Updating, Nobody
  <2>1. Shapes'
    BY DEF Shapes
  <2>2. QueueInv'
    BY DEF QueueInv
  <2>3. StoredInv'
    BY DEF StoredInv, Removed
  <2>4. CleanInv'
    BY DEF CleanInv, Clean, Removed
  <2>5. OwnersInv'
    BY DEF OwnersInv
  <2>6. SuspendInv'
    BY DEF SuspendInv, SomeoneAwaits, Interrupted
  <2>7. QED
    BY <2>1, <2>2, <2>3, <2>4, <2>5, <2>6 DEF AInv
<1>3. QED
  BY <1>1, <1>2

(* The removals of an update are settled.                                  *)
LEMMA UpdateDoneAInv ==
  ASSUME AInv, UpdateDone
  PROVE  AInv'
  BY EndUpdateAInv DEF UpdateDone, InUpdate

-----------------------------------------------------------------------------
(* The background task leaves its ping loop or its wait: it ends, waits    *)
(* while suspended, or begins an update, which lines up behind an          *)
(* unannounce that is under way.                                           *)
LEMMA AfterPingsAInv ==
  ASSUME AInv, bg \in {"ping", "sleep", "suspended"}, AfterPings,
         UNCHANGED <<suspended, stopped, suspPc, stopPc, owner, unannounces, stored, lost, aborted>>
  PROVE  AInv'
<1> USE DEF AInv, Nobody
<1>1. CASE bg' \in {"done", "suspended"} /\ (bg' = "done" => stopped) /\ UNCHANGED <<gen, queue>>
  <2> USE <1>1 DEF InUpdate, Updating
  <2>1. Shapes'
    BY DEF Shapes
  <2>2. QueueInv'
    BY DEF QueueInv
  <2>3. StoredInv'
    BY DEF StoredInv
  <2>4. CleanInv'
    BY DEF CleanInv, Clean
  <2>5. OwnersInv'
    BY DEF OwnersInv
  <2>6. SuspendInv'
    BY DEF SuspendInv, SomeoneAwaits
  <2>7. QED
    BY <2>1, <2>2, <2>3, <2>4, <2>5, <2>6 DEF AInv
<1>2. CASE /\ ~suspended /\ owner # Nobody /\ bg' = "unannounced"
           /\ queue' = Append(queue, Update) /\ UNCHANGED gen
  <2> USE <1>2 DEF InUpdate, Updating
  <2>0. /\ queue' \in Seq(Tasks)
        /\ Len(queue) \in Nat /\ Len(queue') = Len(queue) + 1
        /\ \A i \in 1..Len(queue) : queue'[i] = queue[i]
        /\ queue'[Len(queue) + 1] = Update
    BY AppendProperties DEF Shapes, Tasks
  <2>a. \A i \in 1..Len(queue) : queue[i] # Update
    BY DEF QueueInv
  <2>b. Update \notin Suspends /\ Update # StopTask /\ owner # Update
    BY AnnouncerAssumption DEF Update, StopTask, Shapes
  <2>1. Shapes'
    BY <2>0 DEF Shapes
  <2>2. QueueInv'
    BY <2>0, <2>a, <2>b DEF QueueInv
  <2>3. StoredInv'
    BY DEF StoredInv
  <2>4. CleanInv'
    BY DEF CleanInv, Clean
  <2>5. OwnersInv'
    BY <2>0, <2>b DEF OwnersInv
  <2>6. SuspendInv'
    BY DEF SuspendInv
  <2>7. QED
    BY <2>1, <2>2, <2>3, <2>4, <2>5, <2>6 DEF AInv
<1>3. CASE ~suspended /\ owner = Nobody /\ bg' = "query" /\ gen' = Cycle /\ UNCHANGED queue
  <2> USE <1>3 DEF InUpdate, Updating
  <2>0. gen' \in [0..2 -> SUBSET Relays] /\ gen'[1] = gen[2] /\ gen'[2] = {}
    BY DEF Shapes, Cycle
  <2>1. Shapes'
    BY <2>0 DEF Shapes
  <2>2. QueueInv'
    BY DEF QueueInv
  <2>3. StoredInv'
    BY <2>0 DEF StoredInv
  <2>4. CleanInv'
    BY <2>0 DEF CleanInv, Clean
  <2>5. OwnersInv'
    BY DEF OwnersInv
  <2>6. SuspendInv'
    BY DEF SuspendInv
  <2>7. QED
    BY <2>1, <2>2, <2>3, <2>4, <2>5, <2>6 DEF AInv
<1>4. QED
  BY <1>1, <1>2, <1>3 DEF AfterPings, EnterUpdate

(* The pings of a round settled.                                           *)
LEMMA PingsDoneAInv ==
  ASSUME AInv, PingsDone
  PROVE  AInv'
<1>1. CASE AfterPings
  BY <1>1, AfterPingsAInv DEF PingsDone
<1>2. CASE /\ bg' \in {"done", "sleep"} /\ (bg' = "done" => stopped)
           /\ UNCHANGED <<gen, queue, wanted>>
  <2> USE <1>2 DEF AInv, PingsDone, InUpdate, Updating, Nobody
  <2>1. Shapes'
    BY DEF Shapes
  <2>2. QueueInv'
    BY DEF QueueInv
  <2>3. StoredInv'
    BY DEF StoredInv
  <2>4. CleanInv'
    BY DEF CleanInv, Clean
  <2>5. OwnersInv'
    BY DEF OwnersInv
  <2>6. SuspendInv'
    BY DEF SuspendInv, SomeoneAwaits
  <2>7. QED
    BY <2>1, <2>2, <2>3, <2>4, <2>5, <2>6 DEF AInv
<1>3. QED
  BY <1>1, <1>2 DEF PingsDone

(* The pause between two rounds of pings ended.                            *)
LEMMA SleepDoneAInv ==
  ASSUME AInv, SleepDone
  PROVE  AInv'
<1>1. CASE AfterPings
  BY <1>1, AfterPingsAInv DEF SleepDone, flagVars
<1>2. CASE bg' = "ping" /\ UNCHANGED <<gen, queue, wanted>>
  <2> USE <1>2 DEF AInv, SleepDone, flagVars, InUpdate, Updating, Nobody
  <2>1. Shapes'
    BY DEF Shapes
  <2>2. QueueInv'
    BY DEF QueueInv
  <2>3. StoredInv'
    BY DEF StoredInv
  <2>4. CleanInv'
    BY DEF CleanInv, Clean
  <2>5. OwnersInv'
    BY DEF OwnersInv
  <2>6. SuspendInv'
    BY DEF SuspendInv, SomeoneAwaits
  <2>7. QED
    BY <2>1, <2>2, <2>3, <2>4, <2>5, <2>6 DEF AInv
<1>3. QED
  BY <1>1, <1>2 DEF SleepDone

(* The _resumed signal.                                                    *)
LEMMA ResumedSignalAInv ==
  ASSUME AInv, ResumedSignal
  PROVE  AInv'
  BY AfterPingsAInv DEF ResumedSignal, flagVars

(* The online signal: the loop rests only if nothing interrupted it.       *)
LEMMA OnlineSignalAInv ==
  ASSUME AInv, OnlineSignal
  PROVE  AInv'
<1> USE DEF AInv, OnlineSignal, LoopHead, unVars, InUpdate, Updating, Nobody
<1>1. Shapes'
  BY DEF Shapes
<1>2. QueueInv'
  BY DEF QueueInv
<1>3. StoredInv'
  BY DEF StoredInv
<1>4. CleanInv'
  BY DEF CleanInv, Clean
<1>5. OwnersInv'
  BY DEF OwnersInv
<1>6. SuspendInv'
  BY DEF SuspendInv, SomeoneAwaits
<1>7. QED
  BY <1>1, <1>2, <1>3, <1>4, <1>5, <1>6 DEF AInv

-----------------------------------------------------------------------------
(* suspend(): while an update runs it only waits for it; otherwise it      *)
(* lines up, or begins to take the record from every relay that holds it.  *)
LEMMA SuspendAInv ==
  ASSUME AInv, NEW s \in Suspends, Suspend(s)
  PROVE  AInv'
<1> USE DEF AInv, Suspend, bgVars, Nobody
<1>0. /\ suspPc' \in [Suspends -> {"idle", "updating", "unannounce"}]
      /\ \A t \in Suspends \ {s} : suspPc'[t] = suspPc[t]
  BY DEF Shapes
<1>a. /\ s \notin {Nobody, Update, StopTask} /\ owner # s
      /\ \A i \in 1..Len(queue) : queue[i] # s
  BY AnnouncerAssumption DEF OwnersInv, Update, StopTask
<1>1. CASE UNCHANGED unVars
  <2> USE <1>1 DEF InUpdate, Updating, unVars, AwaitsUpdate
  <2>1. Shapes'
    BY <1>0 DEF Shapes
  <2>2. QueueInv'
    BY DEF QueueInv
  <2>3. StoredInv'
    BY DEF StoredInv
  <2>4. CleanInv'
    BY DEF CleanInv, Clean
  <2>5. OwnersInv'
    BY <1>0, <1>a DEF OwnersInv
  <2>6. ~stopped => SomeoneAwaits'
    <3>1. CASE AwaitsUpdate
      BY <3>1, <1>0 DEF Shapes, SomeoneAwaits
    <3>2. CASE ~AwaitsUpdate /\ ~stopped
      BY <3>2, <1>a DEF UnannounceCurrent, Shapes
    <3>3. QED
      BY <3>1, <3>2
  <2>7. SuspendInv'
    BY <2>6 DEF SuspendInv
  <2>8. QED
    BY <2>1, <2>2, <2>3, <2>4, <2>5, <2>7 DEF AInv
<1>2. CASE ~AwaitsUpdate /\ ~stopped
  <2> USE <1>2 DEF InUpdate, Updating, AwaitsUpdate, UnannounceCurrent, CurrentRelays
  <2>0. suspPc'[s] = "unannounce" /\ owner' # Nobody
    BY <1>a DEF Shapes
  <2>1. Shapes'
    BY <1>0, <1>a, AppendProperties DEF Shapes, Tasks
  <2>2. QueueInv' /\ OwnersInv'
    <3>1. CASE owner = Nobody
      BY <3>1, <1>0, <1>a, <2>0 DEF QueueInv, OwnersInv
    <3>2. CASE owner # Nobody
      <4>1. /\ Len(queue) \in Nat /\ Len(queue') = Len(queue) + 1
            /\ \A i \in 1..Len(queue) : queue'[i] = queue[i]
            /\ queue'[Len(queue) + 1] = s
        BY <3>2, AppendProperties DEF Shapes, Tasks
      <4>2. QueueInv'
        BY <3>2, <4>1, <1>a DEF QueueInv
      <4>3. OwnersInv'
        BY <3>2, <4>1, <1>0, <1>a, <2>0 DEF OwnersInv
      <4>4. QED
        BY <4>2, <4>3
    <3>3. QED
      BY <3>1, <3>2
  <2>3. StoredInv'
    BY DEF StoredInv
  <2>4. CleanInv'
    BY DEF CleanInv, Clean
  <2>5. SuspendInv'
    BY <2>0 DEF SuspendInv, StoredInv
  <2>6. QED
    BY <2>1, <2>2, <2>3, <2>4, <2>5 DEF AInv
<1>3. QED
  BY <1>1, <1>2

(* resume(): the update it asks for is owed from now on, wherever the      *)
(* background task is, at the offline wait too.                            *)
LEMMA ResumeAInv ==
  ASSUME AInv, Resume
  PROVE  AInv'
<1> USE DEF AInv, Resume, bgVars, unVars, InUpdate, Updating, Nobody
<1>0. stopped \/ wanted'
  OBVIOUS
<1>1. Shapes'
  BY DEF Shapes
<1>2. QueueInv'
  BY DEF QueueInv
<1>3. StoredInv'
  BY DEF StoredInv
<1>4. CleanInv'
  BY <1>0 DEF CleanInv, Clean
<1>5. OwnersInv'
  BY DEF OwnersInv
<1>6. SuspendInv'
  BY DEF SuspendInv
<1>7. QED
  BY <1>1, <1>2, <1>3, <1>4, <1>5, <1>6 DEF AInv

(* refresh(), stop() and the changes of the network touch flags only.      *)
LEMMA FlagsAInv ==
  ASSUME AInv, Refresh \/ Stop \/ NetworkDown \/ NetworkUp
  PROVE  AInv'
<1> USE DEF AInv, bgVars, unVars, InUpdate, Updating, Nobody
<1>0. /\ UNCHANGED <<bg, gen, removing, suspended, suspPc, owner, unannounces, queue, stored, lost, aborted>>
      /\ stopped => stopped'
      /\ wanted => wanted'
      /\ stopPc' # stopPc => stopPc = "no" /\ stopPc' = "active" /\ stopped'
  <2>1. CASE Refresh
    BY <2>1 DEF Refresh
  <2>2. CASE Stop
    BY <2>2 DEF Stop, StopNotifies
  <2>3. CASE NetworkDown
    BY <2>3 DEF NetworkDown
  <2>4. CASE NetworkUp
    BY <2>4 DEF NetworkUp
  <2>5. QED
    BY <2>1, <2>2, <2>3, <2>4
<1>1. Shapes'
  BY <1>0 DEF Shapes
<1>2. QueueInv'
  BY <1>0 DEF QueueInv
<1>3. StoredInv'
  BY <1>0 DEF StoredInv
<1>4. CleanInv'
  BY <1>0 DEF CleanInv, Clean
<1>5. OwnersInv'
  BY <1>0, AnnouncerAssumption DEF OwnersInv
<1>6. SuspendInv'
  BY <1>0 DEF SuspendInv, SomeoneAwaits
<1>7. QED
  BY <1>1, <1>2, <1>3, <1>4, <1>5, <1>6 DEF AInv

(* stop() goes on after the background task ended.                         *)
LEMMA StopActiveAInv ==
  ASSUME AInv, StopActive
  PROVE  AInv'
<1> USE DEF AInv, StopActive, ActiveEnded, UnannounceCurrent, CurrentRelays, bgVars, flagVars,
            InUpdate, Updating, Nobody
<1>0. /\ owner # StopTask /\ stopped /\ StopTask \notin Suspends /\ StopTask # Update
      /\ StopTask # Nobody
      /\ \A i \in 1..Len(queue) : queue[i] # StopTask
  BY AnnouncerAssumption DEF OwnersInv, StopTask, Update
<1>1. Shapes'
  BY AppendProperties DEF Shapes, Tasks
<1>2. QueueInv' /\ OwnersInv'
  <2>1. CASE owner = Nobody
    BY <2>1, <1>0 DEF QueueInv, OwnersInv
  <2>2. CASE owner # Nobody
    <3>1. /\ Len(queue) \in Nat /\ Len(queue') = Len(queue) + 1
          /\ \A i \in 1..Len(queue) : queue'[i] = queue[i]
          /\ queue'[Len(queue) + 1] = StopTask
      BY <2>2, AppendProperties DEF Shapes, Tasks
    <3>2. QueueInv'
      BY <2>2, <3>1, <1>0 DEF QueueInv
    <3>3. OwnersInv'
      BY <2>2, <3>1, <1>0 DEF OwnersInv
    <3>4. QED
      BY <3>2, <3>3
  <2>3. QED
    BY <2>1, <2>2
<1>3. StoredInv'
  BY DEF StoredInv
<1>4. CleanInv'
  BY DEF CleanInv, Clean
<1>5. SuspendInv'
  BY <1>0 DEF SuspendInv, StoredInv
<1>6. QED
  BY <1>1, <1>2, <1>3, <1>4, <1>5 DEF AInv

(* An unannounce settled: nothing is stored any more, its caller returns,  *)
(* and the next in line unannounces again or, an update and so the last,   *)
(* begins its query.                                                       *)
LEMMA UnannounceDoneAInv ==
  ASSUME AInv, UnannounceDone
  PROVE  AInv'
<1> USE DEF AInv, Nobody
<1>d. /\ Returned(owner) /\ owner # Nobody /\ unannounces = {}
      /\ UNCHANGED <<removing, suspended, stopped, stored, lost, aborted>>
  BY DEF UnannounceDone, flagVars
<1>0. /\ suspPc' \in [Suspends -> {"idle", "updating", "unannounce"}]
      /\ \A t \in Suspends : t # owner => suspPc'[t] = suspPc[t]
      /\ owner \in Suspends => suspPc[owner] = "unannounce"
      /\ ~InUpdate /\ owner # Nobody
      /\ ~aborted => stored \subseteq lost
  BY <1>d DEF Returned, Shapes, QueueInv, OwnersInv, SuspendInv
<1>a. /\ stopPc' = IF owner = StopTask THEN "done" ELSE stopPc
      /\ stopPc' # "no" => stopPc # "no"
  BY <1>d DEF Returned, OwnersInv
<1>b. SomeoneAwaits => SomeoneAwaits'
  BY <1>0 DEF SomeoneAwaits
<1>c. Len(queue) \in Nat /\ queue \in Seq(Tasks)
  BY DEF Shapes
<1>1. CASE queue = <<>> /\ owner' = Nobody /\ UNCHANGED <<bg, gen, queue, unannounces, wanted>>
  <2> USE <1>1, <1>d DEF InUpdate, Updating
  <2>1. Shapes'
    BY <1>0 DEF Shapes
  <2>2. QueueInv'
    BY <1>0 DEF QueueInv
  <2>3. StoredInv'
    BY DEF StoredInv
  <2>4. CleanInv'
    BY <1>0 DEF CleanInv, Clean
  <2>5. OwnersInv'
    BY <1>0, <1>a, AnnouncerAssumption DEF OwnersInv, StopTask
  <2>6. SuspendInv'
    BY <1>0, <1>b DEF SuspendInv
  <2>7. QED
    BY <2>1, <2>2, <2>3, <2>4, <2>5, <2>6 DEF AInv
<1>2. CASE /\ queue # <<>> /\ NextInQueue # Update /\ owner' = NextInQueue
           /\ unannounces' = CurrentRelays /\ queue' = Tail(queue) /\ UNCHANGED <<bg, gen, wanted>>
  <2> USE <1>d
  <2>0. /\ owner' = queue[1] /\ owner' \in Tasks /\ Len(queue) >= 1
        /\ queue' \in Seq(Tasks) /\ Len(queue') = Len(queue) - 1
        /\ \A i \in 1..Len(queue') : queue'[i] = queue[i + 1]
    BY <1>2, <1>c, HeadTailProperties DEF NextInQueue
  <2>e. NextInQueue # Update /\ owner' = NextInQueue /\ unannounces' = gen[2] /\ UNCHANGED <<bg, gen, wanted>>
    BY <1>2 DEF CurrentRelays
  <2>f. InUpdate' = InUpdate /\ Updating' = Updating
    BY <2>e DEF InUpdate, Updating
  <2>g. 1 \in 1..Len(queue)
    BY <1>c, <2>0
  <2>a. owner' # Nobody /\ owner' # owner /\ owner' # Update
    BY <2>0, <2>e, <2>g, <1>c, AnnouncerAssumption DEF QueueInv, Tasks, Update, StopTask
  <2>b. \A i \in 1..Len(queue') : i + 1 \in 1..Len(queue) /\ i + 1 # 1
    BY <2>0, <1>c
  <2>1. Shapes'
    BY <1>0, <2>0, <2>a, <2>e DEF Shapes, Tasks
  <2>2. QueueInv'
    <3>1. InUpdate' => owner' = Nobody
      BY <1>0, <2>f
    <3>2. \A i \in 1..Len(queue') : queue'[i] = Update => i = Len(queue') /\ bg' = "unannounced"
      BY <1>c, <2>0, <2>b, <2>e DEF QueueInv
    <3>3. \A i \in 1..Len(queue') : queue'[i] # owner'
      BY <2>0, <2>b, <2>g DEF QueueInv
    <3>4. \A i, j \in 1..Len(queue') : queue'[i] = queue'[j] => i = j
      BY <1>c, <2>0, <2>b, <2>e DEF QueueInv
    <3>5. QED
      BY <2>a, <3>1, <3>2, <3>3, <3>4 DEF QueueInv
  <2>3. StoredInv'
    BY <2>e, <2>f DEF StoredInv
  <2>4. CleanInv'
    BY <1>0, <2>e DEF CleanInv, Clean
  <2>5. OwnersInv'
    <3>1. \A i \in 1..Len(queue) : queue[i] # owner
      BY DEF QueueInv
    <3>2. /\ owner' \in Suspends => suspPc'[owner'] = "unannounce"
          /\ owner' = StopTask => stopPc' = "unannounce"
      BY <1>0, <1>a, <2>0, <2>g, <3>1 DEF OwnersInv
    <3>3. \A i \in 1..Len(queue') :
            /\ queue'[i] \in Suspends => suspPc'[queue'[i]] = "unannounce"
            /\ queue'[i] = StopTask => stopPc' = "unannounce"
      BY <1>0, <1>a, <2>0, <2>b, <3>1 DEF OwnersInv
    <3>4. QED
      BY <1>a, <2>e, <3>2, <3>3 DEF OwnersInv
  <2>6. SuspendInv'
    BY <1>0, <1>b, <2>a, <2>e, <2>f DEF SuspendInv
  <2>7. QED
    BY <2>1, <2>2, <2>3, <2>4, <2>5, <2>6 DEF AInv
<1>3. CASE /\ queue # <<>> /\ NextInQueue = Update /\ bg' = "query" /\ gen' = Cycle
           /\ Tail(queue) = <<>> => owner' = Nobody /\ queue' = <<>> /\ UNCHANGED unannounces
  <2> USE <1>d
  <2>0. queue[1] = Update /\ Len(queue) >= 1
    BY <1>3, <1>c DEF NextInQueue
  <2>g. 1 \in 1..Len(queue)
    BY <1>c, <2>0
  <2>a. Len(queue) = 1 /\ bg = "unannounced"
    BY <2>0, <2>g DEF QueueInv
  <2>b. Tail(queue) = <<>>
    <3>1. Tail(queue) \in Seq(Tasks) /\ Len(Tail(queue)) = 0
      BY <1>3, <1>c, <2>a, HeadTailProperties
    <3>2. QED
      BY <3>1, EmptySeq
  <2>c. owner' = Nobody /\ queue' = <<>> /\ unannounces' = {}
    BY <1>3, <2>b
  <2>d. gen' \in [0..2 -> SUBSET Relays] /\ gen'[1] = gen[2] /\ gen'[2] = {}
    BY <1>3 DEF Shapes, Cycle
  <2> USE <1>3 DEF InUpdate, Updating
  <2>1. Shapes'
    BY <1>0, <2>c, <2>d DEF Shapes
  <2>2. QueueInv'
    BY <2>c DEF QueueInv
  <2>3. StoredInv'
    BY <1>0, <2>d DEF StoredInv
  <2>4. CleanInv'
    BY <2>d DEF CleanInv, Clean
  <2>5. OwnersInv'
    BY <1>0, <1>a, <2>c, AnnouncerAssumption DEF OwnersInv, StopTask
  <2>6. SuspendInv'
    BY <1>b, <2>a, <2>c DEF SuspendInv
  <2>7. QED
    BY <2>1, <2>2, <2>3, <2>4, <2>5, <2>6 DEF AInv
<1>4. QED
  BY <1>1, <1>2, <1>3 DEF UnannounceDone

-----------------------------------------------------------------------------
(* Every step of the announcer preserves the invariant.                    *)
LEMMA NextAInv == AInv /\ [Next]_vars => AInv'
<1> SUFFICES ASSUME AInv, [Next]_vars PROVE AInv'
  OBVIOUS
<1>1. CASE Continuation
  BY <1>1, ResumedSignalAInv, OnlineSignalAInv, UnannounceDoneAInv, StopActiveAInv
     DEF Continuation
<1>2. CASE Event
  BY <1>2, QueryDoneAInv, CommitsDoneAInv, UpdateDoneAInv, CommitSettlesAInv, RemoveSettlesAInv,
     UnannounceSettlesAInv, PingsDoneAInv, SleepDoneAInv, FlagsAInv DEF Event
<1>3. CASE Call
  BY <1>3, SuspendAInv, ResumeAInv, FlagsAInv DEF Call
<1>4. CASE UNCHANGED vars
  BY <1>4 DEF vars, bgVars, flagVars, unVars, AInv, Shapes, QueueInv, StoredInv, CleanInv, Clean,
     OwnersInv, SuspendInv, SomeoneAwaits, InUpdate, Updating
<1>5. QED
  BY <1>1, <1>2, <1>3, <1>4 DEF Next

(* The invariant holds in every behaviour of the announcer.                *)
LEMMA AlwaysAInv == Spec => []AInv
<1>1. QED
  BY InitAInv, NextAInv, PTL DEF Spec

(* An _unannounceAll of suspend() or stop() never runs beside the query,   *)
(* the requests or the removals of _update(): the loop of awaits on        *)
(* _unannouncing at the head of _update() is enough, whatever the order in *)
(* which suspend(), resume() and stop() are called.                        *)
THEOREM UnannounceExcludesUpdateHolds == Spec => []UnannounceExcludesUpdate
<1>1. AInv => UnannounceExcludesUpdate
  BY DEF AInv, QueueInv, InUpdate, UnannounceExcludesUpdate
<1>2. QED
  BY <1>1, AlwaysAInv, PTL

(* While the background task rests and no refresh() or resume() is owed an *)
(* update, the newest generation of _serverRelays is exactly where the     *)
(* record is stored, relays that lost a request and updates that were cut  *)
(* short aside: also when suspend() and resume() run before the task that  *)
(* the first of them notified.                                             *)
THEOREM KnowsItsRelaysHolds == Spec => []KnowsItsRelays
<1>1. AInv => KnowsItsRelays
  BY DEF AInv, StoredInv, CleanInv, Clean, InUpdate, KnowsItsRelays
<1>2. QED
  BY <1>1, AlwaysAInv, PTL

(* When every suspend() returned and the announcer is still suspended the  *)
(* record is on no relay that answered, unless an update was cut short.    *)
THEOREM SuspendedIsUnannouncedHolds == Spec => []SuspendedIsUnannounced
<1>1. ASSUME AInv PROVE SuspendedIsUnannounced
  <2> SUFFICES ASSUME suspended, ~stopped, ~aborted, \A s \in Suspends : suspPc[s] = "idle"
               PROVE  stored \subseteq lost
    BY DEF SuspendedIsUnannounced
  <2>1. ~SomeoneAwaits
    BY DEF SomeoneAwaits
  <2>2. owner = Nobody
    BY <1>1 DEF AInv, Shapes, OwnersInv
  <2>3. QED
    BY <1>1, <2>1, <2>2 DEF AInv, SuspendInv
<1>2. QED
  BY <1>1, AlwaysAInv, PTL
=============================================================================
