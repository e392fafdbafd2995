------------------------------- MODULE Announcer -------------------------------
(***************************************************************************)
(* The announcer of a listening server, lib/announcer.js: it keeps the     *)
(* server's record stored on a few relay nodes of the DHT, refreshes it    *)
(* from a background task, and takes it away on suspend() and stop().      *)
(*                                                                         *)
(* Every "await" is a point where other tasks run, so a task is a program  *)
(* counter: bg for start() and the _background() loop, suspPc for the      *)
(* calls of suspend() that are under way, stopPc for stop().  What runs    *)
(* between two awaits is one action.  The DHT nodes are external: they are *)
(* only the set of relays that hold the record, and a request either       *)
(* reaches its relay and is answered or is lost and settles by a timeout.  *)
(* dht.destroyed is false throughout: destroy() of index.js closes the     *)
(* servers before it destroys the node (its forced form never calls stop). *)
(***************************************************************************)
EXTENDS Integers, Sequences, FiniteSets, SequencesExt

CONSTANTS
  Relays,      (* the DHT nodes a findPeer query can return                  *)
  Unreliable,  (* the relays requests to which can be lost                   *)
  MaxPick,     (* how many replies pickBest keeps; 3 in the code             *)
  MinActive,   (* MIN_ACTIVE                                                 *)
  PingRounds,  (* rounds of pings between two updates; 100 in the code       *)
  Suspends     (* bound: the suspend() calls under way at the same time      *)

ASSUME AnnouncerAssumption ==
  /\ IsFiniteSet(Relays) /\ IsFiniteSet(Suspends) /\ Unreliable \subseteq Relays
  /\ {MaxPick, MinActive, PingRounds} \subseteq Nat \ {0}
  /\ Suspends \cap {"update", "stop", "nobody"} = {}

VARIABLES
  bg,          (* where start() / _background() is                           *)
  started,     (* start() finished its first update                          *)
  round,       (* i of the ping loop                                         *)
  gen,         (* _serverRelays, three generations of relays                 *)
  commits,     (* relays whose ANNOUNCE request is in flight                 *)
  removing,    (* relays whose UNANNOUNCE of _update is in flight            *)
  refreshing,  (* _refreshing                                                *)
  suspended,
  stopped,
  online,      (* dht.online                                                 *)
  notified,    (* the signal bg waits for (_resumed or online) was notified  *)
  suspPc,      (* the suspend() calls                                        *)
  stopPc,      (* the stop() call                                            *)
  owner,       (* who _unannouncing belongs to                               *)
  unannounces, (* relays whose UNANNOUNCE of _unannounceAll is in flight     *)
  queue,       (* tasks that await _unannouncing, in the order they awaited  *)
  stored,      (* external: relays that hold the record                      *)
  lost,        (* history: relays a request to which was lost                *)
  aborted,     (* history: an update returned early                          *)
  wanted       (* history: a refresh() no update has started after           *)

bgVars == <<bg, started, round, gen, commits, removing>>
flagVars == <<refreshing, suspended, stopped, online>>
unVars == <<owner, unannounces, queue>>
vars == <<bgVars, flagVars, notified, suspPc, stopPc, unVars, stored, lost, aborted, wanted>>

Nobody == "nobody"
Update == "update"
StopTask == "stop"
Tasks == Suspends \cup {Update, StopTask}

(* _updating is set while _update() runs.                                  *)
Updating == bg \in {"unannounced", "query", "commit", "remove"}

Init ==
  /\ bg = "query" /\ started = FALSE /\ round = 0
  /\ gen = [i \in 0..2 |-> {}]
  /\ commits = {} /\ removing = {}
  /\ refreshing = FALSE /\ suspended = FALSE /\ stopped = FALSE
  /\ online \in BOOLEAN
  /\ notified = FALSE
  /\ suspPc = [s \in Suspends |-> "idle"] /\ stopPc = "no"
  /\ owner = Nobody /\ unannounces = {} /\ queue = <<>>
  /\ stored = {} /\ lost = {} /\ aborted = FALSE /\ wanted = FALSE

-----------------------------------------------------------------------------
(* _cycle(): the generations shift and the newest starts empty.            *)
Cycle == [gen EXCEPT ![0] = gen[1], ![1] = gen[2], ![2] = {}]

(* _update() up to its first suspension: it waits for _unannouncing, or    *)
(* cycles the generations and sends the findPeer query.                    *)
EnterUpdate ==
  \/ /\ owner # Nobody
     /\ bg' = "unannounced"
     /\ queue' = Append(queue, Update)
     /\ UNCHANGED <<gen, wanted>>
  \/ /\ owner = Nobody
     /\ bg' = "query"
     /\ gen' = Cycle
     /\ wanted' = FALSE
     /\ UNCHANGED queue

(* The end of an iteration of _background() that performs no update, with  *)
(* the test at its head.                                                   *)
LoopHead ==
  /\ IF stopped THEN bg' = "done" /\ UNCHANGED <<refreshing, round>>
     ELSE /\ refreshing' = FALSE
          /\ round' = 0
          /\ bg' = IF suspended THEN "suspended" ELSE "ping"

(* After _runUpdate(): the loop waits while the node is offline.  The      *)
(* update of start() is followed by the head of the loop at once.          *)
AfterUpdate ==
  /\ started' = TRUE
  /\ IF started /\ ~online /\ ~stopped /\ ~suspended
     THEN bg' = "offline" /\ UNCHANGED <<refreshing, round>>
     ELSE LoopHead

(* After the ping loop: wait while suspended, then update unless stopped.  *)
AfterPings ==
  \/ /\ stopped
     /\ bg' = "done"
     /\ UNCHANGED <<gen, queue, wanted>>
  \/ /\ ~stopped /\ suspended
     /\ bg' = "suspended"
     /\ UNCHANGED <<gen, queue, wanted>>
  \/ ~stopped /\ ~suspended /\ EnterUpdate

-----------------------------------------------------------------------------
(* Unannounces of _unannounceCurrent(): one _unannounceAll at a time.      *)

(* Mutant: the relays of the generation before are unannounced.            *)
CurrentRelaysPrevious == gen[1]

(* The relays _unannounceCurrent() takes the record from.                  *)
CurrentRelays == gen[2]

(* _unannounceCurrent(), called by task t: it queues behind the current    *)
(* one or unannounces from every relay of the newest generation.           *)
UnannounceCurrent(t) ==
  IF owner # Nobody
  THEN queue' = Append(queue, t) /\ UNCHANGED <<owner, unannounces>>
  ELSE owner' = t /\ unannounces' = CurrentRelays /\ UNCHANGED queue

(* Mutant: the awaiting suspend() calls go on without a look at the flags. *)
StillSuspendedAlways == TRUE

(* The test of suspend() after it awaited _updating.                       *)
StillSuspended == suspended /\ ~stopped

AwaitingUpdate == {s \in Suspends : suspPc[s] = "updating"}

(* The promise _updating resolves: the suspend() calls that await it go on *)
(* in this turn of the event loop, before anything else can run.           *)
ResumeSuspends ==
  IF AwaitingUpdate # {} /\ StillSuspended
  THEN /\ \E order \in SetToSeqs(AwaitingUpdate) :
            owner' = Head(order) /\ queue' = queue \o Tail(order)
       /\ unannounces' = CurrentRelays
       /\ suspPc' = [s \in Suspends |->
                       IF s \in AwaitingUpdate THEN "unannounce" ELSE suspPc[s]]
  ELSE /\ suspPc' = [s \in Suspends |->
                       IF s \in AwaitingUpdate THEN "idle" ELSE suspPc[s]]
       /\ UNCHANGED unVars

(* Task t returns from its _unannounceCurrent().                           *)
Returned(t) ==
  /\ suspPc' = [s \in Suspends |-> IF s = t THEN "idle" ELSE suspPc[s]]
  /\ stopPc' = IF t = StopTask THEN "done" ELSE stopPc

(* The task whose await of _unannouncing resolves first.                   *)
NextInQueue == Head(queue)

(* The _unannounceAll of _unannouncing settled.  Its owner resets          *)
(* _unannouncing; then the waiting tasks look at it, in their order.       *)
UnannounceDone ==
  /\ owner # Nobody /\ unannounces = {}
  /\ Returned(owner)
  /\ \/ /\ queue = <<>>
        /\ owner' = Nobody
        /\ UNCHANGED <<bg, gen, queue, unannounces, wanted>>
     \/ /\ queue # <<>> /\ NextInQueue # Update
        /\ owner' = NextInQueue
        /\ unannounces' = CurrentRelays
        /\ queue' = Tail(queue)
        /\ UNCHANGED <<bg, gen, wanted>>
     \/ /\ queue # <<>> /\ NextInQueue = Update
        /\ bg' = "query"
        /\ gen' = Cycle
        /\ wanted' = FALSE
        /\ LET rest == Tail(queue)
           IN IF rest = <<>>
              THEN owner' = Nobody /\ queue' = <<>> /\ UNCHANGED unannounces
              ELSE owner' = Head(rest) /\ queue' = Tail(rest) /\ unannounces' = Cycle[2]
  /\ UNCHANGED <<started, round, commits, removing, flagVars, notified, stored, lost, aborted>>

-----------------------------------------------------------------------------
(* The update.                                                             *)

(* The tests of _update() after its awaits.                                *)
Interrupted == stopped \/ suspended

(* _update() returns and the tasks that awaited it go on.                  *)
EndUpdate(early) ==
  /\ AfterUpdate
  /\ ResumeSuspends
  /\ aborted' = (aborted \/ early)
  /\ UNCHANGED <<gen, removing, wanted>>

(* The query finishes with the replies it has: all, or, destroyed by       *)
(* suspend(), those that came in before.                                   *)
QueryDone ==
  /\ bg = "query"
  /\ \/ /\ Interrupted
        /\ EndUpdate(TRUE)
        /\ UNCHANGED commits
     \/ /\ ~Interrupted
        /\ \E picked \in SUBSET Relays :
             /\ Cardinality(picked) <= MaxPick
             /\ commits' = picked
        /\ bg' = "commit"
        /\ UNCHANGED <<started, round, gen, removing, refreshing, suspPc, unVars, aborted, wanted>>
  /\ UNCHANGED <<suspended, stopped, online, notified, stopPc, stored, lost>>

(* _commit(): the relay stores the record and says so, or refuses it, or   *)
(* the request or its answer is lost.                                      *)
CommitSettles(r) ==
  /\ bg = "commit" /\ r \in commits
  /\ commits' = commits \ {r}
  /\ \/ /\ stored' = stored \cup {r}
        /\ gen' = [gen EXCEPT ![2] = @ \cup {r}]
        /\ UNCHANGED lost
     \/ /\ UNCHANGED <<stored, gen, lost>>
     \/ /\ r \in Unreliable
        /\ stored' \in {stored, stored \cup {r}}
        /\ lost' = lost \cup {r}
        /\ UNCHANGED gen
  /\ UNCHANGED <<bg, started, round, removing, flagVars, notified, suspPc, stopPc, unVars, aborted, wanted>>

(* The relays of the previous generation that the new one does not have.   *)
Removed == gen[1] \ gen[2]

(* Every _commit() settled.                                                *)
CommitsDone ==
  /\ bg = "commit" /\ commits = {}
  /\ \/ /\ Interrupted
        /\ EndUpdate(TRUE)
     \/ /\ ~Interrupted
        /\ removing' = Removed
        /\ bg' = "remove"
        /\ UNCHANGED <<started, round, gen, refreshing, suspPc, unVars, aborted, wanted>>
  /\ UNCHANGED <<commits, suspended, stopped, online, notified, stopPc, stored, lost>>

(* _unannounce(): the record is taken from the relay, or a request is lost. *)
Unannounced(r) ==
  \/ stored' = stored \ {r} /\ UNCHANGED lost
  \/ /\ r \in Unreliable
     /\ stored' \in {stored, stored \ {r}}
     /\ lost' = lost \cup {r}

RemoveSettles(r) ==
  /\ bg = "remove" /\ r \in removing
  /\ removing' = removing \ {r}
  /\ Unannounced(r)
  /\ UNCHANGED <<bg, started, round, gen, commits, flagVars, notified, suspPc, stopPc, unVars, aborted, wanted>>

UnannounceSettles(r) ==
  /\ r \in unannounces
  /\ unannounces' = unannounces \ {r}
  /\ Unannounced(r)
  /\ UNCHANGED <<bgVars, flagVars, notified, suspPc, stopPc, owner, queue, aborted, wanted>>

UpdateDone ==
  /\ bg = "remove" /\ removing = {}
  /\ EndUpdate(FALSE)
  /\ UNCHANGED <<commits, suspended, stopped, online, notified, stopPc, stored, lost>>

-----------------------------------------------------------------------------
(* The background loop.                                                    *)

LeastOf(a, b) == IF a < b THEN a ELSE b

(* The pings of a round settled; too few answers ask for a refresh.        *)
PingsDone ==
  /\ bg = "ping"
  /\ \E alive \in 0..Cardinality(gen[2]) :
       /\ LET tooFew == alive < LeastOf(Cardinality(gen[2]), MinActive)
          IN refreshing' = (refreshing \/ (tooFew /\ ~stopped))
       /\ \/ /\ stopped
             /\ bg' = "done"
             /\ UNCHANGED <<gen, queue, wanted>>
          \/ /\ ~stopped /\ ~suspended /\ ~refreshing'
             /\ bg' = "sleep"
             /\ UNCHANGED <<gen, queue, wanted>>
          \/ ~stopped /\ (suspended \/ refreshing') /\ AfterPings
  /\ UNCHANGED <<started, round, commits, removing, suspended, stopped, online, notified,
                 suspPc, stopPc, owner, unannounces, stored, lost, aborted>>

(* The bound of the ping loop.                                             *)
AnotherRound == round + 1 < PingRounds

(* The sleeper's pause ends, by its timer or by its resume().              *)
SleepDone ==
  /\ bg = "sleep"
  /\ IF AnotherRound /\ ~stopped /\ ~refreshing /\ ~suspended
     THEN bg' = "ping" /\ round' = round + 1 /\ UNCHANGED <<gen, queue, wanted>>
     ELSE AfterPings /\ UNCHANGED round
  /\ UNCHANGED <<started, commits, removing, flagVars, notified, suspPc, stopPc,
                 owner, unannounces, stored, lost, aborted>>

(* The _resumed signal: the loop tests again whether it is suspended.      *)
ResumedSignal ==
  /\ bg = "suspended" /\ notified
  /\ notified' = FALSE
  /\ AfterPings
  /\ UNCHANGED <<started, round, commits, removing, flagVars, suspPc, stopPc,
                 owner, unannounces, stored, lost, aborted>>

(* The online signal: the loop tests again whether it has to wait.         *)
OnlineSignal ==
  /\ bg = "offline" /\ notified
  /\ notified' = FALSE
  /\ IF ~online /\ ~stopped /\ ~suspended
     THEN bg' = "offline" /\ UNCHANGED <<refreshing, round>>
     ELSE LoopHead
  /\ UNCHANGED <<started, gen, commits, removing, suspended, stopped, online, suspPc, stopPc,
                 unVars, stored, lost, aborted, wanted>>

-----------------------------------------------------------------------------
(* The calls of the server and of the node.                                *)

(* Mutant: suspend() does not await an update that is under way.           *)
AwaitsUpdateNever == FALSE

(* suspend() awaits _updating if it is set.                                *)
AwaitsUpdate == Updating

(* suspend(): a second call while suspended returns at once.               *)
Suspend(s) ==
  /\ started /\ stopPc # "done"
  /\ suspPc[s] = "idle" /\ ~suspended
  /\ suspended' = TRUE
  /\ notified' = (notified \/ bg = "offline")
  /\ \/ /\ AwaitsUpdate
        /\ suspPc' = [suspPc EXCEPT ![s] = "updating"]
        /\ UNCHANGED unVars
     \/ /\ ~AwaitsUpdate /\ ~stopped
        /\ suspPc' = [suspPc EXCEPT ![s] = "unannounce"]
        /\ UnannounceCurrent(s)
     \/ /\ ~AwaitsUpdate /\ stopped
        /\ UNCHANGED <<suspPc, unVars>>
  /\ UNCHANGED <<bgVars, refreshing, stopped, online, stopPc, stored, lost, aborted, wanted>>

(* Mutant: resume() forgets to notify the background task.                 *)
ResumeNotifiesNever == FALSE

ResumeNotifies == bg = "suspended"

(* resume(): asks for an update and wakes the background task.             *)
Resume ==
  /\ started /\ stopPc # "done"
  /\ suspended
  /\ suspended' = FALSE
  /\ refreshing' = (refreshing \/ ~stopped)
  /\ wanted' = (wanted \/ ~stopped)
  /\ notified' = (notified \/ ResumeNotifies)
  /\ UNCHANGED <<bgVars, stopped, online, suspPc, stopPc, unVars, stored, lost, aborted>>

(* refresh(), called by server.refresh() unless the server is suspended.   *)
Refresh ==
  /\ started /\ ~stopped /\ ~suspended
  /\ refreshing' = TRUE
  /\ wanted' = TRUE
  /\ UNCHANGED <<bgVars, suspended, stopped, online, notified, suspPc, stopPc, unVars,
                 stored, lost, aborted>>

(* Mutant: stop() forgets online.notify().                                 *)
StopNotifiesResumed == bg = "suspended"

(* stop() notifies both signals.                                           *)
StopNotifies == bg \in {"suspended", "offline"}

(* stop(), called once by the server's _stopListening().                   *)
Stop ==
  /\ started /\ stopPc = "no"
  /\ stopped' = TRUE
  /\ stopPc' = "active"
  /\ notified' = (notified \/ StopNotifies)
  /\ UNCHANGED <<bgVars, refreshing, suspended, online, suspPc, unVars, stored, lost, aborted, wanted>>

(* stop() awaits _active.                                                  *)
ActiveEnded == bg = "done"

(* stop() goes on when the background task has ended.                      *)
StopActive ==
  /\ stopPc = "active" /\ ActiveEnded
  /\ stopPc' = "unannounce"
  /\ UnannounceCurrent(StopTask)
  /\ UNCHANGED <<bgVars, flagVars, notified, suspPc, stored, lost, aborted, wanted>>

(* External: dht-rpc goes offline, or online with notifyOnline().          *)
NetworkDown ==
  /\ online
  /\ online' = FALSE
  /\ UNCHANGED <<bgVars, refreshing, suspended, stopped, notified, suspPc, stopPc, unVars,
                 stored, lost, aborted, wanted>>

NetworkUp ==
  /\ ~online
  /\ online' = TRUE
  /\ notified' = (notified \/ bg = "offline")
  /\ UNCHANGED <<bgVars, refreshing, suspended, stopped, suspPc, stopPc, unVars,
                 stored, lost, aborted, wanted>>

-----------------------------------------------------------------------------
(* An answer, a timer or the network: a turn of the event loop of its own. *)
Event ==
  \/ QueryDone \/ CommitsDone \/ UpdateDone
  \/ \E r \in Relays : CommitSettles(r) \/ RemoveSettles(r) \/ UnannounceSettles(r)
  \/ PingsDone \/ SleepDone
  \/ NetworkDown \/ NetworkUp

(* A promise that is resolved runs what awaits it.                         *)
Continuation == ResumedSignal \/ OnlineSignal \/ UnannounceDone \/ StopActive

Call ==
  \/ \E s \in Suspends : Suspend(s)
  \/ Resume \/ Refresh \/ Stop

(***************************************************************************)
(* A notified signal resumes the background task in the same turn of the   *)
(* event loop, before the next answer or timer.  It has no priority over   *)
(* calls: server.suspend() and server.resume() that are not awaited run in *)
(* consecutive microtasks, before the task that the first one notified.    *)
(***************************************************************************)
Next ==
  \/ Continuation
  \/ Call
  \/ ~notified /\ Event

(***************************************************************************)
(* Requests settle (dht-rpc times them out), timers fire and promises that *)
(* are resolved run their continuations; nobody has to call anything.      *)
(***************************************************************************)
Fairness ==
  /\ WF_vars(~notified /\ (QueryDone \/ CommitsDone \/ UpdateDone))
  /\ \A r \in Relays : /\ WF_vars(~notified /\ CommitSettles(r))
                       /\ WF_vars(~notified /\ RemoveSettles(r))
                       /\ WF_vars(~notified /\ UnannounceSettles(r))
  /\ WF_vars(~notified /\ PingsDone) /\ WF_vars(~notified /\ SleepDone)
  /\ WF_vars(ResumedSignal \/ OnlineSignal)
  /\ WF_vars(UnannounceDone) /\ WF_vars(StopActive)

Spec == Init /\ [][Next]_vars

FairSpec == Spec /\ Fairness

-----------------------------------------------------------------------------
(* Type invariant: every field of the announcer keeps its type.            *)
TypeOK ==
  /\ bg \in {"unannounced", "query", "commit", "remove", "ping", "sleep", "suspended",
             "offline", "done"}
  /\ started \in BOOLEAN /\ round \in 0..(PingRounds - 1)
  /\ gen \in [0..2 -> SUBSET Relays]
  /\ {commits, removing, unannounces, stored, lost} \subseteq SUBSET Relays
  /\ {refreshing, suspended, stopped, online, notified, aborted, wanted} \subseteq BOOLEAN
  /\ suspPc \in [Suspends -> {"idle", "updating", "unannounce"}]
  /\ stopPc \in {"no", "active", "unannounce", "done"}
  /\ owner \in Suspends \cup {StopTask, Nobody}
  /\ queue \in Seq(Tasks)

(***************************************************************************)
(* An unannounce of suspend() or stop() never runs beside an update, so no *)
(* record that an update just stored can be taken away by a call that was  *)
(* overtaken by resume().                                                  *)
(***************************************************************************)
UnannounceExcludesUpdate == owner # Nobody => ~(bg \in {"query", "commit", "remove"})

(***************************************************************************)
(* While the loop rests between two updates and owes no refresh, and       *)
(* unless an update was cut short, the newest generation is exactly where  *)
(* the record is stored (relays that lost a request aside): nothing is     *)
(* forgotten that must be removed later, and nothing is pinged that does   *)
(* not hold the record.  A resume() that overtakes the offline wait has    *)
(* its _refreshing reset at the head of the loop, which then pings relays  *)
(* the suspend() before it took the record from; wanted remembers that an  *)
(* update is owed, and RefreshServed that it comes.                        *)
(***************************************************************************)
KnowsItsRelays ==
  /\ bg \in {"ping", "sleep", "offline"} /\ ~suspended /\ ~stopped /\ ~wanted /\ ~aborted
  => stored \ lost = gen[2] \ lost

(***************************************************************************)
(* suspend() that completed while no update was cut short leaves the       *)
(* record on no relay, as long as the announcer stays suspended.           *)
(***************************************************************************)
SuspendedIsUnannounced ==
  /\ suspended /\ ~stopped /\ ~aborted
  /\ \A s \in Suspends : suspPc[s] = "idle"
  => stored \subseteq lost

(* stop() always completes, wherever the background task was waiting.      *)
StopTerminates == stopped ~> stopPc = "done"

(***************************************************************************)
(* A refresh, of refresh() or of resume(), is followed by an update,       *)
(* unless the announcer is suspended or stopped or the node offline.       *)
(***************************************************************************)
RefreshServed == wanted ~> (~wanted \/ suspended \/ stopped \/ ~online)

(***************************************************************************)
(* README.md on destroy(): "This will also unannounce any running          *)
(* servers": once stop() resolved no relay that answered its requests      *)
(* holds the record.  Not a property of the code: an update that stop()    *)
(* finds at its query has dropped the relays of the one before.            *)
(***************************************************************************)
StoppedIsUnannounced == stopPc = "done" /\ owner = Nobody => stored \subseteq lost

(***************************************************************************)
(* README.md on server.refresh(): "causing it to reannounce its address":  *)
(* the background task does not go to sleep while a refresh is unserved.   *)
(* Not a property of the code: the head of the loop forgets the call.      *)
(***************************************************************************)
RefreshBeforeSleep == [][bg # "sleep" /\ bg' = "sleep" => ~wanted']_vars
=============================================================================
