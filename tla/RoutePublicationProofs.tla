------------------------ MODULE RoutePublicationProofs ------------------------
(***************************************************************************)
(* Proofs about the publication of a private route, for any number of      *)
(* relays, overlay nodes, attempts and calls of the application, any       *)
(* quorums and any clock.                                                  *)
(*                                                                         *)
(* The destination: no order of calls, losses and timers leaves a halted   *)
(* server with a route, or a listening one without a route and a task      *)
(* (QuietInv, NotStranded), and only a stop or a loss ends the streams of  *)
(* a circuit.  The relays: controlSessions.size is the number of handlers  *)
(* under way (SessionsInv), so a relay that joined them is empty.  The     *)
(* overlay: a descriptor that was read back and is the newest stays        *)
(* readable (ReadableInv).                                                 *)
(***************************************************************************)
EXTENDS RoutePublication, FiniteSetTheorems, TLAPS

DestStates == {"none", "dialing", "admitting", "sent", "live", "retired", "gone"}
GuardStates == GuardSetup \cup {"none", "bridged", "unwinding", "gone"}
EntryStates == {"none", "pending", "installed", "unwinding", "gone"}
Tasks == {"none", "discover", "first", "attempt", "choose"}

(* The fields of an attempt.                                               *)
AtOK(x) ==
    /\ x = [guard |-> x.guard, entry |-> x.entry, seq |-> x.seq, previous |-> x.previous]
    /\ x.seq \in Nat /\ x.previous \in Attempt \cup {0}

DestOK ==
    /\ node \in [suspended : BOOLEAN, clearing : BOOLEAN, destroyed : BOOLEAN]
    /\ server \in [listening : {"no", "starting", "yes", "failed"}, suspended : BOOLEAN, closed : BOOLEAN]
    /\ script \in [calls : Seq(Call), attempts : Attempt]
    /\ task \in Tasks
    /\ route \in Attempt \cup {0}
    /\ dest \in [Attempt -> DestStates]
    /\ busy \in [Attempt -> BOOLEAN]

AttemptsOK ==
    /\ count \in Attempt \cup {0} /\ lastSeq \in Nat
    /\ DOMAIN at = Attempt /\ at = [a \in Attempt |-> at[a]]
    /\ \A a \in Attempt : AtOK(at[a])

RelaysOK ==
    /\ guard \in [Attempt -> GuardStates]
    /\ entry \in [Attempt -> EntryStates]
    /\ sessions \in [Relays -> Int]
    /\ relay \in [Relays -> {"up", "suspending", "suspended"}]
    /\ record \in [Nodes -> Attempt \cup {0}]

TypesInv == DestOK /\ AttemptsOK /\ RelaysOK

(* The destination has no route, no timer and no circuit.                  *)
Quiet == route = 0 /\ ~ timer /\ \A a \in Attempt : dest[a] \notin {"live", "retired"}

(* A server is quiet before its first route and after it was stopped; only *)
(* a suspend() of the node that has yet to clear comes between.            *)
QuietInv ==
    /\ node.clearing => node.suspended
    /\ server.listening # "yes" => Quiet
    /\ Halted(node, server) /\ ~ node.clearing => Quiet

(* How far the three ends of an attempt can be.                            *)
StagesInv ==
    \A a \in Attempt :
        /\ a > count => dest[a] = "none" /\ guard[a] = "none" /\ entry[a] = "none"
        /\ dest[a] = "dialing" => guard[a] = "none"
        /\ dest[a] \in {"none", "dialing", "admitting"} => at[a].seq = 0
        /\ guard[a] \in {"none", "admitted", "waiting", "described"} => entry[a] = "none"

(* The handlers that run at a relay.                                       *)
AsGuard(r) == {a \in Attempt : at[a].guard = r /\ guard[a] \in GuardSetup \cup {"unwinding"}}
AsEntry(r) == {a \in Attempt : at[a].entry = r /\ entry[a] \in {"pending", "unwinding"}}

SessionsInv == \A r \in Relays : sessions[r] = Cardinality(AsGuard(r)) + Cardinality(AsEntry(r))

Newest(a) == \A b \in Attempt : at[b].seq <= at[a].seq

(* An attempt whose descriptor was read back is readable while the newest. *)
ReadableInv ==
    \A a \in Attempt :
        (a = route \/ guard[a] \in {"committing", "bridged"}) /\ Newest(a)
            => Cardinality(Holding(a, Nodes)) >= ReadQuorum

(* The current route is a circuit that lives.                              *)
RouteInv == route # 0 => dest[route] = "live"

RPInv ==
    /\ TypesInv /\ QuietInv /\ NotStranded /\ StagesInv
    /\ SessionsInv /\ SuspendedRelayIsEmpty /\ RouteInv /\ ReadableInv

(* The steps of the destination that touch no relay, no node and no attempt's descriptor. *)
Calls ==
    \/ Listen \/ Close \/ ServerSuspend \/ ServerResume
    \/ Suspend \/ SuspendClears \/ Resume \/ Destroy \/ Restart
Publishes ==
    \/ Discovered \/ DiscoveryFails \/ PublishFails \/ Refresh
    \/ \E a \in Attempt : \/ DialFails(a) \/ AttemptFails(a) \/ DestInstalls(a) \/ DestTooLate(a)
                         \/ DestStillborn(a)
Circuits ==
    \E a \in Attempt : DestLosesCircuit(a) \/ DestExpires(a) \/ SourceOpens(a) \/ StreamsEnd(a)

(* The steps of the relays.                                                *)
Sets(a) ==
    \/ GuardAdmits(a) \/ DestDescribes(a) \/ GuardRecovers(a) \/ GuardRegisters(a)
    \/ PutWrites(a) \/ PutReadsBack(a) \/ GuardBridges(a)
Unwinds(a) ==
    \/ GuardCancels(a) \/ GuardFinishes(a) \/ BridgeCloses(a)
    \/ EntryInstalls(a) \/ EntryCancels(a) \/ EntryFinishes(a) \/ EntryCloses(a)
Suspends(r) == RelaySuspends(r) \/ RelaySuspended(r) \/ RelayResumes(r)

(* Every step is of one of these kinds.                                    *)
LEMMA StepKinds ==
    ASSUME Next
    PROVE  \/ Calls \/ Publishes \/ Circuits \/ TryNext
           \/ \E a \in Attempt : Sets(a) \/ Unwinds(a)
           \/ \E r \in Relays : Suspends(r)
  <1> USE DEF Calls, Publishes, Circuits, Sets, Unwinds, Suspends
  <1>1. CASE \E r \in Relays : RelaySuspends(r) \/ RelaySuspended(r) \/ RelayResumes(r)
    BY <1>1, Zenon
  <1>2. CASE \E a \in Attempt :
          \/ DialFails(a) \/ AttemptFails(a) \/ DestDescribes(a) \/ DestInstalls(a)
          \/ DestTooLate(a) \/ DestStillborn(a)
          \/ DestLosesCircuit(a) \/ DestExpires(a) \/ SourceOpens(a) \/ StreamsEnd(a)
          \/ GuardAdmits(a) \/ GuardRecovers(a) \/ GuardRegisters(a)
          \/ PutWrites(a) \/ PutReadsBack(a) \/ GuardBridges(a)
          \/ GuardCancels(a) \/ GuardFinishes(a) \/ BridgeCloses(a)
          \/ EntryInstalls(a) \/ EntryCancels(a) \/ EntryFinishes(a) \/ EntryCloses(a)
    BY <1>2, Zenon
  <1>3. CASE \/ Listen \/ Close \/ ServerSuspend \/ ServerResume
             \/ Suspend \/ SuspendClears \/ Resume \/ Destroy \/ Restart
             \/ Discovered \/ DiscoveryFails \/ TryNext \/ PublishFails \/ Refresh
    BY <1>3, Zenon
  <1> QED BY <1>1, <1>2, <1>3, Zenon DEF Next

(* The destination's own steps leave the relays, the nodes and what an     *)
(* attempt is about alone.                                                 *)
LEMMA DestFrame ==
    ASSUME Calls \/ Publishes \/ Circuits
    PROVE  UNCHANGED <<count, at, relayVars, record>>
  <1> USE DEF attemptVars
  <1>1. CASE Calls
    BY <1>1 DEF Calls, Listen, Close, ServerSuspend, ServerResume, Suspend, SuspendClears,
                Resume, Destroy, Restart
  <1>2. CASE Publishes
    BY <1>2 DEF Publishes, Discovered, DiscoveryFails, PublishFails, Refresh,
                DialFails, AttemptFails, DestInstalls, DestTooLate, DestStillborn
  <1>3. CASE Circuits
    BY <1>3 DEF Circuits, DestLosesCircuit, DestExpires, SourceOpens, StreamsEnd
  <1> QED BY <1>1, <1>2, <1>3

(* A relay's steps leave the destination alone, but for the stage of the   *)
(* attempt it admits or is described by.                                   *)
LEMMA RelayFrame ==
    ASSUME NEW a \in Attempt, Sets(a) \/ Unwinds(a)
    PROVE  UNCHANGED <<nodeVars, publishVars, count, busy, relay>>
  <1> USE DEF attemptVars
  <1>1. CASE Sets(a)
    BY <1>1 DEF Sets, GuardAdmits, DestDescribes, GuardRecovers, GuardRegisters, PutWrites,
                PutReadsBack, GuardBridges
  <1>2. CASE Unwinds(a)
    BY <1>2 DEF Unwinds, GuardCancels, GuardFinishes, BridgeCloses, EntryInstalls, EntryCancels,
                EntryFinishes, EntryCloses
  <1> QED BY <1>1, <1>2

(* A relay that suspends or resumes leaves the destination alone, and of   *)
(* what it writes to the nodes at most some arrives.                       *)
LEMMA SuspendFrame ==
    ASSUME NEW r \in Relays, Suspends(r)
    PROVE  /\ UNCHANGED <<node, server, publishVars, attemptVars, dest, busy, sessions>>
           /\ UNCHANGED script \/ \E c : Called(c)
           /\ UNCHANGED record \/ \E as \in SUBSET Attempt : record' \in Interrupted(as)
  <1>1. {a \in Attempt : at[a].guard = r} \in SUBSET Attempt
    OBVIOUS
  <1> QED BY <1>1 DEF Suspends, RelaySuspends, RelaySuspended, RelayStops, RelayResumes, nodeVars

(* ------------------------------------------------------------- types ---- *)

(* The calls of the script are taken one by one.                           *)
LEMMA CalledScript ==
    ASSUME NEW c, Called(c), script \in [calls : Seq(Call), attempts : Attempt]
    PROVE  script' \in [calls : Seq(Call), attempts : Attempt]
  <1>1. script.calls \in Seq(Call) /\ script.calls # <<>>
    BY DEF Called
  <1>2. Tail(script.calls) \in Seq(Call)
    BY <1>1
  <1> QED BY <1>2 DEF Called

(* The end of a publish() leaves the server and the task well formed.      *)
LEMMA EndsTypes ==
    ASSUME NEW failed \in BOOLEAN, NEW r, Ends(failed, r), DestOK
    PROVE  /\ task' \in Tasks
           /\ server' \in [listening : {"no", "starting", "yes", "failed"}, suspended : BOOLEAN, closed : BOOLEAN]
  BY DEF Ends, DestOK, Tasks

(* A step of the destination keeps its state well formed.                  *)
LEMMA DestTypes ==
    ASSUME DestOK, Calls \/ Publishes \/ Circuits
    PROVE  DestOK'
  <1> USE DEF nodeVars, publishVars
  <1>1. CASE Calls
    <2>0. ASSUME NEW c, Called(c) PROVE script' \in [calls : Seq(Call), attempts : Attempt]
      BY <2>0, CalledScript DEF DestOK
    <2> USE DEF Clear, Sever, PublishFrom, Halted, Tasks, DestOK, DestStates
    <2>1. CASE Listen BY <2>0, <2>1 DEF Listen
    <2>2. CASE Close BY <2>0, <2>2 DEF Close
    <2>3. CASE ServerSuspend BY <2>0, <2>3 DEF ServerSuspend
    <2>4. CASE ServerResume BY <2>0, <2>4 DEF ServerResume
    <2>5. CASE Suspend BY <2>0, <2>5 DEF Suspend
    <2>6. CASE SuspendClears BY <2>6 DEF SuspendClears
    <2>7. CASE Resume BY <2>0, <2>7 DEF Resume
    <2>8. CASE Destroy BY <2>0, <2>8 DEF Destroy
    <2>9. CASE Restart BY <2>0, <2>9 DEF Restart
    <2> QED BY <1>1, <2>1, <2>2, <2>3, <2>4, <2>5, <2>6, <2>7, <2>8, <2>9 DEF Calls
  <1>2. CASE Publishes
    <2>1. CASE Discovered BY <2>1 DEF Discovered, Tasks, DestOK
    <2>2. CASE DiscoveryFails BY <2>2, EndsTypes DEF DiscoveryFails, DestOK
    <2>3. CASE PublishFails BY <2>3, EndsTypes DEF PublishFails, DestOK
    <2>4. CASE Refresh BY <2>4 DEF Refresh, PublishFrom, Tasks, DestOK
    <2>5. ASSUME NEW a \in Attempt, DialFails(a) \/ AttemptFails(a) \/ DestTooLate(a) \/ DestStillborn(a)
          PROVE DestOK'
      BY <2>5 DEF DialFails, AttemptFails, DestTooLate, DestStillborn, Abandon, Tasks, DestStates, DestOK
    <2>6. ASSUME NEW a \in Attempt, DestInstalls(a) PROVE DestOK'
      <3>1. task' \in Tasks /\ server' \in [listening : {"no", "starting", "yes", "failed"}, suspended : BOOLEAN, closed : BOOLEAN]
        BY <2>6, EndsTypes DEF DestInstalls
      <3> QED BY <2>6, <3>1 DEF DestInstalls, Retired, DestStates, DestOK
    <2> QED BY <1>2, <2>1, <2>2, <2>3, <2>4, <2>5, <2>6 DEF Publishes
  <1>3. CASE Circuits
    <2> USE DEF Unavailable, Retired, PublishFrom, Tasks, DestStates, DestOK
    <2>1. ASSUME NEW a \in Attempt, DestLosesCircuit(a) PROVE DestOK'
      BY <2>1 DEF DestLosesCircuit
    <2>2. ASSUME NEW a \in Attempt, DestExpires(a) PROVE DestOK'
      BY <2>2 DEF DestExpires
    <2>3. ASSUME NEW a \in Attempt, SourceOpens(a) \/ StreamsEnd(a) PROVE DestOK'
      BY <2>3 DEF SourceOpens, StreamsEnd
    <2> QED BY <1>3, <2>1, <2>2, <2>3, Zenon DEF Circuits
  <1> QED BY <1>1, <1>2, <1>3

(* The sequence a descriptor gets is a natural number.                     *)
LEMMA SequenceNat ==
    ASSUME TypesInv, NEW a \in Attempt, NEW now \in Clocks
    PROVE  NextDescriptorSequence(a, now) \in Nat
  <1>1. now \in Nat
    BY PublicationAssumption
  <1>2. ASSUME NEW m \in Nat, NEW n \in Nat PROVE Max({m, n}) \in Nat
    <2>1. \E x \in {m, n} : \A y \in {m, n} : x >= y
      BY <1>2
    <2> QED BY <2>1 DEF Max
  <1>3. lastSeq \in Nat /\ at[a].previous \in Attempt \cup {0}
    BY DEF TypesInv, AttemptsOK, AtOK
  <1>4. at[a].previous # 0 => at[at[a].previous].seq \in Nat
    BY <1>3 DEF TypesInv, AttemptsOK, AtOK
  <1> DEFINE remote == IF at[a].previous = 0 THEN 0 ELSE at[at[a].previous].seq
  <1>5. remote \in Nat
    BY <1>4
  <1> HIDE DEF remote
  <1>6. Max({lastSeq, remote}) \in Nat
    BY <1>2, <1>3, <1>5
  <1> QED BY <1>1, <1>6 DEF NextDescriptorSequence, remote

(* The next attempt, and what it leaves alone.                             *)
LEMMA TryNextFacts ==
    ASSUME TypesInv, TryNext
    PROVE  /\ count' = count + 1 /\ count' \in Attempt
           /\ DOMAIN at' = Attempt /\ at' = [a \in Attempt |-> at'[a]]
           /\ AtOK(at'[count']) /\ at'[count'].seq = 0
           /\ \A a \in Attempt : a # count' => at'[a] = at[a]
           /\ dest' = [dest EXCEPT ![count'] = "dialing"]
           /\ task' = "attempt"
           /\ UNCHANGED <<node, server, script, again, timer, route, gaveUp, lastSeq, busy, relayVars, record>>
  <1>1. count \in Attempt \cup {0} /\ script.attempts \in Attempt /\ count < script.attempts
    BY DEF TypesInv, DestOK, AttemptsOK, TryNext
  <1>2. count' = count + 1 /\ count' \in Attempt
    BY <1>1, PublicationAssumption DEF TryNext, Attempt
  <1>3. /\ at' = [at EXCEPT ![count'] = [guard |-> Head(queue)[1], entry |-> Head(queue)[2],
                                         seq |-> 0, previous |-> 0]]
        /\ dest' = [dest EXCEPT ![count'] = "dialing"]
        /\ task' = "attempt"
        /\ UNCHANGED <<node, server, script, again, timer, route, gaveUp, lastSeq, busy, relayVars, record>>
    BY DEF TryNext, nodeVars
  <1>4. DOMAIN at = Attempt /\ at = [a \in Attempt |-> at[a]]
    BY DEF TypesInv, AttemptsOK
  <1>5. at'[count'] = [guard |-> Head(queue)[1], entry |-> Head(queue)[2], seq |-> 0, previous |-> 0]
    BY <1>2, <1>3, <1>4
  <1> QED BY <1>2, <1>3, <1>4, <1>5 DEF AtOK

(* What a step of a relay or of the overlay does to the attempts.          *)
LEMMA AttemptTypes ==
    ASSUME TypesInv, NEW a \in Attempt, Sets(a) \/ Unwinds(a)
    PROVE  /\ AttemptsOK'
           /\ \A b \in Attempt : at'[b].guard = at[b].guard /\ at'[b].entry = at[b].entry
  <1>0. AttemptsOK
    BY DEF TypesInv
  <1>1. CASE DestDescribes(a)
    <2>1. PICK now \in Clocks : /\ lastSeq' = NextDescriptorSequence(a, now)
                                /\ at' = [at EXCEPT ![a].seq = lastSeq', ![a].previous = 0]
      BY <1>1 DEF DestDescribes
    <2>2. lastSeq' \in Nat
      BY <2>1, SequenceNat
    <2>3. count' = count
      BY <1>1 DEF DestDescribes
    <2>4. at[a] = [guard |-> at[a].guard, entry |-> at[a].entry, seq |-> at[a].seq, previous |-> at[a].previous]
      BY <1>0 DEF AttemptsOK, AtOK
    <2>5. /\ at'[a] = [guard |-> at[a].guard, entry |-> at[a].entry, seq |-> lastSeq', previous |-> 0]
          /\ \A b \in Attempt : b # a => at'[b] = at[b]
          /\ DOMAIN at' = Attempt /\ at' = [b \in Attempt |-> at'[b]]
      BY <1>0, <2>1, <2>4 DEF AttemptsOK
    <2> QED BY <1>0, <2>2, <2>3, <2>5 DEF AttemptsOK, AtOK
  <1>2. CASE GuardRecovers(a)
    <2>1. PICK b \in Readable \cup {0} : at' = [at EXCEPT ![a].previous = b]
      BY <1>2 DEF GuardRecovers
    <2>2. b \in Attempt \cup {0}
      BY DEF Readable
    <2>3. count' = count /\ lastSeq' = lastSeq
      BY <1>2 DEF GuardRecovers
    <2> QED BY <1>0, <2>1, <2>2, <2>3 DEF AttemptsOK, AtOK
  <1>3. CASE UNCHANGED attemptVars
    BY <1>0, <1>3 DEF attemptVars, AttemptsOK, AtOK
  <1>4. DestDescribes(a) \/ GuardRecovers(a) \/ UNCHANGED attemptVars
    BY DEF Sets, Unwinds, GuardAdmits, GuardRegisters, PutWrites, PutReadsBack, GuardBridges,
           GuardCancels, GuardFinishes, BridgeCloses, EntryInstalls, EntryCancels, EntryFinishes, EntryCloses
  <1> QED BY <1>1, <1>2, <1>3, <1>4

(* A node holds the attempt it was sent or the one it had.                 *)
LEMMA StoredType ==
    ASSUME RelaysOK, NEW a \in Attempt, NEW reached
    PROVE  Stored(a, reached) \in [Nodes -> Attempt \cup {0}]
  BY DEF RelaysOK, Stored

(* What an interrupted put() may leave at the nodes.                       *)
LEMMA InterruptedType ==
    ASSUME NEW as \in SUBSET Attempt, NEW rec \in Interrupted(as)
    PROVE  /\ rec \in [Nodes -> Attempt \cup {0}]
           /\ \A n \in Nodes : rec[n] # record[n] =>
                 rec[n] \in Attempt /\ (record[n] = 0 \/ at[rec[n]].seq > at[record[n]].seq)
  BY DEF Interrupted, Stored

(* controlSessions.size at a relay goes up or down by one.                 *)
LEMMA CountTypes ==
    ASSUME NEW f \in [Relays -> Int], NEW g
    PROVE  /\ [f EXCEPT ![g] = @ + 1] \in [Relays -> Int]
           /\ [f EXCEPT ![g] = @ - 1] \in [Relays -> Int]
           /\ \A r \in Relays : /\ [f EXCEPT ![g] = @ + 1][r] = IF r = g THEN f[r] + 1 ELSE f[r]
                               /\ [f EXCEPT ![g] = @ - 1][r] = IF r = g THEN f[r] - 1 ELSE f[r]
  <1>1. CASE g \in Relays
    BY <1>1
  <1>2. CASE g \notin Relays
    <2>1. [f EXCEPT ![g] = @ + 1] = f /\ [f EXCEPT ![g] = @ - 1] = f
      BY <1>2
    <2> QED BY <1>2, <2>1
  <1> QED BY <1>1, <1>2

(* A step of a relay or of the overlay keeps their state well formed.      *)
LEMMA RelayTypes ==
    ASSUME RelaysOK, NEW a \in Attempt, Sets(a) \/ Unwinds(a)
    PROVE  RelaysOK'
  <1> USE DEF attemptVars, GuardStates, GuardSetup, EntryStates, Step, At
  <1>1. CASE GuardAdmits(a)
    <2>1. sessions' \in [Relays -> Int]
      BY <1>1, CountTypes DEF GuardAdmits, RelaysOK
    <2> QED BY <1>1, <2>1 DEF GuardAdmits, RelaysOK
  <1>2. CASE DestDescribes(a) BY <1>2 DEF DestDescribes, RelaysOK
  <1>3. CASE GuardRecovers(a) BY <1>3 DEF GuardRecovers, RelaysOK
  <1>4. CASE GuardRegisters(a)
    <2>1. sessions' \in [Relays -> Int]
      BY <1>4, CountTypes DEF GuardRegisters, RelaysOK
    <2> QED BY <1>4, <2>1 DEF GuardRegisters, RelaysOK
  <1>5. CASE PutWrites(a)
    <2>1. record' \in [Nodes -> Attempt \cup {0}]
      BY <1>5, StoredType DEF PutWrites
    <2> QED BY <1>5, <2>1 DEF PutWrites, RelaysOK
  <1>6. CASE PutReadsBack(a) BY <1>6 DEF PutReadsBack, RelaysOK
  <1>7. CASE GuardBridges(a)
    <2>1. sessions' \in [Relays -> Int]
      BY <1>7, CountTypes DEF GuardBridges, RelaysOK
    <2> QED BY <1>7, <2>1 DEF GuardBridges, RelaysOK
  <1>8. CASE GuardCancels(a)
    <2>1. record' \in [Nodes -> Attempt \cup {0}]
      BY <1>8, InterruptedType DEF GuardCancels
    <2> QED BY <1>8, <2>1 DEF GuardCancels, RelaysOK
  <1>9. CASE GuardFinishes(a)
    <2>1. sessions' \in [Relays -> Int]
      BY <1>9, CountTypes DEF GuardFinishes, RelaysOK
    <2> QED BY <1>9, <2>1 DEF GuardFinishes, RelaysOK
  <1>10. CASE BridgeCloses(a) BY <1>10 DEF BridgeCloses, RelaysOK
  <1>11. CASE EntryInstalls(a)
    <2>1. sessions' \in [Relays -> Int]
      BY <1>11, CountTypes DEF EntryInstalls, RelaysOK
    <2> QED BY <1>11, <2>1 DEF EntryInstalls, RelaysOK
  <1>12. CASE EntryCancels(a) BY <1>12 DEF EntryCancels, RelaysOK
  <1>13. CASE EntryFinishes(a)
    <2>1. sessions' \in [Relays -> Int]
      BY <1>13, CountTypes DEF EntryFinishes, RelaysOK
    <2> QED BY <1>13, <2>1 DEF EntryFinishes, RelaysOK
  <1>14. CASE EntryCloses(a) BY <1>14 DEF EntryCloses, RelaysOK
  <1> QED BY <1>1, <1>2, <1>3, <1>4, <1>5, <1>6, <1>7, <1>8, <1>9, <1>10, <1>11, <1>12,
             <1>13, <1>14, Zenon DEF Sets, Unwinds

(* Every step keeps the whole state well formed.                           *)
LEMMA NextTypes ==
    ASSUME TypesInv, [Next]_vars
    PROVE  TypesInv'
  <1>0. DestOK /\ AttemptsOK /\ RelaysOK
    BY DEF TypesInv
  <1>1. CASE Calls \/ Publishes \/ Circuits
    <2>1. DestOK'
      BY <1>0, <1>1, DestTypes
    <2>2. UNCHANGED <<count, at, relayVars, record>>
      BY <1>1, DestFrame
    <2>3. lastSeq' \in Nat
      <3>1. lastSeq' = lastSeq \/ lastSeq' = 0
        BY <1>1 DEF Calls, Publishes, Circuits, Listen, Close, ServerSuspend, ServerResume, Suspend,
             SuspendClears, Resume, Destroy, Restart, Discovered, DiscoveryFails, PublishFails, Refresh,
             DialFails, AttemptFails, DestInstalls, DestTooLate, DestStillborn, DestLosesCircuit, DestExpires,
             SourceOpens, StreamsEnd, attemptVars
      <3> QED BY <1>0, <3>1 DEF AttemptsOK
    <2>4. AttemptsOK'
      BY <1>0, <2>2, <2>3 DEF AttemptsOK, AtOK
    <2>5. RelaysOK'
      BY <1>0, <2>2 DEF RelaysOK, relayVars
    <2> QED BY <2>1, <2>4, <2>5 DEF TypesInv
  <1>2. CASE TryNext
    <2>1. DestOK'
      BY <1>0, <1>2, TryNextFacts DEF DestOK, DestStates, Tasks
    <2>2. AttemptsOK'
      <3>1. \A a \in Attempt : AtOK(at'[a])
        BY <1>0, <1>2, TryNextFacts DEF AttemptsOK
      <3> QED BY <1>0, <1>2, <3>1, TryNextFacts DEF AttemptsOK, AtOK
    <2>3. RelaysOK'
      BY <1>0, <1>2, TryNextFacts DEF RelaysOK, relayVars
    <2> QED BY <2>1, <2>2, <2>3 DEF TypesInv
  <1>3. ASSUME NEW a \in Attempt, Sets(a) \/ Unwinds(a) PROVE TypesInv'
    <2>1. dest' \in [Attempt -> DestStates]
      <3>1. CASE GuardAdmits(a) BY <1>0, <3>1 DEF DestOK, DestStates, GuardAdmits
      <3>2. CASE DestDescribes(a) BY <1>0, <3>2 DEF DestOK, DestStates, DestDescribes
      <3>3. CASE UNCHANGED dest BY <1>0, <3>3 DEF DestOK
      <3> QED BY <1>3, <3>1, <3>2, <3>3 DEF Sets, Unwinds, GuardRecovers, GuardRegisters, PutWrites,
                 PutReadsBack, GuardBridges, GuardCancels, GuardFinishes, BridgeCloses,
                 EntryInstalls, EntryCancels, EntryFinishes, EntryCloses
    <2>2. UNCHANGED <<nodeVars, publishVars, count, busy, relay>>
      BY <1>3, RelayFrame
    <2>3. DestOK'
      BY <1>0, <2>1, <2>2 DEF DestOK, nodeVars, publishVars
    <2>4. AttemptsOK' /\ RelaysOK'
      BY <1>0, <1>3, AttemptTypes, RelayTypes
    <2> QED BY <2>3, <2>4 DEF TypesInv
  <1>4. ASSUME NEW r \in Relays, Suspends(r) PROVE TypesInv'
    <2>1. /\ UNCHANGED <<node, server, publishVars, attemptVars, dest, busy, sessions>>
          /\ UNCHANGED script \/ \E c : Called(c)
          /\ UNCHANGED record \/ \E as \in SUBSET Attempt : record' \in Interrupted(as)
      BY <1>4, SuspendFrame
    <2>2. script' \in [calls : Seq(Call), attempts : Attempt]
      BY <1>0, <2>1, CalledScript DEF DestOK
    <2>3. DestOK' /\ AttemptsOK'
      BY <1>0, <2>1, <2>2 DEF DestOK, AttemptsOK, AtOK, publishVars, attemptVars
    <2>4. RelaysOK'
      <3>1. record' \in [Nodes -> Attempt \cup {0}]
        BY <1>0, <2>1, InterruptedType DEF RelaysOK
      <3> QED BY <1>0, <1>4, <2>1, <3>1
              DEF RelaysOK, Suspends, RelaySuspends, RelaySuspended, RelayStops, RelayResumes,
                  GuardStates, GuardSetup, EntryStates
    <2> QED BY <2>3, <2>4 DEF TypesInv
  <1>5. CASE UNCHANGED vars
    BY <1>0, <1>5 DEF vars, nodeVars, publishVars, attemptVars, relayVars, TypesInv, DestOK, AttemptsOK, AtOK, RelaysOK
  <1> QED BY <1>1, <1>2, <1>3, <1>4, <1>5, StepKinds

(* ------------------------------------------------- the destination ------ *)

(* A call of the application stops the server and clears it, or starts a   *)
(* publish() for a server that may have a route again.                     *)
LEMMA CallsQuiet ==
    ASSUME DestOK, QuietInv, NotStranded, Calls
    PROVE  QuietInv' /\ NotStranded'
  <1> USE DEF nodeVars, publishVars, QuietInv, NotStranded, Quiet, Halted
  <1>1. CASE Listen BY <1>1 DEF Listen, DestOK, PublishFrom
  <1>2. CASE Close BY <1>2 DEF Close, Clear, DestOK
  <1>3. CASE ServerSuspend BY <1>3 DEF ServerSuspend, Clear, DestOK
  <1>4. CASE ServerResume BY <1>4 DEF ServerResume, DestOK, PublishFrom
  <1>5. CASE Suspend BY <1>5 DEF Suspend, DestOK
  <1>6. CASE SuspendClears BY <1>6 DEF SuspendClears, Sever, DestOK
  <1>7. CASE Resume BY <1>7 DEF Resume, DestOK, PublishFrom
  <1>8. CASE Destroy BY <1>8 DEF Destroy, Sever, DestOK
  <1>9. CASE Restart BY <1>9 DEF Restart, DestOK
  <1> QED BY <1>1, <1>2, <1>3, <1>4, <1>5, <1>6, <1>7, <1>8, <1>9 DEF Calls

(* The end of a publish(): a failure leaves the server without a route only *)
(* if it gave up or tries again, and a first failure leaves it not started. *)
LEMMA FailureQuiet ==
    ASSUME DestOK, QuietInv, NotStranded, Ends(TRUE, route), task # "none",
           UNCHANGED <<node, route, timer, dest>>
    PROVE  QuietInv' /\ NotStranded'
  <1>1. server'.listening = "yes" <=> server.listening = "yes"
    BY DEF Ends, DestOK
  <1>2. server'.suspended = server.suspended /\ server'.closed = server.closed
    BY DEF Ends, DestOK
  <1>3. Halted(node', server') => server.listening # "yes" \/ Halted(node, server)
    BY <1>1, <1>2 DEF Halted
  <1>4. QuietInv'
    BY <1>1, <1>3 DEF QuietInv, Quiet, Halted
  <1>5. NotStranded'
    BY <1>1, <1>2 DEF NotStranded, Ends, Halted
  <1> QED BY <1>4, <1>5

(* A publish() installs its route only in a server that may have one.      *)
LEMMA PublishesQuiet ==
    ASSUME DestOK, QuietInv, NotStranded, Publishes
    PROVE  QuietInv' /\ NotStranded'
  <1> USE DEF nodeVars, publishVars
  <1>1. CASE Discovered BY <1>1 DEF Discovered, QuietInv, NotStranded, Quiet, Halted
  <1>2. CASE DiscoveryFails BY <1>2, FailureQuiet DEF DiscoveryFails
  <1>3. CASE PublishFails BY <1>3, FailureQuiet DEF PublishFails
  <1>4. CASE Refresh BY <1>4 DEF Refresh, QuietInv, NotStranded, Quiet, Halted, PublishFrom
  <1>5. ASSUME NEW a \in Attempt, DialFails(a) \/ AttemptFails(a) \/ DestTooLate(a)
        PROVE  QuietInv' /\ NotStranded'
    <2>1. /\ UNCHANGED <<node, server, timer, route, gaveUp>>
          /\ dest' = [dest EXCEPT ![a] = "gone"] /\ task' = "choose"
      BY <1>5 DEF DialFails, AttemptFails, DestTooLate, Abandon
    <2> QED BY <2>1 DEF DestOK, QuietInv, NotStranded, Quiet, Halted
  <1>6. ASSUME NEW a \in Attempt, DestInstalls(a) PROVE QuietInv' /\ NotStranded'
    <2>1. /\ ~ Halted(node, server) /\ route' = a /\ node' = node
          /\ server' = [server EXCEPT !.listening = CASE FALSE -> "failed" [] @ = "starting" -> "yes" [] OTHER -> @]
      BY <1>6 DEF DestInstalls, Ends
    <2>2. server'.listening = "yes" /\ ~ Halted(node', server')
      BY <2>1 DEF Halted, DestOK
    <2>3. route' # 0
      BY <2>1 DEF Attempt
    <2>4. QuietInv'
      BY <2>1, <2>2 DEF QuietInv
    <2> QED BY <2>3, <2>4 DEF NotStranded
  <1>7. ASSUME NEW a \in Attempt, DestStillborn(a) PROVE QuietInv' /\ NotStranded'
    <2>1. /\ UNCHANGED <<node, server, gaveUp>> /\ route' = 0 /\ ~ timer'
          /\ dest' = [dest EXCEPT ![a] = "gone"] /\ task' = "choose"
      BY <1>7 DEF DestStillborn, Abandon
    <2> QED BY <2>1 DEF DestOK, QuietInv, NotStranded, Quiet, Halted
  <1> QED BY <1>1, <1>2, <1>3, <1>4, <1>5, <1>6, <1>7 DEF Publishes

(* A lost or expired circuit takes the route with it and starts a publish(). *)
LEMMA CircuitsQuiet ==
    ASSUME DestOK, QuietInv, NotStranded, Circuits
    PROVE  QuietInv' /\ NotStranded'
  <1> USE DEF nodeVars, publishVars
  <1>1. ASSUME NEW a \in Attempt, Unavailable(a), UNCHANGED <<node, server, gaveUp>>
        PROVE  /\ NotStranded'
               /\ route' = route \/ route' = 0
               /\ timer' => timer
    BY <1>1 DEF NotStranded, Unavailable, PublishFrom, Halted
  <1>2. ASSUME NEW a \in Attempt, DestLosesCircuit(a) PROVE QuietInv' /\ NotStranded'
    <2>1. /\ Unavailable(a) /\ UNCHANGED <<node, server, gaveUp>>
          /\ dest' = [dest EXCEPT ![a] = "gone"]
      BY <1>2 DEF DestLosesCircuit
    <2> QED BY <1>1, <2>1 DEF DestOK, QuietInv, Quiet, Halted
  <1>3. ASSUME NEW a \in Attempt, DestExpires(a) PROVE QuietInv' /\ NotStranded'
    <2>1. /\ Unavailable(a) /\ UNCHANGED <<node, server, gaveUp>>
          /\ dest[a] = "live" /\ dest' = [dest EXCEPT ![a] = Retired(a)]
      BY <1>3 DEF DestExpires
    <2> QED BY <1>1, <2>1 DEF DestOK, QuietInv, Quiet, Halted
  <1>4. ASSUME NEW a \in Attempt, SourceOpens(a) \/ StreamsEnd(a) PROVE QuietInv' /\ NotStranded'
    BY <1>4 DEF SourceOpens, StreamsEnd, QuietInv, NotStranded, Quiet, Halted
  <1> QED BY <1>2, <1>3, <1>4, Zenon DEF Circuits

(* Every step leaves a stopped server quiet and a running one published,   *)
(* being published or given up.                                            *)
LEMMA NextQuiet ==
    ASSUME TypesInv, QuietInv, NotStranded, [Next]_vars
    PROVE  QuietInv' /\ NotStranded'
  <1>0. DestOK
    BY DEF TypesInv
  <1>1. CASE Calls \/ Publishes \/ Circuits
    BY <1>0, <1>1, CallsQuiet, PublishesQuiet, CircuitsQuiet
  <1>2. CASE TryNext
    <2>1. /\ UNCHANGED <<node, server, timer, route, gaveUp>> /\ task' = "attempt"
          /\ dest' = [dest EXCEPT ![count'] = "dialing"]
      BY <1>2, TryNextFacts
    <2> QED BY <1>0, <2>1 DEF DestOK, QuietInv, NotStranded, Quiet, Halted
  <1>3. ASSUME NEW a \in Attempt, Sets(a) \/ Unwinds(a) PROVE QuietInv' /\ NotStranded'
    <2>1. UNCHANGED <<node, server, timer, route, gaveUp, task>>
      BY <1>3, RelayFrame DEF nodeVars, publishVars
    <2>2. \A b \in Attempt : dest'[b] \in {"live", "retired"} => dest[b] \in {"live", "retired"}
      <3>1. CASE GuardAdmits(a) BY <1>0, <3>1 DEF DestOK, GuardAdmits
      <3>2. CASE DestDescribes(a) BY <1>0, <3>2 DEF DestOK, DestDescribes
      <3>3. CASE UNCHANGED dest BY <3>3
      <3> QED BY <1>3, <3>1, <3>2, <3>3 DEF Sets, Unwinds, GuardRecovers, GuardRegisters, PutWrites,
                 PutReadsBack, GuardBridges, GuardCancels, GuardFinishes, BridgeCloses,
                 EntryInstalls, EntryCancels, EntryFinishes, EntryCloses
    <2> QED BY <2>1, <2>2 DEF QuietInv, NotStranded, Quiet, Halted
  <1>4. ASSUME NEW r \in Relays, Suspends(r) PROVE QuietInv' /\ NotStranded'
    <2>1. UNCHANGED <<node, server, timer, route, gaveUp, task, dest>>
      BY <1>4, SuspendFrame DEF publishVars
    <2> QED BY <2>1 DEF QuietInv, NotStranded, Quiet, Halted
  <1>5. CASE UNCHANGED vars
    BY <1>5 DEF vars, nodeVars, publishVars, QuietInv, NotStranded, Quiet, Halted
  <1> QED BY <1>1, <1>2, <1>3, <1>4, <1>5, StepKinds

(* ------------------------------------------ the stages of an attempt ---- *)

(* The destination's own steps move an attempt that was made only forward. *)
LEMMA DestForward ==
    ASSUME DestOK, Calls \/ Publishes \/ Circuits
    PROVE  \A b \in Attempt : dest'[b] = dest[b] \/ (dest[b] # "none" /\ dest'[b] \in {"live", "retired", "gone"})
  <1> USE DEF DestOK
  <1>1. CASE Calls
    BY <1>1 DEF Calls, Listen, Close, ServerSuspend, ServerResume, Suspend, SuspendClears,
                Resume, Destroy, Restart, Clear, Sever, nodeVars, publishVars
  <1>2. CASE Publishes
    <2>1. CASE Discovered \/ DiscoveryFails \/ PublishFails \/ Refresh
      BY <2>1 DEF Discovered, DiscoveryFails, PublishFails, Refresh
    <2>2. ASSUME NEW a \in Attempt, DialFails(a) \/ AttemptFails(a) \/ DestTooLate(a) \/ DestStillborn(a)
          PROVE  \A b \in Attempt : dest'[b] = dest[b] \/ (dest[b] # "none" /\ dest'[b] \in {"live", "retired", "gone"})
      BY <2>2 DEF DialFails, AttemptFails, DestTooLate, DestStillborn, Abandon
    <2>3. ASSUME NEW a \in Attempt, DestInstalls(a)
          PROVE  \A b \in Attempt : dest'[b] = dest[b] \/ (dest[b] # "none" /\ dest'[b] \in {"live", "retired", "gone"})
      BY <2>3 DEF DestInstalls, Retired
    <2> QED BY <1>2, <2>1, <2>2, <2>3 DEF Publishes
  <1>3. CASE Circuits
    BY <1>3 DEF Circuits, DestLosesCircuit, DestExpires, SourceOpens, StreamsEnd, Retired
  <1> QED BY <1>1, <1>2, <1>3

(* The three ends of an attempt stay in step.                              *)
LEMMA NextStages ==
    ASSUME TypesInv, StagesInv, [Next]_vars
    PROVE  StagesInv'
  <1>0. /\ DestOK /\ AttemptsOK /\ RelaysOK
        /\ guard \in [Attempt -> GuardStates] /\ entry \in [Attempt -> EntryStates]
        /\ dest \in [Attempt -> DestStates] /\ count \in Nat
    BY DEF TypesInv, DestOK, AttemptsOK, RelaysOK, Attempt
  <1>1. CASE Calls \/ Publishes \/ Circuits
    <2>1. UNCHANGED <<count, at, guard, entry>>
      BY <1>1, DestFrame DEF relayVars
    <2> QED BY <1>0, <1>1, <2>1, DestForward DEF StagesInv
  <1>2. CASE TryNext
    <2>1. /\ count' = count + 1 /\ count' \in Attempt /\ at'[count'].seq = 0
          /\ \A a \in Attempt : a # count' => at'[a] = at[a]
          /\ dest' = [dest EXCEPT ![count'] = "dialing"]
          /\ UNCHANGED <<guard, entry>>
      BY <1>2, TryNextFacts DEF relayVars
    <2>2. count' > count /\ \A a \in Attempt : a > count' => a > count
      BY <1>0, <2>1 DEF Attempt
    <2> QED BY <1>0, <2>1, <2>2 DEF StagesInv
  <1>3. ASSUME NEW a \in Attempt, Sets(a) \/ Unwinds(a) PROVE StagesInv'
    <2>0. count' = count
      BY <1>3, RelayFrame
    <2> USE <1>0, <2>0 DEF StagesInv, GuardSetup, Step, At, attemptVars
    <2>1. CASE GuardAdmits(a) BY <2>1 DEF GuardAdmits
    <2>2. CASE DestDescribes(a)
      <3>1. /\ dest[a] = "admitting" /\ guard[a] = "waiting" /\ entry' = entry
            /\ dest' = [dest EXCEPT ![a] = "sent"]
            /\ guard' = [guard EXCEPT ![a] = "described"]
            /\ \A b \in Attempt : b # a => at'[b] = at[b]
        BY <2>2 DEF DestDescribes, AttemptsOK
      <3> QED BY <3>1
    <2>3. CASE GuardRecovers(a)
      <3>1. /\ guard[a] = "admitted" /\ UNCHANGED <<entry, dest>>
            /\ guard' = [guard EXCEPT ![a] = "waiting"]
            /\ \A b \in Attempt : at'[b].seq = at[b].seq
        BY <2>3 DEF GuardRecovers, AttemptsOK, AtOK
      <3> QED BY <3>1
    <2>4. CASE GuardRegisters(a) BY <2>4 DEF GuardRegisters
    <2>5. CASE PutWrites(a) BY <2>5 DEF PutWrites
    <2>6. CASE PutReadsBack(a) BY <2>6 DEF PutReadsBack
    <2>7. CASE GuardBridges(a) BY <2>7 DEF GuardBridges
    <2>8. CASE GuardCancels(a) BY <2>8 DEF GuardCancels
    <2>9. CASE GuardFinishes(a) BY <2>9 DEF GuardFinishes
    <2>10. CASE BridgeCloses(a) BY <2>10 DEF BridgeCloses
    <2>11. CASE EntryInstalls(a) BY <2>11 DEF EntryInstalls
    <2>12. CASE EntryCancels(a) BY <2>12 DEF EntryCancels
    <2>13. CASE EntryFinishes(a) BY <2>13 DEF EntryFinishes
    <2>14. CASE EntryCloses(a) BY <2>14 DEF EntryCloses
    <2> HIDE DEF StagesInv
    <2> QED BY <1>3, <2>1, <2>2, <2>3, <2>4, <2>5, <2>6, <2>7, <2>8, <2>9, <2>10, <2>11, <2>12,
               <2>13, <2>14, Zenon DEF Sets, Unwinds
  <1>4. ASSUME NEW r \in Relays, Suspends(r) PROVE StagesInv'
    <2>1. UNCHANGED <<count, at, dest>>
      BY <1>4, SuspendFrame DEF attemptVars
    <2>2. \A b \in Attempt :
             /\ guard'[b] = guard[b] \/ (guard[b] \in GuardSetup \cup {"bridged"} /\ guard'[b] \in {"unwinding", "gone"})
             /\ entry'[b] = entry[b] \/ entry[b] \in {"pending", "installed"}
      BY <1>0, <1>4 DEF Suspends, RelaySuspends, RelaySuspended, RelayStops, RelayResumes
    <2> QED BY <1>0, <2>1, <2>2 DEF StagesInv, GuardSetup
  <1>5. CASE UNCHANGED vars
    BY <1>5 DEF vars, attemptVars, relayVars, StagesInv
  <1> QED BY <1>1, <1>2, <1>3, <1>4, <1>5, StepKinds

(* ------------------------------------------------ the relays' sessions -- *)

Running == GuardSetup \cup {"unwinding"}
Pending == {"pending", "unwinding"}

(* The handlers under way at a relay are finitely many.                    *)
LEMMA HandlersFinite ==
    ASSUME NEW r
    PROVE  /\ IsFiniteSet(AsGuard(r)) /\ Cardinality(AsGuard(r)) \in Nat
           /\ IsFiniteSet(AsEntry(r)) /\ Cardinality(AsEntry(r)) \in Nat
  <1>0. 1 \in Int /\ MaxAttempts \in Int
    BY PublicationAssumption
  <1>1. IsFiniteSet(Attempt)
    BY <1>0, FS_Interval DEF Attempt
  <1>2. AsGuard(r) \in SUBSET Attempt /\ AsEntry(r) \in SUBSET Attempt
    BY DEF AsGuard, AsEntry
  <1>3. IsFiniteSet(AsGuard(r)) /\ IsFiniteSet(AsEntry(r))
    BY <1>1, <1>2, FS_Subset
  <1> QED BY <1>3, FS_CardinalityType

(* A step that starts and ends no handler.                                 *)
LEMMA SameSessions ==
    ASSUME SessionsInv, UNCHANGED sessions,
           \A b \in Attempt :
              /\ guard[b] \in Running \/ guard'[b] \in Running =>
                    guard[b] \in Running /\ guard'[b] \in Running /\ at'[b].guard = at[b].guard
              /\ entry[b] \in Pending \/ entry'[b] \in Pending =>
                    entry[b] \in Pending /\ entry'[b] \in Pending /\ at'[b].entry = at[b].entry
    PROVE  SessionsInv'
  <1>1. \A r \in Relays : AsGuard(r)' = AsGuard(r) /\ AsEntry(r)' = AsEntry(r)
    BY DEF AsGuard, AsEntry, Running, Pending
  <1> QED BY <1>1 DEF SessionsInv

(* A handler starts, or ends, at attempt a's guard or at its entry.        *)
LEMMA OneSession ==
    ASSUME RelaysOK, SessionsInv, NEW a \in Attempt,
           \A b \in Attempt : at'[b].guard = at[b].guard /\ at'[b].entry = at[b].entry,
           \A b \in Attempt \ {a} : guard'[b] = guard[b] /\ entry'[b] = entry[b],
           \/ /\ guard[a] \notin Running /\ guard'[a] \in Running /\ entry' = entry
              /\ sessions' = [sessions EXCEPT ![at[a].guard] = @ + 1]
           \/ /\ guard[a] \in Running /\ guard'[a] \notin Running /\ entry' = entry
              /\ sessions' = [sessions EXCEPT ![at[a].guard] = @ - 1]
           \/ /\ entry[a] \notin Pending /\ entry'[a] \in Pending
              /\ guard[a] \in Running /\ guard'[a] \in Running
              /\ sessions' = [sessions EXCEPT ![at[a].entry] = @ + 1]
           \/ /\ entry[a] \in Pending /\ entry'[a] \notin Pending /\ guard' = guard
              /\ sessions' = [sessions EXCEPT ![at[a].entry] = @ - 1]
    PROVE  SessionsInv'
  <1> SUFFICES ASSUME NEW r \in Relays
               PROVE  sessions'[r] = Cardinality(AsGuard(r)') + Cardinality(AsEntry(r)')
    BY DEF SessionsInv
  <1>0. sessions \in [Relays -> Int] /\ sessions[r] = Cardinality(AsGuard(r)) + Cardinality(AsEntry(r))
    BY DEF RelaysOK, SessionsInv
  <1>1. CASE /\ guard[a] \notin Running /\ guard'[a] \in Running /\ entry' = entry
             /\ sessions' = [sessions EXCEPT ![at[a].guard] = @ + 1]
    <2>1. AsEntry(r)' = AsEntry(r)
      BY <1>1 DEF AsEntry
    <2>2. a \notin AsGuard(r) /\ AsGuard(r)' = IF r = at[a].guard THEN AsGuard(r) \cup {a} ELSE AsGuard(r)
      BY <1>1 DEF AsGuard, Running
    <2>3. sessions'[r] = IF r = at[a].guard THEN sessions[r] + 1 ELSE sessions[r]
      BY <1>0, <1>1, CountTypes
    <2>4. a \notin AsGuard(r) => Cardinality(AsGuard(r) \cup {a}) = Cardinality(AsGuard(r)) + 1
      BY HandlersFinite, FS_AddElement
    <2>5. Cardinality(AsGuard(r)) \in Nat /\ Cardinality(AsEntry(r)) \in Nat
      BY HandlersFinite
    <2> QED BY <1>0, <2>1, <2>2, <2>3, <2>4, <2>5
  <1>2. CASE /\ guard[a] \in Running /\ guard'[a] \notin Running /\ entry' = entry
             /\ sessions' = [sessions EXCEPT ![at[a].guard] = @ - 1]
    <2>1. AsEntry(r)' = AsEntry(r)
      BY <1>2 DEF AsEntry
    <2>2. /\ AsGuard(r)' = IF r = at[a].guard THEN AsGuard(r) \ {a} ELSE AsGuard(r)
          /\ r = at[a].guard => a \in AsGuard(r)
      BY <1>2 DEF AsGuard, Running
    <2>3. sessions'[r] = IF r = at[a].guard THEN sessions[r] - 1 ELSE sessions[r]
      BY <1>0, <1>2, CountTypes
    <2>4. a \in AsGuard(r) => Cardinality(AsGuard(r) \ {a}) = Cardinality(AsGuard(r)) - 1
      BY HandlersFinite, FS_RemoveElement
    <2>5. Cardinality(AsGuard(r)) \in Nat /\ Cardinality(AsEntry(r)) \in Nat
      BY HandlersFinite
    <2> QED BY <1>0, <2>1, <2>2, <2>3, <2>4, <2>5
  <1>3. CASE /\ entry[a] \notin Pending /\ entry'[a] \in Pending
             /\ guard[a] \in Running /\ guard'[a] \in Running
             /\ sessions' = [sessions EXCEPT ![at[a].entry] = @ + 1]
    <2>1. AsGuard(r)' = AsGuard(r)
      BY <1>3 DEF AsGuard, Running
    <2>2. a \notin AsEntry(r) /\ AsEntry(r)' = IF r = at[a].entry THEN AsEntry(r) \cup {a} ELSE AsEntry(r)
      BY <1>3 DEF AsEntry, Pending
    <2>3. sessions'[r] = IF r = at[a].entry THEN sessions[r] + 1 ELSE sessions[r]
      BY <1>0, <1>3, CountTypes
    <2>4. a \notin AsEntry(r) => Cardinality(AsEntry(r) \cup {a}) = Cardinality(AsEntry(r)) + 1
      BY HandlersFinite, FS_AddElement
    <2>5. Cardinality(AsGuard(r)) \in Nat /\ Cardinality(AsEntry(r)) \in Nat
      BY HandlersFinite
    <2> QED BY <1>0, <2>1, <2>2, <2>3, <2>4, <2>5
  <1>4. CASE /\ entry[a] \in Pending /\ entry'[a] \notin Pending /\ guard' = guard
             /\ sessions' = [sessions EXCEPT ![at[a].entry] = @ - 1]
    <2>1. AsGuard(r)' = AsGuard(r)
      BY <1>4 DEF AsGuard
    <2>2. /\ AsEntry(r)' = IF r = at[a].entry THEN AsEntry(r) \ {a} ELSE AsEntry(r)
          /\ r = at[a].entry => a \in AsEntry(r)
      BY <1>4 DEF AsEntry, Pending
    <2>3. sessions'[r] = IF r = at[a].entry THEN sessions[r] - 1 ELSE sessions[r]
      BY <1>0, <1>4, CountTypes
    <2>4. a \in AsEntry(r) => Cardinality(AsEntry(r) \ {a}) = Cardinality(AsEntry(r)) - 1
      BY HandlersFinite, FS_RemoveElement
    <2>5. Cardinality(AsGuard(r)) \in Nat /\ Cardinality(AsEntry(r)) \in Nat
      BY HandlersFinite
    <2> QED BY <1>0, <2>1, <2>2, <2>3, <2>4, <2>5
  <1> QED BY <1>1, <1>2, <1>3, <1>4

(* controlSessions.size stays the number of handlers under way.            *)
LEMMA NextSessions ==
    ASSUME TypesInv, StagesInv, SessionsInv, [Next]_vars
    PROVE  SessionsInv'
  <1>0. /\ AttemptsOK /\ RelaysOK
        /\ guard \in [Attempt -> GuardStates] /\ entry \in [Attempt -> EntryStates]
    BY DEF TypesInv, RelaysOK
  <1>1. CASE UNCHANGED <<at, relayVars>>
    BY <1>1, SameSessions DEF relayVars
  <1>2. CASE TryNext
    <2>1. /\ count' = count + 1 /\ count' \in Attempt
          /\ \A a \in Attempt : a # count' => at'[a] = at[a]
          /\ UNCHANGED <<guard, entry, sessions>>
      BY <1>2, TryNextFacts DEF relayVars
    <2>2. count' > count
      BY <1>0, <2>1 DEF AttemptsOK, Attempt
    <2>3. guard[count'] \notin Running /\ entry[count'] \notin Pending
      BY <2>1, <2>2 DEF StagesInv, Running, Pending, GuardSetup
    <2> QED BY <2>1, <2>3, SameSessions
  <1>3. ASSUME NEW a \in Attempt, Sets(a) \/ Unwinds(a) PROVE SessionsInv'
    <2>0. \A b \in Attempt : at'[b].guard = at[b].guard /\ at'[b].entry = at[b].entry
      BY <1>3, AttemptTypes
    <2> DEFINE Others == \A b \in Attempt \ {a} : guard'[b] = guard[b] /\ entry'[b] = entry[b]
    <2>1. CASE GuardAdmits(a)
      <3>1. guard[a] = "none"
        BY <2>1 DEF GuardAdmits, StagesInv
      <3>2. Others /\ guard'[a] = "admitted" /\ entry' = entry /\ sessions' = [sessions EXCEPT ![at[a].guard] = @ + 1]
        BY <1>0, <2>1 DEF GuardAdmits
      <3>3. guard[a] \notin Running /\ guard'[a] \in Running
        BY <3>1, <3>2 DEF Running, GuardSetup
      <3> QED BY <1>0, <2>0, <3>2, <3>3, OneSession
    <2>2. CASE GuardRegisters(a)
      <3>1. entry[a] = "none"
        BY <2>2 DEF GuardRegisters, Step, StagesInv
      <3>2. /\ Others /\ guard[a] = "described" /\ guard'[a] = "registering" /\ entry'[a] = "pending"
            /\ sessions' = [sessions EXCEPT ![at[a].entry] = @ + 1]
        BY <1>0, <2>2 DEF GuardRegisters, Step
      <3>3. guard[a] \in Running /\ guard'[a] \in Running /\ entry[a] \notin Pending /\ entry'[a] \in Pending
        BY <3>1, <3>2 DEF Running, GuardSetup, Pending
      <3> QED BY <1>0, <2>0, <3>2, <3>3, OneSession
    <2>3. CASE GuardBridges(a) \/ GuardFinishes(a)
      <3>1. /\ Others /\ guard[a] \in {"committing", "unwinding"} /\ guard'[a] \in {"bridged", "gone"}
            /\ entry' = entry /\ sessions' = [sessions EXCEPT ![at[a].guard] = @ - 1]
        BY <1>0, <2>3 DEF GuardBridges, GuardFinishes, Step
      <3>2. guard[a] \in Running /\ guard'[a] \notin Running
        BY <3>1 DEF Running, GuardSetup
      <3> QED BY <1>0, <2>0, <3>1, <3>2, OneSession
    <2>4. CASE EntryInstalls(a) \/ EntryFinishes(a)
      <3>1. /\ Others /\ entry[a] \in {"pending", "unwinding"} /\ entry'[a] \in {"installed", "gone"}
            /\ guard' = guard /\ sessions' = [sessions EXCEPT ![at[a].entry] = @ - 1]
        BY <1>0, <2>4 DEF EntryInstalls, EntryFinishes, At
      <3>2. entry[a] \in Pending /\ entry'[a] \notin Pending
        BY <3>1 DEF Pending
      <3> QED BY <1>0, <2>0, <3>1, <3>2, OneSession
    <2>5. CASE DestDescribes(a) \/ GuardRecovers(a) \/ PutWrites(a) \/ PutReadsBack(a) \/ GuardCancels(a)
      <3>1. Others /\ entry' = entry /\ sessions' = sessions /\ guard[a] \in Running /\ guard'[a] \in Running
        BY <1>0, <2>5 DEF DestDescribes, GuardRecovers, PutWrites, PutReadsBack, GuardCancels, Step,
                          Running, GuardSetup
      <3> QED BY <2>0, <3>1, SameSessions
    <2>6. CASE BridgeCloses(a)
      <3>1. Others /\ entry' = entry /\ sessions' = sessions /\ guard[a] = "bridged" /\ guard'[a] = "gone"
        BY <1>0, <2>6 DEF BridgeCloses, Step
      <3>2. guard[a] \notin Running /\ guard'[a] \notin Running
        BY <3>1 DEF Running, GuardSetup
      <3> QED BY <2>0, <3>1, <3>2, SameSessions
    <2>7. CASE EntryCancels(a) \/ EntryCloses(a)
      <3>1. /\ Others /\ guard' = guard /\ sessions' = sessions
            /\ entry[a] \in Pending <=> entry'[a] \in Pending
        BY <1>0, <2>7 DEF EntryCancels, EntryCloses, At, Pending
      <3> QED BY <2>0, <3>1, SameSessions
    <2> QED BY <1>3, <2>1, <2>2, <2>3, <2>4, <2>5, <2>6, <2>7, Zenon DEF Sets, Unwinds
  <1>4. ASSUME NEW r \in Relays, Suspends(r) PROVE SessionsInv'
    <2>1. UNCHANGED <<at, sessions>>
      BY <1>4, SuspendFrame DEF attemptVars
    <2>2. \A b \in Attempt : (guard[b] \in Running <=> guard'[b] \in Running) /\ (entry[b] \in Pending <=> entry'[b] \in Pending)
      <3>1. CASE RelaySuspends(r)
        BY <3>1 DEF RelaySuspends, Running, GuardSetup, Pending
      <3>2. CASE RelaySuspended(r)
        BY <3>2 DEF RelaySuspended, RelayStops, Running, GuardSetup, Pending
      <3>3. CASE RelayResumes(r)
        BY <3>3 DEF RelayResumes
      <3> QED BY <1>4, <3>1, <3>2, <3>3 DEF Suspends
    <2> QED BY <2>1, <2>2, SameSessions
  <1> QED BY <1>1, <1>2, <1>3, <1>4, StepKinds, DestFrame DEF vars, attemptVars

(* A handler starts only at a relay that is up, so one that has joined its *)
(* handlers stays empty until it resumes.                                  *)
LEMMA NextEmpty ==
    ASSUME TypesInv, StagesInv, SessionsInv, SuspendedRelayIsEmpty, [Next]_vars
    PROVE  SuspendedRelayIsEmpty'
  <1>0. /\ AttemptsOK /\ RelaysOK /\ sessions \in [Relays -> Int]
        /\ guard \in [Attempt -> GuardStates] /\ entry \in [Attempt -> EntryStates]
        /\ relay \in [Relays -> {"up", "suspending", "suspended"}]
    BY DEF TypesInv, RelaysOK
  <1>1. CASE UNCHANGED <<at, relayVars>>
    BY <1>1 DEF relayVars, SuspendedRelayIsEmpty
  <1>2. CASE TryNext
    <2>1. /\ count' = count + 1 /\ count' \in Attempt
          /\ \A a \in Attempt : a # count' => at'[a] = at[a]
          /\ UNCHANGED <<guard, entry, sessions, relay>>
      BY <1>2, TryNextFacts DEF relayVars
    <2>2. count' > count
      BY <1>0, <2>1 DEF AttemptsOK, Attempt
    <2>3. guard[count'] = "none" /\ entry[count'] = "none"
      BY <2>1, <2>2 DEF StagesInv
    <2> QED BY <2>1, <2>3 DEF SuspendedRelayIsEmpty
  <1>3. ASSUME NEW a \in Attempt, Sets(a) \/ Unwinds(a) PROVE SuspendedRelayIsEmpty'
    <2> SUFFICES ASSUME NEW r \in Relays, relay'[r] = "suspended"
                 PROVE  /\ sessions'[r] = 0
                        /\ \A b \in Attempt : /\ at'[b].guard = r => guard'[b] \in {"none", "gone"}
                                              /\ at'[b].entry = r => entry'[b] \in {"none", "gone"}
      BY DEF SuspendedRelayIsEmpty
    <2>0. relay' = relay /\ \A b \in Attempt : at'[b].guard = at[b].guard /\ at'[b].entry = at[b].entry
      BY <1>3, RelayFrame, AttemptTypes
    <2>1. /\ sessions[r] = 0 /\ relay[r] = "suspended"
          /\ \A b \in Attempt : /\ at[b].guard = r => guard[b] \in {"none", "gone"}
                                /\ at[b].entry = r => entry[b] \in {"none", "gone"}
      BY <2>0 DEF SuspendedRelayIsEmpty
    <2>2. /\ \A b \in Attempt \ {a} : guard'[b] = guard[b] /\ entry'[b] = entry[b]
          /\ guard'[a] # guard[a] => (guard[a] \in {"none", "gone"} => relay[at[a].guard] = "up")
          /\ entry'[a] # entry[a] => (entry[a] \in {"none", "gone"} => relay[at[a].entry] = "up")
      BY <1>0, <1>3 DEF Sets, Unwinds, GuardAdmits, DestDescribes, GuardRecovers, GuardRegisters, PutWrites,
             PutReadsBack, GuardBridges, GuardCancels, GuardFinishes, BridgeCloses, EntryInstalls,
             EntryCancels, EntryFinishes, EntryCloses, Step, At, HasRoom, GuardSetup
    <2>3. sessions'[r] = sessions[r]
      <3>1. CASE sessions' = sessions
        BY <3>1
      <3>2. CASE \/ /\ relay[at[a].guard] = "up" \/ guard[a] \notin {"none", "gone"}
                    /\ \/ sessions' = [sessions EXCEPT ![at[a].guard] = @ + 1]
                       \/ sessions' = [sessions EXCEPT ![at[a].guard] = @ - 1]
                 \/ /\ relay[at[a].entry] = "up" \/ entry[a] \notin {"none", "gone"}
                    /\ \/ sessions' = [sessions EXCEPT ![at[a].entry] = @ + 1]
                       \/ sessions' = [sessions EXCEPT ![at[a].entry] = @ - 1]
        BY <1>0, <2>1, <3>2, CountTypes
      <3>3. CASE GuardAdmits(a) \/ GuardRegisters(a) \/ GuardBridges(a) \/ GuardFinishes(a)
                 \/ EntryInstalls(a) \/ EntryFinishes(a)
        BY <3>2, <3>3 DEF GuardAdmits, GuardRegisters, GuardBridges, GuardFinishes, EntryInstalls,
               EntryFinishes, Step, At, HasRoom
      <3> QED BY <1>3, <3>1, <3>3 DEF Sets, Unwinds, DestDescribes, GuardRecovers, PutWrites, PutReadsBack,
                 GuardCancels, BridgeCloses, EntryCancels, EntryCloses, attemptVars
    <2> QED BY <2>0, <2>1, <2>2, <2>3
  <1>4. ASSUME NEW r \in Relays, Suspends(r) PROVE SuspendedRelayIsEmpty'
    <2>0. UNCHANGED <<at, sessions>>
      BY <1>4, SuspendFrame DEF attemptVars
    <2>1. CASE RelaySuspends(r)
      BY <1>0, <2>0, <2>1 DEF RelaySuspends, SuspendedRelayIsEmpty, GuardSetup
    <2>2. CASE RelaySuspended(r)
      <3>1. sessions[r] = 0 /\ relay' = [relay EXCEPT ![r] = "suspended"]
        BY <2>2 DEF RelaySuspended, RelayStops
      <3>2. Cardinality(AsGuard(r)) = 0 /\ Cardinality(AsEntry(r)) = 0
        BY <3>1, HandlersFinite DEF SessionsInv
      <3>3. AsGuard(r) = {} /\ AsEntry(r) = {}
        BY <3>2, HandlersFinite, FS_EmptySet
      <3>4. \A b \in Attempt : /\ at[b].guard = r => guard'[b] \in {"none", "gone"}
                               /\ at[b].entry = r => entry'[b] \in {"none", "gone"}
        BY <1>0, <2>2, <3>3 DEF AsGuard, AsEntry, RelaySuspended, RelayStops, GuardStates, EntryStates
      <3>5. \A b \in Attempt : /\ at[b].guard # r => guard'[b] = guard[b]
                               /\ at[b].entry # r => entry'[b] = entry[b]
        BY <1>0, <2>2 DEF RelaySuspended, RelayStops
      <3> QED BY <1>0, <2>0, <3>1, <3>4, <3>5 DEF SuspendedRelayIsEmpty
    <2>3. CASE RelayResumes(r)
      BY <1>0, <2>0, <2>3 DEF RelayResumes, SuspendedRelayIsEmpty
    <2> QED BY <1>4, <2>1, <2>2, <2>3 DEF Suspends
  <1> QED BY <1>1, <1>2, <1>3, <1>4, StepKinds, DestFrame DEF vars, attemptVars

(* ------------------------------------------------- the overlay's nodes -- *)

(* The route is replaced together with the circuit it names.               *)
LEMMA NextRoute ==
    ASSUME TypesInv, StagesInv, RouteInv, [Next]_vars
    PROVE  RouteInv' /\ (route' = route \/ route' = 0 \/ (guard[route'] = "bridged" /\ UNCHANGED <<at, guard, record>>))
  <1>0. /\ DestOK /\ dest \in [Attempt -> DestStates] /\ route \in Attempt \cup {0} /\ 0 \notin Attempt
        /\ count \in Attempt \cup {0}
    BY DEF TypesInv, DestOK, AttemptsOK, Attempt
  <1>1. CASE Calls
    BY <1>0, <1>1 DEF RouteInv, Calls, Listen, Close, ServerSuspend, ServerResume, Suspend, SuspendClears,
                Resume, Destroy, Restart, Clear, Sever, publishVars
  <1>2. CASE Publishes
    <2>1. CASE Discovered \/ DiscoveryFails \/ PublishFails \/ Refresh
      BY <2>1 DEF RouteInv, Discovered, DiscoveryFails, PublishFails, Refresh
    <2>2. ASSUME NEW a \in Attempt, DialFails(a) \/ AttemptFails(a) \/ DestTooLate(a)
          PROVE  RouteInv' /\ route' = route
      <3>1. route' = route /\ dest[a] # "live" /\ dest' = [dest EXCEPT ![a] = "gone"]
        BY <2>2 DEF DialFails, AttemptFails, DestTooLate, Abandon
      <3> QED BY <1>0, <3>1 DEF RouteInv
    <2>3. ASSUME NEW a \in Attempt, DestInstalls(a)
          PROVE  RouteInv' /\ route' = a /\ guard[a] = "bridged" /\ UNCHANGED <<at, guard, record>>
      BY <2>3 DEF DestInstalls, RouteInv, attemptVars, relayVars
    <2>4. ASSUME NEW a \in Attempt, DestStillborn(a) PROVE RouteInv' /\ route' = 0
      BY <2>4 DEF DestStillborn, RouteInv
    <2> QED BY <1>2, <2>1, <2>2, <2>3, <2>4 DEF Publishes
  <1>3. CASE Circuits
    <2>1. ASSUME NEW a \in Attempt, DestLosesCircuit(a) \/ DestExpires(a)
          PROVE  RouteInv' /\ (route' = route \/ route' = 0)
      <3>1. /\ route' = IF route = a THEN 0 ELSE route
            /\ \A b \in Attempt \ {a} : dest'[b] = dest[b]
        BY <1>0, <2>1 DEF DestLosesCircuit, DestExpires, Unavailable
      <3> QED BY <1>0, <3>1 DEF RouteInv
    <2>2. ASSUME NEW a \in Attempt, SourceOpens(a) \/ StreamsEnd(a) PROVE RouteInv' /\ route' = route
      BY <2>2 DEF SourceOpens, StreamsEnd, RouteInv, publishVars
    <2> QED BY <1>3, <2>1, <2>2 DEF Circuits
  <1>4. CASE TryNext
    <2>1. /\ count' = count + 1 /\ count' \in Attempt /\ dest' = [dest EXCEPT ![count'] = "dialing"] /\ route' = route
      BY <1>4, TryNextFacts
    <2>2. count' > count
      BY <1>0, <2>1 DEF Attempt
    <2>3. dest[count'] = "none"
      BY <2>1, <2>2 DEF StagesInv
    <2> QED BY <1>0, <2>1, <2>3 DEF RouteInv
  <1>5. ASSUME NEW a \in Attempt, Sets(a) \/ Unwinds(a) PROVE RouteInv' /\ route' = route
    <2>1. route' = route
      BY <1>5, RelayFrame DEF publishVars
    <2>2. CASE GuardAdmits(a) \/ DestDescribes(a)
      <3>1. dest[a] # "live" /\ \A b \in Attempt \ {a} : dest'[b] = dest[b]
        BY <1>0, <2>2 DEF GuardAdmits, DestDescribes
      <3> QED BY <1>0, <2>1, <3>1 DEF RouteInv
    <2>3. CASE UNCHANGED dest
      BY <2>1, <2>3 DEF RouteInv
    <2> QED BY <1>5, <2>2, <2>3 DEF Sets, Unwinds, GuardRecovers, GuardRegisters, PutWrites,
                 PutReadsBack, GuardBridges, GuardCancels, GuardFinishes, BridgeCloses,
                 EntryInstalls, EntryCancels, EntryFinishes, EntryCloses
  <1>6. ASSUME NEW r \in Relays, Suspends(r) PROVE RouteInv' /\ route' = route
    BY <1>6, SuspendFrame DEF RouteInv, publishVars
  <1>7. CASE UNCHANGED vars
    BY <1>7 DEF vars, publishVars, RouteInv
  <1> QED BY <1>1, <1>2, <1>3, <1>4, <1>5, <1>6, <1>7, StepKinds

(* What a put() writes takes the place of no descriptor as new as its own. *)
LEMMA StoredKeepsNewest ==
    ASSUME TypesInv, NEW a \in Attempt, NEW b \in Attempt, Newest(b), NEW reached, record' = Stored(a, reached)
    PROVE  Holding(b, Nodes) \subseteq Holding(b, Nodes)'
  <1>1. at[a].seq \in Nat /\ at[b].seq \in Nat /\ at[a].seq <= at[b].seq
    BY DEF TypesInv, AttemptsOK, AtOK, Newest
  <1>2. \A n \in Nodes : record[n] = b => record'[n] = b
    BY <1>1 DEF Stored, Attempt
  <1> QED BY <1>2 DEF Holding

(* Neither does what is left of an interrupted one.                        *)
LEMMA InterruptedKeepsNewest ==
    ASSUME TypesInv, NEW as \in SUBSET Attempt, record' \in Interrupted(as), NEW b \in Attempt, Newest(b)
    PROVE  Holding(b, Nodes) \subseteq Holding(b, Nodes)'
  <1>1. \A c \in Attempt : at[c].seq \in Nat /\ at[b].seq \in Nat /\ at[c].seq <= at[b].seq
    BY DEF TypesInv, AttemptsOK, AtOK, Newest
  <1>2. \A n \in Nodes : record'[n] # record[n] =>
           record'[n] \in Attempt /\ (record[n] = 0 \/ at[record'[n]].seq > at[record[n]].seq)
    BY InterruptedType, Zenon
  <1>3. b # 0
    BY DEF Attempt
  <1>4. ASSUME NEW n \in Nodes, record[n] = b, record'[n] # b PROVE FALSE
    <2>1. record'[n] \in Attempt /\ at[record'[n]].seq > at[b].seq
      BY <1>2, <1>3, <1>4
    <2> QED BY <1>1, <2>1
  <1> QED BY <1>4 DEF Holding

(* More nodes hold a descriptor: it stays readable.                        *)
LEMMA HoldingGrows ==
    ASSUME NEW b, Holding(b, Nodes) \subseteq Holding(b, Nodes)', Cardinality(Holding(b, Nodes)) >= ReadQuorum
    PROVE  Cardinality(Holding(b, Nodes)') >= ReadQuorum
  <1>1. Holding(b, Nodes)' \in SUBSET Nodes /\ Holding(b, Nodes) \in SUBSET Holding(b, Nodes)'
    BY DEF Holding
  <1>2. IsFiniteSet(Holding(b, Nodes)')
    BY <1>1, FS_Subset, PublicationAssumption
  <1>3. IsFiniteSet(Holding(b, Nodes)) /\ Cardinality(Holding(b, Nodes)) <= Cardinality(Holding(b, Nodes)')
    BY <1>1, <1>2, FS_Subset
  <1>4. /\ Cardinality(Holding(b, Nodes)) \in Nat /\ Cardinality(Holding(b, Nodes)') \in Nat
        /\ ReadQuorum \in Nat
    BY <1>2, <1>3, FS_CardinalityType, PublicationAssumption
  <1> QED BY <1>3, <1>4

(* Nothing is newly committed, the sequences only grow, and the nodes keep *)
(* what is newest: then what was readable stays so.                        *)
LEMMA ReadableStays ==
    ASSUME ReadableInv,
           \A b \in Attempt : (b = route \/ guard[b] \in {"committing", "bridged"})'
                                /\ Newest(b)' => /\ b = route \/ guard[b] \in {"committing", "bridged"}
                                                 /\ Newest(b) /\ Holding(b, Nodes) \subseteq Holding(b, Nodes)'
    PROVE  ReadableInv'
  BY HoldingGrows DEF ReadableInv

(* A descriptor that a read quorum was seen to hold stays readable until a *)
(* newer one is made.                                                      *)
LEMMA NextReadable ==
    ASSUME TypesInv, StagesInv, RouteInv, ReadableInv, [Next]_vars
    PROVE  ReadableInv'
  <1>0. /\ DestOK /\ AttemptsOK /\ RelaysOK
        /\ guard \in [Attempt -> GuardStates] /\ route \in Attempt \cup {0} /\ 0 \notin Attempt
    BY DEF TypesInv, DestOK, RelaysOK, Attempt
  <1>1. CASE UNCHANGED <<at, guard, record>>
    <2>1. route' = route \/ route' = 0 \/ guard[route'] = "bridged"
      BY NextRoute
    <2>2. \A b : Holding(b, Nodes)' = Holding(b, Nodes) /\ (Newest(b)' <=> Newest(b))
      BY <1>1 DEF Holding, Newest
    <2> QED BY <1>0, <1>1, <2>1, <2>2, ReadableStays
  <1>2. CASE TryNext
    <2>1. /\ count' = count + 1 /\ count' \in Attempt /\ at'[count'].seq = 0
          /\ \A a \in Attempt : a # count' => at'[a] = at[a]
          /\ UNCHANGED <<guard, route, record>>
      BY <1>2, TryNextFacts DEF relayVars
    <2>2. count' > count
      BY <1>0, <2>1 DEF AttemptsOK, Attempt
    <2>3. at[count'].seq = 0
      BY <2>1, <2>2 DEF StagesInv
    <2>4. \A b \in Attempt : at'[b].seq = at[b].seq
      BY <2>1, <2>3
    <2>5. \A b \in Attempt : Newest(b)' => Newest(b)
      BY <2>4 DEF Newest
    <2>6. \A b : Holding(b, Nodes)' = Holding(b, Nodes)
      BY <2>1 DEF Holding
    <2> QED BY <2>1, <2>5, <2>6, ReadableStays
  <1>3. ASSUME NEW a \in Attempt, Sets(a) \/ Unwinds(a) PROVE ReadableInv'
    <2>0. route' = route
      BY <1>3, RelayFrame DEF publishVars
    <2>1. CASE DestDescribes(a)
      <3>1. /\ dest[a] = "admitting" /\ guard' = [guard EXCEPT ![a] = "described"] /\ record' = record
            /\ \A b \in Attempt : b # a => at'[b] = at[b]
        BY <1>0, <2>1 DEF DestDescribes, AttemptsOK
      <3>2. at[a].seq = 0 /\ at'[a].seq \in Nat /\ a # route
        <4>1. at[a].seq = 0 /\ a # route
          BY <1>0, <3>1 DEF StagesInv, RouteInv
        <4>2. AttemptsOK'
          BY <1>3, AttemptTypes
        <4> QED BY <4>1, <4>2 DEF AttemptsOK, AtOK
      <3>3. \A b \in Attempt : at[b].seq \in Nat
        BY <1>0 DEF AttemptsOK, AtOK
      <3>4. \A b \in Attempt : b # a /\ Newest(b)' => Newest(b)
        BY <3>1, <3>2, <3>3 DEF Newest
      <3>5. guard'[a] = "described" /\ \A b \in Attempt : b # a => guard'[b] = guard[b]
        BY <1>0, <3>1
      <3>6. \A b : Holding(b, Nodes)' = Holding(b, Nodes)
        BY <3>1 DEF Holding
      <3> QED BY <2>0, <3>2, <3>4, <3>5, <3>6, ReadableStays
    <2>2. CASE GuardRecovers(a)
      <3>1. /\ guard' = [guard EXCEPT ![a] = "waiting"] /\ record' = record
            /\ \A b \in Attempt : at'[b].seq = at[b].seq
        BY <1>0, <2>2 DEF GuardRecovers, Step, AttemptsOK, AtOK
      <3>2. \A b \in Attempt : Newest(b)' => Newest(b)
        BY <3>1 DEF Newest
      <3>3. guard'[a] = "waiting" /\ \A b \in Attempt : b # a => guard'[b] = guard[b]
        BY <1>0, <3>1
      <3>4. \A b : Holding(b, Nodes)' = Holding(b, Nodes)
        BY <3>1 DEF Holding
      <3> QED BY <2>0, <3>2, <3>3, <3>4, ReadableStays
    <2>3. CASE PutReadsBack(a)
      <3>1. /\ guard' = [guard EXCEPT ![a] = "committing"] /\ UNCHANGED <<record, at>>
            /\ Cardinality(Holding(a, Nodes)) >= ReadQuorum
        BY <1>0, <2>3 DEF PutReadsBack, Step, attemptVars
      <3>2. \A b : Holding(b, Nodes)' = Holding(b, Nodes) /\ (Newest(b)' <=> Newest(b))
        BY <3>1 DEF Holding, Newest
      <3>3. \A b \in Attempt : b # a => guard'[b] = guard[b]
        BY <1>0, <3>1
      <3> QED BY <2>0, <3>1, <3>2, <3>3 DEF ReadableInv
    <2>4. CASE PutWrites(a) \/ GuardCancels(a)
      <3>1. /\ \A b \in Attempt : guard'[b] \in {"committing", "bridged"} => guard[b] \in {"committing", "bridged"}
            /\ at' = at
        BY <1>0, <2>4 DEF PutWrites, GuardCancels, Step, attemptVars
      <3>2. \/ \E reached \in SUBSET Nodes : record' = Stored(a, reached)
            \/ record' \in Interrupted({a})
        BY <2>4 DEF PutWrites, GuardCancels
      <3>3. \A b \in Attempt : Newest(b)' => Newest(b)
        BY <3>1 DEF Newest
      <3>4. ASSUME NEW b \in Attempt, Newest(b) PROVE Holding(b, Nodes) \subseteq Holding(b, Nodes)'
        <4>1. {a} \in SUBSET Attempt
          OBVIOUS
        <4> QED BY <3>2, <3>4, <4>1, StoredKeepsNewest, InterruptedKeepsNewest
      <3> QED BY <2>0, <3>1, <3>3, <3>4, ReadableStays
    <2>5. CASE GuardAdmits(a) \/ GuardRegisters(a) \/ GuardBridges(a) \/ (Unwinds(a) /\ ~ GuardCancels(a))
      <3>1. /\ \A b \in Attempt : guard'[b] \in {"committing", "bridged"} => guard[b] \in {"committing", "bridged"}
            /\ UNCHANGED <<at, record>>
        BY <1>0, <2>5 DEF GuardAdmits, GuardRegisters, GuardBridges, Unwinds, GuardFinishes, BridgeCloses,
               EntryInstalls, EntryCancels, EntryFinishes, EntryCloses, Step, attemptVars
      <3>2. \A b : Holding(b, Nodes)' = Holding(b, Nodes) /\ (Newest(b)' <=> Newest(b))
        BY <3>1 DEF Holding, Newest
      <3> QED BY <2>0, <3>1, <3>2, ReadableStays
    <2> QED BY <1>3, <2>1, <2>2, <2>3, <2>4, <2>5, Zenon DEF Sets
  <1>4. ASSUME NEW r \in Relays, Suspends(r) PROVE ReadableInv'
    <2>1. /\ UNCHANGED <<at, route>>
          /\ UNCHANGED record \/ \E as \in SUBSET Attempt : record' \in Interrupted(as)
      BY <1>4, SuspendFrame DEF attemptVars, publishVars
    <2>2. \A b \in Attempt : guard'[b] \in {"committing", "bridged"} => guard[b] \in {"committing", "bridged"}
      BY <1>0, <1>4 DEF Suspends, RelaySuspends, RelaySuspended, RelayStops, RelayResumes
    <2>3. \A b \in Attempt : Newest(b)' => Newest(b)
      BY <2>1 DEF Newest
    <2>4. ASSUME NEW b \in Attempt, Newest(b) PROVE Holding(b, Nodes) \subseteq Holding(b, Nodes)'
      <3>1. CASE UNCHANGED record
        BY <3>1 DEF Holding
      <3> QED BY <2>1, <2>4, <3>1, InterruptedKeepsNewest
    <2> QED BY <2>1, <2>2, <2>3, <2>4, ReadableStays
  <1> QED BY <1>1, <1>2, <1>3, <1>4, StepKinds, DestFrame DEF vars, attemptVars, relayVars

(* -------------------------------------------------- the specification --- *)

(* A node that has just started satisfies every part of the invariant.     *)
LEMMA InitRPInv == Init => RPInv
  <1> SUFFICES ASSUME Init PROVE RPInv
    OBVIOUS
  <1>1. TypesInv
    <2>1. script \in [calls : Seq(Call), attempts : Attempt]
      BY ScriptAssumption DEF Init
    <2>2. AttemptsOK
      BY DEF Init, AttemptsOK, AtOK
    <2> QED BY <2>1, <2>2 DEF Init, TypesInv, DestOK, RelaysOK, DestStates, Tasks, GuardStates, EntryStates
  <1>2. QuietInv /\ NotStranded /\ StagesInv /\ RouteInv
    BY DEF Init, QuietInv, Quiet, NotStranded, StagesInv, RouteInv
  <1>3. SuspendedRelayIsEmpty
    BY DEF Init, SuspendedRelayIsEmpty
  <1>4. SessionsInv
    <2>1. ASSUME NEW r \in Relays PROVE AsGuard(r) = {} /\ AsEntry(r) = {} /\ sessions[r] = 0
      BY DEF Init, AsGuard, AsEntry, GuardSetup
    <2> QED BY <2>1, FS_EmptySet DEF SessionsInv
  <1>5. ReadableInv
    BY DEF Init, ReadableInv, Attempt
  <1> QED BY <1>1, <1>2, <1>3, <1>4, <1>5 DEF RPInv

(* The invariant holds in every state.                                     *)
LEMMA AlwaysRPInv == Spec => []RPInv
  <1>1. RPInv /\ [Next]_vars => RPInv'
    <2> SUFFICES ASSUME RPInv, [Next]_vars PROVE RPInv'
      OBVIOUS
    <2>1. TypesInv /\ QuietInv /\ NotStranded /\ StagesInv /\ SessionsInv /\ SuspendedRelayIsEmpty /\ RouteInv /\ ReadableInv
      BY DEF RPInv
    <2> QED BY <2>1, NextTypes, NextQuiet, NextStages, NextSessions, NextEmpty, NextRoute, NextReadable DEF RPInv
  <1> QED BY <1>1, InitRPInv, PTL DEF Spec

(* CurrentIsReadable: whatever writes of older descriptors are still under *)
(* way, what the server believes is published is what a lookup finds.      *)
THEOREM CurrentIsReadableHolds == Spec => []CurrentIsReadable
  <1>1. RPInv => CurrentIsReadable
    BY DEF RPInv, TypesInv, DestOK, ReadableInv, CurrentIsReadable, Newest
  <1> QED BY <1>1, AlwaysRPInv, PTL

(* NotStranded: no order of lost circuits, expiries, refreshes, suspends   *)
(* and resumes leaves a listening server without a route and a publish().  *)
THEOREM NotStrandedHolds == Spec => []NotStranded
  <1>1. RPInv => NotStranded
    BY DEF RPInv
  <1> QED BY <1>1, AlwaysRPInv, PTL

(* HaltedIsQuiet: once a stopped server has no publish() under way it has  *)
(* no route, no circuit and no timer.                                      *)
THEOREM HaltedIsQuietHolds == Spec => []HaltedIsQuiet
  <1>1. RPInv => HaltedIsQuiet
    BY DEF RPInv, QuietInv, Quiet, HaltedIsQuiet
  <1> QED BY <1>1, AlwaysRPInv, PTL

(* SuspendedRelayIsEmpty: suspend() has joined every handler it cancelled. *)
THEOREM SuspendedRelayIsEmptyHolds == Spec => []SuspendedRelayIsEmpty
  <1>1. RPInv => SuspendedRelayIsEmpty
    BY DEF RPInv
  <1> QED BY <1>1, AlwaysRPInv, PTL

(* What a step may do to a circuit that carries streams.                   *)
LEMMA StreamsSurviveStep ==
    ASSUME TypesInv, QuietInv, [Next]_vars, NEW a \in Attempt,
           busy[a], dest[a] \in {"live", "retired"}, dest'[a] = "gone"
    PROVE  guard[a] = "gone" \/ Halted(node', server')
  <1>0. /\ node \in [suspended : BOOLEAN, clearing : BOOLEAN, destroyed : BOOLEAN]
        /\ server \in [listening : {"no", "starting", "yes", "failed"}, suspended : BOOLEAN, closed : BOOLEAN]
        /\ dest \in [Attempt -> DestStates] /\ (node.clearing => node.suspended)
    BY DEF TypesInv, DestOK, QuietInv
  <1>1. CASE Calls
    <2>1. CASE Close BY <1>0, <2>1 DEF Close, Halted
    <2>2. CASE ServerSuspend BY <1>0, <2>2 DEF ServerSuspend, Halted
    <2>3. CASE SuspendClears BY <1>0, <2>3 DEF SuspendClears, Halted
    <2>4. CASE Destroy BY <1>0, <2>4 DEF Destroy, Halted
    <2>5. CASE Restart BY <2>5 DEF Restart, Halted
    <2>6. CASE Listen \/ ServerResume \/ Suspend \/ Resume
      BY <2>6 DEF Listen, ServerResume, Suspend, Resume
    <2> QED BY <1>1, <2>1, <2>2, <2>3, <2>4, <2>5, <2>6 DEF Calls
  <1>2. CASE Publishes
    <2>1. CASE Discovered \/ DiscoveryFails \/ PublishFails \/ Refresh
      BY <2>1 DEF Discovered, DiscoveryFails, PublishFails, Refresh
    <2>2. ASSUME NEW b \in Attempt, DialFails(b) \/ AttemptFails(b) \/ DestTooLate(b) \/ DestStillborn(b) PROVE FALSE
      BY <1>0, <2>2 DEF DialFails, AttemptFails, DestTooLate, DestStillborn, Abandon
    <2>3. ASSUME NEW b \in Attempt, DestInstalls(b) PROVE FALSE
      BY <1>0, <2>3 DEF DestInstalls, Retired
    <2> QED BY <1>2, <2>1, <2>2, <2>3 DEF Publishes
  <1>3. CASE Circuits
    BY <1>0, <1>3 DEF Circuits, DestLosesCircuit, DestExpires, SourceOpens, StreamsEnd, Retired
  <1>4. CASE TryNext
    BY <1>0, <1>4, TryNextFacts
  <1>5. ASSUME NEW b \in Attempt, Sets(b) \/ Unwinds(b) PROVE FALSE
    BY <1>0, <1>5 DEF Sets, Unwinds, GuardAdmits, DestDescribes, GuardRecovers, GuardRegisters, PutWrites,
         PutReadsBack, GuardBridges, GuardCancels, GuardFinishes, BridgeCloses, EntryInstalls,
         EntryCancels, EntryFinishes, EntryCloses
  <1>6. ASSUME NEW r \in Relays, Suspends(r) PROVE FALSE
    BY <1>6, SuspendFrame
  <1>7. CASE UNCHANGED vars
    BY <1>7 DEF vars
  <1> QED BY <1>1, <1>2, <1>3, <1>4, <1>5, <1>6, <1>7, StepKinds

(* StreamsSurviveRefresh: a refresh, an expiry or another publish() never  *)
(* destroys a circuit that carries streams.                                *)
THEOREM StreamsSurviveRefreshHolds == Spec => StreamsSurviveRefresh
  <1>1. RPInv /\ [Next]_vars =>
            [\A a \in Attempt :
                busy[a] /\ dest[a] \in {"live", "retired"} /\ dest'[a] = "gone"
                    => guard[a] = "gone" \/ Halted(node', server')]_vars
    BY StreamsSurviveStep DEF RPInv
  <1> QED BY <1>1, AlwaysRPInv, PTL DEF Spec, StreamsSurviveRefresh
=============================================================================
