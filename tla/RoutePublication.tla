---------------------------- MODULE RoutePublication ----------------------------
(***************************************************************************)
(* How a private server publishes a route: PrivatePeerServer and the       *)
(* publishing half of PrivatePeerController at the destination, the        *)
(* ControlSessions of the guard and entry relays (OP_BUILD_DESTINATION and *)
(* OP_ENTRY_REGISTER), and the descriptor records of the overlay nodes     *)
(* (src/lib/private/private-peer-controller.js,                            *)
(* src/lib/private/overlay-descriptor-service.js).                         *)
(*                                                                         *)
(* An attempt is one call of _publishThroughGuard: one connection to a     *)
(* guard, one from the guard to an entry relay, one descriptor.            *)
(***************************************************************************)
EXTENDS Naturals, Sequences, FiniteSets, FiniteSetsExt, SequencesExt

CONSTANTS
    Relays,        \* the relays discoverRelays() finds
    Nodes,         \* the overlay nodes closest to the descriptor's target
    ReadQuorum,    \* MIN_READ_QUORUM
    WriteQuorum,   \* MIN_WRITE_QUORUM
    MaxSessions,   \* controlLimits.maxSessions
    Clocks,        \* what the destination's clock may say
    MaxAttempts,   \* bound: attempts in a behaviour
    Scripts        \* what the applications may do: [calls |-> the calls they make in
                   \* order, attempts |-> a bound on the attempts beside MaxAttempts]

ASSUME PublicationAssumption ==
    /\ IsFiniteSet(Relays) /\ Cardinality(Relays) >= 2
    /\ IsFiniteSet(Nodes) /\ Clocks \subseteq Nat /\ Clocks # {}
    /\ {ReadQuorum, WriteQuorum, MaxSessions, MaxAttempts} \subseteq Nat \ {0}

Attempt == 1 .. MaxAttempts

Call == {"listen", "close", "server.suspend", "server.resume", "suspend", "resume",
         "destroy", "restart", "relay.suspend"}

ASSUME ScriptAssumption == Scripts \subseteq [calls : Seq(Call), attempts : Attempt]

VARIABLES
    node,      \* the destination's controller: [suspended, clearing, destroyed]
    server,    \* PrivatePeerServer: [listening, suspended, closed]
    task,      \* _publishing: "none", "discover", "first", "attempt", "choose"
    queue,     \* the <<guard, entry>> pairs _publishNow has yet to try
    pins,      \* PinnedGuards: the current guard, then the alternates
    again,     \* _republishAfter
    timer,     \* _refreshTimer is armed
    route,     \* _route: the current attempt, or 0
    lastSeq,   \* lastSequences
    gaveUp,    \* the last publish() failed, and no circuit was lost during it
    count,     \* attempts made
    at,        \* each attempt's [guard, entry, seq, previous]
    dest,      \* ... how far the destination is with it
    busy,      \* ... DestinationCircuit.streams is not empty
    guard,     \* ... how far the guard is
    entry,     \* ... how far the entry is
    sessions,  \* controlSessions.size at each relay
    relay,     \* each relay's controller: "up", "suspending", "suspended"
    record,    \* DescriptorPlugin.records: the attempt each node holds, or 0
    script     \* of the script, what is yet to come

nodeVars == <<node, server, script>>
publishVars == <<task, queue, pins, again, timer, route, gaveUp>>
attemptVars == <<count, at, lastSeq>>
relayVars == <<guard, entry, sessions, relay>>
vars == <<nodeVars, publishVars, attemptVars, dest, busy, relayVars, record>>

Init ==
    /\ node = [suspended |-> FALSE, clearing |-> FALSE, destroyed |-> FALSE]
    /\ server = [listening |-> "no", suspended |-> FALSE, closed |-> FALSE]
    /\ task = "none" /\ queue = <<>> /\ pins = <<>>
    /\ again = FALSE /\ timer = FALSE /\ route = 0 /\ gaveUp = FALSE
    /\ count = 0 /\ lastSeq = 0
    /\ at = [a \in Attempt |-> [guard |-> "none", entry |-> "none", seq |-> 0, previous |-> 0]]
    /\ dest = [a \in Attempt |-> "none"]
    /\ busy = [a \in Attempt |-> FALSE]
    /\ guard = [a \in Attempt |-> "none"]
    /\ entry = [a \in Attempt |-> "none"]
    /\ sessions = [r \in Relays |-> 0]
    /\ relay = [r \in Relays |-> "up"]
    /\ record = [n \in Nodes |-> 0]
    /\ script \in Scripts

\* ------------------------------------------------- publishing, single flight

\* The tests of _publishNow, _destinationUnavailable and _publish's finally.
Halted(d, s) == d.suspended \/ d.destroyed \/ s.suspended \/ s.closed \/ s.listening \notin {"starting", "yes"}

\* _publish: one call at a time; a call that may not publish throws at once.
PublishFrom(t, d, s) == IF t = "none" /\ ~ Halted(d, s) THEN "discover" ELSE t

\* _destinationUnavailable for circuit a, if it is the current one.
Unavailable(a) ==
    /\ route' = IF route = a THEN 0 ELSE route
    /\ timer' = (timer /\ route # a)
    /\ again' = (again \/ (route = a /\ ~ Halted(node, server) /\ task # "none"))
    /\ task' = IF route = a THEN PublishFrom(task, node, server) ELSE task

\* Mutant: _publish's finally forgets _republishAfter.
EndsForgetting(failed, newRoute) ==
    LET lost == failed /\ server.listening = "starting"
    IN  /\ task' = "none"
        /\ again' = FALSE
        /\ gaveUp' = (failed /\ ~ again)
        /\ server' = [server EXCEPT !.listening = CASE lost -> "failed"
                                                    [] ~ failed /\ @ = "starting" -> "yes"
                                                    [] OTHER -> @]

\* The end of a publish(), as _publish's finally and _listen's catch see it.
Ends(failed, newRoute) ==
    LET retry == again /\ newRoute = 0 /\ ~ Halted(node, server)
        lost == failed /\ server.listening = "starting"
    IN  /\ task' = IF retry THEN "discover" ELSE "none"
        /\ again' = FALSE
        /\ gaveUp' = (failed /\ ~ again)
        /\ server' = [server EXCEPT !.listening = CASE lost -> "failed"
                                                    [] ~ failed /\ @ = "starting" -> "yes"
                                                    [] OTHER -> @]

\* PinnedGuards.ensure and candidates: the pinned guards in their order, then the
\* other relays; with each guard every other relay as the entry.
Ordered(p, rest) == p \o SetToSeq(rest \ Range(p))
Pairs(gs) == FlattenSeq([i \in 1 .. Len(gs) |->
                 LET others == SelectSeq(gs, LAMBDA e : e # gs[i])
                 IN  [j \in 1 .. Len(others) |-> <<gs[i], others[j]>>]])

\* _publishNow up to its loop: the relays are found, or too few, or the node was
\* halted meanwhile.
Discovered ==
    /\ task = "discover" /\ ~ node.suspended /\ ~ node.destroyed
    /\ pins' = Ordered(pins, Relays)
    /\ queue' = Pairs(pins')
    /\ task' = "first"
    /\ UNCHANGED <<nodeVars, again, timer, route, gaveUp, attemptVars, dest, busy, relayVars, record>>

DiscoveryFails ==
    /\ task = "discover"
    /\ Ends(TRUE, route)
    /\ UNCHANGED <<node, script, queue, pins, timer, route, attemptVars, dest, busy, relayVars, record>>

\* The loop of _publishNow: the next pair, until none is left or a failure finds
\* the server halted.
TryNext ==
    /\ \/ task = "first"
       \/ task = "choose" /\ ~ Halted(node, server)
    /\ queue # <<>> /\ count < script.attempts
    /\ count' = count + 1
    /\ at' = [at EXCEPT ![count'] = [guard |-> Head(queue)[1], entry |-> Head(queue)[2],
                                     seq |-> 0, previous |-> 0]]
    /\ dest' = [dest EXCEPT ![count'] = "dialing"]
    /\ queue' = Tail(queue)
    /\ task' = "attempt"
    /\ UNCHANGED <<nodeVars, pins, again, timer, route, gaveUp, lastSeq, busy, relayVars, record>>

PublishFails ==
    /\ task \in {"first", "choose"}
    /\ queue = <<>> \/ count = script.attempts \/ (task = "choose" /\ Halted(node, server))
    /\ Ends(TRUE, route)
    /\ queue' = <<>>
    /\ UNCHANGED <<node, script, pins, timer, route, attemptVars, dest, busy, relayVars, record>>

Current(a) == a = count /\ task = "attempt"

\* An attempt that throws: its connection is destroyed (finally).
Abandon(a) ==
    /\ dest' = [dest EXCEPT ![a] = "gone"]
    /\ task' = "choose"

\* PinnedGuards.failed: the current guard becomes the last of its alternates.
Failed(g) == IF pins # <<>> /\ Head(pins) = g THEN Append(Tail(pins), g) ELSE pins

\* PinnedGuards.select: the guard becomes the current one.
Selected(g) == <<g>> \o SelectSeq(pins, LAMBDA other : other # g)

\* No pair with an unreachable guard is tried again.
Without(r, q) == SelectSeq(q, LAMBDA p : r \notin {p[1], p[2]})

\* _connectRelay fails.
DialFails(a) ==
    /\ Current(a) /\ dest[a] = "dialing"
    /\ Abandon(a)
    /\ pins' = Failed(at[a].guard)
    /\ queue' = Without(at[a].guard, queue)
    /\ UNCHANGED <<nodeVars, again, timer, route, gaveUp, attemptVars, busy, relayVars, record>>

\* The guard is reached, and its control session admitted or refused.
HasRoom(r) == relay[r] = "up" /\ sessions[r] < MaxSessions

GuardAdmits(a) ==
    /\ dest[a] = "dialing" /\ HasRoom(at[a].guard) /\ ~ node.suspended /\ ~ node.destroyed
    /\ dest' = [dest EXCEPT ![a] = "admitting"]
    /\ guard' = [guard EXCEPT ![a] = "admitted"]
    /\ sessions' = [sessions EXCEPT ![at[a].guard] = @ + 1]
    /\ UNCHANGED <<nodeVars, publishVars, attemptVars, busy, entry, relay, record>>

\* _rejectControl, and every other way a build fails at the destination: a status
\* that is not OK, a timeout, a closed connection, a clash of diversity.
AttemptFails(a) ==
    /\ Current(a) /\ dest[a] \in {"dialing", "admitting", "sent"}
    /\ Abandon(a)
    /\ UNCHANGED <<nodeVars, queue, pins, again, timer, route, gaveUp, attemptVars, busy, relayVars, record>>

\* _nextDescriptorSequence: the clock, or one more than what is known to be used.
NextDescriptorSequence(a, now) ==
    LET remote == IF at[a].previous = 0 THEN 0 ELSE at[at[a].previous].seq
        previous == Max({lastSeq, remote})
    IN  IF now > previous THEN now ELSE previous + 1

\* The descriptor is built and sent to the guard.
DestDescribes(a) ==
    /\ Current(a) /\ dest[a] = "admitting" /\ guard[a] = "waiting"
    /\ \E now \in Clocks :
         /\ lastSeq' = NextDescriptorSequence(a, now)
         /\ at' = [at EXCEPT ![a].seq = lastSeq', ![a].previous = 0]
    /\ dest' = [dest EXCEPT ![a] = "sent"]
    /\ guard' = [guard EXCEPT ![a] = "described"]
    /\ UNCHANGED <<nodeVars, publishVars, count, busy, entry, sessions, relay, record>>

\* Mutant: retire destroys the circuit at once.
RetiredAtOnce(b) == IF dest[b] = "live" THEN "gone" ELSE dest[b]

\* DestinationCircuit.retire: no new streams; it goes once it has none.
Retired(b) == IF dest[b] = "live" THEN (IF busy[b] THEN "retired" ELSE "gone") ELSE dest[b]

\* Mutant: the server is not looked at again after the awaits.
DestInstallsAnyhow(a) ==
    /\ Current(a) /\ dest[a] = "sent" /\ guard[a] = "bridged"
    /\ route' = a
    /\ timer' = TRUE
    /\ dest' = [b \in Attempt |-> IF b = a THEN "live" ELSE Retired(b)]
    /\ queue' = <<>>
    /\ pins' = Selected(at[a].guard)
    /\ Ends(FALSE, a)
    /\ UNCHANGED <<node, script, attemptVars, busy, relayVars, record>>

\* _publishThroughGuard's end: the new route becomes the current one, the older
\* circuits retire, and the refresh is scheduled.
DestInstalls(a) ==
    /\ Current(a) /\ dest[a] = "sent" /\ guard[a] = "bridged" /\ ~ Halted(node, server)
    /\ route' = a
    /\ timer' = TRUE
    /\ dest' = [b \in Attempt |-> IF b = a THEN "live" ELSE Retired(b)]
    /\ queue' = <<>>
    /\ pins' = Selected(at[a].guard)
    /\ Ends(FALSE, a)
    /\ UNCHANGED <<node, script, attemptVars, busy, relayVars, record>>

\* The answer comes when the server may no longer have a route.
DestTooLate(a) ==
    /\ Current(a) /\ dest[a] = "sent" /\ guard[a] = "bridged" /\ Halted(node, server)
    /\ Abandon(a)
    /\ UNCHANGED <<nodeVars, queue, pins, again, timer, route, gaveUp, attemptVars, busy, relayVars, record>>

\* What the guard had already sent closes the new circuit when it is read
\* (route.start()): it was the current route, and the next pair is tried.
DestStillborn(a) ==
    /\ Current(a) /\ dest[a] = "sent" /\ guard[a] = "bridged" /\ ~ Halted(node, server)
    /\ Abandon(a)
    /\ route' = 0 /\ timer' = FALSE /\ again' = TRUE
    /\ UNCHANGED <<nodeVars, queue, pins, gaveUp, attemptVars, busy, relayVars, record>>

\* A circuit of the server closes: the guard's end is gone, or its streams ended
\* after it was retired.
DestLosesCircuit(a) ==
    /\ dest[a] \in {"live", "retired"}
    /\ guard[a] = "gone" \/ (dest[a] = "retired" /\ ~ busy[a])
    /\ dest' = [dest EXCEPT ![a] = "gone"]
    /\ busy' = [busy EXCEPT ![a] = FALSE]
    /\ Unavailable(a)
    /\ UNCHANGED <<nodeVars, queue, pins, gaveUp, attemptVars, relayVars, record>>

\* DestinationCircuit.expiry
DestExpires(a) ==
    /\ dest[a] = "live"
    /\ dest' = [dest EXCEPT ![a] = Retired(a)]
    /\ Unavailable(a)
    /\ UNCHANGED <<nodeVars, queue, pins, gaveUp, attemptVars, busy, relayVars, record>>

\* The refresh timer, and server.refresh() or notifyOnline().
Refresh ==
    /\ timer /\ timer' = FALSE
    /\ task' = PublishFrom(task, node, server)
    /\ UNCHANGED <<nodeVars, queue, pins, again, route, gaveUp, attemptVars, dest, busy, relayVars, record>>

\* --------------------------------------------------- the application's calls

\* The calls come in the order of the script, each at any time after the one before.
Called(c) ==
    /\ script.calls # <<>> /\ Head(script.calls) = c
    /\ script' = [script EXCEPT !.calls = Tail(@)]

\* _clearServerRoute: every circuit of the server is destroyed.
Clear ==
    /\ route' = 0 /\ timer' = FALSE /\ again' = FALSE
    /\ dest' = [a \in Attempt |-> IF dest[a] \in {"live", "retired"} THEN "gone" ELSE dest[a]]
    /\ busy' = [a \in Attempt |-> FALSE]

\* ... and, when the node stops, every connection to a relay (resolverStreams).
Sever ==
    /\ route' = 0 /\ timer' = FALSE /\ again' = FALSE
    /\ dest' = [a \in Attempt |-> IF dest[a] = "none" THEN "none" ELSE "gone"]
    /\ busy' = [a \in Attempt |-> FALSE]
    /\ task' = IF task = "attempt" THEN "choose" ELSE task

Listen ==
    /\ server.listening = "no" /\ ~ server.closed /\ ~ node.suspended /\ ~ node.destroyed /\ Called("listen")
    /\ server' = [server EXCEPT !.listening = "starting"]
    /\ task' = PublishFrom(task, node, server')
    /\ UNCHANGED <<node, queue, pins, again, timer, route, gaveUp, attemptVars, dest, busy, relayVars, record>>

\* PrivatePeerServer.close / _closeServer
Close ==
    /\ ~ server.closed /\ Called("close")
    /\ server' = [server EXCEPT !.closed = TRUE]
    /\ Clear
    /\ UNCHANGED <<node, task, queue, pins, gaveUp, attemptVars, relayVars, record>>

ServerSuspend ==
    /\ server.listening \in {"starting", "yes"} /\ Called("server.suspend")
    /\ server' = [server EXCEPT !.suspended = TRUE]
    /\ Clear
    /\ UNCHANGED <<node, task, queue, pins, gaveUp, attemptVars, relayVars, record>>

ServerResume ==
    /\ server.suspended /\ ~ server.closed /\ Called("server.resume")
    /\ server' = [server EXCEPT !.suspended = FALSE]
    /\ task' = PublishFrom(task, node, server')
    /\ UNCHANGED <<node, queue, pins, again, timer, route, gaveUp, attemptVars, dest, busy, relayVars, record>>

\* PrivatePeerController.suspend: the flag now, the rest once the descriptor
\* service has stopped.
Suspend ==
    /\ ~ node.suspended /\ ~ node.destroyed /\ ~ node.clearing /\ Called("suspend")
    /\ node' = [node EXCEPT !.suspended = TRUE, !.clearing = TRUE]
    /\ UNCHANGED <<server, publishVars, attemptVars, dest, busy, relayVars, record>>

SuspendClears ==
    /\ node.clearing /\ task # "discover"
    /\ node' = [node EXCEPT !.clearing = FALSE]
    /\ Sever
    /\ UNCHANGED <<server, script, queue, pins, gaveUp, attemptVars, relayVars, record>>

\* PrivatePeerController.resume, called once suspend() has resolved.
Resume ==
    /\ node.suspended /\ ~ node.destroyed /\ ~ node.clearing /\ Called("resume")
    /\ node' = [node EXCEPT !.suspended = FALSE]
    /\ task' = PublishFrom(task, node', server)
    /\ UNCHANGED <<server, queue, pins, again, timer, route, gaveUp, attemptVars, dest, busy, relayVars, record>>

\* PrivatePeerController.destroy: its servers are closed.
Destroy ==
    /\ ~ node.destroyed /\ Called("destroy")
    /\ node' = [node EXCEPT !.destroyed = TRUE]
    /\ server' = [server EXCEPT !.closed = TRUE]
    /\ Sever
    /\ UNCHANGED <<queue, pins, gaveUp, attemptVars, relayVars, record>>

\* The destination's process dies and is started again with the same key pair:
\* nothing of this state is kept.
Restart ==
    /\ server.listening = "yes" /\ Called("restart")
    /\ node' = [suspended |-> FALSE, clearing |-> FALSE, destroyed |-> FALSE]
    /\ server' = [listening |-> "no", suspended |-> FALSE, closed |-> FALSE]
    /\ task' = "none" /\ queue' = <<>> /\ pins' = <<>>
    /\ again' = FALSE /\ timer' = FALSE /\ route' = 0 /\ gaveUp' = FALSE /\ lastSeq' = 0
    /\ dest' = [a \in Attempt |-> IF dest[a] = "none" THEN "none" ELSE "gone"]
    /\ busy' = [a \in Attempt |-> FALSE]
    /\ UNCHANGED <<count, at, relayVars, record>>

\* -------------------------------------------------------- the overlay's nodes

\* Mutant: a node keeps whatever it was sent last.
StoredAnyhow(a, reached) == [n \in Nodes |-> IF n \in reached THEN a ELSE record[n]]

\* DescriptorPlugin.onrequest, COMMAND_PUT at the nodes the request reaches: only
\* a newer descriptor replaces the one there.
Stored(a, reached) ==
    [n \in Nodes |->
        IF n \in reached /\ (record[n] = 0 \/ at[a].seq > at[record[n]].seq) THEN a ELSE record[n]]

\* ... and which of them answer: not one with another descriptor of that sequence.
Answers(a, reached) ==
    {n \in reached : record[n] = 0 \/ record[n] = a \/ at[record[n]].seq # at[a].seq}

Holding(a, ns) == {n \in ns : record[n] = a}

\* ---------------------------------------------------------------- the guard

GuardSetup == {"admitted", "waiting", "described", "registering", "reading", "committing"}
Step(a, from, to) == guard[a] = from /\ guard' = [guard EXCEPT ![a] = to]

\* The descriptor the nodes of a quorum agree on, if any: getByTarget.
Readable == {b \in Attempt : Cardinality(Holding(b, Nodes)) >= ReadQuorum}

\* _handleBuildDestination: the identity is verified, the previous descriptor read
\* (or not found, or not by a quorum), and sent to the destination.
GuardRecovers(a) ==
    /\ Step(a, "admitted", "waiting")
    /\ \E b \in Readable \cup {0} : at' = [at EXCEPT ![a].previous = b]
    /\ UNCHANGED <<nodeVars, publishVars, count, lastSeq, dest, busy, entry, sessions, relay, record>>

\* ... the entry relay is connected to and sent OP_ENTRY_REGISTER, and
\* _handleEntryRegister holds the registration pending until the guard commits.
GuardRegisters(a) ==
    /\ Step(a, "described", "registering")
    /\ HasRoom(at[a].entry)
    /\ entry' = [entry EXCEPT ![a] = "pending"]
    /\ sessions' = [sessions EXCEPT ![at[a].entry] = @ + 1]
    /\ UNCHANGED <<nodeVars, publishVars, attemptVars, dest, busy, relay, record>>

\* ... it said OK, so put(): a quorum of the nodes answered the writes.
PutWrites(a) ==
    /\ entry[a] = "pending" /\ Step(a, "registering", "reading")
    /\ \E reached \in SUBSET Nodes :
         /\ Cardinality(Answers(a, reached)) >= WriteQuorum
         /\ record' = Stored(a, reached)
    /\ UNCHANGED <<nodeVars, publishVars, attemptVars, dest, busy, entry, sessions, relay>>

\* put(): and a quorum of them has it when it is read back.
PutReadsBack(a) ==
    /\ Step(a, "reading", "committing")
    /\ Cardinality(Holding(a, Nodes)) >= ReadQuorum
    /\ UNCHANGED <<nodeVars, publishVars, attemptVars, dest, busy, entry, sessions, relay, record>>

\* The commit was answered: a bridge, and the end of the session.
GuardBridges(a) ==
    /\ entry[a] = "installed" /\ dest[a] = "sent" /\ Step(a, "committing", "bridged")
    /\ sessions' = [sessions EXCEPT ![at[a].guard] = @ - 1]
    /\ UNCHANGED <<nodeVars, publishVars, attemptVars, dest, busy, entry, relay, record>>

\* DescriptorOperation.destroy: of the requests the put()s of some attempts have
\* under way some were sent, and reach their nodes.
Interrupted(as) ==
    LET writing == {a \in as : guard[a] = "registering" /\ entry[a] = "pending"}
        left(n) == {record[n]} \cup {a \in writing : Stored(a, {n})[n] = a}
    IN {f \in [Nodes -> Attempt \cup {0}] : \A n \in Nodes : f[n] \in left(n)}

\* ControlSession.cancel, or a failure in the handler: its streams and operations
\* are destroyed.
GuardCancels(a) ==
    /\ guard[a] \in GuardSetup
    /\ guard' = [guard EXCEPT ![a] = "unwinding"]
    /\ record' \in Interrupted({a})
    /\ UNCHANGED <<nodeVars, publishVars, attemptVars, dest, busy, entry, sessions, relay>>

\* _runControlSession's finally: the handler has unwound.
GuardFinishes(a) ==
    /\ Step(a, "unwinding", "gone")
    /\ sessions' = [sessions EXCEPT ![at[a].guard] = @ - 1]
    /\ UNCHANGED <<nodeVars, publishVars, attemptVars, dest, busy, entry, relay, record>>

\* transformBridge's close: either side closed, or the bridge is lost.
BridgeCloses(a) ==
    /\ Step(a, "bridged", "gone")
    /\ UNCHANGED <<nodeVars, publishVars, attemptVars, dest, busy, entry, sessions, relay, record>>

\* ---------------------------------------------------------------- the entry

At(a, from, to) == entry[a] = from /\ entry' = [entry EXCEPT ![a] = to]

\* _handleEntryRegister: the guard commits, and the registration becomes a circuit.
EntryInstalls(a) ==
    /\ guard[a] = "committing" /\ At(a, "pending", "installed")
    /\ sessions' = [sessions EXCEPT ![at[a].entry] = @ - 1]
    /\ UNCHANGED <<nodeVars, publishVars, attemptVars, dest, busy, guard, relay, record>>

EntryCancels(a) ==
    /\ entry[a] = "pending"
    /\ entry' = [entry EXCEPT ![a] = "unwinding"]
    /\ UNCHANGED <<nodeVars, publishVars, attemptVars, dest, busy, guard, sessions, relay, record>>

EntryFinishes(a) ==
    /\ At(a, "unwinding", "gone")
    /\ sessions' = [sessions EXCEPT ![at[a].entry] = @ - 1]
    /\ UNCHANGED <<nodeVars, publishVars, attemptVars, dest, busy, guard, relay, record>>

\* EntryCircuit.destroy: its link closed or its time is up.
EntryCloses(a) ==
    /\ At(a, "installed", "gone")
    /\ UNCHANGED <<nodeVars, publishVars, attemptVars, dest, busy, guard, sessions, relay, record>>

\* --------------------------------------------- a relay suspends and resumes

\* _cancelControlSessions: every session at the relay.
RelaySuspends(r) ==
    /\ relay[r] = "up" /\ Called("relay.suspend")
    /\ relay' = [relay EXCEPT ![r] = "suspending"]
    /\ guard' = [a \in Attempt |-> IF at[a].guard = r /\ guard[a] \in GuardSetup THEN "unwinding" ELSE guard[a]]
    /\ entry' = [a \in Attempt |-> IF at[a].entry = r /\ entry[a] = "pending" THEN "unwinding" ELSE entry[a]]
    /\ record' \in Interrupted({a \in Attempt : at[a].guard = r})
    /\ UNCHANGED <<node, server, publishVars, attemptVars, dest, busy, sessions>>

\* The rest of suspend(), once the control tasks have settled; then the node
\* clears its raw streams (HyperDHT.suspend), and with them its bridges.
RelayStops(r) ==
    /\ relay' = [relay EXCEPT ![r] = "suspended"]
    /\ entry' = [a \in Attempt |-> IF at[a].entry = r /\ entry[a] = "installed" THEN "gone" ELSE entry[a]]
    /\ guard' = [a \in Attempt |-> IF at[a].guard = r /\ guard[a] = "bridged" THEN "gone" ELSE guard[a]]
    /\ UNCHANGED <<nodeVars, publishVars, attemptVars, dest, busy, sessions, record>>

\* Mutant: suspend() does not await the control tasks.
RelaySuspendedAtOnce(r) == relay[r] = "suspending" /\ RelayStops(r)

RelaySuspended(r) == relay[r] = "suspending" /\ sessions[r] = 0 /\ RelayStops(r)

RelayResumes(r) ==
    /\ relay[r] = "suspended"
    /\ relay' = [relay EXCEPT ![r] = "up"]
    /\ UNCHANGED <<nodeVars, publishVars, attemptVars, dest, busy, guard, entry, sessions, record>>

\* ---------------------------------------------------------------- a source

\* _handleEntryActivate and _open: a source that has this descriptor, from the
\* nodes or from its descriptorCache, gets a stream if the whole path stands.
SourceOpens(a) ==
    /\ entry[a] = "installed" /\ guard[a] = "bridged" /\ dest[a] = "live" /\ ~ busy[a]
    /\ busy' = [busy EXCEPT ![a] = TRUE]
    /\ UNCHANGED <<nodeVars, publishVars, attemptVars, dest, relayVars, record>>

StreamsEnd(a) ==
    /\ busy[a]
    /\ busy' = [busy EXCEPT ![a] = FALSE]
    /\ UNCHANGED <<nodeVars, publishVars, attemptVars, dest, relayVars, record>>

\* ----------------------------------------------------------- specification

Next ==
    \/ Listen \/ Close \/ ServerSuspend \/ ServerResume
    \/ Suspend \/ SuspendClears \/ Resume \/ Destroy \/ Restart
    \/ Discovered \/ DiscoveryFails \/ TryNext \/ PublishFails \/ Refresh
    \/ \E a \in Attempt :
          \/ DialFails(a) \/ AttemptFails(a) \/ DestDescribes(a) \/ DestInstalls(a)
          \/ DestTooLate(a) \/ DestStillborn(a)
          \/ DestLosesCircuit(a) \/ DestExpires(a) \/ SourceOpens(a) \/ StreamsEnd(a)
          \/ GuardAdmits(a) \/ GuardRecovers(a) \/ GuardRegisters(a)
          \/ PutWrites(a) \/ PutReadsBack(a) \/ GuardBridges(a)
          \/ GuardCancels(a) \/ GuardFinishes(a) \/ BridgeCloses(a)
          \/ EntryInstalls(a) \/ EntryCancels(a) \/ EntryFinishes(a) \/ EntryCloses(a)
    \/ \E r \in Relays : RelaySuspends(r) \/ RelaySuspended(r) \/ RelayResumes(r)

Spec == Init /\ [][Next]_vars

\* -------------------------------------------------------------- properties

\* What the server believes is what a lookup finds: while its current route is the
\* newest descriptor made, a read quorum of the nodes holds it.  An older write
\* that is still under way, from a cancelled session or from before a restart with
\* a clock that went back, cannot take its place.
CurrentIsReadable ==
    route # 0 /\ (\A a \in Attempt : at[a].seq <= at[route].seq)
        => Cardinality(Holding(route, Nodes)) >= ReadQuorum

\* A server that is listening and not halted is published, or is being published,
\* unless a whole publish() failed: no order of a lost circuit, an expiry, a
\* refresh, a suspend and a resume leaves it without a route and without a task.
NotStranded ==
    server.listening = "yes" /\ ~ Halted(node, server) /\ ~ node.clearing /\ route = 0 /\ ~ gaveUp
        => task # "none"

\* Once a closed or suspended server has no publish() under way it has no route,
\* no circuit and no timer, whatever was under way when it was stopped.
HaltedIsQuiet ==
    Halted(node, server) /\ task = "none" /\ ~ node.clearing
        => /\ route = 0 /\ ~ timer
           /\ \A a \in Attempt : dest[a] \notin {"live", "retired"}

\* A relay that has suspended runs no control session and holds no registration,
\* no entry circuit and no bridge: suspend() joins the handlers it cancelled.
SuspendedRelayIsEmpty ==
    \A r \in Relays : relay[r] = "suspended" =>
        /\ sessions[r] = 0
        /\ \A a \in Attempt :
              /\ at[a].guard = r => guard[a] \in {"none", "gone"}
              /\ at[a].entry = r => entry[a] \in {"none", "gone"}

\* A refresh or an expiry never destroys a circuit that carries streams: only the
\* server's own stop, the loss of the path or the end of its streams does.
StreamsSurviveRefresh ==
    [][\A a \in Attempt :
        busy[a] /\ dest[a] \in {"live", "retired"} /\ dest'[a] = "gone"
            => guard[a] = "gone" \/ Halted(node', server')]_vars
=============================================================================
