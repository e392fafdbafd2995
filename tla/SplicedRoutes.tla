------------------------------ MODULE SplicedRoutes ------------------------------
(***************************************************************************)
(* Spliced streams over a shared destination circuit, profile 'spliced' of *)
(* src/lib/private/private-peer-controller.js.                             *)
(*                                                                         *)
(* A source is admitted by the entry relay (EntryCircuit.activate, which   *)
(* gives it the next even stream id) and then opens a raw UDX path: an     *)
(* OPEN travels source -> entry -> guard -> destination, each relay making *)
(* a pair of UDX streams on the way, and a READY travels back and makes    *)
(* each pair relay.  The entry-guard-destination links are shared by all   *)
(* the streams; a source's link, with the safety relays on it, is its own. *)
(* Every link keeps the order of one stream's frames and none between      *)
(* streams (CircuitLink.sendQueues).                                       *)
(***************************************************************************)
EXTENDS Naturals, Sequences, FiniteSets

CONSTANTS
    Sources,     \* the sources that may come
    MaxSpliced   \* MAX_SPLICED_ROUTE_STREAMS

ASSUME SpliceAssumption == IsFiniteSet(Sources) /\ MaxSpliced \in Nat \ {0}

VARIABLES
    source,   \* what each source has reached: "none", "admitted", "opening", "open", "closed"
    id,       \* the stream id the entry gave it
    nextId,   \* EntryCircuit.nextStreamId
    record,   \* EntryCircuit.sources: the entry's record of it is alive
    told,     \* record.resetReceived
    pair,     \* the UDX pair at each relay: "none", "waiting" for READY, "active",
              \* or "gone", closed after it was connected on both sides
    stream,   \* DestinationCircuit.streams, for spliced ones
    lastId,   \* DestinationCircuit.lastStreamId
    wire,     \* frames under way on each link
    closed,   \* the parties that have destroyed their side of the circuit
    cause     \* what first took the circuit down, if anything did

vars == <<source, id, nextId, record, told, pair, stream, lastId, wire, closed, cause>>

Relay == {"entry", "guard"}
Party == {"entry", "guard", "destination"}
Link == {"source-entry", "entry-source", "entry-guard", "guard-entry",
         "guard-destination", "destination-guard"}
Shared == Link \ {"source-entry", "entry-source"}
LinksOf(p) == CASE p = "entry" -> {"source-entry", "entry-guard", "guard-entry"}
                [] p = "guard" -> Shared
                [] p = "destination" -> {"guard-destination", "destination-guard"}
Frame == {"OPEN", "READY", "RESET"}

Init ==
    /\ source = [s \in Sources |-> "none"]
    /\ id = [s \in Sources |-> 0]
    /\ nextId = 2
    /\ record = [s \in Sources |-> FALSE]
    /\ told = [s \in Sources |-> FALSE]
    /\ pair = [r \in Relay |-> [s \in Sources |-> "none"]]
    /\ stream = [s \in Sources |-> FALSE]
    /\ lastId = 0
    /\ wire = [l \in Link |-> [s \in Sources |-> <<>>]]
    /\ closed = {}
    /\ cause = "none"

\* ------------------------------------------------------------- the links

Arrives(l, s, f) == wire[l][s] # <<>> /\ Head(wire[l][s]) = f

\* The wire after a frame of s was taken from link "from".
Take(from, s) == [wire EXCEPT ![from][s] = Tail(@)]
\* ... and another put on link "to", unless that link is closed.
Sent(to, q, f) == IF \E p \in closed : to \in LinksOf(p) THEN q ELSE Append(q, f)
Forward(from, to, s, f) == [wire EXCEPT ![from][s] = Tail(@), ![to][s] = Sent(to, @, f)]
Put(to, s, f) == [wire EXCEPT ![to][s] = Sent(to, @, f)]
\* The frames of s on a link whose reader is gone are lost.
Lose(w, l, s) == [w EXCEPT ![l][s] = <<>>]
\* Party p destroys its links: what was under way on them is lost.
Cut(p) == [l \in Link |-> IF l \in LinksOf(p) THEN [s \in Sources |-> <<>>] ELSE wire[l]]

\* A pair that is closed (watchSplicedPair's close): only UDX streams that were
\* connected tell their other side.
Shut(p) == IF p \in {"active", "gone"} THEN "gone" ELSE "none"
ShutAll(r) == [s \in Sources |-> Shut(pair[r][s])]

\* A party that has destroyed its side neither reads nor writes any more.
Working(p) == p \notin closed

\* ------------------------------------------------------------ the source

\* EntryCircuit.activate: the next id, before anything is opened with it.
Activate(s) ==
    /\ source[s] = "none" /\ Working("entry")
    /\ Cardinality({t \in Sources : record[t]}) < MaxSpliced
    /\ source' = [source EXCEPT ![s] = "admitted"]
    /\ id' = [id EXCEPT ![s] = nextId]
    /\ nextId' = nextId + 2
    /\ record' = [record EXCEPT ![s] = TRUE]
    /\ UNCHANGED <<told, pair, stream, lastId, wire, closed, cause>>

\* _openSession: once admitted, ask for the splice.
SpliceOpen(s) ==
    /\ source[s] = "admitted"
    /\ source' = [source EXCEPT ![s] = "opening"]
    /\ wire' = Put("source-entry", s, "OPEN")
    /\ UNCHANGED <<id, nextId, record, told, pair, stream, lastId, closed, cause>>

\* _openSession: the answer is READY, or it is refused.
SourceReady(s) ==
    /\ source[s] = "opening" /\ Arrives("entry-source", s, "READY")
    /\ source' = [source EXCEPT ![s] = "open"]
    /\ wire' = Take("entry-source", s)
    /\ UNCHANGED <<id, nextId, record, told, pair, stream, lastId, closed, cause>>

Ending(s) == source[s] \in {"admitted", "opening", "open"}

\* The source's end of a closed route: its link closes and nothing more is read.
SourceGone(s) == source' = [source EXCEPT ![s] = "closed"]

\* receiveSplice, or an answer that is not READY: RESET ends the route.
SourceReset(s) ==
    /\ Ending(s) /\ Arrives("entry-source", s, "RESET")
    /\ SourceGone(s)
    /\ wire' = Lose(wire, "entry-source", s)
    /\ UNCHANGED <<id, nextId, record, told, pair, stream, lastId, closed, cause>>

\* The source closes: it sends RESET if its stream was open, or just drops its
\* link (an abandoned attempt, a timeout, suspend, the loss of a safety relay).
SourceCloses(s) ==
    /\ Ending(s)
    /\ SourceGone(s)
    /\ \/ source[s] = "open" /\ wire' = Lose(Put("source-entry", s, "RESET"), "entry-source", s)
       \/ wire' = Lose(wire, "entry-source", s)
    /\ UNCHANGED <<id, nextId, record, told, pair, stream, lastId, closed, cause>>

\* ---------------------------------------------------- closing the circuit

\* EntryCircuit.destroy: all its sources go.
EntryDown == /\ record' = [s \in Sources |-> FALSE]
             /\ pair' = [pair EXCEPT !["entry"] = ShutAll("entry")]

\* The circuit's links close when a party destroys its side; the others follow.
CircuitCloses(p) ==
    /\ closed # {} /\ Working(p)
    /\ closed' = closed \cup {p}
    /\ CASE p = "entry" -> EntryDown /\ UNCHANGED stream
         [] p = "guard" -> pair' = [pair EXCEPT !["guard"] = ShutAll("guard")]
                           /\ UNCHANGED <<record, stream>>
         [] p = "destination" -> stream' = [s \in Sources |-> FALSE] /\ UNCHANGED <<record, pair>>
    /\ wire' = Cut(p)
    /\ UNCHANGED <<source, id, nextId, told, lastId, cause>>

\* The history keeps what came first.
First(why) == IF cause = "none" THEN why ELSE cause

\* transformBridge's close: the guard tears the whole bridge down.
GuardFails(why) ==
    /\ closed' = closed \cup {"guard"} /\ cause' = First(why) /\ wire' = Cut("guard")
    /\ pair' = [pair EXCEPT !["guard"] = ShutAll("guard")]

\* DestinationCircuit.destroy after a throw.
DestinationFails(why) ==
    /\ closed' = closed \cup {"destination"} /\ cause' = First(why) /\ wire' = Cut("destination")
    /\ stream' = [s \in Sources |-> FALSE]

\* ------------------------------------------------------------- the entry

\* _fromSource, LOGICAL_SPLICE_OPEN: a pair for the source, and the OPEN under its id.
EntryOpen(s) ==
    /\ record[s] /\ Arrives("source-entry", s, "OPEN")
    /\ pair' = [pair EXCEPT !["entry"][s] = "waiting"]
    /\ wire' = Forward("source-entry", "entry-guard", s, "OPEN")
    /\ UNCHANGED <<source, id, nextId, record, told, stream, lastId, closed, cause>>

\* RESET at the entry, from either side.
EntryReset(s, from, to) ==
    /\ record[s] /\ Arrives(from, s, "RESET")
    /\ told' = [told EXCEPT ![s] = TRUE]
    /\ pair' = [pair EXCEPT !["entry"][s] = Shut(@)]
    /\ wire' = Forward(from, to, s, "RESET")
    /\ UNCHANGED <<source, id, nextId, record, stream, lastId, closed, cause>>

\* The record's link closed: the destination hears of it unless it knows.
LegCloses(s) ==
    /\ record' = [record EXCEPT ![s] = FALSE]
    /\ pair' = [pair EXCEPT !["entry"][s] = Shut(@)]
    /\ UNCHANGED <<source, id, nextId, told, stream, lastId, closed, cause>>

\* Mutant: The link's close listener does not tell the destination.
EntrySeesCloseSilently(s) ==
    /\ record[s] /\ source[s] = "closed"
    /\ LegCloses(s)
    /\ wire' = Lose(wire, "source-entry", s)

\* The entry finds the source's link closed, maybe before reading its last frames.
EntrySeesClose(s) ==
    /\ record[s] /\ source[s] = "closed"
    /\ LegCloses(s)
    /\ wire' = Lose(IF told[s] THEN wire ELSE Put("entry-guard", s, "RESET"), "source-entry", s)

\* The source finds its link closed by the entry.
SourceSeesClose(s) ==
    /\ Ending(s) /\ ~ record[s]
    /\ SourceGone(s)
    /\ UNCHANGED <<id, nextId, record, told, pair, stream, lastId, wire, closed, cause>>

\* _receive, LOGICAL_SPLICE_READY: the pair starts to relay; without a waiting pair
\* the source's link is destroyed.
EntryReady(s) ==
    /\ record[s] /\ Arrives("guard-entry", s, "READY")
    /\ IF pair["entry"][s] = "waiting"
       THEN /\ pair' = [pair EXCEPT !["entry"][s] = "active"]
            /\ wire' = Forward("guard-entry", "entry-source", s, "READY")
            /\ UNCHANGED <<source, id, nextId, record, told, stream, lastId, closed, cause>>
       ELSE /\ LegCloses(s)
            /\ wire' = Lose(IF told[s] THEN Take("guard-entry", s)
                            ELSE Forward("guard-entry", "entry-guard", s, "RESET"), "source-entry", s)

\* _receive: frames for a source that is gone are dropped.
EntryDrops(s) ==
    /\ Working("entry") /\ ~ record[s] /\ wire["guard-entry"][s] # <<>>
    /\ wire' = Take("guard-entry", s)
    /\ UNCHANGED <<source, id, nextId, record, told, pair, stream, lastId, closed, cause>>

\* ------------------------------------------------------------- the guard

Pairs == Cardinality({s \in Sources : pair["guard"][s] \in {"waiting", "active"}})

\* Mutant: transformBridge drops an OPEN that it has no room for.
GuardOpenDrops(s) ==
    /\ Working("guard") /\ Arrives("entry-guard", s, "OPEN")
    /\ IF pair["guard"][s] # "none" \/ Pairs >= MaxSpliced
       THEN wire' = Take("entry-guard", s) /\ UNCHANGED pair
       ELSE /\ pair' = [pair EXCEPT !["guard"][s] = "waiting"]
            /\ wire' = Forward("entry-guard", "guard-destination", s, "OPEN")
    /\ UNCHANGED <<source, id, nextId, record, told, stream, lastId, closed, cause>>

\* transformBridge, LOGICAL_SPLICE_OPEN
GuardOpen(s) ==
    /\ Working("guard") /\ Arrives("entry-guard", s, "OPEN")
    /\ IF pair["guard"][s] # "none" \/ Pairs >= MaxSpliced
       THEN GuardFails("full")
       ELSE /\ pair' = [pair EXCEPT !["guard"][s] = "waiting"]
            /\ wire' = Forward("entry-guard", "guard-destination", s, "OPEN")
            /\ UNCHANGED <<closed, cause>>
    /\ UNCHANGED <<source, id, nextId, record, told, stream, lastId>>

\* transformBridge, LOGICAL_SPLICE_READY.  The pair is missing because its stream
\* was closed, or because it was idle for too long.
GuardReady(s) ==
    /\ Working("guard") /\ Arrives("destination-guard", s, "READY")
    /\ IF pair["guard"][s] # "waiting"
       THEN GuardFails(IF record[s] THEN "idle" ELSE "closed")
       ELSE /\ pair' = [pair EXCEPT !["guard"][s] = "active"]
            /\ wire' = Forward("destination-guard", "guard-entry", s, "READY")
            /\ UNCHANGED <<closed, cause>>
    /\ UNCHANGED <<source, id, nextId, record, told, stream, lastId>>

\* Mutant: transformBridge forwards the RESET and keeps its pair.
GuardResetKeeps(s, from, to) ==
    /\ Working("guard") /\ Arrives(from, s, "RESET")
    /\ wire' = Forward(from, to, s, "RESET")
    /\ UNCHANGED <<source, id, nextId, record, told, pair, stream, lastId, closed, cause>>

\* transformBridge, LOGICAL_RESET: the pair goes, the frame goes on.
GuardReset(s, from, to) ==
    /\ Working("guard") /\ Arrives(from, s, "RESET")
    /\ pair' = [pair EXCEPT !["guard"][s] = Shut(@)]
    /\ wire' = Forward(from, to, s, "RESET")
    /\ UNCHANGED <<source, id, nextId, record, told, stream, lastId, closed, cause>>

\* ------------------------------------------------------- the destination

Streams == Cardinality({s \in Sources : stream[s]})

\* _openSpliced with an id that is not above every earlier one: it throws, and
\* _receive's catch destroys the circuit.
DestinationDisorder(s) ==
    /\ Working("destination") /\ Arrives("guard-destination", s, "OPEN") /\ id[s] <= lastId
    /\ DestinationFails("order")
    /\ UNCHANGED <<source, id, nextId, record, told, pair, lastId>>

\* _openSpliced: a stream, and READY for it.
DestinationOpen(s) ==
    /\ Working("destination") /\ Arrives("guard-destination", s, "OPEN") /\ id[s] > lastId
    /\ Streams < MaxSpliced
    /\ lastId' = id[s]
    /\ stream' = [stream EXCEPT ![s] = TRUE]
    /\ wire' = Forward("guard-destination", "destination-guard", s, "READY")
    /\ UNCHANGED <<source, id, nextId, record, told, pair, closed, cause>>

\* Mutant: _openSpliced returns without a RESET when it refuses.
DestinationRefusesSilently(s) ==
    /\ Working("destination") /\ Arrives("guard-destination", s, "OPEN") /\ id[s] > lastId
    /\ lastId' = id[s]
    /\ wire' = Take("guard-destination", s)
    /\ UNCHANGED <<source, id, nextId, record, told, pair, stream, closed, cause>>

\* _openSpliced refuses: the circuit is retired, the socket is closing, or the
\* server (with its other circuits) has as many streams as it may.
DestinationRefuses(s) ==
    /\ Working("destination") /\ Arrives("guard-destination", s, "OPEN") /\ id[s] > lastId
    /\ lastId' = id[s]
    /\ wire' = Forward("guard-destination", "destination-guard", s, "RESET")
    /\ UNCHANGED <<source, id, nextId, record, told, pair, stream, closed, cause>>

\* RESET at the destination: the raw stream is destroyed, no RESET answers.
DestinationReset(s) ==
    /\ Working("destination") /\ Arrives("guard-destination", s, "RESET")
    /\ stream' = [stream EXCEPT ![s] = FALSE]
    /\ wire' = Take("guard-destination", s)
    /\ UNCHANGED <<source, id, nextId, record, told, pair, lastId, closed, cause>>

\* cleanup: the raw stream closed, by the application or underneath it.
DestinationCloses(s) ==
    /\ stream[s]
    /\ stream' = [stream EXCEPT ![s] = FALSE]
    /\ wire' = Put("destination-guard", s, "RESET")
    /\ UNCHANGED <<source, id, nextId, record, told, pair, lastId, closed, cause>>

\* ------------------------------------------------- the UDX path underneath

\* What a relay's active pair is connected to, on both sides, still stands.
Joined(r, s) ==
    IF r = "entry" THEN source[s] \in {"opening", "open"} /\ pair["guard"][s] = "active"
                   ELSE pair["entry"][s] # "gone" /\ stream[s]

\* watchSplicedPair: one stream of the pair closed, so both do.
PairCloses(r, s) ==
    /\ pair[r][s] = "active" /\ ~ Joined(r, s)
    /\ pair' = [pair EXCEPT ![r][s] = "gone"]
    /\ UNCHANGED <<source, id, nextId, record, told, stream, lastId, wire, closed, cause>>

\* watchSplicedPair: no bytes for ROUTE_LIFETIME_MS, on a path that is open or
\* while its READY is still to come.
PairIdles(r, s) ==
    /\ \/ pair[r][s] = "active" /\ source[s] = "open" /\ Joined(r, s)
       \/ pair[r][s] = "waiting"
    /\ pair' = [pair EXCEPT ![r][s] = Shut(@)]
    /\ UNCHANGED <<source, id, nextId, record, told, stream, lastId, wire, closed, cause>>

\* An end whose raw UDX stream lost its other side closes, and says so.
SourceSevered(s) ==
    /\ source[s] = "open" /\ pair["entry"][s] = "gone"
    /\ SourceCloses(s)

DestinationSevered(s) ==
    /\ stream[s] /\ pair["guard"][s] = "gone"
    /\ DestinationCloses(s)

\* ----------------------------------------------------- the specification

\* A link of the circuit is lost.
LinkFails(p) ==
    /\ closed = {}
    /\ closed' = {p} /\ cause' = "link"
    /\ pair' = [r \in Relay |-> IF r = p THEN ShutAll(r) ELSE pair[r]]
    /\ record' = IF p = "entry" THEN [s \in Sources |-> FALSE] ELSE record
    /\ stream' = IF p = "destination" THEN [s \in Sources |-> FALSE] ELSE stream
    /\ wire' = Cut(p)
    /\ UNCHANGED <<source, id, nextId, told, lastId>>

\* What the parties do of themselves once something has happened.
SourceWork(s) == SourceReady(s) \/ SourceReset(s) \/ SourceSeesClose(s) \/ SourceSevered(s)

EntryWork(s) ==
    \/ EntryOpen(s) \/ EntryReady(s) \/ EntrySeesClose(s) \/ EntryDrops(s)
    \/ EntryReset(s, "source-entry", "entry-guard")
    \/ EntryReset(s, "guard-entry", "entry-source")

GuardWork(s) ==
    \/ GuardOpen(s) \/ GuardReady(s)
    \/ GuardReset(s, "entry-guard", "guard-destination")
    \/ GuardReset(s, "destination-guard", "guard-entry")

DestinationWork(s) ==
    \/ DestinationDisorder(s) \/ DestinationOpen(s) \/ DestinationRefuses(s)
    \/ DestinationReset(s) \/ DestinationSevered(s)

Next ==
    \/ \E s \in Sources :
          \/ Activate(s) \/ SpliceOpen(s) \/ SourceCloses(s) \/ DestinationCloses(s)
          \/ SourceWork(s) \/ EntryWork(s) \/ GuardWork(s) \/ DestinationWork(s)
          \/ \E r \in Relay : PairCloses(r, s) \/ PairIdles(r, s)
    \/ \E p \in Party : CircuitCloses(p) \/ LinkFails(p)

\* Frames are delivered, and a closed link or UDX stream is noticed.  Nobody has
\* to open or close anything, and no timer is needed.
Fairness ==
    /\ \A s \in Sources :
          /\ WF_vars(SourceWork(s)) /\ WF_vars(EntryWork(s))
          /\ WF_vars(GuardWork(s)) /\ WF_vars(DestinationWork(s))
          /\ \A r \in Relay : WF_vars(PairCloses(r, s))
    /\ \A p \in Party : WF_vars(CircuitCloses(p))

Spec == Init /\ [][Next]_vars /\ Fairness

\* --------------------------------------------------------- the properties

\* Nothing is under way that a working party has yet to see.
Settled(s) ==
    /\ closed \in {{}, Party}
    /\ closed = {} => \A l \in Shared : wire[l][s] = <<>>
    /\ record[s] => wire["source-entry"][s] = <<>> /\ source[s] # "closed"
    /\ Ending(s) => wire["entry-source"][s] = <<>> /\ record[s]
    /\ \A r \in Relay : pair[r][s] = "active" => Joined(r, s)
    /\ source[s] = "open" => pair["entry"][s] # "gone"
    /\ stream[s] => pair["guard"][s] # "gone"

\* Once a stream's frames and closes have all been seen, the four parties agree
\* on it: a path relays end to end exactly when its source has it open, and no
\* relay or destination holds half a path.  The RESETs of watchSplicedPair,
\* transformBridge, EntryCircuit and DestinationCircuit race and cross, and
\* whichever comes first must free the rest.
PathAgrees ==
    \A s \in Sources : Settled(s) =>
        /\ source[s] = "open" <=> pair["entry"][s] = "active"
        /\ source[s] = "open" <=> pair["guard"][s] = "active"
        /\ source[s] = "open" <=> stream[s]
        /\ \A r \in Relay : pair[r][s] # "waiting"

\* Every open is answered without the source's timeout: _openSession's
\* inbox.read() gets READY or RESET, or its link closes.
OpenIsAnswered == \A s \in Sources : source[s] = "opening" ~> source[s] # "opening"

\* A source that is gone is forgotten everywhere: its record and slot at the
\* entry, the UDX pairs at both relays, the stream counted by the server.
ClosedIsReleased ==
    \A s \in Sources : source[s] = "closed" ~>
        /\ ~ record[s] /\ ~ stream[s]
        /\ \A r \in Relay : pair[r][s] \notin {"waiting", "active"}

\* The README's promise: "closing either side of one multiplexed stream cannot
\* reset its siblings or the destination circuit".  The shared circuit goes down
\* when a link is lost or a stream was idle for too long, and for nothing else
\* that happens to one stream.
SiblingsSurvive == cause \in {"none", "link", "idle"}
=============================================================================
