------------------------------ MODULE CircuitCredit ------------------------------
(***************************************************************************)
(* Dual-credit flow control of the private routes                          *)
(* (src/lib/private/private-peer-controller.js).                           *)
(*                                                                         *)
(* Several sources share one circuit: each has a link of its own to the    *)
(* entry relay (EntryCircuit), and the entry multiplexes their streams on  *)
(* one link to the destination (DestinationCircuit).  A DATA cell needs    *)
(* stream credit (SW cells per stream and direction, returned by the       *)
(* reader at the other end) and circuit credit (W cells per direction,     *)
(* shared by all the streams and handed out by a CircuitCreditPool: the    *)
(* entry's for what sources send, the destination's for what it sends).    *)
(* Relays between these three only re-seal cells in order                  *)
(* (transformBridge), so a path through them is one queue here.            *)
(*                                                                         *)
(* A handler that runs to completion is an operator from a state record    *)
(* to the next one; an action applies one handler.                         *)
(***************************************************************************)
EXTENDS Naturals, Sequences, FiniteSets, SequencesExt, FiniteSetsExt

CONSTANTS
    Sources,    \* the streams of the circuit, activated in any order
    W,          \* CIRCUIT_WINDOW
    SW,         \* STREAM_WINDOW
    SCB,        \* STREAM_CREDIT_BATCH
    CCB,        \* CIRCUIT_CREDIT_BATCH
    DP,         \* DEMAND_PROGRESS
    Batch,      \* SEND_BATCH_CELLS
    MaxStreams, \* MAX_ROUTE_STREAMS
    Plans       \* what the applications and hosts may do, one plan per behaviour:
                \* a plan is the cells an end may write in all, the ends that may end or
                \* destroy their side, and the sources whose host may disappear

Side == {"source", "destination"}
End == Side \X Sources

ASSUME CreditAssumption ==
    /\ W \in Nat \ {0} /\ SW \in Nat \ {0} /\ SCB \in 1 .. SW /\ CCB \in 1 .. W
    /\ DP \in 1 .. SCB /\ 2 * DP <= W /\ Batch \in Nat \ {0}
    /\ MaxStreams \in Nat
    /\ Plans \subseteq [budget : [End -> Nat], finish : SUBSET End, quit : SUBSET End,
                        join : SUBSET Sources, vanish : SUBSET Sources]

VARIABLES
    plan,    \* the plan of this behaviour
    ends,    \* the LogicalRouteStream at either end of a stream
    pools,   \* the two CircuitCreditPools: "forward" (entry), "reverse" (destination)
    entry,   \* the EntryCircuit and its record of each source
    dest,    \* the DestinationCircuit
    wire,    \* the queues of messages under way
    faults   \* why a handler threw, if one did

vars == <<plan, ends, pools, entry, dest, wire, faults>>

\* Queues: a source's own link is one queue each way; the shared link keeps one
\* queue per stream and one for the circuit's own credit (CircuitLink.sendQueues).
Circuit == "circuit"
Queue == ({"up", "down"} \X Sources) \cup ({"out", "back"} \X (Sources \cup {Circuit}))

\* A logical frame.  A circuit-scoped CREDIT is a GRANT when it answers a demand
\* and a RETURN when it gives consumed cells back; a DEMAND of zero is a WITHDRAW,
\* answered by CANCELED; a demand sent less than CREDIT_IDLE_MS after the last one
\* is a RENEWAL.
Msg(type, amount) == [type |-> type, n |-> amount]

FreshEnd(b) ==
    [st |-> "none", writing |-> FALSE, waiting |-> FALSE, left |-> 0, budget |-> b,
     sendCredit |-> SW, circuitCredit |-> 0, requested |-> 0, canceling |-> FALSE,
     idleTimer |-> FALSE, spaced |-> TRUE,
     receiveCredit |-> SW, outstanding |-> 0, streamReturn |-> 0,
     circuitReceive |-> W, circuitReturn |-> 0,
     localEnded |-> FALSE, remoteEnded |-> FALSE, resetReceived |-> FALSE]

\* Nothing of a closed stream is looked at again: one value stands for all.
ClosedEnd == [FreshEnd(0) EXCEPT !.st = "closed"]

FreshPool ==
    [available |-> W, inFlight |-> 0, legs |-> {}, pending |-> <<>>, closed |-> FALSE,
     granted |-> [s \in Sources |-> 0], wanted |-> [s \in Sources |-> 0], open |-> {}]

FreshRecord ==
    [live |-> FALSE, sendCredit |-> SW, receiveCredit |-> SW, reverseInFlight |-> 0,
     sourceEnded |-> FALSE, destinationEnded |-> FALSE, resetReceived |-> FALSE,
     progress |-> DP]

Init ==
    /\ plan \in Plans
    /\ ends = [e \in End |-> FreshEnd(plan.budget[e])]
    /\ pools = [forward |-> FreshPool, reverse |-> FreshPool]
    /\ entry = [closed |-> FALSE, records |-> [s \in Sources |-> FreshRecord],
                reverseReceive |-> W, reverseReturn |-> 0]
    /\ dest = [closed |-> FALSE, seen |-> {}, receiveCredit |-> W, returnPending |-> 0]
    /\ wire = [q \in Queue |-> <<>>]
    /\ faults = {}

State == [ends |-> ends, pools |-> pools, entry |-> entry, dest |-> dest, wire |-> wire,
          faults |-> faults]

Becomes(w) ==
    /\ ends' = w.ends /\ pools' = w.pools /\ entry' = w.entry /\ dest' = w.dest
    /\ wire' = w.wire /\ faults' = w.faults /\ UNCHANGED plan

\* ---------------------------------------------------------------- the links

\* A link that either side has destroyed carries nothing more.
Closed(w, q) ==
    IF q[1] \in {"up", "down"}
    THEN w.ends[<<"source", q[2]>>].st = "closed" \/ ~ w.entry.records[q[2]].live
    ELSE w.entry.closed \/ w.dest.closed

\* send. The limits on what may be pending (CIRCUIT_WINDOW cells of DATA, which
\* the circuit credit keeps to, and CONTROL_RESERVE frames) are left out.
Send(w, q, m) == IF Closed(w, q) THEN w ELSE [w EXCEPT !.wire[q] = Append(@, m)]

Drop(w, q) == [w EXCEPT !.wire[q] = Tail(@)]

Blame(w, kind) == [w EXCEPT !.faults = @ \cup {kind}]

\* ---------------------------------------------------- CircuitCreditPool

\* cancel: the leg's demand is withdrawn.
Cancel(w, d, s) ==
    IF s \notin w.pools[d].legs THEN w ELSE
    [w EXCEPT !.pools[d].wanted[s] = 0, !.pools[d].open = @ \ {s},
              !.pools[d].pending = SelectSeq(@, LAMBDA t : t # s)]

\* The part of release before _distribute.
TakeBack(w, d, s, n) ==
    [w EXCEPT !.pools[d].granted[s] = @ - n, !.pools[d].available = @ + n]

\* _wakeWriter
Wake(w, e) ==
    IF w.ends[e].sendCredit = 0 \/ w.ends[e].circuitCredit = 0 THEN w
    ELSE [w EXCEPT !.ends[e].waiting = FALSE]

\* Mutant: a demand still unanswered arms no timer.
ScheduleIdleForgets(w, e) ==
    IF w.ends[e].circuitCredit = 0 THEN w ELSE [w EXCEPT !.ends[e].idleTimer = TRUE]

\* _scheduleIdle: called with the stream not destroying.
ScheduleIdle(w, e) ==
    IF w.ends[e].circuitCredit = 0 /\ w.ends[e].requested = 0 THEN w
    ELSE [w EXCEPT !.ends[e].idleTimer = TRUE]

\* _releaseCircuit at the destination, up to the pool's _distribute.
ReleaseLocal(w, s) ==
    LET e == <<"destination", s>>
        held == w.ends[e].circuitCredit
        v == [Cancel(w, "reverse", s) EXCEPT !.ends[e].requested = 0, !.ends[e].circuitCredit = 0]
    IN TakeBack(v, "reverse", s, held)

\* grantCircuit at the destination, called from within _distribute: what it
\* releases is handed out again by the loop that is running.
GrantLocal(w, s, n) ==
    LET e == <<"destination", s>>
        v == [w EXCEPT !.ends[e].requested = @ - n, !.ends[e].circuitCredit = @ + n]
        u == IF v.ends[e].sendCredit = 0 \/ v.ends[e].localEnded THEN ReleaseLocal(v, s) ELSE Wake(v, e)
    IN IF w.ends[e].st # "open" THEN w
       ELSE IF u.ends[e].writing THEN u ELSE ScheduleIdle(u, e)

\* onGrant: the entry tells the source, the destination its own stream.
OnGrant(w, d, s, n) ==
    IF d = "forward" THEN Send(w, <<"down", s>>, Msg("GRANT", n)) ELSE GrantLocal(w, s, n)

\* One leg served in _distribute; r.left legs of the round remain, at r.share cells each.
ServeLeg(r, d) ==
    LET p == r.w.pools[d]
        round == IF r.left > 0 THEN r
                 ELSE [r EXCEPT !.left = Len(p.pending), !.share = Max({1, p.available \div Len(p.pending)})]
        s == Head(p.pending)
        n == Min({round.share, p.wanted[s], p.available})
        v == [r.w EXCEPT !.pools[d].available = @ - n, !.pools[d].granted[s] = @ + n,
                         !.pools[d].wanted[s] = @ - n,
                         !.pools[d].pending = IF p.wanted[s] > n THEN Append(Tail(@), s) ELSE Tail(@)]
    IN IF p.available = 0 \/ p.pending = <<>> THEN r
       ELSE [w |-> OnGrant(v, d, s, n), share |-> round.share, left |-> round.left - 1]

\* _distribute: rotating shares while there is credit and demand.  Every pass
\* serves a leg, so W passes are as many as the loop can take; W + the number of
\* legs leaves room for what a grant gives straight back.
Distribute(w, d) ==
    IF w.pools[d].closed THEN w
    ELSE FoldLeft(LAMBDA r, i : ServeLeg(r, d), [w |-> w, share |-> 0, left |-> 0],
                  [i \in 1 .. (W + Cardinality(Sources)) |-> i]).w

\* add
AddLeg(w, d, s) == [w EXCEPT !.pools[d].legs = @ \cup {s}]

\* demand, its checks passed
Demand(w, d, s, n) ==
    Distribute([w EXCEPT !.pools[d].open = @ \cup {s}, !.pools[d].wanted[s] = n,
                         !.pools[d].pending = Append(@, s)], d)

\* sent
Sent(w, d, s) == [w EXCEPT !.pools[d].granted[s] = @ - 1, !.pools[d].inFlight = @ + 1]

\* Mutant: returned credit waits for the next demand.
ReturnedSilently(w, d, n) ==
    [w EXCEPT !.pools[d].inFlight = @ - n, !.pools[d].available = @ + n]

\* returned
Returned(w, d, n) ==
    Distribute([w EXCEPT !.pools[d].inFlight = @ - n, !.pools[d].available = @ + n], d)

\* release
Release(w, d, s, n) == Distribute(TakeBack(w, d, s, n), d)

\* Mutant: the leg's unused grant is forgotten with it.
RemoveLegForgets(w, d, s) ==
    IF s \notin w.pools[d].legs THEN w
    ELSE [Cancel(w, d, s) EXCEPT !.pools[d].legs = @ \ {s}, !.pools[d].granted[s] = 0]

\* remove: the leg goes and its unused grant with it.
RemoveLeg(w, d, s) ==
    IF s \notin w.pools[d].legs THEN w
    ELSE Distribute([TakeBack(Cancel(w, d, s), d, s, w.pools[d].granted[s])
                        EXCEPT !.pools[d].legs = @ \ {s}], d)

\* destroy
DestroyPool(w, d) == [w EXCEPT !.pools[d] = [FreshPool EXCEPT !.closed = TRUE, !.available = 0]]

\* ---------------------------------------------------- LogicalRouteStream

Outward(e) == <<IF e[1] = "source" THEN "up" ELSE "back", e[2]>>

\* destroy and _predestroy: timers and the parked writer go at once.
StartDestroy(w, e) ==
    IF w.ends[e].st # "open" THEN w
    ELSE [w EXCEPT !.ends[e].st = "destroying", !.ends[e].idleTimer = FALSE, !.ends[e].waiting = FALSE,
                   !.ends[e].writing = FALSE, !.ends[e].left = 0]

\* A throw inside a stream's own handler destroys that stream.
StreamFault(w, e, kind) == StartDestroy(Blame(w, kind), e)

\* _releaseCircuit
ReleaseCircuit(w, e) ==
    LET withdraw == w.ends[e].requested # 0 /\ ~ w.ends[e].canceling
        v == IF withdraw THEN Send([w EXCEPT !.ends[e].canceling = TRUE], <<"up", e[2]>>, Msg("WITHDRAW", 0)) ELSE w
        held == w.ends[e].circuitCredit
    IN IF e[1] = "destination" THEN Distribute(ReleaseLocal(w, e[2]), "reverse")
       ELSE IF held = 0 THEN v
       ELSE Send([v EXCEPT !.ends[e].circuitCredit = 0], <<"up", e[2]>>, Msg("RELEASE", held))

\* Mutant: a new demand does not wait for the withdrawal of the old one.
MayRequestEarly(x) ==
    /\ x.st = "open" /\ ~ x.localEnded /\ x.sendCredit > 0
    /\ x.requested = 0 \/ x.canceling
    /\ 2 * x.circuitCredit <= W

\* The early return of _requestCircuit.
MayRequest(x) ==
    /\ x.st = "open" /\ ~ x.localEnded /\ x.sendCredit > 0
    /\ ~ x.canceling /\ x.requested = 0 /\ 2 * x.circuitCredit <= W

\* _requestCircuit
RequestCircuit(w, e) ==
    LET n == W - w.ends[e].circuitCredit
        v == [w EXCEPT !.ends[e].requested = n, !.ends[e].spaced = FALSE]
        kind == IF w.ends[e].spaced THEN "DEMAND" ELSE "RENEWAL"
    IN IF ~ MayRequest(w.ends[e]) THEN w
       ELSE IF e[1] = "destination" THEN Demand([v EXCEPT !.ends[e].spaced = TRUE], "reverse", e[2], n)
       ELSE Send(v, <<"up", e[2]>>, Msg(kind, n))

\* grantCircuit at a source
GrantCircuit(w, e, n) ==
    LET v == [w EXCEPT !.ends[e].requested = @ - n, !.ends[e].circuitCredit = @ + n]
        u == IF v.ends[e].sendCredit = 0 \/ v.ends[e].localEnded THEN ReleaseCircuit(v, e) ELSE Wake(v, e)
    IN IF w.ends[e].st # "open" THEN w
       ELSE IF n > w.ends[e].requested \/ v.ends[e].circuitCredit > W THEN StreamFault(w, e, "window")
       ELSE IF u.ends[e].writing THEN u ELSE ScheduleIdle(u, e)

\* cancelCircuit
CancelCircuit(w, e) ==
    LET v == [w EXCEPT !.ends[e].canceling = FALSE, !.ends[e].requested = 0]
        x == v.ends[e]
    IN IF x.st # "open" THEN w
       ELSE IF ~ w.ends[e].canceling THEN StreamFault(w, e, "state")
       ELSE Wake(IF ~ x.writing \/ x.sendCredit = 0 \/ x.localEnded THEN ReleaseCircuit(v, e)
                 ELSE RequestCircuit(v, e), e)

\* grantStream
GrantStream(w, e, n) ==
    LET v == [w EXCEPT !.ends[e].sendCredit = @ + n]
    IN IF w.ends[e].st # "open" THEN w
       ELSE IF v.ends[e].sendCredit > SW THEN StreamFault(w, e, "window")
       ELSE Wake(IF v.ends[e].writing THEN RequestCircuit(v, e) ELSE v, e)

\* DestinationCircuit.consumed
Consumed(w, n, flush) ==
    LET all == w.dest.returnPending + n
        v == [w EXCEPT !.dest.returnPending = 0, !.dest.receiveCredit = @ + all]
    IN IF w.dest.closed \/ all = 0 THEN w
       ELSE IF ~ flush /\ all < CCB THEN [w EXCEPT !.dest.returnPending = all]
       ELSE Send(IF v.dest.receiveCredit > W THEN Blame(v, "window") ELSE v,
                 <<"back", Circuit>>, Msg("RETURN", all))

\* _returnCircuit: batched unless flushed; the timer flushes the rest.
ReturnCircuit(w, e, n, flush) ==
    LET all == w.ends[e].circuitReturn + n
        v == [w EXCEPT !.ends[e].circuitReturn = 0, !.ends[e].circuitReceive = @ + all]
    IN IF e[1] = "destination" THEN Consumed(w, n, flush)
       ELSE IF all = 0 THEN w
       ELSE IF ~ flush /\ all < CCB THEN [w EXCEPT !.ends[e].circuitReturn = all]
       ELSE Send(IF v.ends[e].circuitReceive > W THEN Blame(v, "window") ELSE v,
                 <<"up", e[2]>>, Msg("RETURN", all))

\* receive
Receive(w, e) ==
    LET v == IF e[1] = "source" THEN [w EXCEPT !.ends[e].circuitReceive = @ - 1] ELSE w
        x == w.ends[e]
    IN IF e[1] = "source" /\ x.circuitReceive = 0 THEN StreamFault(w, e, "window")
       ELSE IF x.st = "destroying" THEN ReturnCircuit(v, e, 1, FALSE)
       ELSE IF x.remoteEnded THEN StreamFault(ReturnCircuit(v, e, 1, FALSE), e, "state")
       ELSE IF x.receiveCredit = 0 THEN StreamFault([v EXCEPT !.ends[e].outstanding = @ + 1], e, "window")
       ELSE [v EXCEPT !.ends[e].outstanding = @ + 1, !.ends[e].receiveCredit = @ - 1]

\* What a stream does with a frame of its own id.
AtStream(w, e, m) ==
    CASE m.type = "DATA" -> Receive(w, e)
      [] m.type = "FIN" -> [w EXCEPT !.ends[e].remoteEnded = TRUE]
      [] m.type = "RESET" -> IF w.ends[e].st # "open" THEN w
                             ELSE StartDestroy([w EXCEPT !.ends[e].resetReceived = TRUE], e)
      [] m.type = "CREDIT" -> GrantStream(w, e, m.n)

\* ------------------------------------------------ DestinationCircuit

\* destroy: the pool, the streams and the link go together.
DestroyDestination(w) ==
    LET v == DestroyPool(w, "reverse")
    IN [v EXCEPT !.dest = [closed |-> TRUE, seen |-> {}, receiveCredit |-> W, returnPending |-> 0],
                 !.ends = [e \in End |-> IF e[1] = "destination" /\ @[e].st # "none"
                                        THEN ClosedEnd ELSE @[e]],
                 !.wire = [q \in Queue |-> IF q[1] = "out" THEN <<>> ELSE @[q]]]

DestinationFault(w, kind) == DestroyDestination(Blame(w, kind))

Active(w) == {s \in Sources : w.ends[<<"destination", s>>].st \in {"open", "destroying"}}

\* _open: one stream more, unless the server has all it may have.
Open(w, s) ==
    IF s \in w.dest.seen THEN DestinationFault(w, "state")
    ELSE LET v == [w EXCEPT !.dest.seen = @ \cup {s}]
         IN IF Cardinality(Active(v)) >= MaxStreams THEN Send(v, <<"back", s>>, Msg("RESET", 0))
            ELSE AddLeg([v EXCEPT !.ends[<<"destination", s>>].st = "open"], "reverse", s)

\* _receive: a DATA cell is charged before its stream is looked up.
AtDestination(w, s, m) ==
    LET e == <<"destination", s>>
        v == IF m.type = "DATA" THEN [w EXCEPT !.dest.receiveCredit = @ - 1] ELSE w
        present == w.ends[e].st \in {"open", "destroying"}
    IN CASE m.type = "RETURN" -> IF m.n > w.pools.reverse.inFlight THEN DestinationFault(w, "window")
                                 ELSE Returned(w, "reverse", m.n)
         [] m.type = "OPEN" -> Open(w, s)
         [] m.type = "DATA" /\ w.dest.receiveCredit = 0 -> DestinationFault(w, "window")
         [] OTHER -> IF present THEN AtStream(v, e, m)
                     ELSE IF s \in w.dest.seen THEN (IF m.type = "DATA" THEN Consumed(v, 1, FALSE) ELSE w)
                     ELSE IF m.type \in {"FIN", "RESET"} THEN w ELSE DestinationFault(v, "state")

\* ------------------------------------------------------ EntryCircuit

\* _returnReverse
ReturnReverse(w, n, flush) ==
    LET all == w.entry.reverseReturn + n
        v == [w EXCEPT !.entry.reverseReturn = 0, !.entry.reverseReceive = @ + all]
    IN IF w.entry.closed \/ all = 0 THEN w
       ELSE IF ~ flush /\ all < CCB THEN [w EXCEPT !.entry.reverseReturn = all]
       ELSE Send(IF v.entry.reverseReceive > W THEN Blame(v, "window") ELSE v,
                 <<"out", Circuit>>, Msg("RETURN", all))

\* The link's close listener: everything the source held returns to the circuit,
\* and the destination is told unless it knows.
CloseLeg(w, s) ==
    LET r == w.entry.records[s]
        told == r.resetReceived \/ (r.sourceEnded /\ r.destinationEnded)
        v == ReturnReverse(RemoveLeg([w EXCEPT !.entry.records[s].live = FALSE], "forward", s),
                           r.reverseInFlight, TRUE)
        u == [v EXCEPT !.entry.records[s] = FreshRecord, !.wire[<<"up", s>>] = <<>>]
    IN IF ~ r.live THEN w ELSE IF told THEN u ELSE Send(u, <<"out", s>>, Msg("RESET", 0))

LegFault(w, s, kind) == CloseLeg(Blame(w, kind), s)

\* destroy
DestroyEntry(w) ==
    LET v == DestroyPool(w, "forward")
    IN [v EXCEPT !.entry.closed = TRUE,
                 !.entry.records = [s \in Sources |-> FreshRecord],
                 !.entry.reverseReceive = W, !.entry.reverseReturn = 0,
                 !.wire = [q \in Queue |-> <<>>]]

\* The pool's refusals of a demand: one at a time, never beyond the window, and
\* paid for by DATA when it comes too soon after the last one. A demand that its
\* source spaced by CREDIT_IDLE_MS is taken to arrive so spaced.
DemandOverflows(w, s, n) ==
    \/ w.pools.forward.wanted[s] # 0
    \/ w.pools.forward.granted[s] + n > W
DemandTooSoon(w, s, m, soon) ==
    /\ m.type = "RENEWAL" /\ soon
    /\ w.entry.records[s].progress < DP

Spend(w, s) ==
    [w EXCEPT !.entry.records[s].progress = IF @ > DP THEN @ - DP ELSE 0]

\* Mutant: the entry's copy of the stream window is not charged.
EarnUncharged(w, s) ==
    [Sent(w, "forward", s) EXCEPT !.entry.records[s].progress = Min({2 * DP, @ + 1})]

\* sent, with the progress that pays for later demands
Earn(w, s) ==
    [Sent(w, "forward", s) EXCEPT !.entry.records[s].progress = Min({2 * DP, @ + 1}),
                                  !.entry.records[s].sendCredit = @ - 1]

\* _fromSource.  "soon": less than CREDIT_IDLE_MS passed at the entry since it
\* accepted the last demand.
FromSource(w, s, m, soon) ==
    LET r == w.entry.records[s]
        pass(v) == Send(v, <<"out", s>>, m)
    IN CASE m.type = "RETURN" ->
              IF m.n > r.reverseInFlight THEN LegFault(w, s, "window")
              ELSE ReturnReverse([w EXCEPT !.entry.records[s].reverseInFlight = @ - m.n], m.n, FALSE)
         [] m.type \in {"DEMAND", "RENEWAL"} ->
              IF r.sourceEnded THEN LegFault(w, s, "state")
              ELSE IF DemandOverflows(w, s, m.n) THEN LegFault(w, s, "window")
              ELSE IF DemandTooSoon(w, s, m, soon) THEN LegFault(w, s, "rate")
              ELSE Demand(Spend(w, s), "forward", s, m.n)
         [] m.type = "WITHDRAW" ->
              IF s \notin w.pools.forward.open THEN LegFault(w, s, "state")
              ELSE Send(Cancel(w, "forward", s), <<"down", s>>, Msg("CANCELED", 0))
         [] m.type = "RELEASE" ->
              IF m.n > w.pools.forward.granted[s] THEN LegFault(w, s, "window")
              ELSE Release(w, "forward", s, m.n)
         [] m.type = "DATA" ->
              IF r.sourceEnded \/ r.sendCredit = 0 \/ w.pools.forward.granted[s] = 0
              THEN LegFault(w, s, "window") ELSE pass(Earn(w, s))
         [] m.type = "CREDIT" ->
              IF r.receiveCredit + m.n > SW THEN LegFault(w, s, "window")
              ELSE pass([w EXCEPT !.entry.records[s].receiveCredit = @ + m.n])
         [] m.type = "FIN" -> pass([w EXCEPT !.entry.records[s].sourceEnded = TRUE])
         [] m.type = "RESET" -> pass([w EXCEPT !.entry.records[s].resetReceived = TRUE])

\* _receive: DATA for a source that is gone is handed straight back.
FromDestination(w, s, m) ==
    LET charged == IF m.type = "DATA" THEN [w EXCEPT !.entry.reverseReceive = @ - 1] ELSE w
        r == w.entry.records[s]
        over == m.type = "DATA" /\ w.entry.reverseReceive = 0
        pass(v) == Send(v, <<"down", s>>, m)
    IN CASE m.type = "RETURN" -> IF m.n > w.pools.forward.inFlight THEN DestroyEntry(Blame(w, "window"))
                                 ELSE Returned(w, "forward", m.n)
         [] over -> DestroyEntry(Blame(w, "window"))
         [] m.type # "RETURN" /\ ~ over /\ ~ r.live -> IF m.type = "DATA" THEN ReturnReverse(charged, 1, FALSE) ELSE w
         [] m.type = "DATA" /\ ~ over /\ r.live ->
              LET v == [charged EXCEPT !.entry.records[s].reverseInFlight = @ + 1]
              IN IF r.destinationEnded \/ r.receiveCredit = 0 THEN LegFault(v, s, "window")
                 ELSE pass([v EXCEPT !.entry.records[s].receiveCredit = @ - 1])
         [] m.type = "CREDIT" /\ r.live ->
              IF r.sendCredit + m.n > SW THEN LegFault(w, s, "window")
              ELSE pass([w EXCEPT !.entry.records[s].sendCredit = @ + m.n])
         [] m.type = "FIN" /\ r.live -> pass([w EXCEPT !.entry.records[s].destinationEnded = TRUE])
         [] m.type = "RESET" /\ r.live -> pass([w EXCEPT !.entry.records[s].resetReceived = TRUE])

\* ------------------------------------------------------------ actions

\* EntryCircuit.activate, and the stream the source makes of the answer.
Activate(s) ==
    /\ s \in plan.join /\ ends[<<"source", s>>].st = "none" /\ ~ entry.closed
    /\ Becomes(Send(AddLeg([State EXCEPT !.entry.records[s].live = TRUE,
                                         !.ends[<<"source", s>>].st = "open"], "forward", s),
                    <<"out", s>>, Msg("OPEN", 0)))

\* _write: the stream's single write of n cells starts.
Write(e) ==
    /\ ends[e].st = "open" /\ ~ ends[e].writing /\ ~ ends[e].localEnded
    /\ \E n \in 1 .. ends[e].budget :
          ends' = [ends EXCEPT ![e].writing = TRUE, ![e].left = n, ![e].budget = @ - n,
                               ![e].idleTimer = FALSE]
    /\ UNCHANGED <<plan, pools, entry, dest, wire, faults>>

\* The cells _sendData puts on the link in one go.
SendCells(w, e, n) ==
    LET v == [w EXCEPT !.ends[e].sendCredit = @ - n, !.ends[e].circuitCredit = @ - n, !.ends[e].left = @ - n]
        cell(x, i) == Send(IF e[1] = "destination" THEN Sent(x, "reverse", e[2]) ELSE x,
                           Outward(e), Msg("DATA", 1))
    IN FoldLeft(cell, v, [i \in 1 .. n |-> i])

\* One turn of _sendData's loop, between two awaits.
Pump(w, e) ==
    LET v == IF w.ends[e].sendCredit = 0 THEN ReleaseCircuit(w, e) ELSE RequestCircuit(w, e)
        x == v.ends[e]
    IN IF x.sendCredit = 0 \/ x.circuitCredit = 0 THEN [v EXCEPT !.ends[e].waiting = TRUE]
       ELSE SendCells(v, e, Min({Batch, x.sendCredit, x.circuitCredit, x.left}))

WriteOn(e) ==
    /\ ends[e].writing /\ ~ ends[e].waiting
    /\ IF ends[e].left = 0 THEN Becomes(ScheduleIdle([State EXCEPT !.ends[e].writing = FALSE], e))
       ELSE Becomes(Pump(State, e))

\* The idle timer gives unused circuit credit back; CREDIT_IDLE_MS have passed
\* since the last demand.
IdleFires(e) ==
    /\ ends[e].idleTimer /\ ~ ends[e].writing
    /\ Becomes(ReleaseCircuit([State EXCEPT !.ends[e].idleTimer = FALSE, !.ends[e].spaced = TRUE], e))

\* _read: the consumer took a cell; the stream's own credit is returned in batches.
Read(e) ==
    LET x == ends[e]
        full == x.streamReturn + 1 >= SCB
        v == [State EXCEPT !.ends[e].outstanding = @ - 1,
                           !.ends[e].streamReturn = IF full THEN 0 ELSE @ + 1,
                           !.ends[e].receiveCredit = IF full THEN @ + x.streamReturn + 1 ELSE @]
    IN /\ x.st = "open" /\ x.outstanding > 0
       /\ Becomes(ReturnCircuit(IF full THEN Send(v, Outward(e), Msg("CREDIT", x.streamReturn + 1)) ELSE v,
                                e, 1, FALSE))

\* scheduleCreditReturn: the timers behind the three batches of returned credit.
ReturnFires ==
    \/ \E s \in Sources : /\ ends[<<"source", s>>].st = "open" /\ ends[<<"source", s>>].circuitReturn > 0
                          /\ Becomes(ReturnCircuit(State, <<"source", s>>, 0, TRUE))
    \/ dest.returnPending > 0 /\ ~ dest.closed /\ Becomes(Consumed(State, 0, TRUE))
    \/ entry.reverseReturn > 0 /\ ~ entry.closed /\ Becomes(ReturnReverse(State, 0, TRUE))

\* _final: the application ended its side after its last write.
Final(e) ==
    /\ e \in plan.finish /\ ends[e].st = "open" /\ ~ ends[e].writing /\ ~ ends[e].localEnded
    /\ Becomes(Send(ReleaseCircuit([State EXCEPT !.ends[e].localEnded = TRUE], e), Outward(e), Msg("FIN", 0)))

\* The application destroys its stream.
Quit(e) == e \in plan.quit /\ ends[e].st = "open" /\ Becomes(StartDestroy(State, e))

\* The stream destroys itself once both sides ended and all was read.
Complete(e) ==
    /\ ends[e].st = "open" /\ ends[e].localEnded /\ ends[e].remoteEnded /\ ends[e].outstanding = 0
    /\ Becomes(StartDestroy(State, e))

\* _destroy and onclose: what was received and never read goes back to the
\* circuit; the source's link closes behind its RESET.
FinishDestroy(e) ==
    LET x == ends[e]
        told == x.resetReceived \/ (x.localEnded /\ x.remoteEnded)
        v == IF told THEN State ELSE Send(State, Outward(e), Msg("RESET", 0))
        u == IF e[1] = "destination" THEN RemoveLeg(v, "reverse", e[2]) ELSE v
        t == ReturnCircuit([u EXCEPT !.ends[e].outstanding = 0], e, x.outstanding, TRUE)
    IN /\ x.st = "destroying"
       /\ Becomes([t EXCEPT !.ends[e] = ClosedEnd,
                            !.wire[<<"down", e[2]>>] = IF e[1] = "source" THEN <<>> ELSE @])

\* The source's host disappears: nothing more is sent or read.
Vanish(s) ==
    /\ s \in plan.vanish /\ ends[<<"source", s>>].st \in {"open", "destroying"}
    /\ Becomes([State EXCEPT !.ends[<<"source", s>>] = ClosedEnd, !.wire[<<"down", s>>] = <<>>])

\* The entry finds the source's link closed, with or without its last cells.
EntrySeesClose(s) ==
    /\ entry.records[s].live /\ ends[<<"source", s>>].st = "closed"
    /\ Becomes(CloseLeg(State, s))

\* _watchIdle: a grant nothing moves for CREDIT_GRANT_IDLE_MS costs the source its
\* link, whether its host is gone or only stalled; not while its cells come in.
GrantExpires(s) ==
    /\ entry.records[s].live /\ pools.forward.granted[s] > 0 /\ wire[<<"up", s>>] = <<>>
    /\ ends[<<"source", s>>].st = "closed" \/ s \in plan.vanish
    /\ Becomes(CloseLeg(State, s))

\* The source finds its link closed.
SourceSeesClose(s) ==
    /\ ends[<<"source", s>>].st \in {"open", "destroying"} /\ ~ entry.records[s].live
    /\ Becomes([State EXCEPT !.ends[<<"source", s>>] = ClosedEnd, !.wire[<<"down", s>>] = <<>>])

\* The shared link fails: the entry destroys its circuit, then the destination its own.
CircuitFails == ~ entry.closed /\ ~ dest.closed /\ Becomes(DestroyEntry(State))
DestinationEnds == entry.closed /\ ~ dest.closed /\ Becomes(DestroyDestination(State))

DeliverUp(s) ==
    /\ entry.records[s].live /\ wire[<<"up", s>>] # <<>>
    /\ \E soon \in BOOLEAN : Becomes(FromSource(Drop(State, <<"up", s>>), s, Head(wire[<<"up", s>>]), soon))

DeliverDown(s) ==
    LET e == <<"source", s>>
        m == Head(wire[<<"down", s>>])
        v == Drop(State, <<"down", s>>)
    IN /\ ends[e].st \in {"open", "destroying"} /\ wire[<<"down", s>>] # <<>>
       /\ Becomes(CASE m.type = "GRANT" -> GrantCircuit(v, e, m.n)
                    [] m.type = "CANCELED" -> CancelCircuit(v, e)
                    [] OTHER -> AtStream(v, e, m))

DeliverOut(s) ==
    /\ ~ dest.closed /\ wire[<<"out", s>>] # <<>>
    /\ Becomes(AtDestination(Drop(State, <<"out", s>>), s, Head(wire[<<"out", s>>])))

DeliverBack(s) ==
    /\ ~ entry.closed /\ wire[<<"back", s>>] # <<>>
    /\ Becomes(FromDestination(Drop(State, <<"back", s>>), s, Head(wire[<<"back", s>>])))

\* What the applications, the hosts and the network do of their own accord.
Environment ==
    \/ \E e \in End : Write(e) \/ Final(e) \/ Quit(e)
    \/ \E s \in Sources : Activate(s) \/ Vanish(s)
    \/ CircuitFails

\* What the code and the links do: messages arrive, promises settle, timers fire, readers read.
Work ==
    \/ \E e \in End : WriteOn(e) \/ IdleFires(e) \/ Read(e) \/ Complete(e) \/ FinishDestroy(e)
    \/ \E s \in Sources : \/ EntrySeesClose(s) \/ GrantExpires(s) \/ SourceSeesClose(s)
                          \/ DeliverUp(s) \/ DeliverDown(s)
    \/ \E s \in Sources \cup {Circuit} : DeliverOut(s) \/ DeliverBack(s)
    \/ ReturnFires \/ DestinationEnds

Next == Environment \/ Work

Spec == Init /\ [][Next]_vars

\* --------------------------------------------------------- properties

Total(q, type) == FoldLeft(LAMBDA n, m : IF m.type = type THEN n + m.n ELSE n, 0, wire[q])
OverSources(f) == FoldFunctionOnSet(LAMBDA a, b : a + b, 0, f, Sources)

\* A pool neither mints nor loses credit: what is available, granted and in
\* flight is the window at every moment (the comment in _distribute).  And the
\* cells a pool believes in flight are exactly those on the shared link, those
\* charged to the other side's window, and those on their way back; a window
\* is charged for what is queued, held by readers, or waiting to be returned.
CircuitConserved ==
    /\ \A d \in {"forward", "reverse"} : ~ pools[d].closed =>
          pools[d].available + OverSources(pools[d].granted) + pools[d].inFlight = W
    /\ ~ entry.closed /\ ~ dest.closed =>
          /\ pools.forward.inFlight =
                OverSources([s \in Sources |-> Total(<<"out", s>>, "DATA")])
                + (W - dest.receiveCredit) + Total(<<"back", Circuit>>, "RETURN")
          /\ pools.reverse.inFlight =
                OverSources([s \in Sources |-> Total(<<"back", s>>, "DATA")])
                + (W - entry.reverseReceive) + Total(<<"out", Circuit>>, "RETURN")
          /\ W - dest.receiveCredit =
                OverSources([s \in Sources |-> ends[<<"destination", s>>].outstanding]) + dest.returnPending
          /\ W - entry.reverseReceive =
                OverSources([s \in Sources |-> entry.records[s].reverseInFlight]) + entry.reverseReturn

\* What the entry has granted a source is exactly what the source holds or is
\* about to hear of, plus what it has spent or given back on the way: no grant
\* is stranded by a withdrawal, a release or an idle timer crossing it.
GrantsAccounted ==
    \A s \in Sources :
        LET x == ends[<<"source", s>>]
        IN x.st = "open" /\ entry.records[s].live =>
             /\ pools.forward.granted[s] =
                   x.circuitCredit + Total(<<"down", s>>, "GRANT")
                   + Total(<<"up", s>>, "DATA") + Total(<<"up", s>>, "RELEASE")
             /\ x.circuitCredit + x.requested > 0 => x.writing \/ x.idleTimer \/ x.canceling

\* Stream credit is conserved end to end in both directions, through the entry's
\* own copy of the window: each of the sender's SW cells is with the sender, on
\* a link, with the reader, or on its way back.
StreamConserved ==
    \A s \in Sources :
        LET x == ends[<<"source", s>>]
            y == ends[<<"destination", s>>]
        IN x.st = "open" /\ y.st = "open" /\ entry.records[s].live /\ ~ entry.closed =>
             /\ SW = x.sendCredit + Total(<<"up", s>>, "DATA") + Total(<<"out", s>>, "DATA")
                     + y.outstanding + y.streamReturn
                     + Total(<<"back", s>>, "CREDIT") + Total(<<"down", s>>, "CREDIT")
             /\ SW = y.sendCredit + Total(<<"back", s>>, "DATA") + Total(<<"down", s>>, "DATA")
                     + x.outstanding + x.streamReturn
                     + Total(<<"up", s>>, "CREDIT") + Total(<<"out", s>>, "CREDIT")
             /\ entry.records[s].sendCredit =
                     x.sendCredit + Total(<<"up", s>>, "DATA") + Total(<<"down", s>>, "CREDIT")

\* Peers that follow the protocol never drive each other into an invalid()
\* (the demand rate limit apart): closing one stream at any moment, with cells
\* of it still under way, costs neither its siblings nor the circuit anything.
HonestPeersAgree == faults \subseteq {"rate"}

\* No work is left: nothing under way to a live reader, no timer armed, no batch
\* of credit held back, nothing unread, no write or close half done.
Quiet ==
    /\ \A e \in End : LET x == ends[e]
                     IN /\ ~ (x.writing /\ ~ x.waiting) /\ x.st # "destroying"
                        /\ x.st = "open" => ~ x.idleTimer /\ x.outstanding = 0 /\ x.circuitReturn = 0
    /\ \A s \in Sources : /\ entry.records[s].live => wire[<<"up", s>>] = <<>>
                          /\ wire[<<"down", s>>] = <<>>
                          /\ ends[<<"source", s>>].st \in {"open", "closed"} =>
                               (entry.records[s].live <=> ends[<<"source", s>>].st = "open")
    /\ \A s \in Sources \cup {Circuit} : wire[<<"out", s>>] = <<>> /\ wire[<<"back", s>>] = <<>>
    /\ dest.returnPending = 0 /\ entry.reverseReturn = 0 /\ entry.closed = dest.closed

\* Nobody is left waiting for credit: when no work is left no write is unfinished.
\* Credit held by a stream that quits, ends or disappears comes back to the ones
\* that wait for it, and no batch or withdrawal keeps the last cell from them.
NobodyStarves == Quiet => \A e \in End : ~ ends[e].writing

\* No demand of a source that follows the protocol is refused for coming too
\* soon: renewal across a stream-credit boundary is preserved
\* (docs/private-routing-e2e.md, "Bounded demand accounting").
RenewalPreserved == "rate" \notin faults
=============================================================================
