-------------------------------- MODULE Holepunch --------------------------------
(***************************************************************************)
(* A holepunch between two peers behind NATs: the rounds of the client     *)
(* (src/lib/connect.js, holepunch to abort), the requests they are at the  *)
(* server (src/lib/server.js, _onpeerholepunch), the Holepuncher and the   *)
(* Nat sampler of either peer, and the budget of random punches that all   *)
(* the attempts of a node share.                                           *)
(*                                                                         *)
(* A request is relayed and retried until it is answered, so the server    *)
(* may handle one request several times, late, and beside the next one.    *)
(* Code between two awaits is one operator from a state record to the next *)
(* one; an action applies one of them.                                     *)
(***************************************************************************)
EXTENDS Naturals, Sequences, FiniteSets, FiniteSetsExt

CONSTANTS
    MaxReopens,    \* MAX_REOPENS
    Birthday,      \* BIRTHDAY_SOCKETS
    MaxRounds,     \* bound: rounds a client starts after it was told to try later
    MaxDups,       \* bound: requests that reach the server once more
    Plans          \* what the two peers find, one plan per behaviour:
                   \* nat: what samples each socket of a side would show, in order;
                   \* losses: pings that may be lost; others: random punches of other
                   \* attempts at each side; relay: a relayThrough is used beside the
                   \* punch; trusted: the client's relay is one of the server's; faults:
                   \* requests may fail, hooks refuse, sockets be destroyed

Side == {"client", "server"}

UNKNOWN == 0        \* FIREWALL: OPEN (1) needs no holepunch
CONSISTENT == 2
RANDOM == 3

MinSamples == 4

ASSUME HolepunchAssumption ==
    /\ {MaxReopens, MaxRounds, MaxDups} \subseteq Nat /\ Birthday \in Nat \ {0}
    /\ Plans \subseteq [nat : [Side -> Seq(Seq(Nat \X Nat))], losses : Nat, others : [Side -> Nat],
                        relay : BOOLEAN, trusted : BOOLEAN, faults : BOOLEAN]
    /\ \A x \in Plans : \A s \in Side : Len(x.nat[s]) > MaxReopens

VARIABLES
    plan,      \* the plan of this behaviour, its losses and others used up as they happen
    c,         \* the client's connection state
    h,         \* the server's handshake state
    p,         \* the Holepuncher of each side
    node,      \* each node's random punches: _randomPunches, those of others, the interval
    net        \* requests under way, and the answers to the client's last one

vars == <<plan, c, h, p, node, net>>

\* ------------------------------------------------------------------- Nat

FreshNat(samples) ==
    [samples |-> samples, sampled |-> 0, pending |-> MinSamples, retry |-> TRUE, heard |-> FALSE,
     firewall |-> UNKNOWN, frozen |-> FALSE, resolved |-> FALSE]

\* addSample: hits per address, most hits first.
Hits(seen, a) == Cardinality({i \in DOMAIN seen : seen[i] = a})
Top(seen) == Max({Hits(seen, seen[i]) : i \in DOMAIN seen})
Second(seen) ==
    LET best == CHOOSE i \in DOMAIN seen : Hits(seen, seen[i]) = Top(seen)
        rest == {j \in DOMAIN seen : seen[j] # seen[best]}
    IN IF rest = {} THEN 0 ELSE Max({Hits(seen, seen[j]) : j \in rest})
Hosts(seen) == Cardinality({seen[i][1] : i \in DOMAIN seen})

\* _updateFirewall; a sample is a host and a port.
Firewall(seen, was) ==
    LET n == Len(seen) IN
    IF n < 3 THEN was
    ELSE IF Top(seen) >= 3 THEN CONSISTENT
    ELSE IF Top(seen) = 1 THEN RANDOM
    ELSE IF Hosts(seen) = 1 /\ n > 3 THEN RANDOM
    ELSE IF Hosts(seen) > 1 /\ Second(seen) > 1 THEN CONSISTENT
    ELSE IF n > 4 THEN RANDOM ELSE was

\* add
Add(nat) ==
    LET n == nat.sampled + 1
        fw == IF n >= 3 /\ ~ nat.frozen THEN Firewall(SubSeq(nat.samples, 1, n), nat.firewall) ELSE nat.firewall
    IN [nat EXCEPT !.sampled = n, !.firewall = fw,
                   !.resolved = @ \/ fw = CONSISTENT \/ n >= MinSamples]

\* A relayed message shows an address too, once (_visited).
AddRelay(nat) == IF nat.heard THEN nat ELSE Add([nat EXCEPT !.heard = TRUE])

\* autoSample's onskip: a second batch of pings, then what there is must do.
Skip(nat, more) ==
    LET left == nat.pending - 1 IN
    IF left > 0 \/ nat.sampled >= MinSamples THEN [nat EXCEPT !.pending = left]
    ELSE IF nat.retry /\ more THEN [nat EXCEPT !.pending = MinSamples - nat.sampled, !.retry = FALSE]
    ELSE [nat EXCEPT !.pending = 0, !.retry = FALSE, !.resolved = TRUE]

\* Mutant: freeze does nothing.
FreezeNothing(nat) == nat

\* freeze: what was told to the other peer stays.
Freeze(nat) == [nat EXCEPT !.frozen = TRUE]

\* ------------------------------------------------------------ Holepuncher

FreshPuncher(samples) ==
    [nat |-> FreshNat(samples), holders |-> 1,
     remoteFirewall |-> UNKNOWN, addresses |-> FALSE, verified |-> FALSE, remoteHolepunching |-> FALSE,
     punching |-> FALSE, connected |-> FALSE, destroyed |-> FALSE, randomized |-> FALSE,
     mode |-> "none", punched |-> "no", reopening |-> "no", reopens |-> 0]

Init ==
    /\ plan \in Plans
    /\ c = [pc |-> "open", round |-> 0, retry |-> TRUE, token |-> FALSE, isRandom |-> FALSE,
            reserved |-> FALSE, delayed |-> FALSE, again |-> "no", relay |-> IF plan.relay THEN "pairing" ELSE "none",
            stream |-> "none", dead |-> FALSE]
    /\ h = [round |-> 0, handlers |-> {}, relay |-> plan.relay, prepunching |-> TRUE]
    /\ p = [s \in Side |-> FreshPuncher(plan.nat[s][1])]
    /\ node = [s \in Side |-> [punches |-> 0, others |-> 0, recent |-> FALSE]]
    /\ net = [requests |-> {}, replies |-> {}, dups |-> 0]

State == [c |-> c, h |-> h, p |-> p, node |-> node, net |-> net]

Becomes(w) == c' = w.c /\ h' = w.h /\ p' = w.p /\ node' = w.node /\ net' = w.net

\* _done
Done(q) == q.destroyed \/ q.connected

\* _unstable
Unstable(q) ==
    \/ q.remoteFirewall >= RANDOM /\ q.nat.firewall >= RANDOM
    \/ q.nat.firewall = UNKNOWN

\* updateRemote: the addresses come with a firewall that is known, and stay verified.
UpdateRemote(q, m, echoed) ==
    LET known == m.firewall # UNKNOWN IN
    [q EXCEPT !.remoteFirewall = m.firewall, !.addresses = known, !.verified = known /\ (echoed \/ @),
              !.remoteHolepunching = m.punching]

\* A random punch of the node is over.
PunchEnds(n) == [n EXCEPT !.punches = @ - 1, !.recent = TRUE]

\* _decrementRandomized
DecrementRandomized(w, s) ==
    IF ~ w.p[s].randomized THEN w
    ELSE [w EXCEPT !.p[s].randomized = FALSE, !.node[s] = PunchEnds(@)]

\* _incrementRandomized
IncrementRandomized(w, s) ==
    IF w.p[s].randomized THEN w
    ELSE [w EXCEPT !.p[s].randomized = TRUE, !.node[s].punches = @ + 1]

\* isDone
IsDone(w) ==
    \/ w.c.dead \/ w.p["client"].connected
    \/ /\ w.c.stream # "none"
       /\ ~ (w.c.relay \in {"pairing", "paired"} /\ ~ Done(w.p["client"]))

\* maybeDestroyEncryptedSocket: not while a relay or the puncher may still connect it.
MaybeDestroyEncryptedSocket(w) ==
    IF IsDone(w) \/ w.c.stream # "none" \/ w.c.relay = "pairing" \/ ~ w.p["client"].destroyed THEN w
    ELSE [w EXCEPT !.c.dead = TRUE]

\* What destroy does to the puncher itself.
Ended(q) == [q EXCEPT !.destroyed = TRUE, !.punching = FALSE, !.mode = "none", !.holders = 0,
                      !.nat.resolved = TRUE]

\* destroy, with the client's onabort.
DestroyPuncher(w, s) ==
    LET v == [w EXCEPT !.p[s] = Ended(@)]
        u == IF v.p[s].connected THEN v ELSE DecrementRandomized(v, s)
    IN IF w.p[s].destroyed THEN w
       ELSE IF s = "client" /\ w.c.stream # "direct" THEN MaybeDestroyEncryptedSocket(u) ELSE u

\* pop and push: the last of the sockets, if there is one, makes room for a new one.
Exchanged(holders) == IF holders = 0 THEN 1 ELSE holders

\* _reset: a new socket takes the place of the holder, with a Nat of its own.
Reset(q, samples) == [q EXCEPT !.nat = FreshNat(samples), !.reopens = @ + 1, !.holders = Exchanged(@)]

\* Mutant: a reopening goes on although the puncher has ended.
ReopenEnded(q, samples) ==
    IF Unstable(q) /\ q.reopens < MaxReopens /\ ~ q.punching
    THEN [Reset(q, samples) EXCEPT !.reopening = "running"]
    ELSE [q EXCEPT !.reopening = IF q.nat.firewall = CONSISTENT THEN "stable" ELSE "unstable"]

\* One turn of _reopen's loop.
Reopen(q, samples) ==
    IF Unstable(q) /\ q.reopens < MaxReopens /\ ~ Done(q) /\ ~ q.punching
    THEN [Reset(q, samples) EXCEPT !.reopening = "running"]
    ELSE [q EXCEPT !.reopening = IF q.nat.firewall = CONSISTENT THEN "stable" ELSE "unstable"]

ReopenSide(w, s) == [w EXCEPT !.p[s] = Reopen(@, plan.nat[s][@.reopens + 2])]

\* analyze(true): at most one reopening in a puncher's life.
AnalyzeAgain(w, s) == IF w.p[s].reopening = "no" THEN ReopenSide(w, s) ELSE w

\* What _punch says of itself: how it sends, and whether punch() has settled.
Punching(q, mode, punched) == [q EXCEPT !.punching = TRUE, !.mode = mode, !.punched = punched]

\* _punch, up to its first await; punch() runs it once.
Punch(w, s) ==
    LET q == w.p[s]
        local == q.nat.firewall
        remote == q.remoteFirewall
        on(mode, punched) == [w EXCEPT !.p[s] = Punching(@, mode, punched)]
    IN IF q.punched # "no" THEN w
       ELSE IF Done(q) \/ ~ q.addresses THEN [w EXCEPT !.p[s].punched = "failed"]
       ELSE IF local = CONSISTENT /\ remote = CONSISTENT THEN on("consistent", "started")
       ELSE IF ~ q.verified THEN on("none", "failed")
       ELSE IF local = CONSISTENT /\ remote >= RANDOM THEN IncrementRandomized(on("probes", "started"), s)
       ELSE IF local >= RANDOM /\ remote = CONSISTENT THEN IncrementRandomized(on("birthday", "opening"), s)
       ELSE on("none", "failed")

\* The random punch has to wait.
Busy(n) == n.punches >= 1 \/ n.recent

\* ------------------------------------------------------------- the client

Awaiting == {"probe", "delay", "punch", "abort"}

\* The payload of the client's next request.
Payload(w, kind) ==
    LET direct == kind = "delay" \/ (kind = "punch" /\ ~ w.c.delayed)
    IN [round |-> w.c.round, kind |-> kind, punching |-> kind = "punch",
        firewall |-> IF kind = "abort" THEN UNKNOWN ELSE w.p["client"].nat.firewall,
        direct |-> direct, token |-> direct,
        remoteToken |-> kind \in {"delay", "punch"} /\ w.c.token, fast |-> kind = "probe"]

NextRound(k, kind) == [k EXCEPT !.pc = kind, !.round = @ + 1]

\* Only the answers to the last request count.
Request(n, m) == [n EXCEPT !.replies = {}, !.requests = @ \cup {m}]

\* updateHolepunch: the request of the next round.
Ask(w, kind) == [w EXCEPT !.c = NextRound(@, kind), !.net = Request(@, Payload(w, kind))]

End(w) == [w EXCEPT !.c.pc = "end", !.net.replies = {}]

\* holepunch's catch, and abort once it was told: destroyPuncher, then the socket.
GiveUp(w) == MaybeDestroyEncryptedSocket(End(DestroyPuncher(w, "client")))

\* tryLater
TryLater(w, again) ==
    IF w.c.relay \in {"pairing", "paired"}
    THEN [w EXCEPT !.c.pc = "later", !.c.again = again, !.net.replies = {}] ELSE GiveUp(w)

\* Mutant: the punch is not counted while the server is asked.
CommitUncounted(w) == Ask(w, "punch")

\* roundPunch past its loop: a random punch is counted now.
Commit(w) ==
    IF w.c.isRandom THEN Ask([w EXCEPT !.c.reserved = TRUE, !.node["client"].punches = @ + 1], "punch")
    ELSE Ask(w, "punch")

\* One turn of roundPunch's loop.
AwaitBudget(w) ==
    IF ~ w.c.isRandom \/ ~ Busy(w.node["client"]) THEN Commit(w)
    ELSE IF w.c.relay \notin {"pairing", "paired"} THEN GiveUp(w)
    ELSE IF ~ w.c.delayed THEN Ask([w EXCEPT !.c.delayed = TRUE], "delay")
    ELSE TryLater(w, "loop")

\* roundPunch
RoundPunch(w) ==
    LET q == w.p["client"] IN
    AwaitBudget([w EXCEPT !.p["client"].nat = Freeze(@),
                          !.c.isRandom = q.remoteFirewall >= RANDOM \/ q.nat.firewall >= RANDOM])

\* probeRound, called again without a retry.
Probe(w) == [w EXCEPT !.c.pc = "open", !.c.retry = FALSE]

\* holepunch after the probe.  "agrees": what opts.holepunch says.
AfterProbe(w, agrees) == IF agrees THEN RoundPunch(w) ELSE Ask(w, "abort")

\* probeRound's end.
Probed(w, agrees) ==
    LET q == w.p["client"] IN
    IF (q.remoteFirewall = UNKNOWN \/ ~ w.c.token) /\ w.c.retry
    THEN Probe(w)
    ELSE IF Unstable(q) \/ q.remoteFirewall = UNKNOWN THEN Ask(w, "abort")
    ELSE AfterProbe(w, agrees)

\* The end of roundPunch: the server said it punches too.
PunchToo(w) ==
    LET v == Punch(w, "client") IN
    IF ~ w.p["client"].remoteHolepunching THEN GiveUp(w)
    ELSE IF v.p["client"].punched = "failed" THEN GiveUp(v)
    ELSE IF v.p["client"].punched = "opening" THEN [v EXCEPT !.c.pc = "opening", !.net.replies = {}]
    ELSE End(v)

\* finally: "decrement as punch increments for us".
Uncommit(w) ==
    IF w.c.reserved THEN [w EXCEPT !.c.reserved = FALSE, !.node["client"].punches = @ - 1] ELSE w

\* What probeRound does with the answer.
Learn(w, m) ==
    LET v == [w EXCEPT !.c.pc = "analyze", !.c.token = m.token, !.net.replies = {}]
    IN [v EXCEPT !.p["client"].nat = AddRelay(@)]

\* The answer m to the client's request.
OnReply(w, m) ==
    LET kind == w.c.pc
        v == Uncommit(w)
        u == [v EXCEPT !.p["client"] = UpdateRemote(@, m, m.echo)]
    IN IF kind = "abort" THEN GiveUp(w)
       ELSE IF IsDone(w) THEN End(v)
       ELSE IF m.error = "TRY_LATER" /\ w.c.relay \in {"pairing", "paired"} /\ kind = "punch"
            THEN TryLater([v EXCEPT !.c.delayed = TRUE], "round")
       ELSE IF m.error # "NONE" THEN GiveUp(v)
       ELSE IF kind = "probe" THEN Learn(u, m)
       ELSE IF kind = "delay" THEN TryLater(u, "loop")
       ELSE PunchToo(u)

\* probeRound: await openSession, then the first request of the round.
ClientProbes ==
    /\ c.pc = "open"
    /\ Becomes(IF IsDone(State) THEN End(State) ELSE Ask(State, "probe"))
    /\ UNCHANGED plan

ClientReply ==
    /\ c.pc \in Awaiting
    /\ \E m \in net.replies : Becomes(OnReply(State, m))
    /\ UNCHANGED plan

\* The request fails or is not answered in time.
RequestFails ==
    /\ c.pc \in Awaiting /\ plan.faults
    /\ Becomes(GiveUp(Uncommit(State)))
    /\ UNCHANGED plan

\* probeRound: await analyze(false), and analyze(true) when the NAT looks unstable.
ClientAnalyzed ==
    /\ c.pc = "analyze" /\ p["client"].nat.resolved
    /\ \E agrees \in {TRUE, ~ plan.faults} :
         Becomes(IF IsDone(State) THEN End(State)
                 ELSE IF Unstable(p["client"]) THEN [AnalyzeAgain(State, "client") EXCEPT !.c.pc = "reopen"]
                 ELSE Probed(State, agrees))
    /\ UNCHANGED plan

ClientReopened ==
    /\ c.pc = "reopen" /\ p["client"].reopening \in {"stable", "unstable"}
    /\ \E agrees \in {TRUE, ~ plan.faults} :
         Becomes(IF IsDone(State) THEN End(State)
                 ELSE IF p["client"].reopening = "stable" THEN Probe(State)
                 ELSE Probed(State, agrees))
    /\ UNCHANGED plan

\* tryLater's pause ends.
ClientWakes ==
    /\ c.pc = "later" /\ (c.round < MaxRounds \/ IsDone(State))
    /\ Becomes(IF IsDone(State) THEN End(State)
               ELSE IF c.again = "loop" THEN AwaitBudget(State) ELSE RoundPunch(State))
    /\ UNCHANGED plan

\* await punch() at the client.
ClientOpened ==
    /\ c.pc = "opening" /\ p["client"].punched = "started"
    /\ Becomes(End(State))
    /\ UNCHANGED plan

\* c.onsocket: the first to call it has the raw stream.
OnSocket(w) ==
    IF w.c.stream = "direct" \/ w.c.dead THEN w
    ELSE DestroyPuncher([w EXCEPT !.c.stream = "direct"], "client")

\* What a punch that came through leaves of the puncher: the socket it came on.
Connected(q) == [q EXCEPT !.connected = TRUE, !.punching = FALSE, !.mode = "none", !.holders = 1]

\* _onholepunchmessage at the initiator. Sessions are opened from the first round
\* on, and the server answers whatever reaches it, so something may get through
\* before either of the two punches.
ClientHears ==
    LET v == [State EXCEPT !.p["client"] = Connected(@)]
    IN /\ ~ Done(p["client"]) /\ p["client"].holders > 0
       /\ Becomes(OnSocket(DecrementRandomized(v, "client")))
       /\ UNCHANGED plan

\* The server's stream arrives by itself, or the LAN answers first.
DirectTraffic ==
    /\ c.stream # "direct" /\ ~ c.dead /\ plan.faults
    /\ Becomes(OnSocket(State))
    /\ UNCHANGED plan

\* The relay connects the stream, which the punch may still upgrade.
RelayPairs ==
    /\ c.relay = "pairing" /\ ~ c.dead
    /\ c' = IF c.stream = "direct" THEN [c EXCEPT !.relay = "gone"]
            ELSE [c EXCEPT !.relay = "paired", !.stream = "relayed"]
    /\ UNCHANGED <<plan, h, p, node, net>>

\* Mutant: the relay's onabort does not look at the socket.
RelayFailsQuietly ==
    /\ c.relay = "pairing" /\ ~ c.dead
    /\ Becomes([State EXCEPT !.c.relay = "gone"])
    /\ UNCHANGED plan

\* relayConnection's onabort, by its timeout or an error.
RelayFails ==
    /\ c.relay = "pairing" /\ ~ c.dead
    /\ Becomes(MaybeDestroyEncryptedSocket([State EXCEPT !.c.relay = "gone"]))
    /\ UNCHANGED plan

\* The socket is destroyed by its user, or with a relayed stream that is lost.
SocketCloses ==
    /\ ~ c.dead /\ plan.faults
    /\ Becomes(DestroyPuncher([State EXCEPT !.c.dead = TRUE], "client"))
    /\ UNCHANGED plan

\* ------------------------------------------------------------- the server

\* The answer to handler r's request, if the client still waits for it.
Answer(w, r, error) ==
    LET q == w.p["server"]
        m == [error |-> error, firewall |-> q.nat.firewall, punching |-> q.punching,
              token |-> plan.trusted, echo |-> r.m.token]
        v == [w EXCEPT !.h.handlers = @ \ {r}]
    IN IF w.c.round # r.m.round + 1 \/ w.c.pc \notin Awaiting THEN v
       ELSE [v EXCEPT !.net.replies = @ \cup {m}]

\* A handler that returns null.
Silent(w, r) == [w EXCEPT !.h.handlers = @ \ {r}]

\* _abort
AbortServer(w, r, error) == DestroyPuncher(Answer(w, r, error), "server")

\* "Freeze that analysis as soon as we have a result we are giving to the other peer."
Tell(w, r) ==
    Answer(IF w.p["server"].nat.firewall = UNKNOWN THEN w
           ELSE [w EXCEPT !.p["server"].nat = Freeze(@)], r, "NONE")

At(w, r, pc) == [w EXCEPT !.h.handlers = (@ \ {r}) \cup {[r EXCEPT !.pc = pc]}]

\* punch(), its promise settled or not yet.
Punched(w, r) ==
    LET q == w.p["server"] IN
    IF q.destroyed THEN Silent(w, r)
    ELSE IF q.punched = "failed" THEN AbortServer(w, r, "ABORTED")
    ELSE IF q.punched = "opening" THEN At(w, r, "punch")
    ELSE Tell(w, r)

\* The remote punches, so the server does, if its budget allows a random one.
PunchBack(w, r, agrees) ==
    LET q == w.p["server"]
        v == [w EXCEPT !.h.prepunching = FALSE]
        random == q.remoteFirewall >= RANDOM \/ q.nat.firewall >= RANDOM
    IN IF ~ q.remoteHolepunching THEN Tell(w, r)
       ELSE IF ~ agrees THEN AbortServer(w, r, "ABORTED")
       ELSE IF random /\ Busy(w.node["server"])
            THEN (IF w.h.relay THEN Answer(v, r, "TRY_LATER") ELSE AbortServer(v, r, "TRY_LATER"))
       ELSE Punched(Punch(v, "server"), r)

\* "Fast mode!": a ping back at once, if the client opened a session to this socket.
FastOpen(w, r) ==
    IF w.p["server"].nat.firewall = CONSISTENT /\ r.m.fast /\ w.p["server"].reopens = 0 THEN At(w, r, "ping")
    ELSE At(w, r, "decide")

\* A late request does not overwrite what a later round said.
Heard(w, m) ==
    IF m.round < w.h.round THEN w
    ELSE [w EXCEPT !.h.round = m.round,
                   !.p["server"] = UpdateRemote(@, m, plan.trusted /\ m.remoteToken)]

\* _onpeerholepunch up to its first await.
OnRequest(w, m, copy) ==
    LET v == IF m.direct THEN [w EXCEPT !.p["server"].nat = AddRelay(@)] ELSE w
        r == [m |-> m, copy |-> copy, pc |-> "analyze"]
    IN IF m.kind = "abort" THEN AbortServer([w EXCEPT !.h.round = Max({@, m.round})], r, "ABORTED")
       ELSE [Heard(v, m) EXCEPT !.h.handlers = @ \cup {r}]

\* A request reaches the server; the relay or a retry may bring it again.
Deliver ==
    \E m \in net.requests : \E again \in BOOLEAN :
        /\ again => net.dups < MaxDups
        /\ LET v == [State EXCEPT !.net.requests = IF again THEN @ ELSE @ \ {m},
                                  !.net.dups = IF again THEN @ + 1 ELSE @]
           IN Becomes(OnRequest(v, m, IF again THEN net.dups + 1 ELSE 0))
        /\ UNCHANGED plan

\* await analyze(false)
ServerAnalyzed(r) ==
    LET q == p["server"] IN
    /\ r.pc = "analyze" /\ q.nat.resolved
    /\ Becomes(IF q.destroyed THEN Silent(State, r)
               ELSE IF ~ q.remoteHolepunching /\ Unstable(q) THEN At(AnalyzeAgain(State, "server"), r, "reopen")
               ELSE FastOpen(State, r))
    /\ UNCHANGED plan

\* await analyze(true)
ServerReopened(r) ==
    LET q == p["server"] IN
    /\ r.pc = "reopen" /\ q.reopening \in {"stable", "unstable"}
    /\ Becomes(IF q.destroyed THEN Silent(State, r)
               ELSE IF q.reopening = "unstable" THEN AbortServer(State, r, "ABORTED")
               ELSE FastOpen(State, r))
    /\ UNCHANGED plan

\* The rest of _onpeerholepunch.  "agrees": what the server's holepunch hook says.
ServerDecides(r) ==
    /\ r.pc \in {"ping", "decide"}
    /\ \E agrees \in {TRUE, ~ plan.faults} :
         Becomes(IF p["server"].destroyed THEN Silent(State, r) ELSE PunchBack(State, r, agrees))
    /\ UNCHANGED plan

\* await punch() at the server.
ServerPunched(r) ==
    /\ r.pc = "punch" /\ p["server"].punched # "opening"
    /\ Becomes(Punched(State, r))
    /\ UNCHANGED plan

\* The prepunching timer, or the connection arrived: the server's puncher goes.
ServerDone ==
    /\ ~ p["server"].destroyed
    /\ (h.prepunching /\ plan.faults) \/ c.stream = "direct"
    /\ Becomes(DestroyPuncher([State EXCEPT !.h.prepunching = FALSE], "server"))
    /\ UNCHANGED plan

\* The server's side of the relay ends.
ServerRelayFails ==
    /\ h.relay /\ plan.faults
    /\ h' = [h EXCEPT !.relay = FALSE]
    /\ UNCHANGED <<plan, c, p, node, net>>

\* ----------------------------------------------------- what both sides do

\* A ping of autoSample is answered, or lost.
Ping(s) ==
    LET nat == p[s].nat IN
    /\ nat.pending > 0 /\ ~ p[s].destroyed
    /\ \E more \in BOOLEAN :
         \/ p' = [p EXCEPT ![s].nat = Skip(Add(nat), more)] /\ UNCHANGED plan
         \/ /\ plan.losses > 0 /\ plan' = [plan EXCEPT !.losses = @ - 1]
            /\ p' = [p EXCEPT ![s].nat = Skip(nat, more)]
    /\ UNCHANGED <<c, h, node, net>>

\* _reopen, once the new socket was analyzed.
Reopens(s) ==
    /\ p[s].reopening = "running" /\ p[s].nat.resolved
    /\ Becomes(ReopenSide(State, s))
    /\ UNCHANGED plan

\* Mutant: _openBirthdaySockets opens them all.
OpenBirthdayAll(s) ==
    /\ p[s].punched = "opening"
    /\ \/ p[s].holders < Birthday /\ p' = [p EXCEPT ![s].holders = @ + 1]
       \/ p[s].holders >= Birthday /\ p' = [p EXCEPT ![s].punched = "started"]
    /\ UNCHANGED <<plan, c, h, node, net>>

\* _openBirthdaySockets: a socket more, while the puncher still punches.
OpenBirthday(s) ==
    LET more == p[s].punching /\ p[s].holders < Birthday IN
    /\ p[s].punched = "opening"
    /\ \/ more /\ p' = [p EXCEPT ![s].holders = @ + 1]
       \/ ~ more /\ p' = [p EXCEPT ![s].punched = "started"]
    /\ UNCHANGED <<plan, c, h, node, net>>

\* _autoDestroy: the tries are used up.
GiveUpPunching(s) ==
    /\ p[s].mode # "none" /\ p[s].punched = "started"
    /\ Becomes(DestroyPuncher(State, s))
    /\ UNCHANGED plan

\* Another attempt of the node starts a random punch, or ends it; the interval passes.
OtherPunches(s) ==
    /\ plan.others[s] > 0 /\ ~ Busy(node[s])
    /\ plan' = [plan EXCEPT !.others[s] = @ - 1]
    /\ LET n == node[s] IN node' = [node EXCEPT ![s] = [n EXCEPT !.punches = n.punches + 1, !.others = n.others + 1]]
    /\ UNCHANGED <<c, h, p, net>>

OtherEnds(s) ==
    /\ node[s].others > 0
    /\ LET n == PunchEnds(node[s]) IN node' = [node EXCEPT ![s] = [n EXCEPT !.others = n.others - 1]]
    /\ UNCHANGED <<plan, c, h, p, net>>

IntervalPasses(s) ==
    /\ node[s].recent
    /\ node' = [node EXCEPT ![s].recent = FALSE]
    /\ UNCHANGED <<plan, c, h, p, net>>

Next ==
    \/ ClientProbes \/ ClientReply \/ RequestFails \/ ClientAnalyzed \/ ClientReopened \/ ClientWakes \/ ClientOpened
    \/ ClientHears \/ DirectTraffic \/ RelayPairs \/ RelayFails \/ SocketCloses
    \/ Deliver \/ ServerDone \/ ServerRelayFails
    \/ \E r \in h.handlers : ServerAnalyzed(r) \/ ServerReopened(r) \/ ServerDecides(r) \/ ServerPunched(r)
    \/ \E s \in Side : \/ Ping(s) \/ Reopens(s) \/ OpenBirthday(s) \/ GiveUpPunching(s)
                       \/ OtherPunches(s) \/ OtherEnds(s) \/ IntervalPasses(s)

Spec == Init /\ [][Next]_vars

\* ------------------------------------------------------------- properties

\* The counter of random punches is what the punchers say it is: each counts
\* itself once and takes itself off once, however it ends, and so does one the
\* client has committed to and is asking the server for.
CountedOnce ==
    \A s \in Side :
        node[s].punches = node[s].others + (IF p[s].randomized THEN 1 ELSE 0)
                          + (IF s = "client" /\ c.reserved THEN 1 ELSE 0)

\* At most one random punch runs at a node (_randomPunchLimit), each counted once.
RandomBudget == CountedOnce /\ \A s \in Side : node[s].punches <= 1

\* Two peers that punch at the same time punch at each other: both at known
\* addresses, or one at random ports of the other's many sockets.  Each decides
\* from its own NAT and from what it was told of the other's, so a sample that
\* comes after the NAT's state was told must not change it.
PunchesMeet ==
    LET modes == <<p["client"].mode, p["server"].mode>> IN
    "none" \notin {modes[1], modes[2]} =>
        modes \in {<<"consistent", "consistent">>, <<"probes", "birthday">>, <<"birthday", "probes">>}

\* connect() never leaves its caller with a socket nothing will settle: when the
\* rounds are over the socket is connected or destroyed, or a relay is being
\* paired, or the puncher still sends.
NothingInLimbo ==
    c.pc = "end" =>
        \/ c.dead \/ c.stream # "none" \/ c.relay = "pairing"
        \/ p["client"].mode # "none"

\* A destroyed puncher holds no socket and a connected one only the socket it
\* connected on: neither the opening of the birthday sockets nor a reopening that
\* is under way when the puncher ends takes another from the pool, which nobody
\* would release.
SocketsReleased ==
    \A s \in Side : /\ p[s].destroyed => p[s].holders = 0
                    /\ p[s].connected => p[s].holders <= 1
=============================================================================
