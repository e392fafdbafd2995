---------------------------- MODULE HolepunchProofs ----------------------------
(***************************************************************************)
(* Proofs about Holepunch, for any plan, any number of reopenings and any  *)
(* number of rounds and repeated requests: SocketsReleased, NothingInLimbo,*)
(* PunchesMeet and RandomBudget.                                           *)
(*                                                                         *)
(* None of the four is inductive.  A puncher's sockets are only released   *)
(* for good because a puncher that has ended does not punch, so that       *)
(* _openBirthdaySockets stops (PuncherInv); the rounds may end on a punch  *)
(* that has settled only because such a punch sends until it ends          *)
(* (PuncherInv), and a puncher that ends takes the socket with it unless   *)
(* something else may still connect it (ClientInv); and the counter is     *)
(* exact because a reservation lives no longer than its request            *)
(* (ClientInv, Counted).  Sound joins these.                               *)
(*                                                                         *)
(* That two punches meet rests on what the peers know of each other.  A    *)
(* NAT that was found consistent stays so, and one that was told is frozen *)
(* (Evident, Grown, Kept).  A round has one request, which says what the   *)
(* client settled on from the first delay or punch on (Rounds).  What the  *)
(* server answered stays true, and nothing that may still reach it makes   *)
(* the pair unstable (Told, Learned); a late request does not undo what    *)
(* the server punches by (Handled, Remote).  Core joins these, and Agree   *)
(* adds where the client is when it settles.  That the client's budget is  *)
(* kept needs them too: the client reserves a punch by what it knew of the *)
(* server's NAT, and punches by what the last answer says of it.           *)
(*                                                                         *)
(* A handler is an operator from a state record to the next one, so there  *)
(* is one lemma per operator: applied to a Sound state it gives a Sound    *)
(* state, and from a state the peers agree on it gives one they agree on.  *)
(* The step lemmas then follow the actions.                                *)
(***************************************************************************)
EXTENDS Holepunch, Integers, FiniteSetTheorems, WellFoundedInduction, TLAPS

\* ------------------------------------------------------------------ types

Kinds == {UNKNOWN, CONSISTENT, RANDOM}

Samples == Seq(Nat \X Nat)

PlanType == [nat : [Side -> Seq(Samples)], losses : Nat, others : [Side -> Nat],
             relay : BOOLEAN, trusted : BOOLEAN, faults : BOOLEAN]

PlanInv == plan \in PlanType /\ \A s \in Side : Len(plan.nat[s]) > MaxReopens

NatType == [samples : Samples, sampled : Nat, pending : Nat, retry : BOOLEAN, heard : BOOLEAN,
            firewall : Kinds, frozen : BOOLEAN, resolved : BOOLEAN]

Puncher == [nat : NatType, holders : Nat, remoteFirewall : Kinds, addresses : BOOLEAN, verified : BOOLEAN,
            remoteHolepunching : BOOLEAN, punching : BOOLEAN, connected : BOOLEAN, destroyed : BOOLEAN,
            randomized : BOOLEAN, mode : {"none", "consistent", "probes", "birthday"},
            punched : {"no", "failed", "opening", "started"},
            reopening : {"no", "running", "stable", "unstable"}, reopens : Nat]

Conn == [pc : Awaiting \cup {"open", "analyze", "reopen", "later", "opening", "end"}, round : Nat,
         retry : BOOLEAN, token : BOOLEAN, isRandom : BOOLEAN, reserved : BOOLEAN, delayed : BOOLEAN,
         again : {"no", "loop", "round"}, relay : {"none", "pairing", "paired", "gone"},
         stream : {"none", "relayed", "direct"}, dead : BOOLEAN]

Requests == [round : Nat, kind : Awaiting, punching : BOOLEAN, firewall : Kinds, direct : BOOLEAN,
            token : BOOLEAN, remoteToken : BOOLEAN, fast : BOOLEAN]

Reply == [error : {"NONE", "ABORTED", "TRY_LATER"}, firewall : Kinds, punching : BOOLEAN, token : BOOLEAN,
          echo : BOOLEAN]

Handler == [m : Requests, copy : Nat, pc : {"analyze", "reopen", "ping", "decide", "punch"}]

Shake == [round : Nat, handlers : SUBSET Handler, relay : BOOLEAN, prepunching : BOOLEAN]

Budget == [punches : Int, others : Int, recent : BOOLEAN]

Net == [requests : SUBSET Requests, replies : SUBSET Reply, dups : Nat]

World == [c : Conn, h : Shake, p : [Side -> Puncher], node : [Side -> Budget], net : Net]

\* ------------------------------------------------------------- invariants

\* A puncher that has ended sends nothing and holds at most the socket it
\* connected on; one whose punch() began sends until it ends.
PuncherInv(q) ==
    /\ q.destroyed => q.holders = 0
    /\ q.connected => q.holders <= 1
    /\ Done(q) => q.mode = "none" /\ ~ q.punching
    /\ q.punched \in {"opening", "started"} => q.mode # "none" \/ Done(q)
    /\ q.mode # "none" => q.punched \in {"opening", "started"}

PunchersInv(w) == \A s \in Side : PuncherInv(w.p[s])

One(b) == IF b THEN 1 ELSE 0

\* The counter of each node is exact, and the server's within its limit.
Counted(w) ==
    /\ w.node["client"].punches = w.node["client"].others + One(w.p["client"].randomized) + One(w.c.reserved)
    /\ w.node["server"].punches = w.node["server"].others + One(w.p["server"].randomized)
    /\ w.node["server"].punches <= 1

\* The client's socket: connected when its puncher is, settled or waiting for a
\* relay when its puncher is destroyed; and a reservation lasts as long as its request.
ClientInv(w) ==
    LET q == w.p["client"] IN
    /\ q.connected => w.c.dead \/ w.c.stream = "direct"
    /\ q.destroyed => w.c.dead \/ w.c.stream # "none" \/ w.c.relay = "pairing"
    /\ w.c.pc = "end" => w.c.dead \/ w.c.stream # "none" \/ q.destroyed \/ q.mode # "none"
    /\ w.c.reserved => w.c.pc = "punch"

Sound(w) == w \in World /\ PunchersInv(w) /\ Counted(w) /\ ClientInv(w)

\* ----------------------------------------------------------------- the Nat

\* The two sides.
LEMMA SideElements == \A s : s \in Side <=> s = "client" \/ s = "server"
  BY DEF Side

\* _updateFirewall names a kind of NAT.
LEMMA FirewallType == ASSUME NEW seen, NEW was \in Kinds PROVE Firewall(seen, was) \in Kinds
  BY DEF Firewall, Kinds

\* A sample leaves a well-formed sampler.
LEMMA AddType == ASSUME NEW nat \in NatType PROVE Add(nat) \in NatType
  <1> DEFINE n == nat.sampled + 1
             fw == IF n >= 3 /\ ~ nat.frozen THEN Firewall(SubSeq(nat.samples, 1, n), nat.firewall) ELSE nat.firewall
             res == nat.resolved \/ fw = CONSISTENT \/ n >= MinSamples
  <1>1. n \in Nat /\ fw \in Kinds /\ res \in BOOLEAN
    BY FirewallType DEF NatType
  <1>2. Add(nat) = [nat EXCEPT !.sampled = n, !.firewall = fw, !.resolved = res]
    BY Zenon DEF Add
  <1> HIDE DEF n, fw, res
  <1> QED BY <1>1, <1>2 DEF NatType

\* So does the address a relayed message shows.
LEMMA AddRelayType == ASSUME NEW nat \in NatType PROVE AddRelay(nat) \in NatType
  <1>1. [nat EXCEPT !.heard = TRUE] \in NatType
    BY DEF NatType
  <1>2. AddRelay(nat) \in {nat, Add([nat EXCEPT !.heard = TRUE])}
    BY Zenon DEF AddRelay
  <1> QED BY <1>1, <1>2, AddType

\* So does the end of a ping.
LEMMA SkipType == ASSUME NEW nat \in NatType, nat.pending > 0, NEW more PROVE Skip(nat, more) \in NatType
  <1> DEFINE left == nat.pending - 1
             rest == MinSamples - nat.sampled
  <1>1. left \in Nat
    BY DEF NatType
  <1>2. [nat EXCEPT !.pending = left] \in NatType /\ [nat EXCEPT !.pending = 0, !.retry = FALSE, !.resolved = TRUE] \in NatType
    BY <1>1 DEF NatType
  <1>3. ASSUME ~ nat.sampled >= MinSamples PROVE [nat EXCEPT !.pending = rest, !.retry = FALSE] \in NatType
    <2>1. rest \in Nat
      BY <1>3 DEF NatType, MinSamples
    <2> QED BY <2>1 DEF NatType
  <1>4. \/ Skip(nat, more) = [nat EXCEPT !.pending = left]
        \/ Skip(nat, more) = [nat EXCEPT !.pending = 0, !.retry = FALSE, !.resolved = TRUE]
        \/ ~ nat.sampled >= MinSamples /\ Skip(nat, more) = [nat EXCEPT !.pending = rest, !.retry = FALSE]
    BY Zenon DEF Skip
  <1> QED BY <1>2, <1>3, <1>4

\* So does freeze.
LEMMA FreezeType == ASSUME NEW nat \in NatType PROVE Freeze(nat) \in NatType
  BY DEF Freeze, NatType

\* A new socket has a well-formed sampler.
LEMMA FreshNatType == ASSUME NEW samples \in Samples PROVE FreshNat(samples) \in NatType
  BY DEF FreshNat, NatType, Kinds, MinSamples

\* ------------------------------------------------------------ the puncher

\* destroy: what is left of the puncher neither sends nor holds a socket.
LEMMA EndedSound ==
  ASSUME NEW q \in Puncher
  PROVE  /\ Ended(q) \in Puncher /\ PuncherInv(Ended(q))
         /\ Ended(q).destroyed /\ Ended(q).mode = "none"
         /\ Ended(q).connected = q.connected /\ Ended(q).randomized = q.randomized
  <1>1. Ended(q) \in Puncher
    BY DEF Ended, Puncher, NatType
  <1>2. /\ Ended(q).destroyed /\ Ended(q).mode = "none" /\ Ended(q).holders = 0 /\ ~ Ended(q).punching
        /\ Ended(q).connected = q.connected /\ Ended(q).randomized = q.randomized
    BY DEF Ended, Puncher
  <1> QED BY <1>1, <1>2 DEF PuncherInv, Done

\* A puncher that connected keeps the one socket and sends no more.
LEMMA ConnectedSound ==
  ASSUME NEW q \in Puncher, ~ q.destroyed
  PROVE  /\ Connected(q) \in Puncher /\ PuncherInv(Connected(q))
         /\ Connected(q).connected /\ ~ Connected(q).destroyed /\ Connected(q).randomized = q.randomized
  <1>1. Connected(q) \in Puncher
    BY DEF Connected, Puncher
  <1>2. /\ Connected(q).connected /\ Connected(q).mode = "none" /\ Connected(q).holders = 1
        /\ ~ Connected(q).punching /\ ~ Connected(q).destroyed /\ Connected(q).randomized = q.randomized
    BY DEF Connected, Puncher
  <1> QED BY <1>1, <1>2 DEF PuncherInv, Done

\* What a step may do to a puncher that leaves its end and its punch alone.
SamePunch(t, q) ==
    /\ t \in Puncher
    /\ t.destroyed = q.destroyed /\ t.connected = q.connected /\ t.mode = q.mode /\ t.punching = q.punching
    /\ Done(q) => t.holders = q.holders
    /\ t.punched = q.punched /\ t.randomized = q.randomized

\* What the other peer says of itself does not touch the punch.
LEMMA UpdateRemoteSame ==
  ASSUME NEW q \in Puncher, NEW m, m.firewall \in Kinds, m.punching \in BOOLEAN, NEW echoed \in BOOLEAN
  PROVE  SamePunch(UpdateRemote(q, m, echoed), q)
  <1> DEFINE known == m.firewall # UNKNOWN
             sure == known /\ (echoed \/ q.verified)
             f == m.firewall
             b == m.punching
  <1>1. UpdateRemote(q, m, echoed) = [q EXCEPT !.remoteFirewall = f, !.addresses = known, !.verified = sure, !.remoteHolepunching = b]
    BY Zenon DEF UpdateRemote
  <1>2. known \in BOOLEAN /\ sure \in BOOLEAN /\ f \in Kinds /\ b \in BOOLEAN
    BY DEF Puncher
  <1> HIDE DEF known, sure, f, b
  <1> QED BY <1>1, <1>2 DEF SamePunch, Puncher

\* Neither does a sample.
LEMMA NatSame ==
  ASSUME NEW q \in Puncher, NEW nat \in NatType
  PROVE  SamePunch([q EXCEPT !.nat = nat], q)
  BY DEF SamePunch, Puncher

\* A puncher whose punch is untouched is as sound as before.
LEMMA SamePunchSound ==
  ASSUME NEW q, PuncherInv(q), NEW t, SamePunch(t, q)
  PROVE  PuncherInv(t)
  BY DEF SamePunch, PuncherInv, Done

\* A turn of _reopen replaces the socket and its sampler, nothing of the punch.
LEMMA ReopenSame ==
  ASSUME NEW q \in Puncher, NEW samples, q.reopens < MaxReopens => samples \in Samples
  PROVE  SamePunch(Reopen(q, samples), q)
  <1> DEFINE nat == FreshNat(samples)
             n == q.reopens + 1
             held == Exchanged(q.holders)
             verdict == IF q.nat.firewall = CONSISTENT THEN "stable" ELSE "unstable"
  <1>1. CASE Unstable(q) /\ q.reopens < MaxReopens /\ ~ Done(q) /\ ~ q.punching
    <2> DEFINE t == [q EXCEPT !.nat = nat, !.reopens = n, !.holders = held]
    <2>1. nat \in NatType /\ n \in Nat /\ held \in Nat
      BY <1>1, FreshNatType DEF Puncher, Exchanged
    <2>2. Reopen(q, samples) = [t EXCEPT !.reopening = "running"]
      BY <1>1, Zenon DEF Reopen, Reset
    <2> HIDE DEF nat, n, held
    <2>3. SamePunch(t, q)
      BY <1>1, <2>1 DEF SamePunch, Puncher
    <2> HIDE DEF t
    <2> QED BY <2>2, <2>3 DEF SamePunch, Puncher
  <1>2. CASE ~ (Unstable(q) /\ q.reopens < MaxReopens /\ ~ Done(q) /\ ~ q.punching)
    <2>1. Reopen(q, samples) = [q EXCEPT !.reopening = verdict]
      BY <1>2, Zenon DEF Reopen
    <2>2. verdict \in {"stable", "unstable"}
      OBVIOUS
    <2> HIDE DEF verdict
    <2> QED BY <2>1, <2>2 DEF SamePunch, Puncher
  <1> QED BY <1>1, <1>2

\* -------------------------------------------------------------- the world

\* A state with one component, or two, replaced.
WithP(w, s, q) == [w EXCEPT !.p[s] = q]
WithC(w, k) == [w EXCEPT !.c = k]
WithH(w, k) == [w EXCEPT !.h = k]
WithNet(w, k) == [w EXCEPT !.net = k]
WithCNet(w, k, m) == [w EXCEPT !.c = k, !.net = m]
WithPN(w, s, q, n) == [w EXCEPT !.p[s] = q, !.node[s] = n]
WithCN(w, k, s, n) == [w EXCEPT !.c = k, !.node[s] = n]
WithHP(w, k, s, q) == [w EXCEPT !.h = k, !.p[s] = q]
WithPC(w, s, q, k) == [w EXCEPT !.p[s] = q, !.c = k]

\* Replacing a puncher.
LEMMA WithPIs ==
  ASSUME NEW w \in World, NEW s \in Side, NEW q \in Puncher
  PROVE  /\ WithP(w, s, q) \in World /\ WithP(w, s, q).p[s] = q
         /\ \A t \in Side \ {s} : WithP(w, s, q).p[t] = w.p[t]
         /\ WithP(w, s, q).c = w.c /\ WithP(w, s, q).h = w.h /\ WithP(w, s, q).node = w.node
         /\ WithP(w, s, q).net = w.net
  BY DEF World, WithP

\* Replacing the connection state of the client.
LEMMA WithCIs ==
  ASSUME NEW w \in World, NEW k \in Conn
  PROVE  /\ WithC(w, k) \in World /\ WithC(w, k).c = k /\ WithC(w, k).h = w.h /\ WithC(w, k).p = w.p
         /\ WithC(w, k).node = w.node /\ WithC(w, k).net = w.net
  BY DEF World, WithC

\* Replacing the handshake state of the server.
LEMMA WithHIs ==
  ASSUME NEW w \in World, NEW k \in Shake
  PROVE  /\ WithH(w, k) \in World /\ WithH(w, k).h = k /\ WithH(w, k).c = w.c /\ WithH(w, k).p = w.p
         /\ WithH(w, k).node = w.node /\ WithH(w, k).net = w.net
  BY DEF World, WithH

\* Replacing what is under way.
LEMMA WithNetIs ==
  ASSUME NEW w \in World, NEW k \in Net
  PROVE  /\ WithNet(w, k) \in World /\ WithNet(w, k).net = k /\ WithNet(w, k).c = w.c /\ WithNet(w, k).p = w.p
         /\ WithNet(w, k).node = w.node /\ WithNet(w, k).h = w.h
  BY DEF World, WithNet

\* Replacing the connection state and what is under way.
LEMMA WithCNetIs ==
  ASSUME NEW w \in World, NEW k \in Conn, NEW m \in Net
  PROVE  /\ WithCNet(w, k, m) \in World /\ WithCNet(w, k, m).c = k /\ WithCNet(w, k, m).net = m
         /\ WithCNet(w, k, m).h = w.h /\ WithCNet(w, k, m).p = w.p /\ WithCNet(w, k, m).node = w.node
  BY DEF World, WithCNet

\* Replacing a puncher and the budget of its node.
LEMMA WithPNIs ==
  ASSUME NEW w \in World, NEW s \in Side, NEW q \in Puncher, NEW n \in Budget
  PROVE  /\ WithPN(w, s, q, n) \in World /\ WithPN(w, s, q, n).p[s] = q /\ WithPN(w, s, q, n).node[s] = n
         /\ \A t \in Side \ {s} : WithPN(w, s, q, n).p[t] = w.p[t] /\ WithPN(w, s, q, n).node[t] = w.node[t]
         /\ WithPN(w, s, q, n).c = w.c /\ WithPN(w, s, q, n).h = w.h /\ WithPN(w, s, q, n).net = w.net
  BY DEF World, WithPN

\* Replacing the connection state and a budget.
LEMMA WithCNIs ==
  ASSUME NEW w \in World, NEW k \in Conn, NEW s \in Side, NEW n \in Budget
  PROVE  /\ WithCN(w, k, s, n) \in World /\ WithCN(w, k, s, n).c = k /\ WithCN(w, k, s, n).node[s] = n
         /\ \A t \in Side \ {s} : WithCN(w, k, s, n).node[t] = w.node[t]
         /\ WithCN(w, k, s, n).h = w.h /\ WithCN(w, k, s, n).p = w.p /\ WithCN(w, k, s, n).net = w.net
  BY DEF World, WithCN

\* Replacing the handshake state and a puncher.
LEMMA WithHPIs ==
  ASSUME NEW w \in World, NEW k \in Shake, NEW s \in Side, NEW q \in Puncher
  PROVE  /\ WithHP(w, k, s, q) \in World /\ WithHP(w, k, s, q).h = k /\ WithHP(w, k, s, q).p[s] = q
         /\ \A t \in Side \ {s} : WithHP(w, k, s, q).p[t] = w.p[t]
         /\ WithHP(w, k, s, q).c = w.c /\ WithHP(w, k, s, q).node = w.node /\ WithHP(w, k, s, q).net = w.net
  BY DEF World, WithHP

\* Replacing a puncher and the connection state.
LEMMA WithPCIs ==
  ASSUME NEW w \in World, NEW k \in Conn, NEW s \in Side, NEW q \in Puncher
  PROVE  /\ WithPC(w, s, q, k) \in World /\ WithPC(w, s, q, k).c = k /\ WithPC(w, s, q, k).p[s] = q
         /\ \A t \in Side \ {s} : WithPC(w, s, q, k).p[t] = w.p[t]
         /\ WithPC(w, s, q, k).h = w.h /\ WithPC(w, s, q, k).node = w.node /\ WithPC(w, s, q, k).net = w.net
  BY DEF World, WithPC

\* The components of a state have their types.
LEMMA WorldFields ==
  ASSUME NEW w \in World
  PROVE  /\ w.c \in Conn /\ w.h \in Shake /\ w.net \in Net
         /\ \A s \in Side : w.p[s] \in Puncher /\ w.node[s] \in Budget
  BY DEF World

\* A random punch that is over leaves the budget one lower.
LEMMA PunchEndsType ==
  ASSUME NEW n \in Budget
  PROVE  PunchEnds(n) \in Budget /\ PunchEnds(n).punches = n.punches - 1 /\ PunchEnds(n).others = n.others
  <1> DEFINE less == n.punches - 1
  <1>1. less \in Int
    BY DEF Budget
  <1>2. PunchEnds(n) = [n EXCEPT !.punches = less, !.recent = TRUE]
    BY Zenon DEF PunchEnds
  <1> HIDE DEF less
  <1>3. PunchEnds(n) \in Budget /\ PunchEnds(n).punches = less /\ PunchEnds(n).others = n.others
    BY <1>1, <1>2 DEF Budget
  <1> QED BY <1>3 DEF less

\* _decrementRandomized takes off a puncher that counts, and only such a one.
LEMMA DecrementRandomizedSound ==
  ASSUME NEW w \in World, NEW s \in Side
  PROVE  LET v == DecrementRandomized(w, s)
         IN /\ v \in World /\ v.c = w.c /\ v.h = w.h /\ v.net = w.net
            /\ \A t \in Side \ {s} : v.p[t] = w.p[t] /\ v.node[t] = w.node[t]
            /\ v.p[s] \in {w.p[s], [w.p[s] EXCEPT !.randomized = FALSE]}
            /\ ~ v.p[s].randomized
            /\ v.node[s].others = w.node[s].others
            /\ v.node[s].punches = w.node[s].punches - One(w.p[s].randomized)
  <1>0. w.p[s] \in Puncher /\ w.node[s] \in Budget
    BY WorldFields
  <1>1. CASE ~ w.p[s].randomized
    BY <1>0, <1>1 DEF DecrementRandomized, Budget, One
  <1>2. CASE w.p[s].randomized
    <2> DEFINE q == [w.p[s] EXCEPT !.randomized = FALSE]
               n == PunchEnds(w.node[s])
    <2>1. q \in Puncher /\ ~ q.randomized
      BY <1>0 DEF Puncher
    <2>2. n \in Budget /\ n.punches = w.node[s].punches - 1 /\ n.others = w.node[s].others
      BY <1>0, PunchEndsType
    <2>3. DecrementRandomized(w, s) = WithPN(w, s, q, n)
      BY <1>2, Zenon DEF DecrementRandomized, WithPN
    <2> HIDE DEF n, q
    <2>4. One(w.p[s].randomized) = 1
      BY <1>2 DEF One
    <2>5. /\ DecrementRandomized(w, s) \in World /\ DecrementRandomized(w, s).p[s] = q /\ DecrementRandomized(w, s).node[s] = n
          /\ \A t \in Side \ {s} : DecrementRandomized(w, s).p[t] = w.p[t] /\ DecrementRandomized(w, s).node[t] = w.node[t]
          /\ DecrementRandomized(w, s).c = w.c /\ DecrementRandomized(w, s).h = w.h /\ DecrementRandomized(w, s).net = w.net
      BY <2>1, <2>2, <2>3, WithPNIs
    <2>6. q = [w.p[s] EXCEPT !.randomized = FALSE]
      BY DEF q
    <2>7. w.node[s].punches \in Int
      BY <1>0 DEF Budget
    <2> QED BY <2>1, <2>2, <2>4, <2>5, <2>6, <2>7
  <1> QED BY <1>0, <1>1, <1>2 DEF Puncher

\* _incrementRandomized counts a puncher that does not count yet.
LEMMA IncrementRandomizedSound ==
  ASSUME NEW w \in World, NEW s \in Side
  PROVE  LET v == IncrementRandomized(w, s)
         IN /\ v \in World /\ v.c = w.c /\ v.h = w.h /\ v.net = w.net
            /\ \A t \in Side \ {s} : v.p[t] = w.p[t] /\ v.node[t] = w.node[t]
            /\ v.p[s] \in {w.p[s], [w.p[s] EXCEPT !.randomized = TRUE]}
            /\ v.p[s].randomized
            /\ v.node[s].others = w.node[s].others
            /\ v.node[s].punches = w.node[s].punches + 1 - One(w.p[s].randomized)
  <1>0. w.p[s] \in Puncher /\ w.node[s] \in Budget
    BY WorldFields
  <1>1. CASE w.p[s].randomized
    BY <1>0, <1>1 DEF IncrementRandomized, Budget, One
  <1>2. CASE ~ w.p[s].randomized
    <2> DEFINE q == [w.p[s] EXCEPT !.randomized = TRUE]
               n == [w.node[s] EXCEPT !.punches = @ + 1]
    <2>1. q \in Puncher /\ q.randomized
      BY <1>0 DEF Puncher
    <2>2. n \in Budget /\ n.punches = w.node[s].punches + 1 /\ n.others = w.node[s].others
      BY <1>0 DEF Budget
    <2>3. IncrementRandomized(w, s) = WithPN(w, s, q, n)
      BY <1>2, Zenon DEF IncrementRandomized, WithPN
    <2> HIDE DEF n, q
    <2>4. One(w.p[s].randomized) = 0
      BY <1>2 DEF One
    <2>5. /\ IncrementRandomized(w, s) \in World /\ IncrementRandomized(w, s).p[s] = q /\ IncrementRandomized(w, s).node[s] = n
          /\ \A t \in Side \ {s} : IncrementRandomized(w, s).p[t] = w.p[t] /\ IncrementRandomized(w, s).node[t] = w.node[t]
          /\ IncrementRandomized(w, s).c = w.c /\ IncrementRandomized(w, s).h = w.h /\ IncrementRandomized(w, s).net = w.net
      BY <2>1, <2>2, <2>3, WithPNIs
    <2>6. q = [w.p[s] EXCEPT !.randomized = TRUE]
      BY DEF q
    <2>7. w.node[s].punches \in Int
      BY <1>0 DEF Budget
    <2> QED BY <2>1, <2>2, <2>4, <2>5, <2>6, <2>7
  <1> QED BY <1>0, <1>1, <1>2 DEF Puncher

\* ---------------------------------------------- steps that keep what is sound

\* Both punchers of a sound state are sound.
LEMMA PunchersOf ==
  ASSUME NEW w, Sound(w)
  PROVE  w \in World /\ PuncherInv(w.p["client"]) /\ PuncherInv(w.p["server"])
  BY SideElements DEF Sound, PunchersInv

\* A state is sound when its parts are.
LEMMA SoundFrom ==
  ASSUME NEW w \in World, PuncherInv(w.p["client"]), PuncherInv(w.p["server"]), Counted(w), ClientInv(w)
  PROVE  Sound(w)
  BY SideElements DEF Sound, PunchersInv

\* A step that changes neither the end nor the punch of a puncher, and of the
\* client at most where it is in its rounds.
LEMMA Framed ==
  ASSUME NEW w, Sound(w), NEW v \in World, v.node = w.node,
         SamePunch(v.p["client"], w.p["client"]), SamePunch(v.p["server"], w.p["server"]),
         v.c.reserved = w.c.reserved, v.c.dead = w.c.dead, v.c.stream = w.c.stream, v.c.relay = w.c.relay,
         v.c.pc = w.c.pc \/ (~ w.c.reserved /\ v.c.pc # "end")
  PROVE  Sound(v)
  <1>1. PuncherInv(v.p["client"]) /\ PuncherInv(v.p["server"])
    BY PunchersOf, SamePunchSound
  <1>2. Counted(v)
    BY DEF Sound, Counted, SamePunch
  <1>3. ClientInv(v)
    BY DEF Sound, ClientInv, SamePunch
  <1> QED BY <1>1, <1>2, <1>3, SoundFrom

\* A puncher that does not change.
LEMMA SameAsItself == ASSUME NEW q \in Puncher PROVE SamePunch(q, q)
  BY DEF SamePunch

\* The components of a state, the two sides named.
LEMMA WorldSides ==
  ASSUME NEW w \in World
  PROVE  /\ w.p["client"] \in Puncher /\ w.p["server"] \in Puncher
         /\ w.node["client"] \in Budget /\ w.node["server"] \in Budget
         /\ w.c \in Conn /\ w.h \in Shake /\ w.net \in Net
  BY WorldFields, SideElements

\* The flags of the connection state.
LEMMA ConnFields ==
  ASSUME NEW k \in Conn
  PROVE  /\ k.round \in Nat /\ k.reserved \in BOOLEAN /\ k.dead \in BOOLEAN /\ k.isRandom \in BOOLEAN
         /\ k.delayed \in BOOLEAN /\ k.token \in BOOLEAN /\ k.retry \in BOOLEAN
  BY DEF Conn

\* All that is sound but for the promise that a destroyed puncher leaves no
\* socket waiting, which maybeDestroyEncryptedSocket is there to keep.
Almost(w) ==
    /\ w \in World /\ PuncherInv(w.p["client"]) /\ PuncherInv(w.p["server"]) /\ Counted(w)
    /\ w.p["client"].connected => w.c.dead \/ w.c.stream = "direct"
    /\ w.c.pc = "end" => w.c.dead \/ w.c.stream # "none" \/ w.p["client"].destroyed \/ w.p["client"].mode # "none"
    /\ w.c.reserved => w.c.pc = "punch"

\* maybeDestroyEncryptedSocket keeps the missing promise.
LEMMA MaybeDestroySound ==
  ASSUME NEW w, Almost(w)
  PROVE  LET v == MaybeDestroyEncryptedSocket(w)
         IN /\ Sound(v) /\ v.p = w.p /\ v.node = w.node /\ v.h = w.h /\ v.net = w.net
            /\ v.c.pc = w.c.pc /\ v.c.reserved = w.c.reserved
  <1>0. w \in World /\ w.c \in Conn
    BY WorldSides DEF Almost
  <1>1. CASE IsDone(w) \/ w.c.stream # "none" \/ w.c.relay = "pairing" \/ ~ w.p["client"].destroyed
    <2>1. MaybeDestroyEncryptedSocket(w) = w
      BY <1>1, Zenon DEF MaybeDestroyEncryptedSocket
    <2>2. ClientInv(w)
      BY <1>1 DEF Almost, ClientInv, IsDone
    <2> QED BY <2>1, <2>2, SoundFrom DEF Almost
  <1>2. CASE ~ (IsDone(w) \/ w.c.stream # "none" \/ w.c.relay = "pairing" \/ ~ w.p["client"].destroyed)
    <2> DEFINE k == [w.c EXCEPT !.dead = TRUE]
               v == WithC(w, k)
    <2>1. k \in Conn /\ k.dead /\ k.pc = w.c.pc /\ k.reserved = w.c.reserved
      BY <1>0 DEF Conn
    <2>2. MaybeDestroyEncryptedSocket(w) = v
      BY <1>2, Zenon DEF MaybeDestroyEncryptedSocket, WithC
    <2> HIDE DEF k
    <2>3. v \in World /\ v.c = k /\ v.p = w.p /\ v.node = w.node /\ v.h = w.h /\ v.net = w.net
      BY <1>0, <2>1, WithCIs
    <2> HIDE DEF v
    <2>4. Counted(v) /\ ClientInv(v)
      BY <2>1, <2>3 DEF Almost, Counted, ClientInv
    <2> QED BY <2>1, <2>2, <2>3, <2>4, SoundFrom DEF Almost
  <1> QED BY <1>1, <1>2

\* A puncher that forgets or remembers that it counts is as sound as before.
LEMMA CountsSame ==
  ASSUME NEW q \in Puncher, PuncherInv(q), NEW b \in BOOLEAN, NEW t, t \in {q, [q EXCEPT !.randomized = b]}
  PROVE  /\ t \in Puncher /\ PuncherInv(t) /\ t.destroyed = q.destroyed /\ t.connected = q.connected
         /\ t.mode = q.mode /\ t.punched = q.punched
  <1>1. CASE t = q
    BY <1>1
  <1>2. CASE t = [q EXCEPT !.randomized = b]
    <2>1. /\ t \in Puncher /\ t.destroyed = q.destroyed /\ t.connected = q.connected /\ t.mode = q.mode
          /\ t.punching = q.punching /\ t.holders = q.holders /\ t.punched = q.punched
      BY <1>2 DEF Puncher
    <2> QED BY <2>1 DEF PuncherInv, Done
  <1> QED BY <1>1, <1>2

\* destroy of a puncher, and what its onabort does to the socket.
LEMMA DestroySound ==
  ASSUME NEW w, Sound(w), NEW s \in Side
  PROVE  LET v == DestroyPuncher(w, s)
         IN /\ Sound(v) /\ v.p[s].destroyed /\ v.h = w.h /\ v.net = w.net
            /\ v.c.pc = w.c.pc /\ v.c.reserved = w.c.reserved
            /\ \A t \in Side \ {s} : v.p[t] = w.p[t]
  <1>0. w \in World /\ w.p[s] \in Puncher /\ PuncherInv(w.p["client"]) /\ PuncherInv(w.p["server"])
    BY PunchersOf, WorldFields
  <1>1. CASE w.p[s].destroyed
    <2>1. DestroyPuncher(w, s) = w
      BY <1>1, Zenon DEF DestroyPuncher
    <2> QED BY <1>1, <2>1
  <1>2. CASE ~ w.p[s].destroyed
    <2> DEFINE q == Ended(w.p[s])
               v == WithP(w, s, q)
               u == IF v.p[s].connected THEN v ELSE DecrementRandomized(v, s)
    <2>1. /\ q \in Puncher /\ PuncherInv(q) /\ q.destroyed /\ q.mode = "none"
          /\ q.connected = w.p[s].connected /\ q.randomized = w.p[s].randomized
      BY <1>0, EndedSound
    <2> HIDE DEF q
    <2>2. /\ v \in World /\ v.p[s] = q /\ v.c = w.c /\ v.h = w.h /\ v.node = w.node /\ v.net = w.net
          /\ \A t \in Side \ {s} : v.p[t] = w.p[t]
      BY <1>0, <2>1, WithPIs
    <2>3. Counted(v)
      BY <2>1, <2>2, SideElements DEF Sound, Counted
    <2>4. DestroyPuncher(w, s) = IF s = "client" /\ w.c.stream # "direct" THEN MaybeDestroyEncryptedSocket(u) ELSE u
      BY <1>2, Zenon DEF DestroyPuncher, WithP, q
    <2> HIDE DEF v
    <2>5. /\ u \in World /\ u.c = w.c /\ u.h = w.h /\ u.net = w.net /\ Counted(u)
          /\ u.p[s] \in Puncher /\ PuncherInv(u.p[s]) /\ u.p[s].destroyed /\ u.p[s].connected = q.connected
          /\ \A t \in Side \ {s} : u.p[t] = w.p[t]
      <3>1. CASE v.p[s].connected
        BY <2>1, <2>2, <2>3, <3>1
      <3>2. CASE ~ v.p[s].connected
        <4> DEFINE d == DecrementRandomized(v, s)
        <4>1. u = d
          BY <3>2
        <4>2. /\ d \in World /\ d.c = v.c /\ d.h = v.h /\ d.net = v.net
              /\ \A t \in Side \ {s} : d.p[t] = v.p[t] /\ d.node[t] = v.node[t]
              /\ d.p[s] \in {v.p[s], [v.p[s] EXCEPT !.randomized = FALSE]} /\ ~ d.p[s].randomized
              /\ d.node[s].others = v.node[s].others
              /\ d.node[s].punches = v.node[s].punches - One(v.p[s].randomized)
          BY <2>2, DecrementRandomizedSound
        <4> HIDE DEF d, u
        <4>3. /\ d.p[s] \in Puncher /\ PuncherInv(d.p[s]) /\ d.p[s].destroyed = q.destroyed
              /\ d.p[s].connected = q.connected
          BY <2>1, <2>2, <4>2, CountsSame
        <4>4. Counted(d)
          <5>1. v.node["client"] \in Budget /\ v.node["server"] \in Budget /\ v.c.reserved \in BOOLEAN
            BY <2>2, WorldSides, ConnFields
          <5>2. One(d.p[s].randomized) = 0
            BY <4>2 DEF One
          <5>3. \A b : One(b) \in {0, 1}
            BY DEF One
          <5> QED BY <2>3, <4>2, <5>1, <5>2, <5>3, SideElements DEF Counted, Budget
        <4> QED BY <2>1, <2>2, <4>1, <4>2, <4>3, <4>4
      <3> QED BY <3>1, <3>2
    <2> HIDE DEF u
    <2>6. PuncherInv(u.p["client"]) /\ PuncherInv(u.p["server"])
      BY <1>0, <2>5, SideElements
    <2>7. CASE s = "client" /\ w.c.stream # "direct"
      <3>1. Almost(u)
        BY <2>1, <2>5, <2>6, <2>7 DEF Almost, Sound, ClientInv
      <3> QED BY <2>4, <2>5, <2>7, <3>1, MaybeDestroySound
    <2>8. CASE ~ (s = "client" /\ w.c.stream # "direct")
      <3>1. DestroyPuncher(w, s) = u
        BY <2>4, <2>8
      <3>2. ClientInv(u)
        BY <2>1, <2>5, <2>8, SideElements DEF ClientInv, Sound
      <3> QED BY <2>5, <2>6, <3>1, <3>2, SoundFrom
    <2> QED BY <2>7, <2>8
  <1> QED BY <1>1, <1>2

\* The rounds end when the socket is settled, or will be.
LEMMA EndSound ==
  ASSUME NEW w, Sound(w), ~ w.c.reserved,
         w.c.dead \/ w.c.stream # "none" \/ w.p["client"].destroyed \/ w.p["client"].mode # "none"
  PROVE  Sound(End(w)) /\ End(w).p = w.p
  <1>0. w \in World /\ w.c \in Conn /\ w.net \in Net
    BY PunchersOf, WorldSides
  <1> DEFINE k == [w.c EXCEPT !.pc = "end"]
             m == [w.net EXCEPT !.replies = {}]
             v == WithCNet(w, k, m)
  <1>1. /\ k \in Conn /\ k.pc = "end" /\ k.reserved = w.c.reserved /\ k.dead = w.c.dead /\ k.stream = w.c.stream
        /\ k.relay = w.c.relay
    BY <1>0 DEF Conn
  <1>2. m \in Net
    BY <1>0 DEF Net
  <1>3. End(w) = v
    BY Zenon DEF End, WithCNet
  <1> HIDE DEF k, m
  <1>4. v \in World /\ v.c = k /\ v.p = w.p /\ v.node = w.node
    BY <1>0, <1>1, <1>2, WithCNetIs
  <1> HIDE DEF v
  <1>5. Counted(v) /\ ClientInv(v)
    BY <1>1, <1>4 DEF Sound, Counted, ClientInv
  <1> QED BY <1>3, <1>4, <1>5, PunchersOf, SoundFrom

\* isDone is such a moment.
LEMMA DoneEnds ==
  ASSUME NEW w, Sound(w), IsDone(w), ~ w.c.reserved
  PROVE  Sound(End(w))
  <1>1. w.c.dead \/ w.c.stream # "none"
    BY DEF Sound, ClientInv, IsDone
  <1> QED BY <1>1, EndSound

\* Giving up destroys the puncher first, and then looks at the socket.
LEMMA GiveUpSound ==
  ASSUME NEW w, Sound(w), ~ w.c.reserved
  PROVE  Sound(GiveUp(w))
  <1> DEFINE v == DestroyPuncher(w, "client")
  <1>1. Sound(v) /\ v.p["client"].destroyed /\ ~ v.c.reserved
    BY DestroySound, SideElements
  <1> HIDE DEF v
  <1>2. Sound(End(v))
    BY <1>1, EndSound
  <1>3. Almost(End(v))
    BY <1>2, PunchersOf DEF Almost, Sound, ClientInv
  <1> QED BY <1>3, MaybeDestroySound DEF GiveUp, v

\* The request of a round is well formed.
LEMMA PayloadType ==
  ASSUME NEW w \in World, NEW kind \in Awaiting
  PROVE  Payload(w, kind) \in Requests
  <1>1. w.c.round \in Nat /\ w.c.token \in BOOLEAN /\ w.p["client"].nat.firewall \in Kinds /\ UNKNOWN \in Kinds
    BY WorldSides, ConnFields DEF Puncher, NatType, Kinds
  <1> QED BY <1>1 DEF Payload, Requests

\* A request leaves all but the place in the rounds alone.
LEMMA AskIs ==
  ASSUME NEW w \in World, NEW kind \in Awaiting
  PROVE  LET v == Ask(w, kind)
         IN /\ v \in World /\ v.p = w.p /\ v.node = w.node /\ v.h = w.h /\ v.c.pc = kind
            /\ v.c.reserved = w.c.reserved /\ v.c.dead = w.c.dead /\ v.c.stream = w.c.stream
            /\ v.c.relay = w.c.relay
  <1>0. w.c \in Conn /\ w.net \in Net
    BY WorldSides
  <1> DEFINE n == w.c.round + 1
             k == [w.c EXCEPT !.pc = kind, !.round = n]
             asked == w.net.requests \cup {Payload(w, kind)}
             m == [w.net EXCEPT !.replies = {}, !.requests = asked]
             v == WithCNet(w, k, m)
  <1>1. n \in Nat
    BY <1>0, ConnFields
  <1>2. Ask(w, kind) = v
    BY Zenon DEF Ask, WithCNet, NextRound, Request
  <1>3. asked \in SUBSET Requests
    BY <1>0, PayloadType DEF Net
  <1> HIDE DEF n, asked
  <1>4. /\ k \in Conn /\ k.pc = kind /\ k.reserved = w.c.reserved /\ k.dead = w.c.dead /\ k.stream = w.c.stream
        /\ k.relay = w.c.relay
    BY <1>0, <1>1 DEF Conn
  <1>5. m \in Net
    BY <1>0, <1>3 DEF Net
  <1> HIDE DEF k, m
  <1> QED BY <1>2, <1>4, <1>5, WithCNetIs

\* A request keeps a state sound.
LEMMA AskSound ==
  ASSUME NEW w, Sound(w), ~ w.c.reserved, NEW kind \in Awaiting
  PROVE  Sound(Ask(w, kind))
  <1>1. w \in World /\ SamePunch(w.p["client"], w.p["client"]) /\ SamePunch(w.p["server"], w.p["server"])
    BY PunchersOf, WorldSides, SameAsItself
  <1> DEFINE v == Ask(w, kind)
  <1>2. /\ v \in World /\ v.p = w.p /\ v.node = w.node /\ v.c.pc = kind
        /\ v.c.reserved = w.c.reserved /\ v.c.dead = w.c.dead /\ v.c.stream = w.c.stream /\ v.c.relay = w.c.relay
    BY <1>1, AskIs
  <1>3. kind # "end"
    BY DEF Awaiting
  <1> HIDE DEF v
  <1>4. Sound(v)
    BY <1>1, <1>2, <1>3, Framed
  <1> QED BY <1>4 DEF v

\* Waiting for another try, or giving up.
LEMMA TryLaterSound ==
  ASSUME NEW w, Sound(w), ~ w.c.reserved, NEW again \in {"loop", "round"}
  PROVE  Sound(TryLater(w, again))
  <1>0. /\ w \in World /\ w.c \in Conn /\ w.net \in Net
        /\ SamePunch(w.p["client"], w.p["client"]) /\ SamePunch(w.p["server"], w.p["server"])
    BY PunchersOf, WorldSides, SameAsItself
  <1> DEFINE k == [w.c EXCEPT !.pc = "later", !.again = again]
             m == [w.net EXCEPT !.replies = {}]
             v == WithCNet(w, k, m)
  <1>1. TryLater(w, again) \in {v, GiveUp(w)}
    BY Zenon DEF TryLater, WithCNet
  <1>2. /\ k \in Conn /\ k.pc = "later" /\ k.reserved = w.c.reserved /\ k.dead = w.c.dead /\ k.stream = w.c.stream
        /\ k.relay = w.c.relay
    BY <1>0 DEF Conn
  <1>3. m \in Net
    BY <1>0 DEF Net
  <1> HIDE DEF k, m
  <1>4. v \in World /\ v.c = k /\ v.p = w.p /\ v.node = w.node
    BY <1>0, <1>2, <1>3, WithCNetIs
  <1> HIDE DEF v
  <1>5. Sound(v)
    BY <1>0, <1>2, <1>4, Framed
  <1> QED BY <1>1, <1>5, GiveUpSound

\* A random punch is counted from the moment the client asks for it.
LEMMA CommitSound ==
  ASSUME NEW w, Sound(w), ~ w.c.reserved
  PROVE  Sound(Commit(w))
  <1>0. w \in World /\ w.c \in Conn /\ w.node["client"] \in Budget /\ "punch" \in Awaiting /\ "client" \in Side
    BY PunchersOf, WorldSides DEF Awaiting, Side
  <1>1. CASE ~ w.c.isRandom
    BY <1>0, <1>1, AskSound DEF Commit
  <1>2. CASE w.c.isRandom
    <2> DEFINE k == [w.c EXCEPT !.reserved = TRUE]
               n == [w.node["client"] EXCEPT !.punches = @ + 1]
               u == WithCN(w, k, "client", n)
               v == Ask(u, "punch")
    <2>1. Commit(w) = v
      BY <1>2, Zenon DEF Commit, WithCN
    <2>2. k \in Conn /\ k.reserved /\ k.dead = w.c.dead /\ k.stream = w.c.stream /\ k.relay = w.c.relay
      BY <1>0 DEF Conn
    <2>3. n \in Budget /\ n.punches = w.node["client"].punches + 1 /\ n.others = w.node["client"].others
      BY <1>0 DEF Budget
    <2> HIDE DEF k, n
    <2>4. u \in World /\ u.c = k /\ u.node["client"] = n /\ u.p = w.p /\ u.node["server"] = w.node["server"]
      BY <1>0, <2>2, <2>3, WithCNIs, SideElements
    <2> HIDE DEF u
    <2>5. /\ v \in World /\ v.p = u.p /\ v.node = u.node /\ v.c.pc = "punch" /\ v.c.reserved
          /\ v.c.dead = w.c.dead /\ v.c.stream = w.c.stream /\ v.c.relay = w.c.relay
      BY <1>0, <2>2, <2>4, AskIs
    <2> HIDE DEF v
    <2>6. Counted(v)
      <3>1. One(v.c.reserved) = 1 /\ One(w.c.reserved) = 0 /\ \A b : One(b) \in Int
        BY <2>5 DEF One
      <3>2. w.node["client"].others \in Int
        BY <1>0 DEF Budget
      <3>3. v.node["client"] = n /\ v.node["server"] = w.node["server"] /\ v.p = w.p
        BY <2>4, <2>5
      <3>4. Counted(w)
        BY DEF Sound
      <3> QED BY <2>3, <3>1, <3>2, <3>3, <3>4 DEF Counted
    <2>7. ClientInv(v)
      BY <2>4, <2>5 DEF ClientInv, Sound
    <2>8. PuncherInv(v.p["client"]) /\ PuncherInv(v.p["server"])
      BY <2>4, <2>5, PunchersOf
    <2> QED BY <2>1, <2>5, <2>6, <2>7, <2>8, SoundFrom
  <1> QED BY <1>0, <1>1, <1>2 DEF Conn

\* The finally of roundPunch takes off what Commit counted.
LEMMA UncommitSound ==
  ASSUME NEW w, Sound(w)
  PROVE  LET v == Uncommit(w)
         IN /\ Sound(v) /\ ~ v.c.reserved /\ v.p = w.p /\ v.c.dead = w.c.dead /\ v.c.stream = w.c.stream
            /\ v.c.relay = w.c.relay /\ v.c.pc = w.c.pc
  <1>0. w \in World /\ w.c \in Conn /\ w.node["client"] \in Budget /\ "client" \in Side
    BY PunchersOf, WorldSides DEF Side
  <1>1. CASE ~ w.c.reserved
    BY <1>1 DEF Uncommit
  <1>2. CASE w.c.reserved
    <2> DEFINE k == [w.c EXCEPT !.reserved = FALSE]
               n == [w.node["client"] EXCEPT !.punches = @ - 1]
               v == WithCN(w, k, "client", n)
    <2>1. Uncommit(w) = v
      BY <1>2, Zenon DEF Uncommit, WithCN
    <2>2. /\ k \in Conn /\ ~ k.reserved /\ k.dead = w.c.dead /\ k.stream = w.c.stream /\ k.relay = w.c.relay
          /\ k.pc = w.c.pc
      BY <1>0 DEF Conn
    <2>3. n \in Budget /\ n.punches = w.node["client"].punches - 1 /\ n.others = w.node["client"].others
      BY <1>0 DEF Budget
    <2> HIDE DEF k, n
    <2>4. v \in World /\ v.c = k /\ v.node["client"] = n /\ v.p = w.p /\ v.node["server"] = w.node["server"]
      BY <1>0, <2>2, <2>3, WithCNIs, SideElements
    <2> HIDE DEF v
    <2>6. Counted(v)
      <3>1. One(v.c.reserved) = 0 /\ One(w.c.reserved) = 1 /\ \A b : One(b) \in Int
        BY <1>2, <2>2, <2>4 DEF One
      <3>2. w.node["client"].others \in Int
        BY <1>0 DEF Budget
      <3> QED BY <2>3, <2>4, <3>1, <3>2 DEF Counted, Sound
    <2>7. ClientInv(v)
      BY <2>2, <2>4 DEF ClientInv, Sound
    <2>8. PuncherInv(v.p["client"]) /\ PuncherInv(v.p["server"])
      BY <2>4, PunchersOf
    <2> QED BY <2>1, <2>2, <2>4, <2>6, <2>7, <2>8, SoundFrom
  <1> QED BY <1>0, <1>1, <1>2 DEF Conn

\* --------------------------------------------------------------- punching

\* _punch sends only while the puncher has not ended.
LEMMA PunchingSound ==
  ASSUME NEW q \in Puncher, PuncherInv(q), ~ Done(q),
         NEW mode \in {"none", "consistent", "probes", "birthday"}, NEW punched \in {"failed", "opening", "started"},
         mode # "none" <=> punched # "failed"
  PROVE  LET t == Punching(q, mode, punched)
         IN /\ t \in Puncher /\ PuncherInv(t) /\ t.punched = punched /\ t.mode = mode
            /\ t.randomized = q.randomized /\ t.destroyed = q.destroyed /\ t.connected = q.connected
  <1>1. Punching(q, mode, punched) \in Puncher
    BY DEF Punching, Puncher
  <1> DEFINE t == Punching(q, mode, punched)
  <1>2. /\ t.destroyed = q.destroyed /\ t.connected = q.connected /\ t.holders = q.holders
        /\ t.mode = mode /\ t.punched = punched /\ t.randomized = q.randomized
    BY DEF Punching, Puncher
  <1> HIDE DEF t
  <1>3. PuncherInv(t)
    BY <1>2 DEF PuncherInv, Done
  <1> QED BY <1>1, <1>2, <1>3 DEF t

\* The random punch has to be counted: one of the two is behind a random NAT.
RandomPunch(q) == q.remoteFirewall >= RANDOM \/ q.nat.firewall >= RANDOM

\* What punch() leaves alone.
PunchOf(v, w, s) ==
    /\ Sound(v) /\ v.c = w.c /\ v.h = w.h /\ v.net = w.net
    /\ \A t \in Side \ {s} : v.p[t] = w.p[t]
    /\ v.p[s].punched # "no" /\ v.p[s].destroyed = w.p[s].destroyed /\ v.p[s].connected = w.p[s].connected

\* A punch that starts, before it is counted.
LEMMA OnSound ==
  ASSUME NEW w, Sound(w), NEW s \in Side, NEW q \in Puncher, PuncherInv(q), q.randomized = w.p[s].randomized,
         q.destroyed = w.p[s].destroyed, q.connected = w.p[s].connected, q.punched # "no", w.p[s].punched = "no"
  PROVE  PunchOf(WithP(w, s, q), w, s)
  <1> DEFINE v == WithP(w, s, q)
  <1>0. w \in World
    BY PunchersOf
  <1>1. /\ v \in World /\ v.p[s] = q /\ v.c = w.c /\ v.h = w.h /\ v.node = w.node /\ v.net = w.net
        /\ \A t \in Side \ {s} : v.p[t] = w.p[t]
    BY <1>0, WithPIs
  <1> HIDE DEF v
  <1>2. PuncherInv(v.p["client"]) /\ PuncherInv(v.p["server"])
    BY <1>1, PunchersOf, SideElements
  <1>3. Counted(v)
    BY <1>1, SideElements DEF Counted, Sound
  <1>4. w.p[s].mode = "none"
    BY PunchersOf, SideElements DEF PuncherInv
  <1>5. ClientInv(v)
    BY <1>1, <1>4, SideElements DEF ClientInv, Sound
  <1> QED BY <1>1, <1>2, <1>3, <1>5, SoundFrom DEF PunchOf, v

\* A random punch that starts is counted, within the limit at the server.
LEMMA CountedOn ==
  ASSUME NEW w, NEW s \in Side, NEW v, PunchOf(v, w, s), s = "server" => v.node["server"].punches < 1
  PROVE  PunchOf(IncrementRandomized(v, s), w, s)
  <1> DEFINE u == IncrementRandomized(v, s)
  <1>0. v \in World /\ Sound(v) /\ PuncherInv(v.p[s]) /\ v.p[s] \in Puncher
    BY PunchersOf, SideElements, WorldFields DEF PunchOf
  <1>1. /\ u \in World /\ u.c = v.c /\ u.h = v.h /\ u.net = v.net
        /\ \A t \in Side \ {s} : u.p[t] = v.p[t] /\ u.node[t] = v.node[t]
        /\ u.p[s].randomized
        /\ u.node[s].others = v.node[s].others
        /\ u.node[s].punches = v.node[s].punches + 1 - One(v.p[s].randomized)
    BY <1>0, IncrementRandomizedSound
  <1>6. u.p[s] \in {v.p[s], [v.p[s] EXCEPT !.randomized = TRUE]}
    BY <1>0, IncrementRandomizedSound
  <1> HIDE DEF u
  <1>2. /\ u.p[s] \in Puncher /\ PuncherInv(u.p[s]) /\ u.p[s].destroyed = v.p[s].destroyed
        /\ u.p[s].connected = v.p[s].connected /\ u.p[s].mode = v.p[s].mode /\ u.p[s].punched = v.p[s].punched
    BY <1>0, <1>6, CountsSame
  <1>3. PuncherInv(u.p["client"]) /\ PuncherInv(u.p["server"])
    BY <1>0, <1>1, <1>2, PunchersOf, SideElements
  <1>4. Counted(u)
    <2>1. v.node["client"] \in Budget /\ v.node["server"] \in Budget
      BY <1>0, WorldSides
    <2>2. One(u.p[s].randomized) = 1
      BY <1>1 DEF One
    <2>3. /\ One(v.p["client"].randomized) \in {0, 1} /\ One(v.p["server"].randomized) \in {0, 1}
          /\ One(v.c.reserved) \in {0, 1}
      BY DEF One
    <2>4. /\ v.node["client"].punches \in Int /\ v.node["client"].others \in Int
          /\ v.node["server"].punches \in Int /\ v.node["server"].others \in Int /\ Counted(v)
      BY <1>0, <2>1 DEF Budget, Sound
    <2>5. CASE s = "client"
      <3>1. u.node["server"] = v.node["server"] /\ u.p["server"] = v.p["server"]
        BY <1>1, <2>5, SideElements
      <3> QED
        <4>1. /\ u.c = v.c /\ One(u.p["client"].randomized) = 1 /\ u.node["client"].others = v.node["client"].others
              /\ u.node["client"].punches = v.node["client"].punches + 1 - One(v.p["client"].randomized)
          BY <1>1, <2>2, <2>5
        <4> QED BY <2>3, <2>4, <2>5, <3>1, <4>1 DEF Counted
    <2>6. CASE s = "server"
      <3>1. u.node["client"] = v.node["client"] /\ u.p["client"] = v.p["client"]
        BY <1>1, <2>6, SideElements
      <3> QED
        <4>1. /\ u.c = v.c /\ One(u.p["server"].randomized) = 1 /\ u.node["server"].others = v.node["server"].others
              /\ u.node["server"].punches = v.node["server"].punches + 1 - One(v.p["server"].randomized)
          BY <1>1, <2>2, <2>6
        <4> QED BY <2>3, <2>4, <2>6, <3>1, <4>1 DEF Counted
    <2> QED BY <2>5, <2>6, SideElements
  <1>5. ClientInv(u)
    BY <1>0, <1>1, <1>2, SideElements DEF ClientInv, Sound
  <1> QED BY <1>1, <1>2, <1>3, <1>4, <1>5, SoundFrom DEF PunchOf, u

\* _punch, up to its first await.
LEMMA PunchSound ==
  ASSUME NEW w, Sound(w), NEW s \in Side,
         s = "server" /\ RandomPunch(w.p[s]) => w.node["server"].punches < 1
  PROVE  PunchOf(Punch(w, s), w, s)
  <1>0. w \in World /\ w.p[s] \in Puncher /\ PuncherInv(w.p[s])
    BY PunchersOf, SideElements, WorldFields
  <1> DEFINE q == w.p[s]
  <1>1. CASE q.punched # "no"
    BY <1>1 DEF Punch, PunchOf
  <1>2. CASE q.punched = "no" /\ (Done(q) \/ ~ q.addresses)
    <2> DEFINE t == [q EXCEPT !.punched = "failed"]
    <2>1. Punch(w, s) = WithP(w, s, t)
      BY <1>2, Zenon DEF Punch, WithP
    <2>2. /\ t \in Puncher /\ t.randomized = q.randomized /\ t.destroyed = q.destroyed /\ t.connected = q.connected
          /\ t.punched = "failed" /\ t.mode = q.mode /\ t.holders = q.holders /\ t.punching = q.punching
      BY <1>0 DEF Puncher
    <2> HIDE DEF t
    <2>3. PuncherInv(t)
      BY <1>0, <1>2, <2>2 DEF PuncherInv, Done
    <2> QED BY <1>2, <2>1, <2>2, <2>3, OnSound
  <1>3. CASE q.punched = "no" /\ ~ (Done(q) \/ ~ q.addresses)
    <2> DEFINE on(mode, punched) == WithP(w, s, Punching(q, mode, punched))
    <2>1. ASSUME NEW mode \in {"none", "consistent", "probes", "birthday"}, NEW punched \in {"failed", "opening", "started"},
                 mode # "none" <=> punched # "failed"
          PROVE  PunchOf(on(mode, punched), w, s)
      <3> DEFINE t == Punching(q, mode, punched)
      <3>1. /\ t \in Puncher /\ PuncherInv(t) /\ t.punched = punched /\ t.randomized = q.randomized
            /\ t.destroyed = q.destroyed /\ t.connected = q.connected
        BY <1>0, <1>3, <2>1, PunchingSound
      <3> HIDE DEF t
      <3>2. PunchOf(WithP(w, s, t), w, s)
        BY <1>3, <3>1, OnSound
      <3> QED BY <3>2 DEF t
    <2>2. ASSUME NEW v, PunchOf(v, w, s), v.node = w.node, RandomPunch(q)
          PROVE  PunchOf(IncrementRandomized(v, s), w, s)
      BY <2>2, CountedOn
    <2>3. ASSUME NEW mode \in {"none", "consistent", "probes", "birthday"}, NEW punched \in {"failed", "opening", "started"},
                 mode # "none" <=> punched # "failed"
          PROVE  on(mode, punched).node = w.node
      <3> DEFINE t == Punching(q, mode, punched)
      <3>1. t \in Puncher
        BY <1>0, <1>3, <2>3, PunchingSound
      <3> HIDE DEF t
      <3>2. WithP(w, s, t).node = w.node
        BY <1>0, <3>1, WithPIs
      <3> QED BY <3>2 DEF t
    <2>4. \/ Punch(w, s) \in {on("consistent", "started"), on("none", "failed")}
          \/ /\ RandomPunch(q)
             /\ Punch(w, s) \in {IncrementRandomized(on("probes", "started"), s),
                                 IncrementRandomized(on("birthday", "opening"), s)}
      BY <1>3, Zenon DEF Punch, WithP, RandomPunch
    <2> HIDE DEF on
    <2> QED BY <2>1, <2>2, <2>3, <2>4
  <1> QED BY <1>1, <1>2, <1>3

\* --------------------------------------------------- the client's handlers

\* The fields of the connection a handler leaves alone.
SameConn(k, w) ==
    /\ k \in Conn /\ k.reserved = w.c.reserved /\ k.dead = w.c.dead /\ k.stream = w.c.stream
    /\ k.relay = w.c.relay

\* A handler that only moves the client along its rounds.
LEMMA WithCSound ==
  ASSUME NEW w, Sound(w), NEW k, SameConn(k, w), k.pc = w.c.pc \/ (~ w.c.reserved /\ k.pc # "end")
  PROVE  Sound(WithC(w, k)) /\ WithC(w, k).c = k /\ WithC(w, k).p = w.p
  <1> DEFINE v == WithC(w, k)
  <1>0. w \in World /\ SamePunch(w.p["client"], w.p["client"]) /\ SamePunch(w.p["server"], w.p["server"])
    BY PunchersOf, WorldSides, SameAsItself
  <1>1. v \in World /\ v.c = k /\ v.p = w.p /\ v.node = w.node
    BY <1>0, WithCIs DEF SameConn
  <1> HIDE DEF v
  <1>2. Sound(v)
    BY <1>0, <1>1, Framed DEF SameConn
  <1> QED BY <1>1, <1>2 DEF v

\* A handler that leaves the punch of a puncher alone.
LEMMA WithPSound ==
  ASSUME NEW w, Sound(w), NEW s \in Side, NEW q, SamePunch(q, w.p[s])
  PROVE  /\ Sound(WithP(w, s, q)) /\ WithP(w, s, q).c = w.c /\ WithP(w, s, q).p[s] = q
         /\ WithP(w, s, q).h = w.h /\ WithP(w, s, q).net = w.net /\ WithP(w, s, q).node = w.node
  <1> DEFINE v == WithP(w, s, q)
  <1>0. w \in World /\ w.p["client"] \in Puncher /\ w.p["server"] \in Puncher
    BY PunchersOf, WorldSides
  <1>1. /\ v \in World /\ v.p[s] = q /\ v.c = w.c /\ v.node = w.node /\ v.h = w.h /\ v.net = w.net
        /\ \A t \in Side \ {s} : v.p[t] = w.p[t]
    BY <1>0, WithPIs DEF SamePunch
  <1> HIDE DEF v
  <1>2. SamePunch(v.p["client"], w.p["client"]) /\ SamePunch(v.p["server"], w.p["server"])
    BY <1>0, <1>1, SideElements, SameAsItself
  <1>3. Sound(v)
    BY <1>1, <1>2, Framed
  <1> QED BY <1>1, <1>3 DEF v

\* A turn of the loop of roundPunch.
LEMMA AwaitBudgetSound ==
  ASSUME NEW w, Sound(w), ~ w.c.reserved
  PROVE  Sound(AwaitBudget(w))
  <1> DEFINE k == [w.c EXCEPT !.delayed = TRUE]
             v == WithC(w, k)
  <1>0. w.c \in Conn
    BY PunchersOf, WorldSides
  <1>1. AwaitBudget(w) \in {Commit(w), GiveUp(w), Ask(v, "delay"), TryLater(w, "loop")}
    BY Zenon DEF AwaitBudget, WithC
  <1>2. SameConn(k, w) /\ k.pc = w.c.pc
    BY <1>0 DEF Conn, SameConn
  <1> HIDE DEF k
  <1>3. Sound(v) /\ ~ v.c.reserved
    BY <1>2, WithCSound DEF SameConn
  <1> HIDE DEF v
  <1>4. Sound(Ask(v, "delay"))
    BY <1>3, AskSound DEF Awaiting
  <1> QED BY <1>1, <1>4, CommitSound, GiveUpSound, TryLaterSound

\* roundPunch, up to its request.
LEMMA RoundPunchSound ==
  ASSUME NEW w, Sound(w), ~ w.c.reserved
  PROVE  Sound(RoundPunch(w))
  <1>0. w \in World /\ w.c \in Conn /\ w.p["client"] \in Puncher /\ "client" \in Side
    BY PunchersOf, WorldSides DEF Side
  <1> DEFINE nat == Freeze(w.p["client"].nat)
             q == [w.p["client"] EXCEPT !.nat = nat]
             b == w.p["client"].remoteFirewall >= RANDOM \/ w.p["client"].nat.firewall >= RANDOM
             k == [w.c EXCEPT !.isRandom = b]
             u == WithP(w, "client", q)
             v == WithC(u, k)
             x == WithPC(w, "client", q, k)
  <1>1. RoundPunch(w) = AwaitBudget(x)
    BY Zenon DEF RoundPunch, WithPC
  <1>2. SamePunch(q, w.p["client"])
    <2>1. nat \in NatType
      BY <1>0, FreezeType DEF Puncher
    <2> HIDE DEF nat
    <2> QED BY <1>0, <2>1, NatSame
  <1>3. SameConn(k, w) /\ k.pc = w.c.pc
    <2> HIDE DEF b
    <2>1. b \in BOOLEAN
      BY DEF b
    <2> QED BY <1>0, <2>1 DEF Conn, SameConn
  <1> HIDE DEF q, k
  <1>4. /\ x \in World /\ x.c = k /\ x.p["client"] = q /\ x.p["server"] = w.p["server"] /\ x.node = w.node
    BY <1>0, <1>2, <1>3, WithPCIs, SideElements DEF SamePunch, SameConn
  <1> HIDE DEF x
  <1>5. SamePunch(x.p["server"], w.p["server"])
    BY <1>0, <1>4, WorldSides, SameAsItself
  <1>6. Sound(x) /\ ~ x.c.reserved
    BY <1>2, <1>3, <1>4, <1>5, Framed DEF SameConn
  <1> QED BY <1>1, <1>6, AwaitBudgetSound

\* probeRound once more.
LEMMA ProbeSound ==
  ASSUME NEW w, Sound(w), ~ w.c.reserved
  PROVE  Sound(Probe(w))
  <1> DEFINE k == [w.c EXCEPT !.pc = "open", !.retry = FALSE]
  <1>0. w \in World /\ w.c \in Conn
    BY PunchersOf, WorldSides
  <1>1. Probe(w) = WithC(w, k)
    <2>1. [w EXCEPT !.c.pc = "open", !.c.retry = FALSE] = [w EXCEPT !.c = [w.c EXCEPT !.pc = "open", !.retry = FALSE]]
      BY <1>0 DEF World, Conn
    <2> QED BY <2>1, Zenon DEF Probe, WithC
  <1>2. SameConn(k, w) /\ k.pc = "open"
    BY <1>0 DEF Conn, SameConn
  <1> HIDE DEF k
  <1> QED BY <1>1, <1>2, WithCSound

\* The end of probeRound.
LEMMA ProbedSound ==
  ASSUME NEW w, Sound(w), ~ w.c.reserved, NEW agrees
  PROVE  Sound(Probed(w, agrees))
  <1>1. Probed(w, agrees) \in {Probe(w), Ask(w, "abort"), RoundPunch(w)}
    BY Zenon DEF Probed, AfterProbe
  <1>2. Sound(Ask(w, "abort"))
    BY AskSound DEF Awaiting
  <1> QED BY <1>1, <1>2, ProbeSound, RoundPunchSound

\* The server answered that it punches: punch(), or the end of the rounds.
LEMMA PunchTooSound ==
  ASSUME NEW w, Sound(w), ~ w.c.reserved
  PROVE  Sound(PunchToo(w))
  <1> DEFINE v == Punch(w, "client")
             m == [v.net EXCEPT !.replies = {}]
             k == [v.c EXCEPT !.pc = "opening"]
             u == WithCNet(v, k, m)
  <1>1. Sound(v) /\ ~ v.c.reserved /\ v.p["client"].punched # "no"
    BY PunchSound DEF PunchOf, Side
  <1>2. \/ PunchToo(w) \in {GiveUp(w), GiveUp(v), u}
        \/ PunchToo(w) = End(v) /\ v.p["client"].punched \notin {"failed", "opening"}
    BY Zenon DEF PunchToo, WithCNet
  <1> HIDE DEF v
  <1>3. v \in World /\ v.c \in Conn /\ v.net \in Net /\ v.p["client"] \in Puncher
    BY <1>1, PunchersOf, WorldSides
  <1>4. Sound(u)
    <2>1. k \in Conn /\ SameConn(k, v) /\ k.pc = "opening"
      BY <1>3 DEF Conn, SameConn
    <2>2. m \in Net
      BY <1>3 DEF Net
    <2> HIDE DEF k, m
    <2>3. u \in World /\ u.c = k /\ u.p = v.p /\ u.node = v.node
      BY <1>3, <2>1, <2>2, WithCNetIs
    <2>4. SamePunch(v.p["client"], v.p["client"]) /\ SamePunch(v.p["server"], v.p["server"])
      BY <1>3, WorldSides, SameAsItself
    <2> HIDE DEF u
    <2> QED BY <1>1, <2>1, <2>3, <2>4, Framed DEF SameConn
  <1>5. ASSUME v.p["client"].punched \notin {"failed", "opening"} PROVE Sound(End(v))
    <2>1. v.p["client"].punched = "started"
      BY <1>1, <1>3, <1>5 DEF Puncher
    <2>2. v.p["client"].mode # "none" \/ v.p["client"].destroyed \/ v.p["client"].connected
      BY <1>1, <2>1, PunchersOf DEF PuncherInv, Done
    <2>3. v.c.dead \/ v.c.stream # "none" \/ v.p["client"].destroyed \/ v.p["client"].mode # "none"
      BY <1>1, <2>2 DEF Sound, ClientInv
    <2> QED BY <1>1, <2>3, EndSound
  <1> QED BY <1>1, <1>2, <1>4, <1>5, GiveUpSound

\* The answer to a probe.
LEMMA LearnSound ==
  ASSUME NEW w, Sound(w), ~ w.c.reserved, NEW m \in Reply
  PROVE  Sound(Learn(w, m))
  <1>0. w \in World /\ w.c \in Conn /\ w.net \in Net
    BY PunchersOf, WorldSides
  <1> DEFINE token == m.token
             k == [w.c EXCEPT !.pc = "analyze", !.token = token]
             n == [w.net EXCEPT !.replies = {}]
             v == WithCNet(w, k, n)
             nat == AddRelay(v.p["client"].nat)
             q == [v.p["client"] EXCEPT !.nat = nat]
  <1>1. [w EXCEPT !.c.pc = "analyze", !.c.token = token, !.net.replies = {}] = v
    BY <1>0 DEF World, Conn, Net, WithCNet
  <1>2. Learn(w, m) = WithP(v, "client", q)
    BY <1>1, Zenon DEF Learn, WithP
  <1>3. SameConn(k, w) /\ k.pc = "analyze"
    <2>1. token \in BOOLEAN
      BY DEF Reply
    <2> HIDE DEF token
    <2> QED BY <1>0, <2>1 DEF Conn, SameConn
  <1>4. n \in Net
    BY <1>0 DEF Net
  <1> HIDE DEF k, n
  <1>5. v \in World /\ v.c = k /\ v.p = w.p /\ v.node = w.node
    BY <1>0, <1>3, <1>4, WithCNetIs DEF SameConn
  <1> HIDE DEF v
  <1>6. SamePunch(w.p["client"], w.p["client"]) /\ SamePunch(w.p["server"], w.p["server"]) /\ v.p["client"] \in Puncher
    BY <1>0, <1>5, WorldSides, SameAsItself
  <1>7. Sound(v)
    BY <1>3, <1>5, <1>6, Framed DEF SameConn
  <1>8. nat \in NatType
    BY <1>6, AddRelayType DEF Puncher
  <1> HIDE DEF nat
  <1>9. SamePunch(q, v.p["client"])
    BY <1>6, <1>8, NatSame
  <1> HIDE DEF q
  <1> QED BY <1>2, <1>7, <1>9, WithPSound DEF Side

\* An answer to the client.
LEMMA OnReplySound ==
  ASSUME NEW w, Sound(w), w.c.pc \in Awaiting, NEW m \in Reply
  PROVE  Sound(OnReply(w, m))
  <1> DEFINE v == Uncommit(w)
             q == UpdateRemote(v.p["client"], m, m.echo)
             u == WithP(v, "client", q)
             k == [v.c EXCEPT !.delayed = TRUE]
             l == WithC(v, k)
  <1>1. /\ Sound(v) /\ ~ v.c.reserved /\ v.p = w.p /\ v.c.dead = w.c.dead /\ v.c.stream = w.c.stream
    BY UncommitSound
  <1>2. \/ w.c.pc = "abort" /\ OnReply(w, m) = GiveUp(w)
        \/ IsDone(w) /\ OnReply(w, m) = End(v)
        \/ OnReply(w, m) \in {TryLater(l, "round"), GiveUp(v), Learn(u, m), TryLater(u, "loop"), PunchToo(u)}
    BY Zenon DEF OnReply, WithP, WithC
  <1> HIDE DEF v
  <1>3. v.c \in Conn /\ v.p["client"] \in Puncher
    BY <1>1, PunchersOf, WorldSides
  <1>4. Sound(u) /\ ~ u.c.reserved
    <2>1. SamePunch(q, v.p["client"])
      BY <1>3, UpdateRemoteSame DEF Reply
    <2> HIDE DEF q
    <2> QED BY <1>1, <2>1, WithPSound DEF Side
  <1>5. Sound(l) /\ ~ l.c.reserved
    <2>1. SameConn(k, v) /\ k.pc = v.c.pc
      BY <1>3 DEF Conn, SameConn
    <2> HIDE DEF k
    <2> QED BY <1>1, <2>1, WithCSound DEF SameConn
  <1>6. ASSUME IsDone(w) PROVE Sound(End(v))
    <2>1. w.c.dead \/ w.c.stream # "none"
      BY <1>6 DEF Sound, ClientInv, IsDone
    <2> QED BY <1>1, <2>1, EndSound
  <1>7. ASSUME w.c.pc = "abort" PROVE ~ w.c.reserved
    BY <1>7 DEF Sound, ClientInv
  <1> HIDE DEF u, l
  <1> QED BY <1>1, <1>2, <1>4, <1>5, <1>6, <1>7, GiveUpSound, TryLaterSound, LearnSound, PunchTooSound

\* All that is sound but for the promise that a connected puncher has the
\* stream, which onsocket is there to keep.
LEMMA OnSocketSound ==
  ASSUME NEW w \in World, PuncherInv(w.p["client"]), PuncherInv(w.p["server"]), Counted(w),
         w.p["client"].destroyed => w.c.dead \/ w.c.stream # "none" \/ w.c.relay = "pairing",
         w.c.pc = "end" => w.c.dead \/ w.c.stream # "none" \/ w.p["client"].destroyed
                           \/ w.p["client"].mode # "none" \/ w.p["client"].connected,
         w.c.reserved => w.c.pc = "punch"
  PROVE  Sound(OnSocket(w))
  <1>1. CASE w.c.stream = "direct" \/ w.c.dead
    <2>1. OnSocket(w) = w
      BY <1>1, Zenon DEF OnSocket
    <2>2. ClientInv(w)
      BY <1>1 DEF ClientInv
    <2> QED BY <2>1, <2>2, SoundFrom
  <1>2. CASE ~ (w.c.stream = "direct" \/ w.c.dead)
    <2> DEFINE k == [w.c EXCEPT !.stream = "direct"]
               v == WithC(w, k)
    <2>1. OnSocket(w) = DestroyPuncher(v, "client")
      BY <1>2, Zenon DEF OnSocket, WithC
    <2>2. k \in Conn /\ k.stream = "direct" /\ k.pc = w.c.pc /\ k.reserved = w.c.reserved
      BY WorldSides DEF Conn
    <2> HIDE DEF k
    <2>3. v \in World /\ v.c = k /\ v.p = w.p /\ v.node = w.node
      BY <2>2, WithCIs
    <2> HIDE DEF v
    <2>4. Counted(v) /\ ClientInv(v)
      BY <2>2, <2>3 DEF Counted, ClientInv
    <2>5. Sound(v)
      BY <2>3, <2>4, SoundFrom
    <2> QED BY <2>1, <2>5, DestroySound DEF Side
  <1> QED BY <1>1, <1>2

\* A punch of the server that comes through connects the client.
LEMMA HearsSound ==
  ASSUME NEW w, Sound(w), ~ Done(w.p["client"])
  PROVE  Sound(OnSocket(DecrementRandomized([w EXCEPT !.p["client"] = Connected(w.p["client"])], "client")))
  <1>0. w \in World /\ w.p["client"] \in Puncher /\ "client" \in Side /\ ~ w.p["client"].destroyed
    BY PunchersOf, WorldSides DEF Side, Done
  <1> DEFINE q == Connected(w.p["client"])
             v == WithP(w, "client", q)
             d == DecrementRandomized(v, "client")
  <1>1. /\ q \in Puncher /\ PuncherInv(q) /\ q.connected /\ ~ q.destroyed
        /\ q.randomized = w.p["client"].randomized
    BY <1>0, ConnectedSound
  <1> HIDE DEF q
  <1>2. /\ v \in World /\ v.p["client"] = q /\ v.c = w.c /\ v.node = w.node /\ v.p["server"] = w.p["server"]
    BY <1>0, <1>1, WithPIs, SideElements
  <1>3. Counted(v)
    BY <1>1, <1>2 DEF Counted, Sound
  <1> HIDE DEF v
  <1>4. /\ d \in World /\ d.c = v.c /\ d.p["server"] = v.p["server"] /\ d.node["server"] = v.node["server"]
        /\ ~ d.p["client"].randomized /\ d.node["client"].others = v.node["client"].others
        /\ d.node["client"].punches = v.node["client"].punches - One(v.p["client"].randomized)
    BY <1>0, <1>2, DecrementRandomizedSound, SideElements
  <1>5. d.p["client"] \in {v.p["client"], [v.p["client"] EXCEPT !.randomized = FALSE]}
    BY <1>0, <1>2, DecrementRandomizedSound
  <1> HIDE DEF d
  <1>6. PuncherInv(d.p["client"]) /\ ~ d.p["client"].destroyed /\ d.p["client"].connected
    BY <1>1, <1>2, <1>5, CountsSame
  <1>7. PuncherInv(d.p["server"])
    BY <1>2, <1>4, PunchersOf
  <1>8. Counted(d)
    <2>1. v.node["client"].punches \in Int /\ v.node["client"].others \in Int
      BY <1>2, WorldSides DEF Budget
    <2>2. One(d.p["client"].randomized) = 0
      BY <1>4 DEF One
    <2>3. One(v.p["client"].randomized) \in {0, 1} /\ One(v.c.reserved) \in {0, 1}
      BY DEF One
    <2> QED BY <1>3, <1>4, <2>1, <2>2, <2>3 DEF Counted
  <1>9. d.c.reserved => d.c.pc = "punch"
    BY <1>2, <1>4 DEF Sound, ClientInv
  <1>10. Sound(OnSocket(d))
    BY <1>4, <1>6, <1>7, <1>8, <1>9, OnSocketSound
  <1> QED BY <1>10 DEF d, v, q, WithP

\* --------------------------------------------------- the server's handlers

\* A handler that leaves the punchers and the client alone.
LEMMA WithHSound ==
  ASSUME NEW w, Sound(w), NEW k \in Shake
  PROVE  Sound(WithH(w, k)) /\ WithH(w, k).p = w.p /\ WithH(w, k).net = w.net /\ WithH(w, k).h = k
         /\ WithH(w, k).c = w.c /\ WithH(w, k).node = w.node
  <1> DEFINE v == WithH(w, k)
  <1>0. w \in World /\ SamePunch(w.p["client"], w.p["client"]) /\ SamePunch(w.p["server"], w.p["server"])
    BY PunchersOf, WorldSides, SameAsItself
  <1>1. v \in World /\ v.c = w.c /\ v.p = w.p /\ v.node = w.node /\ v.net = w.net /\ v.h = k
    BY <1>0, WithHIs
  <1> HIDE DEF v
  <1>2. Sound(v)
    BY <1>0, <1>1, Framed
  <1> QED BY <1>1, <1>2 DEF v

\* A step that changes only what is under way.
LEMMA WithNetSound ==
  ASSUME NEW w, Sound(w), NEW n \in Net
  PROVE  Sound(WithNet(w, n)) /\ WithNet(w, n).p = w.p /\ WithNet(w, n).h = w.h /\ WithNet(w, n).c = w.c
         /\ WithNet(w, n).node = w.node
  <1> DEFINE v == WithNet(w, n)
  <1>0. w \in World /\ SamePunch(w.p["client"], w.p["client"]) /\ SamePunch(w.p["server"], w.p["server"])
    BY PunchersOf, WorldSides, SameAsItself
  <1>1. v \in World /\ v.c = w.c /\ v.p = w.p /\ v.node = w.node /\ v.h = w.h
    BY <1>0, WithNetIs
  <1> HIDE DEF v
  <1>2. Sound(v)
    BY <1>0, <1>1, Framed
  <1> QED BY <1>1, <1>2 DEF v

\* A handler comes, goes or moves on.
LEMMA HandlersType ==
  ASSUME NEW k \in Shake, NEW r, NEW t \in Handler
  PROVE  /\ [k EXCEPT !.handlers = @ \ {r}] \in Shake
         /\ [k EXCEPT !.handlers = (@ \ {r}) \cup {t}] \in Shake
         /\ [k EXCEPT !.handlers = @ \cup {t}] \in Shake
  BY DEF Shake

\* A handler that returns null.
LEMMA SilentSound ==
  ASSUME NEW w, Sound(w), NEW r \in Handler
  PROVE  Sound(Silent(w, r)) /\ Silent(w, r).p = w.p
  <1> DEFINE k == [w.h EXCEPT !.handlers = @ \ {r}]
  <1>1. Silent(w, r) = WithH(w, k)
    BY Zenon DEF Silent, WithH
  <1>2. k \in Shake
    BY PunchersOf, WorldSides, HandlersType
  <1> HIDE DEF k
  <1> QED BY <1>1, <1>2, WithHSound

\* A handler that awaits something.
LEMMA AtSound ==
  ASSUME NEW w, Sound(w), NEW r \in Handler, NEW pc \in {"analyze", "reopen", "ping", "decide", "punch"}
  PROVE  Sound(At(w, r, pc)) /\ At(w, r, pc).p = w.p
  <1> DEFINE t == [r EXCEPT !.pc = pc]
             k == [w.h EXCEPT !.handlers = (@ \ {r}) \cup {t}]
  <1>1. At(w, r, pc) = WithH(w, k)
    BY Zenon DEF At, WithH
  <1>2. t \in Handler
    BY DEF Handler
  <1> HIDE DEF t
  <1>3. k \in Shake
    BY <1>2, PunchersOf, WorldSides, HandlersType
  <1> HIDE DEF k
  <1> QED BY <1>1, <1>3, WithHSound

\* An answer of the server.
LEMMA AnswerSound ==
  ASSUME PlanInv, NEW w, Sound(w), NEW r \in Handler, NEW error \in {"NONE", "ABORTED", "TRY_LATER"}
  PROVE  Sound(Answer(w, r, error)) /\ Answer(w, r, error).p = w.p
  <1>0. w \in World /\ w.p["server"] \in Puncher /\ w.h \in Shake /\ w.net \in Net
    BY PunchersOf, WorldSides
  <1> DEFINE q == w.p["server"]
             m == [error |-> error, firewall |-> q.nat.firewall, punching |-> q.punching,
                   token |-> plan.trusted, echo |-> r.m.token]
             k == [w.h EXCEPT !.handlers = @ \ {r}]
             v == WithH(w, k)
             n == [v.net EXCEPT !.replies = @ \cup {m}]
  <1>1. Answer(w, r, error) \in {v, WithNet(v, n)}
    BY Zenon DEF Answer, WithH, WithNet
  <1>2. m \in Reply
    BY <1>0 DEF Reply, Puncher, NatType, PlanInv, PlanType, Handler, Requests
  <1>3. k \in Shake
    BY <1>0, HandlersType
  <1> HIDE DEF m, k
  <1>4. Sound(v) /\ v.p = w.p /\ v.net = w.net
    BY <1>3, WithHSound
  <1> HIDE DEF v
  <1>5. n \in Net
    BY <1>0, <1>2, <1>4 DEF Net
  <1> HIDE DEF n
  <1> QED BY <1>1, <1>4, <1>5, WithNetSound

\* _abort answers and destroys the puncher.
LEMMA AbortServerSound ==
  ASSUME PlanInv, NEW w, Sound(w), NEW r \in Handler, NEW error \in {"NONE", "ABORTED", "TRY_LATER"}
  PROVE  Sound(AbortServer(w, r, error))
  BY AnswerSound, DestroySound DEF AbortServer, Side

\* The answer freezes the analysis it tells.
LEMMA TellSound ==
  ASSUME PlanInv, NEW w, Sound(w), NEW r \in Handler
  PROVE  Sound(Tell(w, r))
  <1> DEFINE nat == Freeze(w.p["server"].nat)
             q == [w.p["server"] EXCEPT !.nat = nat]
             v == WithP(w, "server", q)
  <1>0. w.p["server"] \in Puncher
    BY PunchersOf, WorldSides
  <1>1. Tell(w, r) \in {Answer(w, r, "NONE"), Answer(v, r, "NONE")}
    BY Zenon DEF Tell, WithP
  <1>2. nat \in NatType
    BY <1>0, FreezeType DEF Puncher
  <1> HIDE DEF nat
  <1>3. SamePunch(q, w.p["server"])
    BY <1>0, <1>2, NatSame
  <1> HIDE DEF q
  <1>4. Sound(v)
    BY <1>3, WithPSound DEF Side
  <1> HIDE DEF v
  <1> QED BY <1>1, <1>4, AnswerSound

\* The end of a handler that punches.
LEMMA PunchedSound ==
  ASSUME PlanInv, NEW w, Sound(w), NEW r \in Handler
  PROVE  Sound(Punched(w, r))
  <1>1. Punched(w, r) \in {Silent(w, r), AbortServer(w, r, "ABORTED"), At(w, r, "punch"), Tell(w, r)}
    BY Zenon DEF Punched
  <1> QED BY <1>1, SilentSound, AbortServerSound, AtSound, TellSound

\* The server punches only if its budget allows it.
LEMMA PunchBackSound ==
  ASSUME PlanInv, NEW w, Sound(w), NEW r \in Handler, NEW agrees
  PROVE  Sound(PunchBack(w, r, agrees))
  <1> DEFINE k == [w.h EXCEPT !.prepunching = FALSE]
             v == WithH(w, k)
  <1>0. w \in World /\ w.h \in Shake /\ w.node["server"] \in Budget /\ w.p["server"] \in Puncher
    BY PunchersOf, WorldSides
  <1>1. \/ PunchBack(w, r, agrees) \in {Tell(w, r), AbortServer(w, r, "ABORTED"), Answer(v, r, "TRY_LATER"),
                                        AbortServer(v, r, "TRY_LATER")}
        \/ /\ ~ (RandomPunch(w.p["server"]) /\ Busy(w.node["server"]))
           /\ PunchBack(w, r, agrees) = Punched(Punch(v, "server"), r)
    BY Zenon DEF PunchBack, WithH, RandomPunch
  <1>2. k \in Shake
    BY <1>0 DEF Shake
  <1> HIDE DEF k
  <1>3. Sound(v) /\ v.p = w.p /\ v.node = w.node
    BY <1>2, WithHSound
  <1> HIDE DEF v
  <1>4. ASSUME ~ (RandomPunch(w.p["server"]) /\ Busy(w.node["server"])) PROVE Sound(Punch(v, "server"))
    <2>1. RandomPunch(v.p["server"]) => v.node["server"].punches < 1
      BY <1>0, <1>3, <1>4 DEF Busy, Budget
    <2> QED BY <1>3, <2>1, PunchSound DEF Side, PunchOf
  <1> QED BY <1>1, <1>3, <1>4, TellSound, AbortServerSound, AnswerSound, PunchedSound

\* The ping of the fast mode.
LEMMA FastOpenSound ==
  ASSUME NEW w, Sound(w), NEW r \in Handler
  PROVE  Sound(FastOpen(w, r))
  <1>1. FastOpen(w, r) \in {At(w, r, "ping"), At(w, r, "decide")}
    BY Zenon DEF FastOpen
  <1> QED BY <1>1, AtSound

\* What a request says of the client.
LEMMA HeardSound ==
  ASSUME PlanInv, NEW w, Sound(w), NEW m \in Requests
  PROVE  Sound(Heard(w, m))
  <1>0. w \in World /\ w.h \in Shake /\ w.p["server"] \in Puncher /\ "server" \in Side
    BY PunchersOf, WorldSides DEF Side
  <1>1. CASE m.round < w.h.round
    BY <1>1 DEF Heard
  <1>2. CASE ~ (m.round < w.h.round)
    <2> DEFINE n == m.round
               k == [w.h EXCEPT !.round = n]
               echoed == plan.trusted /\ m.remoteToken
               q == UpdateRemote(w.p["server"], m, echoed)
               v == WithHP(w, k, "server", q)
    <2>1. Heard(w, m) = v
      BY <1>2, Zenon DEF Heard, WithHP
    <2>2. SamePunch(q, w.p["server"])
      <3>1. echoed \in BOOLEAN
        BY DEF PlanInv, PlanType, Requests
      <3> HIDE DEF echoed
      <3> QED BY <1>0, <3>1, UpdateRemoteSame DEF Requests
    <2>3. k \in Shake
      <3>1. n \in Nat
        BY DEF Requests
      <3> HIDE DEF n
      <3> QED BY <1>0, <3>1 DEF Shake
    <2> HIDE DEF k, q
    <2>4. v \in World /\ v.p["server"] = q /\ v.p["client"] = w.p["client"] /\ v.c = w.c /\ v.node = w.node
      BY <1>0, <2>2, <2>3, WithHPIs, SideElements DEF SamePunch
    <2> HIDE DEF v
    <2>5. SamePunch(v.p["client"], w.p["client"])
      BY <1>0, <2>4, WorldSides, SameAsItself
    <2> QED BY <2>1, <2>2, <2>4, <2>5, Framed
  <1> QED BY <1>1, <1>2

\* _onpeerholepunch up to its first await.
LEMMA OnRequestSound ==
  ASSUME PlanInv, NEW w, Sound(w), NEW m \in Requests, NEW copy \in Nat
  PROVE  Sound(OnRequest(w, m, copy))
  <1> DEFINE nat == AddRelay(w.p["server"].nat)
             q == [w.p["server"] EXCEPT !.nat = nat]
             v == IF m.direct THEN WithP(w, "server", q) ELSE w
             r == [m |-> m, copy |-> copy, pc |-> "analyze"]
  <1>0. w \in World /\ w.h \in Shake /\ w.p["server"] \in Puncher
    BY PunchersOf, WorldSides
  <1>1. r \in Handler
    BY DEF Handler
  <1>2. CASE m.kind = "abort"
    <2> DEFINE n == Max({w.h.round, m.round})
               k == [w.h EXCEPT !.round = n]
               u == WithH(w, k)
    <2>1. OnRequest(w, m, copy) = AbortServer(u, r, "ABORTED")
      BY <1>2, Zenon DEF OnRequest, WithH
    <2>2. n \in Nat
      <3>1. w.h.round \in Nat /\ m.round \in Nat
        BY <1>0 DEF Shake, Requests
      <3>2. \E x \in {w.h.round, m.round} : \A y \in {w.h.round, m.round} : x >= y
        BY <3>1
      <3>3. n \in {w.h.round, m.round}
        BY <3>2, Zenon DEF Max
      <3> QED BY <3>1, <3>3
    <2> HIDE DEF n
    <2>3. k \in Shake
      BY <1>0, <2>2 DEF Shake
    <2> HIDE DEF k
    <2>4. Sound(u)
      BY <2>3, WithHSound
    <2> HIDE DEF u, r
    <2> QED BY <1>1, <2>1, <2>4, AbortServerSound
  <1>3. CASE m.kind # "abort"
    <2>1. Sound(v)
      <3>1. nat \in NatType
        BY <1>0, AddRelayType DEF Puncher
      <3> HIDE DEF nat
      <3>2. SamePunch(q, w.p["server"])
        BY <1>0, <3>1, NatSame
      <3> HIDE DEF q
      <3> QED BY <3>2, WithPSound DEF Side
    <2> DEFINE u == Heard(v, m)
               k == [u.h EXCEPT !.handlers = @ \cup {r}]
    <2>2. OnRequest(w, m, copy) = WithH(u, k)
      BY <1>3, Zenon DEF OnRequest, WithH, WithP
    <2> HIDE DEF v, r
    <2>3. Sound(u) /\ u.h \in Shake
      BY <2>1, HeardSound, PunchersOf, WorldSides
    <2> HIDE DEF u
    <2>4. k \in Shake
      BY <1>1, <2>3, HandlersType
    <2> HIDE DEF k
    <2> QED BY <2>2, <2>3, <2>4, WithHSound
  <1> QED BY <1>2, <1>3

\* A turn of the loop of _reopen.
LEMMA ReopenSideSound ==
  ASSUME PlanInv, NEW w, Sound(w), NEW s \in Side
  PROVE  Sound(ReopenSide(w, s)) /\ ReopenSide(w, s).c = w.c
  <1> DEFINE samples == plan.nat[s][w.p[s].reopens + 2]
             q == Reopen(w.p[s], samples)
  <1>0. w.p[s] \in Puncher
    BY PunchersOf, WorldFields
  <1>1. ReopenSide(w, s) = WithP(w, s, q)
    BY Zenon DEF ReopenSide, WithP
  <1>2. w.p[s].reopens < MaxReopens => samples \in Samples
    BY <1>0, HolepunchAssumption DEF PlanInv, PlanType, Puncher
  <1> HIDE DEF samples
  <1>3. SamePunch(q, w.p[s])
    BY <1>0, <1>2, ReopenSame
  <1> HIDE DEF q
  <1> QED BY <1>1, <1>3, WithPSound

\* analyze(true).
LEMMA AnalyzeAgainSound ==
  ASSUME PlanInv, NEW w, Sound(w), NEW s \in Side
  PROVE  Sound(AnalyzeAgain(w, s)) /\ AnalyzeAgain(w, s).c = w.c
  <1>1. AnalyzeAgain(w, s) \in {w, ReopenSide(w, s)}
    BY Zenon DEF AnalyzeAgain
  <1> QED BY <1>1, ReopenSideSound

\* ---------------------------------------------------------- the invariant

HInv == PlanInv /\ Sound(State)

\* The variables are the components of the state.
LEMMA StateIs ==
  /\ State.c = c /\ State.h = h /\ State.p = p /\ State.node = node /\ State.net = net
  BY DEF State

\* A step to a sound state.
LEMMA BecomesSound ==
  ASSUME NEW w, Sound(w), Becomes(w)
  PROVE  Sound(State)'
  <1>1. w \in World
    BY DEF Sound
  <1>2. w = [c |-> w.c, h |-> w.h, p |-> w.p, node |-> w.node, net |-> w.net]
    BY <1>1 DEF World
  <1>3. State' = w
    BY <1>2, Zenon DEF State, Becomes
  <1> QED BY <1>3

\* The invariant holds at the start.
LEMMA HInvInit == Init => HInv
  <1> SUFFICES ASSUME Init PROVE HInv
    OBVIOUS
  <1>1. plan \in PlanType /\ PlanInv
    BY HolepunchAssumption DEF Init, PlanInv, PlanType, Samples
  <1>2. c \in Conn
    BY <1>1 DEF Init, Conn, PlanType, Awaiting
  <1>3. h \in Shake
    BY <1>1 DEF Init, Shake, PlanType
  <1>4. \A s \in Side : p[s] \in Puncher /\ PuncherInv(p[s]) /\ ~ p[s].randomized /\ ~ p[s].destroyed /\ ~ p[s].connected
    <2> TAKE s \in Side
    <2> DEFINE samples == plan.nat[s][1]
    <2>1. samples \in Samples
      BY <1>1, HolepunchAssumption DEF PlanInv, PlanType
    <2>2. p[s] = FreshPuncher(samples)
      BY DEF Init
    <2> HIDE DEF samples
    <2> DEFINE nat == FreshNat(samples)
    <2>3. nat \in NatType
      BY <2>1, FreshNatType
    <2>4. p[s] = [nat |-> nat, holders |-> 1,
                  remoteFirewall |-> UNKNOWN, addresses |-> FALSE, verified |-> FALSE, remoteHolepunching |-> FALSE,
                  punching |-> FALSE, connected |-> FALSE, destroyed |-> FALSE, randomized |-> FALSE,
                  mode |-> "none", punched |-> "no", reopening |-> "no", reopens |-> 0]
      BY <2>2 DEF FreshPuncher
    <2> HIDE DEF nat
    <2>5. p[s] \in Puncher
      BY <2>3, <2>4 DEF Puncher, Kinds
    <2>6. ~ p[s].randomized /\ ~ p[s].destroyed /\ ~ p[s].connected /\ p[s].punched = "no" /\ p[s].mode = "none"
      BY <2>4
    <2> QED BY <2>5, <2>6 DEF PuncherInv, Done
  <1>5. node \in [Side -> Budget] /\ \A s \in Side : node[s].punches = 0 /\ node[s].others = 0
    BY DEF Init, Budget
  <1>6. net \in Net
    BY DEF Init, Net
  <1>7. p \in [Side -> Puncher]
    BY <1>4 DEF Init
  <1>8. State \in World
    BY <1>2, <1>3, <1>5, <1>6, <1>7 DEF State, World
  <1>9. c.pc = "open" /\ ~ c.reserved
    BY DEF Init
  <1>10. Counted(State)
    <2>1. One(c.reserved) = 0 /\ \A s \in Side : One(p[s].randomized) = 0
      BY <1>4, <1>9 DEF One
    <2> QED BY <1>5, <2>1, StateIs, SideElements DEF Counted
  <1>11. ClientInv(State)
    BY <1>4, <1>9, StateIs, SideElements DEF ClientInv
  <1>12. PuncherInv(State.p["client"]) /\ PuncherInv(State.p["server"])
    BY <1>4, StateIs, SideElements
  <1> QED BY <1>1, <1>8, <1>10, <1>11, <1>12, SoundFrom DEF HInv

\* A handler whose outcome is sound keeps the invariant.
LEMMA StepSound ==
  ASSUME HInv, UNCHANGED plan, NEW w, Sound(w), Becomes(w)
  PROVE  HInv'
  BY BecomesSound DEF HInv, PlanInv

\* Only a client that asks for its punch has one reserved.
LEMMA Unreserved ==
  ASSUME HInv, c.pc # "punch"
  PROVE  ~ State.c.reserved
  BY StateIs DEF HInv, Sound, ClientInv

\* What the state holds has its type.
LEMMA StateTypes ==
  ASSUME HInv
  PROVE  /\ State \in World /\ Sound(State) /\ c \in Conn /\ h \in Shake /\ net \in Net
         /\ p \in [Side -> Puncher] /\ node \in [Side -> Budget] /\ plan \in PlanType
         /\ \A r \in h.handlers : r \in Handler
         /\ \A m \in net.requests : m \in Requests
         /\ \A m \in net.replies : m \in Reply
  <1>1. State \in World /\ Sound(State) /\ plan \in PlanType
    BY DEF HInv, Sound, PlanInv
  <1>2. c \in Conn /\ h \in Shake /\ net \in Net /\ p \in [Side -> Puncher] /\ node \in [Side -> Budget]
    BY <1>1, StateIs DEF World
  <1> QED BY <1>1, <1>2 DEF Shake, Net

\* probeRound's first request, or its end.
LEMMA ClientProbesKeeps == ASSUME HInv, ClientProbes PROVE HInv'
  <1> DEFINE w == IF IsDone(State) THEN End(State) ELSE Ask(State, "probe")
  <1>1. Becomes(w) /\ UNCHANGED plan /\ c.pc = "open"
    BY DEF ClientProbes
  <1>2. ~ State.c.reserved /\ Sound(State)
    BY <1>1, Unreserved, StateTypes
  <1>3. Sound(w)
    BY <1>2, DoneEnds, AskSound DEF Awaiting
  <1> HIDE DEF w
  <1> QED BY <1>1, <1>3, StepSound

\* An answer to the client.
LEMMA ClientReplyKeeps == ASSUME HInv, ClientReply PROVE HInv'
  <1>1. PICK m \in net.replies : Becomes(OnReply(State, m))
    BY DEF ClientReply
  <1>2. UNCHANGED plan /\ State.c.pc \in Awaiting
    BY StateIs DEF ClientReply
  <1>3. Sound(OnReply(State, m))
    BY <1>2, StateTypes, OnReplySound
  <1> QED BY <1>1, <1>2, <1>3, StepSound

\* A request that fails.
LEMMA RequestFailsKeeps == ASSUME HInv, RequestFails PROVE HInv'
  <1>1. Becomes(GiveUp(Uncommit(State))) /\ UNCHANGED plan
    BY DEF RequestFails
  <1>2. Sound(GiveUp(Uncommit(State)))
    BY StateTypes, UncommitSound, GiveUpSound
  <1> QED BY <1>1, <1>2, StepSound

\* The client's NAT is analyzed.
LEMMA ClientAnalyzedKeeps == ASSUME HInv, ClientAnalyzed PROVE HInv'
  <1> DEFINE v == AnalyzeAgain(State, "client")
             x == [v EXCEPT !.c.pc = "reopen"]
             w(agrees) == IF IsDone(State) THEN End(State)
                          ELSE IF Unstable(p["client"]) THEN x ELSE Probed(State, agrees)
  <1>1. PICK agrees \in {TRUE, ~ plan.faults} : Becomes(w(agrees))
    BY DEF ClientAnalyzed
  <1>2. UNCHANGED plan /\ c.pc = "analyze"
    BY DEF ClientAnalyzed
  <1>3. ~ State.c.reserved /\ Sound(State)
    BY <1>2, Unreserved, StateTypes
  <1>4. Sound(v) /\ v.c = State.c
    BY <1>3, AnalyzeAgainSound DEF HInv, Side
  <1>5. Sound(x)
    <2> DEFINE k == [v.c EXCEPT !.pc = "reopen"]
    <2> HIDE DEF v
    <2>1. x = WithC(v, k)
      BY Zenon DEF WithC
    <2>2. SameConn(k, v) /\ k.pc = "reopen"
      BY <1>4, PunchersOf, WorldSides DEF Conn, SameConn
    <2> HIDE DEF k, x
    <2> QED BY <1>3, <1>4, <2>1, <2>2, WithCSound
  <1>6. Sound(w(agrees))
    <2> HIDE DEF x
    <2> QED BY <1>3, <1>5, DoneEnds, ProbedSound
  <1> HIDE DEF w
  <1> QED BY <1>1, <1>2, <1>6, StepSound

\* The client's second analysis ends.
LEMMA ClientReopenedKeeps == ASSUME HInv, ClientReopened PROVE HInv'
  <1> DEFINE w(agrees) == IF IsDone(State) THEN End(State)
                          ELSE IF p["client"].reopening = "stable" THEN Probe(State) ELSE Probed(State, agrees)
  <1>1. PICK agrees \in {TRUE, ~ plan.faults} : Becomes(w(agrees))
    BY DEF ClientReopened
  <1>2. UNCHANGED plan /\ c.pc = "reopen"
    BY DEF ClientReopened
  <1>3. ~ State.c.reserved /\ Sound(State)
    BY <1>2, Unreserved, StateTypes
  <1>4. Sound(w(agrees))
    BY <1>3, DoneEnds, ProbeSound, ProbedSound
  <1> HIDE DEF w
  <1> QED BY <1>1, <1>2, <1>4, StepSound

\* The client tries again.
LEMMA ClientWakesKeeps == ASSUME HInv, ClientWakes PROVE HInv'
  <1> DEFINE w == IF IsDone(State) THEN End(State)
                  ELSE IF c.again = "loop" THEN AwaitBudget(State) ELSE RoundPunch(State)
  <1>1. Becomes(w) /\ UNCHANGED plan /\ c.pc = "later"
    BY DEF ClientWakes
  <1>2. ~ State.c.reserved /\ Sound(State)
    BY <1>1, Unreserved, StateTypes
  <1>3. Sound(w)
    BY <1>2, DoneEnds, AwaitBudgetSound, RoundPunchSound
  <1> HIDE DEF w
  <1> QED BY <1>1, <1>3, StepSound

\* The client's birthday sockets are open: it sends, or has ended meanwhile.
LEMMA ClientOpenedKeeps == ASSUME HInv, ClientOpened PROVE HInv'
  <1>1. Becomes(End(State)) /\ UNCHANGED plan /\ c.pc = "opening" /\ State.p["client"].punched = "started"
    BY StateIs DEF ClientOpened
  <1>2. ~ State.c.reserved /\ Sound(State)
    BY <1>1, Unreserved, StateTypes
  <1>3. State.p["client"].mode # "none" \/ State.p["client"].destroyed \/ State.p["client"].connected
    BY <1>1, <1>2, PunchersOf DEF PuncherInv, Done
  <1>4. State.c.dead \/ State.c.stream # "none" \/ State.p["client"].destroyed \/ State.p["client"].mode # "none"
    BY <1>2, <1>3 DEF Sound, ClientInv
  <1>5. Sound(End(State))
    BY <1>2, <1>4, EndSound
  <1> QED BY <1>1, <1>5, StepSound

\* A punch of the server comes through.
LEMMA ClientHearsKeeps == ASSUME HInv, ClientHears PROVE HInv'
  <1> DEFINE w == OnSocket(DecrementRandomized([State EXCEPT !.p["client"] = Connected(State.p["client"])], "client"))
  <1>1. Becomes(w) /\ UNCHANGED plan /\ ~ Done(p["client"])
    BY Zenon DEF ClientHears
  <1>2. Sound(w)
    BY <1>1, StateTypes, StateIs, HearsSound
  <1> HIDE DEF w
  <1> QED BY <1>1, <1>2, StepSound

\* The server's stream, or the LAN, is first.
LEMMA DirectTrafficKeeps == ASSUME HInv, DirectTraffic PROVE HInv'
  <1>1. Becomes(OnSocket(State)) /\ UNCHANGED plan
    BY DEF DirectTraffic
  <1>2. Sound(State)
    BY StateTypes
  <1>3. Sound(OnSocket(State))
    BY <1>2, PunchersOf, OnSocketSound DEF Sound, ClientInv
  <1> QED BY <1>1, <1>3, StepSound

\* The relay connects the stream.
LEMMA RelayPairsKeeps == ASSUME HInv, RelayPairs PROVE HInv'
  <1> DEFINE k == c'
             v == WithC(State, k)
  <1>0. c \in Conn /\ Sound(State) /\ State \in World
    BY StateTypes
  <1>1. \/ c.stream = "direct" /\ c' = [c EXCEPT !.relay = "gone"]
        \/ c.stream # "direct" /\ c' = [c EXCEPT !.relay = "paired", !.stream = "relayed"]
    BY DEF RelayPairs
  <1>2. UNCHANGED <<plan, h, p, node, net>>
    BY DEF RelayPairs
  <1>3. /\ k \in Conn /\ k.reserved = c.reserved /\ k.pc = c.pc /\ k.dead = c.dead /\ k.stream # "none"
        /\ c.stream = "direct" => k.stream = "direct"
    BY <1>0, <1>1 DEF Conn
  <1>4. Becomes(v)
    BY <1>2, StateIs, Zenon DEF Becomes, State, WithC
  <1> HIDE DEF k
  <1>5. v \in World /\ v.c = k /\ v.p = State.p /\ v.node = State.node
    BY <1>0, <1>3, WithCIs
  <1> HIDE DEF v
  <1>6. Counted(v) /\ ClientInv(v)
    BY <1>0, <1>3, <1>5, StateIs DEF Sound, Counted, ClientInv
  <1>7. Sound(v)
    BY <1>0, <1>5, <1>6, PunchersOf, SoundFrom
  <1> QED BY <1>2, <1>4, <1>7, StepSound

\* The relay is given up; the socket goes with it when nothing else may connect it.
LEMMA RelayFailsKeeps == ASSUME HInv, RelayFails PROVE HInv'
  <1> DEFINE k == [c EXCEPT !.relay = "gone"]
             v == WithC(State, k)
  <1>0. c \in Conn /\ Sound(State) /\ State \in World
    BY StateTypes
  <1>1. Becomes(MaybeDestroyEncryptedSocket(v)) /\ UNCHANGED plan
    BY StateIs, Zenon DEF RelayFails, WithC
  <1>2. k \in Conn /\ k.reserved = c.reserved /\ k.pc = c.pc /\ k.dead = c.dead /\ k.stream = c.stream
    BY <1>0 DEF Conn
  <1> HIDE DEF k
  <1>3. v \in World /\ v.c = k /\ v.p = State.p /\ v.node = State.node
    BY <1>0, <1>2, WithCIs
  <1> HIDE DEF v
  <1>4. Almost(v)
    BY <1>0, <1>2, <1>3, StateIs, PunchersOf DEF Almost, Sound, Counted, ClientInv
  <1> QED BY <1>1, <1>4, MaybeDestroySound, StepSound

\* The socket is destroyed, and its puncher with it.
LEMMA SocketClosesKeeps == ASSUME HInv, SocketCloses PROVE HInv'
  <1> DEFINE k == [c EXCEPT !.dead = TRUE]
             v == WithC(State, k)
  <1>0. c \in Conn /\ Sound(State) /\ State \in World
    BY StateTypes
  <1>1. Becomes(DestroyPuncher(v, "client")) /\ UNCHANGED plan
    BY StateIs, Zenon DEF SocketCloses, WithC
  <1>2. k \in Conn /\ k.reserved = c.reserved /\ k.pc = c.pc /\ k.dead
    BY <1>0 DEF Conn
  <1> HIDE DEF k
  <1>3. v \in World /\ v.c = k /\ v.p = State.p /\ v.node = State.node
    BY <1>0, <1>2, WithCIs
  <1> HIDE DEF v
  <1>4. Counted(v) /\ ClientInv(v)
    BY <1>0, <1>2, <1>3, StateIs DEF Sound, Counted, ClientInv
  <1>5. Sound(v)
    BY <1>0, <1>3, <1>4, PunchersOf, SoundFrom
  <1>6. Sound(DestroyPuncher(v, "client"))
    BY <1>5, DestroySound DEF Side
  <1> QED BY <1>1, <1>6, StepSound

\* A request reaches the server, once or once more.
LEMMA DeliverKeeps == ASSUME HInv, Deliver PROVE HInv'
  <1>0. Sound(State) /\ State \in World /\ net \in Net
    BY StateTypes
  <1>1. PICK m \in net.requests, again \in BOOLEAN :
          LET v == [State EXCEPT !.net.requests = IF again THEN @ ELSE @ \ {m},
                                 !.net.dups = IF again THEN @ + 1 ELSE @]
          IN Becomes(OnRequest(v, m, IF again THEN net.dups + 1 ELSE 0))
    BY Zenon DEF Deliver
  <1> DEFINE left == IF again THEN net.requests ELSE net.requests \ {m}
             dups == IF again THEN net.dups + 1 ELSE net.dups
             copy == IF again THEN net.dups + 1 ELSE 0
             n == [net EXCEPT !.requests = left, !.dups = dups]
             v == WithNet(State, n)
  <1>2. UNCHANGED plan /\ m \in Requests /\ PlanInv
    BY StateTypes DEF Deliver, HInv
  <1>3. left \in SUBSET Requests /\ dups \in Nat /\ copy \in Nat
    BY <1>0 DEF Net
  <1>4. Becomes(OnRequest(v, m, copy))
    <2>1. v = [State EXCEPT !.net.requests = IF again THEN @ ELSE @ \ {m},
                            !.net.dups = IF again THEN @ + 1 ELSE @]
      <3>1. CASE again
        BY <1>0, <3>1, StateIs DEF World, Net, WithNet
      <3>2. CASE ~ again
        BY <1>0, <3>2, StateIs DEF World, Net, WithNet
      <3> QED BY <3>1, <3>2
    <2> HIDE DEF v
    <2> QED BY <1>1, <2>1, Zenon
  <1> HIDE DEF left, dups, copy
  <1>5. n \in Net
    BY <1>0, <1>3 DEF Net
  <1> HIDE DEF n
  <1>6. Sound(v)
    BY <1>0, <1>5, WithNetSound
  <1> HIDE DEF v
  <1>7. Sound(OnRequest(v, m, copy))
    BY <1>2, <1>3, <1>6, OnRequestSound
  <1> QED BY <1>2, <1>4, <1>7, StepSound

\* The server's puncher is not needed any more.
LEMMA ServerDoneKeeps == ASSUME HInv, ServerDone PROVE HInv'
  <1> DEFINE k == [h EXCEPT !.prepunching = FALSE]
             v == WithH(State, k)
  <1>1. Becomes(DestroyPuncher(v, "server")) /\ UNCHANGED plan
    BY StateIs, Zenon DEF ServerDone, WithH
  <1>2. k \in Shake /\ Sound(State)
    BY StateTypes DEF Shake
  <1> HIDE DEF k
  <1>3. Sound(v)
    BY <1>2, WithHSound
  <1> HIDE DEF v
  <1>4. Sound(DestroyPuncher(v, "server"))
    BY <1>3, DestroySound DEF Side
  <1> QED BY <1>1, <1>4, StepSound

\* The server's side of the relay ends.
LEMMA ServerRelayFailsKeeps == ASSUME HInv, ServerRelayFails PROVE HInv'
  <1> DEFINE k == [h EXCEPT !.relay = FALSE]
             v == WithH(State, k)
  <1>1. h' = k /\ UNCHANGED <<plan, c, p, node, net>>
    BY DEF ServerRelayFails
  <1>2. k \in Shake /\ Sound(State)
    BY StateTypes DEF Shake
  <1>3. Becomes(v)
    BY <1>1, Zenon DEF Becomes, State, WithH
  <1> HIDE DEF k
  <1>4. Sound(v)
    BY <1>2, WithHSound
  <1> QED BY <1>1, <1>3, <1>4, StepSound

\* A handler of the server goes on after an await.
LEMMA HandlerKeeps ==
  ASSUME HInv, NEW r \in h.handlers,
         ServerAnalyzed(r) \/ ServerReopened(r) \/ ServerDecides(r) \/ ServerPunched(r)
  PROVE  HInv'
  <1>0. r \in Handler /\ PlanInv /\ Sound(State)
    BY StateTypes DEF HInv
  <1>1. CASE ServerAnalyzed(r)
    <2> DEFINE w == IF p["server"].destroyed THEN Silent(State, r)
                    ELSE IF ~ p["server"].remoteHolepunching /\ Unstable(p["server"])
                         THEN At(AnalyzeAgain(State, "server"), r, "reopen") ELSE FastOpen(State, r)
    <2>1. Becomes(w) /\ UNCHANGED plan
      BY <1>1 DEF ServerAnalyzed
    <2>2. Sound(w)
      BY <1>0, SilentSound, AnalyzeAgainSound, AtSound, FastOpenSound DEF Side
    <2> HIDE DEF w
    <2> QED BY <2>1, <2>2, StepSound
  <1>2. CASE ServerReopened(r)
    <2> DEFINE w == IF p["server"].destroyed THEN Silent(State, r)
                    ELSE IF p["server"].reopening = "unstable" THEN AbortServer(State, r, "ABORTED")
                    ELSE FastOpen(State, r)
    <2>1. Becomes(w) /\ UNCHANGED plan
      BY <1>2 DEF ServerReopened
    <2>2. Sound(w)
      BY <1>0, SilentSound, AbortServerSound, FastOpenSound
    <2> HIDE DEF w
    <2> QED BY <2>1, <2>2, StepSound
  <1>3. CASE ServerDecides(r)
    <2> DEFINE w(agrees) == IF p["server"].destroyed THEN Silent(State, r) ELSE PunchBack(State, r, agrees)
    <2>1. PICK agrees \in {TRUE, ~ plan.faults} : Becomes(w(agrees))
      BY <1>3 DEF ServerDecides
    <2>2. UNCHANGED plan
      BY <1>3 DEF ServerDecides
    <2>3. Sound(w(agrees))
      BY <1>0, SilentSound, PunchBackSound
    <2> HIDE DEF w
    <2> QED BY <2>1, <2>2, <2>3, StepSound
  <1>4. CASE ServerPunched(r)
    <2>1. Becomes(Punched(State, r)) /\ UNCHANGED plan
      BY <1>4 DEF ServerPunched
    <2> QED BY <1>0, <2>1, PunchedSound, StepSound
  <1> QED BY <1>1, <1>2, <1>3, <1>4

\* A node's budget changes with its count of other attempts.
LEMMA NodeKeeps ==
  ASSUME HInv, NEW s \in Side, NEW n \in Budget, node' = [node EXCEPT ![s] = n], UNCHANGED <<c, h, p, net>>, PlanInv',
         n.punches - n.others = node[s].punches - node[s].others, s = "server" => n.punches <= 1
  PROVE  HInv'
  <1>0. Sound(State) /\ State \in World /\ node \in [Side -> Budget]
    BY StateTypes
  <1> DEFINE v == State'
  <1>1. v.c = State.c /\ v.h = State.h /\ v.p = State.p /\ v.net = State.net /\ v.node = node'
    BY DEF State
  <1>2. v \in World
    <2>1. node' \in [Side -> Budget]
      BY <1>0
    <2> QED BY <1>0, <2>1 DEF State, World
  <1>3. node'[s] = n /\ \A t \in Side \ {s} : node'[t] = node[t]
    BY <1>0
  <1> HIDE DEF v
  <1>4. Counted(v)
    <2>1. /\ node["client"].punches \in Int /\ node["client"].others \in Int
          /\ node["server"].punches \in Int /\ node["server"].others \in Int
          /\ n.punches \in Int /\ n.others \in Int
      BY <1>0, SideElements DEF Budget
    <2>2. \A b : One(b) \in Int
      BY DEF One
    <2>3. /\ One(State.p["client"].randomized) \in Int /\ One(State.p["server"].randomized) \in Int
          /\ One(State.c.reserved) \in Int
      BY <2>2
    <2>4. Counted(State)
      BY <1>0 DEF Sound
    <2>5. CASE s = "client"
      <3>1. v.node["client"] = n /\ v.node["server"] = node["server"]
        BY <1>1, <1>3, <2>5, SideElements
      <3> QED BY <1>1, <2>1, <2>3, <2>4, <2>5, <3>1, StateIs DEF Counted
    <2>6. CASE s = "server"
      <3>1. v.node["server"] = n /\ v.node["client"] = node["client"]
        BY <1>1, <1>3, <2>6, SideElements
      <3> QED BY <1>1, <2>1, <2>3, <2>4, <2>6, <3>1, StateIs DEF Counted
    <2> QED BY <2>5, <2>6, SideElements
  <1>5. ClientInv(v)
    BY <1>0, <1>1 DEF Sound, ClientInv
  <1>6. Sound(v)
    BY <1>0, <1>1, <1>2, <1>4, <1>5, PunchersOf, SoundFrom
  <1> QED BY <1>6 DEF v, HInv

\* Another attempt of the node, and the interval between two of them.
LEMMA OthersKeep ==
  ASSUME HInv, NEW s \in Side, OtherPunches(s) \/ OtherEnds(s) \/ IntervalPasses(s)
  PROVE  HInv'
  <1>0. node[s] \in Budget /\ node \in [Side -> Budget] /\ plan \in PlanType /\ PlanInv
    BY StateTypes DEF HInv
  <1>1. node[s].punches \in Int /\ node[s].others \in Int
    BY <1>0 DEF Budget
  <1>2. s = "server" => node[s].punches <= 1
    BY StateTypes, StateIs DEF Sound, Counted
  <1>3. CASE OtherPunches(s)
    <2> DEFINE all == node[s].punches + 1
               rest == node[s].others + 1
               n == [node[s] EXCEPT !.punches = all, !.others = rest]
    <2>1. n \in Budget /\ n.punches = all /\ n.others = rest
      <3>1. all \in Int /\ rest \in Int
        BY <1>1
      <3> HIDE DEF all, rest
      <3> QED BY <1>0, <3>1 DEF Budget
    <2>2. node' = [node EXCEPT ![s] = n] /\ UNCHANGED <<c, h, p, net>>
      BY <1>3, Zenon DEF OtherPunches
    <2>3. node[s].punches <= 0
      BY <1>1, <1>3 DEF OtherPunches, Busy
    <2>4. PlanInv'
      <3> DEFINE less == plan.others[s] - 1
                 left == [plan.others EXCEPT ![s] = less]
      <3>1. plan' = [plan EXCEPT !.others = left] /\ plan.others[s] > 0
        BY <1>3 DEF OtherPunches
      <3>2. less \in Nat
        BY <1>0, <3>1 DEF PlanType
      <3> HIDE DEF less
      <3>3. left \in [Side -> Nat]
        BY <1>0, <3>2 DEF PlanType
      <3> HIDE DEF left
      <3>4. plan' \in PlanType /\ plan'.nat = plan.nat
        BY <1>0, <3>1, <3>3 DEF PlanType
      <3> QED BY <1>0, <3>4 DEF PlanInv
    <2> HIDE DEF n
    <2>5. n.punches - n.others = node[s].punches - node[s].others /\ n.punches <= 1
      BY <1>1, <2>1, <2>3
    <2> QED BY <2>1, <2>2, <2>4, <2>5, NodeKeeps
  <1>4. CASE OtherEnds(s)
    <2> DEFINE e == PunchEnds(node[s])
               n == [e EXCEPT !.others = e.others - 1]
    <2>1. e \in Budget /\ e.punches = node[s].punches - 1 /\ e.others = node[s].others
      BY <1>0, PunchEndsType
    <2>2. node' = [node EXCEPT ![s] = n] /\ UNCHANGED <<plan, c, h, p, net>>
      BY <1>4, Zenon DEF OtherEnds
    <2> HIDE DEF e
    <2>3. n \in Budget /\ n.punches = e.punches /\ n.others = e.others - 1
      BY <2>1 DEF Budget
    <2>4. PlanInv'
      BY <1>0, <2>2 DEF PlanInv
    <2> HIDE DEF n
    <2>5. n.punches - n.others = node[s].punches - node[s].others /\ (s = "server" => n.punches <= 1)
      BY <1>1, <1>2, <2>1, <2>3
    <2> QED BY <2>2, <2>3, <2>4, <2>5, NodeKeeps
  <1>5. CASE IntervalPasses(s)
    <2> DEFINE n == [node[s] EXCEPT !.recent = FALSE]
    <2>1. n \in Budget /\ n.punches = node[s].punches /\ n.others = node[s].others
      BY <1>0 DEF Budget
    <2>2. node' = [node EXCEPT ![s] = n] /\ UNCHANGED <<plan, c, h, p, net>>
      BY <1>5, Zenon DEF IntervalPasses
    <2>3. PlanInv'
      BY <1>0, <2>2 DEF PlanInv
    <2> HIDE DEF n
    <2> QED BY <1>2, <2>1, <2>2, <2>3, NodeKeeps
  <1> QED BY <1>3, <1>4, <1>5

\* A puncher changes by itself, and neither ends nor begins to punch.
LEMMA PuncherKeeps ==
  ASSUME HInv, NEW s \in Side, NEW q, SamePunch(q, p[s]), p' = [p EXCEPT ![s] = q],
         UNCHANGED <<c, h, node, net>>, PlanInv'
  PROVE  HInv'
  <1>0. Sound(State) /\ State \in World /\ p \in [Side -> Puncher]
    BY StateTypes
  <1> DEFINE v == State'
  <1>1. v.c = State.c /\ v.h = State.h /\ v.node = State.node /\ v.net = State.net /\ v.p = p'
    BY DEF State
  <1>2. v \in World
    <2>1. p' \in [Side -> Puncher]
      BY <1>0 DEF SamePunch
    <2> QED BY <1>0, <2>1 DEF State, World
  <1>3. p'[s] = q /\ \A t \in Side \ {s} : p'[t] = p[t]
    BY <1>0
  <1> HIDE DEF v
  <1>4. SamePunch(v.p["client"], State.p["client"]) /\ SamePunch(v.p["server"], State.p["server"])
    BY <1>0, <1>1, <1>3, StateIs, SideElements, SameAsItself
  <1>5. Sound(v)
    BY <1>0, <1>1, <1>2, <1>4, Framed
  <1> QED BY <1>5 DEF v, HInv

\* A ping of autoSample is answered or lost.
LEMMA PingKeeps == ASSUME HInv, NEW s \in Side, Ping(s) PROVE HInv'
  <1>0. p[s] \in Puncher /\ p[s].nat \in NatType /\ plan \in PlanType /\ PlanInv /\ p[s].nat.pending > 0
    BY StateTypes DEF Puncher, HInv, Ping
  <1>1. ASSUME NEW nat \in NatType, p' = [p EXCEPT ![s].nat = nat], UNCHANGED <<c, h, node, net>>, PlanInv'
        PROVE  HInv'
    <2> DEFINE q == [p[s] EXCEPT !.nat = nat]
    <2>1. p' = [p EXCEPT ![s] = q]
      BY <1>1, Zenon
    <2>2. SamePunch(q, p[s])
      BY <1>0, NatSame
    <2> HIDE DEF q
    <2> QED BY <1>1, <2>1, <2>2, PuncherKeeps
  <1>2. PICK more \in BOOLEAN :
          \/ p' = [p EXCEPT ![s].nat = Skip(Add(p[s].nat), more)] /\ UNCHANGED plan
          \/ /\ plan.losses > 0 /\ plan' = [plan EXCEPT !.losses = @ - 1]
             /\ p' = [p EXCEPT ![s].nat = Skip(p[s].nat, more)]
    BY DEF Ping
  <1>3. UNCHANGED <<c, h, node, net>>
    BY DEF Ping
  <1>4. CASE p' = [p EXCEPT ![s].nat = Skip(Add(p[s].nat), more)] /\ UNCHANGED plan
    <2> DEFINE nat == Skip(Add(p[s].nat), more)
    <2>1. Add(p[s].nat) \in NatType /\ Add(p[s].nat).pending = p[s].nat.pending
      BY <1>0, AddType DEF Add, NatType
    <2>2. nat \in NatType
      BY <1>0, <2>1, SkipType
    <2>3. PlanInv'
      BY <1>0, <1>4 DEF PlanInv
    <2>4. p' = [p EXCEPT ![s].nat = nat]
      BY <1>4
    <2> HIDE DEF nat
    <2> QED BY <1>1, <1>3, <2>2, <2>3, <2>4
  <1>5. CASE /\ plan.losses > 0 /\ plan' = [plan EXCEPT !.losses = @ - 1]
             /\ p' = [p EXCEPT ![s].nat = Skip(p[s].nat, more)]
    <2> DEFINE nat == Skip(p[s].nat, more)
               less == plan.losses - 1
    <2>1. nat \in NatType
      BY <1>0, SkipType
    <2>2. PlanInv'
      <3>1. plan' = [plan EXCEPT !.losses = less] /\ less \in Nat
        BY <1>0, <1>5 DEF PlanType
      <3> HIDE DEF less
      <3>2. plan' \in PlanType /\ plan'.nat = plan.nat
        BY <1>0, <3>1 DEF PlanType
      <3> QED BY <1>0, <3>2 DEF PlanInv
    <2>3. p' = [p EXCEPT ![s].nat = nat]
      BY <1>5
    <2> HIDE DEF nat
    <2> QED BY <1>1, <1>3, <2>1, <2>2, <2>3
  <1> QED BY <1>2, <1>4, <1>5

\* _openBirthdaySockets takes a socket only while the puncher punches.
LEMMA OpenBirthdayKeeps == ASSUME HInv, NEW s \in Side, OpenBirthday(s) PROVE HInv'
  <1>0. p[s] \in Puncher /\ Sound(State) /\ State \in World /\ p \in [Side -> Puncher] /\ PuncherInv(p[s]) /\ PlanInv
    BY StateTypes, PunchersOf, StateIs, SideElements DEF HInv
  <1> DEFINE q == p'[s]
             more == p[s].holders + 1
             v == State'
  <1>1. p[s].punched = "opening" /\ UNCHANGED <<plan, c, h, node, net>>
    BY DEF OpenBirthday
  <1>2. /\ \/ p[s].punching /\ q = [p[s] EXCEPT !.holders = more]
           \/ q = [p[s] EXCEPT !.punched = "started"]
        /\ \A t \in Side \ {s} : p'[t] = p[t]
        /\ DOMAIN p' = Side
    <2>1. CASE p[s].punching /\ p[s].holders < Birthday
      <3> DEFINE x == [p[s] EXCEPT !.holders = more]
      <3>1. p' = [p EXCEPT ![s] = x]
        BY <2>1, Zenon DEF OpenBirthday
      <3> HIDE DEF x
      <3>2. q = x
        BY <1>0, <3>1
      <3> QED BY <1>0, <2>1, <3>1, <3>2 DEF x
    <2>2. CASE ~ (p[s].punching /\ p[s].holders < Birthday)
      <3> DEFINE x == [p[s] EXCEPT !.punched = "started"]
      <3>1. p' = [p EXCEPT ![s] = x]
        BY <2>2, Zenon DEF OpenBirthday
      <3> HIDE DEF x
      <3>2. q = x
        BY <1>0, <3>1
      <3> QED BY <1>0, <2>2, <3>1, <3>2 DEF x
    <2> QED BY <2>1, <2>2
  <1>3. more \in Nat
    BY <1>0 DEF Puncher
  <1> HIDE DEF more, q
  <1>4. /\ q \in Puncher /\ q.randomized = p[s].randomized /\ q.destroyed = p[s].destroyed
        /\ q.connected = p[s].connected /\ q.mode = p[s].mode /\ q.punching = p[s].punching
        /\ \/ p[s].punching /\ q.punched = p[s].punched
           \/ q.holders = p[s].holders /\ q.punched = "started"
    BY <1>0, <1>2, <1>3 DEF Puncher
  <1>5. PuncherInv(q)
    BY <1>0, <1>1, <1>4 DEF PuncherInv, Done
  <1>6. v.c = State.c /\ v.h = State.h /\ v.node = State.node /\ v.net = State.net /\ v.p = p'
    BY <1>1 DEF State
  <1>7. v \in World
    <2>1. p' = [t \in Side |-> p'[t]]
      BY <1>0 DEF OpenBirthday
    <2>2. \A t \in Side : p'[t] \in Puncher
      BY <1>0, <1>2, <1>4 DEF q
    <2>3. p' \in [Side -> Puncher]
      BY <2>1, <2>2
    <2> QED BY <1>0, <1>1, <2>3 DEF State, World
  <1> HIDE DEF v
  <1>8. /\ PuncherInv(v.p["client"]) /\ PuncherInv(v.p["server"])
        /\ \A t \in Side : /\ v.p[t].randomized = State.p[t].randomized /\ v.p[t].destroyed = State.p[t].destroyed
                           /\ v.p[t].connected = State.p[t].connected /\ v.p[t].mode = State.p[t].mode
    <2>1. \A t \in Side : v.p[t] = IF t = s THEN q ELSE p[t]
      BY <1>2, <1>6 DEF q
    <2> QED BY <1>0, <1>4, <1>5, <2>1, PunchersOf, StateIs, SideElements
  <1>9. Counted(v) /\ ClientInv(v)
    BY <1>0, <1>6, <1>8, SideElements DEF Sound, Counted, ClientInv
  <1>10. Sound(v) /\ PlanInv'
    BY <1>0, <1>1, <1>7, <1>8, <1>9, SoundFrom DEF PlanInv
  <1> QED BY <1>10 DEF v, HInv

\* Every step keeps the invariant.
LEMMA HInvNext == HInv /\ [Next]_vars => HInv'
  <1> SUFFICES ASSUME HInv, [Next]_vars PROVE HInv'
    OBVIOUS
  <1>1. CASE ClientProbes \/ ClientReply \/ RequestFails \/ ClientAnalyzed \/ ClientReopened \/ ClientWakes \/ ClientOpened
    BY <1>1, ClientProbesKeeps, ClientReplyKeeps, RequestFailsKeeps, ClientAnalyzedKeeps, ClientReopenedKeeps,
       ClientWakesKeeps, ClientOpenedKeeps
  <1>2. CASE ClientHears \/ DirectTraffic \/ RelayPairs \/ RelayFails \/ SocketCloses
    BY <1>2, ClientHearsKeeps, DirectTrafficKeeps, RelayPairsKeeps, RelayFailsKeeps, SocketClosesKeeps
  <1>3. CASE Deliver \/ ServerDone \/ ServerRelayFails
    BY <1>3, DeliverKeeps, ServerDoneKeeps, ServerRelayFailsKeeps
  <1>4. CASE \E r \in h.handlers : ServerAnalyzed(r) \/ ServerReopened(r) \/ ServerDecides(r) \/ ServerPunched(r)
    BY <1>4, HandlerKeeps
  <1>5. ASSUME NEW s \in Side, Reopens(s) PROVE HInv'
    <2>1. Becomes(ReopenSide(State, s)) /\ UNCHANGED plan
      BY <1>5 DEF Reopens
    <2>2. Sound(ReopenSide(State, s))
      BY StateTypes, ReopenSideSound DEF HInv
    <2> QED BY <2>1, <2>2, StepSound
  <1>6. ASSUME NEW s \in Side, GiveUpPunching(s) PROVE HInv'
    <2>1. Becomes(DestroyPuncher(State, s)) /\ UNCHANGED plan
      BY <1>6 DEF GiveUpPunching
    <2>2. Sound(DestroyPuncher(State, s))
      BY StateTypes, DestroySound
    <2> QED BY <2>1, <2>2, StepSound
  <1>7. CASE \E s \in Side : \/ Ping(s) \/ Reopens(s) \/ OpenBirthday(s) \/ GiveUpPunching(s)
                             \/ OtherPunches(s) \/ OtherEnds(s) \/ IntervalPasses(s)
    BY <1>5, <1>6, <1>7, PingKeeps, OpenBirthdayKeeps, OthersKeep
  <1>8. CASE UNCHANGED vars
    <2>1. State' = State /\ plan' = plan
      BY <1>8, Zenon DEF vars, State
    <2> QED BY <2>1 DEF HInv, PlanInv
  <1> QED BY <1>1, <1>2, <1>3, <1>4, <1>7, <1>8 DEF Next

\* The invariant holds in every state of every behaviour.
LEMMA Always == Spec => []HInv
  BY HInvInit, HInvNext, PTL DEF Spec

\* No puncher that has ended holds a socket it would have to give back.
THEOREM SocketsReleasedHolds == Spec => []SocketsReleased
  <1>1. HInv => SocketsReleased
    BY PunchersOf, StateIs, SideElements DEF HInv, PuncherInv, SocketsReleased
  <1> QED BY <1>1, Always, PTL

\* When the rounds are over, something will settle the caller's socket.
THEOREM NothingInLimboHolds == Spec => []NothingInLimbo
  <1>1. HInv => NothingInLimbo
    BY StateIs DEF HInv, Sound, ClientInv, NothingInLimbo
  <1> QED BY <1>1, Always, PTL

\* ------------------------------------------- what a NAT keeps once it is found

\* The order of the numbers, as a well-founded relation.
LEMMA Less == \E R : IsWellFoundedOn(R, Nat) /\ \A i, j \in Nat : <<i, j>> \in R <=> i < j
  <1>1. IsWellFoundedOn(OpToRel(<, Nat), Nat)
    BY NatLessThanWellFounded
  <1>2. \A i, j \in Nat : <<i, j>> \in OpToRel(<, Nat) <=> i < j
    BY DEF OpToRel
  <1> QED BY <1>1, <1>2, Zenon

\* A set of numbers that is not empty has a least element.
LEMMA Least ==
  ASSUME NEW B \in SUBSET Nat, B # {}
  PROVE  \E x \in B : \A y \in B : x <= y
  <1>1. PICK R : IsWellFoundedOn(R, Nat) /\ \A i, j \in Nat : <<i, j>> \in R <=> i < j
    BY Less
  <1>2. B \subseteq Nat
    OBVIOUS
  <1>3. PICK x \in B : \A y \in B : ~ (<<y, x>> \in R)
    <2>1. IsWellFoundedOn(R, Nat) /\ B # {}
      BY <1>1
    <2>2. \A T : T \subseteq Nat /\ T # {} => \E x \in T : \A y \in T : ~ (<<y, x>> \in R)
      BY <2>1, WFMin
    <2> QED BY <1>2, <2>1, <2>2
  <1>4. \A y \in B : ~ (y < x)
    BY <1>1, <1>2, <1>3
  <1> QED BY <1>2, <1>4

\* A bounded set of numbers that is not empty has a greatest element.
LEMMA Greatest ==
  ASSUME NEW n \in Nat, NEW B \in SUBSET (0 .. n), B # {}
  PROVE  \E x \in B : \A y \in B : y <= x
  <1> DEFINE C == {m \in Nat : \A y \in B : y <= m}
  <1>1. n \in C /\ C \in SUBSET Nat
    OBVIOUS
  <1>2. PICK m \in C : \A k \in C : m <= k
    BY <1>1, Least
  <1>3. m \in B
    <2>1. SUFFICES ASSUME m \notin B PROVE FALSE
      OBVIOUS
    <2>2. \A y \in B : y <= m /\ y # m /\ y \in Nat
      BY <2>1
    <2>3. PICK b \in B : TRUE
      OBVIOUS
    <2>4. m >= 1 /\ m \in Nat
      BY <2>2, <2>3
    <2>5. m - 1 \in Nat /\ \A y \in B : y <= m - 1
      BY <2>2, <2>4
    <2>6. m - 1 \in C
      BY <2>5
    <2> QED BY <1>2, <2>6
  <1> QED BY <1>3

\* The most of some bounded numbers is one of them.
LEMMA MaxIs ==
  ASSUME NEW n \in Nat, NEW B \in SUBSET (0 .. n), B # {}
  PROVE  Max(B) \in B /\ \A y \in B : y <= Max(B)
  <1>1. \E x \in B : \A y \in B : x >= y
    <2>1. PICK x \in B : \A y \in B : y <= x
      BY Greatest
    <2>2. \A y \in B : x >= y
      BY <2>1
    <2> QED BY <2>2
  <1>2. Max(B) \in B /\ \A y \in B : Max(B) >= y
    BY <1>1, Zenon DEF Max
  <1> QED BY <1>2

\* The samples a NAT has seen.
Seen(nat) == SubSeq(nat.samples, 1, nat.sampled)

\* The hits of an address: no more than there are samples.
LEMMA HitsIs ==
  ASSUME NEW seen, NEW n \in Nat, DOMAIN seen = 1 .. n, NEW a
  PROVE  /\ Hits(seen, a) \in 0 .. n
         /\ \A i \in 1 .. n : Hits(seen, seen[i]) >= 1
  <1> DEFINE H(b) == {i \in 1 .. n : seen[i] = b}
  <1>1. IsFiniteSet(1 .. n) /\ Cardinality(1 .. n) = n
    BY FS_Interval
  <1>2. \A b : IsFiniteSet(H(b)) /\ Cardinality(H(b)) \in Nat /\ Cardinality(H(b)) <= n
    <2> TAKE b
    <2>1. H(b) \subseteq 1 .. n
      OBVIOUS
    <2> HIDE DEF H
    <2> QED BY <1>1, <2>1, FS_Subset, FS_CardinalityType
  <1>3. \A b : Hits(seen, b) = Cardinality(H(b))
    BY DEF Hits
  <1>4. ASSUME NEW i \in 1 .. n PROVE Cardinality(H(seen[i])) >= 1
    <2>1. i \in H(seen[i])
      OBVIOUS
    <2>2. Cardinality(H(seen[i])) # 0
      <3> HIDE DEF H
      <3> QED BY <1>2, <2>1, FS_EmptySet
    <2> HIDE DEF H
    <2> QED BY <1>2, <2>2
  <1> HIDE DEF H
  <1> QED BY <1>2, <1>3, <1>4

\* They are no fewer with more samples.
LEMMA HitsGrow ==
  ASSUME NEW seen, NEW more, NEW n \in Nat, NEW m \in Nat, n <= m, DOMAIN seen = 1 .. n, DOMAIN more = 1 .. m,
         \A i \in 1 .. n : more[i] = seen[i], NEW a
  PROVE  Hits(seen, a) <= Hits(more, a)
  <1> DEFINE H == {i \in 1 .. n : seen[i] = a}
             G == {i \in 1 .. m : more[i] = a}
  <1>1. H \subseteq G /\ G \subseteq 1 .. m
    OBVIOUS
  <1>2. Hits(seen, a) = Cardinality(H)
    BY DEF Hits
  <1>3. Hits(more, a) = Cardinality(G)
    BY DEF Hits
  <1> HIDE DEF H, G
  <1>4. IsFiniteSet(G)
    <2>1. IsFiniteSet(1 .. m)
      BY FS_Interval
    <2> QED BY <1>1, <2>1, FS_Subset
  <1>5. Cardinality(H) <= Cardinality(G)
    BY <1>1, <1>4, FS_Subset
  <1> QED BY <1>2, <1>3, <1>5

\* More samples show no fewer hosts.
LEMMA HostsGrow ==
  ASSUME NEW seen, NEW more, NEW n \in Nat, NEW m \in Nat, n <= m, DOMAIN seen = 1 .. n, DOMAIN more = 1 .. m,
         \A i \in 1 .. n : more[i] = seen[i]
  PROVE  Hosts(seen) <= Hosts(more) /\ Hosts(seen) \in Nat /\ Hosts(more) \in Nat
  <1> DEFINE H == {seen[i][1] : i \in 1 .. n}
             G == {more[i][1] : i \in 1 .. m}
             g == [i \in 1 .. m |-> more[i][1]]
  <1>1. H \subseteq G
    OBVIOUS
  <1>2. Hosts(seen) = Cardinality(H) /\ Hosts(more) = Cardinality(G)
    BY DEF Hosts
  <1>3. IsFiniteSet(G)
    <2>1. g \in Surjection(1 .. m, G)
      BY DEF Surjection
    <2> HIDE DEF g, G
    <2> QED BY <2>1, FS_Interval, FS_Surjection
  <1> HIDE DEF H, G
  <1>4. IsFiniteSet(H)
    BY <1>1, <1>3, FS_Subset
  <1> QED BY <1>1, <1>2, <1>3, <1>4, FS_Subset, FS_CardinalityType

\* The samples show that the NAT keeps its addresses: one was seen three times, or
\* two of them twice by different hosts.
Evidence(seen) ==
    \/ \E i \in DOMAIN seen : Hits(seen, seen[i]) >= 3
    \/ /\ Hosts(seen) > 1
       /\ \E i, j \in DOMAIN seen : seen[i] # seen[j] /\ Hits(seen, seen[i]) >= 2 /\ Hits(seen, seen[j]) >= 2

\* Later samples do not take the evidence away.
LEMMA EvidenceGrows ==
  ASSUME NEW seen, NEW more, NEW n \in Nat, NEW m \in Nat, n <= m, DOMAIN seen = 1 .. n, DOMAIN more = 1 .. m,
         \A i \in 1 .. n : more[i] = seen[i], Evidence(seen)
  PROVE  Evidence(more)
  <1>1. ASSUME NEW i \in 1 .. n
        PROVE  /\ i \in 1 .. m /\ more[i] = seen[i]
               /\ Hits(seen, seen[i]) \in Nat /\ Hits(more, more[i]) \in Nat
               /\ Hits(seen, seen[i]) <= Hits(more, more[i])
    <2>1. i \in 1 .. m /\ more[i] = seen[i]
      OBVIOUS
    <2>2. Hits(seen, seen[i]) \in 0 .. n /\ Hits(more, seen[i]) \in 0 .. m
      BY HitsIs
    <2>3. Hits(seen, seen[i]) <= Hits(more, seen[i])
      BY HitsGrow
    <2> QED BY <2>1, <2>2, <2>3
  <1>2. Hosts(seen) <= Hosts(more) /\ Hosts(seen) \in Nat /\ Hosts(more) \in Nat
    BY HostsGrow
  <1>3. CASE \E i \in 1 .. n : Hits(seen, seen[i]) >= 3
    <2>1. PICK i \in 1 .. n : Hits(seen, seen[i]) >= 3
      BY <1>3
    <2>2. i \in 1 .. m /\ Hits(more, more[i]) >= 3
      BY <1>1, <2>1
    <2> QED BY <2>2 DEF Evidence
  <1>4. CASE /\ Hosts(seen) > 1
             /\ \E i, j \in 1 .. n : seen[i] # seen[j] /\ Hits(seen, seen[i]) >= 2 /\ Hits(seen, seen[j]) >= 2
    <2>1. PICK i \in 1 .. n, j \in 1 .. n :
             seen[i] # seen[j] /\ Hits(seen, seen[i]) >= 2 /\ Hits(seen, seen[j]) >= 2
      BY <1>4
    <2>2. i \in 1 .. m /\ Hits(more, more[i]) >= 2 /\ more[i] = seen[i]
      BY <1>1, <2>1
    <2>3. j \in 1 .. m /\ Hits(more, more[j]) >= 2 /\ more[j] = seen[j]
      BY <1>1, <2>1
    <2>4. Hosts(more) > 1
      BY <1>2, <1>4
    <2> QED BY <2>1, <2>2, <2>3, <2>4 DEF Evidence
  <1> QED BY <1>3, <1>4 DEF Evidence

\* The most hits are those of one of the samples.
LEMMA TopIs ==
  ASSUME NEW seen, NEW n \in Nat \ {0}, DOMAIN seen = 1 .. n
  PROVE  /\ Top(seen) \in Nat /\ \E i \in 1 .. n : Hits(seen, seen[i]) = Top(seen)
         /\ \A i \in 1 .. n : Hits(seen, seen[i]) <= Top(seen)
  <1> DEFINE B == {Hits(seen, seen[i]) : i \in 1 .. n}
  <1>1. \A a : Hits(seen, a) \in 0 .. n
    BY HitsIs
  <1>2. B \in SUBSET (0 .. n) /\ B # {} /\ 1 \in 1 .. n
    BY <1>1
  <1>3. \A i \in 1 .. n : Hits(seen, seen[i]) \in B
    OBVIOUS
  <1>4. \A b \in B : b \in Nat /\ \E i \in 1 .. n : Hits(seen, seen[i]) = b
    BY <1>1
  <1>5. Top(seen) = Max(B)
    BY DEF Top
  <1> HIDE DEF B
  <1>6. Max(B) \in B /\ \A y \in B : y <= Max(B)
    BY <1>2, MaxIs
  <1> QED BY <1>3, <1>4, <1>5, <1>6

\* The second most hits are those of another address.
LEMMA SecondIs ==
  ASSUME NEW seen, NEW n \in Nat \ {0}, DOMAIN seen = 1 .. n
  PROVE  \E i \in 1 .. n :
           /\ Hits(seen, seen[i]) = Top(seen) /\ Second(seen) \in Nat
           /\ \A j \in 1 .. n : seen[j] # seen[i] => Hits(seen, seen[j]) <= Second(seen)
           /\ Second(seen) # 0 => \E j \in 1 .. n : seen[j] # seen[i] /\ Hits(seen, seen[j]) = Second(seen)
  <1> DEFINE best == CHOOSE i \in 1 .. n : Hits(seen, seen[i]) = Top(seen)
             rest == {j \in 1 .. n : seen[j] # seen[best]}
             B == {Hits(seen, seen[j]) : j \in rest}
  <1>1. \A a : Hits(seen, a) \in 0 .. n
    BY HitsIs
  <1>2. best \in 1 .. n /\ Hits(seen, seen[best]) = Top(seen)
    BY TopIs, Zenon
  <1>3. Second(seen) = IF rest = {} THEN 0 ELSE Max(B)
    BY DEF Second
  <1> HIDE DEF best
  <1>4. \A j \in 1 .. n : j \in rest <=> seen[j] # seen[best]
    OBVIOUS
  <1>5. rest \subseteq 1 .. n
    OBVIOUS
  <1> HIDE DEF rest
  <1>6. CASE rest = {}
    BY <1>2, <1>3, <1>4, <1>6
  <1>7. CASE rest # {}
    <2>1. B \in SUBSET (0 .. n) /\ B # {}
      BY <1>1, <1>7
    <2>2. \A j \in rest : Hits(seen, seen[j]) \in B
      OBVIOUS
    <2>3. \A b \in B : b \in Nat /\ \E j \in rest : Hits(seen, seen[j]) = b
      BY <1>1
    <2> HIDE DEF B
    <2>4. Max(B) \in B /\ \A y \in B : y <= Max(B)
      BY <2>1, MaxIs
    <2> QED BY <1>2, <1>3, <1>4, <1>5, <1>7, <2>2, <2>3, <2>4
  <1> QED BY <1>6, <1>7

\* _updateFirewall finds a NAT consistent when there is evidence, and otherwise only
\* if it was found so before.
LEMMA FirewallIs ==
  ASSUME NEW seen, NEW n \in Nat, n >= 3, DOMAIN seen = 1 .. n, Len(seen) = n, NEW was \in Kinds
  PROVE  /\ Evidence(seen) => Firewall(seen, was) = CONSISTENT
         /\ Firewall(seen, was) = CONSISTENT => Evidence(seen) \/ was = CONSISTENT
         /\ was # UNKNOWN => Firewall(seen, was) # UNKNOWN
  <1>1. /\ Top(seen) \in Nat /\ \E i \in 1 .. n : Hits(seen, seen[i]) = Top(seen)
        /\ \A i \in 1 .. n : Hits(seen, seen[i]) <= Top(seen)
    BY TopIs
  <1>2. PICK b \in 1 .. n :
           /\ Hits(seen, seen[b]) = Top(seen) /\ Second(seen) \in Nat
           /\ \A j \in 1 .. n : seen[j] # seen[b] => Hits(seen, seen[j]) <= Second(seen)
           /\ Second(seen) # 0 => \E j \in 1 .. n : seen[j] # seen[b] /\ Hits(seen, seen[j]) = Second(seen)
    BY SecondIs
  <1>3. Hosts(seen) \in Nat
    BY HostsGrow
  <1>4. \A i \in 1 .. n : Hits(seen, seen[i]) \in Nat
    BY HitsIs
  <1>5. ASSUME Evidence(seen) PROVE Top(seen) >= 3 \/ (Hosts(seen) > 1 /\ Top(seen) = 2 /\ Second(seen) > 1)
    <2>1. CASE \E i \in 1 .. n : Hits(seen, seen[i]) >= 3
      BY <1>1, <1>4, <2>1
    <2>2. CASE /\ Hosts(seen) > 1
               /\ \E i, j \in 1 .. n : seen[i] # seen[j] /\ Hits(seen, seen[i]) >= 2 /\ Hits(seen, seen[j]) >= 2
      <3>1. PICK i \in 1 .. n, j \in 1 .. n :
               seen[i] # seen[j] /\ Hits(seen, seen[i]) >= 2 /\ Hits(seen, seen[j]) >= 2
        BY <2>2
      <3>2. Top(seen) >= 2
        BY <1>1, <1>4, <3>1
      <3>3. Second(seen) > 1
        <4>1. CASE seen[i] # seen[b]
          BY <1>2, <1>4, <3>1, <4>1
        <4>2. CASE seen[j] # seen[b]
          BY <1>2, <1>4, <3>1, <4>2
        <4> QED BY <3>1, <4>1, <4>2
      <3> QED BY <1>1, <2>2, <3>2, <3>3
    <2> QED BY <1>5, <2>1, <2>2 DEF Evidence
  <1>6. ASSUME Top(seen) >= 3 \/ (Hosts(seen) > 1 /\ Second(seen) > 1) PROVE Evidence(seen)
    <2>1. CASE Top(seen) >= 3
      BY <1>2, <2>1 DEF Evidence
    <2>2. CASE Hosts(seen) > 1 /\ Second(seen) > 1
      <3>1. PICK j \in 1 .. n : seen[j] # seen[b] /\ Hits(seen, seen[j]) = Second(seen)
        BY <1>2, <2>2
      <3>2. Hits(seen, seen[j]) >= 2 /\ Hits(seen, seen[b]) >= 2
        BY <1>1, <1>2, <2>2, <3>1
      <3> QED BY <2>2, <3>1, <3>2 DEF Evidence
    <2> QED BY <1>6, <2>1, <2>2
  <1>7. Evidence(seen) => Firewall(seen, was) = CONSISTENT
    BY <1>1, <1>3, <1>5 DEF Firewall
  <1>8. Firewall(seen, was) = CONSISTENT => Evidence(seen) \/ was = CONSISTENT
    BY <1>1, <1>3, <1>6 DEF Firewall, CONSISTENT, RANDOM
  <1>9. was # UNKNOWN => Firewall(seen, was) # UNKNOWN
    BY DEF Firewall, CONSISTENT, RANDOM, UNKNOWN
  <1> QED BY <1>7, <1>8, <1>9

\* A NAT that was found consistent was so for good reason.
Evident(nat) == nat.firewall = CONSISTENT => nat.sampled >= 3 /\ Evidence(Seen(nat))

\* What samples do to a NAT: nothing once it was told, and nothing is forgotten.
Grown(t, nat) ==
    /\ t.frozen = nat.frozen
    /\ nat.frozen => t.firewall = nat.firewall
    /\ nat.firewall = CONSISTENT => t.firewall = CONSISTENT
    /\ nat.firewall # UNKNOWN => t.firewall # UNKNOWN
    /\ Evident(t)

\* The samples seen are the first ones.
LEMMA SeenIs ==
  ASSUME NEW nat \in NatType, NEW n \in Nat
  PROVE  /\ DOMAIN SubSeq(nat.samples, 1, n) = 1 .. n /\ Len(SubSeq(nat.samples, 1, n)) = n
         /\ \A i \in 1 .. n : SubSeq(nat.samples, 1, n)[i] = nat.samples[i]
  <1>1. nat.samples \in Seq(Nat \X Nat)
    BY DEF NatType, Samples
  <1> QED BY <1>1

\* A sample.
LEMMA AddGrows ==
  ASSUME NEW nat \in NatType, Evident(nat)
  PROVE  Grown(Add(nat), nat)
  <1> DEFINE n == nat.sampled + 1
             was == Seen(nat)
             now == SubSeq(nat.samples, 1, n)
             fw == IF n >= 3 /\ ~ nat.frozen THEN Firewall(now, nat.firewall) ELSE nat.firewall
             res == nat.resolved \/ fw = CONSISTENT \/ n >= MinSamples
  <1>1. Add(nat) = [nat EXCEPT !.sampled = n, !.firewall = fw, !.resolved = res]
    BY Zenon DEF Add
  <1>2. /\ nat.sampled \in Nat /\ n \in Nat /\ nat.sampled <= n /\ nat.firewall \in Kinds
        /\ nat.sampled >= 3 => n >= 3
    BY DEF NatType
  <1>3. /\ DOMAIN was = 1 .. nat.sampled /\ DOMAIN now = 1 .. n /\ Len(now) = n
        /\ \A i \in 1 .. nat.sampled : now[i] = was[i]
    <2>1. /\ DOMAIN was = 1 .. nat.sampled
          /\ \A i \in 1 .. nat.sampled : was[i] = nat.samples[i]
      BY <1>2, SeenIs DEF Seen
    <2>2. /\ DOMAIN now = 1 .. n /\ Len(now) = n
          /\ \A i \in 1 .. n : now[i] = nat.samples[i]
      BY <1>2, SeenIs
    <2> HIDE DEF was, now
    <2> QED BY <1>2, <2>1, <2>2
  <1>4. nat.firewall = CONSISTENT => n >= 3 /\ Evidence(now)
    <2> HIDE DEF was, now, n
    <2>1. Evidence(was) => Evidence(now)
      BY <1>2, <1>3, EvidenceGrows
    <2> QED BY <1>2, <2>1 DEF Evident, was
  <1>5. /\ nat.frozen => fw = nat.firewall
        /\ nat.firewall = CONSISTENT => fw = CONSISTENT
        /\ nat.firewall # UNKNOWN => fw # UNKNOWN
        /\ fw = CONSISTENT => n >= 3 /\ Evidence(now)
    <2> HIDE DEF now, n
    <2>1. n >= 3 => /\ Evidence(now) => Firewall(now, nat.firewall) = CONSISTENT
                    /\ Firewall(now, nat.firewall) = CONSISTENT => Evidence(now) \/ nat.firewall = CONSISTENT
                    /\ nat.firewall # UNKNOWN => Firewall(now, nat.firewall) # UNKNOWN
      BY <1>2, <1>3, FirewallIs
    <2> QED BY <1>4, <2>1
  <1>6. /\ Add(nat).frozen = nat.frozen /\ Add(nat).firewall = fw /\ Add(nat).sampled = n
        /\ Add(nat).samples = nat.samples
    <2> HIDE DEF n, fw, res
    <2> QED BY <1>1 DEF NatType
  <1>7. Seen(Add(nat)) = now
    BY <1>6 DEF Seen
  <1> HIDE DEF n, now, fw
  <1> QED BY <1>5, <1>6, <1>7 DEF Grown, Evident

\* A message of a relay, a lost ping and the answer of one.
LEMMA NatGrows ==
  ASSUME NEW nat \in NatType, Evident(nat)
  PROVE  /\ Grown(nat, nat) /\ Grown(AddRelay(nat), nat)
         /\ \A more \in BOOLEAN : Grown(Skip(nat, more), nat) /\ Grown(Skip(Add(nat), more), nat)
  <1>1. ASSUME NEW t \in NatType, Evident(t), NEW more \in BOOLEAN
        PROVE  Grown(Skip(t, more), t)
    <2>1. /\ Skip(t, more).firewall = t.firewall /\ Skip(t, more).frozen = t.frozen
          /\ Skip(t, more).samples = t.samples /\ Skip(t, more).sampled = t.sampled
      BY DEF Skip, NatType
    <2> QED BY <1>1, <2>1 DEF Grown, Evident, Seen
  <1>2. Grown(nat, nat)
    BY DEF Grown
  <1>3. Grown(AddRelay(nat), nat)
    <2> DEFINE t == [nat EXCEPT !.heard = TRUE]
    <2>1. t \in NatType /\ t.firewall = nat.firewall /\ t.frozen = nat.frozen /\ t.samples = nat.samples
          /\ t.sampled = nat.sampled
      BY DEF NatType
    <2>2. AddRelay(nat) \in {nat, Add(t)}
      BY DEF AddRelay
    <2> HIDE DEF t
    <2>3. Evident(t)
      BY <2>1 DEF Evident, Seen
    <2>4. Grown(Add(t), t)
      BY <2>1, <2>3, AddGrows
    <2> QED BY <1>2, <2>1, <2>2, <2>4 DEF Grown
  <1>4. ASSUME NEW more \in BOOLEAN PROVE Grown(Skip(Add(nat), more), nat)
    <2>1. Add(nat) \in NatType /\ Grown(Add(nat), nat)
      BY AddType, AddGrows
    <2>2. Grown(Skip(Add(nat), more), Add(nat))
      BY <1>1, <2>1 DEF Grown
    <2> QED BY <2>1, <2>2 DEF Grown
  <1> QED BY <1>1, <1>2, <1>3, <1>4

\* ------------------------------------------------------ what the peers agree on

Cl(w) == w.p["client"]
Sv(w) == w.p["server"]

\* The client has settled what it says of its NAT.
Fixed(w) == Cl(w).nat.frozen

\* Where the client is in its rounds before that, and after.
Early == {"open", "probe", "analyze", "reopen", "abort"}
Late == {"delay", "punch", "later"}

\* The requests that are under way or at the server.
Asked(w) == w.net.requests \cup {r.m : r \in w.h.handlers}

RandomPair(q) == RANDOM \in {q.nat.firewall, q.remoteFirewall}

Stage(w) ==
    /\ w.c.pc \in Late => Fixed(w) /\ (w.c.isRandom <=> RandomPair(Cl(w)))
    /\ Cl(w).reopening = "running" => w.c.pc = "reopen"
    /\ w.net.replies # {} => w.c.pc \in Awaiting

\* A round has one request.  Only a client that has settled asks for a delay or a
\* punch, and says what it settled.
Rounds(w) ==
    /\ w.h.round = 0 \/ w.h.round < w.c.round
    /\ \A m \in Asked(w) : m.round < w.c.round /\ (m.punching => m.kind = "punch")
    /\ \A m, n \in Asked(w) : m.round = n.round => m = n
    /\ \A m \in Asked(w) : m.kind \in {"delay", "punch"} => Fixed(w) /\ m.firewall = Cl(w).nat.firewall
    /\ \A m, n \in Asked(w) : m.kind = "probe" /\ n.kind \in {"delay", "punch"} => m.round < n.round

\* A handler has left the analysis behind it.
Past(r) == r.pc \in {"ping", "decide", "punch"}

\* A handler of the last round the server heard of goes past the analysis only if
\* the two NATs can be punched.
Handled(w) ==
    \A r \in w.h.handlers :
        /\ r.m.kind # "abort" /\ r.m.round <= w.h.round
        /\ r.m.round = w.h.round => Sv(w).remoteFirewall = r.m.firewall
        /\ r.m.round = w.h.round /\ Past(r) => ~ Unstable(Sv(w))

\* The server told fw of its own NAT: it keeps that, and if it is random nothing
\* that it still may hear makes the pair unstable.
Told(w, fw) ==
    fw # UNKNOWN =>
        /\ Sv(w).nat.frozen /\ Sv(w).nat.firewall = fw
        /\ fw = RANDOM => /\ Sv(w).remoteFirewall # RANDOM
                          /\ \A m \in w.net.requests : m.round >= w.h.round => m.firewall # RANDOM

\* What the client was told, and what it settled on.
Learned(w) ==
    /\ w.c.pc \in {"analyze", "reopen"} \/ Fixed(w) => Told(w, Cl(w).remoteFirewall)
    /\ \A m \in w.net.replies : m.error = "NONE" => Told(w, m.firewall)
    /\ Fixed(w) => /\ Cl(w).remoteFirewall # UNKNOWN /\ Cl(w).nat.firewall # UNKNOWN
                   /\ Cl(w).remoteFirewall # RANDOM \/ Cl(w).nat.firewall # RANDOM
                   /\ \A m \in w.net.replies : m.firewall = Cl(w).remoteFirewall

\* The server punches knowing what the client settled on.
Remote(w) ==
    /\ Sv(w).reopening = "stable" => Sv(w).nat.firewall = CONSISTENT
    /\ Sv(w).remoteHolepunching \/ Sv(w).mode # "none" =>
         /\ Fixed(w) /\ Sv(w).remoteFirewall = Cl(w).nat.firewall
         /\ \A m \in w.net.requests : m.kind = "probe" => m.round < w.h.round

\* How _punch sends, from what the two NATs are.
ModeOf(local, remote) ==
    IF local = CONSISTENT /\ remote = CONSISTENT THEN "consistent"
    ELSE IF local = CONSISTENT THEN "probes" ELSE "birthday"

ModeIs(q) == q.mode # "none" => q.mode = ModeOf(q.nat.firewall, q.remoteFirewall)

Modes(w) == ModeIs(Cl(w)) /\ ModeIs(Sv(w)) /\ (Cl(w).mode # "none" => Fixed(w))

Core(w) ==
    /\ Stage(w) /\ Rounds(w) /\ Handled(w) /\ Learned(w) /\ Remote(w) /\ Modes(w)
    /\ Evident(Cl(w).nat) /\ Evident(Sv(w).nat) /\ w.node["client"].punches <= 1

Agree(w) ==
    /\ w \in World /\ Core(w)
    /\ w.c.pc \in Early => ~ Fixed(w)
    /\ w.c.pc = "punch" => w.c.reserved = w.c.isRandom

\* The kinds of NATs are different.
LEMMA KindsAre ==
  /\ UNKNOWN # RANDOM /\ UNKNOWN # CONSISTENT /\ CONSISTENT # RANDOM
  /\ \A k \in Kinds : (k >= RANDOM <=> k = RANDOM) /\ (k = UNKNOWN \/ k = CONSISTENT \/ k = RANDOM)
  BY DEF Kinds, UNKNOWN, CONSISTENT, RANDOM

\* The fields of a puncher the argument is about.
LEMMA SidesAre ==
  ASSUME NEW w \in World
  PROVE  /\ Cl(w) \in Puncher /\ Sv(w) \in Puncher /\ Cl(w).nat \in NatType /\ Sv(w).nat \in NatType
         /\ Cl(w).nat.firewall \in Kinds /\ Sv(w).nat.firewall \in Kinds
         /\ Cl(w).remoteFirewall \in Kinds /\ Sv(w).remoteFirewall \in Kinds
         /\ Cl(w).nat.frozen \in BOOLEAN /\ Sv(w).nat.frozen \in BOOLEAN
         /\ w.c.round \in Nat /\ w.h.round \in Nat /\ w.c.isRandom \in BOOLEAN /\ w.c.reserved \in BOOLEAN
         /\ w.node["client"].punches \in Int
  <1>1. Cl(w) \in Puncher /\ Sv(w) \in Puncher /\ w.c \in Conn /\ w.h \in Shake /\ w.node["client"] \in Budget
    BY WorldSides DEF Cl, Sv
  <1>2. \A q \in Puncher : q.nat \in NatType /\ q.remoteFirewall \in Kinds
    BY DEF Puncher
  <1>3. \A nat \in NatType : nat.firewall \in Kinds /\ nat.frozen \in BOOLEAN
    BY DEF NatType
  <1>4. w.c.round \in Nat /\ w.h.round \in Nat /\ w.node["client"].punches \in Int
        /\ w.c.isRandom \in BOOLEAN /\ w.c.reserved \in BOOLEAN
    BY <1>1, ConnFields DEF Shake, Budget
  <1> QED BY <1>1, <1>2, <1>3, <1>4

\* The requests under way, the answers and the handlers have their types.
LEMMA AskedAre ==
  ASSUME NEW w \in World
  PROVE  /\ \A m \in w.net.requests : m \in Asked(w) /\ m \in Requests
         /\ \A r \in w.h.handlers : r \in Handler /\ r.m \in Asked(w) /\ r.m \in Requests
         /\ \A m \in w.net.replies : m \in Reply
         /\ \A m \in Asked(w) : /\ m \in Requests /\ m.round \in Nat /\ m.firewall \in Kinds
                                /\ m.kind \in Awaiting /\ m.punching \in BOOLEAN
  <1>1. w.net \in Net /\ w.h \in Shake
    BY WorldSides
  <1>2. w.net.requests \subseteq Requests /\ w.net.replies \subseteq Reply /\ w.h.handlers \subseteq Handler
    BY <1>1 DEF Net, Shake
  <1>3. \A r \in Handler : r.m \in Requests
    BY DEF Handler
  <1>4. \A m \in Requests : m.round \in Nat /\ m.firewall \in Kinds /\ m.kind \in Awaiting /\ m.punching \in BOOLEAN
    BY DEF Requests
  <1> QED BY <1>2, <1>3, <1>4 DEF Asked

\* _unstable, of kinds.
LEMMA UnstableIs ==
  ASSUME NEW q \in Puncher
  PROVE  Unstable(q) <=> \/ q.remoteFirewall = RANDOM /\ q.nat.firewall = RANDOM
                         \/ q.nat.firewall = UNKNOWN
  <1>1. q.remoteFirewall \in Kinds /\ q.nat.firewall \in Kinds
    BY DEF Puncher, NatType
  <1> QED BY <1>1, KindsAre DEF Unstable

\* Once the client has settled, both NATs stay what the other peer knows of them.
LEMMA Settled ==
  ASSUME NEW w \in World, Core(w), Fixed(w)
  PROVE  /\ Sv(w).nat.frozen /\ Sv(w).nat.firewall = Cl(w).remoteFirewall
         /\ Cl(w).remoteFirewall # UNKNOWN /\ Cl(w).nat.firewall # UNKNOWN
         /\ Cl(w).remoteFirewall # RANDOM \/ Cl(w).nat.firewall # RANDOM
         /\ Sv(w).remoteHolepunching => ~ Unstable(Sv(w))
  <1>1. /\ Sv(w).nat.frozen /\ Sv(w).nat.firewall = Cl(w).remoteFirewall
        /\ Cl(w).remoteFirewall # UNKNOWN /\ Cl(w).nat.firewall # UNKNOWN
        /\ Cl(w).remoteFirewall # RANDOM \/ Cl(w).nat.firewall # RANDOM
    BY DEF Core, Learned, Told
  <1>2. Sv(w).remoteHolepunching => Sv(w).remoteFirewall = Cl(w).nat.firewall
    BY DEF Core, Remote
  <1>3. Sv(w) \in Puncher
    BY SidesAre
  <1> QED BY <1>1, <1>2, <1>3, UnstableIs

\* A NAT that may have been sampled and told, and has forgotten nothing.
Kept(t, nat) ==
    /\ nat.frozen => t.frozen /\ t.firewall = nat.firewall
    /\ nat.firewall = CONSISTENT => t.firewall = CONSISTENT
    /\ nat.firewall # UNKNOWN => t.firewall # UNKNOWN
    /\ Evident(t)

\* A puncher that has heard nothing new, and may have stopped to punch.
Quiet(t, q) ==
    /\ Kept(t.nat, q.nat)
    /\ t.remoteFirewall = q.remoteFirewall /\ t.remoteHolepunching = q.remoteHolepunching
    /\ t.reopening = q.reopening /\ t.mode \in {q.mode, "none"}

\* A step on which nobody asks, hears or decides anything, though the client may end.
Calm(v, w) ==
    /\ v.c.round = w.c.round /\ v.h.round = w.h.round
    /\ v.h.handlers \subseteq w.h.handlers /\ v.net.requests \subseteq w.net.requests
    /\ v.net.replies \subseteq w.net.replies
    /\ Quiet(Cl(v), Cl(w)) /\ Quiet(Sv(v), Sv(w)) /\ (Fixed(v) <=> Fixed(w))
    /\ v.node["client"].punches <= w.node["client"].punches
    /\ \/ v.c.pc = w.c.pc /\ v.c.isRandom = w.c.isRandom
       \/ v.c.pc = "end" /\ v.net.replies = {} /\ Cl(w).reopening # "running"

\* Such a step keeps all of it.
LEMMA CalmCore ==
  ASSUME NEW w \in World, NEW v \in World, Core(w), Calm(v, w)
  PROVE  Core(v)
  <1> USE DEF Calm, Quiet
  <1>1. /\ Asked(v) \subseteq Asked(w)
        /\ \A m \in Asked(w) : m.round \in Nat
    BY AskedAre DEF Asked
  <1>2. /\ Fixed(w) => Cl(v).nat.firewall = Cl(w).nat.firewall /\ Sv(v).nat.firewall = Sv(w).nat.firewall
    BY Settled DEF Kept, Fixed
  <1>3. Stage(v)
    BY <1>2 DEF Core, Stage, RandomPair, Late
  <1>4. Rounds(v)
    BY <1>1, <1>2 DEF Core, Rounds
  <1>5. ~ Unstable(Sv(w)) => ~ Unstable(Sv(v))
    BY SidesAre, UnstableIs, KindsAre DEF Kept
  <1>6. Handled(v)
    BY <1>5 DEF Core, Handled
  <1>7. ASSUME NEW fw, Told(w, fw) PROVE Told(v, fw)
    BY <1>7 DEF Told, Kept
  <1>8. Learned(v)
    BY <1>2, <1>7 DEF Core, Learned
  <1>9. Remote(v)
    BY <1>2 DEF Core, Remote, Kept
  <1>10. Modes(v)
    BY <1>2, <1>9 DEF Core, Modes, ModeIs, Remote
  <1>11. Evident(Cl(v).nat) /\ Evident(Sv(v).nat)
    BY DEF Kept
  <1>12. v.node["client"].punches <= 1
    BY SidesAre DEF Core
  <1> QED BY <1>3, <1>4, <1>6, <1>8, <1>9, <1>10, <1>11, <1>12 DEF Core

\* A NAT that is left alone, sampled or told is kept.
LEMMA KeptNats ==
  ASSUME NEW nat \in NatType, Evident(nat)
  PROVE  /\ \A t : Grown(t, nat) => Kept(t, nat)
         /\ \A t : /\ t.firewall = nat.firewall /\ t.samples = nat.samples /\ t.sampled = nat.sampled
                   /\ nat.frozen => t.frozen
                   => Kept(t, nat)
  <1>1. ASSUME NEW t, Grown(t, nat) PROVE Kept(t, nat)
    BY <1>1 DEF Grown, Kept
  <1>2. ASSUME NEW t, t.firewall = nat.firewall, t.samples = nat.samples, t.sampled = nat.sampled,
               nat.frozen => t.frozen
        PROVE  Kept(t, nat)
    BY <1>2 DEF Kept, Evident, Seen
  <1> QED BY <1>1, <1>2

\* A puncher that is left alone is quiet.
LEMMA QuietSelf ==
  ASSUME NEW q \in Puncher, Evident(q.nat)
  PROVE  Quiet(q, q)
  BY DEF Quiet, Kept

\* The same of both sides.
LEMMA QuietSides ==
  ASSUME NEW w \in World, Core(w)
  PROVE  Quiet(Cl(w), Cl(w)) /\ Quiet(Sv(w), Sv(w))
  BY SidesAre, QuietSelf DEF Core

\* What a step that only ends things leaves of the client's place in its rounds.
Same(v, w) ==
    /\ v.c.pc = w.c.pc /\ v.c.isRandom = w.c.isRandom /\ v.c.reserved = w.c.reserved
    /\ (Fixed(v) <=> Fixed(w)) /\ Cl(v).reopening = Cl(w).reopening

Follows(v, w) == v \in World /\ Core(v) /\ Same(v, w)

\* Nothing happens.
LEMMA FollowsSelf == ASSUME NEW w \in World, Core(w) PROVE Follows(w, w)
  BY DEF Follows, Same

\* Two such steps, one after the other.
LEMMA FollowsOn ==
  ASSUME NEW u, NEW v, NEW w, Follows(u, v), Follows(v, w)
  PROVE  Follows(u, w)
  BY DEF Follows, Same

\* Such steps keep what the peers agree on.
LEMMA FollowsAgree ==
  ASSUME NEW w, NEW v, Agree(w), Follows(v, w)
  PROVE  Agree(v)
  BY DEF Follows, Same, Agree

\* The connection state changes, not the place in the rounds.
LEMMA CalmC ==
  ASSUME NEW w \in World, Core(w), NEW k \in Conn, k.pc = w.c.pc, k.isRandom = w.c.isRandom, k.round = w.c.round
  PROVE  WithC(w, k) \in World /\ Core(WithC(w, k)) /\ (k.reserved = w.c.reserved => Follows(WithC(w, k), w))
  <1> DEFINE v == WithC(w, k)
  <1>1. v \in World /\ v.c = k /\ v.h = w.h /\ v.p = w.p /\ v.node = w.node /\ v.net = w.net
    BY WithCIs
  <1> HIDE DEF v
  <1>2. Quiet(Cl(w), Cl(w)) /\ Quiet(Sv(w), Sv(w)) /\ w.node["client"].punches \in Int
    BY QuietSides, SidesAre
  <1>3. Cl(v) = Cl(w) /\ Sv(v) = Sv(w)
    BY <1>1 DEF Cl, Sv
  <1>4. Calm(v, w)
    BY <1>1, <1>2, <1>3 DEF Calm, Fixed
  <1>5. Core(v)
    BY <1>1, <1>4, CalmCore
  <1> QED BY <1>1, <1>3, <1>5 DEF Follows, Same, v, Fixed

\* A reservation is taken back.
LEMMA CalmCN ==
  ASSUME NEW w \in World, Core(w), NEW k \in Conn, k.pc = w.c.pc, k.isRandom = w.c.isRandom, k.round = w.c.round,
         NEW n \in Budget, n.punches <= w.node["client"].punches
  PROVE  LET v == WithCN(w, k, "client", n)
         IN v \in World /\ Core(v) /\ v.c = k /\ v.p = w.p /\ v.h = w.h /\ v.net = w.net /\ v.node["client"] = n
  <1> DEFINE v == WithCN(w, k, "client", n)
  <1>1. /\ v \in World /\ v.c = k /\ v.h = w.h /\ v.p = w.p /\ v.node["client"] = n /\ v.net = w.net
    BY WithCNIs, SideElements
  <1> HIDE DEF v
  <1>2. Quiet(Cl(w), Cl(w)) /\ Quiet(Sv(w), Sv(w))
    BY QuietSides
  <1>3. Cl(v) = Cl(w) /\ Sv(v) = Sv(w)
    BY <1>1 DEF Cl, Sv
  <1>4. Calm(v, w)
    BY <1>1, <1>2, <1>3 DEF Calm, Fixed
  <1>5. Core(v)
    BY <1>1, <1>4, CalmCore
  <1> QED BY <1>1, <1>5 DEF v

\* A puncher stops, is sampled or freezes its NAT, and its node counts no more.
LEMMA CalmPN ==
  ASSUME NEW w \in World, Core(w), NEW v \in World, NEW s \in Side, Quiet(v.p[s], w.p[s]),
         s = "client" => v.p[s].nat.frozen = w.p[s].nat.frozen,
         \A t \in Side \ {s} : v.p[t] = w.p[t] /\ v.node[t] = w.node[t],
         v.c = w.c, v.h = w.h, v.net = w.net, v.node[s].punches <= w.node[s].punches
  PROVE  Follows(v, w)
  <1>1. Quiet(Cl(w), Cl(w)) /\ Quiet(Sv(w), Sv(w)) /\ w.node["client"].punches \in Int
    BY QuietSides, SidesAre
  <1>2. CASE s = "client"
    <2>1. Quiet(Cl(v), Cl(w)) /\ Sv(v) = Sv(w) /\ (Fixed(v) <=> Fixed(w))
      BY <1>2, SideElements DEF Cl, Sv, Fixed
    <2>2. Calm(v, w)
      BY <1>1, <1>2, <2>1 DEF Calm
    <2>3. Core(v)
      BY <2>2, CalmCore
    <2> QED BY <2>1, <2>3 DEF Follows, Same, Quiet
  <1>3. CASE s = "server"
    <2>1. Quiet(Sv(v), Sv(w)) /\ Cl(v) = Cl(w) /\ v.node["client"] = w.node["client"]
      BY <1>3, SideElements DEF Cl, Sv
    <2>2. Calm(v, w)
      BY <1>1, <1>3, <2>1 DEF Calm, Fixed
    <2>3. Core(v)
      BY <2>2, CalmCore
    <2> QED BY <2>1, <2>3 DEF Follows, Same, Fixed
  <1> QED BY <1>2, <1>3, SideElements

\* The same without the node.
LEMMA CalmP ==
  ASSUME NEW w \in World, Core(w), NEW s \in Side, NEW q \in Puncher, Quiet(q, w.p[s]),
         s = "client" => q.nat.frozen = w.p[s].nat.frozen
  PROVE  Follows(WithP(w, s, q), w)
  <1> DEFINE v == WithP(w, s, q)
  <1>1. /\ v \in World /\ v.p[s] = q /\ v.c = w.c /\ v.h = w.h /\ v.node = w.node /\ v.net = w.net
        /\ \A t \in Side \ {s} : v.p[t] = w.p[t]
    BY WithPIs
  <1>2. w.node[s].punches \in Int
    BY WorldFields DEF Budget
  <1> HIDE DEF v
  <1>3. Follows(v, w)
    BY <1>1, <1>2, CalmPN
  <1> QED BY <1>3 DEF v

\* A handler leaves, or the handshake's flags change.
LEMMA CalmH ==
  ASSUME NEW w \in World, Core(w), NEW k \in Shake, k.round = w.h.round, k.handlers \subseteq w.h.handlers
  PROVE  Follows(WithH(w, k), w)
  <1> DEFINE v == WithH(w, k)
  <1>1. v \in World /\ v.h = k /\ v.c = w.c /\ v.p = w.p /\ v.node = w.node /\ v.net = w.net
    BY WithHIs
  <1> HIDE DEF v
  <1>2. Quiet(Cl(w), Cl(w)) /\ Quiet(Sv(w), Sv(w)) /\ w.node["client"].punches \in Int
    BY QuietSides, SidesAre
  <1>3. Cl(v) = Cl(w) /\ Sv(v) = Sv(w)
    BY <1>1 DEF Cl, Sv
  <1>4. Calm(v, w)
    BY <1>1, <1>2, <1>3 DEF Calm, Fixed
  <1>5. Core(v)
    BY <1>1, <1>4, CalmCore
  <1> QED BY <1>1, <1>3, <1>5 DEF Follows, Same, v, Fixed

\* Both sides are evident.
LEMMA EvidentSides == ASSUME NEW w \in World, Core(w), NEW s \in Side PROVE Evident(w.p[s].nat) /\ w.p[s].nat \in NatType
  BY SideElements, SidesAre DEF Core, Cl, Sv

\* _decrementRandomized.
LEMMA DecrementCalm ==
  ASSUME NEW w \in World, Core(w), NEW s \in Side
  PROVE  Follows(DecrementRandomized(w, s), w)
  <1> DEFINE v == DecrementRandomized(w, s)
  <1>1. /\ v \in World /\ v.c = w.c /\ v.h = w.h /\ v.net = w.net
        /\ \A t \in Side \ {s} : v.p[t] = w.p[t] /\ v.node[t] = w.node[t]
        /\ v.p[s] \in {w.p[s], [w.p[s] EXCEPT !.randomized = FALSE]}
        /\ v.node[s].punches = w.node[s].punches - One(w.p[s].randomized)
    BY DecrementRandomizedSound
  <1> HIDE DEF v
  <1>2. w.p[s] \in Puncher /\ Evident(w.p[s].nat) /\ w.node[s].punches \in Int
    BY WorldFields, EvidentSides DEF Budget
  <1>3. Quiet(w.p[s], w.p[s])
    BY <1>2, QuietSelf
  <1>4. /\ v.p[s].nat = w.p[s].nat /\ v.p[s].remoteFirewall = w.p[s].remoteFirewall
        /\ v.p[s].remoteHolepunching = w.p[s].remoteHolepunching
        /\ v.p[s].reopening = w.p[s].reopening /\ v.p[s].mode = w.p[s].mode
    BY <1>1, <1>2 DEF Puncher
  <1>5. Quiet(v.p[s], w.p[s]) /\ v.p[s].nat.frozen = w.p[s].nat.frozen
    BY <1>3, <1>4 DEF Quiet
  <1>6. v.node[s].punches <= w.node[s].punches
    BY <1>1, <1>2 DEF One
  <1>7. Follows(v, w)
    BY <1>1, <1>5, <1>6, CalmPN
  <1> QED BY <1>7 DEF v

\* maybeDestroyEncryptedSocket.
LEMMA MaybeDestroyCalm ==
  ASSUME NEW w \in World, Core(w)
  PROVE  Follows(MaybeDestroyEncryptedSocket(w), w)
  <1> DEFINE k == [w.c EXCEPT !.dead = TRUE]
  <1>1. w.c \in Conn
    BY WorldSides
  <1>2. k \in Conn /\ k.pc = w.c.pc /\ k.isRandom = w.c.isRandom /\ k.round = w.c.round /\ k.reserved = w.c.reserved
    BY <1>1 DEF Conn
  <1>3. MaybeDestroyEncryptedSocket(w) \in {w, WithC(w, k)}
    BY Zenon DEF MaybeDestroyEncryptedSocket, WithC
  <1> HIDE DEF k
  <1>4. Follows(WithC(w, k), w)
    BY <1>2, CalmC
  <1> QED BY <1>3, <1>4, FollowsSelf

\* destroy.
LEMMA DestroyCalm ==
  ASSUME NEW w \in World, Core(w), NEW s \in Side
  PROVE  Follows(DestroyPuncher(w, s), w)
  <1> DEFINE q == Ended(w.p[s])
             v == WithP(w, s, q)
             u == IF v.p[s].connected THEN v ELSE DecrementRandomized(v, s)
  <1>1. w.p[s] \in Puncher /\ Evident(w.p[s].nat) /\ w.p[s].nat \in NatType
    BY WorldFields, EvidentSides
  <1>2. /\ q \in Puncher /\ q.nat.firewall = w.p[s].nat.firewall /\ q.nat.frozen = w.p[s].nat.frozen
        /\ q.nat.samples = w.p[s].nat.samples /\ q.nat.sampled = w.p[s].nat.sampled
        /\ q.remoteFirewall = w.p[s].remoteFirewall /\ q.remoteHolepunching = w.p[s].remoteHolepunching
        /\ q.reopening = w.p[s].reopening /\ q.mode = "none"
    <2> DEFINE nat == [w.p[s].nat EXCEPT !.resolved = TRUE]
    <2>1. /\ nat \in NatType /\ nat.firewall = w.p[s].nat.firewall /\ nat.frozen = w.p[s].nat.frozen
          /\ nat.samples = w.p[s].nat.samples /\ nat.sampled = w.p[s].nat.sampled
      BY <1>1 DEF NatType
    <2>2. q = [w.p[s] EXCEPT !.destroyed = TRUE, !.punching = FALSE, !.mode = "none", !.holders = 0, !.nat = nat]
      BY Zenon DEF Ended
    <2> HIDE DEF nat, q
    <2>3. /\ q \in Puncher /\ q.nat = nat
          /\ q.remoteFirewall = w.p[s].remoteFirewall /\ q.remoteHolepunching = w.p[s].remoteHolepunching
          /\ q.reopening = w.p[s].reopening /\ q.mode = "none"
      BY <1>1, <2>1, <2>2 DEF Puncher
    <2> QED BY <2>1, <2>3
  <1>3. \/ DestroyPuncher(w, s) \in {w, u}
        \/ DestroyPuncher(w, s) = MaybeDestroyEncryptedSocket(u)
    BY Zenon DEF DestroyPuncher, WithP
  <1> HIDE DEF q
  <1>4. Quiet(q, w.p[s])
    BY <1>1, <1>2, KeptNats DEF Quiet
  <1>5. Follows(v, w)
    BY <1>2, <1>4, CalmP
  <1> HIDE DEF v
  <1>6. Follows(u, w)
    <2>1. Follows(DecrementRandomized(v, s), v)
      BY <1>5, DecrementCalm DEF Follows
    <2> QED BY <1>5, <2>1, FollowsOn
  <1> HIDE DEF u
  <1>7. Follows(MaybeDestroyEncryptedSocket(u), w)
    <2>1. Follows(MaybeDestroyEncryptedSocket(u), u)
      BY <1>6, MaybeDestroyCalm DEF Follows
    <2> QED BY <1>6, <2>1, FollowsOn
  <1> QED BY <1>3, <1>6, <1>7, FollowsSelf

\* ----------------------------------------------- what the client agrees to

\* The rounds end.
LEMMA EndAgrees ==
  ASSUME NEW w \in World, Core(w), Cl(w).reopening # "running"
  PROVE  End(w) \in World /\ Agree(End(w))
  <1>0. w.c \in Conn /\ w.net \in Net
    BY WorldSides
  <1> DEFINE k == [w.c EXCEPT !.pc = "end"]
             m == [w.net EXCEPT !.replies = {}]
             v == WithCNet(w, k, m)
  <1>1. k \in Conn /\ k.pc = "end" /\ k.round = w.c.round
    BY <1>0 DEF Conn
  <1>2. m \in Net /\ m.replies = {} /\ m.requests = w.net.requests
    BY <1>0 DEF Net
  <1>3. End(w) = v
    BY Zenon DEF End, WithCNet
  <1> HIDE DEF k, m
  <1>4. v \in World /\ v.c = k /\ v.p = w.p /\ v.node = w.node /\ v.net = m /\ v.h = w.h
    BY <1>0, <1>1, <1>2, WithCNetIs
  <1> HIDE DEF v
  <1>5. Quiet(Cl(w), Cl(w)) /\ Quiet(Sv(w), Sv(w)) /\ w.node["client"].punches \in Int
    BY QuietSides, SidesAre
  <1>6. Cl(v) = Cl(w) /\ Sv(v) = Sv(w)
    BY <1>4 DEF Cl, Sv
  <1>7. Calm(v, w)
    BY <1>1, <1>2, <1>4, <1>5, <1>6 DEF Calm, Fixed
  <1>8. Core(v)
    BY <1>4, <1>7, CalmCore
  <1> QED BY <1>1, <1>3, <1>4, <1>8 DEF Agree, Early

\* Giving up.
LEMMA GiveUpAgrees ==
  ASSUME NEW w \in World, Core(w), Cl(w).reopening # "running"
  PROVE  Agree(GiveUp(w))
  <1> DEFINE v == DestroyPuncher(w, "client")
             u == End(v)
  <1>1. Follows(v, w)
    BY DestroyCalm, SideElements
  <1> HIDE DEF v
  <1>2. u \in World /\ Agree(u)
    BY <1>1, EndAgrees DEF Follows, Same
  <1>3. GiveUp(w) = MaybeDestroyEncryptedSocket(u)
    BY DEF GiveUp, v
  <1> HIDE DEF u
  <1>4. Follows(MaybeDestroyEncryptedSocket(u), u)
    BY <1>2, MaybeDestroyCalm DEF Agree
  <1> QED BY <1>2, <1>3, <1>4, FollowsAgree

\* What a request changes.
LEMMA AskGives ==
  ASSUME NEW w \in World, NEW kind \in Awaiting
  PROVE  LET v == Ask(w, kind)
             m == Payload(w, kind)
         IN /\ v \in World /\ v.p = w.p /\ v.node = w.node /\ v.h = w.h /\ v.c.pc = kind
            /\ v.c.reserved = w.c.reserved /\ v.c.isRandom = w.c.isRandom /\ v.c.round = w.c.round + 1
            /\ v.net.replies = {} /\ v.net.requests = w.net.requests \cup {m} /\ Asked(v) = Asked(w) \cup {m}
            /\ m.round = w.c.round /\ m.kind = kind /\ (m.punching => kind = "punch")
            /\ kind # "abort" => m.firewall = Cl(w).nat.firewall
  <1>0. w.c \in Conn /\ w.net \in Net
    BY WorldSides
  <1> DEFINE n == w.c.round + 1
             k == [w.c EXCEPT !.pc = kind, !.round = n]
             asked == w.net.requests \cup {Payload(w, kind)}
             m == [w.net EXCEPT !.replies = {}, !.requests = asked]
             v == WithCNet(w, k, m)
  <1>1. n \in Nat
    BY <1>0, ConnFields
  <1>2. Ask(w, kind) = v
    BY Zenon DEF Ask, WithCNet, NextRound, Request
  <1>3. asked \in SUBSET Requests
    BY <1>0, PayloadType DEF Net
  <1> HIDE DEF n, asked
  <1>4. /\ k \in Conn /\ k.pc = kind /\ k.reserved = w.c.reserved /\ k.isRandom = w.c.isRandom /\ k.round = n
    BY <1>0, <1>1 DEF Conn
  <1>5. m \in Net /\ m.replies = {} /\ m.requests = asked
    BY <1>0, <1>3 DEF Net
  <1> HIDE DEF k, m
  <1>6. v \in World /\ v.c = k /\ v.net = m /\ v.p = w.p /\ v.node = w.node /\ v.h = w.h
    BY <1>4, <1>5, WithCNetIs
  <1> HIDE DEF v
  <1>7. Asked(v) = Asked(w) \cup {Payload(w, kind)}
    BY <1>5, <1>6 DEF Asked, asked
  <1>8. /\ Payload(w, kind).round = w.c.round /\ Payload(w, kind).kind = kind
        /\ Payload(w, kind).punching => kind = "punch"
        /\ kind # "abort" => Payload(w, kind).firewall = Cl(w).nat.firewall
    BY DEF Payload, Cl
  <1> QED BY <1>2, <1>4, <1>5, <1>6, <1>7, <1>8 DEF n, asked

\* A request starts a round of its own.
LEMMA AskRounds ==
  ASSUME NEW w \in World, Core(w), NEW kind \in Awaiting, kind \in {"delay", "punch"} => Fixed(w),
         kind = "probe" => ~ Fixed(w)
  PROVE  LET v == Ask(w, kind)
         IN Rounds(v) /\ Handled(v) /\ Cl(v) = Cl(w) /\ Sv(v) = Sv(w) /\ (Fixed(v) <=> Fixed(w))
  <1> DEFINE v == Ask(w, kind)
             m == Payload(w, kind)
  <1>1. /\ v \in World /\ v.p = w.p /\ v.node = w.node /\ v.h = w.h /\ v.c.pc = kind
        /\ v.c.reserved = w.c.reserved /\ v.c.isRandom = w.c.isRandom /\ v.c.round = w.c.round + 1
        /\ v.net.replies = {} /\ v.net.requests = w.net.requests \cup {m} /\ Asked(v) = Asked(w) \cup {m}
        /\ m.round = w.c.round /\ m.kind = kind /\ (m.punching => kind = "punch")
        /\ kind # "abort" => m.firewall = Cl(w).nat.firewall
    BY AskGives
  <1> HIDE DEF v, m
  <1>2. Cl(v) = Cl(w) /\ Sv(v) = Sv(w) /\ (Fixed(v) <=> Fixed(w))
    BY <1>1 DEF Cl, Sv, Fixed
  <1>3. w.c.round \in Nat /\ w.h.round \in Nat /\ \A a \in Asked(w) : a.round \in Nat
    BY SidesAre, AskedAre
  <1>4. \A a \in Asked(w) : a.round < w.c.round /\ a.round # m.round
    BY <1>1, <1>3 DEF Core, Rounds
  <1>5. Rounds(v)
    <2>1. v.h.round = 0 \/ v.h.round < v.c.round
      BY <1>1, <1>3 DEF Core, Rounds
    <2>2. \A a \in Asked(v) : a.round < v.c.round /\ (a.punching => a.kind = "punch")
      BY <1>1, <1>3 DEF Core, Rounds
    <2>3. \A a, b \in Asked(v) : a.round = b.round => a = b
      BY <1>1, <1>4 DEF Core, Rounds
    <2>4. \A a \in Asked(v) : a.kind \in {"delay", "punch"} => Fixed(v) /\ a.firewall = Cl(v).nat.firewall
      BY <1>1, <1>2 DEF Core, Rounds
    <2>5. \A a, b \in Asked(v) : a.kind = "probe" /\ b.kind \in {"delay", "punch"} => a.round < b.round
      BY <1>1, <1>4 DEF Core, Rounds
    <2> QED BY <2>1, <2>2, <2>3, <2>4, <2>5 DEF Rounds
  <1>6. Handled(v)
    BY <1>1, <1>2 DEF Core, Handled
  <1> QED BY <1>2, <1>5, <1>6 DEF v

\* The client probes, or tells the server that it gives up: nothing was settled.
LEMMA AskEarly ==
  ASSUME NEW w \in World, Core(w), ~ Fixed(w), Cl(w).reopening # "running", NEW kind \in {"probe", "abort"}
  PROVE  Agree(Ask(w, kind))
  <1> DEFINE v == Ask(w, kind)
             m == Payload(w, kind)
  <1>0. kind \in Awaiting
    BY DEF Awaiting
  <1>1. /\ v \in World /\ v.p = w.p /\ v.node = w.node /\ v.h = w.h /\ v.c.pc = kind
        /\ v.net.replies = {}
    BY <1>0, AskGives
  <1>2. Rounds(v) /\ Handled(v) /\ Cl(v) = Cl(w) /\ Sv(v) = Sv(w) /\ (Fixed(v) <=> Fixed(w))
    BY <1>0, AskRounds
  <1> HIDE DEF v
  <1>3. Stage(v)
    BY <1>0, <1>1, <1>2 DEF Stage, Late
  <1>4. Learned(v)
    BY <1>1, <1>2 DEF Learned
  <1>5. Remote(v)
    BY <1>1, <1>2 DEF Core, Remote
  <1>6. Modes(v)
    BY <1>2 DEF Core, Modes
  <1> QED BY <1>1, <1>2, <1>3, <1>4, <1>5, <1>6 DEF Core, Agree, v

\* The client has settled, and knows whether the punch is a random one.
Deciding(w) ==
    /\ w \in World /\ Core(w) /\ Fixed(w) /\ Cl(w).reopening # "running"
    /\ w.c.isRandom <=> RandomPair(Cl(w))

\* It asks for a delay or for the punch.
LEMMA AskLate ==
  ASSUME NEW w, Deciding(w), NEW kind \in {"delay", "punch"}, kind = "punch" => w.c.reserved = w.c.isRandom
  PROVE  Agree(Ask(w, kind))
  <1> DEFINE v == Ask(w, kind)
             m == Payload(w, kind)
  <1>0. kind \in Awaiting /\ w \in World /\ Core(w) /\ Fixed(w)
    BY DEF Awaiting, Deciding
  <1>1. /\ v \in World /\ v.p = w.p /\ v.node = w.node /\ v.h = w.h /\ v.c.pc = kind
        /\ v.c.reserved = w.c.reserved /\ v.c.isRandom = w.c.isRandom
        /\ v.net.replies = {} /\ v.net.requests = w.net.requests \cup {m}
        /\ m.kind = kind /\ m.firewall = Cl(w).nat.firewall
    BY <1>0, AskGives
  <1>2. Rounds(v) /\ Handled(v) /\ Cl(v) = Cl(w) /\ Sv(v) = Sv(w) /\ Fixed(v)
    BY <1>0, AskRounds
  <1> HIDE DEF v, m
  <1>3. Stage(v)
    BY <1>0, <1>1, <1>2 DEF Stage, Deciding
  <1>4. Told(v, Cl(v).remoteFirewall)
    BY <1>0, <1>1, <1>2 DEF Core, Learned, Told
  <1>5. Learned(v)
    BY <1>0, <1>1, <1>2, <1>4 DEF Core, Learned
  <1>6. Remote(v)
    BY <1>0, <1>1, <1>2 DEF Core, Remote
  <1>7. Modes(v)
    BY <1>0, <1>2 DEF Core, Modes
  <1>8. Core(v)
    BY <1>0, <1>1, <1>2, <1>3, <1>5, <1>6, <1>7 DEF Core
  <1> QED BY <1>1, <1>8 DEF Agree, v, Early

\* Trying later, or giving up.
LEMMA TryLaterAgrees ==
  ASSUME NEW w, Deciding(w), NEW again \in {"loop", "round"}
  PROVE  Agree(TryLater(w, again))
  <1>0. w \in World /\ Core(w) /\ Fixed(w) /\ w.c \in Conn /\ w.net \in Net /\ Cl(w).reopening # "running"
    BY WorldSides DEF Deciding
  <1> DEFINE k == [w.c EXCEPT !.pc = "later", !.again = again]
             m == [w.net EXCEPT !.replies = {}]
             v == WithCNet(w, k, m)
  <1>1. TryLater(w, again) \in {v, GiveUp(w)}
    BY Zenon DEF TryLater, WithCNet
  <1>2. k \in Conn /\ k.pc = "later" /\ k.isRandom = w.c.isRandom /\ k.round = w.c.round
    BY <1>0 DEF Conn
  <1>3. m \in Net /\ m.replies = {} /\ m.requests = w.net.requests
    BY <1>0 DEF Net
  <1> HIDE DEF k, m
  <1>4. v \in World /\ v.c = k /\ v.p = w.p /\ v.node = w.node /\ v.h = w.h /\ v.net = m
    BY <1>0, <1>2, <1>3, WithCNetIs
  <1> HIDE DEF v
  <1>5. Cl(v) = Cl(w) /\ Sv(v) = Sv(w) /\ Fixed(v) /\ Asked(v) = Asked(w)
    BY <1>0, <1>3, <1>4 DEF Cl, Sv, Fixed, Asked
  <1>6. Stage(v)
    BY <1>2, <1>3, <1>4, <1>5 DEF Deciding, Stage
  <1>7. Rounds(v) /\ Handled(v) /\ Remote(v) /\ Modes(v)
    BY <1>0, <1>2, <1>3, <1>4, <1>5 DEF Core, Rounds, Handled, Remote, Modes
  <1>8. Learned(v)
    <2>1. Told(v, Cl(v).remoteFirewall)
      BY <1>0, <1>3, <1>4, <1>5 DEF Core, Learned, Told
    <2> QED BY <1>0, <1>3, <1>4, <1>5, <2>1 DEF Core, Learned
  <1>9. Core(v)
    BY <1>0, <1>4, <1>5, <1>6, <1>7, <1>8 DEF Core
  <1>10. Agree(v)
    BY <1>2, <1>4, <1>9 DEF Agree, Early
  <1> QED BY <1>0, <1>1, <1>10, GiveUpAgrees

\* What the argument is about is the same, but for the modes and the budget.
LEMMA CoreFrame ==
  ASSUME NEW w \in World, Core(w), NEW v \in World, v.h = w.h, v.net = w.net,
         v.c.pc = w.c.pc, v.c.isRandom = w.c.isRandom, v.c.round = w.c.round,
         Cl(v).nat = Cl(w).nat, Cl(v).remoteFirewall = Cl(w).remoteFirewall, Cl(v).reopening = Cl(w).reopening,
         Sv(v).nat = Sv(w).nat, Sv(v).remoteFirewall = Sv(w).remoteFirewall, Sv(v).reopening = Sv(w).reopening,
         Sv(v).remoteHolepunching = Sv(w).remoteHolepunching,
         Sv(v).mode # "none" => Sv(w).mode # "none" \/ Sv(w).remoteHolepunching,
         ModeIs(Cl(v)), ModeIs(Sv(v)), Cl(v).mode # "none" => Fixed(w), v.node["client"].punches <= 1
  PROVE  Core(v)
  <1>1. (Fixed(v) <=> Fixed(w)) /\ Asked(v) = Asked(w)
    BY DEF Fixed, Asked
  <1>2. Stage(v) /\ Rounds(v)
    BY <1>1 DEF Core, Stage, Rounds, RandomPair
  <1>3. Unstable(Sv(v)) <=> Unstable(Sv(w))
    BY DEF Unstable
  <1>4. Handled(v)
    BY <1>3 DEF Core, Handled
  <1>5. \A fw : Told(w, fw) => Told(v, fw)
    BY DEF Told
  <1>6. Learned(v)
    BY <1>1, <1>5 DEF Core, Learned
  <1>7. Remote(v)
    BY <1>1 DEF Core, Remote
  <1>8. Modes(v)
    BY <1>1 DEF Modes
  <1> QED BY <1>2, <1>4, <1>6, <1>7, <1>8 DEF Core

\* roundPunch past its loop.
LEMMA CommitAgrees ==
  ASSUME NEW w, Deciding(w), ~ w.c.reserved, w.c.isRandom => w.node["client"].punches < 1
  PROVE  Agree(Commit(w))
  <1>0. /\ w \in World /\ Core(w) /\ w.c \in Conn /\ w.node["client"] \in Budget /\ "client" \in Side
        /\ w.c.isRandom \in BOOLEAN /\ w.c.reserved \in BOOLEAN
    BY WorldSides, ConnFields DEF Deciding, Side
  <1>1. CASE ~ w.c.isRandom
    <2>1. Commit(w) = Ask(w, "punch")
      BY <1>1, Zenon DEF Commit
    <2> QED BY <1>0, <1>1, <2>1, AskLate
  <1>2. CASE w.c.isRandom
    <2> DEFINE k == [w.c EXCEPT !.reserved = TRUE]
               n == [w.node["client"] EXCEPT !.punches = @ + 1]
               u == WithCN(w, k, "client", n)
    <2>1. Commit(w) = Ask(u, "punch")
      BY <1>2, Zenon DEF Commit, WithCN
    <2>2. k \in Conn /\ k.reserved = TRUE /\ k.pc = w.c.pc /\ k.isRandom = w.c.isRandom /\ k.round = w.c.round
      BY <1>0 DEF Conn
    <2>3. n \in Budget /\ n.punches = w.node["client"].punches + 1 /\ w.node["client"].punches \in Int
      BY <1>0 DEF Budget
    <2> HIDE DEF k, n
    <2>4. u \in World /\ u.c = k /\ u.node["client"] = n /\ u.p = w.p /\ u.h = w.h /\ u.net = w.net
      BY <1>0, <2>2, <2>3, WithCNIs
    <2> HIDE DEF u
    <2>5. Cl(u) = Cl(w) /\ Sv(u) = Sv(w) /\ u.node["client"].punches <= 1
      BY <1>2, <2>3, <2>4 DEF Cl, Sv
    <2>6. Core(u)
      BY <1>0, <2>2, <2>4, <2>5, CoreFrame DEF Core, Modes
    <2>7. Deciding(u) /\ u.c.reserved = u.c.isRandom
      BY <1>0, <1>2, <2>2, <2>4, <2>5, <2>6 DEF Deciding, Fixed
    <2> QED BY <2>1, <2>7, AskLate
  <1> QED BY <1>0, <1>1, <1>2

\* A turn of roundPunch's loop.
LEMMA AwaitBudgetAgrees ==
  ASSUME NEW w, Deciding(w), ~ w.c.reserved
  PROVE  Agree(AwaitBudget(w))
  <1> DEFINE k == [w.c EXCEPT !.delayed = TRUE]
             v == WithC(w, k)
  <1>0. w \in World /\ Core(w) /\ w.c \in Conn /\ w.node["client"] \in Budget /\ Cl(w).reopening # "running"
    BY WorldSides DEF Deciding
  <1>1. \/ (~ w.c.isRandom \/ ~ Busy(w.node["client"])) /\ AwaitBudget(w) = Commit(w)
        \/ AwaitBudget(w) \in {GiveUp(w), Ask(v, "delay"), TryLater(w, "loop")}
    BY Zenon DEF AwaitBudget, WithC
  <1>2. ~ Busy(w.node["client"]) => w.node["client"].punches < 1
    BY <1>0 DEF Busy, Budget
  <1>3. k \in Conn /\ k.pc = w.c.pc /\ k.isRandom = w.c.isRandom /\ k.round = w.c.round /\ k.reserved = w.c.reserved
    BY <1>0 DEF Conn
  <1> HIDE DEF k
  <1>4. Follows(v, w) /\ v.p = w.p
    BY <1>0, <1>3, CalmC, WithCIs
  <1> HIDE DEF v
  <1>5. Deciding(v)
    BY <1>4 DEF Follows, Same, Deciding, Cl
  <1>6. Agree(Ask(v, "delay"))
    BY <1>5, AskLate
  <1> QED BY <1>0, <1>1, <1>2, <1>6, CommitAgrees, GiveUpAgrees, TryLaterAgrees

\* The client settles: from now on its NAT stays what it says of it.
LEMMA RoundPunchAgrees ==
  ASSUME NEW w \in World, Core(w), ~ w.c.reserved, Cl(w).reopening # "running",
         Fixed(w) \/ (w.c.pc \in {"analyze", "reopen"} /\ ~ Unstable(Cl(w)) /\ Cl(w).remoteFirewall # UNKNOWN)
  PROVE  Agree(RoundPunch(w))
  <1>0. /\ w.c \in Conn /\ w.p["client"] \in Puncher /\ "client" \in Side /\ Cl(w) = w.p["client"]
        /\ w.p["client"].nat \in NatType /\ Evident(w.p["client"].nat)
        /\ w.p["client"].nat.firewall \in Kinds /\ w.p["client"].remoteFirewall \in Kinds
    BY WorldSides, SidesAre DEF Side, Core, Cl
  <1> DEFINE nat == Freeze(w.p["client"].nat)
             q == [w.p["client"] EXCEPT !.nat = nat]
             b == w.p["client"].remoteFirewall >= RANDOM \/ w.p["client"].nat.firewall >= RANDOM
             k == [w.c EXCEPT !.isRandom = b]
             x == WithPC(w, "client", q, k)
  <1>1. RoundPunch(w) = AwaitBudget(x)
    BY Zenon DEF RoundPunch, WithPC
  <1>2. /\ nat \in NatType /\ nat.frozen /\ nat.firewall = Cl(w).nat.firewall /\ Evident(nat)
    <2>1. /\ nat \in NatType /\ nat.frozen /\ nat.firewall = Cl(w).nat.firewall
          /\ nat.samples = Cl(w).nat.samples /\ nat.sampled = Cl(w).nat.sampled
      BY <1>0 DEF NatType, Freeze
    <2> HIDE DEF nat
    <2> QED BY <1>0, <2>1 DEF Evident, Seen
  <1> HIDE DEF nat
  <1>3. /\ q \in Puncher /\ q.nat = nat /\ q.remoteFirewall = Cl(w).remoteFirewall
        /\ q.reopening = Cl(w).reopening /\ q.mode = Cl(w).mode
    BY <1>0, <1>2 DEF Puncher
  <1>4. b \in BOOLEAN /\ (b <=> RandomPair(Cl(w)))
    BY <1>0, KindsAre DEF RandomPair
  <1> HIDE DEF b
  <1>5. k \in Conn /\ k.pc = w.c.pc /\ k.isRandom = b /\ k.round = w.c.round /\ k.reserved = w.c.reserved
    BY <1>0, <1>4 DEF Conn
  <1> HIDE DEF q, k
  <1>6. /\ x \in World /\ x.c = k /\ x.p["client"] = q /\ x.p["server"] = w.p["server"] /\ x.node = w.node
        /\ x.h = w.h /\ x.net = w.net
    BY <1>0, <1>3, <1>5, WithPCIs, SideElements
  <1> HIDE DEF x
  <1>7. Cl(x) = q /\ Sv(x) = Sv(w) /\ Fixed(x) /\ Asked(x) = Asked(w)
    BY <1>2, <1>3, <1>6 DEF Cl, Sv, Fixed, Asked
  <1>8. RandomPair(Cl(x)) <=> RandomPair(Cl(w))
    BY <1>2, <1>3, <1>7 DEF RandomPair
  <1>9. Told(w, Cl(w).remoteFirewall)
    BY DEF Core, Learned
  <1>10. /\ Cl(w).remoteFirewall # UNKNOWN /\ Cl(w).nat.firewall # UNKNOWN
         /\ Cl(w).remoteFirewall # RANDOM \/ Cl(w).nat.firewall # RANDOM
    BY <1>0, Settled, UnstableIs
  <1>11. ~ Fixed(w) => w.net.replies = {}
    BY DEF Core, Stage, Awaiting
  <1>12. Stage(x)
    BY <1>3, <1>4, <1>5, <1>6, <1>7, <1>8 DEF Core, Stage
  <1>13. Rounds(x)
    BY <1>2, <1>3, <1>5, <1>6, <1>7 DEF Core, Rounds
  <1>14. Handled(x)
    BY <1>6, <1>7 DEF Core, Handled
  <1>15. Learned(x)
    <2>1. \A fw : Told(w, fw) => Told(x, fw)
      BY <1>6, <1>7 DEF Told
    <2> QED BY <1>2, <1>3, <1>6, <1>7, <1>9, <1>10, <1>11, <2>1 DEF Core, Learned
  <1>16. Remote(x)
    BY <1>2, <1>3, <1>6, <1>7 DEF Core, Remote
  <1>17. Modes(x)
    BY <1>2, <1>3, <1>7 DEF Core, Modes, ModeIs
  <1>18. Core(x)
    BY <1>2, <1>3, <1>6, <1>7, <1>12, <1>13, <1>14, <1>15, <1>16, <1>17 DEF Core
  <1>19. Deciding(x) /\ ~ x.c.reserved
    BY <1>3, <1>4, <1>5, <1>6, <1>7, <1>8, <1>18 DEF Deciding
  <1> QED BY <1>1, <1>19, AwaitBudgetAgrees

\* probeRound once more.
LEMMA ProbeAgrees ==
  ASSUME NEW w \in World, Core(w), ~ Fixed(w), Cl(w).reopening # "running", w.c.pc \in {"analyze", "reopen"}
  PROVE  Agree(Probe(w))
  <1> DEFINE k == [w.c EXCEPT !.pc = "open", !.retry = FALSE]
             v == WithC(w, k)
  <1>0. w.c \in Conn
    BY WorldSides
  <1>1. Probe(w) = v
    <2>1. [w EXCEPT !.c.pc = "open", !.c.retry = FALSE] = [w EXCEPT !.c = [w.c EXCEPT !.pc = "open", !.retry = FALSE]]
      BY <1>0 DEF World, Conn
    <2> QED BY <2>1, Zenon DEF Probe, WithC
  <1>2. k \in Conn /\ k.pc = "open" /\ k.round = w.c.round
    BY <1>0 DEF Conn
  <1> HIDE DEF k
  <1>3. v \in World /\ v.c = k /\ v.p = w.p /\ v.node = w.node /\ v.h = w.h /\ v.net = w.net
    BY <1>2, WithCIs
  <1> HIDE DEF v
  <1>4. Cl(v) = Cl(w) /\ Sv(v) = Sv(w) /\ ~ Fixed(v) /\ Asked(v) = Asked(w) /\ w.net.replies = {}
    BY <1>3 DEF Cl, Sv, Fixed, Asked, Core, Stage, Awaiting
  <1>5. Stage(v)
    BY <1>2, <1>3, <1>4 DEF Stage, Late
  <1>6. Rounds(v) /\ Handled(v) /\ Remote(v) /\ Modes(v)
    BY <1>2, <1>3, <1>4 DEF Core, Rounds, Handled, Remote, Modes
  <1>7. Learned(v)
    BY <1>2, <1>3, <1>4 DEF Learned
  <1>8. Core(v)
    BY <1>3, <1>4, <1>5, <1>6, <1>7 DEF Core
  <1> QED BY <1>1, <1>2, <1>3, <1>4, <1>8 DEF Agree

\* The end of probeRound.
LEMMA ProbedAgrees ==
  ASSUME NEW w \in World, Core(w), ~ w.c.reserved, ~ Fixed(w), Cl(w).reopening # "running",
         w.c.pc \in {"analyze", "reopen"}, NEW agrees
  PROVE  Agree(Probed(w, agrees))
  <1>1. \/ Probed(w, agrees) \in {Probe(w), Ask(w, "abort")}
        \/ /\ ~ Unstable(Cl(w)) /\ Cl(w).remoteFirewall # UNKNOWN
           /\ Probed(w, agrees) = RoundPunch(w)
    BY Zenon DEF Probed, AfterProbe, Cl
  <1> QED BY <1>1, ProbeAgrees, AskEarly, RoundPunchAgrees

\* The finally of roundPunch.
LEMMA UncommitAgrees ==
  ASSUME NEW w \in World, Core(w)
  PROVE  LET v == Uncommit(w)
         IN /\ v \in World /\ Core(v) /\ v.p = w.p /\ v.net = w.net /\ v.h = w.h /\ ~ v.c.reserved
            /\ v.c.pc = w.c.pc /\ v.c.isRandom = w.c.isRandom /\ v.c.round = w.c.round
            /\ w.c.reserved => v.node["client"].punches <= 0
  <1>0. w.c \in Conn /\ w.node["client"] \in Budget /\ w.c.reserved \in BOOLEAN /\ w.node["client"].punches <= 1
    BY WorldSides, ConnFields DEF Core
  <1>1. CASE ~ w.c.reserved
    BY <1>1 DEF Uncommit
  <1>2. CASE w.c.reserved
    <2> DEFINE k == [w.c EXCEPT !.reserved = FALSE]
               n == [w.node["client"] EXCEPT !.punches = @ - 1]
               v == WithCN(w, k, "client", n)
    <2>1. Uncommit(w) = v
      BY <1>2, Zenon DEF Uncommit, WithCN
    <2>2. k \in Conn /\ ~ k.reserved /\ k.isRandom = w.c.isRandom /\ k.round = w.c.round /\ k.pc = w.c.pc
      BY <1>0 DEF Conn
    <2>3. n \in Budget /\ n.punches = w.node["client"].punches - 1 /\ w.node["client"].punches \in Int
      BY <1>0 DEF Budget
    <2> HIDE DEF k, n
    <2>4. v \in World /\ Core(v) /\ v.c = k /\ v.node["client"] = n /\ v.p = w.p /\ v.h = w.h /\ v.net = w.net
      BY <1>0, <2>2, <2>3, CalmCN
    <2> HIDE DEF v
    <2> QED BY <1>0, <2>1, <2>2, <2>3, <2>4
  <1> QED BY <1>0, <1>1, <1>2

\* updateRemote, of what the argument is about.
LEMMA UpdateRemoteIs ==
  ASSUME NEW q \in Puncher, NEW m, m.firewall \in Kinds, m.punching \in BOOLEAN, NEW echoed \in BOOLEAN
  PROVE  LET t == UpdateRemote(q, m, echoed)
         IN /\ t \in Puncher /\ t.nat = q.nat /\ t.mode = q.mode /\ t.reopening = q.reopening
            /\ t.remoteFirewall = m.firewall /\ t.remoteHolepunching = m.punching
  <1> DEFINE known == m.firewall # UNKNOWN
             sure == known /\ (echoed \/ q.verified)
             f == m.firewall
             b == m.punching
  <1>1. UpdateRemote(q, m, echoed) = [q EXCEPT !.remoteFirewall = f, !.addresses = known, !.verified = sure, !.remoteHolepunching = b]
    BY Zenon DEF UpdateRemote
  <1>2. known \in BOOLEAN /\ sure \in BOOLEAN /\ f \in Kinds /\ b \in BOOLEAN /\ f = m.firewall /\ b = m.punching
    BY DEF Puncher
  <1> HIDE DEF known, sure, f, b
  <1> QED BY <1>1, <1>2 DEF Puncher

\* What the answer says of the server, once the client has settled: nothing new.
LEMMA ReplyLate ==
  ASSUME NEW w \in World, Core(w), Fixed(w), NEW m \in w.net.replies
  PROVE  LET v == WithP(w, "client", UpdateRemote(w.p["client"], m, m.echo))
         IN /\ v \in World /\ Core(v) /\ v.c = w.c /\ v.net = w.net /\ v.h = w.h /\ v.node = w.node /\ Fixed(v)
            /\ Cl(v).reopening = Cl(w).reopening /\ (RandomPair(Cl(v)) <=> RandomPair(Cl(w)))
  <1>0. m \in Reply /\ w.p["client"] \in Puncher /\ "client" \in Side
    BY AskedAre, WorldSides DEF Side
  <1> DEFINE q == UpdateRemote(w.p["client"], m, m.echo)
             v == WithP(w, "client", q)
  <1>1. /\ q \in Puncher /\ q.nat = Cl(w).nat /\ q.mode = Cl(w).mode /\ q.reopening = Cl(w).reopening
        /\ q.remoteFirewall = m.firewall
    BY <1>0, UpdateRemoteIs DEF Reply, Cl
  <1> HIDE DEF q
  <1>2. /\ v \in World /\ v.p["client"] = q /\ v.p["server"] = w.p["server"] /\ v.c = w.c /\ v.h = w.h
        /\ v.node = w.node /\ v.net = w.net
    BY <1>0, <1>1, WithPIs, SideElements
  <1> HIDE DEF v
  <1>3. Cl(v) = q /\ Sv(v) = Sv(w) /\ Fixed(v)
    BY <1>1, <1>2 DEF Cl, Sv, Fixed
  <1>4. m.firewall = Cl(w).remoteFirewall
    BY DEF Core, Learned
  <1>5. ModeIs(Cl(v)) /\ ModeIs(Sv(v))
    BY <1>1, <1>3, <1>4 DEF Core, Modes, ModeIs
  <1>6. Core(v)
    BY <1>1, <1>2, <1>3, <1>4, <1>5, CoreFrame DEF Core
  <1> QED BY <1>1, <1>2, <1>3, <1>4, <1>6 DEF v, q, RandomPair

\* The answer to a probe: what it says is what the server told.
LEMMA LearnAgrees ==
  ASSUME NEW w \in World, Core(w), ~ Fixed(w), w.c.pc = "probe", NEW m \in w.net.replies, m.error = "NONE"
  PROVE  Agree(Learn(WithP(w, "client", UpdateRemote(w.p["client"], m, m.echo)), m))
  <1>0. /\ m \in Reply /\ w.p["client"] \in Puncher /\ "client" \in Side /\ w.c \in Conn /\ w.net \in Net
    BY AskedAre, WorldSides DEF Side
  <1> DEFINE t == UpdateRemote(w.p["client"], m, m.echo)
             u == WithP(w, "client", t)
             token == m.token
             k == [u.c EXCEPT !.pc = "analyze", !.token = token]
             n == [u.net EXCEPT !.replies = {}]
             v == WithCNet(u, k, n)
             nat == AddRelay(v.p["client"].nat)
             q == [v.p["client"] EXCEPT !.nat = nat]
             x == WithP(v, "client", q)
  <1>1. /\ t \in Puncher /\ t.nat = Cl(w).nat /\ t.mode = Cl(w).mode /\ t.reopening = Cl(w).reopening
        /\ t.remoteFirewall = m.firewall
    BY <1>0, UpdateRemoteIs DEF Reply, Cl
  <1> HIDE DEF t
  <1>2. /\ u \in World /\ u.p["client"] = t /\ u.p["server"] = w.p["server"] /\ u.c = w.c /\ u.h = w.h
        /\ u.node = w.node /\ u.net = w.net
    BY <1>0, <1>1, WithPIs, SideElements
  <1> HIDE DEF u
  <1>3. Learn(u, m) = x
    <2>1. [u EXCEPT !.c.pc = "analyze", !.c.token = token, !.net.replies = {}] = v
      BY <1>0, <1>2 DEF World, Conn, Net, WithCNet
    <2> QED BY <2>1, Zenon DEF Learn, WithP
  <1>4. k \in Conn /\ k.pc = "analyze" /\ k.round = w.c.round /\ k.reserved = w.c.reserved
    <2>1. token \in BOOLEAN
      BY <1>0 DEF Reply
    <2> HIDE DEF token
    <2> QED BY <1>0, <1>2, <2>1 DEF Conn
  <1>5. n \in Net /\ n.replies = {} /\ n.requests = w.net.requests
    BY <1>0, <1>2 DEF Net
  <1> HIDE DEF k, n
  <1>6. v \in World /\ v.c = k /\ v.p = u.p /\ v.node = w.node /\ v.h = w.h /\ v.net = n
    BY <1>2, <1>4, <1>5, WithCNetIs
  <1> HIDE DEF v
  <1>7. Cl(v) = t /\ Sv(v) = Sv(w) /\ ~ Fixed(v) /\ Asked(v) = Asked(w)
    BY <1>1, <1>2, <1>5, <1>6 DEF Cl, Sv, Fixed, Asked
  <1>8. Cl(w).mode = "none" /\ Cl(w).reopening # "running"
    BY DEF Core, Modes, Stage
  <1>9. Stage(v)
    BY <1>1, <1>4, <1>5, <1>6, <1>7, <1>8 DEF Stage, Late
  <1>10. Rounds(v) /\ Handled(v)
    BY <1>4, <1>5, <1>6, <1>7 DEF Core, Rounds, Handled
  <1>11. Learned(v)
    <2>1. Told(w, m.firewall)
      BY DEF Core, Learned
    <2>2. Told(v, m.firewall)
      BY <1>5, <1>6, <1>7, <2>1 DEF Told
    <2> QED BY <1>1, <1>5, <1>6, <1>7, <2>2 DEF Learned
  <1>12. Remote(v) /\ Modes(v)
    BY <1>1, <1>5, <1>6, <1>7, <1>8 DEF Core, Remote, Modes, ModeIs
  <1>13. Core(v)
    BY <1>1, <1>6, <1>7, <1>9, <1>10, <1>11, <1>12 DEF Core
  <1>14. v.p["client"] \in Puncher /\ v.p["client"].nat \in NatType /\ Evident(v.p["client"].nat)
    BY <1>6, <1>13, SidesAre DEF Core, Cl
  <1>15. nat \in NatType /\ Grown(nat, v.p["client"].nat)
    BY <1>14, AddRelayType, NatGrows
  <1> HIDE DEF nat
  <1>16. /\ q \in Puncher /\ Quiet(q, v.p["client"]) /\ q.nat.frozen = v.p["client"].nat.frozen
    <2>1. /\ q \in Puncher /\ q.nat = nat /\ q.mode = v.p["client"].mode /\ q.reopening = v.p["client"].reopening
          /\ q.remoteFirewall = v.p["client"].remoteFirewall
          /\ q.remoteHolepunching = v.p["client"].remoteHolepunching
      BY <1>14, <1>15 DEF Puncher
    <2> QED BY <1>14, <1>15, <2>1, KeptNats DEF Quiet, Grown
  <1> HIDE DEF q
  <1>17. Follows(x, v)
    BY <1>0, <1>6, <1>13, <1>16, CalmP
  <1>18. Agree(v)
    BY <1>4, <1>6, <1>7, <1>13 DEF Agree
  <1>19. Agree(x)
    BY <1>17, <1>18, FollowsAgree
  <1> QED BY <1>3, <1>19 DEF t, u

\* What _punch does to the puncher: it sends as the two NATs ask for, if at all.
LEMMA PunchIs ==
  ASSUME NEW w \in World, NEW s \in Side
  PROVE  LET v == Punch(w, s)
         IN /\ v \in World /\ v.c = w.c /\ v.h = w.h /\ v.net = w.net
            /\ \A t \in Side \ {s} : v.p[t] = w.p[t] /\ v.node[t] = w.node[t]
            /\ v.p[s].nat = w.p[s].nat /\ v.p[s].remoteFirewall = w.p[s].remoteFirewall
            /\ v.p[s].remoteHolepunching = w.p[s].remoteHolepunching /\ v.p[s].reopening = w.p[s].reopening
            /\ v.p[s].mode \in {w.p[s].mode, "none", ModeOf(w.p[s].nat.firewall, w.p[s].remoteFirewall)}
            /\ \/ v.node[s].punches = w.node[s].punches
               \/ RandomPair(w.p[s]) /\ v.node[s].punches = w.node[s].punches + 1
  <1>0. w.p[s] \in Puncher /\ w.node[s] \in Budget /\ w.node[s].punches \in Int
    BY WorldFields DEF Budget
  <1> DEFINE q == w.p[s]
             Ok(v) == /\ v \in World /\ v.c = w.c /\ v.h = w.h /\ v.net = w.net
                      /\ \A t \in Side \ {s} : v.p[t] = w.p[t] /\ v.node[t] = w.node[t]
                      /\ v.p[s].nat = w.p[s].nat /\ v.p[s].remoteFirewall = w.p[s].remoteFirewall
                      /\ v.p[s].remoteHolepunching = w.p[s].remoteHolepunching /\ v.p[s].reopening = w.p[s].reopening
  <1>1. ASSUME NEW t \in Puncher, t.nat = q.nat, t.remoteFirewall = q.remoteFirewall,
               t.remoteHolepunching = q.remoteHolepunching, t.reopening = q.reopening
        PROVE  Ok(WithP(w, s, t)) /\ WithP(w, s, t).p[s] = t /\ WithP(w, s, t).node = w.node
    BY <1>0, <1>1, WithPIs
  <1>2. ASSUME NEW v, Ok(v), v.node = w.node, v.p[s] \in Puncher
        PROVE  LET u == IncrementRandomized(v, s)
               IN /\ Ok(u) /\ u.p[s].mode = v.p[s].mode
                  /\ u.node[s].punches \in {w.node[s].punches, w.node[s].punches + 1}
    <2> DEFINE u == IncrementRandomized(v, s)
    <2>1. /\ u \in World /\ u.c = v.c /\ u.h = v.h /\ u.net = v.net
          /\ \A t \in Side \ {s} : u.p[t] = v.p[t] /\ u.node[t] = v.node[t]
          /\ u.p[s] \in {v.p[s], [v.p[s] EXCEPT !.randomized = TRUE]}
          /\ u.node[s].punches = v.node[s].punches + 1 - One(v.p[s].randomized)
      BY <1>2, IncrementRandomizedSound
    <2> HIDE DEF u
    <2>2. /\ u.p[s].nat = v.p[s].nat /\ u.p[s].remoteFirewall = v.p[s].remoteFirewall
          /\ u.p[s].remoteHolepunching = v.p[s].remoteHolepunching /\ u.p[s].reopening = v.p[s].reopening
          /\ u.p[s].mode = v.p[s].mode
      BY <1>2, <2>1 DEF Puncher
    <2>3. u.node[s].punches \in {w.node[s].punches, w.node[s].punches + 1}
      BY <1>0, <1>2, <2>1 DEF One
    <2> QED BY <1>2, <2>1, <2>2, <2>3 DEF u
  <1>3. CASE Punch(w, s) = w
    BY <1>0, <1>3
  <1>4. CASE Punch(w, s) = [w EXCEPT !.p[s].punched = "failed"]
    <2> DEFINE t == [q EXCEPT !.punched = "failed"]
    <2>1. Punch(w, s) = WithP(w, s, t)
      BY <1>4, Zenon DEF WithP
    <2>2. /\ t \in Puncher /\ t.nat = q.nat /\ t.remoteFirewall = q.remoteFirewall /\ t.mode = q.mode
          /\ t.remoteHolepunching = q.remoteHolepunching /\ t.reopening = q.reopening
      BY <1>0 DEF Puncher
    <2> HIDE DEF t
    <2> QED BY <1>0, <1>1, <2>1, <2>2
  <1>5. ASSUME NEW mode \in {"none", "consistent", "probes", "birthday"}, NEW punched \in {"failed", "opening", "started"}
        PROVE  LET v == WithP(w, s, Punching(q, mode, punched))
               IN Ok(v) /\ v.node = w.node /\ v.p[s] \in Puncher /\ v.p[s].mode = mode
    <2> DEFINE t == Punching(q, mode, punched)
    <2>1. /\ t \in Puncher /\ t.nat = q.nat /\ t.remoteFirewall = q.remoteFirewall /\ t.mode = mode
          /\ t.remoteHolepunching = q.remoteHolepunching /\ t.reopening = q.reopening
      BY <1>0 DEF Puncher, Punching
    <2> HIDE DEF t
    <2>2. Ok(WithP(w, s, t)) /\ WithP(w, s, t).p[s] = t /\ WithP(w, s, t).node = w.node
      BY <1>1, <2>1
    <2> QED BY <2>1, <2>2 DEF t
  <1> DEFINE on(mode, punched) == WithP(w, s, Punching(q, mode, punched))
             local == q.nat.firewall
             remote == q.remoteFirewall
  <1>6. \/ Punch(w, s) \in {w, [w EXCEPT !.p[s].punched = "failed"], on("none", "failed")}
        \/ local = CONSISTENT /\ remote = CONSISTENT /\ Punch(w, s) = on("consistent", "started")
        \/ local = CONSISTENT /\ remote >= RANDOM /\ Punch(w, s) = IncrementRandomized(on("probes", "started"), s)
        \/ local >= RANDOM /\ remote = CONSISTENT /\ Punch(w, s) = IncrementRandomized(on("birthday", "opening"), s)
    BY Zenon DEF Punch, WithP
  <1>7. local \in Kinds /\ remote \in Kinds
    BY <1>0 DEF Puncher, NatType
  <1> HIDE DEF on
  <1>8. CASE Punch(w, s) = on("none", "failed")
    <2> DEFINE v == on("none", "failed")
    <2>1. Ok(v) /\ v.node = w.node /\ v.p[s].mode = "none"
      BY <1>5 DEF on
    <2> HIDE DEF v
    <2>2. Punch(w, s) = v
      BY <1>8 DEF v
    <2> QED BY <2>1, <2>2, SMTT(30)
  <1>9. CASE local = CONSISTENT /\ remote = CONSISTENT /\ Punch(w, s) = on("consistent", "started")
    <2>1. ModeOf(local, remote) = "consistent"
      BY <1>9 DEF ModeOf
    <2> DEFINE v == on("consistent", "started")
    <2>2. Ok(v) /\ v.node = w.node /\ v.p[s].mode = "consistent"
      BY <1>5 DEF on
    <2> HIDE DEF v
    <2>3. Punch(w, s) = v
      BY <1>9 DEF v
    <2> QED BY <2>1, <2>2, <2>3
  <1>10. CASE local = CONSISTENT /\ remote >= RANDOM /\ Punch(w, s) = IncrementRandomized(on("probes", "started"), s)
    <2>0. remote = RANDOM /\ local = CONSISTENT
      BY <1>7, <1>10, KindsAre, Zenon
    <2>1. remote = RANDOM /\ ModeOf(local, remote) = "probes" /\ RandomPair(q)
      BY <2>0, KindsAre, Zenon DEF ModeOf, RandomPair
    <2> DEFINE v == on("probes", "started")
    <2>2. Ok(v) /\ v.node = w.node /\ v.p[s] \in Puncher /\ v.p[s].mode = "probes"
      BY <1>5 DEF on
    <2> HIDE DEF v
    <2>3. Punch(w, s) = IncrementRandomized(v, s)
      BY <1>10 DEF v
    <2> QED BY <1>2, <2>1, <2>2, <2>3
  <1>11. CASE local >= RANDOM /\ remote = CONSISTENT /\ Punch(w, s) = IncrementRandomized(on("birthday", "opening"), s)
    <2>0. local = RANDOM /\ remote = CONSISTENT
      BY <1>7, <1>11, KindsAre, Zenon
    <2>1. local = RANDOM /\ ModeOf(local, remote) = "birthday" /\ RandomPair(q)
      BY <2>0, KindsAre, Zenon DEF ModeOf, RandomPair
    <2> DEFINE v == on("birthday", "opening")
    <2>2. Ok(v) /\ v.node = w.node /\ v.p[s] \in Puncher /\ v.p[s].mode = "birthday"
      BY <1>5 DEF on
    <2> HIDE DEF v
    <2>3. Punch(w, s) = IncrementRandomized(v, s)
      BY <1>11 DEF v
    <2> QED BY <1>2, <2>1, <2>2, <2>3
  <1> QED BY <1>3, <1>4, <1>6, <1>8, <1>9, <1>10, <1>11

\* punch() at the client, when the server said that it punches.
LEMMA ClientPunches ==
  ASSUME NEW w \in World, Core(w), Fixed(w), RandomPair(Cl(w)) => w.node["client"].punches <= 0
  PROVE  LET v == Punch(w, "client")
         IN v \in World /\ Core(v) /\ v.c = w.c /\ Cl(v).reopening = Cl(w).reopening
  <1> DEFINE v == Punch(w, "client")
  <1>0. w.node["client"].punches \in Int /\ "client" \in Side /\ "server" \in Side \ {"client"} /\ w.node["client"].punches <= 1
    BY SidesAre DEF Core, Side
  <1>1. /\ v \in World /\ v.c = w.c /\ v.h = w.h /\ v.net = w.net /\ Sv(v) = Sv(w)
        /\ Cl(v).nat = Cl(w).nat /\ Cl(v).remoteFirewall = Cl(w).remoteFirewall
        /\ Cl(v).remoteHolepunching = Cl(w).remoteHolepunching /\ Cl(v).reopening = Cl(w).reopening
        /\ Cl(v).mode \in {Cl(w).mode, "none", ModeOf(Cl(w).nat.firewall, Cl(w).remoteFirewall)}
        /\ \/ v.node["client"].punches = w.node["client"].punches
           \/ RandomPair(Cl(w)) /\ v.node["client"].punches = w.node["client"].punches + 1
    BY <1>0, PunchIs DEF Cl, Sv
  <1> HIDE DEF v
  <1>2. ModeIs(Cl(v)) /\ ModeIs(Sv(v))
    BY <1>1 DEF Core, Modes, ModeIs
  <1>3. v.node["client"].punches <= 1
    BY <1>0, <1>1
  <1>4. Core(v)
    BY <1>1, <1>2, <1>3, CoreFrame DEF Core
  <1> QED BY <1>1, <1>4 DEF v

\* punch() at the server, when the client said that it punches.
LEMMA ServerPunches ==
  ASSUME NEW w \in World, Core(w), Sv(w).remoteHolepunching
  PROVE  LET v == Punch(w, "server")
         IN v \in World /\ Core(v) /\ v.c = w.c /\ v.h = w.h /\ Cl(v) = Cl(w) /\ Sv(v).nat = Sv(w).nat
  <1> DEFINE v == Punch(w, "server")
  <1>0. "server" \in Side /\ "client" \in Side \ {"server"} /\ w.node["client"].punches <= 1
    BY DEF Core, Side
  <1>1. /\ v \in World /\ v.c = w.c /\ v.h = w.h /\ v.net = w.net /\ Cl(v) = Cl(w)
        /\ Sv(v).nat = Sv(w).nat /\ Sv(v).remoteFirewall = Sv(w).remoteFirewall
        /\ Sv(v).remoteHolepunching = Sv(w).remoteHolepunching /\ Sv(v).reopening = Sv(w).reopening
        /\ Sv(v).mode \in {Sv(w).mode, "none", ModeOf(Sv(w).nat.firewall, Sv(w).remoteFirewall)}
        /\ v.node["client"] = w.node["client"]
    BY <1>0, PunchIs DEF Cl, Sv
  <1> HIDE DEF v
  <1>2. ModeIs(Cl(v)) /\ ModeIs(Sv(v))
    BY <1>1 DEF Core, Modes, ModeIs
  <1>3. Cl(v).mode # "none" => Fixed(w)
    BY <1>1 DEF Core, Modes
  <1>4. Core(v)
    BY <1>0, <1>1, <1>2, <1>3, CoreFrame DEF Core
  <1> QED BY <1>1, <1>4 DEF v

\* The end of roundPunch.
LEMMA PunchTooAgrees ==
  ASSUME NEW w \in World, Core(w), Fixed(w), Cl(w).reopening # "running",
         RandomPair(Cl(w)) => w.node["client"].punches <= 0
  PROVE  Agree(PunchToo(w))
  <1> DEFINE v == Punch(w, "client")
             m == [v.net EXCEPT !.replies = {}]
             k == [v.c EXCEPT !.pc = "opening"]
             u == WithCNet(v, k, m)
  <1>1. v \in World /\ Core(v) /\ v.c = w.c /\ Cl(v).reopening # "running"
    BY ClientPunches
  <1>2. PunchToo(w) \in {GiveUp(w), GiveUp(v), u, End(v)}
    BY Zenon DEF PunchToo, WithCNet
  <1> HIDE DEF v
  <1>3. v.c \in Conn /\ v.net \in Net
    BY <1>1, WorldSides
  <1>4. Agree(u)
    <2>1. k \in Conn /\ k.pc = "opening" /\ k.round = v.c.round
      BY <1>3 DEF Conn
    <2>2. m \in Net /\ m.replies = {} /\ m.requests = v.net.requests
      BY <1>3 DEF Net
    <2> HIDE DEF k, m
    <2>3. u \in World /\ u.c = k /\ u.p = v.p /\ u.node = v.node /\ u.h = v.h /\ u.net = m
      BY <1>1, <2>1, <2>2, WithCNetIs
    <2> HIDE DEF u
    <2>4. Cl(u) = Cl(v) /\ Sv(u) = Sv(v) /\ (Fixed(u) <=> Fixed(v)) /\ Asked(u) = Asked(v)
      BY <2>2, <2>3 DEF Cl, Sv, Fixed, Asked
    <2>5. Stage(u)
      BY <1>1, <2>1, <2>2, <2>3, <2>4 DEF Stage, Late
    <2>6. Rounds(u) /\ Handled(u) /\ Remote(u) /\ Modes(u)
      BY <1>1, <2>1, <2>2, <2>3, <2>4 DEF Core, Rounds, Handled, Remote, Modes
    <2>7. Learned(u)
      <3>1. \A fw : Told(v, fw) => Told(u, fw)
        BY <2>2, <2>3, <2>4 DEF Told
      <3> QED BY <1>1, <2>1, <2>2, <2>3, <2>4, <3>1 DEF Core, Learned
    <2>8. Core(u)
      BY <1>1, <2>3, <2>4, <2>5, <2>6, <2>7 DEF Core
    <2> QED BY <2>1, <2>3, <2>8 DEF Agree, Early
  <1> QED BY <1>1, <1>2, <1>4, GiveUpAgrees, EndAgrees

\* An answer to the client.
LEMMA OnReplyAgrees ==
  ASSUME NEW w \in World, Agree(w), w.c.pc \in Awaiting, NEW m \in w.net.replies
  PROVE  Agree(OnReply(w, m))
  <1> DEFINE v == Uncommit(w)
             q == UpdateRemote(v.p["client"], m, m.echo)
             u == WithP(v, "client", q)
             k == [v.c EXCEPT !.delayed = TRUE]
             l == WithC(v, k)
             kind == w.c.pc
  <1>0. Core(w) /\ kind \in {"probe", "delay", "punch", "abort"} /\ Cl(w).reopening # "running"
    BY DEF Agree, Core, Stage, Awaiting
  <1>1. /\ v \in World /\ Core(v) /\ v.p = w.p /\ v.net = w.net /\ v.h = w.h /\ ~ v.c.reserved
        /\ v.c.pc = w.c.pc /\ v.c.isRandom = w.c.isRandom
        /\ w.c.reserved => v.node["client"].punches <= 0
    BY <1>0, UncommitAgrees
  <1>2. \/ OnReply(w, m) \in {GiveUp(w), GiveUp(v), End(v)}
        \/ kind = "punch" /\ OnReply(w, m) = TryLater(l, "round")
        \/ m.error = "NONE" /\ kind = "probe" /\ OnReply(w, m) = Learn(u, m)
        \/ kind = "delay" /\ OnReply(w, m) = TryLater(u, "loop")
        \/ kind \notin {"abort", "probe", "delay"} /\ OnReply(w, m) = PunchToo(u)
    BY Zenon DEF OnReply, WithP, WithC
  <1> HIDE DEF v
  <1>3. Cl(v) = Cl(w) /\ (Fixed(v) <=> Fixed(w)) /\ v.c \in Conn
    BY <1>1, WorldSides DEF Cl, Fixed
  <1>4. CASE OnReply(w, m) \in {GiveUp(w), GiveUp(v), End(v)}
    BY <1>0, <1>1, <1>3, <1>4, GiveUpAgrees, EndAgrees
  <1>5. CASE kind = "probe" /\ m.error = "NONE" /\ OnReply(w, m) = Learn(u, m)
    <2>1. ~ Fixed(v)
      BY <1>3, <1>5 DEF Agree, Early
    <2> QED BY <1>1, <1>5, <2>1, LearnAgrees
  <1>6. ASSUME kind \in {"delay", "punch"}
        PROVE  Deciding(v) /\ (kind = "punch" => w.c.reserved = w.c.isRandom)
    BY <1>0, <1>1, <1>3, <1>6 DEF Deciding, Agree, Core, Stage, Late
  <1>7. ASSUME kind \in {"delay", "punch"}
        PROVE  /\ Deciding(u) /\ u.node = v.node /\ u.c = v.c
    <2>1. Deciding(v) /\ m \in v.net.replies
      BY <1>1, <1>6, <1>7
    <2>2. /\ u \in World /\ Core(u) /\ u.c = v.c /\ u.node = v.node /\ Fixed(u)
          /\ Cl(u).reopening = Cl(v).reopening /\ (RandomPair(Cl(u)) <=> RandomPair(Cl(v)))
      BY <2>1, ReplyLate DEF Deciding
    <2> HIDE DEF u
    <2> QED BY <2>1, <2>2 DEF Deciding
  <1> HIDE DEF u
  <1>8. CASE kind = "delay" /\ OnReply(w, m) = TryLater(u, "loop")
    BY <1>7, <1>8, TryLaterAgrees
  <1>9. CASE kind = "punch" /\ OnReply(w, m) = TryLater(l, "round")
    <2>1. k \in Conn /\ k.pc = v.c.pc /\ k.isRandom = v.c.isRandom /\ k.round = v.c.round /\ k.reserved = v.c.reserved
      BY <1>3 DEF Conn
    <2> HIDE DEF k
    <2>2. Follows(l, v) /\ l.p = v.p
      BY <1>1, <2>1, CalmC, WithCIs
    <2> HIDE DEF l
    <2>3. Deciding(l)
      BY <1>6, <1>9, <2>2 DEF Follows, Same, Deciding, Cl
    <2> QED BY <1>9, <2>3, TryLaterAgrees
  <1>10. CASE kind = "punch" /\ OnReply(w, m) = PunchToo(u)
    <2>1. Deciding(u) /\ u.node = v.node /\ u.c = v.c /\ w.c.reserved = w.c.isRandom
      BY <1>6, <1>7, <1>10
    <2>2. RandomPair(Cl(u)) => u.node["client"].punches <= 0
      BY <1>1, <2>1 DEF Deciding
    <2> QED BY <1>10, <2>1, <2>2, PunchTooAgrees DEF Deciding
  <1> QED BY <1>0, <1>2, <1>4, <1>5, <1>8, <1>9, <1>10

\* A turn of _reopen, of what the argument is about.
LEMMA ReopenIs ==
  ASSUME NEW q \in Puncher, NEW samples, q.reopens < MaxReopens => samples \in Samples
  PROVE  LET t == Reopen(q, samples)
         IN /\ t \in Puncher /\ t.mode = q.mode /\ t.remoteFirewall = q.remoteFirewall
            /\ t.remoteHolepunching = q.remoteHolepunching
            /\ \/ /\ Unstable(q) /\ t.reopening = "running"
                  /\ t.nat.firewall = UNKNOWN /\ ~ t.nat.frozen /\ Evident(t.nat)
               \/ /\ t.nat = q.nat /\ t.reopening \in {"stable", "unstable"}
                  /\ t.reopening = "stable" => q.nat.firewall = CONSISTENT
  <1> DEFINE nat == FreshNat(samples)
             n == q.reopens + 1
             held == Exchanged(q.holders)
             verdict == IF q.nat.firewall = CONSISTENT THEN "stable" ELSE "unstable"
  <1>1. CASE Unstable(q) /\ q.reopens < MaxReopens /\ ~ Done(q) /\ ~ q.punching
    <2> DEFINE t == [q EXCEPT !.nat = nat, !.reopens = n, !.holders = held]
    <2>1. nat \in NatType /\ n \in Nat /\ held \in Nat /\ nat.firewall = UNKNOWN /\ ~ nat.frozen
      BY <1>1, FreshNatType DEF Puncher, FreshNat, Exchanged
    <2>2. Reopen(q, samples) = [t EXCEPT !.reopening = "running"]
      BY <1>1, Zenon DEF Reopen, Reset
    <2> HIDE DEF nat, n, held
    <2>3. Evident(nat)
      BY <2>1, KindsAre DEF Evident
    <2>4. /\ t \in Puncher /\ t.nat = nat /\ t.mode = q.mode /\ t.remoteFirewall = q.remoteFirewall
          /\ t.remoteHolepunching = q.remoteHolepunching
      BY <2>1 DEF Puncher
    <2> HIDE DEF t
    <2>5. LET u == [t EXCEPT !.reopening = "running"]
          IN /\ u \in Puncher /\ u.nat = nat /\ u.mode = q.mode /\ u.remoteFirewall = q.remoteFirewall
             /\ u.remoteHolepunching = q.remoteHolepunching /\ u.reopening = "running"
      BY <2>4 DEF Puncher
    <2> QED BY <1>1, <2>1, <2>2, <2>3, <2>5
  <1>2. CASE ~ (Unstable(q) /\ q.reopens < MaxReopens /\ ~ Done(q) /\ ~ q.punching)
    <2>1. Reopen(q, samples) = [q EXCEPT !.reopening = verdict]
      BY <1>2, Zenon DEF Reopen
    <2>2. verdict \in {"stable", "unstable"} /\ (verdict = "stable" => q.nat.firewall = CONSISTENT)
      OBVIOUS
    <2> HIDE DEF verdict
    <2>3. LET u == [q EXCEPT !.reopening = verdict]
          IN /\ u \in Puncher /\ u.nat = q.nat /\ u.mode = q.mode /\ u.remoteFirewall = q.remoteFirewall
             /\ u.remoteHolepunching = q.remoteHolepunching /\ u.reopening = verdict
      BY <2>2 DEF Puncher
    <2> QED BY <2>1, <2>2, <2>3
  <1> QED BY <1>1, <1>2

\* The client's reopening: it has settled nothing yet.
LEMMA ClientReopens ==
  ASSUME NEW w \in World, Core(w), ~ Fixed(w), w.c.pc \in {"analyze", "reopen"},
         NEW v \in World, v.c.pc = "reopen", v.c.round = w.c.round, v.h = w.h, v.net = w.net, v.node = w.node,
         Sv(v) = Sv(w), Cl(v).mode = Cl(w).mode, Cl(v).remoteFirewall = Cl(w).remoteFirewall,
         Cl(v).nat = Cl(w).nat \/ (~ Cl(v).nat.frozen /\ Evident(Cl(v).nat))
  PROVE  Agree(v)
  <1>1. ~ Fixed(v) /\ Asked(v) = Asked(w) /\ w.net.replies = {} /\ Evident(Cl(v).nat)
    BY DEF Fixed, Asked, Core, Stage, Awaiting
  <1>2. Stage(v)
    BY <1>1 DEF Stage, Late
  <1>3. Rounds(v) /\ Handled(v)
    BY <1>1 DEF Core, Rounds, Handled
  <1>4. Learned(v)
    <2>1. Told(w, Cl(w).remoteFirewall)
      BY DEF Core, Learned
    <2>2. Told(v, Cl(v).remoteFirewall)
      BY <2>1 DEF Told
    <2> QED BY <1>1, <2>2 DEF Learned
  <1>5. Remote(v) /\ Modes(v)
    BY <1>1 DEF Core, Remote, Modes, ModeIs
  <1>6. Core(v)
    BY <1>1, <1>2, <1>3, <1>4, <1>5 DEF Core
  <1> QED BY <1>1, <1>6 DEF Agree

\* The server's reopening: a NAT it told of, and one the client settled on, is stable.
LEMMA ServerReopens ==
  ASSUME NEW w \in World, Core(w), NEW v \in World, v.c = w.c, v.h = w.h, v.net = w.net, v.node = w.node,
         Cl(v) = Cl(w), Sv(v).mode = Sv(w).mode, Sv(v).remoteFirewall = Sv(w).remoteFirewall,
         Sv(v).remoteHolepunching = Sv(w).remoteHolepunching,
         \/ /\ Unstable(Sv(w)) /\ Sv(v).reopening = "running"
            /\ Sv(v).nat.firewall = UNKNOWN /\ ~ Sv(v).nat.frozen /\ Evident(Sv(v).nat)
         \/ /\ Sv(v).nat = Sv(w).nat /\ Sv(v).reopening \in {"stable", "unstable"}
            /\ Sv(v).reopening = "stable" => Sv(w).nat.firewall = CONSISTENT
  PROVE  Follows(v, w)
  <1>1. (Fixed(v) <=> Fixed(w)) /\ Asked(v) = Asked(w) /\ Evident(Sv(v).nat)
    BY DEF Fixed, Asked, Core
  <1>2. ASSUME Unstable(Sv(w))
        PROVE  ~ Fixed(w) /\ \A fw : Told(w, fw) => fw = UNKNOWN
    <2>1. Sv(w) \in Puncher
      BY SidesAre
    <2>2. ASSUME NEW fw, Told(w, fw), fw # UNKNOWN PROVE FALSE
      BY <1>2, <2>1, <2>2, UnstableIs DEF Told
    <2>3. ~ Fixed(w)
      BY <2>2 DEF Core, Learned
    <2> QED BY <2>2, <2>3
  <1>3. \A fw : Told(w, fw) => Told(v, fw)
    BY <1>2 DEF Told
  <1>4. Stage(v) /\ Rounds(v)
    BY <1>1 DEF Core, Stage, Rounds
  <1>5. Unstable(Sv(v)) => Unstable(Sv(w))
    BY DEF Unstable
  <1>6. Handled(v)
    BY <1>5 DEF Core, Handled
  <1>7. Learned(v)
    BY <1>1, <1>3 DEF Core, Learned
  <1>8. Remote(v)
    BY <1>1, <1>2 DEF Core, Remote
  <1>9. Modes(v)
    BY <1>1, <1>2 DEF Core, Modes, ModeIs, Remote
  <1>10. Core(v)
    BY <1>1, <1>4, <1>6, <1>7, <1>8, <1>9 DEF Core
  <1> QED BY <1>1, <1>10 DEF Follows, Same

\* What a side's turn of _reopen changes.
LEMMA ReopenSideIs ==
  ASSUME PlanInv, NEW w \in World, NEW s \in Side
  PROVE  LET v == ReopenSide(w, s)
         IN /\ v \in World /\ v.c = w.c /\ v.h = w.h /\ v.net = w.net /\ v.node = w.node
            /\ \A t \in Side \ {s} : v.p[t] = w.p[t]
            /\ v.p[s].mode = w.p[s].mode /\ v.p[s].remoteFirewall = w.p[s].remoteFirewall
            /\ v.p[s].remoteHolepunching = w.p[s].remoteHolepunching
            /\ \/ /\ Unstable(w.p[s]) /\ v.p[s].reopening = "running"
                  /\ v.p[s].nat.firewall = UNKNOWN /\ ~ v.p[s].nat.frozen /\ Evident(v.p[s].nat)
               \/ /\ v.p[s].nat = w.p[s].nat /\ v.p[s].reopening \in {"stable", "unstable"}
                  /\ v.p[s].reopening = "stable" => w.p[s].nat.firewall = CONSISTENT
  <1> DEFINE samples == plan.nat[s][w.p[s].reopens + 2]
             q == Reopen(w.p[s], samples)
             v == WithP(w, s, q)
  <1>0. w.p[s] \in Puncher
    BY WorldFields
  <1>1. ReopenSide(w, s) = v
    BY Zenon DEF ReopenSide, WithP
  <1>2. w.p[s].reopens < MaxReopens => samples \in Samples
    BY <1>0, HolepunchAssumption DEF PlanInv, PlanType, Puncher
  <1> HIDE DEF samples
  <1>3. /\ q \in Puncher /\ q.mode = w.p[s].mode /\ q.remoteFirewall = w.p[s].remoteFirewall
        /\ q.remoteHolepunching = w.p[s].remoteHolepunching
        /\ \/ /\ Unstable(w.p[s]) /\ q.reopening = "running"
              /\ q.nat.firewall = UNKNOWN /\ ~ q.nat.frozen /\ Evident(q.nat)
           \/ /\ q.nat = w.p[s].nat /\ q.reopening \in {"stable", "unstable"}
              /\ q.reopening = "stable" => w.p[s].nat.firewall = CONSISTENT
    BY <1>0, <1>2, ReopenIs
  <1> HIDE DEF q
  <1>4. /\ v \in World /\ v.p[s] = q /\ v.c = w.c /\ v.h = w.h /\ v.net = w.net /\ v.node = w.node
        /\ \A t \in Side \ {s} : v.p[t] = w.p[t]
    BY <1>0, <1>3, WithPIs
  <1> HIDE DEF v
  <1> QED BY <1>1, <1>3, <1>4

\* ------------------------------------------------ the steps of the client

\* A step to a state the peers agree on.
LEMMA BecomesAgree ==
  ASSUME NEW w, Agree(w), Becomes(w)
  PROVE  Agree(State)'
  <1>1. w \in World
    BY DEF Agree
  <1>2. w = [c |-> w.c, h |-> w.h, p |-> w.p, node |-> w.node, net |-> w.net]
    BY <1>1 DEF World
  <1>3. State' = w
    BY <1>2, Zenon DEF State, Becomes
  <1> QED BY <1>3

\* What the state is at a step.
LEMMA StateAgrees ==
  ASSUME HInv, Agree(State)
  PROVE  /\ State \in World /\ Core(State) /\ PlanInv
         /\ Cl(State) = p["client"] /\ Sv(State) = p["server"] /\ State.c = c /\ State.h = h /\ State.net = net
         /\ c.pc # "punch" => ~ State.c.reserved
         /\ c.pc # "reopen" => Cl(State).reopening # "running"
         /\ c.pc \in Early => ~ Fixed(State)
         /\ State.p = p /\ State.node = node
  BY StateIs, Unreserved DEF Agree, Core, Stage, HInv, Cl, Sv

\* The client probes.
LEMMA ClientProbesAgrees == ASSUME HInv, Agree(State), ClientProbes PROVE Agree(State)'
  <1> DEFINE w == IF IsDone(State) THEN End(State) ELSE Ask(State, "probe")
  <1>1. Becomes(w) /\ c.pc = "open"
    BY DEF ClientProbes
  <1>2. State \in World /\ Core(State) /\ Cl(State).reopening # "running" /\ ~ Fixed(State)
    BY <1>1, StateAgrees DEF Early
  <1>3. Agree(w)
    BY <1>2, EndAgrees, AskEarly
  <1> HIDE DEF w
  <1> QED BY <1>1, <1>3, BecomesAgree

\* It is answered.
LEMMA ClientReplyAgrees == ASSUME HInv, Agree(State), ClientReply PROVE Agree(State)'
  <1>1. PICK m \in net.replies : Becomes(OnReply(State, m))
    BY DEF ClientReply
  <1>2. State.c.pc \in Awaiting /\ m \in State.net.replies /\ State \in World
    BY StateAgrees DEF ClientReply
  <1>3. Agree(OnReply(State, m))
    BY <1>2, OnReplyAgrees
  <1> QED BY <1>1, <1>3, BecomesAgree

\* Its request fails.
LEMMA RequestFailsAgrees == ASSUME HInv, Agree(State), RequestFails PROVE Agree(State)'
  <1> DEFINE v == Uncommit(State)
  <1>1. Becomes(GiveUp(v)) /\ c.pc \in Awaiting
    BY DEF RequestFails
  <1>2. State \in World /\ Core(State) /\ Cl(State).reopening # "running"
    BY <1>1, StateAgrees DEF Awaiting
  <1>3. v \in World /\ Core(v) /\ v.p = State.p
    BY <1>2, UncommitAgrees
  <1> HIDE DEF v
  <1>4. Agree(GiveUp(v))
    BY <1>2, <1>3, GiveUpAgrees DEF Cl
  <1> QED BY <1>1, <1>4, BecomesAgree

\* Its NAT is analyzed.
LEMMA ClientAnalyzedAgrees == ASSUME HInv, Agree(State), ClientAnalyzed PROVE Agree(State)'
  <1> DEFINE v == AnalyzeAgain(State, "client")
             x == [v EXCEPT !.c.pc = "reopen"]
             w(agrees) == IF IsDone(State) THEN End(State)
                          ELSE IF Unstable(p["client"]) THEN x ELSE Probed(State, agrees)
  <1>1. PICK agrees \in {TRUE, ~ plan.faults} : Becomes(w(agrees))
    BY DEF ClientAnalyzed
  <1>2. c.pc = "analyze"
    BY DEF ClientAnalyzed
  <1>3. /\ State \in World /\ Core(State) /\ Cl(State).reopening # "running" /\ ~ Fixed(State)
        /\ State.c.pc = "analyze" /\ ~ State.c.reserved /\ PlanInv
    BY <1>2, StateAgrees DEF Early
  <1>4. Agree(x)
    <2> DEFINE k == [v.c EXCEPT !.pc = "reopen"]
    <2>1. /\ v \in World /\ v.c = State.c /\ v.h = State.h /\ v.net = State.net /\ v.node = State.node
          /\ Sv(v) = Sv(State) /\ Cl(v).mode = Cl(State).mode /\ Cl(v).remoteFirewall = Cl(State).remoteFirewall
          /\ Cl(v).nat = Cl(State).nat \/ (~ Cl(v).nat.frozen /\ Evident(Cl(v).nat))
      <3> DEFINE r == ReopenSide(State, "client")
      <3>1. v \in {State, r}
        BY DEF AnalyzeAgain
      <3>2. "client" \in Side /\ "server" \in Side \ {"client"}
        BY DEF Side
      <3>3. /\ r \in World /\ r.c = State.c /\ r.h = State.h /\ r.net = State.net /\ r.node = State.node
            /\ Sv(r) = Sv(State) /\ Cl(r).mode = Cl(State).mode /\ Cl(r).remoteFirewall = Cl(State).remoteFirewall
            /\ Cl(r).nat = Cl(State).nat \/ (~ Cl(r).nat.frozen /\ Evident(Cl(r).nat))
        BY <1>3, <3>2, ReopenSideIs DEF Cl, Sv
      <3> HIDE DEF v, r
      <3> QED BY <1>3, <3>1, <3>3
    <2> HIDE DEF v
    <2>2. x = WithC(v, k)
      BY Zenon DEF WithC
    <2>3. k \in Conn /\ k.pc = "reopen" /\ k.round = State.c.round
      BY <2>1, WorldSides DEF Conn
    <2> HIDE DEF k, x
    <2>4. x \in World /\ x.c = k /\ x.p = v.p /\ x.h = v.h /\ x.net = v.net /\ x.node = v.node
      BY <2>1, <2>2, <2>3, WithCIs
    <2>5. Cl(x) = Cl(v) /\ Sv(x) = Sv(v)
      BY <2>4 DEF Cl, Sv
    <2> QED BY <1>3, <2>1, <2>3, <2>4, <2>5, ClientReopens
  <1>5. Agree(w(agrees))
    <2> HIDE DEF x
    <2> QED BY <1>3, <1>4, EndAgrees, ProbedAgrees
  <1> HIDE DEF w
  <1> QED BY <1>1, <1>5, BecomesAgree

\* It is analyzed again.
LEMMA ClientReopenedAgrees == ASSUME HInv, Agree(State), ClientReopened PROVE Agree(State)'
  <1> DEFINE w(agrees) == IF IsDone(State) THEN End(State)
                          ELSE IF p["client"].reopening = "stable" THEN Probe(State) ELSE Probed(State, agrees)
  <1>1. PICK agrees \in {TRUE, ~ plan.faults} : Becomes(w(agrees))
    BY DEF ClientReopened
  <1>2. c.pc = "reopen" /\ p["client"].reopening # "running"
    BY DEF ClientReopened
  <1>3. /\ State \in World /\ Core(State) /\ Cl(State).reopening # "running" /\ ~ Fixed(State)
        /\ State.c.pc = "reopen" /\ ~ State.c.reserved
    BY <1>2, StateAgrees DEF Early
  <1>4. Agree(w(agrees))
    BY <1>3, EndAgrees, ProbeAgrees, ProbedAgrees
  <1> HIDE DEF w
  <1> QED BY <1>1, <1>4, BecomesAgree

\* It tries again.
LEMMA ClientWakesAgrees == ASSUME HInv, Agree(State), ClientWakes PROVE Agree(State)'
  <1> DEFINE w == IF IsDone(State) THEN End(State)
                  ELSE IF c.again = "loop" THEN AwaitBudget(State) ELSE RoundPunch(State)
  <1>1. Becomes(w) /\ c.pc = "later"
    BY DEF ClientWakes
  <1>2. State \in World /\ Core(State) /\ Cl(State).reopening # "running" /\ ~ State.c.reserved
    BY <1>1, StateAgrees
  <1>3. Deciding(State)
    BY <1>1, <1>2, StateIs DEF Deciding, Core, Stage, Late
  <1>4. Agree(w)
    BY <1>2, <1>3, EndAgrees, AwaitBudgetAgrees, RoundPunchAgrees DEF Deciding
  <1> HIDE DEF w
  <1> QED BY <1>1, <1>4, BecomesAgree

\* Its birthday sockets are open.
LEMMA ClientOpenedAgrees == ASSUME HInv, Agree(State), ClientOpened PROVE Agree(State)'
  <1>1. Becomes(End(State)) /\ c.pc = "opening"
    BY DEF ClientOpened
  <1>2. State \in World /\ Core(State) /\ Cl(State).reopening # "running"
    BY <1>1, StateAgrees
  <1>3. Agree(End(State))
    BY <1>2, EndAgrees
  <1> QED BY <1>1, <1>3, BecomesAgree

\* ----------------------------------- steps that end things, sample or count

\* c.onsocket.
LEMMA OnSocketCalm ==
  ASSUME NEW w \in World, Core(w)
  PROVE  Follows(OnSocket(w), w)
  <1> DEFINE k == [w.c EXCEPT !.stream = "direct"]
             v == WithC(w, k)
  <1>1. OnSocket(w) \in {w, DestroyPuncher(v, "client")}
    BY Zenon DEF OnSocket, WithC
  <1>2. k \in Conn /\ k.pc = w.c.pc /\ k.reserved = w.c.reserved /\ k.isRandom = w.c.isRandom /\ k.round = w.c.round
    BY WorldSides DEF Conn
  <1> HIDE DEF k
  <1>3. Follows(v, w)
    BY <1>2, CalmC
  <1> HIDE DEF v
  <1>4. Follows(DestroyPuncher(v, "client"), v)
    BY <1>3, DestroyCalm DEF Follows, Side
  <1> QED BY <1>1, <1>3, <1>4, FollowsOn, FollowsSelf

\* A punch of the server comes through.
LEMMA ClientHearsAgrees == ASSUME HInv, Agree(State), ClientHears PROVE Agree(State)'
  <1> DEFINE q == Connected(State.p["client"])
             v == WithP(State, "client", q)
             d == DecrementRandomized(v, "client")
  <1>1. Becomes(OnSocket(d))
    BY Zenon DEF ClientHears, WithP
  <1>2. /\ State \in World /\ Core(State) /\ "client" \in Side /\ State.p["client"] \in Puncher
        /\ State.p["client"].nat \in NatType /\ Evident(State.p["client"].nat)
    BY StateAgrees, WorldSides, EvidentSides DEF Side
  <1>3. /\ q \in Puncher /\ q.nat = State.p["client"].nat /\ q.mode = "none"
        /\ q.remoteFirewall = State.p["client"].remoteFirewall
        /\ q.remoteHolepunching = State.p["client"].remoteHolepunching /\ q.reopening = State.p["client"].reopening
    BY <1>2 DEF Connected, Puncher
  <1> HIDE DEF q
  <1>4. Quiet(q, State.p["client"])
    BY <1>2, <1>3, QuietSelf DEF Quiet
  <1>5. Follows(v, State)
    BY <1>2, <1>3, <1>4, CalmP
  <1> HIDE DEF v
  <1>6. Follows(d, v)
    BY <1>2, <1>5, DecrementCalm DEF Follows
  <1> HIDE DEF d
  <1>7. Follows(OnSocket(d), d)
    BY <1>6, OnSocketCalm DEF Follows
  <1>8. Follows(OnSocket(d), State)
    BY <1>5, <1>6, <1>7, FollowsOn
  <1> QED BY <1>1, <1>8, FollowsAgree, BecomesAgree

\* The server's stream, or the LAN, is first.
LEMMA DirectTrafficAgrees == ASSUME HInv, Agree(State), DirectTraffic PROVE Agree(State)'
  <1>1. Becomes(OnSocket(State))
    BY DEF DirectTraffic
  <1>2. Follows(OnSocket(State), State)
    BY StateAgrees, OnSocketCalm
  <1> QED BY <1>1, <1>2, FollowsAgree, BecomesAgree

\* The relay connects the stream, or is given up; the socket is destroyed.
LEMMA RelayAgrees == ASSUME HInv, Agree(State), RelayPairs \/ RelayFails \/ SocketCloses PROVE Agree(State)'
  <1>0. c \in Conn /\ State \in World /\ Core(State) /\ State.c = c
    BY StateTypes, StateAgrees
  <1>1. ASSUME NEW k \in Conn, k.pc = c.pc, k.reserved = c.reserved, k.isRandom = c.isRandom, k.round = c.round
        PROVE  Follows(WithC(State, k), State)
    BY <1>0, <1>1, CalmC
  <1>2. CASE RelayPairs
    <2> DEFINE k == c'
               v == WithC(State, k)
    <2>1. k \in {[c EXCEPT !.relay = "gone"], [c EXCEPT !.relay = "paired", !.stream = "relayed"]}
      BY <1>2 DEF RelayPairs
    <2>2. UNCHANGED <<plan, h, p, node, net>>
      BY <1>2 DEF RelayPairs
    <2>3. k \in Conn /\ k.pc = c.pc /\ k.reserved = c.reserved /\ k.isRandom = c.isRandom /\ k.round = c.round
      <3>1. CASE k = [c EXCEPT !.relay = "gone"]
        BY <1>0, <3>1 DEF Conn
      <3>2. CASE k = [c EXCEPT !.relay = "paired", !.stream = "relayed"]
        BY <1>0, <3>2 DEF Conn
      <3> QED BY <2>1, <3>1, <3>2, Zenon
    <2>4. Becomes(v)
      BY <2>2, StateIs, ZenonT(60) DEF Becomes, State, WithC
    <2> HIDE DEF k
    <2>5. Follows(v, State)
      BY <1>1, <2>3
    <2> QED BY <2>4, <2>5, FollowsAgree, BecomesAgree
  <1>3. CASE RelayFails
    <2> DEFINE k == [c EXCEPT !.relay = "gone"]
               v == WithC(State, k)
    <2>1. Becomes(MaybeDestroyEncryptedSocket(v))
      BY <1>3, StateIs, Zenon DEF RelayFails, WithC
    <2>2. k \in Conn /\ k.pc = c.pc /\ k.reserved = c.reserved /\ k.isRandom = c.isRandom /\ k.round = c.round
      BY <1>0 DEF Conn
    <2> HIDE DEF k
    <2>3. Follows(v, State)
      BY <1>1, <2>2
    <2> HIDE DEF v
    <2>4. Follows(MaybeDestroyEncryptedSocket(v), v)
      BY <2>3, MaybeDestroyCalm DEF Follows
    <2> QED BY <2>1, <2>3, <2>4, FollowsOn, FollowsAgree, BecomesAgree
  <1>4. CASE SocketCloses
    <2> DEFINE k == [c EXCEPT !.dead = TRUE]
               v == WithC(State, k)
    <2>1. Becomes(DestroyPuncher(v, "client"))
      BY <1>4, StateIs, Zenon DEF SocketCloses, WithC
    <2>2. k \in Conn /\ k.pc = c.pc /\ k.reserved = c.reserved /\ k.isRandom = c.isRandom /\ k.round = c.round
      BY <1>0 DEF Conn
    <2> HIDE DEF k
    <2>3. Follows(v, State)
      BY <1>1, <2>2
    <2> HIDE DEF v
    <2>4. Follows(DestroyPuncher(v, "client"), v)
      BY <2>3, DestroyCalm DEF Follows, Side
    <2> QED BY <2>1, <2>3, <2>4, FollowsOn, FollowsAgree, BecomesAgree
  <1> QED BY <1>2, <1>3, <1>4

\* The server's puncher goes, or its side of the relay.
LEMMA ServerDoneAgrees == ASSUME HInv, Agree(State), ServerDone \/ ServerRelayFails PROVE Agree(State)'
  <1>0. h \in Shake /\ State \in World /\ Core(State) /\ State.h = h
    BY StateTypes, StateAgrees
  <1>1. CASE ServerDone
    <2> DEFINE k == [h EXCEPT !.prepunching = FALSE]
               v == WithH(State, k)
    <2>1. Becomes(DestroyPuncher(v, "server"))
      BY <1>1, StateIs, Zenon DEF ServerDone, WithH
    <2>2. k \in Shake /\ k.round = h.round /\ k.handlers = h.handlers
      BY <1>0 DEF Shake
    <2> HIDE DEF k
    <2>3. Follows(v, State)
      BY <1>0, <2>2, CalmH
    <2> HIDE DEF v
    <2>4. Follows(DestroyPuncher(v, "server"), v)
      BY <2>3, DestroyCalm DEF Follows, Side
    <2> QED BY <2>1, <2>3, <2>4, FollowsOn, FollowsAgree, BecomesAgree
  <1>2. CASE ServerRelayFails
    <2> DEFINE k == [h EXCEPT !.relay = FALSE]
               v == WithH(State, k)
    <2>1. h' = k /\ UNCHANGED <<plan, c, p, node, net>>
      BY <1>2 DEF ServerRelayFails
    <2>2. k \in Shake /\ k.round = h.round /\ k.handlers = h.handlers
      BY <1>0 DEF Shake
    <2>3. Becomes(v)
      BY <2>1, Zenon DEF Becomes, State, WithH
    <2> HIDE DEF k
    <2>4. Follows(v, State)
      BY <1>0, <2>2, CalmH
    <2> QED BY <2>3, <2>4, FollowsAgree, BecomesAgree
  <1> QED BY <1>1, <1>2

\* A puncher changes by itself, in nothing the argument is about but samples.
LEMMA PuncherAgrees ==
  ASSUME HInv, Agree(State), HInv', NEW s \in Side, Quiet(p'[s], p[s]), p'[s].nat.frozen = p[s].nat.frozen,
         \A t \in Side \ {s} : p'[t] = p[t], UNCHANGED <<c, h, node, net>>
  PROVE  Agree(State)'
  <1> DEFINE v == State'
  <1>1. v \in World
    BY DEF HInv, Sound
  <1>2. v.c = State.c /\ v.h = State.h /\ v.node = State.node /\ v.net = State.net /\ v.p = p' /\ State.p = p
    BY DEF State
  <1> HIDE DEF v
  <1>3. State \in World /\ Core(State) /\ State.node[s].punches \in Int
    BY StateAgrees, WorldFields DEF Budget
  <1>4. Follows(v, State)
    BY <1>1, <1>2, <1>3, CalmPN
  <1>5. Agree(v)
    BY <1>4, FollowsAgree
  <1> QED BY <1>5 DEF v

\* A ping of autoSample is answered or lost.
LEMMA PingAgrees == ASSUME HInv, Agree(State), HInv', NEW s \in Side, Ping(s) PROVE Agree(State)'
  <1>0. p[s] \in Puncher /\ p[s].nat \in NatType /\ p \in [Side -> Puncher] /\ Evident(p[s].nat) /\ p'[s] \in Puncher
    <2>1. p[s] \in Puncher /\ p \in [Side -> Puncher] /\ State.p = p /\ State \in World /\ Core(State)
      BY StateTypes, StateAgrees
    <2>2. State' \in World /\ State'.p = p'
      BY DEF HInv, Sound, State
    <2>3. p'[s] \in Puncher
      BY <2>2, WorldFields
    <2> QED BY <2>1, <2>3, EvidentSides
  <1>1. PICK more \in BOOLEAN :
          \/ p' = [p EXCEPT ![s].nat = Skip(Add(p[s].nat), more)]
          \/ p' = [p EXCEPT ![s].nat = Skip(p[s].nat, more)]
    BY DEF Ping
  <1> DEFINE a == Skip(Add(p[s].nat), more)
             b == Skip(p[s].nat, more)
  <1>2. Grown(a, p[s].nat) /\ Grown(b, p[s].nat)
    BY <1>0, NatGrows
  <1>3. PICK nat \in {a, b} : p' = [p EXCEPT ![s].nat = nat]
    BY <1>1, Zenon
  <1>4. Grown(nat, p[s].nat)
    BY <1>2, <1>3
  <1> HIDE DEF a, b
  <1> DEFINE q == [p[s] EXCEPT !.nat = nat]
  <1>5. p' = [p EXCEPT ![s] = q]
    BY <1>3, Zenon
  <1>6. /\ q.nat = nat /\ q.mode = p[s].mode /\ q.remoteFirewall = p[s].remoteFirewall
        /\ q.remoteHolepunching = p[s].remoteHolepunching /\ q.reopening = p[s].reopening
    BY <1>0 DEF Puncher
  <1> HIDE DEF q
  <1>7. p'[s] = q /\ \A t \in Side \ {s} : p'[t] = p[t]
    BY <1>0, <1>5
  <1>8. Quiet(q, p[s]) /\ q.nat.frozen = p[s].nat.frozen
    BY <1>0, <1>4, <1>6, KeptNats DEF Quiet, Grown
  <1> QED BY <1>7, <1>8, PuncherAgrees DEF Ping

\* A birthday socket more, or all of them.
LEMMA OpenBirthdayAgrees == ASSUME HInv, Agree(State), HInv', NEW s \in Side, OpenBirthday(s) PROVE Agree(State)'
  <1>0. p[s] \in Puncher /\ p \in [Side -> Puncher] /\ Evident(p[s].nat)
    <2>1. p[s] \in Puncher /\ p \in [Side -> Puncher] /\ State.p = p /\ State \in World /\ Core(State)
      BY StateTypes, StateAgrees
    <2> QED BY <2>1, EvidentSides
  <1> DEFINE more == p[s].holders + 1
             a == [p[s] EXCEPT !.holders = more]
             b == [p[s] EXCEPT !.punched = "started"]
  <1>1. p' = [p EXCEPT ![s] = a] \/ p' = [p EXCEPT ![s] = b]
    BY Zenon DEF OpenBirthday
  <1> HIDE DEF more
  <1>2. PICK q \in {a, b} : p' = [p EXCEPT ![s] = q]
    BY <1>1, Zenon
  <1>3. /\ q.nat = p[s].nat /\ q.mode = p[s].mode /\ q.remoteFirewall = p[s].remoteFirewall
        /\ q.remoteHolepunching = p[s].remoteHolepunching /\ q.reopening = p[s].reopening
    BY <1>0, <1>2 DEF Puncher
  <1> HIDE DEF a, b
  <1>4. p'[s] = q /\ \A t \in Side \ {s} : p'[t] = p[t]
    BY <1>0, <1>2
  <1>5. Quiet(q, p[s])
    BY <1>0, <1>3, QuietSelf DEF Quiet
  <1> QED BY <1>3, <1>4, <1>5, PuncherAgrees DEF OpenBirthday

\* The tries are used up.
LEMMA GiveUpPunchingAgrees == ASSUME HInv, Agree(State), NEW s \in Side, GiveUpPunching(s) PROVE Agree(State)'
  <1>1. Becomes(DestroyPuncher(State, s))
    BY DEF GiveUpPunching
  <1>2. Follows(DestroyPuncher(State, s), State)
    BY StateAgrees, DestroyCalm
  <1> QED BY <1>1, <1>2, FollowsAgree, BecomesAgree

\* A socket that was reopened is analyzed.
LEMMA ReopensAgrees == ASSUME HInv, Agree(State), NEW s \in Side, Reopens(s) PROVE Agree(State)'
  <1> DEFINE v == ReopenSide(State, s)
  <1>0. Becomes(v) /\ p[s].reopening = "running"
    BY DEF Reopens
  <1>1. /\ State \in World /\ Core(State) /\ State.p = p /\ "server" \in Side \ {"client"} /\ "client" \in Side \ {"server"}
    BY StateAgrees DEF Side
  <1>2. /\ v \in World /\ v.c = State.c /\ v.h = State.h /\ v.net = State.net /\ v.node = State.node
        /\ \A t \in Side \ {s} : v.p[t] = State.p[t]
        /\ v.p[s].mode = State.p[s].mode /\ v.p[s].remoteFirewall = State.p[s].remoteFirewall
        /\ v.p[s].remoteHolepunching = State.p[s].remoteHolepunching
        /\ \/ /\ Unstable(State.p[s]) /\ v.p[s].reopening = "running"
              /\ v.p[s].nat.firewall = UNKNOWN /\ ~ v.p[s].nat.frozen /\ Evident(v.p[s].nat)
           \/ /\ v.p[s].nat = State.p[s].nat /\ v.p[s].reopening \in {"stable", "unstable"}
              /\ v.p[s].reopening = "stable" => State.p[s].nat.firewall = CONSISTENT
    BY <1>1, StateAgrees, ReopenSideIs
  <1> HIDE DEF v
  <1>3. CASE s = "client"
    <2>1. State.c.pc = "reopen"
      BY <1>0, <1>1, <1>3 DEF Core, Stage, Cl
    <2>2. ~ Fixed(State)
      BY <2>1 DEF Agree, Early
    <2>3. /\ Sv(v) = Sv(State) /\ Cl(v).mode = Cl(State).mode /\ Cl(v).remoteFirewall = Cl(State).remoteFirewall
          /\ Cl(v).nat = Cl(State).nat \/ (~ Cl(v).nat.frozen /\ Evident(Cl(v).nat))
      BY <1>1, <1>2, <1>3 DEF Cl, Sv
    <2>4. Agree(v)
      BY <1>1, <1>2, <2>1, <2>2, <2>3, ClientReopens
    <2> QED BY <1>0, <2>4, BecomesAgree
  <1>4. CASE s = "server"
    <2>1. Cl(v) = Cl(State)
      BY <1>1, <1>2, <1>4 DEF Cl
    <2>2. Follows(v, State)
      BY <1>1, <1>2, <1>4, <2>1, ServerReopens DEF Sv
    <2> QED BY <1>0, <2>2, FollowsAgree, BecomesAgree
  <1> QED BY <1>3, <1>4, SideElements

\* A node's budget changes, within the limit of the client's.
LEMMA OthersAgree ==
  ASSUME HInv, Agree(State), HInv', NEW s \in Side, OtherPunches(s) \/ OtherEnds(s) \/ IntervalPasses(s)
  PROVE  Agree(State)'
  <1>0. node[s] \in Budget /\ node \in [Side -> Budget] /\ node[s].punches \in Int
    BY StateTypes DEF Budget
  <1>1. UNCHANGED <<c, h, p, net>>
    BY DEF OtherPunches, OtherEnds, IntervalPasses
  <1>2. node'["client"].punches <= 1
    <2>1. State.node = node /\ node["client"].punches <= 1
      BY StateAgrees DEF Core
    <2>2. CASE OtherPunches(s)
      <3> DEFINE all == node[s].punches + 1
                 rest == node[s].others + 1
                 n == [node[s] EXCEPT !.punches = all, !.others = rest]
      <3>1. node' = [node EXCEPT ![s] = n] /\ ~ Busy(node[s])
        BY <2>2, Zenon DEF OtherPunches
      <3>2. n.punches = all
        BY <1>0 DEF Budget
      <3>3. all <= 1
        BY <1>0, <3>1 DEF Busy
      <3> HIDE DEF n, all
      <3> QED BY <1>0, <2>1, <3>1, <3>2, <3>3, SideElements
    <2>3. CASE OtherEnds(s)
      <3> DEFINE e == PunchEnds(node[s])
                 n == [e EXCEPT !.others = e.others - 1]
      <3>1. node' = [node EXCEPT ![s] = n]
        BY <2>3, Zenon DEF OtherEnds
      <3>2. e \in Budget /\ e.punches = node[s].punches - 1
        BY <1>0, PunchEndsType
      <3> HIDE DEF e
      <3>3. n.punches = e.punches
        BY <3>2 DEF Budget
      <3> HIDE DEF n
      <3> QED BY <1>0, <2>1, <3>1, <3>2, <3>3, SideElements
    <2>4. CASE IntervalPasses(s)
      <3> DEFINE n == [node[s] EXCEPT !.recent = FALSE]
      <3>1. node' = [node EXCEPT ![s] = n]
        BY <2>4, Zenon DEF IntervalPasses
      <3>2. n.punches = node[s].punches
        BY <1>0 DEF Budget
      <3> HIDE DEF n
      <3> QED BY <1>0, <2>1, <3>1, <3>2, SideElements
    <2> QED BY <2>2, <2>3, <2>4
  <1> DEFINE v == State'
  <1>3. v \in World
    BY DEF HInv, Sound
  <1>4. v.c = State.c /\ v.h = State.h /\ v.p = State.p /\ v.net = State.net /\ v.node = node'
    BY <1>1 DEF State
  <1> HIDE DEF v
  <1>5. State \in World /\ Core(State) /\ Cl(v) = Cl(State) /\ Sv(v) = Sv(State)
    BY <1>4, StateAgrees DEF Cl, Sv
  <1>6. ModeIs(Cl(v)) /\ ModeIs(Sv(v)) /\ (Cl(v).mode # "none" => Fixed(State))
    BY <1>5 DEF Core, Modes
  <1>7. Core(v)
    BY <1>2, <1>3, <1>4, <1>5, <1>6, CoreFrame
  <1>8. Follows(v, State)
    BY <1>3, <1>4, <1>5, <1>7 DEF Follows, Same, Fixed
  <1>9. Agree(v)
    BY <1>8, FollowsAgree
  <1> QED BY <1>9 DEF v

\* ------------------------------------------------ the handlers of the server

\* A handler that returns null.
LEMMA SilentCalm ==
  ASSUME NEW w \in World, Core(w), NEW r \in Handler
  PROVE  Follows(Silent(w, r), w)
  <1> DEFINE k == [w.h EXCEPT !.handlers = @ \ {r}]
  <1>1. Silent(w, r) = WithH(w, k)
    BY Zenon DEF Silent, WithH
  <1>2. k \in Shake /\ k.round = w.h.round /\ k.handlers \subseteq w.h.handlers
    BY WorldSides DEF Shake
  <1> HIDE DEF k
  <1> QED BY <1>1, <1>2, CalmH

\* A handler goes past the analysis of its round only if the pair can be punched.
LEMMA AtAgrees ==
  ASSUME NEW w \in World, Core(w), NEW r \in w.h.handlers,
         NEW pc \in {"analyze", "reopen", "ping", "decide", "punch"},
         pc \in {"ping", "decide", "punch"} /\ r.m.round = w.h.round => ~ Unstable(Sv(w))
  PROVE  Follows(At(w, r, pc), w)
  <1> DEFINE t == [r EXCEPT !.pc = pc]
             k == [w.h EXCEPT !.handlers = (@ \ {r}) \cup {t}]
             v == WithH(w, k)
  <1>1. At(w, r, pc) = v
    BY Zenon DEF At, WithH
  <1>2. r \in Handler /\ w.h \in Shake
    BY AskedAre, WorldSides
  <1>3. t \in Handler /\ t.m = r.m /\ t.pc = pc
    BY <1>2 DEF Handler
  <1> HIDE DEF t
  <1>4. k \in Shake /\ k.round = w.h.round /\ k.handlers = (w.h.handlers \ {r}) \cup {t}
    BY <1>2, <1>3 DEF Shake
  <1> HIDE DEF k
  <1>5. v \in World /\ v.h = k /\ v.c = w.c /\ v.p = w.p /\ v.node = w.node /\ v.net = w.net
    BY <1>4, WithHIs
  <1> HIDE DEF v
  <1>6. Cl(v) = Cl(w) /\ Sv(v) = Sv(w) /\ (Fixed(v) <=> Fixed(w))
    BY <1>5 DEF Cl, Sv, Fixed
  <1>7. Asked(v) \subseteq Asked(w)
    BY <1>3, <1>4, <1>5 DEF Asked
  <1>8. Stage(v)
    BY <1>5, <1>6 DEF Core, Stage
  <1>9. Rounds(v)
    BY <1>4, <1>5, <1>6, <1>7 DEF Core, Rounds
  <1>10. Handled(v)
    <2> SUFFICES ASSUME NEW x \in v.h.handlers
                 PROVE  /\ x.m.kind # "abort" /\ x.m.round <= v.h.round
                        /\ x.m.round = v.h.round => Sv(v).remoteFirewall = x.m.firewall
                        /\ x.m.round = v.h.round /\ Past(x) => ~ Unstable(Sv(v))
      BY DEF Handled
    <2>1. CASE x \in w.h.handlers
      BY <1>4, <1>5, <1>6, <2>1 DEF Core, Handled
    <2>2. CASE x = t
      BY <1>3, <1>4, <1>5, <1>6, <2>2 DEF Core, Handled, Past
    <2> QED BY <1>4, <1>5, <2>1, <2>2
  <1>11. Learned(v)
    <2>1. \A fw : Told(w, fw) => Told(v, fw)
      BY <1>4, <1>5, <1>6 DEF Told
    <2> QED BY <1>5, <1>6, <2>1 DEF Core, Learned
  <1>12. Remote(v) /\ Modes(v)
    BY <1>4, <1>5, <1>6 DEF Core, Remote, Modes
  <1>13. Core(v)
    BY <1>5, <1>6, <1>8, <1>9, <1>10, <1>11, <1>12 DEF Core
  <1> QED BY <1>1, <1>5, <1>6, <1>13 DEF Follows, Same

\* What the server tells in an answer the client still waits for stays true: the
\* handler's request is the last one the client sent.
LEMMA ToldIn ==
  ASSUME NEW w \in World, Core(w), NEW r \in w.h.handlers, Past(r), w.c.round = r.m.round + 1,
         Sv(w).nat.firewall # UNKNOWN => Sv(w).nat.frozen
  PROVE  Told(w, Sv(w).nat.firewall)
  <1>0. /\ r.m \in Asked(w) /\ r.m.round \in Nat /\ w.h.round \in Nat /\ w.c.round \in Nat /\ Sv(w) \in Puncher
        /\ \A m \in w.net.requests : m \in Asked(w) /\ m.round \in Nat
    BY AskedAre, SidesAre
  <1>1. r.m.round = w.h.round
    BY <1>0 DEF Core, Rounds, Handled
  <1>2. Sv(w).remoteFirewall = r.m.firewall /\ ~ Unstable(Sv(w))
    BY <1>1 DEF Core, Handled
  <1>3. Sv(w).nat.firewall = RANDOM => Sv(w).remoteFirewall # RANDOM
    BY <1>0, <1>2, UnstableIs
  <1>4. ASSUME NEW m \in w.net.requests, m.round >= w.h.round PROVE m.firewall = Sv(w).remoteFirewall
    <2>1. m.round < w.c.round
      BY <1>0 DEF Core, Rounds
    <2>2. m.round = r.m.round
      BY <1>0, <1>1, <1>4, <2>1
    <2>3. m = r.m
      BY <1>0, <2>2 DEF Core, Rounds
    <2> QED BY <1>2, <2>3
  <1> QED BY <1>3, <1>4 DEF Told

\* An answer of the server.
LEMMA AnswerAgrees ==
  ASSUME PlanInv, NEW w \in World, Core(w), NEW r \in Handler, NEW error \in {"NONE", "ABORTED", "TRY_LATER"},
         error = "NONE" => r \in w.h.handlers /\ Past(r) /\ (Sv(w).nat.firewall # UNKNOWN => Sv(w).nat.frozen)
  PROVE  Follows(Answer(w, r, error), w)
  <1>0. w.p["server"] \in Puncher /\ w.h \in Shake /\ w.net \in Net
    BY WorldSides
  <1> DEFINE q == w.p["server"]
             m == [error |-> error, firewall |-> q.nat.firewall, punching |-> q.punching,
                   token |-> plan.trusted, echo |-> r.m.token]
             k == [w.h EXCEPT !.handlers = @ \ {r}]
             v == WithH(w, k)
             n == [v.net EXCEPT !.replies = @ \cup {m}]
             u == WithNet(v, n)
  <1>1. \/ Answer(w, r, error) = v
        \/ w.c.round = r.m.round + 1 /\ w.c.pc \in Awaiting /\ Answer(w, r, error) = u
    BY Zenon DEF Answer, WithH, WithNet
  <1>2. m \in Reply /\ m.error = error /\ m.firewall = Sv(w).nat.firewall
    BY <1>0 DEF Reply, Puncher, NatType, PlanInv, PlanType, Handler, Requests, Sv
  <1>3. k \in Shake /\ k.round = w.h.round /\ k.handlers \subseteq w.h.handlers
    BY <1>0 DEF Shake
  <1> HIDE DEF m, k
  <1>4. Follows(v, w) /\ v.h = k /\ v.c = w.c /\ v.p = w.p /\ v.node = w.node /\ v.net = w.net
    BY <1>3, CalmH, WithHIs
  <1> HIDE DEF v
  <1>5. ASSUME w.c.round = r.m.round + 1, w.c.pc \in Awaiting PROVE Follows(u, w)
    <2>1. n \in Net /\ n.requests = w.net.requests /\ n.replies = w.net.replies \cup {m}
      BY <1>0, <1>2, <1>4 DEF Net
    <2> HIDE DEF n
    <2>2. u \in World /\ u.net = n /\ u.h = k /\ u.c = w.c /\ u.p = w.p /\ u.node = w.node
      BY <1>4, <2>1, WithNetIs DEF Follows
    <2> HIDE DEF u
    <2>3. Cl(u) = Cl(w) /\ Sv(u) = Sv(w) /\ (Fixed(u) <=> Fixed(w)) /\ Asked(u) \subseteq Asked(w)
      BY <1>3, <2>1, <2>2 DEF Cl, Sv, Fixed, Asked
    <2>4. Stage(u)
      BY <1>5, <2>2, <2>3 DEF Core, Stage
    <2>5. Rounds(u)
      BY <1>3, <2>2, <2>3 DEF Core, Rounds
    <2>6. Handled(u)
      BY <1>3, <2>2, <2>3 DEF Core, Handled
    <2>7. Learned(u)
      <3>1. \A fw : Told(w, fw) => Told(u, fw)
        BY <1>3, <2>1, <2>2, <2>3 DEF Told
      <3>2. error = "NONE" => Told(w, m.firewall)
        BY <1>2, <1>5, ToldIn
      <3>3. Fixed(w) => m.firewall = Cl(w).remoteFirewall
        BY <1>2, Settled
      <3> QED BY <1>2, <2>1, <2>2, <2>3, <3>1, <3>2, <3>3 DEF Core, Learned
    <2>8. Remote(u) /\ Modes(u)
      BY <1>3, <2>1, <2>2, <2>3 DEF Core, Remote, Modes
    <2>9. Core(u)
      BY <2>2, <2>3, <2>4, <2>5, <2>6, <2>7, <2>8 DEF Core
    <2> QED BY <2>2, <2>3, <2>9 DEF Follows, Same
  <1> QED BY <1>1, <1>4, <1>5

\* _abort answers and destroys the puncher.
LEMMA AbortServerAgrees ==
  ASSUME PlanInv, NEW w \in World, Core(w), NEW r \in Handler, NEW error \in {"ABORTED", "TRY_LATER"}
  PROVE  Follows(AbortServer(w, r, error), w)
  <1> DEFINE v == Answer(w, r, error)
  <1>1. Follows(v, w)
    BY AnswerAgrees
  <1>2. AbortServer(w, r, error) = DestroyPuncher(v, "server")
    BY DEF AbortServer
  <1> HIDE DEF v
  <1>3. Follows(DestroyPuncher(v, "server"), v)
    BY <1>1, DestroyCalm DEF Follows, Side
  <1> QED BY <1>1, <1>2, <1>3, FollowsOn

\* The answer freezes the analysis it tells.
LEMMA TellAgrees ==
  ASSUME PlanInv, NEW w \in World, Core(w), NEW r \in w.h.handlers, Past(r)
  PROVE  Follows(Tell(w, r), w)
  <1> DEFINE nat == Freeze(w.p["server"].nat)
             q == [w.p["server"] EXCEPT !.nat = nat]
             v == WithP(w, "server", q)
  <1>0. /\ w.p["server"] \in Puncher /\ w.p["server"].nat \in NatType /\ Evident(w.p["server"].nat)
        /\ r \in Handler /\ "server" \in Side
    BY WorldSides, EvidentSides, AskedAre DEF Side
  <1>1. \/ Sv(w).nat.firewall = UNKNOWN /\ Tell(w, r) = Answer(w, r, "NONE")
        \/ Tell(w, r) = Answer(v, r, "NONE")
    BY Zenon DEF Tell, WithP, Sv
  <1>2. /\ nat \in NatType /\ nat.frozen /\ nat.firewall = w.p["server"].nat.firewall
        /\ nat.samples = w.p["server"].nat.samples /\ nat.sampled = w.p["server"].nat.sampled
    BY <1>0 DEF Freeze, NatType
  <1> HIDE DEF nat
  <1>3. /\ q \in Puncher /\ q.nat = nat /\ q.mode = w.p["server"].mode
        /\ q.remoteFirewall = w.p["server"].remoteFirewall
        /\ q.remoteHolepunching = w.p["server"].remoteHolepunching /\ q.reopening = w.p["server"].reopening
    BY <1>0, <1>2 DEF Puncher
  <1> HIDE DEF q
  <1>4. Quiet(q, w.p["server"])
    BY <1>0, <1>2, <1>3, KeptNats DEF Quiet
  <1>5. Follows(v, w) /\ v.h = w.h /\ v.p["server"] = q
    BY <1>0, <1>3, <1>4, CalmP, WithPIs
  <1> HIDE DEF v
  <1>6. Follows(Answer(v, r, "NONE"), v)
    BY <1>0, <1>2, <1>3, <1>5, AnswerAgrees DEF Follows, Sv
  <1>7. Follows(Answer(v, r, "NONE"), w)
    BY <1>5, <1>6, FollowsOn
  <1>8. Sv(w).nat.firewall = UNKNOWN => Follows(Answer(w, r, "NONE"), w)
    BY <1>0, AnswerAgrees
  <1> QED BY <1>1, <1>7, <1>8

\* The end of a handler that punches.
LEMMA PunchedAgrees ==
  ASSUME PlanInv, NEW w \in World, Core(w), NEW r \in w.h.handlers, Past(r)
  PROVE  Follows(Punched(w, r), w)
  <1>1. Punched(w, r) \in {Silent(w, r), AbortServer(w, r, "ABORTED"), At(w, r, "punch"), Tell(w, r)}
    BY Zenon DEF Punched
  <1>2. r \in Handler
    BY AskedAre
  <1>3. r.m.round = w.h.round => ~ Unstable(Sv(w))
    BY DEF Core, Handled
  <1>4. Follows(At(w, r, "punch"), w)
    BY <1>3, AtAgrees
  <1> QED BY <1>1, <1>2, <1>4, SilentCalm, AbortServerAgrees, TellAgrees

\* The server punches only when it was told that the client does.
LEMMA PunchBackAgrees ==
  ASSUME PlanInv, NEW w \in World, Core(w), NEW r \in w.h.handlers, Past(r), NEW agrees
  PROVE  Follows(PunchBack(w, r, agrees), w)
  <1> DEFINE k == [w.h EXCEPT !.prepunching = FALSE]
             v == WithH(w, k)
             u == Punch(v, "server")
  <1>0. w.h \in Shake /\ r \in Handler
    BY WorldSides, AskedAre
  <1>1. \/ PunchBack(w, r, agrees) \in {Tell(w, r), AbortServer(w, r, "ABORTED"), Answer(v, r, "TRY_LATER"),
                                        AbortServer(v, r, "TRY_LATER")}
        \/ Sv(w).remoteHolepunching /\ PunchBack(w, r, agrees) = Punched(u, r)
    BY Zenon DEF PunchBack, WithH, Sv
  <1>2. k \in Shake /\ k.round = w.h.round /\ k.handlers = w.h.handlers
    BY <1>0 DEF Shake
  <1> HIDE DEF k
  <1>3. Follows(v, w) /\ v.h = k /\ v.p = w.p /\ v \in World /\ Core(v)
    BY <1>2, CalmH, WithHIs DEF Follows
  <1> HIDE DEF v
  <1>4. Follows(Answer(v, r, "TRY_LATER"), v) /\ Follows(AbortServer(v, r, "TRY_LATER"), v)
    BY <1>0, <1>3, AnswerAgrees, AbortServerAgrees
  <1>5. ASSUME Sv(w).remoteHolepunching PROVE Follows(Punched(u, r), v)
    <2>1. u \in World /\ Core(u) /\ u.c = v.c /\ u.h = v.h /\ Cl(u) = Cl(v)
      BY <1>3, <1>5, ServerPunches DEF Sv
    <2> HIDE DEF u
    <2>2. Follows(u, v)
      BY <2>1 DEF Follows, Same, Fixed
    <2>3. Follows(Punched(u, r), u)
      BY <1>2, <1>3, <2>1, PunchedAgrees
    <2> QED BY <2>2, <2>3, FollowsOn
  <1>6. Follows(Tell(w, r), w) /\ Follows(AbortServer(w, r, "ABORTED"), w)
    BY <1>0, TellAgrees, AbortServerAgrees
  <1> HIDE DEF u
  <1> QED BY <1>1, <1>3, <1>4, <1>5, <1>6, FollowsOn

\* The ping of the fast mode.
LEMMA FastOpenAgrees ==
  ASSUME NEW w \in World, Core(w), NEW r \in w.h.handlers, ~ Unstable(Sv(w))
  PROVE  Follows(FastOpen(w, r), w)
  <1>1. FastOpen(w, r) \in {At(w, r, "ping"), At(w, r, "decide")}
    BY Zenon DEF FastOpen
  <1>2. Follows(At(w, r, "ping"), w) /\ Follows(At(w, r, "decide"), w)
    BY AtAgrees
  <1> QED BY <1>1, <1>2

\* An abort is heard of: the round is known, whatever came before it.
LEMMA RaiseAgrees ==
  ASSUME NEW w \in World, Core(w), NEW m \in w.net.requests, NEW v \in World,
         v.c = w.c, v.p = w.p, v.node = w.node, v.h.handlers = w.h.handlers,
         v.h.round \in {w.h.round, m.round}, v.h.round >= w.h.round,
         v.net.requests \subseteq w.net.requests, v.net.replies = w.net.replies
  PROVE  Follows(v, w)
  <1>0. /\ m \in Asked(w) /\ m.round \in Nat /\ w.h.round \in Nat /\ w.c.round \in Nat
        /\ \A r \in w.h.handlers : r.m.round \in Nat
        /\ \A n \in w.net.requests : n.round \in Nat
    BY AskedAre, SidesAre
  <1>1. Cl(v) = Cl(w) /\ Sv(v) = Sv(w) /\ (Fixed(v) <=> Fixed(w)) /\ Asked(v) \subseteq Asked(w)
    BY DEF Cl, Sv, Fixed, Asked
  <1>2. Stage(v)
    BY <1>1 DEF Core, Stage
  <1>3. Rounds(v)
    BY <1>0, <1>1 DEF Core, Rounds
  <1>4. Handled(v)
    <2>1. \A r \in w.h.handlers : r.m.round <= w.h.round
      BY DEF Core, Handled
    <2>2. \A r \in w.h.handlers : r.m.round <= v.h.round /\ (r.m.round = v.h.round => v.h.round = w.h.round)
      BY <1>0, <2>1
    <2> QED BY <1>1, <2>2 DEF Core, Handled
  <1>5. Learned(v)
    <2>1. \A n \in w.net.requests : n.round >= v.h.round => n.round >= w.h.round
      BY <1>0
    <2>2. \A fw : Told(w, fw) => Told(v, fw)
      BY <1>1, <2>1 DEF Told
    <2> QED BY <1>1, <2>2 DEF Core, Learned
  <1>6. Remote(v)
    <2>1. \A n \in w.net.requests : n.round < w.h.round => n.round < v.h.round
      BY <1>0
    <2> QED BY <1>1, <2>1 DEF Core, Remote
  <1>7. Core(v)
    BY <1>1, <1>2, <1>3, <1>4, <1>5, <1>6 DEF Core, Modes
  <1> QED BY <1>1, <1>7 DEF Follows, Same

\* A request is heard: what a later round said stays, and what this one says is
\* what the client settled on, if the server goes by it.
LEMMA HearAgrees ==
  ASSUME NEW w \in World, Core(w), NEW m \in w.net.requests, m.kind # "abort", NEW v \in World,
         v.c = w.c, Cl(v) = Cl(w), v.node = w.node,
         v.net.requests \subseteq w.net.requests, v.net.replies = w.net.replies,
         NEW r \in Handler, r.m = m, r.pc = "analyze", v.h.handlers = w.h.handlers \cup {r},
         Kept(Sv(v).nat, Sv(w).nat), Sv(v).mode = Sv(w).mode, Sv(v).reopening = Sv(w).reopening,
         \/ /\ m.round < w.h.round /\ v.h.round = w.h.round
            /\ Sv(v).remoteFirewall = Sv(w).remoteFirewall
            /\ Sv(v).remoteHolepunching = Sv(w).remoteHolepunching
         \/ /\ ~ (m.round < w.h.round) /\ v.h.round = m.round
            /\ Sv(v).remoteFirewall = m.firewall /\ Sv(v).remoteHolepunching = m.punching
  PROVE  Follows(v, w)
  <1> DEFINE late == m.round < w.h.round
  <1>0. /\ m \in Asked(w) /\ m.round \in Nat /\ w.h.round \in Nat /\ w.c.round \in Nat
        /\ \A t \in w.h.handlers : t.m \in Asked(w) /\ t.m.round \in Nat
        /\ \A n \in w.net.requests : n \in Asked(w) /\ n.round \in Nat
        /\ m.kind \in {"probe", "delay", "punch"}
    BY AskedAre, SidesAre DEF Awaiting
  <1>1. (Fixed(v) <=> Fixed(w)) /\ Asked(v) \subseteq Asked(w) /\ v.h.round \in Nat /\ w.h.round <= v.h.round
        /\ v.h.round \in {w.h.round, m.round}
    BY <1>0 DEF Fixed, Asked
  <1>2. Fixed(w) => Sv(v).nat.firewall = Sv(w).nat.firewall
    BY Settled DEF Kept
  <1>3. Stage(v)
    BY <1>1 DEF Core, Stage
  <1>4. Rounds(v)
    BY <1>0, <1>1 DEF Core, Rounds
  <1>5. Sv(v).remoteFirewall = Sv(w).remoteFirewall /\ ~ Unstable(Sv(w)) => ~ Unstable(Sv(v))
    BY SidesAre, UnstableIs, KindsAre DEF Kept
  <1>6. Handled(v)
    <2> SUFFICES ASSUME NEW t \in v.h.handlers
                 PROVE  /\ t.m.kind # "abort" /\ t.m.round <= v.h.round
                        /\ t.m.round = v.h.round => Sv(v).remoteFirewall = t.m.firewall
                        /\ t.m.round = v.h.round /\ Past(t) => ~ Unstable(Sv(v))
      BY DEF Handled
    <2>1. CASE t = r
      BY <1>0, <1>1, <2>1 DEF Past
    <2>2. CASE t \in w.h.handlers
      <3>1. /\ t.m.kind # "abort" /\ t.m.round <= w.h.round
            /\ t.m.round = w.h.round => Sv(w).remoteFirewall = t.m.firewall
            /\ t.m.round = w.h.round /\ Past(t) => ~ Unstable(Sv(w))
        BY <2>2 DEF Core, Handled
      <3>2. t.m.round <= v.h.round
        BY <1>0, <1>1, <2>2, <3>1
      <3>3. ASSUME t.m.round = v.h.round
            PROVE  t.m.round = w.h.round /\ Sv(v).remoteFirewall = Sv(w).remoteFirewall
        <4>1. t.m.round = w.h.round
          BY <1>0, <1>1, <2>2, <3>1, <3>3
        <4>2. CASE late
          BY <4>1, <4>2
        <4>3. CASE ~ late
          <5>1. t.m.round = m.round
            BY <3>3, <4>3
          <5>2. t.m = m
            BY <1>0, <2>2, <5>1 DEF Core, Rounds
          <5> QED BY <3>1, <4>1, <4>3, <5>2
        <4> QED BY <4>1, <4>2, <4>3
      <3> QED BY <1>5, <3>1, <3>2, <3>3
    <2> QED BY <2>1, <2>2
  <1>7. Learned(v)
    <2>1. \A n \in w.net.requests : n.round >= v.h.round => n.round >= w.h.round
      BY <1>0, <1>1
    <2>2. ~ late => m.round >= w.h.round
      BY <1>0
    <2>3. ASSUME NEW fw, Told(w, fw) PROVE Told(v, fw)
      <3>1. fw # UNKNOWN => Sv(v).nat.frozen /\ Sv(v).nat.firewall = fw
        BY <2>3 DEF Told, Kept
      <3>2. fw # UNKNOWN /\ fw = RANDOM => Sv(v).remoteFirewall # RANDOM
        BY <2>2, <2>3 DEF Told
      <3>3. fw # UNKNOWN /\ fw = RANDOM => \A n \in v.net.requests : n.round >= v.h.round => n.firewall # RANDOM
        BY <2>1, <2>3 DEF Told
      <3> QED BY <3>1, <3>2, <3>3 DEF Told
    <2> QED BY <1>1, <2>3 DEF Core, Learned
  <1>8. Remote(v)
    <2>1. Sv(v).reopening = "stable" => Sv(v).nat.firewall = CONSISTENT
      BY DEF Core, Remote, Kept
    <2>2. ASSUME Sv(v).remoteHolepunching \/ Sv(v).mode # "none"
          PROVE  /\ Fixed(v) /\ Sv(v).remoteFirewall = Cl(v).nat.firewall
                 /\ \A n \in v.net.requests : n.kind = "probe" => n.round < v.h.round
      <3>1. CASE late
        BY <1>1, <2>2, <3>1 DEF Core, Remote
      <3>2. CASE ~ late /\ m.punching
        <4>1. m.kind = "punch"
          BY <1>0, <3>2 DEF Core, Rounds
        <4>2. Fixed(w) /\ m.firewall = Cl(w).nat.firewall
          BY <1>0, <4>1 DEF Core, Rounds
        <4>3. \A n \in w.net.requests : n.kind = "probe" => n.round < m.round
          BY <1>0, <4>1 DEF Core, Rounds
        <4> QED BY <1>1, <3>2, <4>2, <4>3
      <3>3. CASE ~ late /\ ~ m.punching
        <4>1. Sv(w).mode # "none"
          BY <2>2, <3>3
        <4>2. Fixed(w) /\ \A n \in w.net.requests : n.kind = "probe" => n.round < w.h.round
          BY <4>1 DEF Core, Remote
        <4>3. m.kind \in {"delay", "punch"}
          BY <1>0, <3>3, <4>2
        <4>4. m.firewall = Cl(w).nat.firewall
          BY <1>0, <4>3 DEF Core, Rounds
        <4>5. \A n \in w.net.requests : n.kind = "probe" => n.round < v.h.round
          BY <1>0, <1>1, <4>2
        <4> QED BY <1>1, <3>3, <4>2, <4>4, <4>5
      <3> QED BY <3>1, <3>2, <3>3
    <2> QED BY <2>1, <2>2 DEF Remote
  <1>9. Modes(v)
    <2>1. ModeIs(Cl(v)) /\ (Cl(v).mode # "none" => Fixed(v))
      BY <1>1 DEF Core, Modes
    <2>2. ASSUME Sv(v).mode # "none" PROVE Sv(v).mode = ModeOf(Sv(v).nat.firewall, Sv(v).remoteFirewall)
      <3>1. Fixed(w) /\ Sv(w).remoteFirewall = Cl(w).nat.firewall
        BY <2>2 DEF Core, Remote
      <3>2. Sv(v).remoteFirewall = Cl(v).nat.firewall
        BY <1>8, <2>2 DEF Remote
      <3>3. Sv(w).mode = ModeOf(Sv(w).nat.firewall, Sv(w).remoteFirewall)
        BY <2>2 DEF Core, Modes, ModeIs
      <3> QED BY <1>2, <3>1, <3>2, <3>3
    <2> QED BY <2>1, <2>2 DEF Modes, ModeIs
  <1>10. Core(v)
    BY <1>3, <1>4, <1>6, <1>7, <1>8, <1>9 DEF Core, Kept
  <1> QED BY <1>1, <1>10 DEF Follows, Same

\* _onpeerholepunch up to its first await, of a request that left the network or
\* stays there to come again.
LEMMA OnRequestAgrees ==
  ASSUME PlanInv, NEW w \in World, Core(w), NEW m \in w.net.requests, NEW x \in World,
         x.c = w.c, x.p = w.p, x.node = w.node, x.h = w.h,
         x.net.requests \subseteq w.net.requests, x.net.replies = w.net.replies, NEW copy \in Nat
  PROVE  Follows(OnRequest(x, m, copy), w)
  <1> DEFINE nat == AddRelay(x.p["server"].nat)
             q == [x.p["server"] EXCEPT !.nat = nat]
             v == IF m.direct THEN WithP(x, "server", q) ELSE x
             r == [m |-> m, copy |-> copy, pc |-> "analyze"]
  <1>0. /\ x.h \in Shake /\ x.p["server"] \in Puncher /\ x.p["server"].nat \in NatType /\ "server" \in Side
        /\ "client" \in Side \ {"server"} /\ m \in Requests /\ m.round \in Nat /\ Evident(x.p["server"].nat)
        /\ x.h.round \in Nat
    BY WorldSides, AskedAre, EvidentSides, SidesAre DEF Side
  <1>1. r \in Handler /\ r.m = m /\ r.pc = "analyze"
    BY <1>0 DEF Handler
  <1>2. CASE m.kind = "abort"
    <2> DEFINE n == Max({x.h.round, m.round})
               k == [x.h EXCEPT !.round = n]
               u == WithH(x, k)
    <2>1. OnRequest(x, m, copy) = AbortServer(u, r, "ABORTED")
      BY <1>2, Zenon DEF OnRequest, WithH
    <2>2. n \in {x.h.round, m.round} /\ n >= x.h.round
      <3>1. \E i \in {x.h.round, m.round} : \A j \in {x.h.round, m.round} : i >= j
        BY <1>0
      <3> QED BY <3>1, Zenon DEF Max
    <2> HIDE DEF n
    <2>3. k \in Shake /\ k.round = n /\ k.handlers = x.h.handlers
      BY <1>0, <2>2 DEF Shake
    <2> HIDE DEF k
    <2>4. u \in World /\ u.h = k /\ u.c = x.c /\ u.p = x.p /\ u.node = x.node /\ u.net = x.net
      BY <2>3, WithHIs
    <2> HIDE DEF u, r
    <2>5. Follows(u, w)
      BY <2>2, <2>3, <2>4, RaiseAgrees
    <2>6. Follows(AbortServer(u, r, "ABORTED"), u)
      BY <1>1, <2>5, AbortServerAgrees DEF Follows
    <2> QED BY <2>1, <2>5, <2>6, FollowsOn
  <1>3. CASE m.kind # "abort"
    <2> DEFINE u == Heard(v, m)
               k == [u.h EXCEPT !.handlers = @ \cup {r}]
               z == WithH(u, k)
    <2>1. OnRequest(x, m, copy) = z
      BY <1>3, Zenon DEF OnRequest, WithH, WithP
    <2>2. /\ v \in World /\ v.c = x.c /\ v.h = x.h /\ v.node = x.node /\ v.net = x.net
          /\ v.p["client"] = x.p["client"] /\ v.p["server"] \in Puncher
          /\ Kept(v.p["server"].nat, x.p["server"].nat) /\ v.p["server"].mode = x.p["server"].mode
          /\ v.p["server"].remoteFirewall = x.p["server"].remoteFirewall
          /\ v.p["server"].remoteHolepunching = x.p["server"].remoteHolepunching
          /\ v.p["server"].reopening = x.p["server"].reopening
      <3>1. nat \in NatType /\ Kept(nat, x.p["server"].nat) /\ Kept(x.p["server"].nat, x.p["server"].nat)
        BY <1>0, AddRelayType, NatGrows, KeptNats
      <3> HIDE DEF nat
      <3>2. /\ q \in Puncher /\ q.nat = nat /\ q.mode = x.p["server"].mode
            /\ q.remoteFirewall = x.p["server"].remoteFirewall
            /\ q.remoteHolepunching = x.p["server"].remoteHolepunching /\ q.reopening = x.p["server"].reopening
        BY <1>0, <3>1 DEF Puncher
      <3> HIDE DEF q
      <3> DEFINE y == WithP(x, "server", q)
      <3>3. /\ y \in World /\ y.c = x.c /\ y.h = x.h /\ y.node = x.node /\ y.net = x.net
            /\ y.p["client"] = x.p["client"] /\ y.p["server"] = q
        BY <1>0, <3>2, WithPIs
      <3> HIDE DEF y
      <3>4. v \in {x, y}
        BY DEF y
      <3> HIDE DEF v
      <3> QED BY <1>0, <3>1, <3>2, <3>3, <3>4
    <2> HIDE DEF v, r
    <2>3. /\ u \in World /\ u.c = v.c /\ u.node = v.node /\ u.net = v.net /\ u.p["client"] = v.p["client"]
          /\ u.p["server"].nat = v.p["server"].nat /\ u.p["server"].mode = v.p["server"].mode
          /\ u.p["server"].reopening = v.p["server"].reopening /\ u.h.handlers = v.h.handlers
          /\ \/ /\ m.round < v.h.round /\ u.h.round = v.h.round
                /\ u.p["server"].remoteFirewall = v.p["server"].remoteFirewall
                /\ u.p["server"].remoteHolepunching = v.p["server"].remoteHolepunching
             \/ /\ ~ (m.round < v.h.round) /\ u.h.round = m.round
                /\ u.p["server"].remoteFirewall = m.firewall /\ u.p["server"].remoteHolepunching = m.punching
      <3>1. CASE m.round < v.h.round
        BY <2>2, <3>1 DEF Heard
      <3>2. CASE ~ (m.round < v.h.round)
        <4> DEFINE n == m.round
                   l == [v.h EXCEPT !.round = n]
                   echoed == plan.trusted /\ m.remoteToken
                   t == UpdateRemote(v.p["server"], m, echoed)
                   y == WithHP(v, l, "server", t)
        <4>1. u = y
          BY <3>2, Zenon DEF Heard, WithHP
        <4>2. echoed \in BOOLEAN /\ m.firewall \in Kinds /\ m.punching \in BOOLEAN
          BY <1>0 DEF PlanInv, PlanType, Requests
        <4> HIDE DEF echoed
        <4>3. /\ t \in Puncher /\ t.nat = v.p["server"].nat /\ t.mode = v.p["server"].mode
              /\ t.reopening = v.p["server"].reopening
              /\ t.remoteFirewall = m.firewall /\ t.remoteHolepunching = m.punching
          BY <2>2, <4>2, UpdateRemoteIs
        <4>4. l \in Shake /\ l.round = m.round /\ l.handlers = v.h.handlers
          <5>1. n \in Nat
            BY <1>0
          <5> HIDE DEF n
          <5>2. l \in Shake /\ l.round = n /\ l.handlers = v.h.handlers
            BY <1>0, <2>2, <5>1 DEF Shake
          <5> QED BY <5>2 DEF n
        <4> HIDE DEF l, t
        <4>5. /\ y \in World /\ y.p["server"] = t /\ y.p["client"] = v.p["client"] /\ y.c = v.c /\ y.node = v.node
              /\ y.h = l /\ y.net = v.net
          BY <1>0, <2>2, <4>3, <4>4, WithHPIs
        <4> HIDE DEF u, y
        <4> QED BY <3>2, <4>1, <4>3, <4>4, <4>5
      <3> QED BY <3>1, <3>2
    <2> HIDE DEF u
    <2>4. k \in Shake /\ k.round = u.h.round /\ k.handlers = u.h.handlers \cup {r}
      <3>1. u.h \in Shake
        BY <2>3, WorldSides
      <3> QED BY <1>1, <3>1 DEF Shake
    <2> HIDE DEF k
    <2>5. z \in World /\ z.h = k /\ z.c = u.c /\ z.p = u.p /\ z.node = u.node /\ z.net = u.net
      BY <2>3, <2>4, WithHIs
    <2> HIDE DEF z
    <2>6. /\ z.c = w.c /\ Cl(z) = Cl(w) /\ z.node = w.node /\ z.net.requests \subseteq w.net.requests
          /\ z.net.replies = w.net.replies /\ z.h.handlers = w.h.handlers \cup {r}
          /\ Kept(Sv(z).nat, Sv(w).nat) /\ Sv(z).mode = Sv(w).mode /\ Sv(z).reopening = Sv(w).reopening
      BY <2>2, <2>3, <2>4, <2>5 DEF Cl, Sv
    <2>7. \/ /\ m.round < w.h.round /\ z.h.round = w.h.round
             /\ Sv(z).remoteFirewall = Sv(w).remoteFirewall
             /\ Sv(z).remoteHolepunching = Sv(w).remoteHolepunching
          \/ /\ ~ (m.round < w.h.round) /\ z.h.round = m.round
             /\ Sv(z).remoteFirewall = m.firewall /\ Sv(z).remoteHolepunching = m.punching
      BY <2>2, <2>3, <2>4, <2>5 DEF Sv
    <2>8. Follows(z, w)
      BY <1>1, <1>3, <2>5, <2>6, <2>7, HearAgrees
    <2> QED BY <2>1, <2>8
  <1> QED BY <1>2, <1>3

\* A request reaches the server, once or once more.
LEMMA DeliverAgrees == ASSUME HInv, Agree(State), Deliver PROVE Agree(State)'
  <1>0. State \in World /\ net \in Net /\ PlanInv /\ Core(State) /\ State.net = net
    BY StateTypes, StateAgrees
  <1>1. PICK m \in net.requests, again \in BOOLEAN :
          LET v == [State EXCEPT !.net.requests = IF again THEN @ ELSE @ \ {m},
                                 !.net.dups = IF again THEN @ + 1 ELSE @]
          IN Becomes(OnRequest(v, m, IF again THEN net.dups + 1 ELSE 0))
    BY Zenon DEF Deliver
  <1> DEFINE left == IF again THEN net.requests ELSE net.requests \ {m}
             dups == IF again THEN net.dups + 1 ELSE net.dups
             copy == IF again THEN net.dups + 1 ELSE 0
             n == [net EXCEPT !.requests = left, !.dups = dups]
             v == WithNet(State, n)
  <1>2. left \subseteq net.requests /\ left \in SUBSET Requests /\ dups \in Nat /\ copy \in Nat
    BY <1>0 DEF Net
  <1>3. Becomes(OnRequest(v, m, copy))
    <2>1. v = [State EXCEPT !.net.requests = IF again THEN @ ELSE @ \ {m},
                            !.net.dups = IF again THEN @ + 1 ELSE @]
      <3>1. CASE again
        BY <1>0, <3>1, StateIs DEF World, Net, WithNet
      <3>2. CASE ~ again
        BY <1>0, <3>2, StateIs DEF World, Net, WithNet
      <3> QED BY <3>1, <3>2
    <2> HIDE DEF v
    <2> QED BY <1>1, <2>1, Zenon
  <1> HIDE DEF left, dups, copy
  <1>4. n \in Net /\ n.requests = left /\ n.replies = net.replies
    BY <1>0, <1>2 DEF Net
  <1> HIDE DEF n
  <1>5. v \in World /\ v.net = n /\ v.c = State.c /\ v.p = State.p /\ v.node = State.node /\ v.h = State.h
    BY <1>0, <1>4, WithNetIs
  <1> HIDE DEF v
  <1>6. Follows(OnRequest(v, m, copy), State)
    BY <1>0, <1>1, <1>2, <1>4, <1>5, OnRequestAgrees
  <1> QED BY <1>3, <1>6, FollowsAgree, BecomesAgree

\* A handler of the server goes on after an await.
LEMMA HandlerAgrees ==
  ASSUME HInv, Agree(State), NEW r \in h.handlers,
         ServerAnalyzed(r) \/ ServerReopened(r) \/ ServerDecides(r) \/ ServerPunched(r)
  PROVE  Agree(State)'
  <1>0. /\ State \in World /\ Core(State) /\ PlanInv /\ r \in State.h.handlers /\ r \in Handler
        /\ Sv(State) = p["server"] /\ Sv(State) \in Puncher /\ State.p = p
    BY StateAgrees, AskedAre, SidesAre
  <1>1. CASE ServerAnalyzed(r)
    <2> DEFINE a == AnalyzeAgain(State, "server")
               w == IF p["server"].destroyed THEN Silent(State, r)
                    ELSE IF ~ p["server"].remoteHolepunching /\ Unstable(p["server"])
                         THEN At(a, r, "reopen") ELSE FastOpen(State, r)
    <2>1. Becomes(w)
      BY <1>1 DEF ServerAnalyzed
    <2>2. Follows(a, State) /\ a.h = State.h
      <3> DEFINE t == ReopenSide(State, "server")
      <3>1. a \in {State, t}
        BY DEF AnalyzeAgain
      <3>2. "server" \in Side /\ "client" \in Side \ {"server"}
        BY DEF Side
      <3>3. /\ t \in World /\ t.c = State.c /\ t.h = State.h /\ t.net = State.net /\ t.node = State.node
            /\ Cl(t) = Cl(State) /\ Sv(t).mode = Sv(State).mode /\ Sv(t).remoteFirewall = Sv(State).remoteFirewall
            /\ Sv(t).remoteHolepunching = Sv(State).remoteHolepunching
            /\ \/ /\ Unstable(Sv(State)) /\ Sv(t).reopening = "running"
                  /\ Sv(t).nat.firewall = UNKNOWN /\ ~ Sv(t).nat.frozen /\ Evident(Sv(t).nat)
               \/ /\ Sv(t).nat = Sv(State).nat /\ Sv(t).reopening \in {"stable", "unstable"}
                  /\ Sv(t).reopening = "stable" => Sv(State).nat.firewall = CONSISTENT
        BY <1>0, <3>2, ReopenSideIs DEF Cl, Sv
      <3> HIDE DEF t
      <3>4. Follows(t, State)
        BY <1>0, <3>3, ServerReopens
      <3> HIDE DEF a
      <3> QED BY <1>0, <3>1, <3>3, <3>4, FollowsSelf
    <2> HIDE DEF a
    <2>3. Follows(At(a, r, "reopen"), State)
      <3>1. Follows(At(a, r, "reopen"), a)
        BY <1>0, <2>2, AtAgrees DEF Follows
      <3> QED BY <2>2, <3>1, FollowsOn
    <2>4. ~ (~ p["server"].remoteHolepunching /\ Unstable(p["server"])) => Follows(FastOpen(State, r), State)
      <3>1. p["server"].remoteHolepunching => Fixed(State)
        BY <1>0 DEF Core, Remote
      <3>2. p["server"].remoteHolepunching => ~ Unstable(p["server"])
        BY <1>0, <3>1, Settled
      <3> QED BY <1>0, <3>2, FastOpenAgrees
    <2>5. Follows(w, State)
      BY <1>0, <2>3, <2>4, SilentCalm
    <2> HIDE DEF w
    <2> QED BY <2>1, <2>5, FollowsAgree, BecomesAgree
  <1>2. CASE ServerReopened(r)
    <2> DEFINE w == IF p["server"].destroyed THEN Silent(State, r)
                    ELSE IF p["server"].reopening = "unstable" THEN AbortServer(State, r, "ABORTED")
                    ELSE FastOpen(State, r)
    <2>1. Becomes(w) /\ p["server"].reopening \in {"stable", "unstable"}
      BY <1>2 DEF ServerReopened
    <2>2. p["server"].reopening = "stable" => ~ Unstable(Sv(State))
      <3>1. p["server"].reopening = "stable" => Sv(State).nat.firewall = CONSISTENT
        BY <1>0 DEF Core, Remote
      <3> QED BY <1>0, <3>1, UnstableIs, KindsAre
    <2>3. Follows(w, State)
      BY <1>0, <2>1, <2>2, SilentCalm, AbortServerAgrees, FastOpenAgrees
    <2> HIDE DEF w
    <2> QED BY <2>1, <2>3, FollowsAgree, BecomesAgree
  <1>3. CASE ServerDecides(r)
    <2> DEFINE w(agrees) == IF p["server"].destroyed THEN Silent(State, r) ELSE PunchBack(State, r, agrees)
    <2>1. PICK agrees \in {TRUE, ~ plan.faults} : Becomes(w(agrees))
      BY <1>3 DEF ServerDecides
    <2>2. Past(r)
      BY <1>3 DEF ServerDecides, Past
    <2>3. Follows(w(agrees), State)
      BY <1>0, <2>2, SilentCalm, PunchBackAgrees
    <2> HIDE DEF w
    <2> QED BY <2>1, <2>3, FollowsAgree, BecomesAgree
  <1>4. CASE ServerPunched(r)
    <2>1. Becomes(Punched(State, r)) /\ Past(r)
      BY <1>4 DEF ServerPunched, Past
    <2>2. Follows(Punched(State, r), State)
      BY <1>0, <2>1, PunchedAgrees
    <2> QED BY <2>1, <2>2, FollowsAgree, BecomesAgree
  <1> QED BY <1>1, <1>2, <1>3, <1>4

\* --------------------------------------------------------- the agreement

\* The peers agree at the start: nothing was said.
LEMMA AgreeInit == Init => Agree(State)
  <1> SUFFICES ASSUME Init PROVE Agree(State)
    OBVIOUS
  <1>1. HInv
    BY HInvInit
  <1>2. State \in World /\ State.c = c /\ State.h = h /\ State.p = p /\ State.node = node /\ State.net = net
    BY <1>1, StateIs DEF HInv, Sound
  <1>3. c.pc = "open" /\ c.round = 0 /\ h.round = 0 /\ h.handlers = {} /\ net.requests = {} /\ net.replies = {}
    BY DEF Init
  <1>4. ASSUME NEW s \in Side
        PROVE  /\ p[s].mode = "none" /\ p[s].reopening = "no" /\ ~ p[s].remoteHolepunching
               /\ ~ p[s].nat.frozen /\ p[s].nat.firewall = UNKNOWN /\ node[s].punches = 0
    BY DEF Init, FreshPuncher, FreshNat
  <1>5. /\ Cl(State).mode = "none" /\ Cl(State).reopening = "no" /\ ~ Cl(State).nat.frozen
        /\ Cl(State).nat.firewall = UNKNOWN /\ State.node["client"].punches = 0
        /\ Sv(State).mode = "none" /\ Sv(State).reopening = "no" /\ ~ Sv(State).remoteHolepunching
        /\ Sv(State).nat.firewall = UNKNOWN
    BY <1>2, <1>4, SideElements DEF Cl, Sv
  <1>6. ~ Fixed(State) /\ Asked(State) = {}
    BY <1>2, <1>3, <1>5 DEF Fixed, Asked
  <1>7. Stage(State) /\ Rounds(State) /\ Handled(State)
    BY <1>2, <1>3, <1>5, <1>6 DEF Stage, Late, Rounds, Handled
  <1>8. Learned(State) /\ Remote(State) /\ Modes(State)
    BY <1>2, <1>3, <1>5, <1>6 DEF Learned, Remote, Modes, ModeIs
  <1>9. Evident(Cl(State).nat) /\ Evident(Sv(State).nat)
    BY <1>5, KindsAre DEF Evident
  <1> QED BY <1>2, <1>3, <1>5, <1>6, <1>7, <1>8, <1>9 DEF Agree, Core

\* Every step keeps them agreed.
LEMMA AgreeNext == HInv /\ HInv' /\ Agree(State) /\ [Next]_vars => Agree(State)'
  <1> SUFFICES ASSUME HInv, HInv', Agree(State), [Next]_vars PROVE Agree(State)'
    OBVIOUS
  <1>1. CASE ClientProbes \/ ClientReply \/ RequestFails \/ ClientAnalyzed \/ ClientReopened \/ ClientWakes \/ ClientOpened
    BY <1>1, ClientProbesAgrees, ClientReplyAgrees, RequestFailsAgrees, ClientAnalyzedAgrees, ClientReopenedAgrees,
       ClientWakesAgrees, ClientOpenedAgrees
  <1>2. CASE ClientHears \/ DirectTraffic \/ RelayPairs \/ RelayFails \/ SocketCloses
    BY <1>2, ClientHearsAgrees, DirectTrafficAgrees, RelayAgrees
  <1>3. CASE Deliver \/ ServerDone \/ ServerRelayFails
    BY <1>3, DeliverAgrees, ServerDoneAgrees
  <1>4. CASE \E r \in h.handlers : ServerAnalyzed(r) \/ ServerReopened(r) \/ ServerDecides(r) \/ ServerPunched(r)
    BY <1>4, HandlerAgrees
  <1>5. CASE \E s \in Side : \/ Ping(s) \/ Reopens(s) \/ OpenBirthday(s) \/ GiveUpPunching(s)
                             \/ OtherPunches(s) \/ OtherEnds(s) \/ IntervalPasses(s)
    BY <1>5, PingAgrees, ReopensAgrees, OpenBirthdayAgrees, GiveUpPunchingAgrees, OthersAgree
  <1>6. CASE UNCHANGED vars
    <2>1. State' = State
      BY <1>6, Zenon DEF vars, State
    <2> QED BY <2>1
  <1> QED BY <1>1, <1>2, <1>3, <1>4, <1>5, <1>6 DEF Next

\* They agree in every state of every behaviour.
LEMMA AgreeAlways == Spec => [](HInv /\ Agree(State))
  <1>1. HInv /\ Agree(State) /\ [Next]_vars => (HInv /\ Agree(State))'
    BY HInvNext, AgreeNext
  <1> QED BY <1>1, HInvInit, AgreeInit, PTL DEF Spec

\* Two peers that punch at the same time punch at each other, however their
\* requests are delayed, repeated or overtaken and whatever their NATs show later.
THEOREM PunchesMeetHolds == Spec => []PunchesMeet
  <1>1. HInv /\ Agree(State) => PunchesMeet
    <2> SUFFICES ASSUME HInv, Agree(State), p["client"].mode # "none", p["server"].mode # "none"
                 PROVE  <<p["client"].mode, p["server"].mode>> \in
                          {<<"consistent", "consistent">>, <<"probes", "birthday">>, <<"birthday", "probes">>}
      BY DEF PunchesMeet
    <2> DEFINE local == Cl(State).nat.firewall
               remote == Cl(State).remoteFirewall
    <2>1. /\ State \in World /\ Core(State) /\ Cl(State) = p["client"] /\ Sv(State) = p["server"]
          /\ local \in Kinds /\ remote \in Kinds
      BY StateAgrees, SidesAre
    <2>2. Fixed(State) /\ Sv(State).remoteFirewall = local
      BY <2>1 DEF Core, Remote
    <2>3. /\ Sv(State).nat.firewall = remote /\ remote # UNKNOWN /\ local # UNKNOWN
          /\ remote # RANDOM \/ local # RANDOM
      BY <2>1, <2>2, Settled
    <2>4. p["client"].mode = ModeOf(local, remote) /\ p["server"].mode = ModeOf(remote, local)
      BY <2>1, <2>2, <2>3 DEF Core, Modes, ModeIs
    <2>5. \/ local = CONSISTENT /\ remote = CONSISTENT
          \/ local = CONSISTENT /\ remote = RANDOM
          \/ local = RANDOM /\ remote = CONSISTENT
      BY <2>1, <2>3, KindsAre
    <2> HIDE DEF local, remote
    <2> QED BY <2>4, <2>5, KindsAre DEF ModeOf
  <1> QED BY <1>1, AgreeAlways, PTL

\* At most one random punch runs at either node, each counted once: the server
\* punches only within its budget, and a client that reserved its punch gives the
\* reservation back before it counts the punch itself.
THEOREM RandomBudgetHolds == Spec => []RandomBudget
  <1>1. HInv /\ Agree(State) => RandomBudget
    <2> SUFFICES ASSUME HInv, Agree(State) PROVE RandomBudget
      OBVIOUS
    <2>1. Counted(State)
      BY DEF HInv, Sound
    <2>2. node["client"].others \in Int /\ node["server"].others \in Int
      BY StateTypes DEF Budget, Side
    <2>3. CountedOnce /\ node["server"].punches <= 1
      BY <2>1, <2>2, StateIs, SideElements DEF Counted, One, CountedOnce
    <2>4. node["client"].punches <= 1
      BY StateAgrees DEF Core
    <2> QED BY <2>3, <2>4, SideElements DEF RandomBudget
  <1> QED BY <1>1, AgreeAlways, PTL
=============================================================================
