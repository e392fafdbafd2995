-------------------------- MODULE SplicedRoutesProofs --------------------------
(***************************************************************************)
(* Proof of PathAgrees, for any number of sources and any limit of spliced *)
(* streams: once a stream's frames and closes have all been seen, source,  *)
(* entry, guard and destination agree on it.                               *)
(*                                                                         *)
(* PathAgrees speaks of settled states only and says nothing of the steps  *)
(* that lead there.  What is kept by every step is an account of each      *)
(* stream by the frames still under way.  A circuit that is going down     *)
(* needs only that a party that left has dismantled its side (Down).       *)
(* While it is up (Up): the one OPEN is on at most one link, ahead of all  *)
(* that follows it (OneOpen); a source that is forgotten, or told of a     *)
(* RESET, has a RESET on its way to whatever still stands further on       *)
(* (Forgotten); a RESET that comes back leaves nothing standing behind it  *)
(* (ResetBehind); and a source that waits has something to wait for        *)
(* (Answered).                                                             *)
(*                                                                         *)
(* A frame is on a link or not (Carries), and at most its order after the  *)
(* OPEN matters (OpenFirst).  Each of the lemmas named ...Path treats one  *)
(* action: what it takes from and puts on the links of its stream, and     *)
(* each part of the account after it.  Fairness plays no part.             *)
(***************************************************************************)
EXTENDS SplicedRoutes, TLAPS

\* What a source and a UDX pair may have reached.
SourceState == {"none", "admitted", "opening", "open", "closed"}
PairState == {"none", "waiting", "active", "gone"}

\* The fields of the four parties, and the frames on the links.
TypeOK ==
    /\ source \in [Sources -> SourceState]
    /\ record \in [Sources -> BOOLEAN]
    /\ told \in [Sources -> BOOLEAN]
    /\ pair \in [Relay -> [Sources -> PairState]]
    /\ stream \in [Sources -> BOOLEAN]
    /\ wire \in [Link -> [Sources -> Seq(Frame)]]
    /\ closed \subseteq Party

\* ------------------------------------------------------------ the frames of a link

\* Frame f is under way on a link with queue q.
Carries(q, f) == \E i \in DOMAIN q : q[i] = f
\* No frame is.
Bare(q) == ~ Carries(q, "OPEN") /\ ~ Carries(q, "READY") /\ ~ Carries(q, "RESET")
\* An OPEN is the first frame of the queue.
OpenFirst(q) == \A i \in DOMAIN q : q[i] = "OPEN" => i = 1

\* An empty queue carries nothing.
LEMMA EmptyIsBare == Bare(<<>>) /\ OpenFirst(<<>>)
  BY DEF Bare, Carries, OpenFirst

\* A queue that carries none of the three frames is empty.
LEMMA BareIsEmpty ==
    ASSUME NEW q \in Seq(Frame), Bare(q)
    PROVE  q = <<>>
  <1>1. SUFFICES ASSUME q # <<>> PROVE FALSE
    OBVIOUS
  <1>2. 1 \in DOMAIN q /\ q[1] \in Frame
    BY <1>1
  <1>3. QED
    BY <1>2 DEF Bare, Carries, Frame

\* The frame that arrives next is on the link.
LEMMA CarriesHead ==
    ASSUME NEW q \in Seq(Frame), q # <<>>
    PROVE  Carries(q, Head(q)) /\ Head(q) \in Frame
  BY DEF Carries

\* Sending adds one frame to what the link carries.
LEMMA CarriesAppend ==
    ASSUME NEW q \in Seq(Frame), NEW f \in Frame, NEW g
    PROVE  Carries(Append(q, f), g) <=> (Carries(q, g) \/ g = f)
  <1>1. DOMAIN Append(q, f) = 1 .. Len(q) + 1 /\ DOMAIN q = 1 .. Len(q) /\ Len(q) \in Nat
    OBVIOUS
  <1>2. \A i \in 1 .. Len(q) : Append(q, f)[i] = q[i]
    OBVIOUS
  <1>3. Append(q, f)[Len(q) + 1] = f
    OBVIOUS
  <1>4. QED
    BY <1>1, <1>2, <1>3 DEF Carries

\* Reading takes at most the frame read from what the link carries.
LEMMA CarriesTail ==
    ASSUME NEW q \in Seq(Frame), q # <<>>, NEW g
    PROVE  Carries(q, g) <=> (Carries(Tail(q), g) \/ g = Head(q))
  <1>1. DOMAIN Tail(q) = 1 .. Len(q) - 1 /\ DOMAIN q = 1 .. Len(q) /\ Len(q) \in Nat \ {0}
    OBVIOUS
  <1>2. \A i \in 1 .. Len(q) - 1 : Tail(q)[i] = q[i + 1]
    OBVIOUS
  <1>3. Head(q) = q[1]
    OBVIOUS
  <1>4. ASSUME Carries(q, g) PROVE Carries(Tail(q), g) \/ g = Head(q)
    <2>1. PICK i \in 1 .. Len(q) : q[i] = g
      BY <1>1, <1>4 DEF Carries
    <2>2. CASE i = 1
      BY <2>1, <2>2, <1>3
    <2>3. CASE i # 1
      <3>1. i - 1 \in 1 .. Len(q) - 1 /\ (i - 1) + 1 = i
        BY <2>1, <2>3, <1>1
      <3>2. Tail(q)[i - 1] = g
        BY <3>1, <2>1, <1>2
      <3>3. QED
        BY <3>1, <3>2, <1>1 DEF Carries
    <2>4. QED
      BY <2>2, <2>3
  <1>5. ASSUME Carries(Tail(q), g) PROVE Carries(q, g)
    <2>1. PICK i \in 1 .. Len(q) - 1 : Tail(q)[i] = g
      BY <1>1, <1>5 DEF Carries
    <2>2. i + 1 \in 1 .. Len(q) /\ q[i + 1] = g
      BY <2>1, <1>1, <1>2
    <2>3. QED
      BY <2>2, <1>1 DEF Carries
  <1>6. Carries(q, Head(q))
    BY CarriesHead
  <1>7. QED
    BY <1>4, <1>5, <1>6

\* Behind a frame that was read there is no OPEN, if an OPEN comes first.
LEMMA OpenLeads ==
    ASSUME NEW q \in Seq(Frame), q # <<>>, OpenFirst(q)
    PROVE  /\ ~ Carries(Tail(q), "OPEN")
           /\ OpenFirst(Tail(q))
           /\ Carries(q, "OPEN") => Head(q) = "OPEN"
  <1>1. DOMAIN Tail(q) = 1 .. Len(q) - 1 /\ DOMAIN q = 1 .. Len(q) /\ Len(q) \in Nat \ {0}
    OBVIOUS
  <1>2. \A i \in 1 .. Len(q) - 1 : Tail(q)[i] = q[i + 1] /\ i + 1 \in 1 .. Len(q) /\ i + 1 # 1
    OBVIOUS
  <1>3. Head(q) = q[1]
    OBVIOUS
  <1>4. \A i \in DOMAIN Tail(q) : Tail(q)[i] # "OPEN"
    BY <1>1, <1>2 DEF OpenFirst
  <1>5. QED
    BY <1>1, <1>3, <1>4 DEF OpenFirst, Carries

\* A frame sent after the others keeps an OPEN first; an OPEN is sent first.
LEMMA OpenFirstAppend ==
    ASSUME NEW q \in Seq(Frame), NEW f \in Frame, OpenFirst(q), f # "OPEN" \/ Bare(q)
    PROVE  OpenFirst(Append(q, f))
  <1>1. DOMAIN Append(q, f) = 1 .. Len(q) + 1 /\ DOMAIN q = 1 .. Len(q) /\ Len(q) \in Nat
    OBVIOUS
  <1>2. \A i \in 1 .. Len(q) : Append(q, f)[i] = q[i]
    OBVIOUS
  <1>3. Append(q, f)[Len(q) + 1] = f
    OBVIOUS
  <1>4. Bare(q) => Len(q) = 0
    BY BareIsEmpty
  <1>5. QED
    BY <1>1, <1>2, <1>3, <1>4 DEF OpenFirst
\* -------------------------------------------------------------- what a step sends

\* The queues of all links and streams, and queues that differ only on the links L of stream s.
Wires == [Link -> [Sources -> Seq(Frame)]]
Differs(v, w, s, L) == \A l \in Link, t \in Sources : t # s \/ l \notin L => w[l][t] = v[l][t]

\* What Sent leaves on a link; while the circuit is up no frame is refused.
LEMMA SentFrames ==
    ASSUME NEW to, NEW q \in Seq(Frame), NEW f \in Frame
    PROVE  /\ Sent(to, q, f) \in Seq(Frame)
           /\ closed = {} => Sent(to, q, f) = Append(q, f)
  BY DEF Sent

\* Take changes one queue.
LEMMA TakeWire ==
    ASSUME wire \in Wires, NEW s \in Sources, NEW from \in Link, wire[from][s] # <<>>
    PROVE  /\ Take(from, s) \in Wires
           /\ Take(from, s)[from][s] = Tail(wire[from][s])
           /\ Differs(wire, Take(from, s), s, {from})
  <1>1. Tail(wire[from][s]) \in Seq(Frame)
    BY DEF Wires
  <1>2. QED
    BY <1>1 DEF Wires, Take, Differs

\* Put changes one queue.
LEMMA PutWire ==
    ASSUME wire \in Wires, NEW s \in Sources, NEW to \in Link, NEW f \in Frame
    PROVE  /\ Put(to, s, f) \in Wires
           /\ Put(to, s, f)[to][s] = Sent(to, wire[to][s], f)
           /\ Differs(wire, Put(to, s, f), s, {to})
  <1>1. Sent(to, wire[to][s], f) \in Seq(Frame)
    BY SentFrames DEF Wires
  <1>2. QED
    BY <1>1 DEF Wires, Put, Differs

\* Forward changes two queues.
LEMMA ForwardWire ==
    ASSUME wire \in Wires, NEW s \in Sources, NEW from \in Link, NEW to \in Link, from # to,
           wire[from][s] # <<>>, NEW f \in Frame
    PROVE  /\ Forward(from, to, s, f) \in Wires
           /\ Forward(from, to, s, f)[from][s] = Tail(wire[from][s])
           /\ Forward(from, to, s, f)[to][s] = Sent(to, wire[to][s], f)
           /\ Differs(wire, Forward(from, to, s, f), s, {from, to})
  <1> DEFINE y == Take(from, s)
             z == [y EXCEPT ![to][s] = Sent(to, @, f)]
  <1>1. /\ y \in Wires /\ y[from][s] = Tail(wire[from][s])
        /\ Differs(wire, y, s, {from})
    BY TakeWire
  <1>2. Forward(from, to, s, f) = z
    BY DEF Forward, Take
  <1>3. y[to][s] = wire[to][s] /\ wire[to][s] \in Seq(Frame)
    BY <1>1 DEF Differs, Wires
  <1>4. Sent(to, y[to][s], f) \in Seq(Frame)
    BY <1>3, SentFrames
  <1> HIDE DEF y
  <1>5. /\ z \in Wires /\ z[to][s] = Sent(to, y[to][s], f)
        /\ Differs(y, z, s, {to})
    BY <1>1, <1>4 DEF Wires, Differs
  <1> HIDE DEF z
  <1>6. z[from][s] = Tail(wire[from][s]) /\ Differs(wire, z, s, {from, to})
    BY <1>1, <1>5 DEF Differs
  <1>7. QED
    BY <1>2, <1>3, <1>5, <1>6

\* Lose empties one queue.
LEMMA LoseWire ==
    ASSUME NEW w \in Wires, NEW s \in Sources, NEW l \in Link
    PROVE  /\ Lose(w, l, s) \in Wires
           /\ Lose(w, l, s)[l][s] = <<>>
           /\ Differs(w, Lose(w, l, s), s, {l})
  <1>1. <<>> \in Seq(Frame)
    OBVIOUS
  <1>2. QED
    BY <1>1 DEF Wires, Lose, Differs

\* Cut leaves queues of frames.
LEMMA CutWire ==
    ASSUME wire \in Wires, NEW p
    PROVE  Cut(p) \in Wires
  BY DEF Wires, Cut

\* watchSplicedPair's close leaves a pair none or gone, and gone if it was connected.
LEMMA ShutPairs ==
    ASSUME NEW p \in PairState
    PROVE  /\ Shut(p) \in {"none", "gone"}
           /\ p \in {"active", "gone"} => Shut(p) = "gone"
  BY DEF Shut, PairState

\* ... and so for all the pairs of a relay.
LEMMA ShutAllPairs ==
    ASSUME TypeOK, NEW r \in Relay
    PROVE  ShutAll(r) \in [Sources -> {"none", "gone"}]
  BY ShutPairs DEF TypeOK, ShutAll
\* -------------------------------------------------------------- type correctness

\* The links an OPEN travels, and those its answer travels.
Opens == {"source-entry", "entry-guard", "guard-destination"}
Answers == {"destination-guard", "guard-entry", "entry-source"}

\* Every step keeps the types.
LEMMA TypeStep == TypeOK /\ [Next]_vars => TypeOK'
  <1> SUFFICES ASSUME TypeOK, [Next]_vars PROVE TypeOK'
    OBVIOUS
  <1>w. wire \in Wires /\ {"OPEN", "READY", "RESET"} \subseteq Frame
    BY DEF TypeOK, Wires, Frame
  <1>h. \A l \in Link, s \in Sources : \A f \in Frame : Arrives(l, s, f) => wire[l][s] # <<>>
    BY DEF Arrives
  <1>l. {"source-entry", "entry-source", "entry-guard", "guard-entry",
         "guard-destination", "destination-guard"} \subseteq Link
    BY DEF Link
  <1>r. {"entry", "guard"} \subseteq Relay
    BY DEF Relay
  <1>s. \A r \in Relay, s \in Sources : pair[r][s] \in PairState /\ Shut(pair[r][s]) \in PairState
    BY ShutPairs DEF TypeOK, PairState
  <1>a. \A r \in Relay : ShutAll(r) \in [Sources -> PairState]
    BY <1>s DEF ShutAll
  <1>e. \A r \in Relay, s \in Sources, x \in PairState :
            [pair EXCEPT ![r][s] = x] \in [Relay -> [Sources -> PairState]]
    BY DEF TypeOK
  <1>b. \A r \in Relay, x \in [Sources -> PairState] :
            [pair EXCEPT ![r] = x] \in [Relay -> [Sources -> PairState]]
    BY DEF TypeOK
  <1>p. \A s \in Sources, l \in Link, f \in Frame : Put(l, s, f) \in Wires
    BY PutWire, <1>w
  <1>x. \A s \in Sources, l \in Link : \A w \in Wires : Lose(w, l, s) \in Wires
    BY LoseWire
  <1>k. \A s \in Sources, l \in Link : wire[l][s] # <<>> => Take(l, s) \in Wires
    BY TakeWire, <1>w
  <1>f. \A s \in Sources, l \in Link, m \in Link : \A f \in Frame :
            wire[l][s] # <<>> /\ l # m => Forward(l, m, s, f) \in Wires
    BY ForwardWire, <1>w
  <1>c. \A p \in Party : Cut(p) \in Wires
    BY CutWire, <1>w
  <1>1. ASSUME NEW s \in Sources, Activate(s) PROVE TypeOK'
    BY <1>1 DEF Activate, TypeOK, SourceState
  <1>2. ASSUME NEW s \in Sources, SpliceOpen(s) PROVE TypeOK'
    BY <1>2, <1>p, <1>l, <1>w DEF SpliceOpen, TypeOK, SourceState, Wires
  <1>3. ASSUME NEW s \in Sources, SourceCloses(s) PROVE TypeOK'
    <2>1. wire' \in Wires
      BY <1>3, <1>p, <1>x, <1>l, <1>w DEF SourceCloses
    <2>2. source' \in [Sources -> SourceState]
      BY <1>3 DEF SourceCloses, SourceGone, TypeOK, SourceState
    <2>3. QED
      BY <1>3, <2>1, <2>2 DEF SourceCloses, TypeOK, Wires
  <1>4. ASSUME NEW s \in Sources, DestinationCloses(s) PROVE TypeOK'
    BY <1>4, <1>p, <1>l, <1>w DEF DestinationCloses, TypeOK, Wires
  <1>5. ASSUME NEW s \in Sources, SourceReady(s) PROVE TypeOK'
    BY <1>5, <1>k, <1>h, <1>l, <1>w DEF SourceReady, TypeOK, SourceState, Wires
  <1>6. ASSUME NEW s \in Sources, SourceReset(s) PROVE TypeOK'
    BY <1>6, <1>x, <1>l, <1>w DEF SourceReset, SourceGone, TypeOK, SourceState, Wires
  <1>7. ASSUME NEW s \in Sources, SourceSeesClose(s) PROVE TypeOK'
    BY <1>7 DEF SourceSeesClose, SourceGone, TypeOK, SourceState
  <1>8. ASSUME NEW s \in Sources, EntryOpen(s) PROVE TypeOK'
    <2>1. wire' \in Wires
      BY <1>8, <1>f, <1>h, <1>l, <1>w DEF EntryOpen
    <2>2. pair' \in [Relay -> [Sources -> PairState]]
      BY <1>8, <1>e, <1>r DEF EntryOpen, PairState
    <2>3. QED
      BY <1>8, <2>1, <2>2 DEF EntryOpen, TypeOK, Wires
  <1>9. ASSUME NEW s \in Sources, EntryReady(s) PROVE TypeOK'
    <2>1. wire["guard-entry"][s] # <<>>
      BY <1>9, <1>h, <1>l, <1>w DEF EntryReady
    <2>2. wire' \in Wires
      BY <1>9, <2>1, <1>f, <1>k, <1>x, <1>l, <1>w DEF EntryReady
    <2>3. pair' \in [Relay -> [Sources -> PairState]]
      <3>1. \/ pair' = [pair EXCEPT !["entry"][s] = "active"]
            \/ pair' = [pair EXCEPT !["entry"][s] = Shut(@)]
        BY <1>9 DEF EntryReady, LegCloses
      <3>2. "active" \in PairState /\ Shut(pair["entry"][s]) \in PairState
        BY <1>s, <1>r DEF PairState
      <3>3. QED
        BY <3>1, <3>2, <1>e, <1>r
    <2>4. QED
      BY <1>9, <2>2, <2>3 DEF EntryReady, LegCloses, TypeOK, Wires
  <1>10. ASSUME NEW s \in Sources, EntrySeesClose(s) PROVE TypeOK'
    <2>2. wire' \in Wires
      BY <1>10, <1>p, <1>x, <1>l, <1>w DEF EntrySeesClose
    <2>3. pair' \in [Relay -> [Sources -> PairState]]
      BY <1>10, <1>e, <1>s, <1>r DEF EntrySeesClose, LegCloses
    <2>4. QED
      BY <1>10, <2>2, <2>3 DEF EntrySeesClose, LegCloses, TypeOK, Wires
  <1>11. ASSUME NEW s \in Sources, EntryDrops(s) PROVE TypeOK'
    BY <1>11, <1>k, <1>l DEF EntryDrops, TypeOK, Wires
  <1>12. ASSUME NEW s \in Sources, NEW l \in Link, NEW m \in Link, l # m, EntryReset(s, l, m) PROVE TypeOK'
    <2>2. wire' \in Wires
      BY <1>12, <1>f, <1>h, <1>l, <1>w DEF EntryReset
    <2>3. pair' \in [Relay -> [Sources -> PairState]]
      BY <1>12, <1>e, <1>s, <1>r DEF EntryReset
    <2>4. QED
      BY <1>12, <2>2, <2>3 DEF EntryReset, TypeOK, Wires
  <1>13. ASSUME NEW s \in Sources, GuardOpen(s) PROVE TypeOK'
    <2>2. wire' \in Wires
      BY <1>13, <1>f, <1>h, <1>l, <1>w, <1>c DEF GuardOpen, GuardFails, Party
    <2>3. pair' \in [Relay -> [Sources -> PairState]]
      <3>1. \/ pair' = [pair EXCEPT !["guard"][s] = "waiting"]
            \/ pair' = [pair EXCEPT !["guard"] = ShutAll("guard")]
        BY <1>13 DEF GuardOpen, GuardFails
      <3>2. "waiting" \in PairState /\ ShutAll("guard") \in [Sources -> PairState]
        BY <1>a, <1>r DEF PairState
      <3>3. QED
        BY <3>1, <3>2, <1>e, <1>b, <1>r
    <2>4. QED
      BY <1>13, <2>2, <2>3 DEF GuardOpen, GuardFails, TypeOK, Wires, Party
  <1>14. ASSUME NEW s \in Sources, GuardReady(s) PROVE TypeOK'
    <2>2. wire' \in Wires
      BY <1>14, <1>f, <1>h, <1>l, <1>w, <1>c DEF GuardReady, GuardFails, Party
    <2>3. pair' \in [Relay -> [Sources -> PairState]]
      <3>1. \/ pair' = [pair EXCEPT !["guard"][s] = "active"]
            \/ pair' = [pair EXCEPT !["guard"] = ShutAll("guard")]
        BY <1>14 DEF GuardReady, GuardFails
      <3>2. "active" \in PairState /\ ShutAll("guard") \in [Sources -> PairState]
        BY <1>a, <1>r DEF PairState
      <3>3. QED
        BY <3>1, <3>2, <1>e, <1>b, <1>r
    <2>4. QED
      BY <1>14, <2>2, <2>3 DEF GuardReady, GuardFails, TypeOK, Wires, Party
  <1>15. ASSUME NEW s \in Sources, NEW l \in Link, NEW m \in Link, l # m, GuardReset(s, l, m) PROVE TypeOK'
    <2>2. wire' \in Wires
      BY <1>15, <1>f, <1>h, <1>l, <1>w DEF GuardReset
    <2>3. pair' \in [Relay -> [Sources -> PairState]]
      BY <1>15, <1>e, <1>s, <1>r DEF GuardReset
    <2>4. QED
      BY <1>15, <2>2, <2>3 DEF GuardReset, TypeOK, Wires
  <1>16. ASSUME NEW s \in Sources, DestinationDisorder(s) PROVE TypeOK'
    BY <1>16, <1>c DEF DestinationDisorder, DestinationFails, TypeOK, Wires, Party
  <1>17. ASSUME NEW s \in Sources, DestinationOpen(s) PROVE TypeOK'
    BY <1>17, <1>f, <1>h, <1>l, <1>w DEF DestinationOpen, TypeOK, Wires
  <1>18. ASSUME NEW s \in Sources, DestinationRefuses(s) PROVE TypeOK'
    BY <1>18, <1>f, <1>h, <1>l, <1>w DEF DestinationRefuses, TypeOK, Wires
  <1>19. ASSUME NEW s \in Sources, DestinationReset(s) PROVE TypeOK'
    BY <1>19, <1>k, <1>h, <1>l, <1>w DEF DestinationReset, TypeOK, Wires
  <1>20. ASSUME NEW s \in Sources, NEW r \in Relay, PairCloses(r, s) \/ PairIdles(r, s) PROVE TypeOK'
    <2>3. pair' \in [Relay -> [Sources -> PairState]]
      BY <1>20, <1>e DEF PairCloses, PairIdles, PairState, Shut
    <2>4. QED
      BY <1>20, <2>3 DEF PairCloses, PairIdles, TypeOK
  <1>21. ASSUME NEW p \in Party, CircuitCloses(p) PROVE TypeOK'
    <2>2. wire' \in Wires
      BY <1>21, <1>c DEF CircuitCloses
    <2>3. pair' \in [Relay -> [Sources -> PairState]] /\ record' \in [Sources -> BOOLEAN] /\ stream' \in [Sources -> BOOLEAN]
      <3>1. CASE p = "entry"
        <4>1. /\ pair' = [pair EXCEPT !["entry"] = ShutAll("entry")]
              /\ record' = [s \in Sources |-> FALSE] /\ stream' = stream
          BY <1>21, <3>1 DEF CircuitCloses, EntryDown
        <4>2. ShutAll("entry") \in [Sources -> PairState]
          BY <1>a, <1>r
        <4>3. QED
          BY <4>1, <4>2, <1>b, <1>r DEF TypeOK
      <3>2. CASE p = "guard"
        BY <1>21, <3>2, <1>b, <1>a, <1>r DEF CircuitCloses, TypeOK
      <3>3. CASE p = "destination"
        BY <1>21, <3>3 DEF CircuitCloses, TypeOK
      <3>4. QED
        BY <3>1, <3>2, <3>3 DEF Party
    <2>4. QED
      BY <1>21, <2>2, <2>3 DEF CircuitCloses, TypeOK, Wires, Party
  <1>22. ASSUME NEW p \in Party, LinkFails(p) PROVE TypeOK'
    <2>2. wire' \in Wires
      BY <1>22, <1>c DEF LinkFails
    <2>3. pair' \in [Relay -> [Sources -> PairState]]
      BY <1>22, <1>a DEF LinkFails, TypeOK
    <2>4. QED
      BY <1>22, <2>2, <2>3 DEF LinkFails, TypeOK, Wires
  <1>23. ASSUME UNCHANGED vars PROVE TypeOK'
    BY <1>23 DEF vars, TypeOK
  <1>24. QED
    BY <1>1, <1>2, <1>3, <1>4, <1>5, <1>6, <1>7, <1>8, <1>9, <1>10, <1>11, <1>12, <1>13, <1>14, <1>15,
       <1>16, <1>17, <1>18, <1>19, <1>20, <1>21, <1>22, <1>23, <1>l
       DEF Next, SourceWork, EntryWork, GuardWork, DestinationWork, SourceSevered, DestinationSevered
\* ------------------------------------------------- what one party has dismantled

\* A party that destroyed its side holds nothing of stream s, and the entry has no pair
\* for a source it has no record of.
Dismantled(s) ==
    /\ "entry" \in closed => ~ record[s]
    /\ ~ record[s] => pair["entry"][s] \in {"none", "gone"}
    /\ "guard" \in closed => pair["guard"][s] \in {"none", "gone"}
    /\ "destination" \in closed => ~ stream[s]

\* ... of all streams.
Down == \A s \in Sources : Dismantled(s)

\* One pair of a relay changes.
PairWith(r, s, x) == [pair EXCEPT ![r][s] = x]

\* ... and the other pairs do not.
LEMMA PairSet ==
    ASSUME TypeOK, NEW r \in Relay, NEW s \in Sources, NEW x, pair' = PairWith(r, s, x)
    PROVE  /\ pair'[r][s] = x
           /\ \A u \in Relay, t \in Sources : u # r \/ t # s => pair'[u][t] = pair[u][t]
  BY DEF TypeOK, PairWith

\* All the pairs of one relay change.
LEMMA PairSetAll ==
    ASSUME TypeOK, NEW r \in Relay, NEW x \in [Sources -> {"none", "gone"}], pair' = [pair EXCEPT ![r] = x]
    PROVE  /\ \A t \in Sources : pair'[r][t] \in {"none", "gone"}
           /\ \A u \in Relay, t \in Sources : u # r => pair'[u][t] = pair[u][t]
  BY DEF TypeOK

\* Every step keeps Down: who leaves dismantles, and only a working party builds.
LEMMA DownStep == TypeOK /\ Down /\ [Next]_vars => Down'
  <1> SUFFICES ASSUME TypeOK, Down, [Next]_vars, NEW t \in Sources PROVE Dismantled(t)'
    BY DEF Down
  <1>0. Dismantled(t)
    BY DEF Down
  <1>r. {"entry", "guard"} \subseteq Relay /\ "entry" # "guard"
    BY DEF Relay
  <1>s. \A r \in Relay, s \in Sources : Shut(pair[r][s]) \in {"none", "gone"}
    BY ShutPairs DEF TypeOK
  <1>a. \A r \in Relay : ShutAll(r) \in [Sources -> {"none", "gone"}]
    BY ShutAllPairs
  <1>d. \A s \in Sources : record[s] => "entry" \notin closed
    BY DEF Down, Dismantled
  <1>1. ASSUME NEW s \in Sources, Activate(s) PROVE Dismantled(t)'
    BY <1>1, <1>0 DEF Activate, Dismantled, TypeOK, Working
  <1>2. ASSUME UNCHANGED <<record, pair, stream, closed>> PROVE Dismantled(t)'
    BY <1>2, <1>0 DEF Dismantled
  <1>3. ASSUME NEW s \in Sources, DestinationCloses(s) \/ DestinationReset(s) PROVE Dismantled(t)'
    BY <1>3, <1>0 DEF DestinationCloses, DestinationReset, Dismantled, TypeOK
  <1>4. ASSUME NEW s \in Sources, DestinationOpen(s) PROVE Dismantled(t)'
    BY <1>4, <1>0 DEF DestinationOpen, Dismantled, TypeOK, Working
  <1>5. ASSUME NEW s \in Sources, EntryOpen(s) PROVE Dismantled(t)'
    <2>1. /\ pair'["entry"][s] = "waiting"
          /\ \A u \in Relay, v \in Sources : u # "entry" \/ v # s => pair'[u][v] = pair[u][v]
      <3>1. pair' = PairWith("entry", s, "waiting")
        BY <1>5 DEF EntryOpen, PairWith
      <3>2. "entry" \in Relay
        BY <1>r
      <3>3. QED
        BY <3>1, <3>2, PairSet
    <2>2. QED
      BY <1>5, <1>0, <1>r, <2>1, <1>d DEF EntryOpen, Dismantled
  <1>6. ASSUME NEW s \in Sources, LegCloses(s) PROVE Dismantled(t)'
    <2>1. /\ pair'["entry"][s] \in {"none", "gone"}
          /\ \A u \in Relay, v \in Sources : u # "entry" \/ v # s => pair'[u][v] = pair[u][v]
      <3>1. pair' = PairWith("entry", s, Shut(pair["entry"][s]))
        BY <1>6 DEF LegCloses, PairWith
      <3>2. "entry" \in Relay
        BY <1>r
      <3>3. QED
        BY <3>1, <3>2, <1>s, PairSet
    <2>2. record' = [record EXCEPT ![s] = FALSE]
      BY <1>6 DEF LegCloses
    <2>3. QED
      BY <1>6, <1>0, <1>r, <2>1, <2>2 DEF LegCloses, Dismantled, TypeOK
  <1>7. ASSUME NEW s \in Sources, EntryReady(s) PROVE Dismantled(t)'
    <2>1. CASE pair["entry"][s] = "waiting"
      <3>1. /\ pair'["entry"][s] = "active"
            /\ \A u \in Relay, v \in Sources : u # "entry" \/ v # s => pair'[u][v] = pair[u][v]
        <4>1. pair' = PairWith("entry", s, "active")
          BY <1>7, <2>1 DEF EntryReady, PairWith
        <4>2. QED
          BY <4>1, <1>r, PairSet
      <3>2. QED
        BY <1>7, <2>1, <1>0, <1>r, <3>1, <1>d DEF EntryReady, Dismantled
    <2>2. CASE pair["entry"][s] # "waiting"
      BY <1>7, <1>6, <2>2 DEF EntryReady
    <2>3. QED
      BY <2>1, <2>2
  <1>8. ASSUME NEW s \in Sources, NEW l, NEW m, EntryReset(s, l, m) PROVE Dismantled(t)'
    <2>1. /\ pair'["entry"][s] \in {"none", "gone"}
          /\ \A u \in Relay, v \in Sources : u # "entry" \/ v # s => pair'[u][v] = pair[u][v]
      <3>1. pair' = PairWith("entry", s, Shut(pair["entry"][s]))
        BY <1>8 DEF EntryReset, PairWith
      <3>2. "entry" \in Relay
        BY <1>r
      <3>3. QED
        BY <3>1, <3>2, <1>s, PairSet
    <2>2. QED
      BY <1>8, <1>0, <1>r, <2>1 DEF EntryReset, Dismantled
  <1>9. ASSUME NEW s \in Sources, NEW l, NEW m, GuardReset(s, l, m) PROVE Dismantled(t)'
    <2>1. /\ pair'["guard"][s] \in {"none", "gone"}
          /\ \A u \in Relay, v \in Sources : u # "guard" \/ v # s => pair'[u][v] = pair[u][v]
      <3>1. pair' = PairWith("guard", s, Shut(pair["guard"][s]))
        BY <1>9 DEF GuardReset, PairWith
      <3>2. "guard" \in Relay
        BY <1>r
      <3>3. QED
        BY <3>1, <3>2, <1>s, PairSet
    <2>2. QED
      BY <1>9, <1>0, <1>r, <2>1 DEF GuardReset, Dismantled
  <1>10. ASSUME NEW s \in Sources, NEW x, Working("guard"), pair' = [pair EXCEPT !["guard"][s] = x],
               UNCHANGED <<record, stream, closed>>
         PROVE Dismantled(t)'
    <2>1. \A u \in Relay, v \in Sources : u # "guard" \/ v # s => pair'[u][v] = pair[u][v]
      <3>1. pair' = PairWith("guard", s, x)
        BY <1>10 DEF PairWith
      <3>2. QED
        BY <3>1, <1>r, PairSet
    <2>2. QED
      BY <1>10, <1>0, <1>r, <2>1 DEF Working, Dismantled
  <1>11. ASSUME NEW why, GuardFails(why), UNCHANGED <<record, stream>> PROVE Dismantled(t)'
    <2>1. /\ \A v \in Sources : pair'["guard"][v] \in {"none", "gone"}
          /\ \A u \in Relay, v \in Sources : u # "guard" => pair'[u][v] = pair[u][v]
      BY <1>11, <1>r, <1>a, PairSetAll DEF GuardFails
    <2>2. QED
      BY <1>11, <1>0, <1>r, <2>1 DEF GuardFails, Dismantled
  <1>12. ASSUME NEW s \in Sources, GuardOpen(s) \/ GuardReady(s) PROVE Dismantled(t)'
    <2>1. CASE GuardOpen(s)
      BY <2>1, <1>10, <1>11 DEF GuardOpen
    <2>2. CASE GuardReady(s)
      BY <2>2, <1>10, <1>11 DEF GuardReady
    <2>3. QED
      BY <1>12, <2>1, <2>2
  <1>13. ASSUME NEW s \in Sources, DestinationDisorder(s) PROVE Dismantled(t)'
    BY <1>13, <1>0 DEF DestinationDisorder, DestinationFails, Dismantled
  <1>14. ASSUME NEW s \in Sources, NEW r \in Relay, PairCloses(r, s) \/ PairIdles(r, s) PROVE Dismantled(t)'
    <2>1. /\ pair'[r][s] \in {"none", "gone"}
          /\ \A u \in Relay, v \in Sources : u # r \/ v # s => pair'[u][v] = pair[u][v]
      <3>1. pair' = PairWith(r, s, Shut(pair[r][s]))
        BY <1>14 DEF PairCloses, PairIdles, PairWith, Shut
      <3>2. QED
        BY <3>1, PairSet DEF Shut
    <2>2. QED
      BY <1>14, <1>0, <1>r, <2>1 DEF PairCloses, PairIdles, Dismantled, Relay
  <1>15. ASSUME NEW p \in Party, CircuitCloses(p) PROVE Dismantled(t)'
    <2>0. closed' = closed \cup {p}
      BY <1>15 DEF CircuitCloses
    <2>1. CASE p = "entry"
      <3>1. /\ \A v \in Sources : pair'["entry"][v] \in {"none", "gone"}
            /\ \A u \in Relay, v \in Sources : u # "entry" => pair'[u][v] = pair[u][v]
        BY <1>15, <2>1, <1>r, <1>a, PairSetAll DEF CircuitCloses, EntryDown
      <3>2. record' = [s \in Sources |-> FALSE] /\ stream' = stream
        BY <1>15, <2>1 DEF CircuitCloses, EntryDown
      <3>3. QED
        BY <2>0, <2>1, <3>1, <3>2, <1>0, <1>r DEF Dismantled
    <2>2. CASE p = "guard"
      <3>1. /\ \A v \in Sources : pair'["guard"][v] \in {"none", "gone"}
            /\ \A u \in Relay, v \in Sources : u # "guard" => pair'[u][v] = pair[u][v]
        BY <1>15, <2>2, <1>r, <1>a, PairSetAll DEF CircuitCloses
      <3>2. record' = record /\ stream' = stream
        BY <1>15, <2>2 DEF CircuitCloses
      <3>3. QED
        BY <2>0, <2>2, <3>1, <3>2, <1>0, <1>r DEF Dismantled
    <2>3. CASE p = "destination"
      BY <1>15, <2>0, <2>3, <1>0 DEF CircuitCloses, Dismantled
    <2>4. QED
      BY <2>1, <2>2, <2>3 DEF Party
  <1>16. ASSUME NEW p \in Party, LinkFails(p) PROVE Dismantled(t)'
    <2>0. ShutAll("entry")[t] \in {"none", "gone"} /\ ShutAll("guard")[t] \in {"none", "gone"}
      BY <1>a, <1>r
    <2>1. /\ pair'["entry"][t] = IF p = "entry" THEN ShutAll("entry")[t] ELSE pair["entry"][t]
          /\ pair'["guard"][t] = IF p = "guard" THEN ShutAll("guard")[t] ELSE pair["guard"][t]
      BY <1>16, <1>r DEF LinkFails
    <2>2. /\ record'[t] = IF p = "entry" THEN FALSE ELSE record[t]
          /\ stream'[t] = IF p = "destination" THEN FALSE ELSE stream[t]
          /\ closed' = {p}
      BY <1>16 DEF LinkFails
    <2>3. QED
      BY <2>0, <2>1, <2>2, <1>0 DEF Dismantled
  <1>17. ASSUME NEW s \in Sources, EntryWork(s) PROVE Dismantled(t)'
    BY <1>17, <1>2, <1>5, <1>6, <1>7, <1>8 DEF EntryWork, EntrySeesClose, EntryDrops
  <1>18. ASSUME NEW s \in Sources, GuardWork(s) PROVE Dismantled(t)'
    BY <1>18, <1>9, <1>12 DEF GuardWork
  <1>19. ASSUME NEW s \in Sources, DestinationWork(s) PROVE Dismantled(t)'
    BY <1>19, <1>2, <1>3, <1>4, <1>13 DEF DestinationWork, DestinationRefuses, DestinationSevered
  <1>20. ASSUME NEW s \in Sources, SpliceOpen(s) \/ SourceCloses(s) \/ SourceWork(s) PROVE Dismantled(t)'
    BY <1>20, <1>2 DEF SpliceOpen, SourceCloses, SourceWork, SourceReady, SourceReset, SourceSeesClose, SourceSevered
  <1>21. ASSUME UNCHANGED vars PROVE Dismantled(t)'
    BY <1>21, <1>2 DEF vars
  <1>22. QED
    BY <1>1, <1>3, <1>14, <1>15, <1>16, <1>17, <1>18, <1>19, <1>20, <1>21 DEF Next
\* ------------------------------------------------ a path while the circuit is up

\* No OPEN of s is on the links L.
NoOpen(s, L) == \A l \in L : ~ Carries(wire[l][s], "OPEN")

\* The guard has no pair for s and none will be asked for.
GuardFree(s) ==
    pair["guard"][s] \in {"none", "gone"} /\ NoOpen(s, {"source-entry", "entry-guard"})

\* The destination has no stream for s and none will be asked for.
DestinationFree(s) == ~ stream[s] /\ NoOpen(s, Opens)

\* Nothing is anywhere of a source that has not sent its OPEN, but its record.
Fresh(s) ==
    source[s] \in {"none", "admitted"} =>
        /\ \A l \in Link : Bare(wire[l][s])
        /\ pair["entry"][s] = "none" /\ pair["guard"][s] = "none" /\ ~ stream[s] /\ ~ told[s]
        /\ source[s] = "admitted" => record[s]

\* There is one OPEN at most.  Where it is nothing has passed yet: no frame is on the
\* links after it and nothing follows it but a RESET.
OneOpen(s) ==
    /\ \A l \in Opens : OpenFirst(wire[l][s])
    /\ Carries(wire["source-entry"][s], "OPEN") =>
          /\ \A l \in Link \ {"source-entry"} : Bare(wire[l][s])
          /\ source[s] # "open" /\ ~ told[s] /\ ~ stream[s]
    /\ Carries(wire["entry-guard"][s], "OPEN") =>
          Bare(wire["guard-destination"][s]) /\ (\A l \in Answers : Bare(wire[l][s])) /\ ~ stream[s]
    /\ Carries(wire["guard-destination"][s], "OPEN") =>
          (\A l \in Answers : Bare(wire[l][s])) /\ ~ stream[s]

\* When the entry forgot a source, or heard a RESET for it, a RESET is on its way to the
\* guard, or the guard is free and the RESET is on its way to the destination, or that
\* is free too.
Forgotten(s) ==
    told[s] \/ (~ record[s] /\ source[s] # "none") =>
        \/ Carries(wire["entry-guard"][s], "RESET")
        \/ GuardFree(s) /\ (Carries(wire["guard-destination"][s], "RESET") \/ DestinationFree(s))

\* A RESET coming back has left the destination free, and past the guard the guard too.
ResetBehind(s) ==
    /\ Carries(wire["destination-guard"][s], "RESET") => DestinationFree(s)
    /\ Carries(wire["guard-entry"][s], "RESET") => DestinationFree(s) /\ GuardFree(s)

\* A source waits only while its OPEN or the answer is under way, or its link was closed.
Answered(s) ==
    source[s] = "opening" =>
        \/ ~ record[s] \/ ~ NoOpen(s, Opens)
        \/ \E l \in Answers : Carries(wire[l][s], "READY") \/ Carries(wire[l][s], "RESET")

\* A source is open, or about to be, only after the entry's pair was connected.
OpenIsJoined(s) ==
    Carries(wire["entry-source"][s], "READY") \/ source[s] = "open" =>
        pair["entry"][s] \in {"active", "gone"}

\* All of it, for one stream.
Path(s) == Fresh(s) /\ OneOpen(s) /\ Forgotten(s) /\ ResetBehind(s) /\ Answered(s) /\ OpenIsJoined(s)

\* ... of every stream, while the circuit is up.
Up == closed = {} => \A s \in Sources : Path(s)

\* A step that touches nothing of stream t
Same(t) ==
    /\ source'[t] = source[t] /\ record'[t] = record[t] /\ told'[t] = told[t] /\ stream'[t] = stream[t]
    /\ \A r \in Relay : pair'[r][t] = pair[r][t]
    /\ \A l \in Link : wire'[l][t] = wire[l][t]

\* ... keeps its account.
LEMMA SamePath ==
    ASSUME NEW t \in Sources, Path(t), Same(t)
    PROVE  Path(t)'
  <1>1. /\ \A l \in Opens : wire'[l][t] = wire[l][t]
        /\ \A l \in Answers : wire'[l][t] = wire[l][t]
        /\ pair'["entry"][t] = pair["entry"][t] /\ pair'["guard"][t] = pair["guard"][t]
    BY DEF Same, Opens, Answers, Link, Relay
  <1>2. (NoOpen(t, Opens) <=> NoOpen(t, Opens)')
    BY <1>1 DEF NoOpen
  <1>3. (GuardFree(t) <=> GuardFree(t)') /\ (DestinationFree(t) <=> DestinationFree(t)')
    BY <1>1, <1>2 DEF GuardFree, DestinationFree, NoOpen, Opens, Same
  <1>4. Fresh(t)'
    BY <1>1 DEF Path, Fresh, Same
  <1>5. OneOpen(t)'
    BY <1>1 DEF Path, OneOpen, Same, Opens, Answers
  <1>6. Forgotten(t)' /\ ResetBehind(t)'
    BY <1>1, <1>3 DEF Path, Forgotten, ResetBehind, Same, Opens, Answers
  <1>7. Answered(t)' /\ OpenIsJoined(t)'
    BY <1>1, <1>2 DEF Path, Answered, OpenIsJoined, Same, Answers
  <1>8. QED
    BY <1>4, <1>5, <1>6, <1>7 DEF Path

\* Queue r is queue q after frame f was read from it,
Left(q, r, f) ==
    /\ \A g \in Frame : Carries(q, g) <=> (Carries(r, g) \/ g = f)
    /\ OpenFirst(q) => ~ Carries(r, "OPEN") /\ OpenFirst(r) /\ (Carries(q, "OPEN") => f = "OPEN")

\* ... and after frame f was sent on it.
Came(q, r, f) ==
    /\ \A g \in Frame : Carries(r, g) <=> (Carries(q, g) \/ g = f)
    /\ OpenFirst(q) /\ (f # "OPEN" \/ Bare(q)) => OpenFirst(r)

\* Reading is Left.
LEMMA LeftTail ==
    ASSUME NEW q \in Seq(Frame), q # <<>>
    PROVE  Left(q, Tail(q), Head(q))
  BY CarriesTail, OpenLeads DEF Left

\* Sending is Came.
LEMMA CameAppend ==
    ASSUME NEW q \in Seq(Frame), NEW f \in Frame
    PROVE  Came(q, Append(q, f), f)
  BY CarriesAppend, OpenFirstAppend DEF Came

\* Take, in terms of frames.
LEMMA TakeFrames ==
    ASSUME TypeOK, NEW s \in Sources, NEW from \in Link, wire[from][s] # <<>>
    PROVE  /\ Left(wire[from][s], Take(from, s)[from][s], Head(wire[from][s]))
           /\ Differs(wire, Take(from, s), s, {from})
           /\ Take(from, s) \in Wires
  <1>1. wire \in Wires /\ wire[from][s] \in Seq(Frame)
    BY DEF TypeOK, Wires
  <1>2. QED
    BY <1>1, TakeWire, LeftTail

\* Put, in terms of frames, while the circuit is up.
LEMMA PutFrames ==
    ASSUME TypeOK, closed = {}, NEW s \in Sources, NEW to \in Link, NEW f \in Frame
    PROVE  /\ Came(wire[to][s], Put(to, s, f)[to][s], f)
           /\ Differs(wire, Put(to, s, f), s, {to})
           /\ Put(to, s, f) \in Wires
  <1>1. wire \in Wires /\ wire[to][s] \in Seq(Frame)
    BY DEF TypeOK, Wires
  <1>2. QED
    BY <1>1, PutWire, SentFrames, CameAppend

\* Forward, in terms of frames, while the circuit is up.
LEMMA ForwardFrames ==
    ASSUME TypeOK, closed = {}, NEW s \in Sources, NEW from \in Link, NEW to \in Link, from # to,
           wire[from][s] # <<>>, NEW f \in Frame
    PROVE  /\ Left(wire[from][s], Forward(from, to, s, f)[from][s], Head(wire[from][s]))
           /\ Came(wire[to][s], Forward(from, to, s, f)[to][s], f)
           /\ Differs(wire, Forward(from, to, s, f), s, {from, to})
           /\ Forward(from, to, s, f) \in Wires
  <1>1. wire \in Wires /\ wire[from][s] \in Seq(Frame) /\ wire[to][s] \in Seq(Frame)
    BY DEF TypeOK, Wires
  <1> DEFINE w == Forward(from, to, s, f)
  <1>2. /\ w \in Wires /\ Differs(wire, w, s, {from, to})
        /\ w[from][s] = Tail(wire[from][s]) /\ w[to][s] = Sent(to, wire[to][s], f)
    BY <1>1, ForwardWire
  <1> HIDE DEF w
  <1>3. w[to][s] = Append(wire[to][s], f)
    BY <1>1, <1>2, SentFrames
  <1>4. Left(wire[from][s], Tail(wire[from][s]), Head(wire[from][s])) /\ Came(wire[to][s], Append(wire[to][s], f), f)
    BY <1>1, LeftTail, CameAppend
  <1>5. /\ Left(wire[from][s], w[from][s], Head(wire[from][s])) /\ Came(wire[to][s], w[to][s], f)
        /\ Differs(wire, w, s, {from, to}) /\ w \in Wires
    BY <1>2, <1>3, <1>4
  <1>6. QED
    BY <1>5 DEF w
\* EntryCircuit makes a pair and passes the OPEN on; the link ahead of it is bare.
LEMMA EntryOpenPath ==
    ASSUME TypeOK, closed = {}, NEW s \in Sources, Path(s), EntryOpen(s)
    PROVE  Path(s)' /\ \A t \in Sources \ {s} : Same(t)
  <1>1. /\ Left(wire["source-entry"][s], wire'["source-entry"][s], "OPEN")
        /\ Came(wire["entry-guard"][s], wire'["entry-guard"][s], "OPEN")
        /\ Differs(wire, wire', s, {"source-entry", "entry-guard"})
        /\ Carries(wire["source-entry"][s], "OPEN")
    <2>1. wire["source-entry"][s] # <<>> /\ Head(wire["source-entry"][s]) = "OPEN" /\ wire["source-entry"][s] \in Seq(Frame)
      BY DEF EntryOpen, Arrives, TypeOK, Link
    <2>2. wire' = Forward("source-entry", "entry-guard", s, "OPEN")
      BY DEF EntryOpen
    <2>3. QED
      BY <2>1, <2>2, ForwardFrames, CarriesHead DEF Link, Frame
  <1>2. /\ wire'["entry-source"][s] = wire["entry-source"][s] /\ wire'["guard-entry"][s] = wire["guard-entry"][s]
        /\ wire'["guard-destination"][s] = wire["guard-destination"][s]
        /\ wire'["destination-guard"][s] = wire["destination-guard"][s]
    BY <1>1 DEF Differs, Link
  <1>3. /\ pair'["entry"][s] = "waiting" /\ pair'["guard"][s] = pair["guard"][s]
        /\ \A r \in Relay, t \in Sources \ {s} : pair'[r][t] = pair[r][t]
    <2>1. pair' = PairWith("entry", s, "waiting")
      BY DEF EntryOpen, PairWith
    <2>2. QED
      BY <2>1, PairSet DEF Relay
  <1>4. UNCHANGED <<source, record, told, stream>> /\ record[s]
    BY DEF EntryOpen
  <1>5. \A t \in Sources \ {s} : Same(t)
    BY <1>1, <1>3, <1>4 DEF Same, Differs
  <1>6. Fresh(s)'
    BY <1>1, <1>4 DEF Path, Fresh, Bare, Link
  <1>7. OneOpen(s)'
    BY <1>1, <1>2, <1>4 DEF Path, OneOpen, Left, Came, Opens, Answers, Link
  <1>8. Forgotten(s)'
    BY <1>1, <1>4 DEF Path, Forgotten, OneOpen
  <1>9. ResetBehind(s)'
    BY <1>1, <1>2 DEF Path, ResetBehind, OneOpen, Bare, Link
  <1>10. Answered(s)'
    BY <1>1 DEF Path, Answered, NoOpen, Opens, Came, Frame
  <1>11. OpenIsJoined(s)'
    BY <1>1, <1>2, <1>4 DEF Path, OpenIsJoined, OneOpen, Bare, Link
  <1>12. QED
    BY <1>5, <1>6, <1>7, <1>8, <1>9, <1>10, <1>11 DEF Path
\* The OPEN starts from a source of which nothing was under way.
LEMMA SpliceOpenPath ==
    ASSUME TypeOK, closed = {}, NEW s \in Sources, Path(s), SpliceOpen(s)
    PROVE  Path(s)' /\ \A t \in Sources \ {s} : Same(t)
  <1>1. /\ Came(wire["source-entry"][s], wire'["source-entry"][s], "OPEN")
        /\ Differs(wire, wire', s, {"source-entry"})
    <2>1. wire' = Put("source-entry", s, "OPEN")
      BY DEF SpliceOpen
    <2>2. QED
      BY <2>1, PutFrames DEF Link, Frame
  <1>2. /\ wire'["entry-source"][s] = wire["entry-source"][s]
        /\ wire'["entry-guard"][s] = wire["entry-guard"][s]
        /\ wire'["guard-entry"][s] = wire["guard-entry"][s]
        /\ wire'["guard-destination"][s] = wire["guard-destination"][s]
        /\ wire'["destination-guard"][s] = wire["destination-guard"][s]
    BY <1>1 DEF Differs, Link
  <1>4. /\ source[s] = "admitted" /\ source'[s] = "opening"
        /\ \A t \in Sources \ {s} : source'[t] = source[t]
        /\ UNCHANGED <<record, told, pair, stream>>
    BY DEF SpliceOpen, TypeOK
  <1>5. \A t \in Sources \ {s} : Same(t)
    BY <1>1, <1>2, <1>4 DEF Same, Differs
  <1>6. Fresh(s)'
    BY <1>4 DEF Path, Fresh
  <1>7. OneOpen(s)'
    BY <1>1, <1>2, <1>4 DEF Path, OneOpen, Fresh, Came, Opens, Answers, Link
  <1>8. Forgotten(s)'
    BY <1>4 DEF Path, Forgotten, Fresh
  <1>9. ResetBehind(s)'
    BY <1>2, <1>4 DEF Path, ResetBehind, Fresh, Bare, Link
  <1>10. Answered(s)'
    BY <1>1 DEF Path, Answered, NoOpen, Came, Opens, Frame
  <1>11. OpenIsJoined(s)'
    BY <1>2, <1>4 DEF Path, OpenIsJoined
  <1>12. QED
    BY <1>5, <1>6, <1>7, <1>8, <1>9, <1>10, <1>11 DEF Path

\* READY opens the source; the entry's pair was connected before READY was sent.
LEMMA SourceReadyPath ==
    ASSUME TypeOK, closed = {}, NEW s \in Sources, Path(s), SourceReady(s)
    PROVE  Path(s)' /\ \A t \in Sources \ {s} : Same(t)
  <1>1. /\ Left(wire["entry-source"][s], wire'["entry-source"][s], "READY")
        /\ Carries(wire["entry-source"][s], "READY")
        /\ Differs(wire, wire', s, {"entry-source"})
    <2>1. wire["entry-source"][s] # <<>> /\ Head(wire["entry-source"][s]) = "READY" /\ wire["entry-source"][s] \in Seq(Frame)
      BY DEF SourceReady, Arrives, TypeOK, Link
    <2>2. wire' = Take("entry-source", s)
      BY DEF SourceReady
    <2>3. QED
      BY <2>1, <2>2, TakeFrames, CarriesHead DEF Link, Frame
  <1>2. /\ wire'["source-entry"][s] = wire["source-entry"][s]
        /\ wire'["entry-guard"][s] = wire["entry-guard"][s]
        /\ wire'["guard-entry"][s] = wire["guard-entry"][s]
        /\ wire'["guard-destination"][s] = wire["guard-destination"][s]
        /\ wire'["destination-guard"][s] = wire["destination-guard"][s]
    BY <1>1 DEF Differs, Link
  <1>4. /\ source[s] = "opening" /\ source'[s] = "open"
        /\ \A t \in Sources \ {s} : source'[t] = source[t]
        /\ UNCHANGED <<record, told, pair, stream>>
    BY DEF SourceReady, TypeOK
  <1>5. \A t \in Sources \ {s} : Same(t)
    BY <1>1, <1>2, <1>4 DEF Same, Differs
  <1>6. Fresh(s)'
    BY <1>4 DEF Path, Fresh
  <1>7. OneOpen(s)'
    BY <1>1, <1>2 DEF Path, OneOpen, Bare, Opens, Answers, Link
  <1>8. Forgotten(s)'
    BY <1>2, <1>4 DEF Path, Forgotten, GuardFree, DestinationFree, NoOpen, Opens
  <1>9. ResetBehind(s)'
    BY <1>2, <1>4 DEF Path, ResetBehind, GuardFree, DestinationFree, NoOpen, Opens
  <1>10. Answered(s)'
    BY <1>4 DEF Path, Answered
  <1>11. OpenIsJoined(s)'
    BY <1>1, <1>4 DEF Path, OpenIsJoined
  <1>12. QED
    BY <1>5, <1>6, <1>7, <1>8, <1>9, <1>10, <1>11 DEF Path

\* RESET ends the source; the entry will see its link close.
LEMMA SourceResetPath ==
    ASSUME TypeOK, closed = {}, NEW s \in Sources, Path(s), SourceReset(s)
    PROVE  Path(s)' /\ \A t \in Sources \ {s} : Same(t)
  <1>1. /\ wire'["entry-source"][s] = <<>>
        /\ Differs(wire, wire', s, {"entry-source"})
    <2>1. wire' = Lose(wire, "entry-source", s) /\ wire \in Wires
      BY DEF SourceReset, TypeOK, Wires
    <2>2. QED
      BY <2>1, LoseWire DEF Link
  <1>2. /\ wire'["source-entry"][s] = wire["source-entry"][s]
        /\ wire'["entry-guard"][s] = wire["entry-guard"][s]
        /\ wire'["guard-entry"][s] = wire["guard-entry"][s]
        /\ wire'["guard-destination"][s] = wire["guard-destination"][s]
        /\ wire'["destination-guard"][s] = wire["destination-guard"][s]
    BY <1>1 DEF Differs, Link
  <1>4. /\ source[s] \in {"admitted", "opening", "open"} /\ source'[s] = "closed"
        /\ \A t \in Sources \ {s} : source'[t] = source[t]
        /\ UNCHANGED <<record, told, pair, stream>>
    BY DEF SourceReset, SourceGone, Ending, TypeOK
  <1>5. \A t \in Sources \ {s} : Same(t)
    BY <1>1, <1>2, <1>4 DEF Same, Differs
  <1>6. Fresh(s)'
    BY <1>4 DEF Path, Fresh
  <1>7. OneOpen(s)'
    BY <1>1, <1>2, <1>4, EmptyIsBare DEF Path, OneOpen, Opens, Answers, Link
  <1>8. Forgotten(s)'
    BY <1>2, <1>4 DEF Path, Forgotten, GuardFree, DestinationFree, NoOpen, Opens
  <1>9. ResetBehind(s)'
    BY <1>2, <1>4 DEF Path, ResetBehind, GuardFree, DestinationFree, NoOpen, Opens
  <1>10. Answered(s)'
    BY <1>4 DEF Path, Answered
  <1>11. OpenIsJoined(s)'
    BY <1>1, <1>4, EmptyIsBare DEF Path, OpenIsJoined, Bare
  <1>12. QED
    BY <1>5, <1>6, <1>7, <1>8, <1>9, <1>10, <1>11 DEF Path

\* A source drops its link; an OPEN it sent may still be on it.
LEMMA SourceDropsPath ==
    ASSUME TypeOK, closed = {}, NEW s \in Sources, Path(s), SourceGone(s), Ending(s), UNCHANGED <<record, told, pair, stream>>,
           wire' = Lose(wire, "entry-source", s)
    PROVE  Path(s)' /\ \A t \in Sources \ {s} : Same(t)
  <1>1. /\ wire'["entry-source"][s] = <<>>
        /\ Differs(wire, wire', s, {"entry-source"})
    <2>1. wire' = Lose(wire, "entry-source", s) /\ wire \in Wires
      BY DEF TypeOK, Wires
    <2>2. QED
      BY <2>1, LoseWire DEF Link
  <1>2. /\ wire'["source-entry"][s] = wire["source-entry"][s]
        /\ wire'["entry-guard"][s] = wire["entry-guard"][s]
        /\ wire'["guard-entry"][s] = wire["guard-entry"][s]
        /\ wire'["guard-destination"][s] = wire["guard-destination"][s]
        /\ wire'["destination-guard"][s] = wire["destination-guard"][s]
    BY <1>1 DEF Differs, Link
  <1>4. /\ source[s] \in {"admitted", "opening", "open"} /\ source'[s] = "closed"
        /\ \A t \in Sources \ {s} : source'[t] = source[t]
        /\ UNCHANGED <<record, told, pair, stream>>
    BY DEF SourceGone, Ending, TypeOK
  <1>5. \A t \in Sources \ {s} : Same(t)
    BY <1>1, <1>2, <1>4 DEF Same, Differs
  <1>6. Fresh(s)'
    BY <1>4 DEF Path, Fresh
  <1>7. OneOpen(s)'
    BY <1>1, <1>2, <1>4, EmptyIsBare DEF Path, OneOpen, Opens, Answers, Link
  <1>8. Forgotten(s)'
    BY <1>2 DEF Path, Forgotten, Fresh, GuardFree, DestinationFree, NoOpen, Bare, Opens, Link
  <1>9. ResetBehind(s)'
    BY <1>2 DEF Path, ResetBehind, GuardFree, DestinationFree, NoOpen, Opens
  <1>10. Answered(s)'
    BY <1>4 DEF Path, Answered
  <1>11. OpenIsJoined(s)'
    BY <1>1, <1>4, EmptyIsBare DEF Path, OpenIsJoined, Bare
  <1>12. QED
    BY <1>5, <1>6, <1>7, <1>8, <1>9, <1>10, <1>11 DEF Path

\* A source that was open sends RESET; its OPEN has long passed.
LEMMA SourceSaysClosePath ==
    ASSUME TypeOK, closed = {}, NEW s \in Sources, Path(s), SourceGone(s), Ending(s), UNCHANGED <<record, told, pair, stream>>,
           source[s] = "open", wire' = Lose(Put("source-entry", s, "RESET"), "entry-source", s)
    PROVE  Path(s)' /\ \A t \in Sources \ {s} : Same(t)
  <1>1. /\ Came(wire["source-entry"][s], wire'["source-entry"][s], "RESET")
        /\ wire'["entry-source"][s] = <<>>
        /\ Differs(wire, wire', s, {"source-entry", "entry-source"})
    <2> DEFINE w == Put("source-entry", s, "RESET")
    <2>1. w \in Wires /\ Came(wire["source-entry"][s], w["source-entry"][s], "RESET") /\ Differs(wire, w, s, {"source-entry"})
      BY PutFrames DEF Link, Frame
    <2> HIDE DEF w
    <2>2. wire' = Lose(w, "entry-source", s)
      BY DEF w
    <2>3. wire'["entry-source"][s] = <<>> /\ Differs(w, wire', s, {"entry-source"})
      BY <2>1, <2>2, LoseWire DEF Link
    <2>4. QED
      BY <2>1, <2>3 DEF Differs, Link
  <1>2. /\ wire'["entry-guard"][s] = wire["entry-guard"][s]
        /\ wire'["guard-entry"][s] = wire["guard-entry"][s]
        /\ wire'["guard-destination"][s] = wire["guard-destination"][s]
        /\ wire'["destination-guard"][s] = wire["destination-guard"][s]
    BY <1>1 DEF Differs, Link
  <1>4. /\ source[s] = "open" /\ source'[s] = "closed"
        /\ \A t \in Sources \ {s} : source'[t] = source[t]
        /\ UNCHANGED <<record, told, pair, stream>>
    BY DEF SourceGone, Ending, TypeOK
  <1>5. \A t \in Sources \ {s} : Same(t)
    BY <1>1, <1>2, <1>4 DEF Same, Differs
  <1>6. Fresh(s)'
    BY <1>4 DEF Path, Fresh
  <1>7. OneOpen(s)'
    BY <1>1, <1>2, EmptyIsBare DEF Path, OneOpen, Came, Opens, Answers, Frame
  <1>8. Forgotten(s)'
    BY <1>1, <1>2 DEF Path, Forgotten, GuardFree, DestinationFree, NoOpen, Came, Opens, Frame
  <1>9. ResetBehind(s)'
    BY <1>1, <1>2 DEF Path, ResetBehind, GuardFree, DestinationFree, NoOpen, Came, Opens, Frame
  <1>10. Answered(s)'
    BY <1>4 DEF Path, Answered
  <1>11. OpenIsJoined(s)'
    BY EmptyIsBare DEF Path, OpenIsJoined
  <1>12. QED
    BY <1>5, <1>6, <1>7, <1>8, <1>9, <1>10, <1>11 DEF Path

\* The entry passes the source's RESET on to the guard.
LEMMA EntryResetOnPath ==
    ASSUME TypeOK, closed = {}, NEW s \in Sources, Path(s), EntryReset(s, "source-entry", "entry-guard")
    PROVE  Path(s)' /\ \A t \in Sources \ {s} : Same(t)
  <1>1. /\ Left(wire["source-entry"][s], wire'["source-entry"][s], "RESET")
        /\ Came(wire["entry-guard"][s], wire'["entry-guard"][s], "RESET")
        /\ Carries(wire["source-entry"][s], "RESET")
        /\ Differs(wire, wire', s, {"source-entry", "entry-guard"})
    <2>1. wire["source-entry"][s] # <<>> /\ Head(wire["source-entry"][s]) = "RESET" /\ wire["source-entry"][s] \in Seq(Frame)
      BY DEF EntryReset, Arrives, TypeOK, Link
    <2>2. wire' = Forward("source-entry", "entry-guard", s, "RESET")
      BY DEF EntryReset
    <2>3. QED
      BY <2>1, <2>2, ForwardFrames, CarriesHead DEF Link, Frame
  <1>2. /\ wire'["entry-source"][s] = wire["entry-source"][s]
        /\ wire'["guard-entry"][s] = wire["guard-entry"][s]
        /\ wire'["guard-destination"][s] = wire["guard-destination"][s]
        /\ wire'["destination-guard"][s] = wire["destination-guard"][s]
    BY <1>1 DEF Differs, Link
  <1>3. /\ pair'["entry"][s] \in {"none", "gone"}
        /\ pair["entry"][s] \in {"active", "gone"} => pair'["entry"][s] = "gone"
        /\ pair'["guard"][s] = pair["guard"][s]
        /\ \A r \in Relay, t \in Sources \ {s} : pair'[r][t] = pair[r][t]
    <2>1. pair' = PairWith("entry", s, Shut(pair["entry"][s]))
      BY DEF EntryReset, PairWith
    <2>2. pair["entry"][s] \in PairState
      BY DEF TypeOK, Relay
    <2>3. QED
      BY <2>1, <2>2, PairSet, ShutPairs DEF Relay
  <1>4. /\ record[s] /\ told'[s]
        /\ \A t \in Sources \ {s} : told'[t] = told[t]
        /\ UNCHANGED <<source, record, stream>>
    BY DEF EntryReset, TypeOK
  <1>5. \A t \in Sources \ {s} : Same(t)
    BY <1>1, <1>2, <1>3, <1>4 DEF Same, Differs
  <1>6. Fresh(s)'
    BY <1>1, <1>4 DEF Path, Fresh, Bare, Link
  <1>7. OneOpen(s)'
    BY <1>1, <1>2, <1>4 DEF Path, OneOpen, Left, Came, Opens, Answers, Frame
  <1>8. Forgotten(s)'
    BY <1>1 DEF Path, Forgotten, Came, Frame
  <1>9. ResetBehind(s)'
    BY <1>1, <1>2, <1>3, <1>4 DEF Path, ResetBehind, GuardFree, DestinationFree, NoOpen, Left, Came, Opens, Frame
  <1>10. Answered(s)'
    BY <1>1, <1>2, <1>4 DEF Path, Answered, NoOpen, Left, Came, Opens, Answers, Frame
  <1>11. OpenIsJoined(s)'
    BY <1>2, <1>3, <1>4 DEF Path, OpenIsJoined
  <1>12. QED
    BY <1>5, <1>6, <1>7, <1>8, <1>9, <1>10, <1>11 DEF Path

\* The entry passes a RESET back: guard and destination are free already.
LEMMA EntryResetBackPath ==
    ASSUME TypeOK, closed = {}, NEW s \in Sources, Path(s), EntryReset(s, "guard-entry", "entry-source")
    PROVE  Path(s)' /\ \A t \in Sources \ {s} : Same(t)
  <1>1. /\ Left(wire["guard-entry"][s], wire'["guard-entry"][s], "RESET")
        /\ Came(wire["entry-source"][s], wire'["entry-source"][s], "RESET")
        /\ Carries(wire["guard-entry"][s], "RESET")
        /\ Differs(wire, wire', s, {"guard-entry", "entry-source"})
    <2>1. wire["guard-entry"][s] # <<>> /\ Head(wire["guard-entry"][s]) = "RESET" /\ wire["guard-entry"][s] \in Seq(Frame)
      BY DEF EntryReset, Arrives, TypeOK, Link
    <2>2. wire' = Forward("guard-entry", "entry-source", s, "RESET")
      BY DEF EntryReset
    <2>3. QED
      BY <2>1, <2>2, ForwardFrames, CarriesHead DEF Link, Frame
  <1>2. /\ wire'["source-entry"][s] = wire["source-entry"][s]
        /\ wire'["entry-guard"][s] = wire["entry-guard"][s]
        /\ wire'["guard-destination"][s] = wire["guard-destination"][s]
        /\ wire'["destination-guard"][s] = wire["destination-guard"][s]
    BY <1>1 DEF Differs, Link
  <1>3. /\ pair'["entry"][s] \in {"none", "gone"}
        /\ pair["entry"][s] \in {"active", "gone"} => pair'["entry"][s] = "gone"
        /\ pair'["guard"][s] = pair["guard"][s]
        /\ \A r \in Relay, t \in Sources \ {s} : pair'[r][t] = pair[r][t]
    <2>1. pair' = PairWith("entry", s, Shut(pair["entry"][s]))
      BY DEF EntryReset, PairWith
    <2>2. pair["entry"][s] \in PairState
      BY DEF TypeOK, Relay
    <2>3. QED
      BY <2>1, <2>2, PairSet, ShutPairs DEF Relay
  <1>4. /\ record[s] /\ told'[s]
        /\ \A t \in Sources \ {s} : told'[t] = told[t]
        /\ UNCHANGED <<source, record, stream>>
    BY DEF EntryReset, TypeOK
  <1>5. \A t \in Sources \ {s} : Same(t)
    BY <1>1, <1>2, <1>3, <1>4 DEF Same, Differs
  <1>6. Fresh(s)'
    BY <1>1, <1>4 DEF Path, Fresh, Bare, Link
  <1>7. OneOpen(s)'
    BY <1>1, <1>2 DEF Path, OneOpen, Bare, Opens, Answers, Link
  <1>8. Forgotten(s)'
    BY <1>1, <1>2, <1>3, <1>4 DEF Path, Forgotten, ResetBehind, GuardFree, DestinationFree, NoOpen, Opens
  <1>9. ResetBehind(s)'
    BY <1>1, <1>2, <1>3, <1>4 DEF Path, ResetBehind, GuardFree, DestinationFree, NoOpen, Opens
  <1>10. Answered(s)'
    BY <1>1 DEF Path, Answered, Came, Answers, Frame
  <1>11. OpenIsJoined(s)'
    BY <1>1, <1>3, <1>4 DEF Path, OpenIsJoined, Came, Frame
  <1>12. QED
    BY <1>5, <1>6, <1>7, <1>8, <1>9, <1>10, <1>11 DEF Path

\* The entry finds a source gone and sends RESET after whatever it forwarded.
LEMMA LegTellsPath ==
    ASSUME TypeOK, closed = {}, NEW s \in Sources, Path(s), LegCloses(s), record[s], source[s] = "closed",
           wire' = Lose(Put("entry-guard", s, "RESET"), "source-entry", s)
    PROVE  Path(s)' /\ \A t \in Sources \ {s} : Same(t)
  <1>1. /\ Came(wire["entry-guard"][s], wire'["entry-guard"][s], "RESET")
        /\ wire'["source-entry"][s] = <<>>
        /\ Differs(wire, wire', s, {"entry-guard", "source-entry"})
    <2> DEFINE w == Put("entry-guard", s, "RESET")
    <2>1. w \in Wires /\ Came(wire["entry-guard"][s], w["entry-guard"][s], "RESET") /\ Differs(wire, w, s, {"entry-guard"})
      BY PutFrames DEF Link, Frame
    <2> HIDE DEF w
    <2>2. wire' = Lose(w, "source-entry", s)
      BY DEF w
    <2>3. wire'["source-entry"][s] = <<>> /\ Differs(w, wire', s, {"source-entry"})
      BY <2>1, <2>2, LoseWire DEF Link
    <2>4. QED
      BY <2>1, <2>3 DEF Differs, Link
  <1>2. /\ wire'["entry-source"][s] = wire["entry-source"][s]
        /\ wire'["guard-entry"][s] = wire["guard-entry"][s]
        /\ wire'["guard-destination"][s] = wire["guard-destination"][s]
        /\ wire'["destination-guard"][s] = wire["destination-guard"][s]
    BY <1>1 DEF Differs, Link
  <1>3. /\ pair'["entry"][s] \in {"none", "gone"}
        /\ pair["entry"][s] \in {"active", "gone"} => pair'["entry"][s] = "gone"
        /\ pair'["guard"][s] = pair["guard"][s]
        /\ \A r \in Relay, t \in Sources \ {s} : pair'[r][t] = pair[r][t]
    <2>1. pair' = PairWith("entry", s, Shut(pair["entry"][s]))
      BY DEF LegCloses, PairWith
    <2>2. pair["entry"][s] \in PairState
      BY DEF TypeOK, Relay
    <2>3. QED
      BY <2>1, <2>2, PairSet, ShutPairs DEF Relay
  <1>4. /\ record[s] /\ ~ record'[s]
        /\ \A t \in Sources \ {s} : record'[t] = record[t]
        /\ UNCHANGED <<source, told, stream>>
    BY DEF LegCloses, TypeOK
  <1>5. \A t \in Sources \ {s} : Same(t)
    BY <1>1, <1>2, <1>3, <1>4 DEF Same, Differs
  <1>6. Fresh(s)'
    BY <1>4 DEF Path, Fresh
  <1>7. OneOpen(s)'
    BY <1>1, <1>2, <1>4, EmptyIsBare DEF Path, OneOpen, Bare, Came, Opens, Answers, Frame
  <1>8. Forgotten(s)'
    BY <1>1 DEF Path, Forgotten, Came, Frame
  <1>9. ResetBehind(s)'
    BY <1>1, <1>2, <1>3, <1>4, EmptyIsBare DEF Path, ResetBehind, GuardFree, DestinationFree, NoOpen, Bare, Came, Opens, Frame
  <1>10. Answered(s)'
    BY <1>4 DEF Path, Answered
  <1>11. OpenIsJoined(s)'
    BY <1>2, <1>3, <1>4 DEF Path, OpenIsJoined
  <1>12. QED
    BY <1>5, <1>6, <1>7, <1>8, <1>9, <1>10, <1>11 DEF Path

\* The entry finds a source gone of which the others have been told.
LEMMA LegKnowsPath ==
    ASSUME TypeOK, closed = {}, NEW s \in Sources, Path(s), LegCloses(s), record[s], told[s], source[s] = "closed",
           wire' = Lose(wire, "source-entry", s)
    PROVE  Path(s)' /\ \A t \in Sources \ {s} : Same(t)
  <1>1. /\ wire'["source-entry"][s] = <<>>
        /\ Differs(wire, wire', s, {"source-entry"})
    <2>1. wire' = Lose(wire, "source-entry", s) /\ wire \in Wires
      BY DEF TypeOK, Wires
    <2>2. QED
      BY <2>1, LoseWire DEF Link
  <1>2. /\ wire'["entry-source"][s] = wire["entry-source"][s]
        /\ wire'["entry-guard"][s] = wire["entry-guard"][s]
        /\ wire'["guard-entry"][s] = wire["guard-entry"][s]
        /\ wire'["guard-destination"][s] = wire["guard-destination"][s]
        /\ wire'["destination-guard"][s] = wire["destination-guard"][s]
    BY <1>1 DEF Differs, Link
  <1>3. /\ pair'["entry"][s] \in {"none", "gone"}
        /\ pair["entry"][s] \in {"active", "gone"} => pair'["entry"][s] = "gone"
        /\ pair'["guard"][s] = pair["guard"][s]
        /\ \A r \in Relay, t \in Sources \ {s} : pair'[r][t] = pair[r][t]
    <2>1. pair' = PairWith("entry", s, Shut(pair["entry"][s]))
      BY DEF LegCloses, PairWith
    <2>2. pair["entry"][s] \in PairState
      BY DEF TypeOK, Relay
    <2>3. QED
      BY <2>1, <2>2, PairSet, ShutPairs DEF Relay
  <1>4. /\ record[s] /\ ~ record'[s]
        /\ \A t \in Sources \ {s} : record'[t] = record[t]
        /\ UNCHANGED <<source, told, stream>>
    BY DEF LegCloses, TypeOK
  <1>5. \A t \in Sources \ {s} : Same(t)
    BY <1>1, <1>2, <1>3, <1>4 DEF Same, Differs
  <1>6. Fresh(s)'
    BY <1>4 DEF Path, Fresh
  <1>7. OneOpen(s)'
    BY <1>1, <1>2, <1>4, EmptyIsBare DEF Path, OneOpen, Bare, Opens, Answers
  <1>8. Forgotten(s)'
    BY <1>1, <1>2, <1>3, <1>4, EmptyIsBare DEF Path, Forgotten, GuardFree, DestinationFree, NoOpen, Bare, Opens
  <1>9. ResetBehind(s)'
    BY <1>1, <1>2, <1>3, <1>4, EmptyIsBare DEF Path, ResetBehind, GuardFree, DestinationFree, NoOpen, Bare, Opens
  <1>10. Answered(s)'
    BY <1>4 DEF Path, Answered
  <1>11. OpenIsJoined(s)'
    BY <1>2, <1>3, <1>4 DEF Path, OpenIsJoined
  <1>12. QED
    BY <1>5, <1>6, <1>7, <1>8, <1>9, <1>10, <1>11 DEF Path

\* READY finds no pair waiting: the entry closes the source's link and sends RESET.
LEMMA LegBreaksPath ==
    ASSUME TypeOK, closed = {}, NEW s \in Sources, Path(s), LegCloses(s), record[s], Arrives("guard-entry", s, "READY"),
           wire' = Lose(Forward("guard-entry", "entry-guard", s, "RESET"), "source-entry", s)
    PROVE  Path(s)' /\ \A t \in Sources \ {s} : Same(t)
  <1>1. /\ Left(wire["guard-entry"][s], wire'["guard-entry"][s], "READY")
        /\ Came(wire["entry-guard"][s], wire'["entry-guard"][s], "RESET")
        /\ wire'["source-entry"][s] = <<>>
        /\ Carries(wire["guard-entry"][s], "READY")
        /\ Differs(wire, wire', s, {"guard-entry", "entry-guard", "source-entry"})
    <2> DEFINE w == Forward("guard-entry", "entry-guard", s, "RESET")
    <2>1. wire["guard-entry"][s] # <<>> /\ Head(wire["guard-entry"][s]) = "READY" /\ wire["guard-entry"][s] \in Seq(Frame)
      BY DEF Arrives, TypeOK, Link
    <2>2. Carries(wire["guard-entry"][s], "READY")
      BY <2>1, CarriesHead
    <2>3. /\ w \in Wires /\ Left(wire["guard-entry"][s], w["guard-entry"][s], "READY")
          /\ Came(wire["entry-guard"][s], w["entry-guard"][s], "RESET")
          /\ Differs(wire, w, s, {"guard-entry", "entry-guard"})
      BY <2>1, ForwardFrames DEF Link, Frame
    <2> HIDE DEF w
    <2>4. wire' = Lose(w, "source-entry", s)
      BY DEF w
    <2>5. wire'["source-entry"][s] = <<>> /\ Differs(w, wire', s, {"source-entry"})
      BY <2>3, <2>4, LoseWire DEF Link
    <2>6. QED
      BY <2>2, <2>3, <2>5 DEF Differs, Link
  <1>2. /\ wire'["entry-source"][s] = wire["entry-source"][s]
        /\ wire'["guard-destination"][s] = wire["guard-destination"][s]
        /\ wire'["destination-guard"][s] = wire["destination-guard"][s]
    BY <1>1 DEF Differs, Link
  <1>3. /\ pair'["entry"][s] \in {"none", "gone"}
        /\ pair["entry"][s] \in {"active", "gone"} => pair'["entry"][s] = "gone"
        /\ pair'["guard"][s] = pair["guard"][s]
        /\ \A r \in Relay, t \in Sources \ {s} : pair'[r][t] = pair[r][t]
    <2>1. pair' = PairWith("entry", s, Shut(pair["entry"][s]))
      BY DEF LegCloses, PairWith
    <2>2. pair["entry"][s] \in PairState
      BY DEF TypeOK, Relay
    <2>3. QED
      BY <2>1, <2>2, PairSet, ShutPairs DEF Relay
  <1>4. /\ record[s] /\ ~ record'[s]
        /\ \A t \in Sources \ {s} : record'[t] = record[t]
        /\ UNCHANGED <<source, told, stream>>
    BY DEF LegCloses, TypeOK
  <1>5. \A t \in Sources \ {s} : Same(t)
    BY <1>1, <1>2, <1>3, <1>4 DEF Same, Differs
  <1>6. Fresh(s)'
    BY <1>1, <1>4 DEF Path, Fresh, Bare, Link
  <1>7. OneOpen(s)'
    BY <1>1, <1>2, EmptyIsBare DEF Path, OneOpen, Bare, Came, Opens, Answers, Frame
  <1>8. Forgotten(s)'
    BY <1>1 DEF Path, Forgotten, Came, Frame
  <1>9. ResetBehind(s)'
    BY <1>1, <1>2, <1>3, <1>4, EmptyIsBare DEF Path, ResetBehind, GuardFree, DestinationFree, NoOpen, Bare, Left, Came, Opens, Frame
  <1>10. Answered(s)'
    BY <1>4 DEF Path, Answered
  <1>11. OpenIsJoined(s)'
    BY <1>2, <1>3, <1>4 DEF Path, OpenIsJoined
  <1>12. QED
    BY <1>5, <1>6, <1>7, <1>8, <1>9, <1>10, <1>11 DEF Path

\* READY finds no pair waiting, and the others have been told.
LEMMA LegEndsPath ==
    ASSUME TypeOK, closed = {}, NEW s \in Sources, Path(s), LegCloses(s), record[s], told[s], Arrives("guard-entry", s, "READY"),
           wire' = Lose(Take("guard-entry", s), "source-entry", s)
    PROVE  Path(s)' /\ \A t \in Sources \ {s} : Same(t)
  <1>1. /\ Left(wire["guard-entry"][s], wire'["guard-entry"][s], "READY")
        /\ wire'["source-entry"][s] = <<>>
        /\ Carries(wire["guard-entry"][s], "READY")
        /\ Differs(wire, wire', s, {"guard-entry", "source-entry"})
    <2> DEFINE w == Take("guard-entry", s)
    <2>1. wire["guard-entry"][s] # <<>> /\ Head(wire["guard-entry"][s]) = "READY" /\ wire["guard-entry"][s] \in Seq(Frame)
      BY DEF Arrives, TypeOK, Link
    <2>2. Carries(wire["guard-entry"][s], "READY")
      BY <2>1, CarriesHead
    <2>3. /\ w \in Wires /\ Left(wire["guard-entry"][s], w["guard-entry"][s], "READY")
          /\ Differs(wire, w, s, {"guard-entry"})
      BY <2>1, TakeFrames DEF Link
    <2> HIDE DEF w
    <2>4. wire' = Lose(w, "source-entry", s)
      BY DEF w
    <2>5. wire'["source-entry"][s] = <<>> /\ Differs(w, wire', s, {"source-entry"})
      BY <2>3, <2>4, LoseWire DEF Link
    <2>6. QED
      BY <2>2, <2>3, <2>5 DEF Differs, Link
  <1>2. /\ wire'["entry-source"][s] = wire["entry-source"][s]
        /\ wire'["entry-guard"][s] = wire["entry-guard"][s]
        /\ wire'["guard-destination"][s] = wire["guard-destination"][s]
        /\ wire'["destination-guard"][s] = wire["destination-guard"][s]
    BY <1>1 DEF Differs, Link
  <1>3. /\ pair'["entry"][s] \in {"none", "gone"}
        /\ pair["entry"][s] \in {"active", "gone"} => pair'["entry"][s] = "gone"
        /\ pair'["guard"][s] = pair["guard"][s]
        /\ \A r \in Relay, t \in Sources \ {s} : pair'[r][t] = pair[r][t]
    <2>1. pair' = PairWith("entry", s, Shut(pair["entry"][s]))
      BY DEF LegCloses, PairWith
    <2>2. pair["entry"][s] \in PairState
      BY DEF TypeOK, Relay
    <2>3. QED
      BY <2>1, <2>2, PairSet, ShutPairs DEF Relay
  <1>4. /\ record[s] /\ ~ record'[s]
        /\ \A t \in Sources \ {s} : record'[t] = record[t]
        /\ UNCHANGED <<source, told, stream>>
    BY DEF LegCloses, TypeOK
  <1>5. \A t \in Sources \ {s} : Same(t)
    BY <1>1, <1>2, <1>3, <1>4 DEF Same, Differs
  <1>6. Fresh(s)'
    BY <1>4 DEF Path, Fresh
  <1>7. OneOpen(s)'
    BY <1>1, <1>2, EmptyIsBare DEF Path, OneOpen, Bare, Opens, Answers
  <1>8. Forgotten(s)'
    BY <1>1, <1>2, <1>3, <1>4, EmptyIsBare DEF Path, Forgotten, GuardFree, DestinationFree, NoOpen, Bare, Opens
  <1>9. ResetBehind(s)'
    BY <1>1, <1>2, <1>3, <1>4, EmptyIsBare DEF Path, ResetBehind, GuardFree, DestinationFree, NoOpen, Bare, Left, Opens, Frame
  <1>10. Answered(s)'
    BY <1>4 DEF Path, Answered
  <1>11. OpenIsJoined(s)'
    BY <1>2, <1>3, <1>4 DEF Path, OpenIsJoined
  <1>12. QED
    BY <1>5, <1>6, <1>7, <1>8, <1>9, <1>10, <1>11 DEF Path

\* READY connects the entry's pair and goes on to the source.
LEMMA EntryReadyPath ==
    ASSUME TypeOK, closed = {}, NEW s \in Sources, Path(s), EntryReady(s), pair["entry"][s] = "waiting"
    PROVE  Path(s)' /\ \A t \in Sources \ {s} : Same(t)
  <1>1. /\ Left(wire["guard-entry"][s], wire'["guard-entry"][s], "READY")
        /\ Came(wire["entry-source"][s], wire'["entry-source"][s], "READY")
        /\ Carries(wire["guard-entry"][s], "READY")
        /\ Differs(wire, wire', s, {"guard-entry", "entry-source"})
    <2>1. wire["guard-entry"][s] # <<>> /\ Head(wire["guard-entry"][s]) = "READY" /\ wire["guard-entry"][s] \in Seq(Frame)
      BY DEF EntryReady, Arrives, TypeOK, Link
    <2>2. wire' = Forward("guard-entry", "entry-source", s, "READY")
      BY DEF EntryReady
    <2>3. QED
      BY <2>1, <2>2, ForwardFrames, CarriesHead DEF Link, Frame
  <1>2. /\ wire'["source-entry"][s] = wire["source-entry"][s]
        /\ wire'["entry-guard"][s] = wire["entry-guard"][s]
        /\ wire'["guard-destination"][s] = wire["guard-destination"][s]
        /\ wire'["destination-guard"][s] = wire["destination-guard"][s]
    BY <1>1 DEF Differs, Link
  <1>3. /\ pair'["entry"][s] = "active"
        /\ pair'["guard"][s] = pair["guard"][s]
        /\ \A r \in Relay, t \in Sources \ {s} : pair'[r][t] = pair[r][t]
    <2>1. pair' = PairWith("entry", s, "active")
      BY DEF EntryReady, PairWith
    <2>2. pair["entry"][s] \in PairState
      BY DEF TypeOK, Relay
    <2>3. QED
      BY <2>1, <2>2, PairSet, ShutPairs DEF Relay
  <1>4. record[s] /\ UNCHANGED <<source, record, told, stream>>
    BY DEF EntryReady, TypeOK
  <1>5. \A t \in Sources \ {s} : Same(t)
    BY <1>1, <1>2, <1>3, <1>4 DEF Same, Differs
  <1>6. Fresh(s)'
    BY <1>4 DEF Path, Fresh
  <1>7. OneOpen(s)'
    BY <1>1, <1>2 DEF Path, OneOpen, Bare, Opens, Answers, Link
  <1>8. Forgotten(s)'
    BY <1>2, <1>3, <1>4 DEF Path, Forgotten, GuardFree, DestinationFree, NoOpen, Opens
  <1>9. ResetBehind(s)'
    BY <1>1, <1>2, <1>3, <1>4 DEF Path, ResetBehind, GuardFree, DestinationFree, NoOpen, Left, Opens, Frame
  <1>10. Answered(s)'
    BY <1>1 DEF Path, Answered, Came, Answers, Frame
  <1>11. OpenIsJoined(s)'
    BY <1>3 DEF Path, OpenIsJoined
  <1>12. QED
    BY <1>5, <1>6, <1>7, <1>8, <1>9, <1>10, <1>11 DEF Path

\* A frame for a forgotten source is dropped; nobody waits for it.
LEMMA EntryDropsPath ==
    ASSUME TypeOK, closed = {}, NEW s \in Sources, Path(s), EntryDrops(s)
    PROVE  Path(s)' /\ \A t \in Sources \ {s} : Same(t)
  <1>1. /\ Left(wire["guard-entry"][s], wire'["guard-entry"][s], Head(wire["guard-entry"][s]))
        /\ Carries(wire["guard-entry"][s], Head(wire["guard-entry"][s]))
        /\ Differs(wire, wire', s, {"guard-entry"})
    <2>1. wire["guard-entry"][s] # <<>> /\ wire["guard-entry"][s] \in Seq(Frame)
      BY DEF EntryDrops, TypeOK, Link
    <2>2. wire' = Take("guard-entry", s)
      BY DEF EntryDrops
    <2>3. QED
      BY <2>1, <2>2, TakeFrames, CarriesHead DEF Link
  <1>2. /\ wire'["source-entry"][s] = wire["source-entry"][s]
        /\ wire'["entry-source"][s] = wire["entry-source"][s]
        /\ wire'["entry-guard"][s] = wire["entry-guard"][s]
        /\ wire'["guard-destination"][s] = wire["guard-destination"][s]
        /\ wire'["destination-guard"][s] = wire["destination-guard"][s]
    BY <1>1 DEF Differs, Link
  <1>4. ~ record[s] /\ UNCHANGED <<source, record, told, pair, stream>>
    BY DEF EntryDrops, TypeOK
  <1>5. \A t \in Sources \ {s} : Same(t)
    BY <1>1, <1>2, <1>4 DEF Same, Differs
  <1>6. Fresh(s)'
    BY <1>1, <1>2, <1>4 DEF Path, Fresh, Bare, Left, Link, Frame
  <1>7. OneOpen(s)'
    BY <1>1, <1>2, <1>4 DEF Path, OneOpen, Bare, Left, Opens, Answers, Link, Frame
  <1>8. Forgotten(s)'
    BY <1>2, <1>4 DEF Path, Forgotten, GuardFree, DestinationFree, NoOpen, Opens
  <1>9. ResetBehind(s)'
    BY <1>1, <1>2, <1>4 DEF Path, ResetBehind, GuardFree, DestinationFree, NoOpen, Left, Opens, Frame
  <1>10. Answered(s)'
    BY <1>4 DEF Path, Answered
  <1>11. OpenIsJoined(s)'
    BY <1>2, <1>4 DEF Path, OpenIsJoined
  <1>12. QED
    BY <1>5, <1>6, <1>7, <1>8, <1>9, <1>10, <1>11 DEF Path

\* transformBridge makes a pair and passes the OPEN on.
LEMMA GuardOpenPath ==
    ASSUME TypeOK, closed = {}, NEW s \in Sources, Path(s), GuardOpen(s), closed' = {}
    PROVE  Path(s)' /\ \A t \in Sources \ {s} : Same(t)
  <1>1. /\ Left(wire["entry-guard"][s], wire'["entry-guard"][s], "OPEN")
        /\ Came(wire["guard-destination"][s], wire'["guard-destination"][s], "OPEN")
        /\ Carries(wire["entry-guard"][s], "OPEN")
        /\ Differs(wire, wire', s, {"entry-guard", "guard-destination"})
    <2>1. wire["entry-guard"][s] # <<>> /\ Head(wire["entry-guard"][s]) = "OPEN" /\ wire["entry-guard"][s] \in Seq(Frame)
      BY DEF GuardOpen, Arrives, TypeOK, Link
    <2>2. wire' = Forward("entry-guard", "guard-destination", s, "OPEN")
      BY DEF GuardOpen, GuardFails
    <2>3. QED
      BY <2>1, <2>2, ForwardFrames, CarriesHead DEF Link, Frame
  <1>2. /\ wire'["source-entry"][s] = wire["source-entry"][s]
        /\ wire'["entry-source"][s] = wire["entry-source"][s]
        /\ wire'["guard-entry"][s] = wire["guard-entry"][s]
        /\ wire'["destination-guard"][s] = wire["destination-guard"][s]
    BY <1>1 DEF Differs, Link
  <1>3. /\ pair'["guard"][s] = "waiting"
        /\ pair'["entry"][s] = pair["entry"][s]
        /\ \A r \in Relay, t \in Sources \ {s} : pair'[r][t] = pair[r][t]
    <2>1. pair' = PairWith("guard", s, "waiting")
      BY DEF GuardOpen, GuardFails, PairWith
    <2>2. pair["guard"][s] \in PairState
      BY DEF TypeOK, Relay
    <2>3. QED
      BY <2>1, <2>2, PairSet, ShutPairs DEF Relay
  <1>4. UNCHANGED <<source, record, told, stream>>
    BY DEF GuardOpen, TypeOK
  <1>5. \A t \in Sources \ {s} : Same(t)
    BY <1>1, <1>2, <1>3, <1>4 DEF Same, Differs
  <1>6. Fresh(s)'
    BY <1>1, <1>4 DEF Path, Fresh, Bare, Link
  <1>7. OneOpen(s)'
    BY <1>1, <1>2, <1>4 DEF Path, OneOpen, Bare, Left, Came, Opens, Answers, Link
  <1>8. Forgotten(s)'
    BY <1>1, <1>4 DEF Path, Forgotten, GuardFree, NoOpen, Left, Frame
  <1>9. ResetBehind(s)'
    BY <1>1, <1>2 DEF Path, ResetBehind, DestinationFree, NoOpen, Opens
  <1>10. Answered(s)'
    BY <1>1 DEF Path, Answered, NoOpen, Came, Opens, Frame
  <1>11. OpenIsJoined(s)'
    BY <1>2, <1>3, <1>4 DEF Path, OpenIsJoined
  <1>12. QED
    BY <1>5, <1>6, <1>7, <1>8, <1>9, <1>10, <1>11 DEF Path

\* READY connects the guard's waiting pair, so no RESET has passed it.
LEMMA GuardReadyPath ==
    ASSUME TypeOK, closed = {}, NEW s \in Sources, Path(s), GuardReady(s), closed' = {}
    PROVE  Path(s)' /\ \A t \in Sources \ {s} : Same(t)
  <1>1. /\ Left(wire["destination-guard"][s], wire'["destination-guard"][s], "READY")
        /\ Came(wire["guard-entry"][s], wire'["guard-entry"][s], "READY")
        /\ Carries(wire["destination-guard"][s], "READY")
        /\ Differs(wire, wire', s, {"destination-guard", "guard-entry"})
    <2>1. wire["destination-guard"][s] # <<>> /\ Head(wire["destination-guard"][s]) = "READY" /\ wire["destination-guard"][s] \in Seq(Frame)
      BY DEF GuardReady, Arrives, TypeOK, Link
    <2>2. wire' = Forward("destination-guard", "guard-entry", s, "READY")
      BY DEF GuardReady, GuardFails
    <2>3. QED
      BY <2>1, <2>2, ForwardFrames, CarriesHead DEF Link, Frame
  <1>2. /\ wire'["source-entry"][s] = wire["source-entry"][s]
        /\ wire'["entry-source"][s] = wire["entry-source"][s]
        /\ wire'["entry-guard"][s] = wire["entry-guard"][s]
        /\ wire'["guard-destination"][s] = wire["guard-destination"][s]
    BY <1>1 DEF Differs, Link
  <1>3. /\ pair'["guard"][s] = "active"
        /\ pair'["entry"][s] = pair["entry"][s]
        /\ \A r \in Relay, t \in Sources \ {s} : pair'[r][t] = pair[r][t]
    <2>1. pair' = PairWith("guard", s, "active")
      BY DEF GuardReady, GuardFails, PairWith
    <2>2. pair["guard"][s] \in PairState
      BY DEF TypeOK, Relay
    <2>3. QED
      BY <2>1, <2>2, PairSet, ShutPairs DEF Relay
  <1>4. pair["guard"][s] = "waiting" /\ UNCHANGED <<source, record, told, stream>>
    BY DEF GuardReady, GuardFails, TypeOK
  <1>5. \A t \in Sources \ {s} : Same(t)
    BY <1>1, <1>2, <1>3, <1>4 DEF Same, Differs
  <1>6. Fresh(s)'
    BY <1>4 DEF Path, Fresh
  <1>7. OneOpen(s)'
    BY <1>1, <1>2 DEF Path, OneOpen, Bare, Opens, Answers, Link
  <1>8. Forgotten(s)'
    BY <1>2, <1>4 DEF Path, Forgotten, GuardFree
  <1>9. ResetBehind(s)'
    BY <1>1, <1>2, <1>4 DEF Path, ResetBehind, GuardFree, DestinationFree, NoOpen, Left, Came, Opens, Frame
  <1>10. Answered(s)'
    BY <1>1 DEF Path, Answered, Came, Answers, Frame
  <1>11. OpenIsJoined(s)'
    BY <1>2, <1>3, <1>4 DEF Path, OpenIsJoined
  <1>12. QED
    BY <1>5, <1>6, <1>7, <1>8, <1>9, <1>10, <1>11 DEF Path

\* A RESET for the destination frees the guard: no OPEN can follow it.
LEMMA GuardResetOnPath ==
    ASSUME TypeOK, closed = {}, NEW s \in Sources, Path(s), GuardReset(s, "entry-guard", "guard-destination")
    PROVE  Path(s)' /\ \A t \in Sources \ {s} : Same(t)
  <1>1. /\ Left(wire["entry-guard"][s], wire'["entry-guard"][s], "RESET")
        /\ Came(wire["guard-destination"][s], wire'["guard-destination"][s], "RESET")
        /\ Carries(wire["entry-guard"][s], "RESET")
        /\ Differs(wire, wire', s, {"entry-guard", "guard-destination"})
    <2>1. wire["entry-guard"][s] # <<>> /\ Head(wire["entry-guard"][s]) = "RESET" /\ wire["entry-guard"][s] \in Seq(Frame)
      BY DEF GuardReset, Arrives, TypeOK, Link
    <2>2. wire' = Forward("entry-guard", "guard-destination", s, "RESET")
      BY DEF GuardReset
    <2>3. QED
      BY <2>1, <2>2, ForwardFrames, CarriesHead DEF Link, Frame
  <1>2. /\ wire'["source-entry"][s] = wire["source-entry"][s]
        /\ wire'["entry-source"][s] = wire["entry-source"][s]
        /\ wire'["guard-entry"][s] = wire["guard-entry"][s]
        /\ wire'["destination-guard"][s] = wire["destination-guard"][s]
    BY <1>1 DEF Differs, Link
  <1>3. /\ pair'["guard"][s] \in {"none", "gone"}
        /\ pair["guard"][s] \in {"active", "gone"} => pair'["guard"][s] = "gone"
        /\ pair'["entry"][s] = pair["entry"][s]
        /\ \A r \in Relay, t \in Sources \ {s} : pair'[r][t] = pair[r][t]
    <2>1. pair' = PairWith("guard", s, Shut(pair["guard"][s]))
      BY DEF GuardReset, PairWith
    <2>2. pair["guard"][s] \in PairState
      BY DEF TypeOK, Relay
    <2>3. QED
      BY <2>1, <2>2, PairSet, ShutPairs DEF Relay
  <1>4. UNCHANGED <<source, record, told, stream>>
    BY DEF GuardReset, TypeOK
  <1>5. \A t \in Sources \ {s} : Same(t)
    BY <1>1, <1>2, <1>3, <1>4 DEF Same, Differs
  <1>6. Fresh(s)'
    BY <1>1, <1>4 DEF Path, Fresh, Bare, Link
  <1>7. OneOpen(s)'
    BY <1>1, <1>2, <1>4 DEF Path, OneOpen, Bare, Left, Came, Opens, Answers, Link, Frame
  <1>8. Forgotten(s)'
    BY <1>1, <1>2, <1>3 DEF Path, Forgotten, OneOpen, GuardFree, NoOpen, Bare, Left, Came, Opens, Link, Frame
  <1>9. ResetBehind(s)'
    BY <1>1, <1>2, <1>3, <1>4 DEF Path, ResetBehind, GuardFree, DestinationFree, NoOpen, Left, Came, Opens, Frame
  <1>10. Answered(s)'
    BY <1>1, <1>2, <1>4 DEF Path, Answered, NoOpen, Left, Came, Opens, Answers, Frame
  <1>11. OpenIsJoined(s)'
    BY <1>2, <1>3, <1>4 DEF Path, OpenIsJoined
  <1>12. QED
    BY <1>5, <1>6, <1>7, <1>8, <1>9, <1>10, <1>11 DEF Path

\* A RESET from the destination frees the guard.
LEMMA GuardResetBackPath ==
    ASSUME TypeOK, closed = {}, NEW s \in Sources, Path(s), GuardReset(s, "destination-guard", "guard-entry")
    PROVE  Path(s)' /\ \A t \in Sources \ {s} : Same(t)
  <1>1. /\ Left(wire["destination-guard"][s], wire'["destination-guard"][s], "RESET")
        /\ Came(wire["guard-entry"][s], wire'["guard-entry"][s], "RESET")
        /\ Carries(wire["destination-guard"][s], "RESET")
        /\ Differs(wire, wire', s, {"destination-guard", "guard-entry"})
    <2>1. wire["destination-guard"][s] # <<>> /\ Head(wire["destination-guard"][s]) = "RESET" /\ wire["destination-guard"][s] \in Seq(Frame)
      BY DEF GuardReset, Arrives, TypeOK, Link
    <2>2. wire' = Forward("destination-guard", "guard-entry", s, "RESET")
      BY DEF GuardReset
    <2>3. QED
      BY <2>1, <2>2, ForwardFrames, CarriesHead DEF Link, Frame
  <1>2. /\ wire'["source-entry"][s] = wire["source-entry"][s]
        /\ wire'["entry-source"][s] = wire["entry-source"][s]
        /\ wire'["entry-guard"][s] = wire["entry-guard"][s]
        /\ wire'["guard-destination"][s] = wire["guard-destination"][s]
    BY <1>1 DEF Differs, Link
  <1>3. /\ pair'["guard"][s] \in {"none", "gone"}
        /\ pair["guard"][s] \in {"active", "gone"} => pair'["guard"][s] = "gone"
        /\ pair'["entry"][s] = pair["entry"][s]
        /\ \A r \in Relay, t \in Sources \ {s} : pair'[r][t] = pair[r][t]
    <2>1. pair' = PairWith("guard", s, Shut(pair["guard"][s]))
      BY DEF GuardReset, PairWith
    <2>2. pair["guard"][s] \in PairState
      BY DEF TypeOK, Relay
    <2>3. QED
      BY <2>1, <2>2, PairSet, ShutPairs DEF Relay
  <1>4. UNCHANGED <<source, record, told, stream>>
    BY DEF GuardReset, TypeOK
  <1>5. \A t \in Sources \ {s} : Same(t)
    BY <1>1, <1>2, <1>3, <1>4 DEF Same, Differs
  <1>6. Fresh(s)'
    BY <1>1, <1>4 DEF Path, Fresh, Bare, Link
  <1>7. OneOpen(s)'
    BY <1>1, <1>2 DEF Path, OneOpen, Bare, Opens, Answers, Link
  <1>8. Forgotten(s)'
    BY <1>2, <1>3, <1>4 DEF Path, Forgotten, GuardFree, DestinationFree, NoOpen, Opens
  <1>9. ResetBehind(s)'
    BY <1>1, <1>2, <1>3, <1>4 DEF Path, ResetBehind, GuardFree, DestinationFree, NoOpen, Opens
  <1>10. Answered(s)'
    BY <1>1 DEF Path, Answered, Came, Answers, Frame
  <1>11. OpenIsJoined(s)'
    BY <1>2, <1>3, <1>4 DEF Path, OpenIsJoined
  <1>12. QED
    BY <1>5, <1>6, <1>7, <1>8, <1>9, <1>10, <1>11 DEF Path

\* The OPEN becomes a stream and READY.
LEMMA DestinationOpenPath ==
    ASSUME TypeOK, closed = {}, NEW s \in Sources, Path(s), DestinationOpen(s)
    PROVE  Path(s)' /\ \A t \in Sources \ {s} : Same(t)
  <1>1. /\ Left(wire["guard-destination"][s], wire'["guard-destination"][s], "OPEN")
        /\ Came(wire["destination-guard"][s], wire'["destination-guard"][s], "READY")
        /\ Carries(wire["guard-destination"][s], "OPEN")
        /\ Differs(wire, wire', s, {"guard-destination", "destination-guard"})
    <2>1. wire["guard-destination"][s] # <<>> /\ Head(wire["guard-destination"][s]) = "OPEN" /\ wire["guard-destination"][s] \in Seq(Frame)
      BY DEF DestinationOpen, Arrives, TypeOK, Link
    <2>2. wire' = Forward("guard-destination", "destination-guard", s, "READY")
      BY DEF DestinationOpen
    <2>3. QED
      BY <2>1, <2>2, ForwardFrames, CarriesHead DEF Link, Frame
  <1>2. /\ wire'["source-entry"][s] = wire["source-entry"][s]
        /\ wire'["entry-source"][s] = wire["entry-source"][s]
        /\ wire'["entry-guard"][s] = wire["entry-guard"][s]
        /\ wire'["guard-entry"][s] = wire["guard-entry"][s]
    BY <1>1 DEF Differs, Link
  <1>4. /\ stream'[s] /\ \A t \in Sources \ {s} : stream'[t] = stream[t]
        /\ UNCHANGED <<source, record, told, pair>>
    BY DEF DestinationOpen, TypeOK
  <1>5. \A t \in Sources \ {s} : Same(t)
    BY <1>1, <1>2, <1>4 DEF Same, Differs
  <1>6. Fresh(s)'
    BY <1>1, <1>4 DEF Path, Fresh, Bare, Link
  <1>7. OneOpen(s)'
    BY <1>1, <1>2 DEF Path, OneOpen, Bare, Left, Opens, Link
  <1>8. Forgotten(s)'
    BY <1>1, <1>2, <1>4 DEF Path, Forgotten, GuardFree, DestinationFree, NoOpen, Left, Opens, Frame
  <1>9. ResetBehind(s)'
    BY <1>1, <1>2 DEF Path, ResetBehind, DestinationFree, NoOpen, Came, Opens, Frame
  <1>10. Answered(s)'
    BY <1>1 DEF Path, Answered, Came, Answers, Frame
  <1>11. OpenIsJoined(s)'
    BY <1>2, <1>4 DEF Path, OpenIsJoined
  <1>12. QED
    BY <1>5, <1>6, <1>7, <1>8, <1>9, <1>10, <1>11 DEF Path

\* The OPEN becomes RESET, and no other OPEN will come.
LEMMA DestinationRefusesPath ==
    ASSUME TypeOK, closed = {}, NEW s \in Sources, Path(s), DestinationRefuses(s)
    PROVE  Path(s)' /\ \A t \in Sources \ {s} : Same(t)
  <1>1. /\ Left(wire["guard-destination"][s], wire'["guard-destination"][s], "OPEN")
        /\ Came(wire["destination-guard"][s], wire'["destination-guard"][s], "RESET")
        /\ Carries(wire["guard-destination"][s], "OPEN")
        /\ Differs(wire, wire', s, {"guard-destination", "destination-guard"})
    <2>1. wire["guard-destination"][s] # <<>> /\ Head(wire["guard-destination"][s]) = "OPEN" /\ wire["guard-destination"][s] \in Seq(Frame)
      BY DEF DestinationRefuses, Arrives, TypeOK, Link
    <2>2. wire' = Forward("guard-destination", "destination-guard", s, "RESET")
      BY DEF DestinationRefuses
    <2>3. QED
      BY <2>1, <2>2, ForwardFrames, CarriesHead DEF Link, Frame
  <1>2. /\ wire'["source-entry"][s] = wire["source-entry"][s]
        /\ wire'["entry-source"][s] = wire["entry-source"][s]
        /\ wire'["entry-guard"][s] = wire["entry-guard"][s]
        /\ wire'["guard-entry"][s] = wire["guard-entry"][s]
    BY <1>1 DEF Differs, Link
  <1>4. UNCHANGED <<source, record, told, pair, stream>>
    BY DEF DestinationRefuses, TypeOK
  <1>5. \A t \in Sources \ {s} : Same(t)
    BY <1>1, <1>2, <1>4 DEF Same, Differs
  <1>6. Fresh(s)'
    BY <1>1, <1>4 DEF Path, Fresh, Bare, Link
  <1>7. OneOpen(s)'
    BY <1>1, <1>2 DEF Path, OneOpen, Bare, Left, Opens, Link
  <1>8. Forgotten(s)'
    BY <1>1, <1>2, <1>4 DEF Path, Forgotten, GuardFree, DestinationFree, NoOpen, Left, Opens, Frame
  <1>9. ResetBehind(s)'
    BY <1>1, <1>2, <1>4 DEF Path, ResetBehind, OneOpen, DestinationFree, NoOpen, Bare, Left, Opens, Link
  <1>10. Answered(s)'
    BY <1>1 DEF Path, Answered, Came, Answers, Frame
  <1>11. OpenIsJoined(s)'
    BY <1>2, <1>4 DEF Path, OpenIsJoined
  <1>12. QED
    BY <1>5, <1>6, <1>7, <1>8, <1>9, <1>10, <1>11 DEF Path

\* The RESET that went forward has freed all three.
LEMMA DestinationResetPath ==
    ASSUME TypeOK, closed = {}, NEW s \in Sources, Path(s), DestinationReset(s)
    PROVE  Path(s)' /\ \A t \in Sources \ {s} : Same(t)
  <1>1. /\ Left(wire["guard-destination"][s], wire'["guard-destination"][s], "RESET")
        /\ Carries(wire["guard-destination"][s], "RESET")
        /\ Differs(wire, wire', s, {"guard-destination"})
    <2>1. wire["guard-destination"][s] # <<>> /\ Head(wire["guard-destination"][s]) = "RESET" /\ wire["guard-destination"][s] \in Seq(Frame)
      BY DEF DestinationReset, Arrives, TypeOK, Link
    <2>2. wire' = Take("guard-destination", s)
      BY DEF DestinationReset
    <2>3. QED
      BY <2>1, <2>2, TakeFrames, CarriesHead DEF Link, Frame
  <1>2. /\ wire'["source-entry"][s] = wire["source-entry"][s]
        /\ wire'["entry-source"][s] = wire["entry-source"][s]
        /\ wire'["entry-guard"][s] = wire["entry-guard"][s]
        /\ wire'["guard-entry"][s] = wire["guard-entry"][s]
        /\ wire'["destination-guard"][s] = wire["destination-guard"][s]
    BY <1>1 DEF Differs, Link
  <1>4. /\ ~ stream'[s] /\ \A t \in Sources \ {s} : stream'[t] = stream[t]
        /\ UNCHANGED <<source, record, told, pair>>
    BY DEF DestinationReset, TypeOK
  <1>5. \A t \in Sources \ {s} : Same(t)
    BY <1>1, <1>2, <1>4 DEF Same, Differs
  <1>6. Fresh(s)'
    BY <1>1, <1>4 DEF Path, Fresh, Bare, Link
  <1>7. OneOpen(s)'
    BY <1>1, <1>2 DEF Path, OneOpen, Bare, Left, Opens, Link
  <1>8. Forgotten(s)'
    BY <1>1, <1>2, <1>4 DEF Path, Forgotten, OneOpen, GuardFree, DestinationFree, NoOpen, Left, Opens
  <1>9. ResetBehind(s)'
    BY <1>1, <1>2, <1>4 DEF Path, ResetBehind, GuardFree, DestinationFree, NoOpen, Left, Opens, Frame
  <1>10. Answered(s)'
    BY <1>1, <1>2, <1>4 DEF Path, Answered, NoOpen, Left, Opens, Answers, Frame
  <1>11. OpenIsJoined(s)'
    BY <1>2, <1>4 DEF Path, OpenIsJoined
  <1>12. QED
    BY <1>5, <1>6, <1>7, <1>8, <1>9, <1>10, <1>11 DEF Path

\* The stream ends and RESET goes back.
LEMMA DestinationClosesPath ==
    ASSUME TypeOK, closed = {}, NEW s \in Sources, Path(s), DestinationCloses(s)
    PROVE  Path(s)' /\ \A t \in Sources \ {s} : Same(t)
  <1>1. /\ Came(wire["destination-guard"][s], wire'["destination-guard"][s], "RESET")
        /\ Differs(wire, wire', s, {"destination-guard"})
    <2>1. wire' = Put("destination-guard", s, "RESET")
      BY DEF DestinationCloses
    <2>2. QED
      BY <2>1, PutFrames DEF Link, Frame
  <1>2. /\ wire'["source-entry"][s] = wire["source-entry"][s]
        /\ wire'["entry-source"][s] = wire["entry-source"][s]
        /\ wire'["entry-guard"][s] = wire["entry-guard"][s]
        /\ wire'["guard-entry"][s] = wire["guard-entry"][s]
        /\ wire'["guard-destination"][s] = wire["guard-destination"][s]
    BY <1>1 DEF Differs, Link
  <1>4. /\ stream[s] /\ ~ stream'[s] /\ \A t \in Sources \ {s} : stream'[t] = stream[t]
        /\ UNCHANGED <<source, record, told, pair>>
    BY DEF DestinationCloses, TypeOK
  <1>5. \A t \in Sources \ {s} : Same(t)
    BY <1>1, <1>2, <1>4 DEF Same, Differs
  <1>6. Fresh(s)'
    BY <1>4 DEF Path, Fresh
  <1>7. OneOpen(s)'
    BY <1>2, <1>4 DEF Path, OneOpen, Opens
  <1>8. Forgotten(s)'
    BY <1>2, <1>4 DEF Path, Forgotten, GuardFree, DestinationFree, NoOpen
  <1>9. ResetBehind(s)'
    BY <1>2, <1>4 DEF Path, ResetBehind, OneOpen, DestinationFree, NoOpen, Opens
  <1>10. Answered(s)'
    BY <1>1 DEF Path, Answered, Came, Answers, Frame
  <1>11. OpenIsJoined(s)'
    BY <1>2, <1>4 DEF Path, OpenIsJoined
  <1>12. QED
    BY <1>5, <1>6, <1>7, <1>8, <1>9, <1>10, <1>11 DEF Path
\* EntryCircuit.activate admits a source of which nothing is anywhere yet.
LEMMA ActivatePath ==
    ASSUME TypeOK, NEW s \in Sources, Path(s), Activate(s)
    PROVE  Path(s)' /\ \A t \in Sources \ {s} : Same(t)
  <1>1. /\ source[s] = "none" /\ source'[s] = "admitted" /\ record'[s]
        /\ \A t \in Sources \ {s} : source'[t] = source[t] /\ record'[t] = record[t]
        /\ UNCHANGED <<told, pair, stream, wire>>
    BY DEF Activate, TypeOK
  <1>2. \A t \in Sources \ {s} : Same(t)
    BY <1>1 DEF Same
  <1>3. Fresh(s)'
    BY <1>1 DEF Path, Fresh
  <1>4. OneOpen(s)'
    BY <1>1 DEF Path, OneOpen
  <1>5. Forgotten(s)' /\ ResetBehind(s)'
    BY <1>1 DEF Path, Forgotten, ResetBehind, Fresh, Bare, GuardFree, DestinationFree, NoOpen, Link
  <1>6. Answered(s)' /\ OpenIsJoined(s)'
    BY <1>1 DEF Path, Answered, OpenIsJoined, Fresh, Bare, Link
  <1>7. QED
    BY <1>2, <1>3, <1>4, <1>5, <1>6 DEF Path

\* A source whose link the entry has closed goes without a frame: the entry has
\* told the destination.
LEMMA SourceSeesClosePath ==
    ASSUME TypeOK, NEW s \in Sources, Path(s), SourceSeesClose(s)
    PROVE  Path(s)' /\ \A t \in Sources \ {s} : Same(t)
  <1>1. /\ source[s] \in {"admitted", "opening", "open"} /\ source'[s] = "closed"
        /\ \A t \in Sources \ {s} : source'[t] = source[t]
        /\ UNCHANGED <<record, told, pair, stream, wire>>
    BY DEF SourceSeesClose, SourceGone, Ending, TypeOK
  <1>2. \A t \in Sources \ {s} : Same(t)
    BY <1>1 DEF Same
  <1>3. Fresh(s)' /\ Answered(s)' /\ OpenIsJoined(s)'
    BY <1>1 DEF Path, Fresh, Answered, OpenIsJoined
  <1>4. OneOpen(s)'
    BY <1>1 DEF Path, OneOpen
  <1>5. Forgotten(s)' /\ ResetBehind(s)'
    BY <1>1 DEF Path, Forgotten, ResetBehind, GuardFree, DestinationFree, NoOpen
  <1>6. QED
    BY <1>2, <1>3, <1>4, <1>5 DEF Path

\* A pair that relayed, or waited to, closes by itself; no frame tells of it.
LEMMA PairClosesPath ==
    ASSUME TypeOK, NEW s \in Sources, Path(s), NEW r \in Relay, PairCloses(r, s) \/ PairIdles(r, s)
    PROVE  Path(s)' /\ \A t \in Sources \ {s} : Same(t)
  <1> DEFINE Ends(u) == \/ pair[u][s] = "active" /\ pair'[u][s] = "gone"
                        \/ pair[u][s] = "waiting" /\ pair'[u][s] = "none"
  <1>1. /\ Ends(r)
        /\ \A u \in Relay, t \in Sources : u # r \/ t # s => pair'[u][t] = pair[u][t]
    <2>1. pair' = PairWith(r, s, Shut(pair[r][s])) /\ pair[r][s] \in {"active", "waiting"}
      BY DEF PairCloses, PairIdles, PairWith, Shut
    <2>2. QED
      BY <2>1, PairSet DEF Shut
  <1>2. UNCHANGED <<source, record, told, stream, wire>>
    BY DEF PairCloses, PairIdles
  <1>3. /\ pair'["entry"][s] = pair["entry"][s] \/ Ends("entry")
        /\ pair'["guard"][s] = pair["guard"][s] \/ Ends("guard")
    BY <1>1 DEF Relay
  <1>4. \A t \in Sources \ {s} : Same(t)
    BY <1>1, <1>2 DEF Same
  <1>5. Fresh(s)' /\ OneOpen(s)'
    BY <1>2, <1>3 DEF Path, Fresh, OneOpen, Opens, Answers
  <1>6. Forgotten(s)' /\ ResetBehind(s)'
    BY <1>2, <1>3 DEF Path, Forgotten, ResetBehind, GuardFree, DestinationFree, NoOpen
  <1>7. Answered(s)' /\ OpenIsJoined(s)'
    BY <1>2, <1>3 DEF Path, Answered, OpenIsJoined, NoOpen
  <1>8. QED
    BY <1>4, <1>5, <1>6, <1>7 DEF Path

\* Every step keeps Up, or takes a party of the circuit down.
LEMMA UpStep == TypeOK /\ Up /\ [Next]_vars => Up'
  <1> SUFFICES ASSUME TypeOK, Up, [Next]_vars, closed' = {} PROVE (\A s \in Sources : Path(s))'
    BY DEF Up
  <1>s. ASSUME NEW s \in Sources, UNCHANGED closed, \A t \in Sources : Path(t),
               Path(s)' /\ \A t \in Sources \ {s} : Same(t)
        PROVE (\A t \in Sources : Path(t))'
    <2>1. \A t \in Sources \ {s} : Path(t)'
      BY <1>s, SamePath
    <2>2. QED
      BY <1>s, <2>1
  <1>0. ~ (\E p \in Party : CircuitCloses(p) \/ LinkFails(p)) /\ ~ \E s \in Sources : DestinationDisorder(s)
    BY DEF CircuitCloses, LinkFails, DestinationDisorder, DestinationFails
  <1>1. closed = {} /\ \A s \in Sources : Path(s)
    <2>1. closed \subseteq closed'
      BY <1>0 DEF Next, vars, Activate, SpliceOpen, SourceCloses, DestinationCloses, SourceWork, EntryWork, GuardWork,
         DestinationWork, PairCloses, PairIdles, SourceReady, SourceReset, SourceSeesClose, SourceSevered,
         EntryOpen, EntryReady, EntrySeesClose, EntryDrops, EntryReset, LegCloses, GuardOpen, GuardReady,
         GuardReset, GuardFails, DestinationOpen, DestinationRefuses, DestinationReset, DestinationSevered
    <2>2. QED
      BY <2>1 DEF Up
  <1>2. UNCHANGED closed
    BY <1>1
  <1>3. ASSUME NEW s \in Sources, SourceCloses(s) PROVE (\A t \in Sources : Path(t))'
    <2>1. Path(s)' /\ \A t \in Sources \ {s} : Same(t)
      BY <1>3, <1>1, SourceSaysClosePath, SourceDropsPath DEF SourceCloses
    <2>2. QED
      BY <2>1, <1>1, <1>2, <1>s
  <1>4. ASSUME NEW s \in Sources, SourceWork(s) PROVE (\A t \in Sources : Path(t))'
    <2>1. CASE SourceReady(s) \/ SourceReset(s) \/ SourceSeesClose(s)
      <3>1. Path(s)' /\ \A t \in Sources \ {s} : Same(t)
        BY <2>1, <1>1, SourceReadyPath, SourceResetPath, SourceSeesClosePath
      <3>2. QED
        BY <3>1, <1>1, <1>2, <1>s
    <2>2. CASE SourceSevered(s)
      BY <2>2, <1>3 DEF SourceSevered
    <2>3. QED
      BY <1>4, <2>1, <2>2 DEF SourceWork
  <1>5. ASSUME NEW s \in Sources, EntryWork(s) PROVE (\A t \in Sources : Path(t))'
    <2>1. CASE EntrySeesClose(s)
      BY <2>1, <1>1, <1>2, <1>s, LegTellsPath, LegKnowsPath DEF EntrySeesClose
    <2>2. CASE EntryReady(s)
      <3>1. CASE pair["entry"][s] = "waiting"
        BY <2>2, <3>1, <1>1, <1>2, <1>s, EntryReadyPath
      <3>2. CASE pair["entry"][s] # "waiting"
        <4>1. /\ LegCloses(s) /\ record[s] /\ Arrives("guard-entry", s, "READY")
              /\ told[s] => wire' = Lose(Take("guard-entry", s), "source-entry", s)
              /\ ~ told[s] => wire' = Lose(Forward("guard-entry", "entry-guard", s, "RESET"), "source-entry", s)
          BY <2>2, <3>2 DEF EntryReady
        <4>2. QED
          BY <4>1, <1>1, <1>2, <1>s, LegBreaksPath, LegEndsPath
      <3>3. QED
        BY <3>1, <3>2
    <2>3. CASE EntryOpen(s) \/ EntryDrops(s)
      BY <2>3, <1>1, <1>2, <1>s, EntryOpenPath, EntryDropsPath
    <2>4. CASE EntryReset(s, "source-entry", "entry-guard") \/ EntryReset(s, "guard-entry", "entry-source")
      BY <2>4, <1>1, <1>2, <1>s, EntryResetOnPath, EntryResetBackPath
    <2>5. QED
      BY <1>5, <2>1, <2>2, <2>3, <2>4 DEF EntryWork
  <1>6. ASSUME NEW s \in Sources, GuardWork(s) PROVE (\A t \in Sources : Path(t))'
    BY <1>6, <1>1, <1>2, <1>s, GuardOpenPath, GuardReadyPath, GuardResetOnPath, GuardResetBackPath DEF GuardWork
  <1>7. ASSUME NEW s \in Sources, DestinationCloses(s) \/ DestinationWork(s) PROVE (\A t \in Sources : Path(t))'
    BY <1>7, <1>0, <1>1, <1>2, <1>s, DestinationOpenPath, DestinationRefusesPath, DestinationResetPath,
       DestinationClosesPath DEF DestinationWork, DestinationSevered
  <1>8. ASSUME NEW s \in Sources, Activate(s) \/ SpliceOpen(s) PROVE (\A t \in Sources : Path(t))'
    BY <1>8, <1>1, <1>2, <1>s, ActivatePath, SpliceOpenPath
  <1>9. ASSUME NEW s \in Sources, NEW r \in Relay, PairCloses(r, s) \/ PairIdles(r, s) PROVE (\A t \in Sources : Path(t))'
    BY <1>9, <1>1, <1>2, <1>s, PairClosesPath
  <1>10. ASSUME UNCHANGED vars PROVE (\A t \in Sources : Path(t))'
    <2>1. \A t \in Sources : Same(t)
      BY <1>10 DEF vars, Same
    <2>2. QED
      BY <2>1, <1>1, SamePath
  <1>11. QED
    BY <1>0, <1>3, <1>4, <1>5, <1>6, <1>7, <1>8, <1>9, <1>10 DEF Next

\* The inductive invariant.
Inv == TypeOK /\ Down /\ Up

\* It holds when nothing was opened,
LEMMA InvInit == Init => Inv
  <1> SUFFICES ASSUME Init PROVE Inv
    OBVIOUS
  <1>1. TypeOK
    BY DEF Init, TypeOK, SourceState, PairState, Relay
  <1>2. Down
    BY DEF Init, Down, Dismantled, Relay
  <1>3. ASSUME NEW s \in Sources PROVE Path(s)
    <2>1. /\ \A l \in Link : wire[l][s] = <<>> /\ Bare(wire[l][s]) /\ OpenFirst(wire[l][s])
          /\ Opens \subseteq Link /\ Answers \subseteq Link
      BY EmptyIsBare DEF Init, Opens, Answers, Link
    <2>2. /\ source[s] = "none" /\ ~ record[s] /\ ~ told[s] /\ ~ stream[s]
          /\ pair["entry"][s] = "none" /\ pair["guard"][s] = "none"
      BY DEF Init, Relay
    <2>3. Fresh(s) /\ Forgotten(s) /\ Answered(s)
      BY <2>1, <2>2 DEF Fresh, Forgotten, Answered
    <2>4. OneOpen(s) /\ ResetBehind(s) /\ OpenIsJoined(s)
      BY <2>1, <2>2 DEF OneOpen, ResetBehind, OpenIsJoined, Bare, Opens, Answers, Link
    <2>5. QED
      BY <2>3, <2>4 DEF Path
  <1>4. QED
    BY <1>1, <1>2, <1>3 DEF Inv, Up

\* ... every step keeps it,
LEMMA InvStep == Inv /\ [Next]_vars => Inv'
  BY TypeStep, DownStep, UpStep DEF Inv

\* ... so it always holds: the account of every stream by its frames under way.
THEOREM Invariance == Spec => []Inv
  BY InvInit, InvStep, PTL DEF Spec

\* In a settled state no frame is under way, and what is left of the account is PathAgrees.
LEMMA InvImpliesPathAgrees == Inv => PathAgrees
  <1> SUFFICES ASSUME Inv, NEW s \in Sources, Settled(s)
               PROVE  /\ source[s] = "open" <=> pair["entry"][s] = "active"
                      /\ source[s] = "open" <=> pair["guard"][s] = "active"
                      /\ source[s] = "open" <=> stream[s]
                      /\ \A r \in Relay : pair[r][s] # "waiting"
    BY DEF PathAgrees
  <1>1. Dismantled(s) /\ source[s] \in SourceState /\ pair["entry"][s] \in PairState /\ pair["guard"][s] \in PairState
    BY DEF Inv, Down, TypeOK, Relay
  <1>2. CASE closed = Party
    <2>1. ~ record[s] /\ ~ stream[s] /\ pair["entry"][s] \in {"none", "gone"} /\ pair["guard"][s] \in {"none", "gone"}
      BY <1>1, <1>2 DEF Dismantled, Party
    <2>2. source[s] # "open"
      BY <2>1 DEF Settled, Ending
    <2>3. QED
      BY <2>1, <2>2 DEF Relay
  <1>3. CASE closed = {}
    <2>0. Path(s)
      BY <1>3 DEF Inv, Up
    <2>1. \A l \in Shared : Bare(wire[l][s])
      BY <1>3, EmptyIsBare DEF Settled
    <2>2. CASE source[s] \in {"none", "admitted"}
      BY <2>0, <2>2 DEF Path, Fresh, Relay
    <2>3. CASE source[s] = "opening"
      <3>1. record[s] /\ Bare(wire["source-entry"][s]) /\ Bare(wire["entry-source"][s])
        BY <2>3, EmptyIsBare DEF Settled, Ending
      <3>2. QED
        BY <2>0, <2>1, <2>3, <3>1 DEF Path, Answered, NoOpen, Bare, Opens, Answers, Shared, Link
    <2>4. CASE source[s] = "open"
      <3>1. pair["entry"][s] = "active"
        BY <2>0, <2>4 DEF Path, OpenIsJoined, Settled
      <3>2. pair["guard"][s] = "active"
        BY <3>1 DEF Settled, Joined, Relay
      <3>3. stream[s]
        BY <3>2 DEF Settled, Joined, Relay
      <3>4. QED
        BY <2>4, <3>1, <3>2, <3>3 DEF Relay
    <2>5. CASE source[s] = "closed"
      <3>1. ~ record[s] /\ pair["entry"][s] \in {"none", "gone"}
        BY <1>1, <2>5 DEF Settled, Dismantled
      <3>2. GuardFree(s) /\ DestinationFree(s)
        BY <2>0, <2>1, <2>5, <3>1 DEF Path, Forgotten, Bare, Shared, Link
      <3>3. QED
        BY <2>5, <3>1, <3>2 DEF GuardFree, DestinationFree, Relay
    <2>6. QED
      BY <1>1, <2>2, <2>3, <2>4, <2>5 DEF SourceState
  <1>4. QED
    BY <1>2, <1>3 DEF Settled

\* For any number of sources on one circuit, once the frames and closes of a stream have
\* been seen, it relays end to end exactly when its source has it open, and otherwise
\* no relay holds a pair and the destination no stream, however RESETs, READYs, closes
\* and UDX losses crossed.
THEOREM PathAgreesHolds == Spec => []PathAgrees
  BY Invariance, InvImpliesPathAgrees, PTL
=============================================================================
