--------------------------- MODULE CellChannelProofs ---------------------------
(***************************************************************************)
(* Proofs about the counters of the private-route cells, lib/private/      *)
(* counters.js, for any maximum and any window: the sender never uses a    *)
(* nonce twice, and the replay window of the datagram receiver is exact,   *)
(* so that no datagram is delivered twice; what the ordered receiver holds *)
(* back is timed; and the channel implements Delivery, step by step.       *)
(*                                                                         *)
(* NoncesUnique is not inductive: it needs that an open sender's counter   *)
(* is above every counter used (CounterAhead).  WindowIsExact needs that   *)
(* an open window that saw nothing delivered nothing (WindowFresh), and    *)
(* that the bits lie within the window.                                    *)
(* GapIsTimed needs that a receiver holds back sealed cells ahead of the   *)
(* counter it expects (GapInv).  The refinement needs all of them          *)
(* (ChannelInv): a step of the channel is one of Delivery, or none, only   *)
(* where every counter delivered was sealed and not delivered before.      *)
(***************************************************************************)
EXTENDS CellChannel, FiniteSetTheorems, SequenceTheorems, TLAPS

SenderOK == value \in Counters /\ cells \in SUBSET Cells

CounterAhead == ~senderClosed => \A cell \in cells : cell.counter < value

SenderInv == SenderOK /\ CounterAhead /\ NoncesUnique

WindowOK ==
  /\ delivered \in Seq(Cells)
  /\ highest \in Counters \cup {None}
  /\ bitmap \in SUBSET (0..(Window - 1))

WindowFresh == (highest = None /\ ~closed) => delivered = <<>>

WindowInv == kind = "datagram" => WindowOK /\ WindowFresh /\ WindowIsExact

(* The ordered receiver holds back sealed cells only, all of them ahead of *)
(* the next counter and within the window, and under a timer.              *)
GapInv ==
  /\ nextCounter \in Counters
  /\ clock \in Nat
  /\ gapStartedAt \in Nat \cup {None}
  /\ buffer \subseteq cells
  /\ \A cell \in buffer : nextCounter < cell.counter /\ cell.counter < nextCounter + Window
  /\ (buffer # {}) <=> InGap

(* A sealed cell is the payload its counter says.                          *)
SentInv ==
  /\ sent \in Seq(Payloads)
  /\ ~senderClosed => value = Origin + Len(sent)
  /\ \A cell \in cells : /\ cell.counter \in Origin..(Origin + Len(sent) - 1)
                         /\ cell.payload = sent[cell.counter - Origin + 1]

(* Only sealed cells are delivered, by a stream without a gap and up to    *)
(* the next counter.                                                       *)
DeliveredInv ==
  /\ delivered \in Seq(Cells)
  /\ \A i \in 1..Len(delivered) : delivered[i] \in cells
  /\ kind = "ordered" =>
       /\ ~closed => nextCounter = Origin + Len(delivered)
       /\ \A i \in 1..Len(delivered) : delivered[i].counter = Origin + i - 1

ChannelInv == SenderInv /\ WindowInv /\ GapInv /\ SentInv /\ DeliveredInv

-----------------------------------------------------------------------------
(* The sender.                                                             *)

(* A new sender is at its origin and used no counter.                      *)
LEMMA InitSender == Init => SenderInv
  BY ChannelAssumption
  DEF Init, SenderInv, SenderOK, CounterAhead, NoncesUnique, Counters

(* seal() uses the counter of an open sender, which is above all others.   *)
LEMMA SealSender ==
  ASSUME SenderInv, NEW p \in Payloads, Seal(p)
  PROVE  SenderInv'
<1> DEFINE new == [counter |-> value, payload |-> p, genuine |-> TRUE]
<1> USE DEF SenderInv
<1>1. /\ ~senderClosed /\ cells' = cells \cup {new} /\ Advance
      /\ value \in Counters
  BY DEF Seal, SenderOK
<1>2. new \in Cells /\ new.counter = value
  BY <1>1 DEF Cells
<1>3. \A cell \in cells : cell \in Cells /\ cell.counter \in Nat /\ cell.counter < value
  BY <1>1 DEF CounterAhead, SenderOK, Cells, Counters
<1> HIDE DEF new
<1>4. value' \in Counters /\ (~senderClosed' => value' = value + 1)
  BY <1>1, ChannelAssumption DEF Advance, Counters
<1>5. SenderOK'
  BY <1>1, <1>2, <1>4 DEF SenderOK
<1>6. CounterAhead'
  BY <1>1, <1>2, <1>3, <1>4 DEF CounterAhead, Counters
<1>7. NoncesUnique'
  BY <1>1, <1>2, <1>3 DEF NoncesUnique, Counters
<1>8. QED
  BY <1>5, <1>6, <1>7

(* Every step keeps the sender's invariant; only seal() and destroy() of   *)
(* the sender touch its state.                                             *)
LEMMA NextSender ==
  ASSUME SenderInv, [Next]_vars
  PROVE  SenderInv'
<1>1. ASSUME NEW p \in Payloads, Seal(p) PROVE SenderInv'
  BY <1>1, SealSender
<1>2. CASE DestroySender
  BY <1>2, ChannelAssumption
  DEF DestroySender, SenderInv, SenderOK, CounterAhead, NoncesUnique, Counters
<1>3. ASSUME UNCHANGED <<value, senderClosed, cells>> PROVE SenderInv'
  BY <1>3 DEF SenderInv, SenderOK, CounterAhead, NoncesUnique
<1>4. ASSUME NEW cell \in Shown, Push(cell) \/ Accept(cell) PROVE SenderInv'
  BY <1>3, <1>4 DEF Push, Accept, senderVars
<1>5. CASE Expire \/ Tick \/ Destroy \/ UNCHANGED vars
  BY <1>3, <1>5 DEF Expire, Tick, Destroy, senderVars, vars
<1>6. QED
  BY <1>1, <1>2, <1>4, <1>5 DEF Next

(***************************************************************************)
(* A nonce is never used for two cells: SenderCounter.next() never returns *)
(* a counter again, for any initial value and any maximum, also when it    *)
(* reaches the maximum and after destroy().                                *)
(***************************************************************************)
THEOREM NoncesUniqueHolds == Spec => []NoncesUnique
<1>1. SenderInv => NoncesUnique
  BY DEF SenderInv
<1>2. QED
  BY InitSender, NextSender, <1>1, PTL DEF Spec

-----------------------------------------------------------------------------
(* The replay window.                                                      *)

(* A new window saw nothing.                                               *)
LEMMA InitWindow == Init => WindowInv
<1> SUFFICES ASSUME Init PROVE WindowInv
  OBVIOUS
<1>1. delivered \in Seq(Cells)
  BY DEF Init
<1>2. QED
  BY <1>1, ChannelAssumption
  DEF Init, WindowInv, WindowOK, WindowFresh, WindowIsExact, None

(* A delivered cell adds its counter to the delivered ones.                *)
LEMMA DeliveredGrows ==
  ASSUME delivered \in Seq(Cells), NEW cell \in Cells, delivered' = Append(delivered, cell)
  PROVE  /\ delivered' \in Seq(Cells)
         /\ DeliveredCounters' = DeliveredCounters \cup {cell.counter}
<1>1. delivered' \in Seq(Cells) /\ Len(delivered') = Len(delivered) + 1 /\ Len(delivered) \in Nat
  OBVIOUS
<1>2. \A i \in 1..Len(delivered) : delivered'[i] = delivered[i]
  OBVIOUS
<1>3. delivered'[Len(delivered) + 1] = cell
  OBVIOUS
<1>4. \A i \in Nat : i \in 1..(Len(delivered) + 1) <=> (i \in 1..Len(delivered) \/ i = Len(delivered) + 1)
  BY <1>1
<1>5. DeliveredCounters' = {delivered'[i].counter : i \in 1..(Len(delivered) + 1)}
  BY <1>1 DEF DeliveredCounters
<1>6. QED
  BY <1>1, <1>2, <1>3, <1>4, <1>5 DEF DeliveredCounters

(* acceptAuthenticated() keeps the window exact: the three cases are the   *)
(* first cell, a cell above the highest, which shifts the bitmap, and a    *)
(* late cell whose bit is clear.                                           *)
LEMMA AcceptWindow ==
  ASSUME WindowInv, NEW cell \in Cells, Accept(cell)
  PROVE  WindowInv'
<1> DEFINE k == cell.counter
<1> DEFINE D == DeliveredCounters
<1>1. /\ kind = "datagram" /\ kind' = "datagram" /\ ~closed
      /\ delivered' = Append(delivered, cell)
  BY DEF Accept
<1>2. WindowOK /\ WindowFresh /\ WindowIsExact
  BY <1>1 DEF WindowInv
<1>3. delivered' \in Seq(Cells) /\ DeliveredCounters' = D \cup {k}
  BY <1>1, <1>2, DeliveredGrows DEF WindowOK
<1>4. k \in Nat /\ k \in Counters /\ Window \in Nat \ {0}
  BY ChannelAssumption DEF Cells, Counters
<1>5. highest # None => highest \in Nat
  BY <1>2 DEF WindowOK, Counters, None
<1> HIDE DEF k, D
<1>a. highest # None =>
        /\ \A j \in D : j <= highest
        /\ \A j \in Floor..highest : (highest - j \in bitmap) <=> (j \in D)
  BY <1>1, <1>2 DEF WindowIsExact, D
<1>b. D \subseteq Nat
  <2>1. \A i \in 1..Len(delivered) : delivered[i] \in Cells
    BY <1>2 DEF WindowOK
  <2>2. \A c \in Cells : c.counter \in Nat
    BY ChannelAssumption DEF Cells, Counters
  <2>3. QED
    BY <2>1, <2>2 DEF D, DeliveredCounters
<1>6. CASE highest = None /\ highest' = k /\ bitmap' = {0}
  <2>1. D = {}
    BY <1>1, <1>2, <1>6 DEF WindowFresh, D, DeliveredCounters
  <2>2. WindowOK'
    BY <1>3, <1>4, <1>6 DEF WindowOK
  <2>3. highest' # None
    BY <1>4, <1>6 DEF None
  <2>4. WindowIsExact'
    BY <1>3, <1>4, <1>6, <2>1, <2>3 DEF WindowIsExact, Floor
  <2>5. QED
    BY <2>2, <2>3, <2>4 DEF WindowInv, WindowFresh
<1>7. CASE highest # None /\ k > highest /\ highest' = k /\ bitmap' = Shifted(k - highest)
  <2>1. highest' # None /\ highest \in Nat
    BY <1>4, <1>5, <1>7 DEF None
  <2>2. bitmap \subseteq Nat /\ \A b \in bitmap : b < Window
    BY <1>2, <1>4 DEF WindowOK
  <2>3. \A b : b \in bitmap' <=>
          \/ b = 0
          \/ k - highest < Window /\ b \in Nat /\ b < Window /\ b - (k - highest) \in bitmap
    BY <1>4, <1>7, <2>1, <2>2 DEF Shifted
  <2>4. WindowOK'
    BY <1>3, <1>4, <1>7, <2>3 DEF WindowOK
  <2>5. \A j \in DeliveredCounters' : j <= k
    BY <1>3, <1>4, <1>7, <1>a, <1>b, <2>1
  <2>6. ASSUME NEW j \in Floor'..k PROVE (k - j \in bitmap') <=> (j \in D \cup {k})
    <3>1. j \in Nat /\ j <= k /\ k - j < Window
      BY <1>4, <1>7, <2>1, <2>6 DEF Floor, None
    <3>2. CASE j = k
      BY <1>4, <2>3, <3>1, <3>2
    <3>3. CASE j < k /\ j > highest
      BY <1>4, <1>a, <1>b, <1>7, <2>1, <2>2, <2>3, <3>1, <3>3
    <3>4. CASE j < k /\ j <= highest
      <4>1. k - highest < Window /\ (k - j) - (k - highest) = highest - j
        BY <1>4, <1>7, <2>1, <3>1, <3>4
      <4>2. j \in Floor..highest
        BY <1>4, <1>7, <2>1, <3>1, <3>4 DEF Floor
      <4>3. (k - j \in bitmap') <=> (highest - j \in bitmap)
        BY <1>4, <2>1, <2>3, <3>1, <3>4, <4>1
      <4>4. QED
        BY <1>a, <2>1, <1>7, <3>4, <4>2, <4>3, <1>4, <3>1
    <3>5. QED
      BY <1>4, <2>1, <3>1, <3>2, <3>3, <3>4
  <2>7. WindowIsExact'
    BY <1>3, <1>7, <2>5, <2>6 DEF WindowIsExact
  <2>8. QED
    BY <2>1, <2>4, <2>7 DEF WindowInv, WindowFresh
<1>8. CASE /\ highest # None /\ k <= highest /\ k >= Floor
           /\ bitmap' = bitmap \cup {highest - k} /\ highest' = highest
  <2>1. highest \in Nat /\ highest - k \in 0..(Window - 1) /\ Floor' = Floor /\ Floor \in Nat
    BY <1>4, <1>5, <1>8 DEF Floor
  <2>2. WindowOK'
    BY <1>2, <1>3, <1>8, <2>1 DEF WindowOK
  <2>3. \A j \in Nat : highest - j \in bitmap' <=> (highest - j \in bitmap \/ j = k)
    BY <1>4, <1>8, <2>1
  <2>4. WindowIsExact'
    BY <1>3, <1>4, <1>8, <1>a, <2>1, <2>3 DEF WindowIsExact
  <2>5. QED
    BY <1>8, <2>2, <2>4 DEF WindowInv, WindowFresh
<1>9. QED
  BY <1>6, <1>7, <1>8 DEF Accept, k

(* Every step keeps the window's invariant.                                *)
LEMMA NextWindow ==
  ASSUME SenderInv, WindowInv, [Next]_vars
  PROVE  WindowInv'
<1>1. ASSUME NEW cell \in Shown, Accept(cell) PROVE WindowInv'
  <2>1. cell \in Cells
    BY <1>1 DEF Shown, SenderInv, SenderOK
  <2>2. QED
    BY <1>1, <2>1, AcceptWindow
<1>2. ASSUME kind # "datagram", kind' = kind PROVE WindowInv'
  BY <1>2 DEF WindowInv
<1>3. ASSUME UNCHANGED <<kind, highest, bitmap, closed, delivered>> PROVE WindowInv'
  BY <1>3 DEF WindowInv, WindowOK, WindowFresh, WindowIsExact, DeliveredCounters, Floor
<1>4. ASSUME NEW cell \in Shown, Push(cell) PROVE WindowInv'
  BY <1>2, <1>4 DEF Push
<1>5. CASE Expire
  BY <1>2, <1>5 DEF Expire
<1>6. CASE Destroy
  BY <1>6 DEF Destroy, WindowInv, WindowOK, WindowFresh, WindowIsExact
<1>7. CASE (\E p \in Payloads : Seal(p)) \/ DestroySender \/ Tick \/ UNCHANGED vars
  BY <1>3, <1>7 DEF Seal, DestroySender, Tick, vars, datagramVars
<1>8. QED
  BY <1>1, <1>4, <1>5, <1>6, <1>7 DEF Next

(***************************************************************************)
(* The replay window is exact for any window size: the bitmap of           *)
(* DatagramReplayWindow marks precisely the counters from its floor up     *)
(* that were delivered, so acceptAuthenticated() neither delivers a        *)
(* counter twice nor refuses a fresh one within the window.                *)
(***************************************************************************)
THEOREM WindowIsExactHolds == Spec => []WindowIsExact
<1>1. WindowInv => WindowIsExact
  BY DEF WindowInv, WindowIsExact
<1>2. QED
  BY InitSender, NextSender, InitWindow, NextWindow, <1>1, PTL DEF Spec

-----------------------------------------------------------------------------
(* The ordered receiver.                                                   *)

(* Every non-empty set of natural numbers has a least one.                 *)
LEMMA LeastNatural ==
  ASSUME NEW T \in SUBSET Nat, T # {}
  PROVE  \E m \in T : \A k \in T : m <= k
<1> DEFINE R == OpToRel(<, Nat)
<1>1. IsWellFoundedOn(R, Nat)
  BY NatLessThanWellFounded, Zenon
<1>2. \A x, y \in Nat : x < y => <<x, y>> \in R
  BY DEF OpToRel
<1> HIDE DEF R
<1>3. PICK m \in T : \A y \in T : ~(<<y, m>> \in R)
  BY <1>1, WFMin
<1>4. \A k \in T : m <= k
  <2>1. SUFFICES ASSUME NEW k \in T PROVE ~(k < m)
    OBVIOUS
  <2>2. QED
    BY <1>2, <1>3
<1>5. QED
  BY <1>4

(* The loop of #pushAuthenticated() ends: there is a first counter after   *)
(* the next one that is not held back.                                     *)
LEMMA DrainEnds ==
  ASSUME nextCounter \in Counters, buffer \subseteq Cells
  PROVE  /\ DrainedUpTo \in (nextCounter + 1)..(MaxCounter + 1)
         /\ DrainedUpTo \notin BufferedCounters
         /\ \A k \in (nextCounter + 1)..(DrainedUpTo - 1) : k \in BufferedCounters
<1> DEFINE Free == {k \in (nextCounter + 1)..(MaxCounter + 1) : k \notin BufferedCounters}
<1>1. nextCounter \in Nat /\ MaxCounter \in Nat /\ nextCounter <= MaxCounter
  BY ChannelAssumption DEF Counters
<1>2. \A k \in BufferedCounters : k <= MaxCounter
  BY <1>1 DEF BufferedCounters, Cells, Counters
<1>3. MaxCounter + 1 \in Free
  BY <1>1, <1>2
<1>4. Free \in SUBSET Nat /\ Free # {}
  BY <1>1, <1>3
<1> HIDE DEF Free
<1>5. PICK m \in Free : \A k \in Free : m <= k
  BY <1>4, LeastNatural
<1>6. m \in (nextCounter + 1)..(MaxCounter + 1) /\ m \notin BufferedCounters
  BY DEF Free
<1>7. \A k \in (nextCounter + 1)..(m - 1) : k \in BufferedCounters
  <2>1. SUFFICES ASSUME NEW k \in (nextCounter + 1)..(m - 1) PROVE k \notin Free
    BY <1>1, <1>6 DEF Free
  <2>2. QED
    BY <1>1, <1>5, <1>6
<1>8. QED
  BY <1>6, <1>7 DEF DrainedUpTo

(* What is shown and opens was sealed by this sender.                      *)
LEMMA OpenedWasSealed ==
  ASSUME NEW cell \in Shown, Opens(cell)
  PROVE  cell \in cells
  BY DEF Shown, Opens

(* A new receiver holds nothing back.                                      *)
LEMMA InitGap == Init => GapInv
  BY ChannelAssumption DEF Init, GapInv, InGap, Counters

(* #failGap() and #failInvalid() drop what was held back with its timer.   *)
LEMMA FailGap ==
  ASSUME GapInv, Fail, UNCHANGED <<cells, clock>>
  PROVE  GapInv'
  BY DEF GapInv, Fail, InGap, None

(* A cell in its turn is handed over with the run behind it.               *)
LEMMA DeliverGap ==
  ASSUME SenderInv, GapInv, NEW cell \in cells, Deliver(cell), UNCHANGED <<cells, clock>>
  PROVE  GapInv'
<1> DEFINE n == DrainedUpTo
<1> DEFINE rest == {b \in buffer : b.counter > n}
<1>1. nextCounter \in Nat /\ MaxCounter \in Nat /\ Window \in Nat \ {0}
  BY ChannelAssumption DEF GapInv, Counters
<1>2. buffer \subseteq Cells /\ \A b \in buffer : b.counter \in Nat
  BY ChannelAssumption DEF GapInv, SenderInv, SenderOK, Cells, Counters
<1>3. n \in (nextCounter + 1)..(MaxCounter + 1)
  BY <1>2, DrainEnds DEF GapInv
<1>4. \/ /\ nextCounter' = MaxCounter /\ buffer' = {} /\ gapStartedAt' = None
      \/ /\ n # MaxCounter + 1 /\ nextCounter' = n /\ buffer' = rest
         /\ gapStartedAt' = GapAfter(rest)
  BY DEF Deliver
<1> HIDE DEF n
<1>5. CASE nextCounter' = MaxCounter /\ buffer' = {} /\ gapStartedAt' = None
  BY <1>1, <1>5 DEF GapInv, InGap, Counters
<1>6. CASE /\ n # MaxCounter + 1 /\ nextCounter' = n /\ buffer' = rest
           /\ gapStartedAt' = GapAfter(rest)
  <2>1. \A b \in rest : n < b.counter /\ b.counter < n + Window
    BY <1>1, <1>2, <1>3 DEF GapInv
  <2>2. n \in Counters
    BY <1>1, <1>3, <1>6 DEF Counters
  <2>3. rest \subseteq buffer
    OBVIOUS
  <2>4. (rest # {}) <=> gapStartedAt' # None
    BY <1>6, <2>3 DEF GapAfter, GapInv, InGap
  <2>5. gapStartedAt' \in Nat \cup {None}
    BY <1>6 DEF GapAfter, GapInv
  <2> HIDE DEF rest
  <2>6. QED
    BY <1>6, <2>1, <2>2, <2>3, <2>4, <2>5 DEF GapInv, InGap
<1>7. QED
  BY <1>4, <1>5, <1>6

(* A cell that opened reaches the ordered receiver.                        *)
LEMMA PushGap ==
  ASSUME SenderInv, GapInv, NEW cell \in Shown, Push(cell)
  PROVE  GapInv'
<1> DEFINE k == cell.counter
<1>1. cell \in cells /\ UNCHANGED <<cells, clock>>
  BY OpenedWasSealed DEF Push
<1>2. k \in Nat /\ nextCounter \in Nat /\ Window \in Nat
  BY <1>1, ChannelAssumption DEF SenderInv, SenderOK, GapInv, Cells, Counters
<1>3. CASE Fail
  BY <1>1, <1>3, FailGap
<1>4. CASE UNCHANGED <<nextCounter, buffer, gapStartedAt>>
  BY <1>1, <1>4 DEF GapInv, InGap
<1>5. CASE /\ k > nextCounter /\ ~TooFar(k) /\ buffer' = buffer \cup {cell}
           /\ gapStartedAt' = (IF InGap THEN gapStartedAt ELSE clock) /\ UNCHANGED nextCounter
  <2>1. k < nextCounter + Window
    BY <1>2, <1>5 DEF TooFar
  <2>2. gapStartedAt' # None /\ gapStartedAt' \in Nat
    BY <1>5 DEF GapInv, InGap, None
  <2>3. QED
    BY <1>1, <1>2, <1>5, <2>1, <2>2 DEF GapInv, InGap
<1>6. CASE Deliver(cell)
  BY <1>1, <1>6, DeliverGap
<1>7. QED
  BY <1>3, <1>4, <1>5, <1>6 DEF Push

(* Every step keeps what is held back bounded and timed.                   *)
LEMMA NextGap ==
  ASSUME SenderInv, GapInv, [Next]_vars
  PROVE  GapInv'
<1>1. ASSUME NEW p \in Payloads, Seal(p) PROVE GapInv'
  BY <1>1 DEF Seal, GapInv, InGap, orderedVars
<1>2. ASSUME NEW cell \in Shown, Push(cell) PROVE GapInv'
  BY <1>2, PushGap
<1>3. ASSUME UNCHANGED <<cells, clock, nextCounter, buffer, gapStartedAt>> PROVE GapInv'
  BY <1>3 DEF GapInv, InGap
<1>4. ASSUME NEW cell \in Shown, Accept(cell) PROVE GapInv'
  BY <1>3, <1>4 DEF Accept, orderedVars
<1>5. CASE Expire
  <2>1. CASE Fail
    BY <1>5, <2>1, FailGap DEF Expire
  <2>2. CASE UNCHANGED <<nextCounter, buffer, gapStartedAt>>
    BY <1>3, <1>5, <2>2 DEF Expire
  <2>3. QED
    BY <1>5, <2>1, <2>2 DEF Expire
<1>6. CASE Tick
  BY <1>6, ChannelAssumption DEF Tick, orderedVars, GapInv, InGap
<1>7. CASE Destroy
  BY <1>7, ChannelAssumption DEF Destroy, GapInv, InGap, Counters
<1>8. CASE DestroySender \/ UNCHANGED vars
  BY <1>3, <1>8 DEF DestroySender, vars, orderedVars
<1>9. QED
  BY <1>1, <1>2, <1>4, <1>5, <1>6, <1>7, <1>8 DEF Next

(* Cells held back have different counters, all of them among the          *)
(* Window - 1 after the next one.                                          *)
LEMMA BufferSmall ==
  ASSUME SenderInv, GapInv
  PROVE  Cardinality(buffer) < Window
<1> DEFINE T == (nextCounter + 1)..(nextCounter + Window - 1)
           f == [cell \in buffer |-> cell.counter]
<1>1. nextCounter \in Nat /\ Window \in Nat \ {0}
  BY ChannelAssumption DEF GapInv, Counters
<1>2. \A cell \in buffer : cell.counter \in Nat
  BY ChannelAssumption DEF GapInv, SenderInv, SenderOK, Cells, Counters
<1>3. \A cell \in buffer : cell.counter \in T
  BY <1>1, <1>2 DEF GapInv
<1>4. \A a, b \in buffer : a.counter = b.counter => a = b
  BY DEF GapInv, SenderInv, NoncesUnique
<1>5. f \in Injection(buffer, T)
  BY <1>3, <1>4 DEF Injection, IsInjective
<1>6. IsFiniteSet(T) /\ Cardinality(T) = Window - 1
  BY <1>1, FS_Interval
<1> HIDE DEF T, f
<1>7. Cardinality(buffer) <= Cardinality(T) /\ Cardinality(buffer) \in Nat
  BY <1>5, <1>6, FS_Injection, FS_CardinalityType
<1>8. QED
  BY <1>1, <1>6, <1>7

(***************************************************************************)
(* For any window and any timeout: OrderedReceiver holds back fewer than   *)
(* "window" cells, none of them out of its window, and a gap timer runs    *)
(* exactly while something is held back (lib/private/counters.js).         *)
(***************************************************************************)
THEOREM GapIsTimedHolds == Spec => []GapIsTimed
<1>1. SenderInv /\ GapInv => GapIsTimed
  BY BufferSmall DEF GapInv, GapIsTimed
<1>2. QED
  BY InitSender, NextSender, InitGap, NextGap, <1>1, PTL DEF Spec

-----------------------------------------------------------------------------
(* What was sent and what is delivered.                                    *)

(* A new channel sealed and delivered nothing.                             *)
LEMMA InitPromise == Init => SentInv /\ DeliveredInv
<1> SUFFICES ASSUME Init PROVE SentInv /\ DeliveredInv
  OBVIOUS
<1>1. sent \in Seq(Payloads) /\ Len(sent) = 0 /\ delivered \in Seq(Cells) /\ Len(delivered) = 0
  BY DEF Init
<1>2. QED
  BY <1>1, ChannelAssumption DEF Init, SentInv, DeliveredInv

(* seal() numbers its payload with the counter it takes.                   *)
LEMMA SealSent ==
  ASSUME SenderInv, SentInv, NEW p \in Payloads, Seal(p)
  PROVE  SentInv'
<1> DEFINE new == [counter |-> value, payload |-> p, genuine |-> TRUE]
<1>1. /\ ~senderClosed /\ Advance /\ sent' = Append(sent, p) /\ cells' = cells \cup {new}
      /\ value = Origin + Len(sent) /\ Origin \in Nat
  BY ChannelAssumption DEF Seal, SentInv
<1>2. /\ sent' \in Seq(Payloads) /\ Len(sent) \in Nat /\ Len(sent') = Len(sent) + 1
      /\ \A i \in 1..Len(sent) : sent'[i] = sent[i]
      /\ sent'[Len(sent) + 1] = p
  BY <1>1, AppendProperties DEF SentInv
<1>3. ~senderClosed' => value' = Origin + Len(sent')
  BY <1>1, <1>2 DEF Advance
<1>4. ASSUME NEW cell \in cells
      PROVE  /\ cell.counter \in Origin..(Origin + Len(sent') - 1)
             /\ cell.payload = sent'[cell.counter - Origin + 1]
  <2>1. /\ cell.counter \in Origin..(Origin + Len(sent) - 1)
        /\ cell.payload = sent[cell.counter - Origin + 1]
    BY DEF SentInv
  <2>2. cell.counter - Origin + 1 \in 1..Len(sent)
    BY <1>1, <1>2, <2>1
  <2>3. QED
    BY <1>1, <1>2, <2>1, <2>2
<1>5. /\ new.counter \in Origin..(Origin + Len(sent') - 1)
      /\ new.payload = sent'[new.counter - Origin + 1]
  <2>1. new.counter = Origin + Len(sent) /\ new.payload = p
    BY <1>1
  <2>2. new.counter - Origin + 1 = Len(sent) + 1
    BY <1>1, <1>2, <2>1
  <2>3. QED
    BY <1>1, <1>2, <2>1, <2>2
<1> HIDE DEF new
<1>6. QED
  BY <1>1, <1>2, <1>3, <1>4, <1>5 DEF SentInv

(* Every step keeps the numbering of the sealed cells.                     *)
LEMMA NextSent ==
  ASSUME SenderInv, SentInv, [Next]_vars
  PROVE  SentInv'
<1>1. ASSUME NEW p \in Payloads, Seal(p) PROVE SentInv'
  BY <1>1, SealSent
<1>2. CASE DestroySender
  BY <1>2 DEF DestroySender, SentInv
<1>3. ASSUME UNCHANGED <<value, senderClosed, sent, cells>> PROVE SentInv'
  BY <1>3 DEF SentInv
<1>4. ASSUME NEW cell \in Shown, Push(cell) \/ Accept(cell) PROVE SentInv'
  BY <1>3, <1>4 DEF Push, Accept, senderVars
<1>5. CASE Expire \/ Tick \/ Destroy \/ UNCHANGED vars
  BY <1>3, <1>5 DEF Expire, Tick, Destroy, senderVars, vars
<1>6. QED
  BY <1>1, <1>2, <1>4, <1>5 DEF Next

(* A cell in its turn: the receiver hands over exactly the next cells.     *)
LEMMA DeliverExtends ==
  ASSUME SenderInv, GapInv, DeliveredInv, kind = "ordered", ~closed,
         NEW cell \in cells, cell.counter = nextCounter, Deliver(cell)
  PROVE  /\ delivered' \in Seq(Cells)
         /\ Len(delivered') > Len(delivered)
         /\ \A i \in 1..Len(delivered') :
              delivered'[i] \in cells /\ delivered'[i].counter = Origin + i - 1
         /\ ~closed' => nextCounter' = Origin + Len(delivered')
<1> DEFINE n == DrainedUpTo
           Taken(k) == IF k = nextCounter THEN cell ELSE CHOOSE b \in buffer : b.counter = k
           run == [i \in 1..(n - nextCounter) |-> Taken(nextCounter + i - 1)]
<1>1. nextCounter \in Nat /\ MaxCounter \in Nat /\ Origin \in Nat
  BY ChannelAssumption DEF GapInv, Counters
<1>2. buffer \subseteq Cells /\ cells \subseteq Cells /\ buffer \subseteq cells
  BY DEF GapInv, SenderInv, SenderOK
<1>3. /\ n \in (nextCounter + 1)..(MaxCounter + 1)
      /\ \A k \in (nextCounter + 1)..(n - 1) : k \in BufferedCounters
  BY <1>2, DrainEnds DEF GapInv
<1>4. /\ delivered' = delivered \o run
      /\ ~closed' => nextCounter' = n
  BY DEF Deliver
<1>5. delivered \in Seq(Cells) /\ Len(delivered) \in Nat /\ nextCounter = Origin + Len(delivered)
  BY DEF DeliveredInv
<1> HIDE DEF n
<1>6. ASSUME NEW k \in nextCounter..(n - 1)
      PROVE  Taken(k) \in cells /\ Taken(k).counter = k
  <2>1. CASE k = nextCounter
    BY <2>1
  <2>2. CASE k # nextCounter
    <3>1. k \in BufferedCounters
      BY <1>1, <1>3, <2>2
    <3>2. \E b \in buffer : b.counter = k
      BY <3>1 DEF BufferedCounters
    <3>3. Taken(k) \in buffer /\ Taken(k).counter = k
      BY <2>2, <3>2
    <3>4. QED
      BY <1>2, <3>3
  <2>3. QED
    BY <2>1, <2>2
<1> HIDE DEF Taken
<1>7. \A i \in 1..(n - nextCounter) : nextCounter + i - 1 \in nextCounter..(n - 1)
  BY <1>1, <1>3
<1>8. \A i \in 1..(n - nextCounter) : run[i] \in cells /\ run[i].counter = nextCounter + i - 1
  BY <1>6, <1>7
<1>9. run \in Seq(Cells) /\ Len(run) = n - nextCounter
  <2>1. n - nextCounter \in Nat /\ \A i \in 1..(n - nextCounter) : run[i] \in Cells
    BY <1>1, <1>2, <1>3, <1>8
  <2>2. QED
    BY <2>1
<1> HIDE DEF run
<1>10. /\ delivered' \in Seq(Cells)
       /\ Len(delivered') = Len(delivered) + Len(run)
       /\ \A i \in 1..(Len(delivered) + Len(run)) :
            delivered'[i] = IF i <= Len(delivered) THEN delivered[i] ELSE run[i - Len(delivered)]
  <2>1. delivered' = delivered \o run
    BY <1>4
  <2>2. /\ delivered \o run \in Seq(Cells)
        /\ Len(delivered \o run) = Len(delivered) + Len(run)
        /\ \A i \in 1..(Len(delivered) + Len(run)) : (delivered \o run)[i] =
             IF i <= Len(delivered) THEN delivered[i] ELSE run[i - Len(delivered)]
    <3>1. delivered \in Seq(Cells) /\ run \in Seq(Cells)
      BY <1>5, <1>9
    <3>2. QED
      BY <3>1, ConcatProperties, Zenon
  <2>3. QED
    BY <2>1, <2>2
<1>11. ASSUME NEW i \in 1..Len(delivered')
       PROVE  delivered'[i] \in cells /\ delivered'[i].counter = Origin + i - 1
  <2>1. CASE i <= Len(delivered)
    BY <1>1, <1>3, <1>5, <1>9, <1>10, <2>1 DEF DeliveredInv
  <2>2. CASE i > Len(delivered)
    <3>0. i \in 1..(Len(delivered) + Len(run)) /\ ~(i <= Len(delivered)) /\ Len(run) = n - nextCounter
      BY <1>5, <1>9, <1>10, <2>2
    <3>1. i - Len(delivered) \in 1..(n - nextCounter) /\ delivered'[i] = run[i - Len(delivered)]
      <4>1. delivered'[i] = run[i - Len(delivered)]
        BY <1>10, <3>0
      <4>2. i - Len(delivered) \in 1..Len(run)
        BY <1>1, <1>3, <1>5, <3>0
      <4>3. QED
        BY <3>0, <4>1, <4>2
    <3>2. nextCounter + (i - Len(delivered)) - 1 = Origin + i - 1
      BY <1>1, <1>5
    <3>3. QED
      BY <1>8, <3>1, <3>2
  <2>3. QED
    BY <1>5, <2>1, <2>2
<1>12. Len(delivered') > Len(delivered) /\ (~closed' => nextCounter' = Origin + Len(delivered'))
  BY <1>1, <1>3, <1>4, <1>5, <1>9, <1>10
<1>13. QED
  BY <1>10, <1>11, <1>12

(* Every step delivers sealed cells only, a stream's in their order.       *)
LEMMA NextDelivered ==
  ASSUME SenderInv, GapInv, DeliveredInv, [Next]_vars
  PROVE  DeliveredInv'
<1>1. ASSUME cells \subseteq cells', UNCHANGED <<kind, delivered>>,
             closed' \/ UNCHANGED <<closed, nextCounter>>
      PROVE  DeliveredInv'
  BY <1>1 DEF DeliveredInv
<1>2. ASSUME NEW p \in Payloads, Seal(p) PROVE DeliveredInv'
  BY <1>1, <1>2 DEF Seal, orderedVars
<1>3. ASSUME NEW cell \in Shown, Push(cell) PROVE DeliveredInv'
  <2>1. cell \in cells /\ cells' = cells /\ kind = "ordered" /\ ~closed /\ kind' = kind
    BY <1>3, OpenedWasSealed DEF Push
  <2>2. CASE cell.counter = nextCounter /\ Deliver(cell)
    BY <2>1, <2>2, DeliverExtends DEF DeliveredInv
  <2>3. CASE Fail
    BY <1>1, <2>1, <2>3 DEF Fail
  <2>4. CASE UNCHANGED <<nextCounter, closed, delivered>>
    BY <1>1, <2>1, <2>4
  <2>5. QED
    BY <1>3, <2>2, <2>3, <2>4 DEF Push
<1>4. ASSUME NEW cell \in Shown, Accept(cell) PROVE DeliveredInv'
  <2>1. /\ cell \in cells /\ cells' = cells /\ kind = "datagram" /\ kind' = kind
        /\ delivered' = Append(delivered, cell)
    BY <1>4, OpenedWasSealed DEF Accept
  <2>2. cell \in Cells /\ delivered \in Seq(Cells)
    BY <2>1 DEF SenderInv, SenderOK, DeliveredInv
  <2>3. /\ delivered' \in Seq(Cells) /\ Len(delivered) \in Nat
        /\ Len(delivered') = Len(delivered) + 1
        /\ \A i \in 1..Len(delivered) : delivered'[i] = delivered[i]
        /\ delivered'[Len(delivered) + 1] = cell
    BY <2>1, <2>2, AppendProperties
  <2>4. \A i \in 1..Len(delivered') : delivered'[i] \in cells'
    BY <2>1, <2>3 DEF DeliveredInv
  <2>5. QED
    BY <2>1, <2>3, <2>4 DEF DeliveredInv
<1>5. CASE Expire
  BY <1>1, <1>5 DEF Expire, Fail
<1>6. CASE Tick \/ DestroySender \/ UNCHANGED vars
  BY <1>1, <1>6 DEF Tick, DestroySender, vars, orderedVars
<1>7. CASE Destroy
  BY <1>1, <1>7 DEF Destroy
<1>8. QED
  BY <1>2, <1>3, <1>4, <1>5, <1>6, <1>7 DEF Next

(* The invariant of the whole channel.                                     *)
LEMMA AlwaysChannelInv == Spec => []ChannelInv
<1>1. Init => ChannelInv
  BY InitSender, InitWindow, InitGap, InitPromise DEF ChannelInv
<1>2. ChannelInv /\ [Next]_vars => ChannelInv'
  BY NextSender, NextWindow, NextGap, NextSent, NextDelivered DEF ChannelInv
<1>3. QED
  BY <1>1, <1>2, PTL DEF Spec

-----------------------------------------------------------------------------
(* The refinement of Delivery.                                             *)

(* A delivered cell is the item of the abstract channel with its number.   *)
LEMMA CellIsItem ==
  ASSUME SentInv, NEW cell \in cells
  PROVE  /\ cell.counter - Origin + 1 \in 1..Len(sent)
         /\ [number |-> cell.counter - Origin + 1, payload |-> cell.payload]
              = Promise!Item(cell.counter - Origin + 1)
<1>1. /\ Origin \in Nat /\ Len(sent) \in Nat
      /\ cell.counter \in Origin..(Origin + Len(sent) - 1)
      /\ cell.payload = sent[cell.counter - Origin + 1]
  BY ChannelAssumption DEF SentInv
<1>2. QED
  BY <1>1 DEF Promise!Item

(* A step that delivers nothing and seals nothing is a stutter.            *)
LEMMA StutterPromise ==
  ASSUME UNCHANGED <<kind, sent, delivered>>
  PROVE  UNCHANGED Promise!vars
  BY DEF Promise!vars, DeliveredItems

(* A cell in its turn: the abstract stream delivers a longer prefix.       *)
LEMMA DeliverPromise ==
  ASSUME ChannelInv, NEW cell \in cells, kind = "ordered", ~closed,
         cell.counter = nextCounter, Deliver(cell), UNCHANGED <<kind, sent>>
  PROVE  Promise!DeliverInOrder
<1> DEFINE n == Len(delivered')
<1>1. /\ delivered' \in Seq(Cells) /\ n > Len(delivered)
      /\ \A i \in 1..n : delivered'[i] \in cells /\ delivered'[i].counter = Origin + i - 1
  BY DeliverExtends DEF ChannelInv
<1>2. n \in Nat /\ Len(delivered) \in Nat /\ Origin \in Nat /\ Len(sent) \in Nat
  BY <1>1, ChannelAssumption DEF ChannelInv, DeliveredInv, SentInv
<1> HIDE DEF n
<1>3. ASSUME NEW i \in 1..n
      PROVE  /\ i \in 1..Len(sent)
             /\ [number |-> delivered'[i].counter - Origin + 1, payload |-> delivered'[i].payload]
                  = Promise!Item(i)
  <2>1. delivered'[i] \in cells /\ delivered'[i].counter - Origin + 1 = i
    BY <1>1, <1>2
  <2>2. QED
    BY <2>1, CellIsItem DEF ChannelInv
<1>4. DeliveredItems' = [i \in 1..n |-> Promise!Item(i)]
  BY <1>3 DEF DeliveredItems, n
<1>5. n \in 1..Len(sent)
  BY <1>1, <1>2, <1>3
<1>6. Len(DeliveredItems) = Len(delivered)
  BY <1>2 DEF DeliveredItems
<1>7. n \in (Len(DeliveredItems) + 1)..Len(sent)
  BY <1>1, <1>2, <1>5, <1>6
<1>8. QED
  BY <1>4, <1>7 DEF Promise!DeliverInOrder

(* acceptAuthenticated() never takes a counter that was delivered before.  *)
LEMMA AcceptIsFresh ==
  ASSUME ChannelInv, NEW cell \in cells, Accept(cell)
  PROVE  cell.counter \notin DeliveredCounters
<1> DEFINE k == cell.counter
<1>1. kind = "datagram" /\ ~closed /\ WindowOK /\ WindowFresh /\ WindowIsExact
  BY DEF Accept, ChannelInv, WindowInv
<1>2. k \in Nat /\ Window \in Nat \ {0}
  BY ChannelAssumption DEF ChannelInv, SenderInv, SenderOK, Cells, Counters
<1>3. CASE highest = None
  BY <1>1, <1>3 DEF WindowFresh, DeliveredCounters
<1>4. CASE highest # None /\ k > highest
  <2>1. highest \in Nat
    BY <1>1, <1>4 DEF WindowOK, Counters, None
  <2>2. k \in DeliveredCounters => k <= highest
    BY <1>1, <1>4 DEF WindowIsExact
  <2>3. QED
    BY <1>2, <1>4, <2>1, <2>2
<1>5. CASE highest # None /\ k <= highest /\ k >= Floor /\ highest - k \notin bitmap
  <2>1. highest \in Nat
    BY <1>1, <1>5 DEF WindowOK, Counters, None
  <2>2. k \in Floor..highest
    BY <1>2, <1>5, <2>1 DEF Floor
  <2>3. QED
    BY <1>1, <1>5, <2>2 DEF WindowIsExact
<1>6. QED
  BY <1>3, <1>4, <1>5 DEF Accept

(* An accepted datagram is delivered once.                                 *)
LEMMA AcceptPromise ==
  ASSUME ChannelInv, NEW cell \in cells, Accept(cell)
  PROVE  Promise!DeliverOnce
<1> DEFINE k == cell.counter
           new == [number |-> k - Origin + 1, payload |-> cell.payload]
<1>1. kind = "datagram" /\ delivered' = Append(delivered, cell) /\ UNCHANGED <<kind, sent>>
  BY DEF Accept, senderVars
<1>2. cell \in Cells /\ delivered \in Seq(Cells)
  BY DEF ChannelInv, SenderInv, SenderOK, DeliveredInv
<1>3. /\ Len(delivered) \in Nat /\ Len(delivered') = Len(delivered) + 1
      /\ \A i \in 1..Len(delivered) : delivered'[i] = delivered[i]
      /\ delivered'[Len(delivered) + 1] = cell
  BY <1>1, <1>2, AppendProperties
<1>4. k - Origin + 1 \in 1..Len(sent) /\ new = Promise!Item(k - Origin + 1)
  BY CellIsItem DEF ChannelInv
<1>5. k \in Nat /\ Origin \in Nat /\ \A i \in 1..Len(delivered) : delivered[i].counter \in Nat
  <2>1. \A c \in Cells : c.counter \in Nat
    BY ChannelAssumption DEF Cells, Counters
  <2>2. \A i \in 1..Len(delivered) : delivered[i] \in Cells
    BY <1>2
  <2>3. QED
    BY <1>2, <2>1, <2>2, ChannelAssumption
<1>6. \A j \in 1..Len(delivered) : delivered[j].counter # k
  BY AcceptIsFresh DEF DeliveredCounters
<1>7. /\ Len(DeliveredItems) = Len(delivered)
      /\ \A j \in 1..Len(delivered) : DeliveredItems[j].number = delivered[j].counter - Origin + 1
  <2>1. DeliveredItems = [i \in 1..Len(delivered) |->
           [number |-> delivered[i].counter - Origin + 1, payload |-> delivered[i].payload]]
    BY Zenon DEF DeliveredItems
  <2>2. Len(DeliveredItems) = Len(delivered)
    BY <1>3, <2>1
  <2>3. QED
    BY <2>1, <2>2
<1>8. \A j \in 1..Len(DeliveredItems) : DeliveredItems[j].number # k - Origin + 1
  BY <1>5, <1>6, <1>7
<1> HIDE DEF new
<1>9. DeliveredItems' = Append(DeliveredItems, new)
  <2>1. DeliveredItems' = [i \in 1..(Len(delivered) + 1) |->
           [number |-> delivered'[i].counter - Origin + 1, payload |-> delivered'[i].payload]]
    BY <1>3 DEF DeliveredItems
  <2>2. Append(DeliveredItems, new) = [i \in 1..(Len(delivered) + 1) |->
           IF i = Len(delivered) + 1 THEN new ELSE DeliveredItems[i]]
    BY <1>3, <1>7 DEF DeliveredItems
  <2>3. ASSUME NEW i \in 1..(Len(delivered) + 1)
        PROVE  [number |-> delivered'[i].counter - Origin + 1, payload |-> delivered'[i].payload]
                 = IF i = Len(delivered) + 1 THEN new ELSE DeliveredItems[i]
    <3>1. CASE i = Len(delivered) + 1
      BY <1>3, <3>1 DEF new
    <3>2. CASE i # Len(delivered) + 1
      <4>1. i \in 1..Len(delivered)
        BY <1>3, <3>2
      <4>2. QED
        BY <1>3, <3>2, <4>1 DEF DeliveredItems
    <3>3. QED
      BY <3>1, <3>2
  <2>4. QED
    BY <2>1, <2>2, <2>3
<1>10. QED
  BY <1>1, <1>4, <1>8, <1>9 DEF Promise!DeliverOnce

(* Every step of the channel is a step of its promise, or a stutter.       *)
LEMMA StepPromise ==
  ASSUME ChannelInv, [Next]_vars
  PROVE  [Promise!Next]_(Promise!vars)
<1>1. ASSUME NEW p \in Payloads, Seal(p) PROVE Promise!Send
  <2>1. UNCHANGED <<kind, delivered>> /\ sent' = Append(sent, p)
    BY <1>1 DEF Seal
  <2>2. DeliveredItems' = DeliveredItems
    BY <2>1 DEF DeliveredItems
  <2>3. QED
    BY <2>1, <2>2 DEF Promise!Send
<1>2. ASSUME NEW cell \in Shown, Push(cell) PROVE [Promise!Next]_(Promise!vars)
  <2>1. cell \in cells /\ kind = "ordered" /\ ~closed /\ UNCHANGED <<kind, sent>>
    BY <1>2, OpenedWasSealed DEF Push, senderVars
  <2>2. CASE cell.counter = nextCounter /\ Deliver(cell)
    BY <2>1, <2>2, DeliverPromise DEF Promise!Next
  <2>3. CASE UNCHANGED delivered
    BY <2>1, <2>3, StutterPromise
  <2>4. QED
    BY <1>2, <2>2, <2>3 DEF Push, Fail
<1>3. ASSUME NEW cell \in Shown, Accept(cell) PROVE Promise!DeliverOnce
  <2>1. cell \in cells
    BY <1>3, OpenedWasSealed DEF Accept
  <2>2. QED
    BY <1>3, <2>1, AcceptPromise
<1>4. CASE Expire \/ Tick \/ DestroySender \/ Destroy \/ UNCHANGED vars
  <2>1. UNCHANGED <<kind, sent, delivered>>
    BY <1>4 DEF Expire, Fail, Tick, DestroySender, Destroy, vars, senderVars
  <2>2. QED
    BY <2>1, StutterPromise
<1>5. QED
  BY <1>1, <1>2, <1>3, <1>4 DEF Next, Promise!Next

(***************************************************************************)
(* The channel implements Delivery for any window, timeout and counter     *)
(* space, over a network that loses, repeats, reorders and forges cells:   *)
(* the counters, the buffer and the replay window of lib/private/          *)
(* counters.js deliver a stream as a growing prefix of what was sealed and *)
(* each datagram at most once.                                             *)
(***************************************************************************)
THEOREM KeepsPromiseHolds == Spec => KeepsPromise
<1>1. Init => Promise!Init
  <2> SUFFICES ASSUME Init PROVE Promise!Init
    OBVIOUS
  <2>1. delivered = <<>> /\ sent = <<>>
    BY DEF Init
  <2>2. DeliveredItems = <<>>
    BY <2>1 DEF DeliveredItems
  <2>3. (kind = "ordered") \in BOOLEAN
    OBVIOUS
  <2>4. QED
    BY <2>1, <2>2, <2>3 DEF Promise!Init
<1>2. ChannelInv /\ [Next]_vars => [Promise!Next]_(Promise!vars)
  BY StepPromise
<1>3. QED
  BY <1>1, <1>2, AlwaysChannelInv, PTL DEF Spec, KeepsPromise, Promise!Spec
=============================================================================
