------------------------------ MODULE CellChannel ------------------------------
(***************************************************************************)
(* One direction of a private-route channel: SenderCounter and the sealing *)
(* side of CellCodec, a network that loses, duplicates, reorders and       *)
(* injects cells, and the opening side with its OrderedReceiver (CONTROL   *)
(* and STREAM cells) or DatagramReplayWindow (DATAGRAM cells).             *)
(* lib/private/counters.js and lib/private/cell-codec.js.                  *)
(*                                                                         *)
(* The authenticated encryption is external: a cell opens iff it was       *)
(* sealed in this very context (key, nonce prefix, class, direction,       *)
(* epoch, circuit id) and nobody changed it; "genuine" says so.  Payloads  *)
(* never exceed MAX_BUFFERED_PAYLOAD, which is MAX_CELL_PAYLOAD.  A seal   *)
(* that fails after it took its counter is a cell the network loses.  The  *)
(* contexts of createSealer() and createOpener() take the same steps and   *)
(* destroy themselves when one fails; Destroy covers that, as it covers a  *)
(* destroy() from within the receiver's clock callback: that one is        *)
(* deferred to the end of the operation, which then delivers nothing.      *)
(***************************************************************************)
EXTENDS Integers, Sequences, FiniteSets

CONSTANTS
  Payloads,
  Origin,       (* "initial" of the counters                                 *)
  MaxCounter,   (* "maximum" of the counters; 2^64 - 1 in the code           *)
  Window,       (* "window" of the receiver                                  *)
  GapTimeout,   (* "gapTimeout" of the ordered receiver                      *)
  MaxTime       (* bound: the clock runs over 0..MaxTime                     *)

ASSUME ChannelAssumption ==
  /\ {Origin, MaxCounter, GapTimeout, MaxTime} \subseteq Nat
  /\ Origin <= MaxCounter
  /\ Window \in Nat \ {0}

VARIABLES
  kind,            (* "ordered" or "datagram"                                *)
  value,           (* SenderCounter: the next counter                        *)
  senderClosed,
  sent,            (* history: the payloads sealed, in order                 *)
  cells,           (* the cells sealed so far                                *)
  clock,           (* external: what now() returns                           *)
  nextCounter,     (* OrderedReceiver: next                                  *)
  buffer,          (* OrderedReceiver: the cells held back                   *)
  gapStartedAt,
  lastObservedAt,
  highest,         (* DatagramReplayWindow                                   *)
  bitmap,          (* DatagramReplayWindow: offsets from highest that are set *)
  closed,          (* of the receiver                                        *)
  delivered        (* the cells handed to the user, in order                 *)

senderVars == <<value, senderClosed, sent>>
orderedVars == <<nextCounter, buffer, gapStartedAt, lastObservedAt>>
datagramVars == <<highest, bitmap>>
vars == <<kind, senderVars, cells, clock, orderedVars, datagramVars, closed, delivered>>

None == -1

Counters == 0..MaxCounter

Cells == [counter : Counters, payload : Payloads, genuine : BOOLEAN]

Init ==
  /\ kind \in {"ordered", "datagram"}
  /\ value = Origin /\ senderClosed = FALSE /\ sent = <<>>
  /\ cells = {}
  /\ clock = 0
  /\ nextCounter = Origin /\ buffer = {}
  /\ gapStartedAt = None /\ lastObservedAt = None
  /\ highest = None /\ bitmap = {}
  /\ closed = FALSE
  /\ delivered = <<>>

-----------------------------------------------------------------------------
(* Sealing.                                                                *)

(* Mutant: the counter wraps and the sender stays open.                    *)
AdvanceWraps ==
  /\ value' = (value + 1) % (MaxCounter + 1)
  /\ UNCHANGED senderClosed

(* The state change of SenderCounter.next(): it closes at the maximum.     *)
Advance ==
  IF value = MaxCounter THEN senderClosed' = TRUE /\ UNCHANGED value
  ELSE value' = value + 1 /\ UNCHANGED senderClosed

(* CellCodec.seal(): takes a counter and emits the cell.                   *)
Seal(p) ==
  /\ ~senderClosed
  /\ Advance
  /\ sent' = Append(sent, p)
  /\ cells' = cells \cup {[counter |-> value, payload |-> p, genuine |-> TRUE]}
  /\ UNCHANGED <<kind, clock, orderedVars, datagramVars, closed, delivered>>

(* SenderCounter.destroy().                                                *)
DestroySender ==
  /\ ~senderClosed
  /\ value' = 0 /\ senderClosed' = TRUE
  /\ UNCHANGED <<kind, sent, cells, clock, orderedVars, datagramVars, closed, delivered>>

(* External: the cells the network can show: everything sealed so far, any *)
(* number of times and in any order, and forgeries: cells of another       *)
(* context or changed ones.                                                *)
Shown == cells \cup {cell \in Cells : ~cell.genuine}

-----------------------------------------------------------------------------
(* Opening.                                                                *)

(* Mutant: the receiver sees the counter before the cell is authenticated. *)
OpensUnchecked(cell) == TRUE

(* The header tests and the AEAD of CellCodec.open().                      *)
Opens(cell) == cell.genuine

InGap == gapStartedAt # None

(* #expireAt(): the clock ran backwards, or the gap is open too long.      *)
ClockFails == InGap /\ clock < lastObservedAt
GapExpired == InGap /\ clock >= lastObservedAt /\ clock - gapStartedAt >= GapTimeout

(* #failGap() and #failInvalid(): the buffer is dropped, the receiver ends. *)
Fail ==
  /\ buffer' = {} /\ gapStartedAt' = None /\ lastObservedAt' = None
  /\ closed' = TRUE
  /\ UNCHANGED <<nextCounter, delivered>>

(* #expireAt() that does not fail only notes the time.                     *)
Observed == IF InGap THEN clock ELSE None

BufferedCounters == {cell.counter : cell \in buffer}

(* The replay test of #pushAuthenticated().                                *)
Seen(k) == k < nextCounter \/ k \in BufferedCounters

(* The gap tests of #pushAuthenticated().                                  *)
TooFar(k) == k - nextCounter >= Window \/ GapTimeout = 0

(* The loop of #pushAuthenticated() stops at the first counter after the   *)
(* one that arrived that is not held back, at most MaxCounter + 1.         *)
DrainedUpTo ==
  CHOOSE n \in (nextCounter + 1)..(MaxCounter + 1) :
    /\ n \notin BufferedCounters
    /\ \A k \in (nextCounter + 1)..(n - 1) : k \in BufferedCounters

(* Mutant: the gap timer is forgotten although cells are still held back.  *)
GapAfterForgets(rest) == None

(* The gap goes on while cells are held back, from when it first began.    *)
GapAfter(rest) == IF rest = {} THEN None ELSE gapStartedAt

(* The cell that arrived is handed over, and the run of cells held back    *)
(* after it, counter by counter.                                           *)
Deliver(cell) ==
  LET n == DrainedUpTo
      Taken(k) == IF k = nextCounter THEN cell ELSE CHOOSE b \in buffer : b.counter = k
      rest == {b \in buffer : b.counter > n}
  IN /\ delivered' = delivered \o [i \in 1..(n - nextCounter) |-> Taken(nextCounter + i - 1)]
     /\ IF n = MaxCounter + 1
        THEN /\ nextCounter' = MaxCounter /\ closed' = TRUE
             /\ buffer' = {} /\ gapStartedAt' = None /\ lastObservedAt' = None
        ELSE /\ nextCounter' = n /\ UNCHANGED closed
             /\ buffer' = rest
             /\ gapStartedAt' = GapAfter(rest)
             /\ lastObservedAt' = IF rest = {} THEN None ELSE Observed

(* #pushAuthenticated() of a cell that opened.                             *)
Push(cell) ==
  /\ kind = "ordered" /\ ~closed
  /\ Opens(cell)
  /\ LET k == cell.counter
         alive == ~ClockFails /\ ~GapExpired
     IN \/ /\ ~alive
           /\ Fail
        \/ /\ alive /\ Seen(k)
           /\ lastObservedAt' = Observed
           /\ UNCHANGED <<nextCounter, buffer, gapStartedAt, closed, delivered>>
        \/ /\ alive /\ ~Seen(k) /\ k > nextCounter /\ TooFar(k)
           /\ Fail
        \/ /\ alive /\ ~Seen(k) /\ k > nextCounter /\ ~TooFar(k)
           /\ buffer' = buffer \cup {cell}
           /\ gapStartedAt' = IF InGap THEN gapStartedAt ELSE clock
           /\ lastObservedAt' = clock
           /\ UNCHANGED <<nextCounter, closed, delivered>>
        \/ /\ alive /\ ~Seen(k) /\ k = nextCounter
           /\ Deliver(cell)
  /\ UNCHANGED <<kind, senderVars, cells, clock, datagramVars>>

(* OrderedReceiver.expire().                                               *)
Expire ==
  /\ kind = "ordered" /\ ~closed /\ InGap
  /\ \/ (ClockFails \/ GapExpired) /\ Fail
     \/ /\ ~ClockFails /\ ~GapExpired
        /\ lastObservedAt' = clock
        /\ UNCHANGED <<nextCounter, buffer, gapStartedAt, closed, delivered>>
  /\ UNCHANGED <<kind, senderVars, cells, clock, datagramVars>>

(* floor of DatagramReplayWindow.                                          *)
Floor == IF highest = None \/ highest < Window THEN 0 ELSE highest - Window + 1

(* Mutant: a jump keeps the old bits where they are.                       *)
ShiftedNot(shift) == bitmap \cup {0}

(* The bitmap after a jump of the highest counter by shift.                *)
Shifted(shift) ==
  IF shift >= Window THEN {0}
  ELSE {0} \cup {b + shift : b \in {b \in bitmap : b + shift < Window}}

(* acceptAuthenticated() of a cell that opened; a replay changes nothing.  *)
Accept(cell) ==
  /\ kind = "datagram" /\ ~closed
  /\ Opens(cell)
  /\ LET k == cell.counter
     IN \/ /\ highest = None
           /\ highest' = k /\ bitmap' = {0}
           /\ closed' = (k = MaxCounter)
        \/ /\ highest # None /\ k > highest
           /\ highest' = k /\ bitmap' = Shifted(k - highest)
           /\ closed' = (k = MaxCounter)
        \/ /\ highest # None /\ k <= highest /\ k >= Floor
           /\ highest - k \notin bitmap
           /\ bitmap' = bitmap \cup {highest - k}
           /\ UNCHANGED <<highest, closed>>
  /\ delivered' = Append(delivered, cell)
  /\ UNCHANGED <<kind, senderVars, cells, clock, orderedVars>>

(* destroy() of the receiver.                                              *)
Destroy ==
  /\ ~closed
  /\ closed' = TRUE
  /\ nextCounter' = 0 /\ buffer' = {} /\ gapStartedAt' = None /\ lastObservedAt' = None
  /\ highest' = None /\ bitmap' = {}
  /\ UNCHANGED <<kind, senderVars, cells, clock, delivered>>

(* External: the clock moves, and Date.now may also jump back.             *)
Tick ==
  /\ clock' \in {clock + 1, clock - 1}
  /\ clock' \in 0..MaxTime
  /\ UNCHANGED <<kind, senderVars, cells, orderedVars, datagramVars, closed, delivered>>

Next ==
  \/ \E p \in Payloads : Seal(p)
  \/ \E cell \in Shown : Push(cell) \/ Accept(cell)
  \/ Expire \/ Tick
  \/ DestroySender \/ Destroy

Spec == Init /\ [][Next]_vars

-----------------------------------------------------------------------------
(* Type invariant: the fields of counters.js keep their ranges.            *)
TypeOK ==
  /\ kind \in {"ordered", "datagram"}
  /\ value \in Counters /\ senderClosed \in BOOLEAN /\ sent \in Seq(Payloads)
  /\ cells \in SUBSET Cells
  /\ clock \in 0..MaxTime
  /\ nextCounter \in Counters /\ buffer \in SUBSET Cells
  /\ gapStartedAt \in Nat \cup {None} /\ lastObservedAt \in Nat \cup {None}
  /\ highest \in Counters \cup {None} /\ bitmap \in SUBSET (0..(Window - 1))
  /\ closed \in BOOLEAN
  /\ delivered \in Seq(Cells)

(***************************************************************************)
(* The nonce of a cell is its counter: the sender never seals two cells    *)
(* with the same counter, not at the maximum and not after destroy().      *)
(***************************************************************************)
NoncesUnique ==
  \A a, b \in cells : a.counter = b.counter => a = b

(***************************************************************************)
(* What the ordered receiver holds back is bounded by the window and under *)
(* a gap timer exactly as long as there is something held back.            *)
(***************************************************************************)
GapIsTimed ==
  /\ \A cell \in buffer : nextCounter < cell.counter /\ cell.counter < nextCounter + Window
  /\ Cardinality(buffer) < Window
  /\ (buffer # {}) <=> InGap

(***************************************************************************)
(* The replay window knows exactly which counters at and above its floor   *)
(* were accepted, so a late cell is neither delivered twice nor refused.   *)
(***************************************************************************)
DeliveredCounters == {delivered[i].counter : i \in 1..Len(delivered)}

WindowIsExact ==
  (kind = "datagram" /\ highest # None) =>
    /\ \A k \in DeliveredCounters : k <= highest
    /\ \A k \in Floor..highest : (highest - k \in bitmap) <=> (k \in DeliveredCounters)

(* What was delivered, as the numbers of the payloads in their order.      *)
DeliveredItems ==
  [i \in 1..Len(delivered) |->
     [number |-> delivered[i].counter - Origin + 1, payload |-> delivered[i].payload]]

Promise == INSTANCE Delivery WITH stream <- (kind = "ordered"), delivered <- DeliveredItems

(***************************************************************************)
(* The channel keeps its promise on any network: streams deliver exactly a *)
(* prefix of what was sealed, datagrams each payload at most once, and     *)
(* nothing that was not sealed in this context is delivered.               *)
(***************************************************************************)
KeepsPromise == Promise!Spec
=============================================================================
