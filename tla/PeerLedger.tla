------------------------------ MODULE PeerLedger ------------------------------
(***************************************************************************)
(* The budgets of the private peer routes, lib/private/peer-ledger.js:     *)
(* trees of ledgers in which a child is funded by a reservation of its     *)
(* parent, charges are final and reported to every ancestor, and released  *)
(* ledgers return what they did not spend; the memory pools, where a       *)
(* reservation that is taken becomes a pool to reserve from; and the       *)
(* branch-slot pool, whose branches each own root ledgers.                 *)
(*                                                                         *)
(* cells, bytes and commands are three copies of one account that every    *)
(* operation treats alike, and so are the four root ledgers of a branch:   *)
(* the model has one amount and one root.  A handle is the position of its *)
(* ledger in the sequence of all ledgers ever made.  A reservation of      *)
(* memory and the pool that is taken from it live and die together and are *)
(* one account, as is a pool made by createPeerMemoryPool().  Operations   *)
(* that call invalid() change nothing and are no steps.                    *)
(***************************************************************************)
EXTENDS Integers, Sequences, FiniteSets

CONSTANTS
  Amounts,      (* bound: the amounts that are asked for, a set of numbers   *)
  MaxLedgers,   (* bound: how many ledgers are ever made                     *)
  MaxHandles,   (* bound: how many ledgers and memory accounts are ever made *)
  MaxRows,      (* bound: the rows of one narrowPeerReservations             *)
  Capacity      (* capacity of the branch-slot pool                          *)

ASSUME LedgerAssumption ==
  /\ Amounts \subseteq Nat
  /\ {MaxLedgers, MaxHandles, MaxRows, Capacity} \subseteq Nat \ {0}

VARIABLES
  ledgers,      (* the ledger states, by handle                              *)
  memory,       (* the memory pools and reservations, by handle              *)
  live,         (* the roots of the live branches of the pool                *)
  deferred,     (* branches whose release waits for their native work        *)
  retired,      (* the roots of the retired branches                         *)
  retiredSpent,
  poolClosed,
  joined        (* history: branches released by their own owner             *)

slotVars == <<live, deferred, retired, retiredSpent, poolClosed, joined>>
vars == <<ledgers, memory, slotVars>>

Handles == DOMAIN ledgers
MemoryHandles == DOMAIN memory

(* above: the chain of parentState links, which never changes.             *)
NewLedger(parent, above, amount) ==
  [parent |-> parent, above |-> above, allocated |-> amount,
   spent |-> 0, direct |-> 0, reserved |-> 0, released |-> FALSE]

NoParent == 0

Live(h) == ~ledgers[h].released

(* The children set: a child leaves it when it is released.                *)
Children(h) == {k \in Handles : ledgers[k].parent = h /\ Live(k)}

(* in: the pool a reservation is made from.  A pool of its own is taken.   *)
NewMemory(in, above, capacity, taken) ==
  [in |-> in, above |-> above, capacity |-> capacity, reservedBytes |-> 0,
   takenBytes |-> 0, taken |-> taken, released |-> FALSE]

(* The sum of f over the set S, its amounts counted unit by unit: amounts  *)
(* are numbers, cells, bytes or commands, and none is ever negative.       *)
Units(f, S) == UNION {{k} \X (1 .. f[k]) : k \in S}
Sum(f, S) == Cardinality(Units(f, S))

Init ==
  /\ ledgers = <<>> /\ memory = <<>>
  /\ live = {} /\ deferred = {} /\ retired = {} /\ retiredSpent = 0
  /\ poolClosed = FALSE /\ joined = {}

-----------------------------------------------------------------------------
HandlesLeft == Len(ledgers) + Len(memory) < MaxHandles
LedgersLeft == HandlesLeft /\ Len(ledgers) < MaxLedgers

(* createPeerLedger(): a root.                                             *)
CreatePeerLedger(amount) ==
  /\ LedgersLeft
  /\ ledgers' = Append(ledgers, NewLedger(NoParent, {}, amount))
  /\ UNCHANGED <<memory, slotVars>>

(* What a ledger may still charge or reserve.                              *)
Remaining(h) == ledgers[h].allocated - ledgers[h].spent - ledgers[h].reserved

(* reservePeerLedger(): a child funded by the parent.                      *)
ReservePeerLedger(h, amount) ==
  /\ LedgersLeft
  /\ Live(h) /\ amount <= Remaining(h)
  /\ ledgers' = Append([ledgers EXCEPT ![h].reserved = @ + amount],
                       NewLedger(h, ledgers[h].above \cup {h}, amount))
  /\ UNCHANGED <<memory, slotVars>>

(* Mutant: only the parent hears of a charge, not the whole chain.         *)
ChargedAncestorsParent(h) == ledgers[h].above \cap {ledgers[h].parent}

(* The ledgers the loop of chargePeerLedger() walks through.               *)
ChargedAncestors(h) == ledgers[h].above

(* chargePeerLedger(): every ancestor turns reserved into spent.           *)
ChargePeerLedger(h, amount) ==
  /\ Live(h) /\ amount <= Remaining(h)
  /\ ledgers' = [k \in Handles |->
       IF k = h
       THEN [ledgers[k] EXCEPT !.spent = @ + amount, !.direct = @ + amount]
       ELSE IF k \in ChargedAncestors(h)
       THEN [ledgers[k] EXCEPT !.spent = @ + amount, !.reserved = @ - amount]
       ELSE ledgers[k]]
  /\ UNCHANGED <<memory, slotVars>>

(* What a released ledger gives back to its parent.                        *)
Unspent == [h \in Handles |-> ledgers[h].allocated - ledgers[h].spent]

(* Mutant: the ledgers below a released one stay live.                     *)
ReleasedWithAlone(h) == {h}

(* releasePeerLedger() calls itself for every child first.                 *)
ReleasedWith(h) == {k \in Handles : Live(k) /\ (k = h \/ h \in ledgers[k].above)}

(* The ledgers after the ledgers of gone were released, each returning to  *)
(* its parent what it did not spend.                                       *)
Release(gone) ==
  [k \in Handles |->
     [ledgers[k] EXCEPT
        !.released = @ \/ k \in gone,
        !.reserved = @ - Sum(Unspent, {c \in gone : ledgers[c].parent = k})]]

(* releasePeerLedger().                                                    *)
ReleasePeerLedger(h) ==
  /\ Live(h)
  /\ ledgers' = Release(ReleasedWith(h))
  /\ UNCHANGED <<memory, slotVars>>

-----------------------------------------------------------------------------
MemoryLive(h) == ~memory[h].released

(* The reservations made from pool h that were not released.               *)
Reservations(h) == {k \in MemoryHandles : memory[k].in = h /\ MemoryLive(k)}

LiveReservations == {h \in MemoryHandles : memory[h].in # NoParent /\ MemoryLive(h)}

Bytes(reservations) == Sum([k \in MemoryHandles |-> memory[k].capacity], reservations)

(* createPeerMemoryPool().                                                 *)
CreatePeerMemoryPool(capacity) ==
  /\ HandlesLeft
  /\ memory' = Append(memory, NewMemory(NoParent, {}, capacity, TRUE))
  /\ UNCHANGED <<ledgers, slotVars>>

(* reservePeerMemory().                                                    *)
ReservePeerMemory(h, capacity) ==
  /\ HandlesLeft
  /\ MemoryLive(h) /\ memory[h].taken
  /\ capacity <= memory[h].capacity - memory[h].reservedBytes
  /\ memory' = Append([memory EXCEPT ![h].reservedBytes = @ + capacity],
                      NewMemory(h, memory[h].above \cup {h}, capacity, FALSE))
  /\ UNCHANGED <<ledgers, slotVars>>

(* takePeerMemory(): the reservation becomes a pool.                       *)
TakePeerMemory(h) ==
  /\ h \in LiveReservations /\ ~memory[h].taken
  /\ memory' = [memory EXCEPT ![h].taken = TRUE,
                              ![memory[h].in].takenBytes = @ + memory[h].capacity]
  /\ UNCHANGED <<ledgers, slotVars>>

(* releasePeerMemory() of a pool or of a reservation: everything below it  *)
(* goes first, and the pool above gets the bytes back.                     *)
ReleasePeerMemory(h) ==
  LET gone == {k \in MemoryHandles : MemoryLive(k) /\ (k = h \/ h \in memory[k].above)}
  IN /\ MemoryLive(h)
     /\ memory' = [k \in MemoryHandles |->
          [memory[k] EXCEPT
             !.released = @ \/ k \in gone,
             !.reservedBytes = @ - Bytes({r \in gone : memory[r].in = k}),
             !.takenBytes = @ - Bytes({r \in gone : memory[r].in = k /\ memory[r].taken})]]
     /\ UNCHANGED <<ledgers, slotVars>>

-----------------------------------------------------------------------------
(* Returned to h by the rows of a narrowing plan: returnedToParent.        *)
Returned(plan, h) ==
  Sum([k \in DOMAIN plan |-> ledgers[k].allocated - plan[k]],
      {k \in DOMAIN plan : ledgers[k].parent = h})

(* Mutant: a row is only compared with what was allocated before.          *)
NarrowableUnchecked(plan) == \A h \in DOMAIN plan : plan[h] <= ledgers[h].allocated

(* The tests narrowPeerReservations() makes of all rows before it writes.  *)
Narrowable(plan) ==
  \A h \in DOMAIN plan :
    /\ Live(h)
    /\ plan[h] <= ledgers[h].allocated
    /\ plan[h] >= ledgers[h].spent + ledgers[h].reserved - Returned(plan, h)

(* Its tests of the memory rows: only what was not taken may shrink.       *)
NarrowableMemory(plan) ==
  \A h \in DOMAIN plan :
    /\ plan[h] <= memory[h].capacity
    /\ memory[h].taken => plan[h] = memory[h].capacity

(* narrowPeerReservations(): ledger and memory rows, published together.   *)
NarrowPeerReservations ==
  \E rows \in SUBSET {h \in Handles : Live(h)}, mrows \in SUBSET LiveReservations :
    /\ Cardinality(rows) + Cardinality(mrows) \in 1..MaxRows
    /\ \E plan \in [rows -> Amounts], mplan \in [mrows -> Amounts] :
         /\ Narrowable(plan) /\ NarrowableMemory(mplan)
         /\ ledgers' = [k \in Handles |->
              [ledgers[k] EXCEPT !.allocated = IF k \in rows THEN plan[k] ELSE @,
                                 !.reserved = @ - Returned(plan, k)]]
         /\ memory' = [k \in MemoryHandles |->
              [memory[k] EXCEPT
                 !.capacity = IF k \in mrows THEN mplan[k] ELSE @,
                 !.reservedBytes = @ - Sum([r \in mrows |-> memory[r].capacity - mplan[r]],
                                           {r \in mrows : memory[r].in = k})]]
    /\ UNCHANGED slotVars

-----------------------------------------------------------------------------
(* takePeerBranchAuthority(): a slot together with a fresh root.           *)
TakePeerBranchAuthority(amount) ==
  /\ LedgersLeft
  /\ ~poolClosed /\ Cardinality(live) < Capacity
  /\ ledgers' = Append(ledgers, NewLedger(NoParent, {}, amount))
  /\ live' = live \cup {Len(ledgers) + 1}
  /\ UNCHANGED <<memory, deferred, retired, retiredSpent, poolClosed, joined>>

(* deferPeerBranchAuthorityJoin().                                         *)
DeferPeerBranchAuthorityJoin(b) ==
  /\ b \in live \ deferred
  /\ deferred' = deferred \cup {b}
  /\ UNCHANGED <<ledgers, memory, live, retired, retiredSpent, poolClosed, joined>>

Spent == [h \in Handles |-> ledgers[h].spent]

(* What retiring branches add to the pool's totals.                        *)
EvidenceOf(branches) == Sum(Spent, branches)

(* releasePeerBranchAuthority() of every branch of a set.                  *)
Retire(branches) ==
  /\ retiredSpent' = retiredSpent + EvidenceOf(branches)
  /\ ledgers' = Release(UNION {ReleasedWith(b) : b \in branches})
  /\ live' = live \ branches
  /\ retired' = retired \cup branches
  /\ UNCHANGED <<memory, deferred>>

(* releasePeerBranchAuthority(), called by the owner of the branch: at the *)
(* join barrier if the branch is deferred.                                 *)
ReleasePeerBranchAuthority(b) ==
  /\ b \in live
  /\ Retire({b})
  /\ joined' = joined \cup {b}
  /\ UNCHANGED poolClosed

(* Mutant: closing revokes the deferred branches too.                      *)
ClosableAll == live

(* closePeerBranchSlots() passes over the deferred branches.               *)
Closable == live \ deferred

ClosePeerBranchSlots ==
  /\ ~poolClosed
  /\ poolClosed' = TRUE
  /\ Retire(Closable)
  /\ UNCHANGED joined

Next ==
  \/ \E a \in Amounts : CreatePeerLedger(a) \/ TakePeerBranchAuthority(a)
  \/ \E h \in Handles : \/ \E a \in Amounts : ReservePeerLedger(h, a) \/ ChargePeerLedger(h, a)
                        \/ ReleasePeerLedger(h)
  \/ \E a \in Amounts : CreatePeerMemoryPool(a)
  \/ \E h \in MemoryHandles : \/ \E a \in Amounts : ReservePeerMemory(h, a)
                              \/ TakePeerMemory(h) \/ ReleasePeerMemory(h)
  \/ NarrowPeerReservations
  \/ \E b \in live : DeferPeerBranchAuthorityJoin(b) \/ ReleasePeerBranchAuthority(b)
  \/ ClosePeerBranchSlots

Spec == Init /\ [][Next]_vars

-----------------------------------------------------------------------------
(* Type invariant: the accounts are numbers and the links go to handles.   *)
TypeOK ==
  /\ ledgers \in Seq([parent : Nat, above : SUBSET Handles, allocated : Nat, spent : Nat,
                      direct : Nat, reserved : Nat, released : BOOLEAN])
  /\ memory \in Seq([in : Nat, above : SUBSET MemoryHandles, capacity : Nat, reservedBytes : Nat,
                     takenBytes : Nat, taken : BOOLEAN, released : BOOLEAN])
  /\ live \subseteq Handles /\ retired \subseteq Handles /\ deferred \subseteq live \cup retired
  /\ retiredSpent \in Nat /\ poolClosed \in BOOLEAN /\ joined \subseteq retired

(***************************************************************************)
(* Nothing is ever overdrawn: what was spent below a ledger and what its   *)
(* children still may spend fit its allocation, and what was reserved from *)
(* a memory pool fits its capacity, through any sequence of reservations,  *)
(* charges, takes, releases and narrowings.                                *)
(***************************************************************************)
Solvent ==
  /\ \A h \in Handles : ledgers[h].spent + ledgers[h].reserved <= ledgers[h].allocated
  /\ \A h \in MemoryHandles : memory[h].reservedBytes <= memory[h].capacity

(***************************************************************************)
(* The books balance: a ledger's reservation is exactly what its live      *)
(* children have not spent, what it reports as spent is exactly what was   *)
(* charged to it and, for ever, to any ledger below it; a memory pool's    *)
(* bytes are exactly its reservations, the taken ones apart; and nothing   *)
(* live is left below what was released.                                   *)
(***************************************************************************)
Balanced ==
  /\ \A h \in Handles :
       /\ ledgers[h].reserved = Sum(Unspent, Children(h))
       /\ ledgers[h].spent =
            ledgers[h].direct
            + Sum([k \in Handles |-> ledgers[k].direct], {k \in Handles : h \in ledgers[k].above})
       /\ Live(h) => \A k \in ledgers[h].above : Live(k)
  /\ \A h \in MemoryHandles :
       /\ memory[h].reservedBytes = Bytes(Reservations(h))
       /\ memory[h].takenBytes = Bytes({k \in Reservations(h) : memory[k].taken})
       /\ MemoryLive(h) => \A k \in memory[h].above : MemoryLive(k)

(***************************************************************************)
(* Spending is final: no operation lowers what a ledger spent, and nothing *)
(* is charged to or reserved from a ledger after its release.              *)
(***************************************************************************)
SpendingIsFinal ==
  [][\A h \in Handles :
       /\ ledgers'[h].spent >= ledgers[h].spent
       /\ ledgers[h].released =>
            /\ ledgers'[h].released
            /\ ledgers'[h].spent = ledgers[h].spent
            /\ ledgers'[h].reserved = ledgers[h].reserved]_vars

(***************************************************************************)
(* The pool: never more live branches than slots, and the totals of the    *)
(* retired branches are what they spent.  A deferred branch keeps its slot *)
(* until its own owner releases it, at the join barrier: once the pool is  *)
(* closed the live branches are exactly the deferred ones that have not    *)
(* joined.                                                                 *)
(***************************************************************************)
SlotsAccounted ==
  /\ Cardinality(live) <= Capacity
  /\ retiredSpent = Sum(Spent, retired)
  /\ deferred \ joined \subseteq live
  /\ poolClosed => live = deferred \ joined

=============================================================================
