---------------------------- MODULE PeerLedgerProofs ----------------------------
(***************************************************************************)
(* Proofs about PeerLedger, for any amounts, any number of ledgers, memory *)
(* accounts and rows and any capacity: TypeOK, Solvent, Balanced,          *)
(* SlotsAccounted and the action property SpendingIsFinal.                 *)
(*                                                                         *)
(* The books are sums over the children of a ledger, so the module begins  *)
(* with what a sum does when one of its amounts changes, when it gains or  *)
(* loses elements and when all its amounts shrink.  A sum counts the units *)
(* of its amounts, so these are facts about the cardinality of sets.       *)
(*                                                                         *)
(* Two arguments are inductions along the tree, made as a proof by a least *)
(* or a greatest counterexample, since handles are numbers and a parent is *)
(* older than its children: that a live ledger's allowance is part of the  *)
(* reservation of everything above it (Funded), which is why a charge can  *)
(* be paid at every level; and that no row of a narrowing falls below what *)
(* it spent (RowsCover), which narrowPeerReservations() never tests itself *)
(* but only for what the row and its own children hold.                    *)
(*                                                                         *)
(* Solvent and Balanced together are nearly inductive for the ledgers;     *)
(* what they need is the shape of the links (Tree), where a path to the    *)
(* root passes through exactly one child of each ledger on it.  Memory     *)
(* needs that only a taken reservation can be reserved from (Stores), or a *)
(* narrowing could shrink one below what it holds.  The totals of the pool *)
(* stay because the root of a retired branch is released (Slots) and what  *)
(* is released is never charged (Final).                                   *)
(***************************************************************************)
EXTENDS PeerLedger, FiniteSetTheorems, WellFoundedInduction, TLAPS

\* -------------------------------------------------------- least and greatest

\* The order of the numbers, as a well-founded relation.
LEMMA Less == \E R : IsWellFoundedOn(R, Nat) /\ \A i, j \in Nat : <<i, j>> \in R <=> i < j
  <1>1. IsWellFoundedOn(OpToRel(<, Nat), Nat)
    BY NatLessThanWellFounded
  <1>2. \A i, j \in Nat : <<i, j>> \in OpToRel(<, Nat) <=> i < j
    BY DEF OpToRel
  <1> QED BY <1>1, <1>2, Zenon

\* A set of numbers that is not empty has a least element.
LEMMA Least ==
  ASSUME NEW B \in SUBSET Nat, B # {}
  PROVE  \E x \in B : \A y \in B : x <= y
  <1>1. PICK R : IsWellFoundedOn(R, Nat) /\ \A i, j \in Nat : <<i, j>> \in R <=> i < j
    BY Less
  <1>2. B \subseteq Nat
    OBVIOUS
  <1>3. PICK x \in B : \A y \in B : ~ (<<y, x>> \in R)
    <2>1. IsWellFoundedOn(R, Nat) /\ B # {}
      BY <1>1
    <2>2. \A T : T \subseteq Nat /\ T # {} => \E x \in T : \A y \in T : ~ (<<y, x>> \in R)
      BY <2>1, WFMin
    <2> QED BY <1>2, <2>1, <2>2
  <1>4. \A y \in B : ~ (y < x)
    BY <1>1, <1>2, <1>3
  <1> QED BY <1>2, <1>4

\* A bounded set of numbers that is not empty has a greatest element.
LEMMA Greatest ==
  ASSUME NEW n \in Nat, NEW B \in SUBSET (1 .. n), B # {}
  PROVE  \E x \in B : \A y \in B : y <= x
  <1> DEFINE C == {m \in Nat : \A y \in B : y <= m}
  <1>1. n \in C /\ C \in SUBSET Nat
    OBVIOUS
  <1>2. PICK m \in C : \A k \in C : m <= k
    BY <1>1, Least
  <1>3. m \in B
    <2>1. SUFFICES ASSUME m \notin B PROVE FALSE
      OBVIOUS
    <2>2. \A y \in B : y <= m /\ y # m /\ y \in Nat /\ y >= 1
      BY <2>1
    <2>6. PICK b \in B : TRUE
      OBVIOUS
    <2>5. m >= 1 /\ m \in Nat
      BY <2>2, <2>6
    <2>3. m - 1 \in Nat /\ \A y \in B : y <= m - 1
      BY <2>2, <2>5
    <2>4. m - 1 \in C
      BY <2>3
    <2> QED BY <1>2, <2>4
  <1> QED BY <1>3

\* ------------------------------------------------------------------- sums

\* The units a sum counts: each amount of an element, one by one.
LEMMA Pair == ASSUME NEW f, NEW S, NEW u PROVE u \in Units(f, S) <=> \E k \in S : \E i \in 1 .. f[k] : u = <<k, i>>
  BY DEF Units

\* As many numbers from one to n as n says.
LEMMA Count == ASSUME NEW n \in Nat PROVE IsFiniteSet(1 .. n) /\ Cardinality(1 .. n) = n
  <1>1. 1 \in Int /\ n \in Int
    OBVIOUS
  <1>2. IsFiniteSet(1 .. n) /\ Cardinality(1 .. n) = IF 1 > n THEN 0 ELSE n - 1 + 1
    BY <1>1, FS_Interval
  <1> QED BY <1>2

\* Two finite sets with nothing in common have as many elements as both.
LEMMA Apart ==
  ASSUME NEW S, IsFiniteSet(S), NEW T, IsFiniteSet(T), S \cap T = {}
  PROVE  /\ IsFiniteSet(S \cup T) /\ Cardinality(S \cup T) = Cardinality(S) + Cardinality(T)
  <1>1. /\ IsFiniteSet(S \cup T)
        /\ Cardinality(S \cup T) = Cardinality(S) + Cardinality(T) - Cardinality(S \cap T)
    BY FS_Union
  <1>2. Cardinality(S \cap T) = 0
    BY FS_EmptySet
  <1>3. Cardinality(S) \in Nat /\ Cardinality(T) \in Nat
    BY FS_CardinalityType
  <1> QED BY <1>1, <1>2, <1>3

\* A sum over a finite set is a number.
LEMMA UnitsFinite ==
  ASSUME NEW S, IsFiniteSet(S), NEW f, \A k \in S : f[k] \in Nat
  PROVE  IsFiniteSet(Units(f, S)) /\ Sum(f, S) \in Nat
  <1> DEFINE rows == {{k} \X (1 .. f[k]) : k \in S}
             g == [k \in S |-> {k} \X (1 .. f[k])]
  <1>1. g \in Surjection(S, rows)
    BY DEF Surjection
  <1>2. IsFiniteSet(rows)
    BY <1>1, FS_Surjection
  <1>3. \A T \in rows : IsFiniteSet(T)
    <2> SUFFICES ASSUME NEW k \in S PROVE IsFiniteSet({k} \X (1 .. f[k]))
      OBVIOUS
    <2>1. IsFiniteSet(1 .. f[k]) /\ IsFiniteSet({k})
      BY Count, FS_Singleton
    <2> QED BY <2>1, FS_Product
  <1>4. IsFiniteSet(UNION rows)
    BY <1>2, <1>3, FS_UNION
  <1> QED BY <1>4, FS_CardinalityType DEF Units, Sum

\* Nothing adds up to zero.
LEMMA SumEmpty == \A f : Sum(f, {}) = 0
  <1>1. \A f : Units(f, {}) = {}
    BY DEF Units
  <1> QED BY <1>1, FS_EmptySet DEF Sum

\* A sum with one amount is that amount.
LEMMA SumOne ==
  ASSUME NEW f, NEW k, f[k] \in Nat
  PROVE  Sum(f, {k}) = f[k]
  <1>1. Units(f, {k}) = {k} \X (1 .. f[k])
    BY DEF Units
  <1>2. IsFiniteSet(1 .. f[k]) /\ Cardinality(1 .. f[k]) = f[k] /\ IsFiniteSet({k}) /\ Cardinality({k}) = 1
    BY Count, FS_Singleton
  <1>3. Cardinality({k} \X (1 .. f[k])) = Cardinality({k}) * Cardinality(1 .. f[k])
    BY <1>2, FS_Product
  <1>4. Cardinality({k} \X (1 .. f[k])) = f[k]
    BY <1>2, <1>3
  <1> QED BY <1>1, <1>4 DEF Sum

\* The sum over two sets with nothing in common.
LEMMA SumUnion ==
  ASSUME NEW S, IsFiniteSet(S), NEW T, IsFiniteSet(T), S \cap T = {}, NEW f, \A k \in S \cup T : f[k] \in Nat
  PROVE  Sum(f, S \cup T) = Sum(f, S) + Sum(f, T)
  <1>1. Units(f, S \cup T) = Units(f, S) \cup Units(f, T)
    BY DEF Units
  <1>2. Units(f, S) \cap Units(f, T) = {}
    BY Pair
  <1>3. /\ IsFiniteSet(Units(f, S)) /\ IsFiniteSet(Units(f, T))
        /\ Cardinality(Units(f, S)) \in Nat /\ Cardinality(Units(f, T)) \in Nat
    BY UnitsFinite DEF Sum
  <1> QED BY <1>1, <1>2, <1>3, Apart DEF Sum

\* A sum depends on the amounts of its elements alone.
LEMMA SumSame ==
  ASSUME NEW S, NEW f, NEW g, \A k \in S : f[k] = g[k]
  PROVE  Sum(f, S) = Sum(g, S)
  <1>1. Units(f, S) = Units(g, S)
    BY DEF Units
  <1> QED BY <1>1 DEF Sum

\* The sum of sums: the units of the second amounts are moved behind those of the
\* first, element by element.
LEMMA SumPlus ==
  ASSUME NEW S, IsFiniteSet(S), NEW f, NEW g, NEW h,
         \A k \in S : f[k] \in Nat /\ g[k] \in Nat /\ h[k] = f[k] + g[k]
  PROVE  Sum(h, S) = Sum(f, S) + Sum(g, S)
  <1> DEFINE V == {u \in Units(h, S) : u[2] > f[u[1]]}
  <1>0. \A x, k, i : x = <<k, i>> => x[1] = k /\ x[2] = i
    OBVIOUS
  <1>1. Units(h, S) = Units(f, S) \cup V
    <2>1. ASSUME NEW u \in Units(f, S) PROVE u \in Units(h, S)
      <3>1. PICK k \in S : \E i \in 1 .. f[k] : u = <<k, i>>
        BY Pair
      <3>2. PICK i \in 1 .. f[k] : u = <<k, i>>
        BY <3>1
      <3>3. i \in 1 .. h[k]
        OBVIOUS
      <3> QED BY <3>2, <3>3, Pair
    <2>2. ASSUME NEW u \in Units(h, S), u \notin V PROVE u \in Units(f, S)
      <3>1. PICK k \in S : \E i \in 1 .. h[k] : u = <<k, i>>
        BY Pair
      <3>2. PICK i \in 1 .. h[k] : u = <<k, i>>
        BY <3>1
      <3>3. i \in 1 .. f[k]
        BY <2>2, <3>2
      <3> QED BY <3>2, <3>3, Pair
    <2> QED BY <2>1, <2>2
  <1>2. Units(f, S) \cap V = {}
    <2> SUFFICES ASSUME NEW u \in Units(f, S), u \in V PROVE FALSE
      OBVIOUS
    <2>1. PICK k \in S : \E i \in 1 .. f[k] : u = <<k, i>>
      BY Pair
    <2> QED BY <2>1
  <1> DEFINE b == [u \in Units(g, S) |-> <<u[1], f[u[1]] + u[2]>>]
  <1>3. ASSUME NEW u \in Units(g, S)
        PROVE  \E k \in S : \E i \in 1 .. g[k] : u = <<k, i>> /\ b[u] = <<k, f[k] + i>>
    BY Pair
  <1>4. ASSUME NEW u \in Units(g, S) PROVE b[u] \in V
    <2>1. PICK k \in S : \E i \in 1 .. g[k] : u = <<k, i>> /\ b[u] = <<k, f[k] + i>>
      BY <1>3
    <2>2. PICK i \in 1 .. g[k] : u = <<k, i>> /\ b[u] = <<k, f[k] + i>>
      BY <2>1
    <2>3. f[k] + i \in 1 .. h[k] /\ f[k] + i > f[k]
      OBVIOUS
    <2> HIDE DEF b
    <2>4. b[u] \in Units(h, S)
      BY <2>2, <2>3, Pair
    <2> QED BY <2>2, <2>3, <2>4
  <1>5. ASSUME NEW u \in Units(g, S), NEW v \in Units(g, S), b[u] = b[v] PROVE u = v
    <2>1. PICK k \in S : \E i \in 1 .. g[k] : u = <<k, i>> /\ b[u] = <<k, f[k] + i>>
      BY <1>3
    <2>2. PICK i \in 1 .. g[k] : u = <<k, i>> /\ b[u] = <<k, f[k] + i>>
      BY <2>1
    <2>3. PICK l \in S : \E j \in 1 .. g[l] : v = <<l, j>> /\ b[v] = <<l, f[l] + j>>
      BY <1>3
    <2>4. PICK j \in 1 .. g[l] : v = <<l, j>> /\ b[v] = <<l, f[l] + j>>
      BY <2>3
    <2> HIDE DEF b
    <2>5. k = l /\ f[k] + i = f[l] + j
      BY <1>5, <2>2, <2>4
    <2>6. i = j
      BY <2>5
    <2> QED BY <2>2, <2>4, <2>5, <2>6
  <1>6. ASSUME NEW v \in V PROVE \E u \in Units(g, S) : b[u] = v
    <2>1. PICK k \in S : \E i \in 1 .. h[k] : v = <<k, i>>
      BY Pair
    <2>2. PICK i \in 1 .. h[k] : v = <<k, i>>
      BY <2>1
    <2>3. i - f[k] \in 1 .. g[k] /\ f[k] + (i - f[k]) = i
      BY <2>2
    <2>4. <<k, i - f[k]>> \in Units(g, S)
      BY <2>3, Pair
    <2>5. b[<<k, i - f[k]>>] = <<k, f[k] + (i - f[k])>>
      BY <2>4
    <2> QED BY <2>2, <2>3, <2>4, <2>5
  <1>7. b \in Bijection(Units(g, S), V)
    <2>1. b \in [Units(g, S) -> V]
      BY <1>4
    <2> HIDE DEF b, V
    <2> QED BY <1>5, <1>6, <2>1 DEF Bijection, Injection, Surjection, IsInjective
  <1>8. IsFiniteSet(Units(f, S)) /\ IsFiniteSet(Units(g, S)) /\ Sum(f, S) \in Nat /\ Sum(g, S) \in Nat
    BY UnitsFinite
  <1> HIDE DEF b, V
  <1>9. IsFiniteSet(V) /\ Cardinality(V) = Sum(g, S)
    BY <1>7, <1>8, FS_Bijection DEF ExistsBijection, Sum
  <1> QED BY <1>1, <1>2, <1>8, <1>9, Apart DEF Sum

\* A part of a sum, and the rest of it.
LEMMA SumPart ==
  ASSUME NEW S, IsFiniteSet(S), NEW T \in SUBSET S, NEW f, \A k \in S : f[k] \in Nat
  PROVE  Sum(f, T) <= Sum(f, S) /\ Sum(f, S \ T) = Sum(f, S) - Sum(f, T)
  <1>1. IsFiniteSet(T) /\ IsFiniteSet(S \ T)
    BY FS_Subset
  <1>2. T \cap (S \ T) = {} /\ T \cup (S \ T) = S
    OBVIOUS
  <1>3. \A k \in T \cup (S \ T) : f[k] \in Nat
    OBVIOUS
  <1>4. Sum(f, T \cup (S \ T)) = Sum(f, T) + Sum(f, S \ T)
    BY <1>1, <1>2, <1>3, SumUnion
  <1>5. Sum(f, T) \in Nat /\ Sum(f, S \ T) \in Nat
    BY <1>1, UnitsFinite
  <1>6. Sum(f, S) = Sum(f, T) + Sum(f, S \ T)
    BY <1>2, <1>4, Zenon
  <1> QED BY <1>5, <1>6

\* One of the amounts of a sum, and the others.
LEMMA SumRest ==
  ASSUME NEW S, IsFiniteSet(S), NEW k \in S, NEW f, \A i \in S : f[i] \in Nat
  PROVE  Sum(f, S) = f[k] + Sum(f, S \ {k}) /\ f[k] <= Sum(f, S) /\ Sum(f, S \ {k}) \in Nat
  <1>1. Sum(f, {k}) = f[k]
    BY SumOne
  <1>2. Sum(f, {k}) <= Sum(f, S) /\ Sum(f, S \ {k}) = Sum(f, S) - Sum(f, {k})
    BY SumPart
  <1>3. Sum(f, S) \in Nat
    BY UnitsFinite
  <1>4. IsFiniteSet(S \ {k})
    BY FS_Subset
  <1>5. Sum(f, S \ {k}) \in Nat
    BY <1>4, UnitsFinite
  <1> QED BY <1>1, <1>2, <1>3, <1>5

\* One amount of a sum changes.
LEMMA SumChange ==
  ASSUME NEW S, IsFiniteSet(S), NEW k \in S, NEW f, NEW g, \A i \in S : f[i] \in Nat /\ g[i] \in Nat,
         \A i \in S \ {k} : g[i] = f[i]
  PROVE  Sum(g, S) = Sum(f, S) - f[k] + g[k]
  <1>1. Sum(f, S \ {k}) = Sum(g, S \ {k})
    BY SumSame
  <1>2. /\ Sum(f, S) = f[k] + Sum(f, S \ {k}) /\ Sum(f, S \ {k}) \in Nat
        /\ Sum(g, S) = g[k] + Sum(g, S \ {k})
    BY SumRest
  <1>3. f[k] \in Nat /\ g[k] \in Nat
    OBVIOUS
  <1> QED BY <1>1, <1>2, <1>3

\* A sum that gains an element.
LEMMA SumAdd ==
  ASSUME NEW S, IsFiniteSet(S), NEW k, k \notin S, NEW f, \A i \in S \cup {k} : f[i] \in Nat
  PROVE  Sum(f, S \cup {k}) = Sum(f, S) + f[k]
  <1>1. IsFiniteSet({k}) /\ S \cap {k} = {}
    BY FS_Singleton
  <1>2. Sum(f, S \cup {k}) = Sum(f, S) + Sum(f, {k})
    BY <1>1, SumUnion
  <1>3. Sum(f, {k}) = f[k]
    BY SumOne
  <1> QED BY <1>2, <1>3

\* Every amount of a sum shrinks.
LEMMA SumMinus ==
  ASSUME NEW S, IsFiniteSet(S), NEW f, NEW d, NEW g,
         \A k \in S : f[k] \in Nat /\ d[k] \in Nat /\ g[k] \in Nat /\ g[k] = f[k] - d[k]
  PROVE  Sum(g, S) = Sum(f, S) - Sum(d, S)
  <1>1. \A k \in S : g[k] \in Nat /\ d[k] \in Nat /\ f[k] = g[k] + d[k]
    OBVIOUS
  <1>2. Sum(f, S) = Sum(g, S) + Sum(d, S)
    BY <1>1, SumPlus
  <1>3. Sum(g, S) \in Nat /\ Sum(d, S) \in Nat
    BY UnitsFinite
  <1> QED BY <1>2, <1>3

\* A sum of smaller amounts is smaller.
LEMMA SumLeq ==
  ASSUME NEW S, IsFiniteSet(S), NEW f, NEW d, \A k \in S : f[k] \in Nat /\ d[k] \in Nat /\ d[k] <= f[k]
  PROVE  Sum(d, S) <= Sum(f, S)
  <1> DEFINE g == [k \in S |-> f[k] - d[k]]
  <1>1. \A k \in S : g[k] \in Nat /\ g[k] = f[k] - d[k]
    OBVIOUS
  <1> HIDE DEF g
  <1>2. Sum(g, S) = Sum(f, S) - Sum(d, S)
    BY <1>1, SumMinus
  <1>3. Sum(f, S) \in Nat /\ Sum(d, S) \in Nat /\ Sum(g, S) \in Nat
    BY <1>1, UnitsFinite
  <1> QED BY <1>2, <1>3

\* ------------------------------------------------------------- the ledgers

Ledger == [parent : Nat, above : SUBSET Nat, allocated : Nat, spent : Nat, direct : Nat, reserved : Nat,
           released : BOOLEAN]

\* The handle of a ledger and the ledgers above it, up to its root.
Path(L, k) == L[k].above \cup {k}

\* The links are those of a forest: a parent is older than its children, what is
\* above a ledger is its parent and what is above that, and a path to the root
\* passes through one child of each ledger on it.
Tree(L) ==
    \A k \in DOMAIN L :
        /\ L[k].above \subseteq 1 .. (k - 1)
        /\ \/ L[k].parent = 0 /\ L[k].above = {}
           \/ L[k].parent \in L[k].above
        /\ \A a \in L[k].above : L[a].above \subseteq L[k].above
        /\ \A a \in L[k].above : \E i \in Path(L, k) : L[i].parent = a
        /\ \A i, j \in Path(L, k) : L[i].parent = L[j].parent => i = j

Kids(L, h) == {k \in DOMAIN L : L[k].parent = h /\ ~ L[k].released}
Below(L, h) == {k \in DOMAIN L : h \in L[k].above}
Rest(L) == [k \in DOMAIN L |-> L[k].allocated - L[k].spent]
Direct(L) == [k \in DOMAIN L |-> L[k].direct]

\* What Solvent and Balanced say of the ledgers.
Books(L) ==
    \A h \in DOMAIN L :
        /\ L[h].spent + L[h].reserved <= L[h].allocated
        /\ L[h].reserved = Sum(Rest(L), Kids(L, h))
        /\ L[h].spent = L[h].direct + Sum(Direct(L), Below(L, h))
        /\ ~ L[h].released => \A k \in L[h].above : ~ L[k].released

Good(L) == L \in Seq(Ledger) /\ Tree(L) /\ Books(L)

\* The handles of a sequence are finitely many numbers.
LEMMA Domains ==
  ASSUME NEW R, NEW L \in Seq(R)
  PROVE  /\ DOMAIN L = 1 .. Len(L) /\ Len(L) \in Nat /\ IsFiniteSet(DOMAIN L)
         /\ \A k \in DOMAIN L : L[k] \in R /\ k \in Nat
         /\ \A S \in SUBSET DOMAIN L : IsFiniteSet(S)
  <1>1. DOMAIN L = 1 .. Len(L) /\ Len(L) \in Nat /\ \A k \in DOMAIN L : L[k] \in R /\ k \in Nat
    OBVIOUS
  <1>2. IsFiniteSet(1 .. Len(L))
    BY <1>1, Count
  <1>3. IsFiniteSet(DOMAIN L)
    BY <1>1, <1>2
  <1> QED BY <1>1, <1>3, FS_Subset

\* A function on the handles of a sequence is a sequence.
LEMMA AsSequence ==
  ASSUME NEW R, NEW L \in Seq(R), NEW M, M = [k \in DOMAIN L |-> M[k]], \A k \in DOMAIN L : M[k] \in R
  PROVE  M \in Seq(R) /\ DOMAIN M = DOMAIN L
  <1>1. DOMAIN L = 1 .. Len(L) /\ Len(L) \in Nat
    BY Domains
  <1>2. M \in [1 .. Len(L) -> R]
    BY <1>1
  <1> QED BY <1>1, <1>2

\* The types of a ledger's fields.
LEMMA Fields ==
  ASSUME NEW l \in Ledger
  PROVE  /\ l.parent \in Nat /\ l.above \in SUBSET Nat /\ l.allocated \in Nat /\ l.spent \in Nat
         /\ l.direct \in Nat /\ l.reserved \in Nat /\ l.released \in BOOLEAN
  BY DEF Ledger

\* The sums of the books are over finite sets of numbers.
LEMMA Summable ==
  ASSUME NEW L, Good(L)
  PROVE  /\ DOMAIN L = 1 .. Len(L) /\ Len(L) \in Nat
         /\ \A k \in DOMAIN L : L[k] \in Ledger /\ Rest(L)[k] \in Nat /\ Direct(L)[k] \in Nat
         /\ \A k \in DOMAIN L : Rest(L)[k] = L[k].allocated - L[k].spent /\ Direct(L)[k] = L[k].direct
         /\ \A h : Kids(L, h) \subseteq DOMAIN L /\ IsFiniteSet(Kids(L, h))
         /\ \A h : Below(L, h) \subseteq DOMAIN L /\ IsFiniteSet(Below(L, h))
  <1>0. L \in Seq(Ledger)
    BY DEF Good
  <1>1. /\ DOMAIN L = 1 .. Len(L) /\ Len(L) \in Nat /\ \A k \in DOMAIN L : L[k] \in Ledger /\ k \in Nat
        /\ \A S \in SUBSET DOMAIN L : IsFiniteSet(S)
    BY <1>0, Domains
  <1>2. ASSUME NEW k \in DOMAIN L
        PROVE  Rest(L)[k] \in Nat /\ Rest(L)[k] = L[k].allocated - L[k].spent /\ Direct(L)[k] = L[k].direct /\ Direct(L)[k] \in Nat
    <2>1. Rest(L)[k] = L[k].allocated - L[k].spent /\ Direct(L)[k] = L[k].direct
      BY DEF Rest, Direct
    <2>2. L[k].allocated \in Nat /\ L[k].spent \in Nat /\ L[k].direct \in Nat /\ L[k].reserved \in Nat
      BY <1>1, Fields
    <2>3. L[k].spent + L[k].reserved <= L[k].allocated
      BY DEF Good, Books
    <2> QED BY <2>1, <2>2, <2>3
  <1>3. \A h : Kids(L, h) \in SUBSET DOMAIN L /\ Below(L, h) \in SUBSET DOMAIN L
    BY DEF Kids, Below
  <1> QED BY <1>1, <1>2, <1>3

\* A live ledger's allowance is reserved by everything above it: its rest is part
\* of its parent's reservation, that of the parent's rest, and so on to the root.
LEMMA Funded ==
  ASSUME NEW L, Good(L), NEW k \in DOMAIN L, ~ L[k].released
  PROVE  \A g \in L[k].above : Rest(L)[k] <= L[g].reserved
  <1> DEFINE B == {g \in L[k].above : ~ (Rest(L)[k] <= L[g].reserved)}
  <1>1. SUFFICES ASSUME B # {} PROVE FALSE
    OBVIOUS
  <1>2. /\ DOMAIN L = 1 .. Len(L) /\ Len(L) \in Nat
        /\ \A i \in DOMAIN L : L[i] \in Ledger /\ Rest(L)[i] \in Nat /\ Rest(L)[i] = L[i].allocated - L[i].spent
        /\ \A h : Kids(L, h) \subseteq DOMAIN L /\ IsFiniteSet(Kids(L, h))
    BY Summable
  <1>3. L[k].above \subseteq 1 .. (k - 1) /\ k \in Nat
    BY <1>2 DEF Good, Tree
  <1>4. B \in SUBSET (1 .. Len(L)) /\ L[k].above \subseteq DOMAIN L
    BY <1>2, <1>3
  <1>5. PICK g \in B : \A i \in B : i <= g
    BY <1>1, <1>2, <1>4, Greatest
  <1>6. PICK i \in Path(L, k) : L[i].parent = g
    BY <1>5 DEF Good, Tree
  <1>7. i \in DOMAIN L /\ ~ L[i].released /\ g \in DOMAIN L
    BY <1>4, <1>5, <1>6 DEF Path, Good, Books
  <1>8. i \in Kids(L, g)
    BY <1>6, <1>7 DEF Kids
  <1>9. Rest(L)[i] <= L[g].reserved
    <2>1. \A j \in Kids(L, g) : Rest(L)[j] \in Nat
      BY <1>2
    <2>2. Rest(L)[i] <= Sum(Rest(L), Kids(L, g))
      BY <1>2, <1>8, <2>1, SumRest
    <2> QED BY <1>7, <2>2 DEF Good, Books
  <1>10. CASE i = k
    BY <1>5, <1>9, <1>10
  <1>11. CASE i \in L[k].above
    <2>1. g < i
      <3>1. L[i].above \subseteq 1 .. (i - 1) /\ (L[i].parent = 0 \/ L[i].parent \in L[i].above)
        BY <1>7 DEF Good, Tree
      <3> QED BY <1>2, <1>6, <1>7, <3>1
    <2>2. i \notin B
      BY <1>2, <1>5, <1>7, <2>1
    <2>3. Rest(L)[k] <= L[i].reserved
      BY <1>11, <2>2
    <2>4. L[i].reserved <= Rest(L)[i]
      <3>1. L[i].spent + L[i].reserved <= L[i].allocated
        BY <1>7 DEF Good, Books
      <3>2. L[i].allocated \in Nat /\ L[i].spent \in Nat /\ L[i].reserved \in Nat /\ Rest(L)[i] = L[i].allocated - L[i].spent
        BY <1>2, <1>7, Fields
      <3> QED BY <3>1, <3>2
    <2>5. /\ Rest(L)[k] \in Nat /\ Rest(L)[i] \in Nat /\ L[i].reserved \in Nat /\ L[g].reserved \in Nat
      BY <1>2, <1>7, Fields
    <2>6. Rest(L)[k] <= L[g].reserved
      BY <1>9, <2>3, <2>4, <2>5
    <2> QED BY <1>5, <2>6
  <1> QED BY <1>6, <1>10, <1>11 DEF Path

\* ------------------------------------------------- the operations, one by one

\* Steps that keep the links.
SameTree(L, M) ==
    /\ DOMAIN M = DOMAIN L
    /\ \A k \in DOMAIN L : M[k].parent = L[k].parent /\ M[k].above = L[k].above

\* Such a step keeps the shape of the tree.
LEMMA TreeKept == ASSUME NEW L, NEW M, Tree(L), SameTree(L, M), \A k \in DOMAIN L : L[k].above \subseteq DOMAIN L PROVE Tree(M)
  BY DEF Tree, SameTree, Path

\* The links lead to older handles.
LEMMA AboveInDomain ==
  ASSUME NEW L, Good(L)
  PROVE  /\ \A k \in DOMAIN L : L[k].above \subseteq DOMAIN L /\ k \notin L[k].above /\ Path(L, k) \subseteq DOMAIN L
         /\ \A k \in DOMAIN L : L[k].parent # 0 => L[k].parent \in DOMAIN L /\ L[k].parent < k
         /\ 0 \notin DOMAIN L
  BY Summable DEF Good, Tree, Path

\* A ledger n is appended that takes amount of its parent h, or is a root.
Appended(L, M, n, h, amount) ==
    /\ DOMAIN M = DOMAIN L \cup {n}
    /\ /\ M[n].allocated = amount /\ M[n].spent = 0 /\ M[n].direct = 0 /\ M[n].reserved = 0
       /\ ~ M[n].released /\ M[n].parent = h
    /\ \/ h = 0 /\ M[n].above = {}
       \/ /\ h \in DOMAIN L /\ ~ L[h].released /\ M[n].above = L[h].above \cup {h}
          /\ amount <= L[h].allocated - L[h].spent - L[h].reserved
          /\ M[h].reserved = L[h].reserved + amount
    /\ \A k \in DOMAIN L \ {h} : M[k].reserved = L[k].reserved
    /\ \A k \in DOMAIN L :
         /\ M[k].parent = L[k].parent /\ M[k].above = L[k].above /\ M[k].released = L[k].released
         /\ M[k].allocated = L[k].allocated /\ M[k].spent = L[k].spent /\ M[k].direct = L[k].direct

\* A new ledger leaves the books in order: its allowance moves from what its parent
\* may still use to what the parent reserved.
LEMMA Added ==
  ASSUME NEW L, Good(L), NEW M, M \in Seq(Ledger), NEW amount \in Nat, NEW h, NEW n, n = Len(L) + 1,
         Appended(L, M, n, h, amount)
  PROVE  Good(M)
  <1>a. DOMAIN M = DOMAIN L \cup {n} /\ M[n].parent = h /\ ~ M[n].released
    BY DEF Appended
  <1>b. M[n].allocated = amount /\ M[n].spent = 0 /\ M[n].direct = 0 /\ M[n].reserved = 0
    BY DEF Appended
  <1>c. (h = 0 /\ M[n].above = {}) \/ (h \in DOMAIN L /\ ~ L[h].released /\ M[n].above = L[h].above \cup {h})
    <2>1. \/ h = 0 /\ M[n].above = {}
          \/ /\ h \in DOMAIN L /\ ~ L[h].released /\ M[n].above = L[h].above \cup {h}
             /\ amount <= L[h].allocated - L[h].spent - L[h].reserved
             /\ M[h].reserved = L[h].reserved + amount
      BY Zenon DEF Appended
    <2> QED BY <2>1, Zenon
  <1>d. \A k \in DOMAIN L : M[k].parent = L[k].parent /\ M[k].above = L[k].above /\ M[k].released = L[k].released
    BY DEF Appended
  <1>e. \A k \in DOMAIN L : M[k].allocated = L[k].allocated /\ M[k].spent = L[k].spent /\ M[k].direct = L[k].direct
    BY Zenon DEF Appended
  <1>f. /\ \A k \in DOMAIN L \ {h} : M[k].reserved = L[k].reserved
        /\ h \in DOMAIN L => /\ M[h].reserved = L[h].reserved + amount
                             /\ amount <= L[h].allocated - L[h].spent - L[h].reserved
    <2>1. 0 \notin DOMAIN L
      BY AboveInDomain
    <2> QED BY <2>1 DEF Appended
  <1>1. /\ DOMAIN L = 1 .. Len(L) /\ Len(L) \in Nat
        /\ \A i \in DOMAIN L : L[i] \in Ledger /\ Rest(L)[i] \in Nat /\ Direct(L)[i] \in Nat
        /\ \A i \in DOMAIN L : Rest(L)[i] = L[i].allocated - L[i].spent /\ Direct(L)[i] = L[i].direct
        /\ \A i : Kids(L, i) \subseteq DOMAIN L /\ IsFiniteSet(Kids(L, i))
        /\ \A i : Below(L, i) \subseteq DOMAIN L /\ IsFiniteSet(Below(L, i))
    BY Summable
  <1>2. n \notin DOMAIN L /\ n \in Nat /\ 0 \notin DOMAIN L /\ \A k \in DOMAIN L : k < n
    BY <1>1
  <1>3. /\ \A k \in DOMAIN L : L[k].above \subseteq DOMAIN L /\ k \notin L[k].above /\ Path(L, k) \subseteq DOMAIN L
        /\ \A k \in DOMAIN L : L[k].parent # 0 => L[k].parent \in DOMAIN L /\ L[k].parent < k
    BY AboveInDomain
  <1>4. Tree(M)
    <2>1. ASSUME NEW k \in DOMAIN L
          PROVE  /\ M[k].above \subseteq 1 .. (k - 1)
                 /\ (M[k].parent = 0 /\ M[k].above = {}) \/ M[k].parent \in M[k].above
                 /\ \A a \in M[k].above : M[a].above \subseteq M[k].above
                 /\ \A a \in M[k].above : \E i \in Path(M, k) : M[i].parent = a
                 /\ \A i, j \in Path(M, k) : M[i].parent = M[j].parent => i = j
      <3>1. Path(M, k) = Path(L, k) /\ \A i \in Path(L, k) : i \in DOMAIN L /\ M[i].parent = L[i].parent /\ M[i].above = L[i].above
        BY <1>3, <1>d DEF Path
      <3>2. \A a \in M[k].above : a \in Path(L, k) /\ a \in L[k].above
        BY <1>d DEF Path
      <3>3. M[k].above = L[k].above /\ M[k].parent = L[k].parent
        BY <1>d
      <3>4. /\ L[k].above \subseteq 1 .. (k - 1)
            /\ (L[k].parent = 0 /\ L[k].above = {}) \/ L[k].parent \in L[k].above
            /\ \A a \in L[k].above : L[a].above \subseteq L[k].above
            /\ \A a \in L[k].above : \E i \in Path(L, k) : L[i].parent = a
            /\ \A i, j \in Path(L, k) : L[i].parent = L[j].parent => i = j
        BY DEF Good, Tree
      <3> QED BY <3>1, <3>2, <3>3, <3>4, ZenonT(60)
    <2>2. M[n].above \subseteq 1 .. (n - 1)
      BY <1>1, <1>3, <1>c
    <2>3. (M[n].parent = 0 /\ M[n].above = {}) \/ M[n].parent \in M[n].above
      BY <1>a, <1>c
    <2>4. \A a \in M[n].above : M[a].above \subseteq M[n].above
      BY <1>2, <1>3, <1>c, <1>d DEF Good, Tree
    <2>5. ASSUME NEW a \in M[n].above PROVE \E i \in Path(M, n) : M[i].parent = a
      <3>1. CASE a = h
        BY <1>a, <3>1 DEF Path
      <3>2. CASE a # h
        <4>1. h \in DOMAIN L /\ a \in L[h].above
          BY <1>c, <3>2
        <4>2. PICK i \in Path(L, h) : L[i].parent = a
          BY <4>1 DEF Good, Tree
        <4>3. i \in DOMAIN L /\ i \in Path(M, n)
          BY <1>3, <1>c, <4>1, <4>2 DEF Path
        <4> QED BY <1>d, <4>2, <4>3
      <3> QED BY <3>1, <3>2
    <2>6. ASSUME NEW i \in Path(M, n), NEW j \in Path(M, n), M[i].parent = M[j].parent PROVE i = j
      <3>1. CASE h = 0
        BY <1>2, <1>c, <2>6, <3>1 DEF Path
      <3>2. CASE h # 0
        <4>0. h \in DOMAIN L /\ M[n].above = L[h].above \cup {h}
          BY <1>c, <3>2
        <4>1. \A x \in Path(M, n) : x = n \/ x \in Path(L, h)
          BY <4>0 DEF Path
        <4>2. \A x \in Path(L, h) : x \in DOMAIN L /\ x <= h
          BY <1>1, <1>3, <4>0 DEF Path, Good, Tree
        <4>3. \A x \in Path(L, h) : L[x].parent # h /\ M[x].parent = L[x].parent
          BY <1>1, <1>2, <1>3, <1>d, <3>2, <4>2
        <4>4. CASE i = n \/ j = n
          BY <1>a, <2>6, <4>1, <4>3, <4>4
        <4>5. CASE i \in Path(L, h) /\ j \in Path(L, h)
          BY <2>6, <4>0, <4>3, <4>5 DEF Good, Tree
        <4> QED BY <4>1, <4>4, <4>5
      <3> QED BY <3>1, <3>2
    <2> QED BY <1>a, <2>1, <2>2, <2>3, <2>4, <2>5, <2>6 DEF Tree
  <1>5. /\ \A k \in DOMAIN L : Rest(M)[k] = Rest(L)[k] /\ Direct(M)[k] = Direct(L)[k]
        /\ Rest(M)[n] = amount /\ Direct(M)[n] = 0
    BY <1>1, <1>a, <1>b, <1>e DEF Rest, Direct
  <1>6. \A i : Kids(M, i) = IF i = h THEN Kids(L, i) \cup {n} ELSE Kids(L, i)
    BY <1>2, <1>a, <1>d DEF Kids
  <1>7. \A i : Below(M, i) = IF i \in M[n].above THEN Below(L, i) \cup {n} ELSE Below(L, i)
    BY <1>2, <1>a, <1>d DEF Below
  <1>8. ASSUME NEW g \in DOMAIN L
        PROVE  /\ M[g].spent + M[g].reserved <= M[g].allocated
               /\ M[g].reserved = Sum(Rest(M), Kids(M, g))
               /\ M[g].spent = M[g].direct + Sum(Direct(M), Below(M, g))
               /\ ~ M[g].released => \A k \in M[g].above : ~ M[k].released
    <2>1. /\ L[g].spent + L[g].reserved <= L[g].allocated
          /\ L[g].reserved = Sum(Rest(L), Kids(L, g))
          /\ L[g].spent = L[g].direct + Sum(Direct(L), Below(L, g))
          /\ ~ L[g].released => \A k \in L[g].above : ~ L[k].released
      BY DEF Good, Books
    <2>2. L[g].allocated \in Nat /\ L[g].spent \in Nat /\ L[g].reserved \in Nat /\ L[g].direct \in Nat
      BY <1>1, Fields
    <2>3. Sum(Rest(M), Kids(L, g)) = Sum(Rest(L), Kids(L, g)) /\ Sum(Direct(M), Below(L, g)) = Sum(Direct(L), Below(L, g))
      BY <1>1, <1>5, SumSame
    <2>4. M[g].reserved = Sum(Rest(M), Kids(M, g))
      <3>1. CASE g = h
        <4>1. Sum(Rest(M), Kids(L, g) \cup {n}) = Sum(Rest(M), Kids(L, g)) + Rest(M)[n]
          <5>1. n \notin Kids(L, g) /\ \A k \in Kids(L, g) \cup {n} : Rest(M)[k] \in Nat
            BY <1>1, <1>2, <1>5
          <5> QED BY <1>1, <5>1, SumAdd
        <4>2. Kids(M, g) = Kids(L, g) \cup {n}
          BY <1>6, <3>1
        <4>3. M[g].reserved = L[g].reserved + amount
          BY <1>f, <3>1
        <4> QED BY <1>5, <2>1, <2>3, <4>1, <4>2, <4>3
      <3>2. CASE g # h
        BY <1>6, <1>f, <2>1, <2>2, <2>3, <3>2
      <3> QED BY <3>1, <3>2
    <2>5. M[g].spent = M[g].direct + Sum(Direct(M), Below(M, g))
      <3>1. CASE g \in M[n].above
        <4>1. Sum(Direct(M), Below(L, g) \cup {n}) = Sum(Direct(M), Below(L, g)) + Direct(M)[n]
          <5>1. n \notin Below(L, g) /\ \A k \in Below(L, g) \cup {n} : Direct(M)[k] \in Nat
            BY <1>1, <1>2, <1>5
          <5> QED BY <1>1, <5>1, SumAdd
        <4>2. Sum(Direct(L), Below(L, g)) \in Nat
          BY <1>1, UnitsFinite
        <4>3. Below(M, g) = Below(L, g) \cup {n}
          BY <1>7, <3>1
        <4>4. Sum(Direct(M), Below(M, g)) = Sum(Direct(L), Below(L, g))
          BY <1>5, <2>3, <4>1, <4>2, <4>3
        <4> QED BY <1>e, <2>1, <4>4
      <3>2. CASE g \notin M[n].above
        BY <1>7, <1>e, <2>1, <2>3, <3>2
      <3> QED BY <3>1, <3>2
    <2>6. M[g].spent + M[g].reserved <= M[g].allocated
      <3>1. CASE g = h
        <4>1. M[g].spent = L[g].spent /\ M[g].allocated = L[g].allocated
          BY <1>e
        <4>2. M[g].reserved = L[g].reserved + amount /\ amount <= L[g].allocated - L[g].spent - L[g].reserved
          BY <1>f, <3>1
        <4> QED BY <2>2, <4>1, <4>2
      <3>2. CASE g # h
        BY <1>e, <1>f, <2>1, <3>2
      <3> QED BY <3>1, <3>2
    <2>7. ~ M[g].released => \A k \in M[g].above : ~ M[k].released
      BY <1>3, <1>d, <2>1
    <2> QED BY <2>4, <2>5, <2>6, <2>7
  <1>9. /\ M[n].spent + M[n].reserved <= M[n].allocated
        /\ M[n].reserved = Sum(Rest(M), Kids(M, n))
        /\ M[n].spent = M[n].direct + Sum(Direct(M), Below(M, n))
        /\ ~ M[n].released => \A k \in M[n].above : ~ M[k].released
    <2>1. Kids(M, n) = {} /\ Below(M, n) = {}
      <3>1. n # h /\ n \notin M[n].above
        BY <1>2, <1>3, <1>c, <1>1
      <3>2. Kids(L, n) = {} /\ Below(L, n) = {}
        BY <1>2, <1>3 DEF Kids, Below
      <3> QED BY <1>6, <1>7, <3>1, <3>2
    <2>2. \A k \in M[n].above : ~ M[k].released
      BY <1>2, <1>3, <1>c, <1>d DEF Good, Books
    <2>3. Sum(Rest(M), Kids(M, n)) = 0 /\ Sum(Direct(M), Below(M, n)) = 0
      BY <2>1, SumEmpty, Zenon
    <2> QED BY <1>b, <2>2, <2>3
  <1>10. Books(M)
    BY <1>8, <1>9, <1>a DEF Books
  <1> QED BY <1>4, <1>10 DEF Good

\* An amount is charged to h: everything above it turns reserved into spent.
Charged(L, M, h, amount) ==
    /\ h \in DOMAIN L /\ ~ L[h].released
    /\ amount <= L[h].allocated - L[h].spent - L[h].reserved
    /\ SameTree(L, M)
    /\ \A k \in DOMAIN L : M[k].released = L[k].released /\ M[k].allocated = L[k].allocated
    /\ M[h].spent = L[h].spent + amount /\ M[h].direct = L[h].direct + amount /\ M[h].reserved = L[h].reserved
    /\ \A k \in L[h].above :
         M[k].spent = L[k].spent + amount /\ M[k].direct = L[k].direct /\ M[k].reserved = L[k].reserved - amount
    /\ \A k \in DOMAIN L \ Path(L, h) :
         M[k].spent = L[k].spent /\ M[k].direct = L[k].direct /\ M[k].reserved = L[k].reserved

\* What a live ledger may charge is reserved by everything above it.
LEMMA ChargeFunded ==
  ASSUME NEW L, Good(L), NEW h \in DOMAIN L, ~ L[h].released, NEW amount \in Nat,
         amount <= L[h].allocated - L[h].spent - L[h].reserved
  PROVE  \A k \in L[h].above : amount <= L[k].reserved
  <1>1. L[h].allocated \in Nat /\ L[h].spent \in Nat /\ L[h].reserved \in Nat /\ Rest(L)[h] = L[h].allocated - L[h].spent
    BY Summable, Fields
  <1>2. amount <= Rest(L)[h]
    BY <1>1
  <1> SUFFICES ASSUME NEW k \in L[h].above PROVE amount <= L[k].reserved
    OBVIOUS
  <1>3. Rest(L)[h] <= L[k].reserved
    BY Funded
  <1>4. L[k].reserved \in Nat
    BY Summable, AboveInDomain, Fields
  <1>5. Rest(L)[h] \in Nat
    BY Summable
  <1> QED BY <1>2, <1>3, <1>4, <1>5

\* A charge leaves the books in order: of the children of a ledger above, exactly
\* one is on the path to the root and loses what its parent turns into spent.
LEMMA ChargeKeepsBooks ==
  ASSUME NEW L, Good(L), NEW M, M \in Seq(Ledger), NEW amount \in Nat, NEW h, Charged(L, M, h, amount)
  PROVE  Good(M)
  <1>a. h \in DOMAIN L /\ ~ L[h].released /\ amount <= L[h].allocated - L[h].spent - L[h].reserved
    BY DEF Charged
  <1>b. DOMAIN M = DOMAIN L /\ \A k \in DOMAIN L : M[k].parent = L[k].parent /\ M[k].above = L[k].above
    BY DEF Charged, SameTree
  <1>c. \A k \in DOMAIN L : M[k].released = L[k].released /\ M[k].allocated = L[k].allocated
    BY DEF Charged
  <1>d. M[h].spent = L[h].spent + amount /\ M[h].direct = L[h].direct + amount /\ M[h].reserved = L[h].reserved
    BY DEF Charged
  <1>e. \A k \in L[h].above :
           M[k].spent = L[k].spent + amount /\ M[k].direct = L[k].direct /\ M[k].reserved = L[k].reserved - amount
    BY DEF Charged
  <1>f. \A k \in DOMAIN L : k \notin Path(L, h) =>
           M[k].spent = L[k].spent /\ M[k].direct = L[k].direct /\ M[k].reserved = L[k].reserved
    BY DEF Charged
  <1>1. /\ DOMAIN L = 1 .. Len(L) /\ Len(L) \in Nat
        /\ \A i \in DOMAIN L : L[i] \in Ledger /\ Rest(L)[i] \in Nat /\ Direct(L)[i] \in Nat
        /\ \A i \in DOMAIN L : Rest(L)[i] = L[i].allocated - L[i].spent /\ Direct(L)[i] = L[i].direct
        /\ \A i : Kids(L, i) \subseteq DOMAIN L /\ IsFiniteSet(Kids(L, i))
        /\ \A i : Below(L, i) \subseteq DOMAIN L /\ IsFiniteSet(Below(L, i))
    BY Summable
  <1>2. /\ \A k \in DOMAIN L : L[k].above \subseteq DOMAIN L /\ k \notin L[k].above /\ Path(L, k) \subseteq DOMAIN L
        /\ \A k \in DOMAIN L : L[k].parent # 0 => L[k].parent \in DOMAIN L /\ L[k].parent < k
        /\ 0 \notin DOMAIN L
    BY AboveInDomain
  <1>3. Tree(M)
    BY <1>2, TreeKept DEF Good, Charged
  <1>4. \A i : Kids(M, i) = Kids(L, i) /\ Below(M, i) = Below(L, i)
    BY <1>b, <1>c DEF Kids, Below
  <1>5. \A k \in Path(L, h) : k \in DOMAIN L /\ M[k].spent = L[k].spent + amount /\ M[k].allocated = L[k].allocated
    BY <1>2, <1>a, <1>c, <1>d, <1>e DEF Path
  <1>6. \A k \in DOMAIN L : Rest(M)[k] = M[k].allocated - M[k].spent /\ Direct(M)[k] = M[k].direct
    BY <1>b DEF Rest, Direct
  <1>7. ASSUME NEW k \in DOMAIN L
        PROVE  L[k].allocated \in Nat /\ L[k].spent \in Nat /\ L[k].direct \in Nat /\ L[k].reserved \in Nat
    BY <1>1, Fields
  <1>8. ASSUME NEW k \in Path(L, h) PROVE Rest(M)[k] \in Nat /\ Rest(M)[k] = Rest(L)[k] - amount /\ ~ L[k].released
    <2>1. k \in DOMAIN L
      BY <1>5
    <2>2. amount <= Rest(L)[k]
      <3>1. CASE k = h
        BY <1>1, <1>7, <1>a, <3>1
      <3>2. CASE k \in L[h].above
        <4>1. amount <= L[k].reserved
          BY <1>a, <3>2, ChargeFunded
        <4>2. L[k].spent + L[k].reserved <= L[k].allocated
          BY <2>1 DEF Good, Books
        <4> QED BY <1>1, <1>7, <2>1, <4>1, <4>2
      <3> QED BY <3>1, <3>2 DEF Path
    <2>3. Rest(M)[k] = L[k].allocated - (L[k].spent + amount) /\ Rest(L)[k] = L[k].allocated - L[k].spent
      BY <1>1, <1>5, <1>6, <2>1
    <2>4. ~ L[k].released
      BY <1>a DEF Good, Books, Path
    <2> QED BY <1>7, <2>1, <2>2, <2>3, <2>4
  <1>9. ASSUME NEW k \in DOMAIN L, k \notin Path(L, h) PROVE Rest(M)[k] = Rest(L)[k] /\ Direct(M)[k] = Direct(L)[k]
    BY <1>1, <1>6, <1>9, <1>c, <1>f
  <1>10. ASSUME NEW k \in DOMAIN L
         PROVE  Rest(M)[k] \in Nat /\ Direct(M)[k] \in Nat /\ (k # h => Direct(M)[k] = Direct(L)[k])
    <2>1. Rest(M)[k] \in Nat
      BY <1>1, <1>8, <1>9
    <2>2. k # h => Direct(M)[k] = Direct(L)[k]
      BY <1>1, <1>6, <1>9, <1>e DEF Path
    <2>3. Direct(M)[h] = Direct(L)[h] + amount
      BY <1>1, <1>6, <1>a, <1>d
    <2>4. Direct(L)[k] \in Nat /\ Direct(L)[h] \in Nat
      BY <1>1, <1>a
    <2> QED BY <2>1, <2>2, <2>3, <2>4
  <1>11. ASSUME NEW g \in DOMAIN L PROVE M[g].reserved = Sum(Rest(M), Kids(M, g))
    <2>1. L[g].reserved = Sum(Rest(L), Kids(L, g))
      BY DEF Good, Books
    <2>2. CASE g \in L[h].above
      <3>1. PICK c \in Path(L, h) : L[c].parent = g
        BY <1>a, <2>2 DEF Good, Tree
      <3>2. c \in Kids(L, g)
        BY <1>5, <1>8, <3>1 DEF Kids
      <3>3. ASSUME NEW k \in Kids(L, g) \ {c} PROVE Rest(M)[k] = Rest(L)[k]
        <4>1. k \in DOMAIN L /\ L[k].parent = L[c].parent /\ k # c
          BY <3>1 DEF Kids
        <4>2. k \notin Path(L, h)
          BY <1>a, <4>1 DEF Good, Tree
        <4> QED BY <1>9, <4>1, <4>2
      <3>4. \A k \in Kids(L, g) : Rest(L)[k] \in Nat /\ Rest(M)[k] \in Nat
        BY <1>1, <1>10
      <3>5. Sum(Rest(M), Kids(L, g)) = Sum(Rest(L), Kids(L, g)) - Rest(L)[c] + Rest(M)[c]
        BY <1>1, <3>2, <3>3, <3>4, SumChange
      <3>6. Rest(M)[c] = Rest(L)[c] - amount /\ Rest(L)[c] \in Nat /\ Rest(M)[c] \in Nat
        BY <1>8, <3>2, <3>4
      <3>7. Sum(Rest(M), Kids(L, g)) = L[g].reserved - amount
        BY <1>7, <2>1, <3>5, <3>6
      <3>8. M[g].reserved = L[g].reserved - amount
        BY <1>e, <2>2
      <3> QED BY <1>4, <3>7, <3>8
    <2>3. CASE g \notin L[h].above
      <3>1. ASSUME NEW k \in Kids(L, g) PROVE Rest(M)[k] = Rest(L)[k]
        <4>1. k \in DOMAIN L /\ L[k].parent = g /\ g # 0
          BY <1>2 DEF Kids
        <4>2. g \in L[k].above
          BY <4>1 DEF Good, Tree
        <4>3. k \notin Path(L, h)
          BY <1>a, <2>3, <4>2 DEF Good, Tree, Path
        <4> QED BY <1>9, <4>1, <4>3
      <3>2. Sum(Rest(M), Kids(L, g)) = Sum(Rest(L), Kids(L, g))
        BY <3>1, SumSame
      <3>3. M[g].reserved = L[g].reserved
        BY <1>d, <1>f, <2>3 DEF Path
      <3> QED BY <1>4, <2>1, <3>2, <3>3
    <2> QED BY <2>2, <2>3
  <1>12. ASSUME NEW g \in DOMAIN L PROVE M[g].spent = M[g].direct + Sum(Direct(M), Below(M, g))
    <2>1. L[g].spent = L[g].direct + Sum(Direct(L), Below(L, g))
      BY DEF Good, Books
    <2>0. Sum(Direct(L), Below(L, g)) \in Nat
      BY <1>1, UnitsFinite
    <2>2. CASE g \in L[h].above
      <3>1. h \in Below(L, g)
        BY <1>a, <2>2 DEF Below
      <3>2. \A k \in Below(L, g) : Direct(L)[k] \in Nat /\ Direct(M)[k] \in Nat
        BY <1>1, <1>10
      <3>3. \A k \in Below(L, g) \ {h} : Direct(M)[k] = Direct(L)[k]
        BY <1>1, <1>10
      <3>4. Sum(Direct(M), Below(L, g)) = Sum(Direct(L), Below(L, g)) - Direct(L)[h] + Direct(M)[h]
        BY <1>1, <3>1, <3>2, <3>3, SumChange
      <3>5. Direct(L)[h] \in Nat /\ Direct(M)[h] = Direct(L)[h] + amount
        BY <1>1, <1>6, <1>a, <1>d
      <3>6. Sum(Direct(M), Below(L, g)) = Sum(Direct(L), Below(L, g)) + amount
        BY <2>0, <3>4, <3>5
      <3>7. M[g].spent = L[g].spent + amount /\ M[g].direct = L[g].direct
        BY <1>e, <2>2
      <3>8. M[g].spent = M[g].direct + Sum(Direct(M), Below(L, g))
        BY <1>7, <2>0, <2>1, <3>6, <3>7
      <3> QED BY <1>4, <3>8
    <2>3. CASE g \notin L[h].above
      <3>1. \A k \in Below(L, g) : Direct(M)[k] = Direct(L)[k]
        BY <1>1, <1>10, <2>3 DEF Below
      <3>2. Sum(Direct(M), Below(L, g)) = Sum(Direct(L), Below(L, g))
        BY <3>1, SumSame
      <3>3. \/ M[g].spent = L[g].spent + amount /\ M[g].direct = L[g].direct + amount
            \/ M[g].spent = L[g].spent /\ M[g].direct = L[g].direct
        BY <1>d, <1>f, <2>3 DEF Path
      <3>4. M[g].spent = M[g].direct + Sum(Direct(M), Below(L, g))
        BY <1>7, <2>0, <2>1, <3>2, <3>3
      <3> QED BY <1>4, <3>4
    <2> QED BY <2>2, <2>3
  <1>13. ASSUME NEW g \in DOMAIN L PROVE M[g].spent + M[g].reserved <= M[g].allocated
    <2>1. L[g].spent + L[g].reserved <= L[g].allocated /\ M[g].allocated = L[g].allocated
      BY <1>c DEF Good, Books
    <2>2. CASE g = h
      BY <1>7, <1>a, <1>d, <2>1, <2>2
    <2>3. CASE g \in L[h].above
      BY <1>7, <1>e, <2>1, <2>3
    <2>4. CASE g \notin Path(L, h)
      BY <1>f, <2>1, <2>4
    <2> QED BY <2>2, <2>3, <2>4 DEF Path
  <1>14. ASSUME NEW g \in DOMAIN L, ~ M[g].released, NEW k \in M[g].above PROVE ~ M[k].released
    BY <1>2, <1>14, <1>b, <1>c DEF Good, Books
  <1>15. Books(M)
    BY <1>11, <1>12, <1>13, <1>14, <1>b DEF Books
  <1> QED BY <1>3, <1>15 DEF Good

\* The ledgers of gone are released, and with each of them everything below it;
\* each returns to its parent what it did not spend.
GoneKids(L, gone, k) == {c \in gone : L[c].parent = k}

Closed(L, gone) ==
    /\ gone \subseteq DOMAIN L
    /\ \A k \in gone : ~ L[k].released
    /\ \A k \in DOMAIN L, a \in gone : ~ L[k].released /\ a \in L[k].above => k \in gone

Released(L, M, gone) ==
    /\ Closed(L, gone)
    /\ SameTree(L, M)
    /\ \A k \in DOMAIN L :
         /\ M[k].allocated = L[k].allocated /\ M[k].spent = L[k].spent /\ M[k].direct = L[k].direct
         /\ M[k].released <=> L[k].released \/ k \in gone
         /\ M[k].reserved = L[k].reserved - Sum(Rest(L), GoneKids(L, gone, k))

\* What released children return is part of what their parent reserved.
LEMMA ReleaseFunded ==
  ASSUME NEW L, Good(L), NEW gone, Closed(L, gone), NEW k \in DOMAIN L
  PROVE  /\ GoneKids(L, gone, k) \subseteq Kids(L, k)
         /\ Sum(Rest(L), GoneKids(L, gone, k)) \in Nat
         /\ Sum(Rest(L), GoneKids(L, gone, k)) <= L[k].reserved
         /\ Sum(Rest(L), Kids(L, k) \ GoneKids(L, gone, k)) = L[k].reserved - Sum(Rest(L), GoneKids(L, gone, k))
  <1>1. GoneKids(L, gone, k) \subseteq Kids(L, k)
    BY DEF GoneKids, Kids, Closed
  <1>2. IsFiniteSet(Kids(L, k)) /\ \A i \in Kids(L, k) : Rest(L)[i] \in Nat
    BY Summable
  <1>3. /\ Sum(Rest(L), GoneKids(L, gone, k)) <= Sum(Rest(L), Kids(L, k))
        /\ Sum(Rest(L), Kids(L, k) \ GoneKids(L, gone, k)) = Sum(Rest(L), Kids(L, k)) - Sum(Rest(L), GoneKids(L, gone, k))
    BY <1>1, <1>2, SumPart
  <1>4. IsFiniteSet(GoneKids(L, gone, k))
    BY <1>1, <1>2, FS_Subset
  <1>5. Sum(Rest(L), GoneKids(L, gone, k)) \in Nat
    BY <1>1, <1>2, <1>4, UnitsFinite
  <1>6. L[k].reserved = Sum(Rest(L), Kids(L, k))
    BY DEF Good, Books
  <1> QED BY <1>1, <1>3, <1>5, <1>6

\* A release leaves the books in order.
LEMMA ReleaseKeepsBooks ==
  ASSUME NEW L, Good(L), NEW M, M \in Seq(Ledger), NEW gone, Released(L, M, gone)
  PROVE  Good(M)
  <1>a. DOMAIN M = DOMAIN L /\ \A k \in DOMAIN L : M[k].parent = L[k].parent /\ M[k].above = L[k].above
    BY DEF Released, SameTree
  <1>b. \A k \in DOMAIN L : M[k].allocated = L[k].allocated /\ M[k].spent = L[k].spent /\ M[k].direct = L[k].direct
    BY DEF Released
  <1>c. \A k \in DOMAIN L : M[k].released <=> L[k].released \/ k \in gone
    BY DEF Released
  <1>d. \A k \in DOMAIN L : M[k].reserved = L[k].reserved - Sum(Rest(L), GoneKids(L, gone, k))
    BY DEF Released
  <1>1. \A k \in DOMAIN L : L[k].above \subseteq DOMAIN L
    BY AboveInDomain
  <1>2. Tree(M)
    BY <1>1, TreeKept DEF Good, Released
  <1>3. /\ \A k \in DOMAIN L : L[k] \in Ledger /\ Rest(L)[k] = L[k].allocated - L[k].spent /\ Direct(L)[k] = L[k].direct
        /\ \A i : Kids(L, i) \subseteq DOMAIN L /\ Below(L, i) \subseteq DOMAIN L
    BY Summable
  <1>4. \A k \in DOMAIN L : Rest(M)[k] = Rest(L)[k] /\ Direct(M)[k] = Direct(L)[k]
    BY <1>3, <1>a, <1>b DEF Rest, Direct
  <1>5. ASSUME NEW g \in DOMAIN L
        PROVE  Below(M, g) = Below(L, g) /\ Kids(M, g) = Kids(L, g) \ GoneKids(L, gone, g)
    BY <1>a, <1>c DEF Below, Kids, GoneKids
  <1>6. ASSUME NEW g \in DOMAIN L
        PROVE  /\ M[g].spent + M[g].reserved <= M[g].allocated
               /\ M[g].reserved = Sum(Rest(M), Kids(M, g))
               /\ M[g].spent = M[g].direct + Sum(Direct(M), Below(M, g))
               /\ ~ M[g].released => \A k \in M[g].above : ~ M[k].released
    <2>1. /\ L[g].spent + L[g].reserved <= L[g].allocated
          /\ L[g].spent = L[g].direct + Sum(Direct(L), Below(L, g))
          /\ ~ L[g].released => \A k \in L[g].above : ~ L[k].released
      BY DEF Good, Books
    <2>2. Closed(L, gone)
      BY DEF Released
    <2>3. /\ Sum(Rest(L), GoneKids(L, gone, g)) \in Nat
          /\ Sum(Rest(L), Kids(L, g) \ GoneKids(L, gone, g)) = L[g].reserved - Sum(Rest(L), GoneKids(L, gone, g))
      BY <2>2, ReleaseFunded
    <2>4. L[g].spent \in Nat /\ L[g].reserved \in Nat /\ L[g].allocated \in Nat
      BY <1>3, Fields
    <2>5. M[g].spent + M[g].reserved <= M[g].allocated
      <3>1. M[g].reserved = L[g].reserved - Sum(Rest(L), GoneKids(L, gone, g)) /\ M[g].spent = L[g].spent /\ M[g].allocated = L[g].allocated
        BY <1>b, <1>d
      <3> QED BY <2>1, <2>3, <2>4, <3>1
    <2>6. M[g].reserved = Sum(Rest(M), Kids(M, g))
      <3>1. Sum(Rest(M), Kids(M, g)) = Sum(Rest(L), Kids(M, g))
        <4>1. \A k \in Kids(M, g) : Rest(M)[k] = Rest(L)[k]
          BY <1>4, <1>a DEF Kids
        <4> QED BY <4>1, SumSame
      <3>2. Sum(Rest(L), Kids(M, g)) = Sum(Rest(L), Kids(L, g) \ GoneKids(L, gone, g))
        BY <1>5, Zenon
      <3> QED BY <1>d, <2>3, <3>1, <3>2
    <2>7. M[g].spent = M[g].direct + Sum(Direct(M), Below(M, g))
      <3>1. Sum(Direct(M), Below(L, g)) = Sum(Direct(L), Below(L, g))
        BY <1>3, <1>4, SumSame
      <3> QED BY <1>5, <1>b, <2>1, <3>1
    <2>8. ASSUME ~ M[g].released, NEW k \in M[g].above PROVE ~ M[k].released
      <3>1. ~ L[g].released /\ g \notin gone /\ k \in L[g].above /\ k \in DOMAIN L
        BY <1>1, <1>a, <1>c, <2>8
      <3>2. ~ L[k].released
        BY <2>1, <3>1
      <3>3. k \notin gone
        BY <2>2, <3>1 DEF Closed
      <3> QED BY <1>c, <3>1, <3>2, <3>3
    <2> QED BY <2>5, <2>6, <2>7, <2>8
  <1>7. Books(M)
    BY <1>6, <1>a DEF Books
  <1> QED BY <1>2, <1>7 DEF Good

\* The rows of a plan are narrowed to what it gives them, and each parent takes
\* back what its rows lost.
Cut(L, plan) == [k \in DOMAIN plan |-> L[k].allocated - plan[k]]
RowKids(L, plan, h) == {k \in DOMAIN plan : L[k].parent = h}

Fits(L, plan) ==
    /\ DOMAIN plan \subseteq DOMAIN L
    /\ \A h \in DOMAIN plan :
         /\ plan[h] \in Nat /\ ~ L[h].released /\ plan[h] <= L[h].allocated
         /\ plan[h] >= L[h].spent + L[h].reserved - Sum(Cut(L, plan), RowKids(L, plan, h))

Narrowed(L, M, plan) ==
    /\ Fits(L, plan)
    /\ SameTree(L, M)
    /\ \A k \in DOMAIN L :
         /\ M[k].spent = L[k].spent /\ M[k].direct = L[k].direct /\ M[k].released = L[k].released
         /\ M[k].reserved = L[k].reserved - Sum(Cut(L, plan), RowKids(L, plan, k))
    /\ \A k \in DOMAIN plan : M[k].allocated = plan[k]
    /\ \A k \in DOMAIN L \ DOMAIN plan : M[k].allocated = L[k].allocated

\* What the rows below a ledger lose is part of what it reserved, once no row
\* among them falls below what it spent.
LEMMA RowsReturn ==
  ASSUME NEW L, Good(L), NEW plan, Fits(L, plan), NEW h \in DOMAIN L,
         \A k \in RowKids(L, plan, h) : plan[k] >= L[k].spent
  PROVE  /\ RowKids(L, plan, h) \subseteq Kids(L, h) /\ IsFiniteSet(RowKids(L, plan, h))
         /\ \A k \in RowKids(L, plan, h) : Cut(L, plan)[k] \in Nat /\ Cut(L, plan)[k] <= Rest(L)[k]
         /\ Sum(Cut(L, plan), RowKids(L, plan, h)) \in Nat
         /\ Sum(Cut(L, plan), RowKids(L, plan, h)) <= L[h].reserved
  <1>1. RowKids(L, plan, h) \subseteq Kids(L, h)
    BY DEF RowKids, Kids, Fits
  <1>2. /\ IsFiniteSet(Kids(L, h))
        /\ \A i \in Kids(L, h) : i \in DOMAIN L /\ L[i] \in Ledger /\ Rest(L)[i] \in Nat /\ Rest(L)[i] = L[i].allocated - L[i].spent
    BY Summable
  <1>3. IsFiniteSet(RowKids(L, plan, h))
    BY <1>1, <1>2, FS_Subset
  <1>4. ASSUME NEW k \in RowKids(L, plan, h)
        PROVE  Cut(L, plan)[k] \in Nat /\ Cut(L, plan)[k] <= Rest(L)[k]
    <2>1. k \in DOMAIN plan /\ plan[k] \in Nat /\ plan[k] <= L[k].allocated /\ plan[k] >= L[k].spent
      BY DEF RowKids, Fits
    <2>2. Cut(L, plan)[k] = L[k].allocated - plan[k]
      BY <2>1 DEF Cut
    <2>3. L[k].allocated \in Nat /\ L[k].spent \in Nat /\ Rest(L)[k] = L[k].allocated - L[k].spent
      BY <1>1, <1>2, Fields
    <2> QED BY <2>1, <2>2, <2>3
  <1>5. Sum(Cut(L, plan), RowKids(L, plan, h)) \in Nat
    BY <1>3, <1>4, UnitsFinite
  <1>6. Sum(Cut(L, plan), RowKids(L, plan, h)) <= Sum(Rest(L), RowKids(L, plan, h))
    BY <1>1, <1>2, <1>3, <1>4, SumLeq
  <1>7. Sum(Rest(L), RowKids(L, plan, h)) <= Sum(Rest(L), Kids(L, h))
    BY <1>1, <1>2, SumPart
  <1>8. Sum(Rest(L), Kids(L, h)) = L[h].reserved
    BY DEF Good, Books
  <1>9. Sum(Rest(L), RowKids(L, plan, h)) \in Nat /\ Sum(Rest(L), Kids(L, h)) \in Nat
    BY <1>1, <1>2, <1>3, UnitsFinite
  <1>10. Sum(Cut(L, plan), RowKids(L, plan, h)) <= L[h].reserved
    BY <1>5, <1>6, <1>7, <1>8, <1>9
  <1> QED BY <1>1, <1>3, <1>4, <1>5, <1>10

\* No row falls below what it spent: the last one that did could not owe it to
\* the rows below it, which are younger.
LEMMA RowsCover ==
  ASSUME NEW L, Good(L), NEW plan, Fits(L, plan)
  PROVE  \A k \in DOMAIN plan : plan[k] >= L[k].spent
  <1> DEFINE B == {k \in DOMAIN plan : ~ (plan[k] >= L[k].spent)}
  <1>1. SUFFICES ASSUME B # {} PROVE FALSE
    OBVIOUS
  <1>2. DOMAIN L = 1 .. Len(L) /\ Len(L) \in Nat /\ \A i \in DOMAIN L : L[i] \in Ledger
    BY Summable
  <1>3. B \in SUBSET (1 .. Len(L))
    BY <1>2 DEF Fits
  <1>4. PICK h \in B : \A i \in B : i <= h
    BY <1>1, <1>2, <1>3, Greatest
  <1>5. h \in DOMAIN L /\ h \in DOMAIN plan /\ ~ (plan[h] >= L[h].spent)
    BY <1>2, <1>3, <1>4
  <1>6. ASSUME NEW k \in RowKids(L, plan, h) PROVE plan[k] >= L[k].spent
    <2>1. k \in DOMAIN L /\ k \in DOMAIN plan /\ L[k].parent = h
      BY DEF RowKids, Fits
    <2>2. h < k
      BY <1>2, <1>5, <2>1, AboveInDomain
    <2>3. k \notin B
      BY <1>2, <1>4, <1>5, <2>1, <2>2
    <2> QED BY <2>1, <2>3
  <1>7. Sum(Cut(L, plan), RowKids(L, plan, h)) \in Nat /\ Sum(Cut(L, plan), RowKids(L, plan, h)) <= L[h].reserved
    BY <1>5, <1>6, RowsReturn
  <1>8. plan[h] \in Nat /\ plan[h] >= L[h].spent + L[h].reserved - Sum(Cut(L, plan), RowKids(L, plan, h))
    BY <1>5 DEF Fits
  <1>9. L[h].spent \in Nat /\ L[h].reserved \in Nat
    BY <1>2, <1>5, Fields
  <1>10. plan[h] >= L[h].spent
    BY <1>7, <1>8, <1>9
  <1> QED BY <1>5, <1>10

\* A narrowing leaves the books in order, rows above and below each other included.
LEMMA NarrowKeepsBooks ==
  ASSUME NEW L, Good(L), NEW M, M \in Seq(Ledger), NEW plan, Narrowed(L, M, plan)
  PROVE  Good(M)
  <1> DEFINE back(g) == Sum(Cut(L, plan), RowKids(L, plan, g))
  <1>0. Fits(L, plan)
    BY DEF Narrowed
  <1>a. DOMAIN M = DOMAIN L /\ \A k \in DOMAIN L : M[k].parent = L[k].parent /\ M[k].above = L[k].above
    BY DEF Narrowed, SameTree
  <1>b. \A k \in DOMAIN L : M[k].spent = L[k].spent /\ M[k].direct = L[k].direct /\ M[k].released = L[k].released
    BY DEF Narrowed
  <1>c. \A k \in DOMAIN L : M[k].reserved = L[k].reserved - back(k)
    BY DEF Narrowed
  <1>d. /\ \A k \in DOMAIN plan : M[k].allocated = plan[k] /\ k \in DOMAIN L
        /\ \A k \in DOMAIN L \ DOMAIN plan : M[k].allocated = L[k].allocated
    BY <1>0 DEF Narrowed, Fits
  <1>1. \A k \in DOMAIN L : L[k].above \subseteq DOMAIN L
    BY AboveInDomain
  <1>2. Tree(M)
    BY <1>1, TreeKept DEF Good, Narrowed
  <1>3. /\ \A k \in DOMAIN L : L[k] \in Ledger /\ Rest(L)[k] \in Nat
        /\ \A k \in DOMAIN L : Rest(L)[k] = L[k].allocated - L[k].spent /\ Direct(L)[k] = L[k].direct
        /\ \A i : Kids(L, i) \subseteq DOMAIN L /\ Below(L, i) \subseteq DOMAIN L /\ IsFiniteSet(Kids(L, i))
    BY Summable
  <1>4. \A k \in DOMAIN L : Rest(M)[k] = M[k].allocated - M[k].spent /\ Direct(M)[k] = Direct(L)[k]
    BY <1>3, <1>a, <1>b DEF Rest, Direct
  <1>5. \A i : Below(M, i) = Below(L, i) /\ Kids(M, i) = Kids(L, i)
    BY <1>a, <1>b DEF Below, Kids
  <1>6. \A k \in DOMAIN plan : plan[k] >= L[k].spent
    BY <1>0, RowsCover
  <1>7. ASSUME NEW g \in DOMAIN L
        PROVE  /\ RowKids(L, plan, g) \subseteq Kids(L, g) /\ IsFiniteSet(RowKids(L, plan, g))
               /\ \A k \in RowKids(L, plan, g) : Cut(L, plan)[k] \in Nat /\ Cut(L, plan)[k] <= Rest(L)[k]
               /\ back(g) \in Nat /\ back(g) <= L[g].reserved
    <2>1. \A k \in RowKids(L, plan, g) : plan[k] >= L[k].spent
      BY <1>6 DEF RowKids
    <2> QED BY <1>0, <2>1, RowsReturn
  <1>8. ASSUME NEW k \in DOMAIN plan
        PROVE  Rest(M)[k] = Rest(L)[k] - Cut(L, plan)[k] /\ Rest(M)[k] \in Nat
    <2>1. Cut(L, plan)[k] = L[k].allocated - plan[k]
      BY DEF Cut
    <2>2. Rest(M)[k] = plan[k] - L[k].spent /\ Rest(L)[k] = L[k].allocated - L[k].spent
      BY <1>3, <1>4, <1>b, <1>d
    <2>3. plan[k] \in Nat /\ L[k].allocated \in Nat /\ L[k].spent \in Nat /\ plan[k] >= L[k].spent
      BY <1>0, <1>3, <1>6, <1>d, Fields DEF Fits
    <2> QED BY <2>1, <2>2, <2>3
  <1>9. \A k \in DOMAIN L \ DOMAIN plan : Rest(M)[k] = Rest(L)[k]
    BY <1>3, <1>4, <1>b, <1>d
  <1>10. \A k \in DOMAIN L : Rest(M)[k] \in Nat
    BY <1>3, <1>8, <1>9
  <1>11. ASSUME NEW g \in DOMAIN L PROVE M[g].reserved = Sum(Rest(M), Kids(M, g))
    <2> DEFINE K == Kids(L, g)
               R == RowKids(L, plan, g)
    <2>1. /\ R \subseteq K /\ IsFiniteSet(R) /\ IsFiniteSet(K)
          /\ \A k \in K : Rest(L)[k] \in Nat /\ Rest(M)[k] \in Nat
      BY <1>3, <1>7, <1>10
    <2>2. \A k \in R : /\ Rest(L)[k] \in Nat /\ Cut(L, plan)[k] \in Nat /\ Rest(M)[k] \in Nat
                       /\ Rest(M)[k] = Rest(L)[k] - Cut(L, plan)[k]
      <3>1. \A k \in R : k \in DOMAIN plan
        BY DEF RowKids
      <3> QED BY <1>7, <1>8, <2>1, <3>1
    <2>3. \A k \in K \ R : Rest(M)[k] = Rest(L)[k]
      <3>1. \A k \in K \ R : k \in DOMAIN L \ DOMAIN plan
        BY DEF Kids, RowKids
      <3> QED BY <1>9, <3>1
    <2>4. Sum(Rest(L), K) = L[g].reserved /\ back(g) = Sum(Cut(L, plan), R)
      BY DEF Good, Books
    <2>e. M[g].reserved = L[g].reserved - back(g)
      BY <1>c
    <2>f. back(g) \in Nat /\ L[g].reserved \in Nat
      <3>1. back(g) \in Nat
        BY <1>7
      <3>2. L[g].reserved \in Nat
        BY <1>3, Fields
      <3> QED BY <3>1, <3>2
    <2> HIDE DEF K, R, back
    <2>5. Sum(Rest(M), R) = Sum(Rest(L), R) - Sum(Cut(L, plan), R)
      BY <2>1, <2>2, SumMinus
    <2>6. Sum(Rest(M), K \ R) = Sum(Rest(L), K \ R)
      BY <2>3, SumSame
    <2>7. Sum(Rest(L), K \ R) = Sum(Rest(L), K) - Sum(Rest(L), R) /\ Sum(Rest(M), K \ R) = Sum(Rest(M), K) - Sum(Rest(M), R)
      BY <2>1, SumPart
    <2>8. /\ Sum(Rest(L), R) \in Nat /\ Sum(Rest(M), R) \in Nat
          /\ Sum(Rest(L), K) \in Nat /\ Sum(Rest(M), K) \in Nat
      BY <2>1, UnitsFinite
    <2>9. Sum(Rest(M), K) = L[g].reserved - back(g)
      <3>1. Sum(Cut(L, plan), R) \in Nat
        BY <2>1, <2>2, UnitsFinite
      <3>2. Sum(Rest(M), K) - Sum(Rest(M), R) = Sum(Rest(L), K) - Sum(Rest(L), R)
        BY <2>6, <2>7, Zenon
      <3>3. Sum(Rest(M), K) = Sum(Rest(L), K) - Sum(Cut(L, plan), R)
        BY <2>5, <2>8, <3>1, <3>2
      <3> QED BY <2>4, <3>3, Zenon
    <2> QED BY <1>5, <2>9, <2>e DEF K
  <1>12. ASSUME NEW g \in DOMAIN L PROVE M[g].spent = M[g].direct + Sum(Direct(M), Below(M, g))
    <2>1. Sum(Direct(M), Below(L, g)) = Sum(Direct(L), Below(L, g))
      BY <1>3, <1>4, SumSame
    <2>2. L[g].spent = L[g].direct + Sum(Direct(L), Below(L, g))
      BY DEF Good, Books
    <2> QED BY <1>5, <1>b, <2>1, <2>2
  <1>13. ASSUME NEW g \in DOMAIN L PROVE M[g].spent + M[g].reserved <= M[g].allocated
    <2>1. /\ L[g].spent \in Nat /\ L[g].reserved \in Nat /\ L[g].allocated \in Nat
          /\ L[g].spent + L[g].reserved <= L[g].allocated
      BY <1>3, Fields DEF Good, Books
    <2>2. back(g) \in Nat /\ M[g].spent = L[g].spent /\ M[g].reserved = L[g].reserved - back(g)
      <3>1. back(g) \in Nat
        BY <1>7
      <3> HIDE DEF back
      <3> QED BY <1>b, <1>c, <3>1
    <2>3. CASE g \in DOMAIN plan
      <3>1. M[g].allocated = plan[g] /\ plan[g] \in Nat /\ plan[g] >= L[g].spent + L[g].reserved - back(g)
        BY <1>0, <1>d, <2>3 DEF Fits
      <3> HIDE DEF back
      <3> QED BY <2>1, <2>2, <3>1
    <2>4. CASE g \notin DOMAIN plan
      <3>1. M[g].allocated = L[g].allocated
        BY <1>d, <2>4
      <3> HIDE DEF back
      <3> QED BY <2>1, <2>2, <3>1
    <2> QED BY <2>3, <2>4
  <1>14. ASSUME NEW g \in DOMAIN L, ~ M[g].released, NEW k \in M[g].above PROVE ~ M[k].released
    BY <1>1, <1>14, <1>a, <1>b DEF Good, Books
  <1>15. Books(M)
    BY <1>11, <1>12, <1>13, <1>14, <1>a DEF Books
  <1> QED BY <1>2, <1>15 DEF Good

\* -------------------------------------------------------------- the memory

Account == [in : Nat, above : SUBSET Nat, capacity : Nat, reservedBytes : Nat, takenBytes : Nat,
            taken : BOOLEAN, released : BOOLEAN]

\* The links of the memory accounts.
Links(m) ==
    \A k \in DOMAIN m :
        /\ m[k].above \subseteq 1 .. (k - 1)
        /\ (m[k].in = 0 /\ m[k].above = {}) \/ m[k].in \in m[k].above
        /\ \A a \in m[k].above : m[a].above \subseteq m[k].above

Caps(m) == [k \in DOMAIN m |-> m[k].capacity]
Held(m, h) == {k \in DOMAIN m : m[k].in = h /\ ~ m[k].released}
Taken(m, h) == {k \in Held(m, h) : m[k].taken}

\* What Solvent and Balanced say of the memory, and that only what was taken can
\* be reserved from: a reservation that may shrink holds nothing.
Stores(m) ==
    \A h \in DOMAIN m :
        /\ m[h].reservedBytes <= m[h].capacity
        /\ m[h].reservedBytes = Sum(Caps(m), Held(m, h))
        /\ m[h].takenBytes = Sum(Caps(m), Taken(m, h))
        /\ ~ m[h].released => \A k \in m[h].above : ~ m[k].released
        /\ ~ m[h].taken => Held(m, h) = {}

Sound(m) == m \in Seq(Account) /\ Links(m) /\ Stores(m)

\* The types of a memory account's fields.
LEMMA AccountFields ==
  ASSUME NEW l \in Account
  PROVE  /\ l.in \in Nat /\ l.above \in SUBSET Nat /\ l.capacity \in Nat /\ l.reservedBytes \in Nat
         /\ l.takenBytes \in Nat /\ l.taken \in BOOLEAN /\ l.released \in BOOLEAN
  BY DEF Account

\* The sums of the memory are over finite sets of numbers, and the links lead to
\* older accounts.
LEMMA MemorySummable ==
  ASSUME NEW m, m \in Seq(Account), Links(m)
  PROVE  /\ DOMAIN m = 1 .. Len(m) /\ Len(m) \in Nat /\ 0 \notin DOMAIN m
         /\ \A k \in DOMAIN m : m[k] \in Account /\ Caps(m)[k] \in Nat /\ Caps(m)[k] = m[k].capacity
         /\ \A h : Held(m, h) \subseteq DOMAIN m /\ IsFiniteSet(Held(m, h))
         /\ \A h : Taken(m, h) \subseteq Held(m, h) /\ IsFiniteSet(Taken(m, h))
         /\ \A k \in DOMAIN m : m[k].above \subseteq DOMAIN m /\ k \notin m[k].above
         /\ \A k \in DOMAIN m : m[k].in # 0 => m[k].in \in DOMAIN m /\ m[k].in # k
  <1>1. /\ DOMAIN m = 1 .. Len(m) /\ Len(m) \in Nat /\ \A k \in DOMAIN m : m[k] \in Account /\ k \in Nat
        /\ \A S \in SUBSET DOMAIN m : IsFiniteSet(S)
    BY Domains
  <1>2. \A h : Held(m, h) \in SUBSET DOMAIN m /\ Taken(m, h) \in SUBSET DOMAIN m /\ Taken(m, h) \subseteq Held(m, h)
    BY DEF Held, Taken
  <1>3. \A k \in DOMAIN m : Caps(m)[k] = m[k].capacity /\ Caps(m)[k] \in Nat
    BY <1>1, AccountFields DEF Caps
  <1>4. \A k \in DOMAIN m : m[k].above \subseteq DOMAIN m /\ k \notin m[k].above
    BY <1>1 DEF Links
  <1>5. \A k \in DOMAIN m : m[k].in # 0 => m[k].in \in DOMAIN m /\ m[k].in # k
    BY <1>4 DEF Links
  <1> QED BY <1>1, <1>2, <1>3, <1>4, <1>5

\* An account n is appended: a reservation of pool h, or a pool.
MemoryAppended(m, p, n, h, capacity) ==
    /\ DOMAIN p = DOMAIN m \cup {n}
    /\ /\ p[n].capacity = capacity /\ p[n].reservedBytes = 0 /\ p[n].takenBytes = 0
       /\ ~ p[n].released /\ p[n].in = h
    /\ \/ h = 0 /\ p[n].above = {}
       \/ /\ h \in DOMAIN m /\ ~ m[h].released /\ m[h].taken /\ p[n].above = m[h].above \cup {h}
          /\ ~ p[n].taken
          /\ capacity <= m[h].capacity - m[h].reservedBytes
          /\ p[h].reservedBytes = m[h].reservedBytes + capacity
    /\ \A k \in DOMAIN m \ {h} : p[k].reservedBytes = m[k].reservedBytes
    /\ \A k \in DOMAIN m :
         /\ p[k].in = m[k].in /\ p[k].above = m[k].above /\ p[k].released = m[k].released
         /\ p[k].capacity = m[k].capacity /\ p[k].takenBytes = m[k].takenBytes /\ p[k].taken = m[k].taken

\* A new account leaves the memory in order.
LEMMA MemoryAdded ==
  ASSUME NEW m, Sound(m), NEW p, p \in Seq(Account), NEW capacity \in Nat, NEW h, NEW n, n = Len(m) + 1,
         MemoryAppended(m, p, n, h, capacity)
  PROVE  Sound(p)
  <1>0. m \in Seq(Account) /\ Links(m)
    BY DEF Sound
  <1>1. /\ DOMAIN m = 1 .. Len(m) /\ Len(m) \in Nat /\ 0 \notin DOMAIN m
        /\ \A k \in DOMAIN m : m[k] \in Account /\ Caps(m)[k] \in Nat /\ Caps(m)[k] = m[k].capacity
        /\ \A i : Held(m, i) \subseteq DOMAIN m /\ IsFiniteSet(Held(m, i))
        /\ \A i : Taken(m, i) \subseteq Held(m, i) /\ IsFiniteSet(Taken(m, i))
        /\ \A k \in DOMAIN m : m[k].above \subseteq DOMAIN m /\ k \notin m[k].above
        /\ \A k \in DOMAIN m : m[k].in # 0 => m[k].in \in DOMAIN m /\ m[k].in # k
    BY <1>0, MemorySummable
  <1>a. DOMAIN p = DOMAIN m \cup {n} /\ p[n].in = h /\ ~ p[n].released
    BY DEF MemoryAppended
  <1>b. p[n].capacity = capacity /\ p[n].reservedBytes = 0 /\ p[n].takenBytes = 0
    BY DEF MemoryAppended
  <1>c. \/ h = 0 /\ p[n].above = {}
        \/ h \in DOMAIN m /\ ~ m[h].released /\ m[h].taken /\ p[n].above = m[h].above \cup {h} /\ ~ p[n].taken
    BY DEF MemoryAppended
  <1>d. \A k \in DOMAIN m : p[k].in = m[k].in /\ p[k].above = m[k].above /\ p[k].released = m[k].released /\ p[k].taken = m[k].taken
    BY DEF MemoryAppended
  <1>e. \A k \in DOMAIN m : p[k].capacity = m[k].capacity /\ p[k].takenBytes = m[k].takenBytes
    BY DEF MemoryAppended
  <1>f. /\ \A k \in DOMAIN m \ {h} : p[k].reservedBytes = m[k].reservedBytes
        /\ h \in DOMAIN m => /\ p[h].reservedBytes = m[h].reservedBytes + capacity
                             /\ capacity <= m[h].capacity - m[h].reservedBytes
    BY <1>1 DEF MemoryAppended
  <1>2. n \notin DOMAIN m /\ n \in Nat /\ \A k \in DOMAIN m : k < n
    BY <1>1
  <1>3. Links(p)
    <2>1. ASSUME NEW k \in DOMAIN m
          PROVE  /\ p[k].above \subseteq 1 .. (k - 1)
                 /\ (p[k].in = 0 /\ p[k].above = {}) \/ p[k].in \in p[k].above
                 /\ \A a \in p[k].above : p[a].above \subseteq p[k].above
      BY <1>0, <1>1, <1>d DEF Links
    <2>2. /\ p[n].above \subseteq 1 .. (n - 1)
          /\ (p[n].in = 0 /\ p[n].above = {}) \/ p[n].in \in p[n].above
      BY <1>1, <1>a, <1>c
    <2>3. ASSUME NEW a \in p[n].above PROVE p[a].above \subseteq p[n].above
      <3>1. h \in DOMAIN m /\ p[n].above = m[h].above \cup {h}
        BY <1>c
      <3>2. a \in DOMAIN m /\ p[a].above = m[a].above
        BY <1>1, <1>d, <3>1
      <3>3. m[a].above \subseteq m[h].above
        BY <1>0, <3>1 DEF Links
      <3> QED BY <3>1, <3>2, <3>3
    <2> QED BY <1>a, <2>1, <2>2, <2>3 DEF Links
  <1>4. (\A k \in DOMAIN m : Caps(p)[k] = Caps(m)[k]) /\ Caps(p)[n] = capacity
    BY <1>1, <1>a, <1>b, <1>e DEF Caps
  <1>5. \A i : Held(p, i) = IF i = h THEN Held(m, i) \cup {n} ELSE Held(m, i)
    BY <1>2, <1>a, <1>d DEF Held
  <1>6. \A i \in DOMAIN m : Taken(p, i) = Taken(m, i)
    <2> SUFFICES ASSUME NEW i \in DOMAIN m PROVE Taken(p, i) = Taken(m, i)
      OBVIOUS
    <2>1. CASE i = h
      <3>1. Held(p, i) = Held(m, i) \cup {n} /\ ~ p[n].taken
        BY <1>1, <1>5, <1>c, <2>1
      <3>2. \A k \in Held(m, i) : p[k].taken = m[k].taken
        BY <1>1, <1>d
      <3> QED BY <3>1, <3>2 DEF Taken
    <2>2. CASE i # h
      BY <1>1, <1>5, <1>d, <2>2 DEF Taken
    <2> QED BY <2>1, <2>2
  <1>7. ASSUME NEW g \in DOMAIN m
        PROVE  /\ p[g].reservedBytes <= p[g].capacity
               /\ p[g].reservedBytes = Sum(Caps(p), Held(p, g))
               /\ p[g].takenBytes = Sum(Caps(p), Taken(p, g))
               /\ ~ p[g].released => \A k \in p[g].above : ~ p[k].released
               /\ ~ p[g].taken => Held(p, g) = {}
    <2>1. /\ m[g].reservedBytes <= m[g].capacity
          /\ m[g].reservedBytes = Sum(Caps(m), Held(m, g))
          /\ m[g].takenBytes = Sum(Caps(m), Taken(m, g))
          /\ ~ m[g].released => \A k \in m[g].above : ~ m[k].released
          /\ ~ m[g].taken => Held(m, g) = {}
      BY DEF Sound, Stores
    <2>2. m[g].capacity \in Nat /\ m[g].reservedBytes \in Nat
      BY <1>1, AccountFields
    <2>3. Sum(Caps(p), Held(m, g)) = Sum(Caps(m), Held(m, g)) /\ Sum(Caps(p), Taken(m, g)) = Sum(Caps(m), Taken(m, g))
      BY <1>1, <1>4, SumSame
    <2>4. p[g].reservedBytes = Sum(Caps(p), Held(p, g))
      <3>1. CASE g = h
        <4>1. Sum(Caps(p), Held(m, g) \cup {n}) = Sum(Caps(p), Held(m, g)) + Caps(p)[n]
          <5>1. n \notin Held(m, g) /\ \A k \in Held(m, g) \cup {n} : Caps(p)[k] \in Nat
            BY <1>1, <1>2, <1>4
          <5> QED BY <1>1, <5>1, SumAdd
        <4>2. Held(p, g) = Held(m, g) \cup {n}
          BY <1>5, <3>1
        <4>3. p[g].reservedBytes = m[g].reservedBytes + capacity
          BY <1>f, <3>1
        <4> QED BY <1>4, <2>1, <2>3, <4>1, <4>2, <4>3
      <3>2. CASE g # h
        BY <1>5, <1>f, <2>1, <2>3, <3>2
      <3> QED BY <3>1, <3>2
    <2>5. p[g].takenBytes = Sum(Caps(p), Taken(p, g))
      BY <1>6, <1>e, <2>1, <2>3
    <2>6. p[g].reservedBytes <= p[g].capacity
      <3>1. CASE g = h
        BY <1>e, <1>f, <2>2, <3>1
      <3>2. CASE g # h
        BY <1>e, <1>f, <2>1, <3>2
      <3> QED BY <3>1, <3>2
    <2>7. ~ p[g].released => \A k \in p[g].above : ~ p[k].released
      BY <1>1, <1>d, <2>1
    <2>8. ~ p[g].taken => Held(p, g) = {}
      BY <1>1, <1>5, <1>c, <1>d, <2>1
    <2> QED BY <2>4, <2>5, <2>6, <2>7, <2>8
  <1>8. /\ p[n].reservedBytes <= p[n].capacity
        /\ p[n].reservedBytes = Sum(Caps(p), Held(p, n))
        /\ p[n].takenBytes = Sum(Caps(p), Taken(p, n))
        /\ ~ p[n].released => \A k \in p[n].above : ~ p[k].released
        /\ ~ p[n].taken => Held(p, n) = {}
    <2>1. Held(p, n) = {} /\ Taken(p, n) = {}
      <3>1. n # h
        BY <1>1, <1>2, <1>c
      <3>2. Held(m, n) = {}
        BY <1>1, <1>2 DEF Held
      <3> QED BY <1>5, <3>1, <3>2 DEF Taken
    <2>2. \A k \in p[n].above : ~ p[k].released
      BY <1>1, <1>c, <1>d DEF Sound, Stores
    <2>3. Sum(Caps(p), Held(p, n)) = 0 /\ Sum(Caps(p), Taken(p, n)) = 0
      BY <2>1, SumEmpty, Zenon
    <2> QED BY <1>b, <2>1, <2>2, <2>3
  <1>9. Stores(p)
    BY <1>7, <1>8, <1>a DEF Stores
  <1> QED BY <1>3, <1>9 DEF Sound

\* Steps that keep the links of the accounts.
SameLinks(m, p) ==
    /\ DOMAIN p = DOMAIN m
    /\ \A k \in DOMAIN m : p[k].in = m[k].in /\ p[k].above = m[k].above

\* Such a step keeps the shape of the links.
LEMMA LinksKept ==
  ASSUME NEW m, NEW p, Links(m), SameLinks(m, p), \A k \in DOMAIN m : m[k].above \subseteq DOMAIN m
  PROVE  Links(p)
  BY DEF Links, SameLinks

\* A reservation h is taken.
MemoryTaken(m, p, h) ==
    /\ h \in DOMAIN m /\ m[h].in # 0 /\ ~ m[h].released /\ ~ m[h].taken
    /\ SameLinks(m, p)
    /\ \A k \in DOMAIN m :
         /\ p[k].released = m[k].released /\ p[k].capacity = m[k].capacity
         /\ p[k].reservedBytes = m[k].reservedBytes
    /\ p[h].taken
    /\ \A k \in DOMAIN m \ {h} : p[k].taken = m[k].taken
    /\ p[m[h].in].takenBytes = m[m[h].in].takenBytes + m[h].capacity
    /\ \A k \in DOMAIN m \ {m[h].in} : p[k].takenBytes = m[k].takenBytes

\* Taking a reservation leaves the memory in order.
LEMMA TakeKeepsStores ==
  ASSUME NEW m, Sound(m), NEW p, p \in Seq(Account), NEW h, MemoryTaken(m, p, h)
  PROVE  Sound(p)
  <1>0. m \in Seq(Account) /\ Links(m)
    BY DEF Sound
  <1>1. /\ \A k \in DOMAIN m : m[k] \in Account /\ Caps(m)[k] \in Nat /\ Caps(m)[k] = m[k].capacity
        /\ \A i : Held(m, i) \subseteq DOMAIN m /\ IsFiniteSet(Held(m, i))
        /\ \A i : Taken(m, i) \subseteq Held(m, i) /\ IsFiniteSet(Taken(m, i))
        /\ \A k \in DOMAIN m : m[k].above \subseteq DOMAIN m
    BY <1>0, MemorySummable
  <1>a. h \in DOMAIN m /\ m[h].in # 0 /\ ~ m[h].released /\ ~ m[h].taken /\ p[h].taken
    BY DEF MemoryTaken
  <1>b. DOMAIN p = DOMAIN m /\ \A k \in DOMAIN m : p[k].in = m[k].in /\ p[k].above = m[k].above
    BY DEF MemoryTaken, SameLinks
  <1>c. \A k \in DOMAIN m : p[k].released = m[k].released /\ p[k].capacity = m[k].capacity /\ p[k].reservedBytes = m[k].reservedBytes
    BY DEF MemoryTaken
  <1>d. \A k \in DOMAIN m \ {h} : p[k].taken = m[k].taken
    BY DEF MemoryTaken
  <1>e. /\ p[m[h].in].takenBytes = m[m[h].in].takenBytes + m[h].capacity
        /\ \A k \in DOMAIN m \ {m[h].in} : p[k].takenBytes = m[k].takenBytes
    BY DEF MemoryTaken
  <1>2. Links(p)
    BY <1>0, <1>1, LinksKept DEF MemoryTaken
  <1>3. \A k \in DOMAIN m : Caps(p)[k] = Caps(m)[k]
    BY <1>1, <1>b, <1>c DEF Caps
  <1>4. \A i : Held(p, i) = Held(m, i)
    BY <1>b, <1>c DEF Held
  <1>5. \A i : Taken(p, i) = IF i = m[h].in THEN Taken(m, i) \cup {h} ELSE Taken(m, i)
    <2> SUFFICES ASSUME NEW i PROVE Taken(p, i) = IF i = m[h].in THEN Taken(m, i) \cup {h} ELSE Taken(m, i)
      OBVIOUS
    <2>1. h \in Held(m, i) <=> i = m[h].in
      BY <1>a DEF Held
    <2>2. \A k \in Held(m, i) : k # h => p[k].taken = m[k].taken
      BY <1>1, <1>d
    <2> QED BY <1>4, <1>a, <2>1, <2>2 DEF Taken
  <1>6. ASSUME NEW g \in DOMAIN m
        PROVE  /\ p[g].reservedBytes <= p[g].capacity
               /\ p[g].reservedBytes = Sum(Caps(p), Held(p, g))
               /\ p[g].takenBytes = Sum(Caps(p), Taken(p, g))
               /\ ~ p[g].released => \A k \in p[g].above : ~ p[k].released
               /\ ~ p[g].taken => Held(p, g) = {}
    <2>1. /\ m[g].reservedBytes <= m[g].capacity
          /\ m[g].reservedBytes = Sum(Caps(m), Held(m, g))
          /\ m[g].takenBytes = Sum(Caps(m), Taken(m, g))
          /\ ~ m[g].released => \A k \in m[g].above : ~ m[k].released
          /\ ~ m[g].taken => Held(m, g) = {}
      BY DEF Sound, Stores
    <2>2. Sum(Caps(p), Held(m, g)) = Sum(Caps(m), Held(m, g)) /\ Sum(Caps(p), Taken(m, g)) = Sum(Caps(m), Taken(m, g))
      BY <1>1, <1>3, SumSame
    <2>3. p[g].takenBytes = Sum(Caps(p), Taken(p, g))
      <3>1. CASE g = m[h].in
        <4>1. h \notin Taken(m, g) /\ \A k \in Taken(m, g) \cup {h} : Caps(p)[k] \in Nat
          BY <1>1, <1>3, <1>a DEF Taken
        <4>2. Sum(Caps(p), Taken(m, g) \cup {h}) = Sum(Caps(p), Taken(m, g)) + Caps(p)[h]
          BY <1>1, <4>1, SumAdd
        <4>3. Taken(p, g) = Taken(m, g) \cup {h} /\ Caps(p)[h] = m[h].capacity
          BY <1>1, <1>3, <1>5, <1>a, <3>1
        <4>4. p[g].takenBytes = m[g].takenBytes + m[h].capacity
          BY <1>e, <3>1
        <4> QED BY <2>1, <2>2, <4>2, <4>3, <4>4
      <3>2. CASE g # m[h].in
        BY <1>5, <1>e, <2>1, <2>2, <3>2
      <3> QED BY <3>1, <3>2
    <2>4. p[g].reservedBytes <= p[g].capacity /\ p[g].reservedBytes = Sum(Caps(p), Held(p, g))
      BY <1>4, <1>c, <2>1, <2>2
    <2>5. ~ p[g].released => \A k \in p[g].above : ~ p[k].released
      BY <1>1, <1>b, <1>c, <2>1
    <2>6. ~ p[g].taken => Held(p, g) = {}
      BY <1>4, <1>a, <1>d, <2>1
    <2> QED BY <2>3, <2>4, <2>5, <2>6
  <1>7. Stores(p)
    BY <1>6, <1>b DEF Stores
  <1> QED BY <1>2, <1>7 DEF Sound

\* The accounts of gone are released, and with each of them everything below it.
GoneHeld(m, gone, k) == {r \in gone : m[r].in = k}
GoneTaken(m, gone, k) == {r \in gone : m[r].in = k /\ m[r].taken}

MemoryClosed(m, gone) ==
    /\ gone \subseteq DOMAIN m
    /\ \A k \in gone : ~ m[k].released
    /\ \A k \in DOMAIN m, a \in gone : ~ m[k].released /\ a \in m[k].above => k \in gone

MemoryReleased(m, p, gone) ==
    /\ MemoryClosed(m, gone)
    /\ SameLinks(m, p)
    /\ \A k \in DOMAIN m :
         /\ p[k].capacity = m[k].capacity /\ p[k].taken = m[k].taken
         /\ p[k].released <=> m[k].released \/ k \in gone
         /\ p[k].reservedBytes = m[k].reservedBytes - Sum(Caps(m), GoneHeld(m, gone, k))
         /\ p[k].takenBytes = m[k].takenBytes - Sum(Caps(m), GoneTaken(m, gone, k))

\* What released reservations return is part of what their pool holds.
LEMMA MemoryReturned ==
  ASSUME NEW m, Sound(m), NEW gone, MemoryClosed(m, gone), NEW k \in DOMAIN m
  PROVE  /\ Sum(Caps(m), GoneHeld(m, gone, k)) \in Nat
         /\ Sum(Caps(m), GoneHeld(m, gone, k)) <= m[k].reservedBytes
         /\ Sum(Caps(m), Held(m, k) \ GoneHeld(m, gone, k)) = m[k].reservedBytes - Sum(Caps(m), GoneHeld(m, gone, k))
         /\ Sum(Caps(m), GoneTaken(m, gone, k)) \in Nat
         /\ Sum(Caps(m), GoneTaken(m, gone, k)) <= m[k].takenBytes
         /\ Sum(Caps(m), Taken(m, k) \ GoneTaken(m, gone, k)) = m[k].takenBytes - Sum(Caps(m), GoneTaken(m, gone, k))
  <1>1. GoneHeld(m, gone, k) \subseteq Held(m, k) /\ GoneTaken(m, gone, k) \subseteq Taken(m, k)
    BY DEF GoneHeld, GoneTaken, Held, Taken, MemoryClosed
  <1>2. /\ IsFiniteSet(Held(m, k)) /\ IsFiniteSet(Taken(m, k))
        /\ \A i \in Held(m, k) : Caps(m)[i] \in Nat
        /\ \A i \in Taken(m, k) : Caps(m)[i] \in Nat
    BY MemorySummable DEF Sound
  <1>3. IsFiniteSet(GoneHeld(m, gone, k)) /\ IsFiniteSet(GoneTaken(m, gone, k))
    BY <1>1, <1>2, FS_Subset
  <1>4. Sum(Caps(m), GoneHeld(m, gone, k)) \in Nat /\ Sum(Caps(m), GoneTaken(m, gone, k)) \in Nat
    BY <1>1, <1>2, <1>3, UnitsFinite
  <1>5. /\ Sum(Caps(m), GoneHeld(m, gone, k)) <= Sum(Caps(m), Held(m, k))
        /\ Sum(Caps(m), Held(m, k) \ GoneHeld(m, gone, k)) = Sum(Caps(m), Held(m, k)) - Sum(Caps(m), GoneHeld(m, gone, k))
    BY <1>1, <1>2, SumPart
  <1>6. /\ Sum(Caps(m), GoneTaken(m, gone, k)) <= Sum(Caps(m), Taken(m, k))
        /\ Sum(Caps(m), Taken(m, k) \ GoneTaken(m, gone, k)) = Sum(Caps(m), Taken(m, k)) - Sum(Caps(m), GoneTaken(m, gone, k))
    BY <1>1, <1>2, SumPart
  <1>7. m[k].reservedBytes = Sum(Caps(m), Held(m, k)) /\ m[k].takenBytes = Sum(Caps(m), Taken(m, k))
    BY DEF Sound, Stores
  <1> QED BY <1>4, <1>5, <1>6, <1>7

\* A release leaves the memory in order.
LEMMA ReleaseKeepsStores ==
  ASSUME NEW m, Sound(m), NEW p, p \in Seq(Account), NEW gone, MemoryReleased(m, p, gone)
  PROVE  Sound(p)
  <1>0. m \in Seq(Account) /\ Links(m) /\ MemoryClosed(m, gone)
    BY DEF Sound, MemoryReleased
  <1>1. /\ \A k \in DOMAIN m : m[k] \in Account /\ Caps(m)[k] \in Nat /\ Caps(m)[k] = m[k].capacity
        /\ \A i : Held(m, i) \subseteq DOMAIN m
        /\ \A i : Taken(m, i) \subseteq Held(m, i)
        /\ \A k \in DOMAIN m : m[k].above \subseteq DOMAIN m
    BY <1>0, MemorySummable
  <1>b. DOMAIN p = DOMAIN m /\ \A k \in DOMAIN m : p[k].in = m[k].in /\ p[k].above = m[k].above
    BY DEF MemoryReleased, SameLinks
  <1>c. \A k \in DOMAIN m : p[k].capacity = m[k].capacity /\ p[k].taken = m[k].taken
    BY DEF MemoryReleased
  <1>d. \A k \in DOMAIN m : p[k].released <=> m[k].released \/ k \in gone
    BY DEF MemoryReleased
  <1>e. \A k \in DOMAIN m :
          /\ p[k].reservedBytes = m[k].reservedBytes - Sum(Caps(m), GoneHeld(m, gone, k))
          /\ p[k].takenBytes = m[k].takenBytes - Sum(Caps(m), GoneTaken(m, gone, k))
    BY DEF MemoryReleased
  <1>2. Links(p)
    BY <1>0, <1>1, LinksKept DEF MemoryReleased
  <1>3. \A k \in DOMAIN m : Caps(p)[k] = Caps(m)[k]
    BY <1>1, <1>b, <1>c DEF Caps
  <1>4. \A i : Held(p, i) = Held(m, i) \ GoneHeld(m, gone, i)
    BY <1>b, <1>d DEF Held, GoneHeld
  <1>5. \A i : Taken(p, i) = Taken(m, i) \ GoneTaken(m, gone, i)
    BY <1>b, <1>c, <1>d DEF Held, Taken, GoneTaken
  <1>6. ASSUME NEW g \in DOMAIN m
        PROVE  /\ p[g].reservedBytes <= p[g].capacity
               /\ p[g].reservedBytes = Sum(Caps(p), Held(p, g))
               /\ p[g].takenBytes = Sum(Caps(p), Taken(p, g))
               /\ ~ p[g].released => \A k \in p[g].above : ~ p[k].released
               /\ ~ p[g].taken => Held(p, g) = {}
    <2>1. /\ m[g].reservedBytes <= m[g].capacity
          /\ ~ m[g].released => \A k \in m[g].above : ~ m[k].released
          /\ ~ m[g].taken => Held(m, g) = {}
      BY DEF Sound, Stores
    <2>2. /\ Sum(Caps(m), GoneHeld(m, gone, g)) \in Nat
          /\ Sum(Caps(m), Held(m, g) \ GoneHeld(m, gone, g)) = m[g].reservedBytes - Sum(Caps(m), GoneHeld(m, gone, g))
          /\ Sum(Caps(m), Taken(m, g) \ GoneTaken(m, gone, g)) = m[g].takenBytes - Sum(Caps(m), GoneTaken(m, gone, g))
      BY <1>0, MemoryReturned
    <2>3. p[g].reservedBytes = Sum(Caps(p), Held(p, g))
      <3>1. \A k \in Held(p, g) : Caps(p)[k] = Caps(m)[k]
        BY <1>1, <1>3, <1>4
      <3>2. Sum(Caps(p), Held(p, g)) = Sum(Caps(m), Held(p, g))
        BY <3>1, SumSame
      <3>3. Sum(Caps(m), Held(p, g)) = Sum(Caps(m), Held(m, g) \ GoneHeld(m, gone, g))
        BY <1>4, Zenon
      <3> QED BY <1>e, <2>2, <3>2, <3>3
    <2>4. p[g].takenBytes = Sum(Caps(p), Taken(p, g))
      <3>1. \A k \in Taken(p, g) : Caps(p)[k] = Caps(m)[k]
        BY <1>1, <1>3, <1>5
      <3>2. Sum(Caps(p), Taken(p, g)) = Sum(Caps(m), Taken(p, g))
        BY <3>1, SumSame
      <3>3. Sum(Caps(m), Taken(p, g)) = Sum(Caps(m), Taken(m, g) \ GoneTaken(m, gone, g))
        BY <1>5, Zenon
      <3> QED BY <1>e, <2>2, <3>2, <3>3
    <2>5. p[g].reservedBytes <= p[g].capacity
      <3>1. m[g].reservedBytes \in Nat /\ m[g].capacity \in Nat
        BY <1>1, AccountFields
      <3>2. p[g].reservedBytes = m[g].reservedBytes - Sum(Caps(m), GoneHeld(m, gone, g)) /\ p[g].capacity = m[g].capacity
        BY <1>c, <1>e
      <3> QED BY <2>1, <2>2, <3>1, <3>2
    <2>6. ASSUME ~ p[g].released, NEW k \in p[g].above PROVE ~ p[k].released
      <3>1. ~ m[g].released /\ g \notin gone /\ k \in m[g].above /\ k \in DOMAIN m
        BY <1>1, <1>b, <1>d, <2>6
      <3>2. ~ m[k].released
        BY <2>1, <3>1
      <3>3. k \notin gone
        BY <1>0, <3>1 DEF MemoryClosed
      <3> QED BY <1>d, <3>1, <3>2, <3>3
    <2>7. ~ p[g].taken => Held(p, g) = {}
      BY <1>4, <1>c, <2>1
    <2> QED BY <2>3, <2>4, <2>5, <2>6, <2>7
  <1>7. Stores(p)
    BY <1>6, <1>b DEF Stores
  <1> QED BY <1>2, <1>7 DEF Sound

\* Reservations that were not taken shrink to what the plan gives them.
MemoryCut(m, plan) == [r \in DOMAIN plan |-> m[r].capacity - plan[r]]
RowsHeld(m, plan, k) == {r \in DOMAIN plan : m[r].in = k}

MemoryFits(m, plan) ==
    /\ DOMAIN plan \subseteq DOMAIN m
    /\ \A r \in DOMAIN plan :
         /\ plan[r] \in Nat /\ ~ m[r].released /\ plan[r] <= m[r].capacity
         /\ m[r].taken => plan[r] = m[r].capacity

MemoryNarrowed(m, p, plan) ==
    /\ MemoryFits(m, plan)
    /\ SameLinks(m, p)
    /\ \A k \in DOMAIN m :
         /\ p[k].takenBytes = m[k].takenBytes /\ p[k].taken = m[k].taken /\ p[k].released = m[k].released
         /\ p[k].reservedBytes = m[k].reservedBytes - Sum(MemoryCut(m, plan), RowsHeld(m, plan, k))
    /\ \A k \in DOMAIN plan : p[k].capacity = plan[k]
    /\ \A k \in DOMAIN m \ DOMAIN plan : p[k].capacity = m[k].capacity

\* What narrowed reservations lose is part of what their pool holds.
LEMMA MemoryRowsReturn ==
  ASSUME NEW m, Sound(m), NEW plan, MemoryFits(m, plan), NEW h \in DOMAIN m
  PROVE  /\ RowsHeld(m, plan, h) \subseteq Held(m, h) /\ IsFiniteSet(RowsHeld(m, plan, h))
         /\ \A k \in RowsHeld(m, plan, h) : MemoryCut(m, plan)[k] \in Nat /\ MemoryCut(m, plan)[k] <= Caps(m)[k]
         /\ Sum(MemoryCut(m, plan), RowsHeld(m, plan, h)) \in Nat
         /\ Sum(MemoryCut(m, plan), RowsHeld(m, plan, h)) <= m[h].reservedBytes
  <1>1. RowsHeld(m, plan, h) \subseteq Held(m, h)
    BY DEF RowsHeld, Held, MemoryFits
  <1>2. /\ IsFiniteSet(Held(m, h))
        /\ \A i \in Held(m, h) : m[i] \in Account /\ Caps(m)[i] \in Nat /\ Caps(m)[i] = m[i].capacity
    BY MemorySummable DEF Sound
  <1>3. IsFiniteSet(RowsHeld(m, plan, h))
    BY <1>1, <1>2, FS_Subset
  <1>4. ASSUME NEW k \in RowsHeld(m, plan, h)
        PROVE  MemoryCut(m, plan)[k] \in Nat /\ MemoryCut(m, plan)[k] <= Caps(m)[k]
    <2>1. k \in DOMAIN plan /\ plan[k] \in Nat /\ plan[k] <= m[k].capacity
      BY DEF RowsHeld, MemoryFits
    <2>2. MemoryCut(m, plan)[k] = m[k].capacity - plan[k]
      BY <2>1 DEF MemoryCut
    <2>3. m[k].capacity \in Nat /\ Caps(m)[k] = m[k].capacity
      BY <1>1, <1>2, AccountFields
    <2> QED BY <2>1, <2>2, <2>3
  <1>5. Sum(MemoryCut(m, plan), RowsHeld(m, plan, h)) \in Nat
    BY <1>3, <1>4, UnitsFinite
  <1>6. Sum(MemoryCut(m, plan), RowsHeld(m, plan, h)) <= Sum(Caps(m), RowsHeld(m, plan, h))
    BY <1>1, <1>2, <1>3, <1>4, SumLeq
  <1>7. Sum(Caps(m), RowsHeld(m, plan, h)) <= Sum(Caps(m), Held(m, h))
    BY <1>1, <1>2, SumPart
  <1>8. Sum(Caps(m), Held(m, h)) = m[h].reservedBytes
    BY DEF Sound, Stores
  <1>9. Sum(Caps(m), RowsHeld(m, plan, h)) \in Nat /\ Sum(Caps(m), Held(m, h)) \in Nat
    BY <1>1, <1>2, <1>3, UnitsFinite
  <1>10. Sum(MemoryCut(m, plan), RowsHeld(m, plan, h)) <= m[h].reservedBytes
    BY <1>5, <1>6, <1>7, <1>8, <1>9
  <1> QED BY <1>1, <1>3, <1>4, <1>5, <1>10

\* A narrowing leaves the memory in order: a reservation that shrinks holds nothing.
LEMMA NarrowKeepsStores ==
  ASSUME NEW m, Sound(m), NEW p, p \in Seq(Account), NEW plan, MemoryNarrowed(m, p, plan)
  PROVE  Sound(p)
  <1> DEFINE back(g) == Sum(MemoryCut(m, plan), RowsHeld(m, plan, g))
  <1>0. m \in Seq(Account) /\ Links(m) /\ MemoryFits(m, plan)
    BY DEF Sound, MemoryNarrowed
  <1>1. /\ \A k \in DOMAIN m : m[k] \in Account /\ Caps(m)[k] \in Nat /\ Caps(m)[k] = m[k].capacity
        /\ \A i : Held(m, i) \subseteq DOMAIN m /\ IsFiniteSet(Held(m, i))
        /\ \A i : Taken(m, i) \subseteq Held(m, i)
        /\ \A k \in DOMAIN m : m[k].above \subseteq DOMAIN m
    BY <1>0, MemorySummable
  <1>b. DOMAIN p = DOMAIN m /\ \A k \in DOMAIN m : p[k].in = m[k].in /\ p[k].above = m[k].above
    BY DEF MemoryNarrowed, SameLinks
  <1>c. \A k \in DOMAIN m : p[k].takenBytes = m[k].takenBytes /\ p[k].taken = m[k].taken /\ p[k].released = m[k].released
    BY DEF MemoryNarrowed
  <1>d. \A k \in DOMAIN m : p[k].reservedBytes = m[k].reservedBytes - back(k)
    BY DEF MemoryNarrowed
  <1>e. /\ \A k \in DOMAIN plan : p[k].capacity = plan[k] /\ k \in DOMAIN m
        /\ \A k \in DOMAIN m \ DOMAIN plan : p[k].capacity = m[k].capacity
    BY <1>0 DEF MemoryNarrowed, MemoryFits
  <1>2. Links(p)
    BY <1>0, <1>1, LinksKept DEF MemoryNarrowed
  <1>3. \A i : Held(p, i) = Held(m, i) /\ Taken(p, i) = Taken(m, i)
    BY <1>b, <1>c DEF Held, Taken
  <1>4. \A k \in DOMAIN m : Caps(p)[k] = p[k].capacity
    BY <1>b DEF Caps
  <1>5. ASSUME NEW k \in DOMAIN plan
        PROVE  Caps(p)[k] \in Nat /\ MemoryCut(m, plan)[k] \in Nat /\ Caps(p)[k] = Caps(m)[k] - MemoryCut(m, plan)[k]
    <2>1. MemoryCut(m, plan)[k] = m[k].capacity - plan[k]
      BY DEF MemoryCut
    <2>2. Caps(p)[k] = plan[k] /\ Caps(m)[k] = m[k].capacity /\ m[k].capacity \in Nat
      BY <1>1, <1>4, <1>e, AccountFields
    <2>3. plan[k] \in Nat /\ plan[k] <= m[k].capacity
      BY <1>0 DEF MemoryFits
    <2> QED BY <2>1, <2>2, <2>3
  <1>6. \A k \in DOMAIN m : (k \notin DOMAIN plan \/ m[k].taken) => Caps(p)[k] = Caps(m)[k]
    BY <1>0, <1>1, <1>4, <1>e DEF MemoryFits
  <1>7. \A k \in DOMAIN m : Caps(p)[k] \in Nat
    BY <1>1, <1>5, <1>6
  <1>8. ASSUME NEW g \in DOMAIN m
        PROVE  /\ p[g].reservedBytes <= p[g].capacity
               /\ p[g].reservedBytes = Sum(Caps(p), Held(p, g))
               /\ p[g].takenBytes = Sum(Caps(p), Taken(p, g))
               /\ ~ p[g].released => \A k \in p[g].above : ~ p[k].released
               /\ ~ p[g].taken => Held(p, g) = {}
    <2> DEFINE K == Held(m, g)
               R == RowsHeld(m, plan, g)
    <2>1. /\ m[g].reservedBytes <= m[g].capacity
          /\ m[g].reservedBytes = Sum(Caps(m), K)
          /\ m[g].takenBytes = Sum(Caps(m), Taken(m, g))
          /\ ~ m[g].released => \A k \in m[g].above : ~ m[k].released
          /\ ~ m[g].taken => Held(m, g) = {}
      BY DEF Sound, Stores
    <2>2. R \subseteq K /\ IsFiniteSet(R) /\ IsFiniteSet(K) /\ back(g) \in Nat /\ back(g) <= m[g].reservedBytes
      BY <1>0, <1>1, MemoryRowsReturn
    <2>3. \A k \in R : /\ Caps(m)[k] \in Nat /\ MemoryCut(m, plan)[k] \in Nat /\ Caps(p)[k] \in Nat
                       /\ Caps(p)[k] = Caps(m)[k] - MemoryCut(m, plan)[k]
      <3>1. \A k \in R : k \in DOMAIN plan /\ k \in DOMAIN m
        BY <1>e DEF RowsHeld
      <3> QED BY <1>1, <1>5, <3>1
    <2>4. \A k \in K \ R : Caps(p)[k] = Caps(m)[k]
      <3>1. \A k \in K \ R : k \in DOMAIN m \ DOMAIN plan
        BY DEF Held, RowsHeld
      <3> QED BY <1>6, <3>1
    <2>5. \A k \in K : Caps(m)[k] \in Nat /\ Caps(p)[k] \in Nat
      BY <1>1, <1>7
    <2>6. back(g) = Sum(MemoryCut(m, plan), R) /\ m[g].reservedBytes \in Nat /\ m[g].capacity \in Nat
      BY <1>1, AccountFields
    <2>7. p[g].reservedBytes = m[g].reservedBytes - back(g)
      BY <1>d
    <2>8. p[g].reservedBytes = Sum(Caps(p), Held(p, g))
      <3> HIDE DEF K, R, back
      <3>1. Sum(Caps(p), R) = Sum(Caps(m), R) - Sum(MemoryCut(m, plan), R)
        BY <2>2, <2>3, SumMinus
      <3>2. Sum(Caps(p), K \ R) = Sum(Caps(m), K \ R)
        BY <2>4, SumSame
      <3>3. Sum(Caps(m), K \ R) = Sum(Caps(m), K) - Sum(Caps(m), R) /\ Sum(Caps(p), K \ R) = Sum(Caps(p), K) - Sum(Caps(p), R)
        BY <2>2, <2>5, SumPart
      <3>4. /\ Sum(Caps(m), R) \in Nat /\ Sum(Caps(p), R) \in Nat
            /\ Sum(Caps(m), K) \in Nat /\ Sum(Caps(p), K) \in Nat
        BY <2>2, <2>5, UnitsFinite
      <3>5. Sum(MemoryCut(m, plan), R) \in Nat
        BY <2>2, <2>3, UnitsFinite
      <3>6. Sum(Caps(p), K) - Sum(Caps(p), R) = Sum(Caps(m), K) - Sum(Caps(m), R)
        BY <3>2, <3>3, Zenon
      <3>7. Sum(Caps(p), K) = Sum(Caps(m), K) - Sum(MemoryCut(m, plan), R)
        BY <3>1, <3>4, <3>5, <3>6
      <3>8. p[g].reservedBytes = Sum(Caps(p), K)
        BY <2>1, <2>6, <2>7, <3>7, Zenon
      <3> QED BY <1>3, <3>8 DEF K
    <2>9. p[g].takenBytes = Sum(Caps(p), Taken(p, g))
      <3>1. \A k \in Taken(m, g) : Caps(p)[k] = Caps(m)[k]
        BY <1>1, <1>6 DEF Taken
      <3>2. Sum(Caps(p), Taken(m, g)) = Sum(Caps(m), Taken(m, g))
        BY <3>1, SumSame
      <3> QED BY <1>3, <1>c, <2>1, <3>2
    <2>10. p[g].reservedBytes <= p[g].capacity
      <3>1. CASE g \notin DOMAIN plan \/ m[g].taken
        <4>1. p[g].capacity = m[g].capacity
          BY <1>1, <1>4, <1>6, <3>1
        <4> HIDE DEF back
        <4> QED BY <2>1, <2>2, <2>6, <2>7, <4>1
      <3>2. CASE g \in DOMAIN plan /\ ~ m[g].taken
        <4>1. p[g].capacity \in Nat
          BY <1>4, <1>7
        <4>2. Sum(Caps(p), Held(p, g)) = 0
          BY <1>3, <2>1, <3>2, SumEmpty, Zenon
        <4> QED BY <2>8, <4>1, <4>2
      <3> QED BY <3>1, <3>2
    <2>11. ~ p[g].released => \A k \in p[g].above : ~ p[k].released
      BY <1>1, <1>b, <1>c, <2>1
    <2>12. ~ p[g].taken => Held(p, g) = {}
      BY <1>3, <1>c, <2>1
    <2> QED BY <2>8, <2>9, <2>10, <2>11, <2>12
  <1>9. Stores(p)
    BY <1>8, <1>b DEF Stores
  <1> QED BY <1>2, <1>9 DEF Sound

\* ------------------------------------------------------------- the actions

\* What SpendingIsFinal says of two states of the ledgers.
Final(L, M) ==
    \A h \in DOMAIN L :
        /\ h \in DOMAIN M
        /\ M[h].spent >= L[h].spent
        /\ L[h].released => M[h].released /\ M[h].spent = L[h].spent /\ M[h].reserved = L[h].reserved

\* A new ledger changes nothing that was spent, nor a released ledger.
LEMMA AddFinal ==
  ASSUME NEW L, Good(L), NEW M, NEW n, NEW h, NEW amount, Appended(L, M, n, h, amount)
  PROVE  Final(L, M)
  <1> SUFFICES ASSUME NEW g \in DOMAIN L
               PROVE  /\ g \in DOMAIN M /\ M[g].spent >= L[g].spent
                      /\ L[g].released => M[g].released /\ M[g].spent = L[g].spent /\ M[g].reserved = L[g].reserved
    BY DEF Final
  <1>1. DOMAIN M = DOMAIN L \cup {n} /\ M[g].spent = L[g].spent /\ M[g].released = L[g].released
    BY DEF Appended
  <1>2. L[g].spent \in Nat /\ g # 0
    BY Summable, AboveInDomain, Fields
  <1>3. L[g].released => g # h
    BY <1>2 DEF Appended
  <1>4. g # h => M[g].reserved = L[g].reserved
    BY DEF Appended
  <1> QED BY <1>1, <1>2, <1>3, <1>4

\* A charge never lowers what was spent and passes by released ledgers.
LEMMA ChargeFinal ==
  ASSUME NEW L, Good(L), NEW M, NEW h, NEW amount \in Nat, Charged(L, M, h, amount)
  PROVE  Final(L, M)
  <1> SUFFICES ASSUME NEW g \in DOMAIN L
               PROVE  /\ g \in DOMAIN M /\ M[g].spent >= L[g].spent
                      /\ L[g].released => M[g].released /\ M[g].spent = L[g].spent /\ M[g].reserved = L[g].reserved
    BY DEF Final
  <1>1. DOMAIN M = DOMAIN L /\ M[g].released = L[g].released
    BY DEF Charged, SameTree
  <1>2. L[g].spent \in Nat
    BY Summable, Fields
  <1>3. h \in DOMAIN L /\ ~ L[h].released
    BY DEF Charged
  <1>4. L[g].released => g \notin Path(L, h)
    BY <1>3 DEF Good, Books, Path
  <1>5. CASE g \in Path(L, h)
    <2>1. M[g].spent = L[g].spent + amount
      BY <1>5 DEF Charged, Path
    <2> QED BY <1>1, <1>2, <1>4, <1>5, <2>1
  <1>6. CASE g \notin Path(L, h)
    <2>1. M[g].spent = L[g].spent /\ M[g].reserved = L[g].reserved
      BY <1>6 DEF Charged
    <2> QED BY <1>1, <1>2, <2>1
  <1> QED BY <1>5, <1>6

\* A released ledger has no live children.
LEMMA NoKids ==
  ASSUME NEW L, Good(L), NEW h \in DOMAIN L, L[h].released
  PROVE  Kids(L, h) = {}
  <1> SUFFICES ASSUME NEW k \in Kids(L, h) PROVE FALSE
    OBVIOUS
  <1>1. k \in DOMAIN L /\ L[k].parent = h /\ ~ L[k].released /\ h # 0
    BY AboveInDomain DEF Kids
  <1>2. h \in L[k].above
    BY <1>1 DEF Good, Tree
  <1> QED BY <1>1, <1>2 DEF Good, Books

\* A release changes nothing that was spent, nor a released ledger.
LEMMA ReleaseFinal ==
  ASSUME NEW L, Good(L), NEW M, NEW gone, Released(L, M, gone)
  PROVE  Final(L, M)
  <1> SUFFICES ASSUME NEW g \in DOMAIN L
               PROVE  /\ g \in DOMAIN M /\ M[g].spent >= L[g].spent
                      /\ L[g].released => M[g].released /\ M[g].spent = L[g].spent /\ M[g].reserved = L[g].reserved
    BY DEF Final
  <1>1. DOMAIN M = DOMAIN L /\ M[g].spent = L[g].spent /\ (M[g].released <=> L[g].released \/ g \in gone)
    BY DEF Released, SameTree
  <1>2. L[g].spent \in Nat /\ L[g].reserved \in Nat
    BY Summable, Fields
  <1>3. ASSUME L[g].released PROVE M[g].reserved = L[g].reserved
    <2>1. GoneKids(L, gone, g) = {}
      BY <1>3, NoKids, ReleaseFunded DEF Released
    <2>2. Sum(Rest(L), GoneKids(L, gone, g)) = 0
      BY <2>1, SumEmpty, Zenon
    <2>3. M[g].reserved = L[g].reserved - Sum(Rest(L), GoneKids(L, gone, g))
      BY DEF Released
    <2> QED BY <1>2, <2>2, <2>3
  <1> QED BY <1>1, <1>2, <1>3

\* A narrowing changes nothing that was spent, nor a released ledger.
LEMMA NarrowFinal ==
  ASSUME NEW L, Good(L), NEW M, NEW plan, Narrowed(L, M, plan)
  PROVE  Final(L, M)
  <1> SUFFICES ASSUME NEW g \in DOMAIN L
               PROVE  /\ g \in DOMAIN M /\ M[g].spent >= L[g].spent
                      /\ L[g].released => M[g].released /\ M[g].spent = L[g].spent /\ M[g].reserved = L[g].reserved
    BY DEF Final
  <1>1. DOMAIN M = DOMAIN L /\ M[g].spent = L[g].spent /\ M[g].released = L[g].released
    BY DEF Narrowed, SameTree
  <1>2. L[g].spent \in Nat /\ L[g].reserved \in Nat
    BY Summable, Fields
  <1>3. ASSUME L[g].released PROVE M[g].reserved = L[g].reserved
    <2>1. RowKids(L, plan, g) \subseteq Kids(L, g)
      BY DEF RowKids, Kids, Narrowed, Fits
    <2>2. RowKids(L, plan, g) = {}
      BY <1>3, <2>1, NoKids
    <2>3. Sum(Cut(L, plan), RowKids(L, plan, g)) = 0
      BY <2>2, SumEmpty, Zenon
    <2>4. M[g].reserved = L[g].reserved - Sum(Cut(L, plan), RowKids(L, plan, g))
      BY DEF Narrowed
    <2> QED BY <1>2, <2>3, <2>4
  <1> QED BY <1>1, <1>2, <1>3

\* A sequence that grows by one.
LEMMA Grown ==
  ASSUME NEW R, NEW L \in Seq(R), NEW l \in R, NEW M, M = Append(L, l)
  PROVE  /\ M \in Seq(R) /\ DOMAIN M = DOMAIN L \cup {Len(L) + 1} /\ M[Len(L) + 1] = l
         /\ \A k \in DOMAIN L : M[k] = L[k]
  <1>1. M \in Seq(R) /\ Len(M) = Len(L) + 1 /\ M[Len(L) + 1] = l /\ \A k \in 1 .. Len(L) : M[k] = L[k]
    OBVIOUS
  <1>2. DOMAIN M = 1 .. Len(L) + 1 /\ DOMAIN L = 1 .. Len(L) /\ Len(L) \in Nat
    BY <1>1
  <1>3. 1 .. Len(L) + 1 = (1 .. Len(L)) \cup {Len(L) + 1}
    BY <1>2
  <1> QED BY <1>1, <1>2, <1>3

\* A ledger with one or two of its fields changed.
WithReserved(l, x) == [l EXCEPT !.reserved = x]

\* The fields of WithReserved(l, ...).
LEMMA WithReservedFields ==
  ASSUME NEW l \in Ledger, NEW x \in Nat
  PROVE  /\ WithReserved(l, x) \in Ledger
         /\ WithReserved(l, x).parent = l.parent /\ WithReserved(l, x).above = l.above
         /\ WithReserved(l, x).allocated = l.allocated /\ WithReserved(l, x).spent = l.spent
         /\ WithReserved(l, x).direct = l.direct /\ WithReserved(l, x).reserved = x /\ WithReserved(l, x).released = l.released
  BY DEF Ledger, WithReserved

WithSpentDirect(l, x, y) == [l EXCEPT !.spent = x, !.direct = y]

\* The fields of WithSpentDirect(l, ...).
LEMMA WithSpentDirectFields ==
  ASSUME NEW l \in Ledger, NEW x \in Nat, NEW y \in Nat
  PROVE  /\ WithSpentDirect(l, x, y) \in Ledger
         /\ WithSpentDirect(l, x, y).parent = l.parent /\ WithSpentDirect(l, x, y).above = l.above
         /\ WithSpentDirect(l, x, y).allocated = l.allocated /\ WithSpentDirect(l, x, y).spent = x
         /\ WithSpentDirect(l, x, y).direct = y /\ WithSpentDirect(l, x, y).reserved = l.reserved /\ WithSpentDirect(l, x, y).released = l.released
  BY DEF Ledger, WithSpentDirect

WithSpentReserved(l, x, y) == [l EXCEPT !.spent = x, !.reserved = y]

\* The fields of WithSpentReserved(l, ...).
LEMMA WithSpentReservedFields ==
  ASSUME NEW l \in Ledger, NEW x \in Nat, NEW y \in Nat
  PROVE  /\ WithSpentReserved(l, x, y) \in Ledger
         /\ WithSpentReserved(l, x, y).parent = l.parent /\ WithSpentReserved(l, x, y).above = l.above
         /\ WithSpentReserved(l, x, y).allocated = l.allocated /\ WithSpentReserved(l, x, y).spent = x
         /\ WithSpentReserved(l, x, y).direct = l.direct /\ WithSpentReserved(l, x, y).reserved = y /\ WithSpentReserved(l, x, y).released = l.released
  BY DEF Ledger, WithSpentReserved

WithReleased(l, x, y) == [l EXCEPT !.released = x, !.reserved = y]

\* The fields of WithReleased(l, ...).
LEMMA WithReleasedFields ==
  ASSUME NEW l \in Ledger, NEW x \in BOOLEAN, NEW y \in Nat
  PROVE  /\ WithReleased(l, x, y) \in Ledger
         /\ WithReleased(l, x, y).parent = l.parent /\ WithReleased(l, x, y).above = l.above
         /\ WithReleased(l, x, y).allocated = l.allocated /\ WithReleased(l, x, y).spent = l.spent
         /\ WithReleased(l, x, y).direct = l.direct /\ WithReleased(l, x, y).reserved = y /\ WithReleased(l, x, y).released = x
  BY DEF Ledger, WithReleased

WithAllocated(l, x, y) == [l EXCEPT !.allocated = x, !.reserved = y]

\* The fields of WithAllocated(l, ...).
LEMMA WithAllocatedFields ==
  ASSUME NEW l \in Ledger, NEW x \in Nat, NEW y \in Nat
  PROVE  /\ WithAllocated(l, x, y) \in Ledger
         /\ WithAllocated(l, x, y).parent = l.parent /\ WithAllocated(l, x, y).above = l.above
         /\ WithAllocated(l, x, y).allocated = x /\ WithAllocated(l, x, y).spent = l.spent
         /\ WithAllocated(l, x, y).direct = l.direct /\ WithAllocated(l, x, y).reserved = y /\ WithAllocated(l, x, y).released = l.released
  BY DEF Ledger, WithAllocated

\* createPeerLedger(), and the root of a branch.
LEMMA MakeRoot ==
  ASSUME Good(ledgers), NEW amount \in Nat, ledgers' = Append(ledgers, NewLedger(NoParent, {}, amount))
  PROVE  Good(ledgers') /\ Final(ledgers, ledgers')
  <1> DEFINE L == ledgers
             M == ledgers'
             l == NewLedger(NoParent, {}, amount)
             n == Len(L) + 1
  <1>1. /\ l \in Ledger /\ l.parent = 0 /\ l.above = {} /\ l.allocated = amount /\ l.spent = 0 /\ l.direct = 0
        /\ l.reserved = 0 /\ ~ l.released
    BY DEF NewLedger, NoParent, Ledger
  <1>2. L \in Seq(Ledger)
    BY DEF Good
  <1>3. M = Append(L, l)
    OBVIOUS
  <1> HIDE DEF l
  <1>4. /\ M \in Seq(Ledger) /\ DOMAIN M = DOMAIN L \cup {n} /\ M[n] = l
        /\ \A k \in DOMAIN L : M[k] = L[k]
    BY <1>1, <1>2, <1>3, Grown
  <1> HIDE DEF L, M, n
  <1>5. Appended(L, M, n, 0, amount)
    <2>1. \A k \in DOMAIN L :
            /\ M[k].parent = L[k].parent /\ M[k].above = L[k].above /\ M[k].released = L[k].released
            /\ M[k].allocated = L[k].allocated /\ M[k].spent = L[k].spent /\ M[k].direct = L[k].direct
      BY <1>4
    <2>2. \A k \in DOMAIN L \ {0} : M[k].reserved = L[k].reserved
      BY <1>4
    <2> QED BY <1>1, <1>4, <2>1, <2>2 DEF Appended
  <1>6. Good(L)
    BY DEF L
  <1>7. Good(M)
    BY <1>4, <1>5, <1>6, Added DEF n
  <1>8. Final(L, M)
    BY <1>5, <1>6, AddFinal
  <1> QED BY <1>7, <1>8 DEF L, M

\* reservePeerLedger().
LEMMA Reserve ==
  ASSUME Good(ledgers), NEW h \in Handles, NEW amount \in Nat, ReservePeerLedger(h, amount)
  PROVE  Good(ledgers') /\ Final(ledgers, ledgers')
  <1> DEFINE L == ledgers
             M == ledgers'
             r == [L[h] EXCEPT !.reserved = L[h].reserved + amount]
             P == [L EXCEPT ![h] = r]
             l == NewLedger(h, L[h].above \cup {h}, amount)
             n == Len(L) + 1
  <1>1. L \in Seq(Ledger) /\ h \in DOMAIN L /\ L[h] \in Ledger /\ h \in Nat
    BY Summable DEF Good, Handles
  <1>2. M = Append(P, l)
    BY DEF ReservePeerLedger
  <1>3. ~ L[h].released /\ amount <= L[h].allocated - L[h].spent - L[h].reserved
    BY DEF ReservePeerLedger, Live, Remaining
  <1>4. L[h].above \in SUBSET Nat /\ L[h].reserved \in Nat
    BY <1>1, Fields
  <1>5. /\ l \in Ledger /\ l.parent = h /\ l.above = L[h].above \cup {h} /\ l.allocated = amount /\ l.spent = 0 /\ l.direct = 0
        /\ l.reserved = 0 /\ ~ l.released
    BY <1>1, <1>4 DEF NewLedger, Ledger
  <1>6. /\ r \in Ledger /\ r.reserved = L[h].reserved + amount /\ r.parent = L[h].parent /\ r.above = L[h].above
        /\ r.allocated = L[h].allocated /\ r.spent = L[h].spent /\ r.direct = L[h].direct /\ r.released = L[h].released
    <2>1. L[h].reserved + amount \in Nat
      BY <1>4
    <2>2. r = WithReserved(L[h], L[h].reserved + amount)
      BY Zenon DEF WithReserved
    <2> HIDE DEF r
    <2> QED BY <1>1, <2>1, <2>2, WithReservedFields
  <1> HIDE DEF l, r
  <1>7. P \in Seq(Ledger) /\ DOMAIN P = DOMAIN L /\ Len(P) = Len(L) /\ P[h] = r /\ \A k \in DOMAIN L \ {h} : P[k] = L[k]
    BY <1>1, <1>6
  <1> HIDE DEF P
  <1>8. /\ M \in Seq(Ledger) /\ DOMAIN M = DOMAIN P \cup {Len(P) + 1} /\ M[Len(P) + 1] = l
        /\ \A k \in DOMAIN P : M[k] = P[k]
    BY <1>2, <1>5, <1>7, Grown
  <1>9. DOMAIN M = DOMAIN L \cup {n} /\ M[n] = l /\ M[h] = r /\ \A k \in DOMAIN L \ {h} : M[k] = L[k]
    BY <1>1, <1>7, <1>8
  <1> HIDE DEF L, M, n
  <1>10. Appended(L, M, n, h, amount)
    <2>1. \A k \in DOMAIN L :
            /\ M[k].parent = L[k].parent /\ M[k].above = L[k].above /\ M[k].released = L[k].released
            /\ M[k].allocated = L[k].allocated /\ M[k].spent = L[k].spent /\ M[k].direct = L[k].direct
      BY <1>6, <1>9
    <2> QED BY <1>1, <1>3, <1>5, <1>6, <1>9, <2>1 DEF Appended
  <1>11. Good(L)
    BY DEF L
  <1>12. Good(M)
    BY <1>8, <1>10, <1>11, Added DEF n
  <1>13. Final(L, M)
    BY <1>10, <1>11, AddFinal
  <1> QED BY <1>12, <1>13 DEF L, M

\* chargePeerLedger().
LEMMA Charge ==
  ASSUME Good(ledgers), NEW h \in Handles, NEW amount \in Nat, ChargePeerLedger(h, amount)
  PROVE  Good(ledgers') /\ Final(ledgers, ledgers')
  <1> DEFINE L == ledgers
             M == ledgers'
             a(k) == [L[k] EXCEPT !.spent = L[k].spent + amount, !.direct = L[k].direct + amount]
             b(k) == [L[k] EXCEPT !.spent = L[k].spent + amount, !.reserved = L[k].reserved - amount]
  <1>1. M = [k \in DOMAIN L |-> IF k = h THEN a(k) ELSE IF k \in L[h].above THEN b(k) ELSE L[k]]
    BY DEF ChargePeerLedger, ChargedAncestors, Handles
  <1>2. ~ L[h].released /\ amount <= L[h].allocated - L[h].spent - L[h].reserved
    BY DEF ChargePeerLedger, Live, Remaining
  <1>3. Good(L) /\ L \in Seq(Ledger) /\ h \in DOMAIN L
    BY DEF Good, Handles
  <1>4. \A k \in DOMAIN L : L[k] \in Ledger
    BY <1>3, Summable
  <1>5. L[h].above \subseteq DOMAIN L /\ h \notin L[h].above
    BY <1>3, AboveInDomain
  <1>6. \A k \in L[h].above : amount <= L[k].reserved
    BY <1>2, <1>3, ChargeFunded
  <1>7. ASSUME NEW k \in DOMAIN L
        PROVE  L[k].spent \in Nat /\ L[k].direct \in Nat /\ L[k].reserved \in Nat
    BY <1>4, Fields
  <1>8. DOMAIN M = DOMAIN L /\ M = [k \in DOMAIN L |-> M[k]]
    BY <1>1
  <1>9. /\ M[h] = a(h)
        /\ \A k \in L[h].above : M[k] = b(k)
        /\ \A k \in DOMAIN L \ Path(L, h) : M[k] = L[k]
    BY <1>1, <1>3, <1>5, Zenon DEF Path
  <1>10. /\ M[h] \in Ledger /\ M[h].parent = L[h].parent /\ M[h].above = L[h].above /\ M[h].allocated = L[h].allocated
         /\ M[h].spent = L[h].spent + amount /\ M[h].direct = L[h].direct + amount
         /\ M[h].reserved = L[h].reserved /\ M[h].released = L[h].released
    <2> DEFINE x == L[h].spent + amount
               y == L[h].direct + amount
    <2>1. x \in Nat /\ y \in Nat /\ L[h] \in Ledger
      BY <1>3, <1>4, <1>7
    <2>2. M[h] = WithSpentDirect(L[h], x, y)
      BY <1>9, Zenon DEF WithSpentDirect
    <2> HIDE DEF L, M, a, b, x, y
    <2>3. /\ M[h] \in Ledger /\ M[h].parent = L[h].parent /\ M[h].above = L[h].above /\ M[h].allocated = L[h].allocated
          /\ M[h].spent = x /\ M[h].direct = y /\ M[h].reserved = L[h].reserved /\ M[h].released = L[h].released
      <3> DEFINE l == L[h]
      <3>1. l \in Ledger /\ M[h] = WithSpentDirect(l, x, y)
        BY <2>1, <2>2
      <3> HIDE DEF l
      <3>2. /\ M[h] \in Ledger /\ M[h].parent = l.parent /\ M[h].above = l.above /\ M[h].allocated = l.allocated
            /\ M[h].spent = x /\ M[h].direct = y /\ M[h].reserved = l.reserved /\ M[h].released = l.released
        BY <2>1, <3>1, WithSpentDirectFields
      <3> QED BY <3>2 DEF l
    <2> QED BY <2>3, Zenon DEF x, y
  <1>11. ASSUME NEW k \in L[h].above
         PROVE  /\ M[k] \in Ledger /\ M[k].parent = L[k].parent /\ M[k].above = L[k].above /\ M[k].allocated = L[k].allocated
                /\ M[k].spent = L[k].spent + amount /\ M[k].direct = L[k].direct
                /\ M[k].reserved = L[k].reserved - amount /\ M[k].released = L[k].released
    <2> DEFINE x == L[k].spent + amount
               y == L[k].reserved - amount
    <2>1. x \in Nat /\ y \in Nat /\ L[k] \in Ledger
      BY <1>4, <1>5, <1>6, <1>7
    <2>2. M[k] = WithSpentReserved(L[k], x, y)
      BY <1>9, Zenon DEF WithSpentReserved
    <2> HIDE DEF L, M, a, b, x, y
    <2>3. /\ M[k] \in Ledger /\ M[k].parent = L[k].parent /\ M[k].above = L[k].above /\ M[k].allocated = L[k].allocated
          /\ M[k].spent = x /\ M[k].direct = L[k].direct /\ M[k].reserved = y /\ M[k].released = L[k].released
      <3> DEFINE l == L[k]
      <3>1. l \in Ledger /\ M[k] = WithSpentReserved(l, x, y)
        BY <2>1, <2>2
      <3> HIDE DEF l
      <3>2. /\ M[k] \in Ledger /\ M[k].parent = l.parent /\ M[k].above = l.above /\ M[k].allocated = l.allocated
            /\ M[k].spent = x /\ M[k].direct = l.direct /\ M[k].reserved = y /\ M[k].released = l.released
        BY <2>1, <3>1, WithSpentReservedFields
      <3> QED BY <3>2 DEF l
    <2> QED BY <2>3, Zenon DEF x, y
  <1> HIDE DEF a, b
  <1>12. ASSUME NEW k \in DOMAIN L
         PROVE  /\ M[k] \in Ledger /\ M[k].parent = L[k].parent /\ M[k].above = L[k].above
                /\ M[k].allocated = L[k].allocated /\ M[k].released = L[k].released
    <2>1. CASE k \in Path(L, h)
      BY <1>10, <1>11, <2>1 DEF Path
    <2>2. CASE k \notin Path(L, h)
      BY <1>4, <1>9, <2>2
    <2> QED BY <2>1, <2>2
  <1> HIDE DEF L, M
  <1>13. M \in Seq(Ledger)
    BY <1>3, <1>8, <1>12, AsSequence
  <1>14. Charged(L, M, h, amount)
    <2>1. SameTree(L, M)
      BY <1>8, <1>12 DEF SameTree
    <2>2. \A k \in DOMAIN L \ Path(L, h) :
            M[k].spent = L[k].spent /\ M[k].direct = L[k].direct /\ M[k].reserved = L[k].reserved
      BY <1>9
    <2> QED BY <1>2, <1>3, <1>10, <1>11, <1>12, <2>1, <2>2 DEF Charged
  <1>15. Good(M)
    BY <1>3, <1>13, <1>14, ChargeKeepsBooks
  <1>16. Final(L, M)
    BY <1>3, <1>14, ChargeFinal
  <1> QED BY <1>15, <1>16 DEF L, M

\* The ledgers a release takes with it are closed downward.
LEMMA WithBelow ==
  ASSUME Good(ledgers), NEW S \in SUBSET Handles
  PROVE  /\ Closed(ledgers, UNION {ReleasedWith(b) : b \in S})
         /\ \A b \in S : Live(b) => b \in UNION {ReleasedWith(c) : c \in S}
  <1> DEFINE gone == UNION {ReleasedWith(b) : b \in S}
  <1>1. \A k : k \in gone <=> k \in DOMAIN ledgers /\ ~ ledgers[k].released /\ \E b \in S : k = b \/ b \in ledgers[k].above
    BY DEF ReleasedWith, Live, Handles
  <1> HIDE DEF gone
  <1>2. gone \subseteq DOMAIN ledgers /\ \A k \in gone : ~ ledgers[k].released
    BY <1>1
  <1>3. ASSUME NEW k \in DOMAIN ledgers, NEW x \in gone, ~ ledgers[k].released, x \in ledgers[k].above PROVE k \in gone
    <2>1. PICK b \in S : x = b \/ b \in ledgers[x].above
      BY <1>1
    <2>2. b \in ledgers[k].above
      BY <1>3, <2>1 DEF Good, Tree
    <2> QED BY <1>1, <1>3, <2>2
  <1>4. Closed(ledgers, gone)
    BY <1>2, <1>3 DEF Closed
  <1>5. \A b \in S : Live(b) => b \in gone
    BY <1>1 DEF Live, Handles
  <1> QED BY <1>4, <1>5 DEF gone

\* releasePeerLedger() of a set of ledgers that is closed downward.
LEMMA ReleaseAll ==
  ASSUME Good(ledgers), NEW gone, Closed(ledgers, gone), ledgers' = Release(gone)
  PROVE  Good(ledgers') /\ Final(ledgers, ledgers') /\ Released(ledgers, ledgers', gone)
  <1> DEFINE L == ledgers
             M == ledgers'
             rel(k) == L[k].released \/ k \in gone
             left(k) == L[k].reserved - Sum(Rest(L), GoneKids(L, gone, k))
             r(k) == [L[k] EXCEPT !.released = rel(k), !.reserved = left(k)]
  <1>1. Unspent = Rest(L)
    BY DEF Unspent, Rest, Handles
  <1>2. M = [k \in DOMAIN L |-> r(k)]
    BY <1>1, Zenon DEF Release, Handles, GoneKids
  <1>3. Good(L) /\ L \in Seq(Ledger) /\ \A k \in DOMAIN L : L[k] \in Ledger
    BY Summable DEF Good
  <1>4. ASSUME NEW k \in DOMAIN L
        PROVE  /\ M[k] \in Ledger /\ M[k].parent = L[k].parent /\ M[k].above = L[k].above /\ M[k].allocated = L[k].allocated
               /\ M[k].spent = L[k].spent /\ M[k].direct = L[k].direct
               /\ M[k].reserved = left(k) /\ M[k].released = rel(k)
    <2>1. rel(k) \in BOOLEAN
      BY <1>3, Fields
    <2>2. left(k) \in Nat
      <3>1. L[k].reserved \in Nat
        BY <1>3, Fields
      <3>2. Sum(Rest(L), GoneKids(L, gone, k)) \in Nat /\ Sum(Rest(L), GoneKids(L, gone, k)) <= L[k].reserved
        BY ReleaseFunded
      <3> QED BY <3>1, <3>2
    <2>3. M[k] = WithReleased(L[k], rel(k), left(k))
      BY <1>2, Zenon DEF WithReleased
    <2> HIDE DEF rel, left, L, M, r
    <2> QED BY <1>3, <2>1, <2>2, <2>3, WithReleasedFields
  <1>5. DOMAIN M = DOMAIN L /\ M = [k \in DOMAIN L |-> M[k]]
    BY <1>2, Zenon
  <1> HIDE DEF r
  <1>6. M \in Seq(Ledger)
    BY <1>3, <1>4, <1>5, AsSequence
  <1>7. Released(L, M, gone)
    <2>1. SameTree(L, M)
      BY <1>4, <1>5 DEF SameTree
    <2> QED BY <1>4, <2>1, Zenon DEF Released
  <1> HIDE DEF L, M
  <1>8. Good(M) /\ Final(L, M)
    BY <1>3, <1>6, <1>7, ReleaseKeepsBooks, ReleaseFinal
  <1> QED BY <1>7, <1>8 DEF L, M

\* What narrowPeerReservations() publishes for the ledgers.
NarrowLedgers(rows, plan) ==
    ledgers' = [k \in Handles |->
        [ledgers[k] EXCEPT !.allocated = IF k \in rows THEN plan[k] ELSE @,
                           !.reserved = @ - Returned(plan, k)]]

\* narrowPeerReservations(), the rows of ledgers.
LEMMA Narrow ==
  ASSUME Good(ledgers), NEW rows \in SUBSET {h \in Handles : Live(h)}, NEW plan \in [rows -> Amounts], Narrowable(plan),
         NarrowLedgers(rows, plan)
  PROVE  Good(ledgers') /\ Final(ledgers, ledgers')
  <1> DEFINE L == ledgers
             M == ledgers'
             new(k) == IF k \in rows THEN plan[k] ELSE L[k].allocated
             left(k) == L[k].reserved - Sum(Cut(L, plan), RowKids(L, plan, k))
             r(k) == [L[k] EXCEPT !.allocated = new(k), !.reserved = left(k)]
  <1>0. DOMAIN plan = rows /\ \A k \in rows : plan[k] \in Nat /\ k \in DOMAIN L
    BY LedgerAssumption DEF Handles
  <1>1. \A k : Returned(plan, k) = Sum(Cut(L, plan), RowKids(L, plan, k))
    BY DEF Returned, Cut, RowKids
  <1>2. M = [k \in DOMAIN L |-> r(k)]
    BY <1>1, Zenon DEF Handles, NarrowLedgers
  <1>3. Good(L) /\ L \in Seq(Ledger) /\ \A k \in DOMAIN L : L[k] \in Ledger
    BY Summable DEF Good
  <1>4. Fits(L, plan)
    BY <1>0, <1>1 DEF Fits, Narrowable, Live
  <1>5. ASSUME NEW k \in DOMAIN L
        PROVE  /\ M[k] \in Ledger /\ M[k].parent = L[k].parent /\ M[k].above = L[k].above /\ M[k].allocated = new(k)
               /\ M[k].spent = L[k].spent /\ M[k].direct = L[k].direct
               /\ M[k].reserved = left(k) /\ M[k].released = L[k].released
    <2>1. new(k) \in Nat
      BY <1>0, <1>3, Fields
    <2>2. left(k) \in Nat
      <3>1. L[k].reserved \in Nat
        BY <1>3, Fields
      <3>2. \A i \in RowKids(L, plan, k) : plan[i] >= L[i].spent
        BY <1>3, <1>4, RowsCover DEF RowKids
      <3>3. Sum(Cut(L, plan), RowKids(L, plan, k)) \in Nat /\ Sum(Cut(L, plan), RowKids(L, plan, k)) <= L[k].reserved
        BY <1>3, <1>4, <3>2, RowsReturn
      <3> HIDE DEF L
      <3> QED BY <3>1, <3>3
    <2>3. M[k] = WithAllocated(L[k], new(k), left(k))
      BY <1>2, Zenon DEF WithAllocated
    <2> HIDE DEF new, left, L, M, r
    <2> DEFINE l == L[k]
               x == new(k)
               y == left(k)
    <2>4. l \in Ledger /\ x \in Nat /\ y \in Nat /\ M[k] = WithAllocated(l, x, y)
      BY <1>3, <2>1, <2>2, <2>3
    <2> HIDE DEF l, x, y
    <2>5. /\ M[k] \in Ledger /\ M[k].parent = l.parent /\ M[k].above = l.above /\ M[k].allocated = x
          /\ M[k].spent = l.spent /\ M[k].direct = l.direct /\ M[k].reserved = y /\ M[k].released = l.released
      BY <2>4, WithAllocatedFields
    <2> QED BY <2>5 DEF l, x, y
  <1>6. DOMAIN M = DOMAIN L /\ M = [k \in DOMAIN L |-> M[k]]
    BY <1>2, Zenon
  <1> HIDE DEF r
  <1>7. M \in Seq(Ledger)
    <2> HIDE DEF L, M, new, left
    <2> QED BY <1>3, <1>5, <1>6, AsSequence
  <1>8. Narrowed(L, M, plan)
    <2>1. SameTree(L, M)
      BY <1>5, <1>6 DEF SameTree
    <2>2. /\ \A k \in DOMAIN plan : M[k].allocated = plan[k]
          /\ \A k \in DOMAIN L \ DOMAIN plan : M[k].allocated = L[k].allocated
      <3> HIDE DEF M, L
      <3> QED BY <1>0, <1>5, Zenon
    <2> QED BY <1>4, <1>5, <2>1, <2>2, Zenon DEF Narrowed
  <1> HIDE DEF L, M
  <1>9. Good(M) /\ Final(L, M)
    BY <1>3, <1>7, <1>8, NarrowKeepsBooks, NarrowFinal
  <1> QED BY <1>9 DEF L, M

\* A memory account with some of its fields changed.
WithReservedBytes(l, x) == [l EXCEPT !.reservedBytes = x]

\* The fields of WithReservedBytes(l, ...).
LEMMA WithReservedBytesFields ==
  ASSUME NEW l \in Account, NEW x \in Nat
  PROVE  /\ WithReservedBytes(l, x) \in Account
         /\ WithReservedBytes(l, x).in = l.in /\ WithReservedBytes(l, x).above = l.above
         /\ WithReservedBytes(l, x).capacity = l.capacity /\ WithReservedBytes(l, x).reservedBytes = x
         /\ WithReservedBytes(l, x).takenBytes = l.takenBytes /\ WithReservedBytes(l, x).taken = l.taken /\ WithReservedBytes(l, x).released = l.released
  BY DEF Account, WithReservedBytes

WithTaken(l, x) == [l EXCEPT !.taken = x]

\* The fields of WithTaken(l, ...).
LEMMA WithTakenFields ==
  ASSUME NEW l \in Account, NEW x \in BOOLEAN
  PROVE  /\ WithTaken(l, x) \in Account
         /\ WithTaken(l, x).in = l.in /\ WithTaken(l, x).above = l.above
         /\ WithTaken(l, x).capacity = l.capacity /\ WithTaken(l, x).reservedBytes = l.reservedBytes
         /\ WithTaken(l, x).takenBytes = l.takenBytes /\ WithTaken(l, x).taken = x /\ WithTaken(l, x).released = l.released
  BY DEF Account, WithTaken

WithTakenBytes(l, x) == [l EXCEPT !.takenBytes = x]

\* The fields of WithTakenBytes(l, ...).
LEMMA WithTakenBytesFields ==
  ASSUME NEW l \in Account, NEW x \in Nat
  PROVE  /\ WithTakenBytes(l, x) \in Account
         /\ WithTakenBytes(l, x).in = l.in /\ WithTakenBytes(l, x).above = l.above
         /\ WithTakenBytes(l, x).capacity = l.capacity /\ WithTakenBytes(l, x).reservedBytes = l.reservedBytes
         /\ WithTakenBytes(l, x).takenBytes = x /\ WithTakenBytes(l, x).taken = l.taken /\ WithTakenBytes(l, x).released = l.released
  BY DEF Account, WithTakenBytes

WithReturned(l, x, y, z) == [l EXCEPT !.released = x, !.reservedBytes = y, !.takenBytes = z]

\* The fields of WithReturned(l, ...).
LEMMA WithReturnedFields ==
  ASSUME NEW l \in Account, NEW x \in BOOLEAN, NEW y \in Nat, NEW z \in Nat
  PROVE  /\ WithReturned(l, x, y, z) \in Account
         /\ WithReturned(l, x, y, z).in = l.in /\ WithReturned(l, x, y, z).above = l.above
         /\ WithReturned(l, x, y, z).capacity = l.capacity /\ WithReturned(l, x, y, z).reservedBytes = y
         /\ WithReturned(l, x, y, z).takenBytes = z /\ WithReturned(l, x, y, z).taken = l.taken /\ WithReturned(l, x, y, z).released = x
  BY DEF Account, WithReturned

WithCapacity(l, x, y) == [l EXCEPT !.capacity = x, !.reservedBytes = y]

\* The fields of WithCapacity(l, ...).
LEMMA WithCapacityFields ==
  ASSUME NEW l \in Account, NEW x \in Nat, NEW y \in Nat
  PROVE  /\ WithCapacity(l, x, y) \in Account
         /\ WithCapacity(l, x, y).in = l.in /\ WithCapacity(l, x, y).above = l.above
         /\ WithCapacity(l, x, y).capacity = x /\ WithCapacity(l, x, y).reservedBytes = y
         /\ WithCapacity(l, x, y).takenBytes = l.takenBytes /\ WithCapacity(l, x, y).taken = l.taken /\ WithCapacity(l, x, y).released = l.released
  BY DEF Account, WithCapacity

\* createPeerMemoryPool().
LEMMA CreatePool ==
  ASSUME Sound(memory), NEW capacity \in Nat, CreatePeerMemoryPool(capacity)
  PROVE  Sound(memory')
  <1> DEFINE m == memory
             p == memory'
             l == NewMemory(NoParent, {}, capacity, TRUE)
             n == Len(m) + 1
  <1>1. /\ l \in Account /\ l.in = 0 /\ l.above = {} /\ l.capacity = capacity /\ l.reservedBytes = 0
        /\ l.takenBytes = 0 /\ l.taken /\ ~ l.released
    BY DEF NewMemory, NoParent, Account
  <1>2. Sound(m) /\ m \in Seq(Account)
    BY DEF Sound
  <1>3. p = Append(m, l)
    BY DEF CreatePeerMemoryPool
  <1> HIDE DEF l
  <1>4. p \in Seq(Account) /\ DOMAIN p = DOMAIN m \cup {n} /\ p[n] = l /\ \A k \in DOMAIN m : p[k] = m[k]
    BY <1>1, <1>2, <1>3, Grown
  <1> HIDE DEF m, p, n
  <1>5. MemoryAppended(m, p, n, 0, capacity)
    <2>1. \A k \in DOMAIN m :
            /\ p[k].in = m[k].in /\ p[k].above = m[k].above /\ p[k].released = m[k].released
            /\ p[k].capacity = m[k].capacity /\ p[k].takenBytes = m[k].takenBytes /\ p[k].taken = m[k].taken
      BY <1>4
    <2>2. \A k \in DOMAIN m \ {0} : p[k].reservedBytes = m[k].reservedBytes
      BY <1>4
    <2> QED BY <1>1, <1>4, <2>1, <2>2 DEF MemoryAppended
  <1>6. Sound(p)
    BY <1>2, <1>4, <1>5, MemoryAdded DEF n
  <1> QED BY <1>6 DEF p

\* reservePeerMemory().
LEMMA ReserveMemory ==
  ASSUME Sound(memory), NEW h \in MemoryHandles, NEW capacity \in Nat, ReservePeerMemory(h, capacity)
  PROVE  Sound(memory')
  <1> DEFINE m == memory
             p == memory'
             x == m[h].reservedBytes + capacity
             r == [m[h] EXCEPT !.reservedBytes = x]
             q == [m EXCEPT ![h] = r]
             l == NewMemory(h, m[h].above \cup {h}, capacity, FALSE)
             n == Len(m) + 1
  <1>1. Sound(m) /\ m \in Seq(Account) /\ h \in DOMAIN m /\ m[h] \in Account /\ h \in Nat
    BY Domains DEF Sound, MemoryHandles
  <1>2. p = Append(q, l)
    BY DEF ReservePeerMemory
  <1>3. ~ m[h].released /\ m[h].taken /\ capacity <= m[h].capacity - m[h].reservedBytes
    BY DEF ReservePeerMemory, MemoryLive
  <1>4. m[h].above \in SUBSET Nat /\ m[h].reservedBytes \in Nat /\ x \in Nat
    BY <1>1, AccountFields
  <1>5. /\ l \in Account /\ l.in = h /\ l.above = m[h].above \cup {h} /\ l.capacity = capacity /\ l.reservedBytes = 0
        /\ l.takenBytes = 0 /\ ~ l.taken /\ ~ l.released
    BY <1>1, <1>4 DEF NewMemory, Account
  <1>6. /\ r \in Account /\ r.in = m[h].in /\ r.above = m[h].above /\ r.capacity = m[h].capacity
        /\ r.reservedBytes = x /\ r.takenBytes = m[h].takenBytes /\ r.taken = m[h].taken /\ r.released = m[h].released
    <2> DEFINE o == m[h]
    <2>1. r = WithReservedBytes(o, x)
      BY Zenon DEF WithReservedBytes
    <2>2. o \in Account /\ x \in Nat
      BY <1>1, <1>4
    <2> HIDE DEF o, x, r
    <2>3. /\ r \in Account /\ r.in = o.in /\ r.above = o.above /\ r.capacity = o.capacity
          /\ r.reservedBytes = x /\ r.takenBytes = o.takenBytes /\ r.taken = o.taken /\ r.released = o.released
      BY <2>1, <2>2, WithReservedBytesFields
    <2> QED BY <2>3 DEF o
  <1> HIDE DEF l, r
  <1>7. q \in Seq(Account) /\ DOMAIN q = DOMAIN m /\ Len(q) = Len(m) /\ q[h] = r /\ \A k \in DOMAIN m \ {h} : q[k] = m[k]
    BY <1>1, <1>6
  <1> HIDE DEF q
  <1>8. /\ p \in Seq(Account) /\ DOMAIN p = DOMAIN q \cup {Len(q) + 1} /\ p[Len(q) + 1] = l
        /\ \A k \in DOMAIN q : p[k] = q[k]
    BY <1>2, <1>5, <1>7, Grown
  <1>9. DOMAIN p = DOMAIN m \cup {n} /\ p[n] = l /\ p[h] = r /\ \A k \in DOMAIN m \ {h} : p[k] = m[k]
    BY <1>1, <1>7, <1>8
  <1> HIDE DEF m, p, n
  <1>10. MemoryAppended(m, p, n, h, capacity)
    <2>1. \A k \in DOMAIN m :
            /\ p[k].in = m[k].in /\ p[k].above = m[k].above /\ p[k].released = m[k].released
            /\ p[k].capacity = m[k].capacity /\ p[k].takenBytes = m[k].takenBytes /\ p[k].taken = m[k].taken
      BY <1>6, <1>9
    <2> QED BY <1>1, <1>3, <1>5, <1>6, <1>9, <2>1 DEF MemoryAppended
  <1>11. Sound(p)
    BY <1>1, <1>8, <1>10, MemoryAdded DEF n
  <1> QED BY <1>11 DEF p

\* takePeerMemory().
LEMMA TakeMemory ==
  ASSUME Sound(memory), NEW h \in MemoryHandles, TakePeerMemory(h)
  PROVE  Sound(memory')
  <1> DEFINE m == memory
             p == memory'
             i == m[h].in
             q == [m EXCEPT ![h] = [m[h] EXCEPT !.taken = TRUE]]
             y == q[i].takenBytes + m[h].capacity
  <1>1. Sound(m) /\ m \in Seq(Account) /\ h \in DOMAIN m /\ \A k \in DOMAIN m : m[k] \in Account
    BY Domains DEF Sound, MemoryHandles
  <1>2. m[h].in # 0 /\ ~ m[h].released /\ ~ m[h].taken
    BY DEF TakePeerMemory, LiveReservations, MemoryLive, NoParent
  <1>3. p = [q EXCEPT ![i] = [q[i] EXCEPT !.takenBytes = y]]
    BY Zenon DEF TakePeerMemory
  <1>4. i \in DOMAIN m /\ i # h
    BY <1>1, <1>2, MemorySummable DEF Sound
  <1>5. /\ DOMAIN q = DOMAIN m /\ q[h] = WithTaken(m[h], TRUE) /\ \A k \in DOMAIN m \ {h} : q[k] = m[k]
    BY <1>1, Zenon DEF WithTaken
  <1>6. /\ q[h] \in Account /\ q[h].in = m[h].in /\ q[h].above = m[h].above /\ q[h].capacity = m[h].capacity
        /\ q[h].reservedBytes = m[h].reservedBytes /\ q[h].takenBytes = m[h].takenBytes /\ q[h].taken = TRUE
        /\ q[h].released = m[h].released
    <2> DEFINE o == m[h]
               t == TRUE
    <2>1. o \in Account /\ q[h] = WithTaken(o, t) /\ t \in BOOLEAN
      BY <1>1, <1>5
    <2> HIDE DEF o, q, t
    <2>2. /\ q[h] \in Account /\ q[h].in = o.in /\ q[h].above = o.above /\ q[h].capacity = o.capacity
          /\ q[h].reservedBytes = o.reservedBytes /\ q[h].takenBytes = o.takenBytes /\ q[h].taken = t
          /\ q[h].released = o.released
      BY <2>1, WithTakenFields
    <2> QED BY <2>2, Zenon DEF o, t
  <1>7. q[i] = m[i]
    BY <1>4, <1>5
  <1>8. DOMAIN p = DOMAIN m /\ p[i] = WithTakenBytes(q[i], y) /\ \A k \in DOMAIN m \ {i} : p[k] = q[k]
    <2> HIDE DEF q, y
    <2> QED BY <1>3, <1>4, <1>5, Zenon DEF WithTakenBytes
  <1>9. y \in Nat /\ y = m[i].takenBytes + m[h].capacity
    <2>1. m[i].takenBytes \in Nat /\ m[h].capacity \in Nat
      BY <1>1, <1>4, AccountFields
    <2>2. y = m[i].takenBytes + m[h].capacity
      BY <1>7, Zenon
    <2> QED BY <2>1, <2>2
  <1> HIDE DEF q, y
  <1>10. /\ p[i] \in Account /\ p[i].in = m[i].in /\ p[i].above = m[i].above /\ p[i].capacity = m[i].capacity
         /\ p[i].reservedBytes = m[i].reservedBytes /\ p[i].takenBytes = y /\ p[i].taken = m[i].taken
         /\ p[i].released = m[i].released
    <2> DEFINE o == m[i]
    <2>1. o \in Account /\ p[i] = WithTakenBytes(o, y) /\ y \in Nat
      BY <1>1, <1>4, <1>7, <1>8, <1>9
    <2> HIDE DEF o, p, i
    <2>2. /\ p[i] \in Account /\ p[i].in = o.in /\ p[i].above = o.above /\ p[i].capacity = o.capacity
          /\ p[i].reservedBytes = o.reservedBytes /\ p[i].takenBytes = y /\ p[i].taken = o.taken
          /\ p[i].released = o.released
      BY <2>1, WithTakenBytesFields
    <2> QED BY <2>2 DEF o
  <1>11. p[h] = q[h] /\ \A k \in DOMAIN m \ {h, i} : p[k] = m[k]
    BY <1>1, <1>4, <1>5, <1>8
  <1> HIDE DEF m, p
  <1>12. ASSUME NEW k \in DOMAIN m
         PROVE  /\ p[k] \in Account /\ p[k].in = m[k].in /\ p[k].above = m[k].above
                /\ p[k].released = m[k].released /\ p[k].capacity = m[k].capacity
                /\ p[k].reservedBytes = m[k].reservedBytes
    BY <1>1, <1>6, <1>10, <1>11
  <1>13. p = [k \in DOMAIN m |-> p[k]]
    <2>1. p = [k \in DOMAIN p |-> p[k]]
      BY <1>3, Zenon
    <2> QED BY <1>8, <2>1, Zenon
  <1>14. p \in Seq(Account)
    BY <1>1, <1>12, <1>13, AsSequence
  <1>15. MemoryTaken(m, p, h)
    <2>1. SameLinks(m, p)
      BY <1>8, <1>12 DEF SameLinks
    <2>2. \A k \in DOMAIN m \ {h} : p[k].taken = m[k].taken
      BY <1>10, <1>11
    <2>3. \A k \in DOMAIN m \ {m[h].in} : p[k].takenBytes = m[k].takenBytes
      BY <1>6, <1>11
    <2>4. p[m[h].in].takenBytes = m[m[h].in].takenBytes + m[h].capacity /\ p[h].taken
      BY <1>6, <1>9, <1>10, <1>11, Zenon DEF i
    <2> QED BY <1>1, <1>2, <1>12, <2>1, <2>2, <2>3, <2>4 DEF MemoryTaken
  <1>16. Sound(p)
    BY <1>1, <1>14, <1>15, TakeKeepsStores
  <1> QED BY <1>16 DEF p

\* The bytes the model adds up.
LEMMA BytesAreSums == \A S : Bytes(S) = Sum(Caps(memory), S)
  BY DEF Bytes, Caps, MemoryHandles

\* releasePeerMemory().
LEMMA ReleaseMemory ==
  ASSUME Sound(memory), NEW h \in MemoryHandles, ReleasePeerMemory(h)
  PROVE  Sound(memory')
  <1> DEFINE m == memory
             p == memory'
             gone == {k \in MemoryHandles : MemoryLive(k) /\ (k = h \/ h \in memory[k].above)}
             rel(k) == m[k].released \/ k \in gone
             left(k) == m[k].reservedBytes - Sum(Caps(m), GoneHeld(m, gone, k))
             kept(k) == m[k].takenBytes - Sum(Caps(m), GoneTaken(m, gone, k))
  <1>1. p = [k \in DOMAIN m |-> [m[k] EXCEPT !.released = rel(k), !.reservedBytes = left(k), !.takenBytes = kept(k)]]
    BY BytesAreSums, Zenon DEF ReleasePeerMemory, MemoryHandles, GoneHeld, GoneTaken
  <1>2. \A k : k \in gone <=> k \in DOMAIN m /\ ~ m[k].released /\ (k = h \/ h \in m[k].above)
    BY DEF MemoryHandles, MemoryLive
  <1> HIDE DEF gone
  <1>3. Sound(m) /\ m \in Seq(Account) /\ \A k \in DOMAIN m : m[k] \in Account
    BY Domains DEF Sound
  <1>4. MemoryClosed(m, gone)
    <2>1. ASSUME NEW k \in DOMAIN m, NEW x \in gone, ~ m[k].released, x \in m[k].above PROVE k \in gone
      <3>1. h \in m[k].above
        BY <1>2, <1>3, <2>1 DEF Sound, Links
      <3> QED BY <1>2, <2>1, <3>1
    <2> QED BY <1>2, <2>1 DEF MemoryClosed
  <1>5. ASSUME NEW k \in DOMAIN m
        PROVE  /\ p[k] \in Account /\ p[k].in = m[k].in /\ p[k].above = m[k].above /\ p[k].capacity = m[k].capacity
               /\ p[k].reservedBytes = left(k) /\ p[k].takenBytes = kept(k) /\ p[k].taken = m[k].taken
               /\ p[k].released = rel(k)
    <2> DEFINE l == m[k]
               x == rel(k)
               y == left(k)
               z == kept(k)
    <2>1. p[k] = WithReturned(l, x, y, z)
      BY <1>1, Zenon DEF WithReturned
    <2>2. l \in Account /\ x \in BOOLEAN
      BY <1>3, AccountFields
    <2>3. l.reservedBytes \in Nat /\ l.takenBytes \in Nat
      BY <1>3, AccountFields
    <2>4. /\ Sum(Caps(m), GoneHeld(m, gone, k)) \in Nat /\ Sum(Caps(m), GoneHeld(m, gone, k)) <= l.reservedBytes
          /\ Sum(Caps(m), GoneTaken(m, gone, k)) \in Nat /\ Sum(Caps(m), GoneTaken(m, gone, k)) <= l.takenBytes
      BY <1>3, <1>4, MemoryReturned
    <2>5. y \in Nat /\ z \in Nat
      <3> HIDE DEF m
      <3> QED BY <2>3, <2>4
    <2> HIDE DEF l, x, y, z, p
    <2>6. /\ p[k] \in Account /\ p[k].in = l.in /\ p[k].above = l.above /\ p[k].capacity = l.capacity
          /\ p[k].reservedBytes = y /\ p[k].takenBytes = z /\ p[k].taken = l.taken /\ p[k].released = x
      BY <2>1, <2>2, <2>5, WithReturnedFields
    <2> QED BY <2>6, Zenon DEF l, x, y, z
  <1>6. DOMAIN p = DOMAIN m /\ p = [k \in DOMAIN m |-> p[k]]
    BY <1>1, Zenon
  <1>7. MemoryReleased(m, p, gone)
    <2>1. SameLinks(m, p)
      <3> HIDE DEF p, m, left, rel, kept
      <3> QED BY <1>5, <1>6 DEF SameLinks
    <2> QED BY <1>4, <1>5, <2>1, Zenon DEF MemoryReleased
  <1> HIDE DEF p, m, left, rel, kept
  <1>8. p \in Seq(Account)
    BY <1>3, <1>5, <1>6, AsSequence
  <1>9. Sound(p)
    BY <1>3, <1>7, <1>8, ReleaseKeepsStores
  <1> QED BY <1>9 DEF p

\* What narrowPeerReservations() publishes for the memory.
NarrowMemoryTo(rows, plan) ==
    memory' = [k \in MemoryHandles |->
        [memory[k] EXCEPT !.capacity = IF k \in rows THEN plan[k] ELSE @,
                          !.reservedBytes = @ - Sum([r \in rows |-> memory[r].capacity - plan[r]],
                                                    {r \in rows : memory[r].in = k})]]

\* narrowPeerReservations(), the rows of memory.
LEMMA NarrowMemory ==
  ASSUME Sound(memory), NEW rows \in SUBSET LiveReservations, NEW plan \in [rows -> Amounts],
         NarrowableMemory(plan), NarrowMemoryTo(rows, plan)
  PROVE  Sound(memory')
  <1> DEFINE m == memory
             p == memory'
             new(k) == IF k \in rows THEN plan[k] ELSE m[k].capacity
             left(k) == m[k].reservedBytes - Sum(MemoryCut(m, plan), RowsHeld(m, plan, k))
  <1>0. DOMAIN plan = rows /\ \A k \in rows : plan[k] \in Nat /\ k \in DOMAIN m /\ ~ m[k].released
    BY LedgerAssumption DEF MemoryHandles, LiveReservations, MemoryLive
  <1>1. p = [k \in DOMAIN m |-> [m[k] EXCEPT !.capacity = new(k), !.reservedBytes = left(k)]]
    BY <1>0, Zenon DEF NarrowMemoryTo, MemoryHandles, MemoryCut, RowsHeld
  <1>2. Sound(m) /\ m \in Seq(Account) /\ \A k \in DOMAIN m : m[k] \in Account
    BY Domains DEF Sound
  <1>3. MemoryFits(m, plan)
    BY <1>0 DEF MemoryFits, NarrowableMemory
  <1>4. ASSUME NEW k \in DOMAIN m
        PROVE  /\ p[k] \in Account /\ p[k].in = m[k].in /\ p[k].above = m[k].above /\ p[k].capacity = new(k)
               /\ p[k].reservedBytes = left(k) /\ p[k].takenBytes = m[k].takenBytes /\ p[k].taken = m[k].taken
               /\ p[k].released = m[k].released
    <2> DEFINE l == m[k]
               x == new(k)
               y == left(k)
    <2>1. p[k] = WithCapacity(l, x, y)
      BY <1>1, Zenon DEF WithCapacity
    <2>2. l \in Account /\ x \in Nat
      BY <1>0, <1>2, AccountFields
    <2>3. l.reservedBytes \in Nat
      BY <1>2, AccountFields
    <2>4. Sum(MemoryCut(m, plan), RowsHeld(m, plan, k)) \in Nat /\ Sum(MemoryCut(m, plan), RowsHeld(m, plan, k)) <= l.reservedBytes
      BY <1>2, <1>3, MemoryRowsReturn
    <2>5. y \in Nat
      <3> HIDE DEF m
      <3> QED BY <2>3, <2>4
    <2> HIDE DEF l, x, y, p
    <2>6. /\ p[k] \in Account /\ p[k].in = l.in /\ p[k].above = l.above /\ p[k].capacity = x
          /\ p[k].reservedBytes = y /\ p[k].takenBytes = l.takenBytes /\ p[k].taken = l.taken /\ p[k].released = l.released
      BY <2>1, <2>2, <2>5, WithCapacityFields
    <2> QED BY <2>6, Zenon DEF l, x, y
  <1>5. DOMAIN p = DOMAIN m /\ p = [k \in DOMAIN m |-> p[k]]
    BY <1>1, Zenon
  <1>6. MemoryNarrowed(m, p, plan)
    <2>1. SameLinks(m, p)
      <3> HIDE DEF p, m, left, new
      <3> QED BY <1>4, <1>5 DEF SameLinks
    <2>2. /\ \A k \in DOMAIN plan : p[k].capacity = plan[k]
          /\ \A k \in DOMAIN m \ DOMAIN plan : p[k].capacity = m[k].capacity
      <3> HIDE DEF p, m
      <3> QED BY <1>0, <1>4, Zenon
    <2> QED BY <1>3, <1>4, <2>1, <2>2, Zenon DEF MemoryNarrowed
  <1> HIDE DEF p, m, left, new
  <1>7. p \in Seq(Account)
    BY <1>2, <1>4, <1>5, AsSequence
  <1>8. Sound(p)
    BY <1>2, <1>6, <1>7, NarrowKeepsStores
  <1> QED BY <1>8 DEF p

\* --------------------------------------------------------------- the slots

\* What SlotsAccounted says, and why it stays: a retired branch's root is
\* released, so that nothing is charged to it any more, and a deferred branch
\* leaves the live ones only when its owner releases it.
Slots ==
    /\ live \subseteq Handles /\ retired \subseteq Handles /\ deferred \subseteq live \cup retired
    /\ live \cap retired = {}
    /\ \A b \in retired : ledgers[b].released
    /\ Cardinality(live) <= Capacity
    /\ retiredSpent \in Nat /\ retiredSpent = Sum(Spent, retired)
    /\ poolClosed \in BOOLEAN /\ (poolClosed => live \subseteq deferred)
    /\ joined \subseteq retired /\ deferred \ joined \subseteq live

Inv == Good(ledgers) /\ Sound(memory) /\ Slots

\* What any step of the ledgers leaves of the pool's accounts.
LEMMA RetiredKept ==
  ASSUME Good(ledgers), Good(ledgers'), Final(ledgers, ledgers'), Slots
  PROVE  /\ Handles \subseteq Handles' /\ \A b \in retired : ledgers'[b].released
         /\ Sum(Spent', retired) = Sum(Spent, retired)
         /\ IsFiniteSet(live) /\ IsFiniteSet(retired) /\ \A k \in Handles : Spent[k] \in Nat /\ Spent[k] = ledgers[k].spent
  <1>1. Handles \subseteq Handles' /\ \A b \in retired : b \in Handles /\ b \in Handles' /\ ledgers[b].released
    BY DEF Handles, Final, Slots
  <1>2. \A b \in retired : ledgers'[b].released /\ ledgers'[b].spent = ledgers[b].spent
    BY <1>1 DEF Final, Handles
  <1>3. \A b \in retired : Spent'[b] = Spent[b]
    BY <1>1, <1>2 DEF Spent
  <1>4. Sum(Spent', retired) = Sum(Spent, retired)
    BY <1>3, SumSame
  <1>5. IsFiniteSet(live) /\ IsFiniteSet(retired)
    BY Domains DEF Slots, Handles, Good
  <1>6. \A k \in Handles : Spent[k] \in Nat /\ Spent[k] = ledgers[k].spent
    BY Summable, Fields DEF Spent, Handles
  <1> QED BY <1>1, <1>2, <1>4, <1>5, <1>6

\* The pool's accounts stand through any step that leaves the pool alone.
LEMMA SlotsKept ==
  ASSUME Good(ledgers), Good(ledgers'), Final(ledgers, ledgers'), Slots, UNCHANGED slotVars
  PROVE  Slots'
  <1>1. live' = live /\ deferred' = deferred /\ retired' = retired /\ retiredSpent' = retiredSpent /\ poolClosed' = poolClosed
        /\ joined' = joined
    BY DEF slotVars
  <1>2. /\ Handles \subseteq Handles' /\ \A b \in retired : ledgers'[b].released
        /\ Sum(Spent', retired) = Sum(Spent, retired)
    BY RetiredKept
  <1> QED BY <1>1, <1>2 DEF Slots

\* takePeerBranchAuthority().
LEMMA TakeSlot ==
  ASSUME Inv, NEW amount \in Nat, TakePeerBranchAuthority(amount)
  PROVE  Good(ledgers') /\ Final(ledgers, ledgers') /\ Slots'
  <1> DEFINE n == Len(ledgers) + 1
  <1>1. ledgers' = Append(ledgers, NewLedger(NoParent, {}, amount))
    BY DEF TakePeerBranchAuthority
  <1>2. Good(ledgers') /\ Final(ledgers, ledgers')
    BY <1>1, MakeRoot DEF Inv
  <1>3. /\ live' = live \cup {n} /\ deferred' = deferred /\ retired' = retired /\ retiredSpent' = retiredSpent
        /\ poolClosed' = poolClosed /\ joined' = joined /\ ~ poolClosed /\ Cardinality(live) < Capacity
    BY DEF TakePeerBranchAuthority
  <1>4. /\ Handles \subseteq Handles' /\ \A b \in retired : ledgers'[b].released
        /\ Sum(Spent', retired) = Sum(Spent, retired) /\ IsFiniteSet(live)
    BY <1>2, RetiredKept DEF Inv
  <1>5. n \in Handles' /\ n \notin Handles
    <2>1. ledgers \in Seq(Ledger)
      BY DEF Inv, Good
    <2>2. Len(ledgers') = Len(ledgers) + 1 /\ ledgers' \in Seq(Ledger) /\ Len(ledgers) \in Nat
      BY <1>1, <1>2, <2>1 DEF Good
    <2> QED BY <2>1, <2>2 DEF Handles
  <1>6. Cardinality(live') <= Capacity
    <2>1. n \notin live
      BY <1>5 DEF Inv, Slots
    <2>2. Cardinality(live \cup {n}) = Cardinality(live) + 1
      BY <1>4, <2>1, FS_AddElement
    <2>3. Cardinality(live) \in Nat /\ Capacity \in Nat
      BY <1>4, FS_CardinalityType, LedgerAssumption
    <2> HIDE DEF n
    <2> QED BY <1>3, <2>2, <2>3
  <1> HIDE DEF n
  <1>7. live' \subseteq Handles' /\ retired' \subseteq Handles' /\ deferred' \subseteq live' \cup retired' /\ live' \cap retired' = {}
    BY <1>3, <1>4, <1>5 DEF Inv, Slots
  <1>8. retiredSpent' \in Nat /\ retiredSpent' = Sum(Spent', retired')
    BY <1>3, <1>4 DEF Inv, Slots
  <1>9. Slots'
    BY <1>3, <1>4, <1>6, <1>7, <1>8 DEF Inv, Slots
  <1> QED BY <1>2, <1>9

\* releasePeerBranchAuthority() of some live branches.
LEMMA RetireBranches ==
  ASSUME Inv, NEW branches \in SUBSET live, Retire(branches), poolClosed' \in BOOLEAN,
         poolClosed' => live \ branches \subseteq deferred,
         joined' \subseteq retired \cup branches, deferred \ joined' \subseteq live \ branches
  PROVE  Good(ledgers') /\ Final(ledgers, ledgers') /\ Slots'
  <1> DEFINE gone == UNION {ReleasedWith(b) : b \in branches}
  <1>0. Good(ledgers) /\ Slots /\ branches \in SUBSET Handles
    BY DEF Inv, Slots
  <1>1. /\ retiredSpent' = retiredSpent + Sum(Spent, branches)
        /\ ledgers' = Release(gone) /\ live' = live \ branches /\ retired' = retired \cup branches
        /\ deferred' = deferred
    BY DEF Retire, EvidenceOf
  <1>2. Closed(ledgers, gone) /\ \A b \in branches : Live(b) => b \in gone
    BY <1>0, WithBelow
  <1> HIDE DEF gone
  <1>3. Good(ledgers') /\ Final(ledgers, ledgers') /\ Released(ledgers, ledgers', gone)
    BY <1>0, <1>1, <1>2, ReleaseAll
  <1>4. /\ Handles \subseteq Handles' /\ \A b \in retired : ledgers'[b].released
        /\ IsFiniteSet(live) /\ IsFiniteSet(retired) /\ \A k \in Handles : Spent[k] \in Nat /\ Spent[k] = ledgers[k].spent
    BY <1>0, <1>3, RetiredKept
  <1>5. \A b \in branches : ledgers'[b].released
    BY <1>0, <1>2, <1>3 DEF Released, Live, Handles
  <1>6. retiredSpent' \in Nat /\ retiredSpent' = Sum(Spent', retired')
    <2>1. IsFiniteSet(branches) /\ retired \cap branches = {}
      BY <1>0, <1>4, FS_Subset DEF Slots
    <2>2. \A k \in retired \cup branches : k \in Handles /\ Spent[k] \in Nat
      BY <1>0, <1>4 DEF Slots
    <2>3. Sum(Spent, retired \cup branches) = Sum(Spent, retired) + Sum(Spent, branches)
      BY <1>4, <2>1, <2>2, SumUnion
    <2>4. \A k \in retired \cup branches : Spent'[k] = Spent[k]
      <3>1. \A k \in Handles : k \in Handles' /\ ledgers'[k].spent = ledgers[k].spent
        BY <1>3 DEF Released, SameTree, Handles
      <3>2. \A k \in Handles' : Spent'[k] = ledgers'[k].spent
        BY DEF Spent
      <3> QED BY <1>4, <2>2, <3>1, <3>2
    <2>5. Sum(Spent', retired \cup branches) = Sum(Spent, retired \cup branches)
      BY <2>4, SumSame
    <2>6. Sum(Spent, branches) \in Nat
      BY <2>1, <2>2, UnitsFinite
    <2>7. retiredSpent \in Nat /\ retiredSpent = Sum(Spent, retired)
      BY <1>0 DEF Slots
    <2>8. retiredSpent' = Sum(Spent', retired \cup branches)
      BY <1>1, <2>3, <2>5, <2>7
    <2> QED BY <1>1, <2>6, <2>7, <2>8
  <1>7. Cardinality(live') <= Capacity
    <2>1. live' \subseteq live
      BY <1>1
    <2>2. IsFiniteSet(live') /\ Cardinality(live') <= Cardinality(live)
      BY <1>4, <2>1, FS_Subset
    <2>3. Cardinality(live) \in Nat /\ Cardinality(live') \in Nat /\ Capacity \in Nat
      BY <1>4, <2>2, FS_CardinalityType, LedgerAssumption
    <2>4. Cardinality(live) <= Capacity
      BY <1>0 DEF Slots
    <2> QED BY <2>2, <2>3, <2>4
  <1>8. live' \subseteq Handles' /\ retired' \subseteq Handles' /\ deferred' \subseteq live' \cup retired' /\ live' \cap retired' = {}
    BY <1>0, <1>1, <1>4 DEF Slots
  <1>9. \A b \in retired' : ledgers'[b].released
    BY <1>1, <1>4, <1>5
  <1>10. /\ poolClosed' => live' \subseteq deferred'
         /\ joined' \subseteq retired' /\ deferred' \ joined' \subseteq live'
    BY <1>1
  <1>11. Slots'
    BY <1>6, <1>7, <1>8, <1>9, <1>10 DEF Slots
  <1> QED BY <1>3, <1>11

\* ------------------------------------------------------------ the theorems

\* The first state is in order.
LEMMA Start == Init => Inv
  <1> SUFFICES ASSUME Init PROVE Inv
    OBVIOUS
  <1>1. ledgers = <<>> /\ memory = <<>>
    BY DEF Init
  <1>2. Good(ledgers)
    BY <1>1 DEF Good, Tree, Books
  <1>3. Sound(memory)
    BY <1>1 DEF Sound, Links, Stores
  <1>4. Slots
    <2>1. live = {} /\ deferred = {} /\ retired = {} /\ retiredSpent = 0 /\ poolClosed = FALSE
          /\ joined = {}
      BY DEF Init
    <2>2. Sum(Spent, retired) = 0
      BY <2>1, SumEmpty, Zenon
    <2>3. Cardinality(live) = 0 /\ Capacity \in Nat
      BY <2>1, FS_EmptySet, LedgerAssumption
    <2>4. /\ live \subseteq Handles /\ retired \subseteq Handles /\ deferred \subseteq live \cup retired
          /\ live \cap retired = {} /\ \A b \in retired : ledgers[b].released
      BY <2>1
    <2>5. /\ poolClosed \in BOOLEAN /\ (poolClosed => live \subseteq deferred)
          /\ joined \subseteq retired /\ deferred \ joined \subseteq live
      BY <2>1
    <2>6. Cardinality(live) <= Capacity /\ retiredSpent \in Nat /\ retiredSpent = Sum(Spent, retired)
      BY <2>1, <2>2, <2>3
    <2> QED BY <2>4, <2>5, <2>6 DEF Slots
  <1> QED BY <1>2, <1>3, <1>4 DEF Inv

\* The ledgers stay as they are.
LEMMA NoCharge == ASSUME Good(ledgers), ledgers' = ledgers PROVE Good(ledgers') /\ Final(ledgers, ledgers')
  <1>1. \A h \in DOMAIN ledgers : ledgers[h].spent \in Nat
    BY Summable, Fields
  <1>2. Final(ledgers, ledgers)
    BY <1>1 DEF Final
  <1> QED BY <1>2

\* Every step keeps everything in order and what was spent final.
LEMMA Step == Inv /\ [Next]_vars => Inv' /\ Final(ledgers, ledgers')
  <1> SUFFICES ASSUME Inv, [Next]_vars PROVE Inv' /\ Final(ledgers, ledgers')
    OBVIOUS
  <1>0. Good(ledgers) /\ Sound(memory) /\ Slots /\ Amounts \subseteq Nat
    BY LedgerAssumption DEF Inv
  <1>a. ASSUME Good(ledgers') /\ Final(ledgers, ledgers'), memory' = memory, UNCHANGED slotVars
        PROVE  Inv' /\ Final(ledgers, ledgers')
    <2>1. Slots'
      BY <1>0, <1>a, SlotsKept
    <2> QED BY <1>0, <1>a, <2>1 DEF Inv
  <1>b. ASSUME Sound(memory'), ledgers' = ledgers, UNCHANGED slotVars
        PROVE  Inv' /\ Final(ledgers, ledgers')
    <2>1. Good(ledgers') /\ Final(ledgers, ledgers')
      BY <1>0, <1>b, NoCharge
    <2>2. Slots'
      BY <1>0, <1>b, <2>1, SlotsKept
    <2> QED BY <1>b, <2>1, <2>2 DEF Inv
  <1>1. ASSUME NEW a \in Amounts, CreatePeerLedger(a) PROVE Inv' /\ Final(ledgers, ledgers')
    <2>1. Good(ledgers') /\ Final(ledgers, ledgers')
      BY <1>0, <1>1, MakeRoot DEF CreatePeerLedger
    <2> QED BY <1>1, <1>a, <2>1 DEF CreatePeerLedger
  <1>2. ASSUME NEW a \in Amounts, TakePeerBranchAuthority(a) PROVE Inv' /\ Final(ledgers, ledgers')
    <2>1. Good(ledgers') /\ Final(ledgers, ledgers') /\ Slots'
      BY <1>0, <1>2, TakeSlot
    <2>2. memory' = memory
      BY <1>2 DEF TakePeerBranchAuthority
    <2> QED BY <1>0, <2>1, <2>2 DEF Inv
  <1>3. ASSUME NEW h \in Handles, NEW a \in Amounts, ReservePeerLedger(h, a) PROVE Inv' /\ Final(ledgers, ledgers')
    <2>1. Good(ledgers') /\ Final(ledgers, ledgers')
      BY <1>0, <1>3, Reserve
    <2> QED BY <1>3, <1>a, <2>1 DEF ReservePeerLedger
  <1>4. ASSUME NEW h \in Handles, NEW a \in Amounts, ChargePeerLedger(h, a) PROVE Inv' /\ Final(ledgers, ledgers')
    <2>1. Good(ledgers') /\ Final(ledgers, ledgers')
      BY <1>0, <1>4, Charge
    <2> QED BY <1>4, <1>a, <2>1 DEF ChargePeerLedger
  <1>5. ASSUME NEW h \in Handles, ReleasePeerLedger(h) PROVE Inv' /\ Final(ledgers, ledgers')
    <2>1. UNION {ReleasedWith(b) : b \in {h}} = ReleasedWith(h) /\ {h} \in SUBSET Handles
      OBVIOUS
    <2>2. Closed(ledgers, ReleasedWith(h))
      BY <1>0, <2>1, WithBelow
    <2>3. Good(ledgers') /\ Final(ledgers, ledgers')
      BY <1>0, <1>5, <2>2, ReleaseAll DEF ReleasePeerLedger
    <2> QED BY <1>5, <1>a, <2>3 DEF ReleasePeerLedger
  <1>6. ASSUME NEW a \in Amounts, CreatePeerMemoryPool(a) PROVE Inv' /\ Final(ledgers, ledgers')
    <2>1. Sound(memory')
      BY <1>0, <1>6, CreatePool
    <2> QED BY <1>6, <1>b, <2>1 DEF CreatePeerMemoryPool
  <1>7. ASSUME NEW h \in MemoryHandles, NEW a \in Amounts, ReservePeerMemory(h, a) PROVE Inv' /\ Final(ledgers, ledgers')
    <2>1. Sound(memory')
      BY <1>0, <1>7, ReserveMemory
    <2> QED BY <1>7, <1>b, <2>1 DEF ReservePeerMemory
  <1>8. ASSUME NEW h \in MemoryHandles, TakePeerMemory(h) PROVE Inv' /\ Final(ledgers, ledgers')
    <2>1. Sound(memory')
      BY <1>0, <1>8, TakeMemory
    <2> QED BY <1>8, <1>b, <2>1 DEF TakePeerMemory
  <1>9. ASSUME NEW h \in MemoryHandles, ReleasePeerMemory(h) PROVE Inv' /\ Final(ledgers, ledgers')
    <2>1. Sound(memory')
      BY <1>0, <1>9, ReleaseMemory
    <2> QED BY <1>9, <1>b, <2>1 DEF ReleasePeerMemory
  <1>10. ASSUME NarrowPeerReservations PROVE Inv' /\ Final(ledgers, ledgers')
    <2>1. PICK rows \in SUBSET {h \in Handles : Live(h)}, mrows \in SUBSET LiveReservations :
             \E plan \in [rows -> Amounts], mplan \in [mrows -> Amounts] :
                /\ Narrowable(plan) /\ NarrowableMemory(mplan)
                /\ NarrowLedgers(rows, plan) /\ NarrowMemoryTo(mrows, mplan)
      BY <1>10, Zenon DEF NarrowPeerReservations, NarrowLedgers, NarrowMemoryTo
    <2>2. PICK plan \in [rows -> Amounts], mplan \in [mrows -> Amounts] :
                /\ Narrowable(plan) /\ NarrowableMemory(mplan)
                /\ NarrowLedgers(rows, plan) /\ NarrowMemoryTo(mrows, mplan)
      BY <2>1, Zenon
    <2>3. Good(ledgers') /\ Final(ledgers, ledgers')
      BY <1>0, <2>2, Narrow
    <2>4. Sound(memory')
      BY <1>0, <2>2, NarrowMemory
    <2>5. UNCHANGED slotVars
      BY <1>10 DEF NarrowPeerReservations
    <2>6. Slots'
      BY <1>0, <2>3, <2>5, SlotsKept
    <2> QED BY <2>3, <2>4, <2>6 DEF Inv
  <1>11. ASSUME NEW b \in live, DeferPeerBranchAuthorityJoin(b) PROVE Inv' /\ Final(ledgers, ledgers')
    <2>1. /\ ledgers' = ledgers /\ memory' = memory /\ live' = live /\ retired' = retired
          /\ retiredSpent' = retiredSpent /\ poolClosed' = poolClosed /\ deferred' = deferred \cup {b}
          /\ joined' = joined
      BY <1>11 DEF DeferPeerBranchAuthorityJoin
    <2>2. Good(ledgers') /\ Final(ledgers, ledgers')
      BY <1>0, <2>1, NoCharge
    <2>3. Spent' = Spent /\ Handles' = Handles
      BY <2>1 DEF Spent, Handles
    <2>4. Slots'
      BY <1>0, <2>1, <2>3 DEF Slots
    <2> QED BY <1>0, <2>1, <2>2, <2>4 DEF Inv
  <1>12. ASSUME NEW b \in live, ReleasePeerBranchAuthority(b) PROVE Inv' /\ Final(ledgers, ledgers')
    <2>1. {b} \in SUBSET live /\ Retire({b}) /\ poolClosed' = poolClosed /\ joined' = joined \cup {b}
      BY <1>12 DEF ReleasePeerBranchAuthority
    <2>2. /\ poolClosed' \in BOOLEAN /\ (poolClosed' => live \ {b} \subseteq deferred)
          /\ joined' \subseteq retired \cup {b} /\ deferred \ joined' \subseteq live \ {b}
      BY <1>0, <2>1 DEF Slots
    <2>3. Good(ledgers') /\ Final(ledgers, ledgers') /\ Slots'
      BY <2>1, <2>2, RetireBranches
    <2>4. memory' = memory
      BY <2>1 DEF Retire
    <2> QED BY <1>0, <2>3, <2>4 DEF Inv
  <1>13. ASSUME ClosePeerBranchSlots PROVE Inv' /\ Final(ledgers, ledgers')
    <2>1. Closable \in SUBSET live /\ Retire(Closable) /\ poolClosed' = TRUE /\ joined' = joined
      BY <1>13 DEF ClosePeerBranchSlots, Closable
    <2>2. /\ poolClosed' \in BOOLEAN /\ (poolClosed' => live \ Closable \subseteq deferred)
          /\ joined' \subseteq retired \cup Closable /\ deferred \ joined' \subseteq live \ Closable
      BY <1>0, <2>1 DEF Closable, Slots
    <2>3. Good(ledgers') /\ Final(ledgers, ledgers') /\ Slots'
      BY <2>1, <2>2, RetireBranches
    <2>4. memory' = memory
      BY <2>1 DEF Retire
    <2> QED BY <1>0, <2>3, <2>4 DEF Inv
  <1>14. ASSUME UNCHANGED vars PROVE Inv' /\ Final(ledgers, ledgers')
    <2>1. Good(ledgers') /\ Final(ledgers, ledgers')
      BY <1>0, <1>14, NoCharge DEF vars
    <2> QED BY <1>14, <1>a, <2>1 DEF vars
  <1> QED BY <1>1, <1>2, <1>3, <1>4, <1>5, <1>6, <1>7, <1>8, <1>9, <1>10, <1>11, <1>12, <1>13, <1>14 DEF Next

\* Everything is in order in every state.
LEMMA Invariance == Spec => []Inv
  BY Start, Step, PTL DEF Spec

\* The accounts are numbers and the links go to handles.
THEOREM TypeOKHolds == Spec => []TypeOK
  <1>1. Inv => TypeOK
    <2> SUFFICES ASSUME Inv PROVE TypeOK
      OBVIOUS
    <2> DEFINE LedgerIn == [parent : Nat, above : SUBSET Handles, allocated : Nat, spent : Nat,
                            direct : Nat, reserved : Nat, released : BOOLEAN]
               AccountIn == [in : Nat, above : SUBSET MemoryHandles, capacity : Nat, reservedBytes : Nat,
                             takenBytes : Nat, taken : BOOLEAN, released : BOOLEAN]
    <2>1. ledgers \in Seq(Ledger) /\ Good(ledgers) /\ memory \in Seq(Account) /\ Links(memory)
      BY DEF Inv, Good, Sound
    <2>2. ASSUME NEW k \in DOMAIN ledgers PROVE ledgers[k] \in LedgerIn
      <3>1. ledgers[k] \in Ledger /\ ledgers[k].above \subseteq Handles
        BY <2>1, Summable, AboveInDomain DEF Handles
      <3> QED BY <3>1 DEF Ledger
    <2>3. ASSUME NEW k \in DOMAIN memory PROVE memory[k] \in AccountIn
      <3>1. memory[k] \in Account /\ memory[k].above \subseteq MemoryHandles
        BY <2>1, MemorySummable DEF MemoryHandles
      <3> QED BY <3>1 DEF Account
    <2>4. ledgers = [k \in DOMAIN ledgers |-> ledgers[k]] /\ memory = [k \in DOMAIN memory |-> memory[k]]
      BY <2>1
    <2> HIDE DEF LedgerIn, AccountIn
    <2>5. /\ DOMAIN ledgers = 1 .. Len(ledgers) /\ Len(ledgers) \in Nat
          /\ DOMAIN memory = 1 .. Len(memory) /\ Len(memory) \in Nat
      BY <2>1
    <2>6. ledgers \in Seq(LedgerIn) /\ memory \in Seq(AccountIn)
      BY <2>2, <2>3, <2>4, <2>5
    <2> QED BY <2>6 DEF Inv, Slots, TypeOK, LedgerIn, AccountIn
  <1> QED BY <1>1, Invariance, PTL

\* No sequence of reservations, charges, takes, releases and narrowings overdraws a
\* ledger or a memory pool.
THEOREM SolventHolds == Spec => []Solvent
  <1>1. Inv => Solvent
    BY DEF Inv, Good, Books, Sound, Stores, Solvent, Handles, MemoryHandles
  <1> QED BY <1>1, Invariance, PTL

\* At every level of every tree, what is reserved is what the live children have not
\* spent and what is reported as spent is what was charged below; and nothing live
\* is left below what was released.
THEOREM BalancedHolds == Spec => []Balanced
  <1>1. Inv => Balanced
    <2> SUFFICES ASSUME Inv PROVE Balanced
      OBVIOUS
    <2>1. ASSUME NEW h \in Handles
          PROVE  /\ ledgers[h].reserved = Sum(Unspent, Children(h))
                 /\ ledgers[h].spent =
                      ledgers[h].direct
                      + Sum([k \in Handles |-> ledgers[k].direct], {k \in Handles : h \in ledgers[k].above})
                 /\ Live(h) => \A k \in ledgers[h].above : Live(k)
      <3>1. /\ ledgers[h].reserved = Sum(Rest(ledgers), Kids(ledgers, h))
            /\ ledgers[h].spent = ledgers[h].direct + Sum(Direct(ledgers), Below(ledgers, h))
            /\ ~ ledgers[h].released => \A k \in ledgers[h].above : ~ ledgers[k].released
        BY DEF Inv, Good, Books, Handles
      <3>2. Unspent = Rest(ledgers) /\ Children(h) = Kids(ledgers, h)
        BY DEF Unspent, Rest, Children, Kids, Live, Handles
      <3> QED BY <3>1, <3>2, Zenon DEF Direct, Below, Handles, Live
    <2>2. ASSUME NEW h \in MemoryHandles
          PROVE  /\ memory[h].reservedBytes = Bytes(Reservations(h))
                 /\ memory[h].takenBytes = Bytes({k \in Reservations(h) : memory[k].taken})
                 /\ MemoryLive(h) => \A k \in memory[h].above : MemoryLive(k)
      <3>1. /\ memory[h].reservedBytes = Sum(Caps(memory), Held(memory, h))
            /\ memory[h].takenBytes = Sum(Caps(memory), Taken(memory, h))
            /\ ~ memory[h].released => \A k \in memory[h].above : ~ memory[k].released
        BY DEF Inv, Sound, Stores, MemoryHandles
      <3>2. Reservations(h) = Held(memory, h)
        BY DEF Reservations, Held, MemoryLive, MemoryHandles
      <3> QED BY <3>1, <3>2, BytesAreSums, Zenon DEF Taken, MemoryLive
    <2> QED BY <2>1, <2>2 DEF Balanced
  <1> QED BY <1>1, Invariance, PTL

\* The pool never has more live branches than slots, its totals are what the retired
\* branches spent, and after closing it the live branches are exactly the deferred
\* ones that have not joined.
THEOREM SlotsAccountedHolds == Spec => []SlotsAccounted
  <1>1. Inv => SlotsAccounted
    BY DEF Inv, Slots, SlotsAccounted
  <1> QED BY <1>1, Invariance, PTL

\* No step lowers what was spent, and none charges or reserves from what was released.
THEOREM SpendingIsFinalHolds == Spec => SpendingIsFinal
  <1>1. Inv /\ [Next]_vars =>
          [\A h \in Handles :
             /\ ledgers'[h].spent >= ledgers[h].spent
             /\ ledgers[h].released =>
                  /\ ledgers'[h].released
                  /\ ledgers'[h].spent = ledgers[h].spent
                  /\ ledgers'[h].reserved = ledgers[h].reserved]_vars
    BY Step DEF Final, Handles
  <1> QED BY <1>1, Invariance, PTL DEF Spec, SpendingIsFinal
=============================================================================
