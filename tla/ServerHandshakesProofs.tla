----------------------- MODULE ServerHandshakesProofs -----------------------
(***************************************************************************)
(* The tables and the raw streams of the handshakes, for any number of     *)
(* handshakes, messages, requests and suspensions.                         *)
(*                                                                         *)
(* First TablesAgree. Most steps change fields of one handshake and leave  *)
(* both tables alone; for those it is enough that the step keeps the       *)
(* handshake's message and slot (Keeps). Three steps write the tables:     *)
(* AddHandshake, ClearTimer and ClearAll.                                  *)
(*                                                                         *)
(* Then OneConnection, HandoverIsFinal and StreamHasOwner, from one        *)
(* invariant (OwnedInv) on each handshake and the requests it serves.      *)
(***************************************************************************)
EXTENDS ServerHandshakes, TLAPS, SequenceTheorems, WellFoundedInduction, FiniteSetTheorems

(* A handshake object has (at least) the fields the tables depend on. *)
Shaped(s) == {"pc", "key", "id"} \subseteq DOMAIN s

(* t is a later state of handshake s: same message, same slot, and a        *)
(* handshake once begun is not unused again.                                *)
Keeps(s, t) == /\ DOMAIN t = DOMAIN s
               /\ t.key = s.key /\ t.id = s.id
               /\ t.pc = "unused" => s.pc = "unused"

(* Handshakes exist, and one that was not begun has no slot. *)
ObjectsOK == /\ DOMAIN hs = Handshakes
             /\ \A h \in Handshakes : Shaped(hs[h])
             /\ \A h \in Handshakes : hs[h].pc = "unused" => hs[h].id = 0

TablesOK == /\ holepunches \in Seq(0..MaxHandshakes)
            /\ connects \in [Keys -> 0..MaxHandshakes]
            /\ \A i \in 1..Len(holepunches) :
                 holepunches[i] # 0 => hs[holepunches[i]].key \in Keys

(* The inductive invariant. *)
TableInv == ObjectsOK /\ TablesOK /\ TablesAgree

-----------------------------------------------------------------------------
(* The least element of a set of numbers, and the greatest of a bounded one. *)

(* A set of numbers that is not empty has a least element. *)
LEMMA LeastExists ==
  ASSUME NEW T \in SUBSET Nat, T # {}
  PROVE  \E x \in T : \A y \in T : x <= y
<1>1. PICK x \in T : \A y \in T : ~(<<y, x>> \in OpToRel(<, Nat))
  BY WFMin, NatLessThanWellFounded, Zenon
<1>2. OpToRel(<, Nat) = {p \in Nat \X Nat : p[1] < p[2]}
  BY Zenon DEF OpToRel
<1>3. ASSUME NEW y \in T PROVE x <= y
  <2>1. ~(<<y, x>> \in {p \in Nat \X Nat : p[1] < p[2]})
    BY <1>1, <1>2, Zenon
  <2>2. x \in Nat /\ y \in Nat
    OBVIOUS
  <2>3. QED BY <2>1, <2>2, SMT
<1>4. QED BY <1>3

(* A set of numbers up to n that is not empty has a greatest element. *)
LEMMA GreatestExists ==
  ASSUME NEW n \in Nat, NEW T \in SUBSET (1..n), T # {}
  PROVE  \E x \in T : \A y \in T : y <= x
<1> DEFINE D == {n - i : i \in T}
<1>1. D \in SUBSET Nat /\ D # {}
  <2>1. ASSUME NEW i \in T PROVE n - i \in Nat
    BY SMT
  <2>2. D \in SUBSET Nat BY <2>1, Zenon
  <2>3. D # {} BY Zenon
  <2>4. QED BY <2>2, <2>3, Zenon
<1>2. PICK d \in D : \A e \in D : d <= e
  BY <1>1, LeastExists
<1>3. PICK x \in T : d = n - x
  OBVIOUS
<1>4. ASSUME NEW y \in T PROVE y <= x
  <2>1. n - y \in D OBVIOUS
  <2>2. n - x <= n - y BY <2>1, <1>2, <1>3
  <2>3. QED BY <2>2
<1>5. QED BY <1>4

-----------------------------------------------------------------------------
(* Every step on a handshake object keeps its message and its slot. *)

(* Keeps is transitive. *)
LEMMA KeepsTrans ==
  ASSUME NEW s, NEW t, NEW u, Keeps(s, t), Keeps(t, u)
  PROVE  Keeps(s, u)
BY Zenon DEF Keeps

(* Keeps preserves the shape. *)
LEMMA KeepsShape ==
  ASSUME NEW s, NEW t, Shaped(s), Keeps(s, t)
  PROVE  Shaped(t)
BY Zenon DEF Keeps, Shaped

(* Keeps is reflexive. *)
LEMMA KeepsSame == \A s : Keeps(s, s)
BY Zenon DEF Keeps

(* The small steps. *)
LEMMA SmallStepsKeep ==
  ASSUME NEW s, Shaped(s)
  PROVE  /\ Keeps(s, ClearLater(s))
         /\ Keeps(s, ClearRelayRecovery(s))
         /\ Keeps(s, DestroyRaw(s))
         /\ Keeps(s, Silence(s))
         /\ Keeps(s, DestroyRelayConnection(s))
         /\ Keeps(s, SetupHolepuncher(s))
         /\ Keeps(s, StartRelay(s))
         /\ Keeps(s, WaitPassively(s))
<1>1. Keeps(s, ClearLater(s)) BY Zenon DEF ClearLater, Keeps, Shaped
<1>2. Keeps(s, ClearRelayRecovery(s)) BY Zenon DEF ClearRelayRecovery, Keeps, Shaped
<1>3. Keeps(s, DestroyRaw(s)) BY Zenon DEF DestroyRaw, Keeps, Shaped
<1>4. Keeps(s, Silence(s)) BY Zenon DEF Silence, Keeps, Shaped
<1>5. Keeps(s, DestroyRelayConnection(s)) BY Zenon DEF DestroyRelayConnection, Keeps, Shaped
<1>6. Keeps(s, SetupHolepuncher(s)) BY Zenon DEF SetupHolepuncher, Keeps, Shaped
<1>7. Keeps(s, StartRelay(s)) BY Zenon DEF StartRelay, Keeps, Shaped
<1>8. Keeps(s, WaitPassively(s)) BY Zenon DEF WaitPassively, Keeps, Shaped
<1>9. QED BY <1>1, <1>2, <1>3, <1>4, <1>5, <1>6, <1>7, <1>8, Zenon

(* onabort. *)
LEMMA OnAbortKeeps == ASSUME NEW s, Shaped(s) PROVE Keeps(s, OnAbort(s))
<1> DEFINE c == ClearRelayRecovery(s)
           u == [c EXCEPT !.aborted = TRUE, !.prepunching = "none"]
           t == Silence(u)
<1>1. Keeps(s, c) /\ Shaped(c) BY SmallStepsKeep, KeepsShape, Zenon
<1>2. Keeps(c, u) BY <1>1, Zenon DEF Keeps, Shaped
<1>3. OnAbort(s) \in {ClearLater(t), DestroyRaw(t), t} BY Zenon DEF OnAbort
<1> HIDE DEF c, u
<1>4. Keeps(s, u) /\ Shaped(u) BY <1>1, <1>2, KeepsTrans, KeepsShape, Zenon
<1>5. Keeps(s, t) /\ Shaped(t) BY <1>4, SmallStepsKeep, KeepsTrans, KeepsShape, Zenon
<1> HIDE DEF t
<1>6. Keeps(s, ClearLater(t)) BY <1>5, SmallStepsKeep, KeepsTrans, Zenon
<1>7. Keeps(s, DestroyRaw(t)) BY <1>5, SmallStepsKeep, KeepsTrans, Zenon
<1>8. QED BY <1>3, <1>5, <1>6, <1>7, Zenon

(* Holepuncher.destroy(). *)
LEMMA DestroyPuncherKeeps == ASSUME NEW s, Shaped(s) PROVE Keeps(s, DestroyPuncher(s))
<1> DEFINE u == [s EXCEPT !.puncher = "destroyed"]
<1>1. Keeps(s, u) BY Zenon DEF Keeps, Shaped
<1>2. DestroyPuncher(s) \in {s, u, OnAbort(u)} BY Zenon DEF DestroyPuncher
<1> HIDE DEF u
<1>3. Shaped(u) BY <1>1, KeepsShape, Zenon
<1>4. Keeps(s, OnAbort(u)) BY <1>1, <1>3, OnAbortKeeps, KeepsTrans, Zenon
<1>5. QED BY <1>1, <1>2, <1>4, KeepsSame, Zenon

(* hs.onsocket. *)
LEMMA OnSocketKeeps == ASSUME NEW s, Shaped(s) PROVE Keeps(s, OnSocket(s))
<1> DEFINE c == ClearRelayRecovery(s)
           d == ClearLater(c)
           u == [d EXCEPT !.prepunching = "none",
                          !.emitted = IF s.connected THEN @ ELSE @ + 1,
                          !.raw = "given"]
<1>1. OnSocket(s) \in {s, Silence(u)} BY Zenon DEF OnSocket
<1>2. Keeps(s, c) /\ Shaped(c) BY SmallStepsKeep, KeepsShape, Zenon
<1> HIDE DEF c
<1>3. Keeps(s, d) /\ Shaped(d) BY <1>2, SmallStepsKeep, KeepsTrans, KeepsShape, Zenon
<1>4. Keeps(d, u) BY <1>3, Zenon DEF Keeps, Shaped
<1> HIDE DEF d, u
<1>5. Keeps(s, u) /\ Shaped(u) BY <1>3, <1>4, KeepsTrans, KeepsShape, Zenon
<1>6. Keeps(s, Silence(u)) BY <1>5, SmallStepsKeep, KeepsTrans, Zenon
<1>7. QED BY <1>1, <1>6, KeepsSame, Zenon

(* maybeDestroyRelayHandshake. *)
LEMMA MaybeDestroyKeeps ==
  ASSUME NEW s, Shaped(s) PROVE Keeps(s, MaybeDestroyRelayHandshake(s))
<1> DEFINE u == [s EXCEPT !.recovery = TRUE]
<1>1. Keeps(s, u) BY Zenon DEF Keeps, Shaped
<1>2. MaybeDestroyRelayHandshake(s) \in {s, u, DestroyRaw(s)}
  BY Zenon DEF MaybeDestroyRelayHandshake
<1>3. QED BY <1>1, <1>2, SmallStepsKeep, KeepsSame, Zenon

(* The relay's onabort. *)
LEMMA RelayOnAbortKeeps == ASSUME NEW s, Shaped(s) PROVE Keeps(s, RelayOnAbort(s))
<1> DEFINE d == DestroyRelayConnection(s)
           u == [d EXCEPT !.failed = TRUE, !.late = FALSE]
<1>1. Keeps(s, d) /\ Shaped(d) BY SmallStepsKeep, KeepsShape, Zenon
<1>2. Keeps(d, u) BY <1>1, Zenon DEF Keeps, Shaped
<1>3. RelayOnAbort(s) = MaybeDestroyRelayHandshake(u) BY Zenon DEF RelayOnAbort
<1> HIDE DEF d, u
<1>4. Keeps(s, u) /\ Shaped(u) BY <1>1, <1>2, KeepsTrans, KeepsShape, Zenon
<1>5. QED BY <1>3, <1>4, MaybeDestroyKeeps, KeepsTrans, Zenon

(* The ends of _addHandshake(). *)
LEMMA EndsKeep ==
  ASSUME NEW s, Shaped(s)
  PROVE  Keeps(s, Fail(s)) /\ Keeps(s, WaitForPeer(s))
<1>1. Keeps(s, Fail(s))
  <2> DEFINE u == [s EXCEPT !.pc = "failed"]
  <2>1. Keeps(s, u) BY Zenon DEF Keeps, Shaped
  <2>2. Fail(s) = ClearLater(u) BY Zenon DEF Fail
  <2> HIDE DEF u
  <2>3. QED BY <2>1, <2>2, SmallStepsKeep, KeepsTrans, KeepsShape, Zenon
<1>2. Keeps(s, WaitForPeer(s))
  <2> DEFINE p == SetupHolepuncher(s)
             u == [p EXCEPT !.prepunching = "destroy", !.pc = "returned"]
  <2>1. Keeps(s, p) /\ Shaped(p) BY SmallStepsKeep, KeepsShape, Zenon
  <2>2. Keeps(p, u) BY <2>1, Zenon DEF Keeps, Shaped
  <2>3. WaitForPeer(s) \in {u, WaitPassively(s)} BY Zenon DEF WaitForPeer
  <2> HIDE DEF p, u
  <2>4. QED BY <2>1, <2>2, <2>3, SmallStepsKeep, KeepsTrans, Zenon
<1>3. QED BY <1>1, <1>2, Zenon

(* The part of _clearAll() on one handshake. *)
LEMMA DropKeeps == ASSUME NEW s, Shaped(s) PROVE Keeps(s, Drop(s))
<1> DEFINE p == DestroyPuncher(s)
           c == ClearRelayRecovery(p)
           u == [c EXCEPT !.clearing = Cancel(@), !.prepunching = Cancel(@)]
<1>1. Keeps(s, p) /\ Shaped(p) BY DestroyPuncherKeeps, KeepsShape, Zenon
<1>2. Drop(s) = DestroyRaw(u) BY Zenon DEF Drop
<1> HIDE DEF p
<1>3. Keeps(s, c) /\ Shaped(c) BY <1>1, SmallStepsKeep, KeepsTrans, KeepsShape, Zenon
<1>4. Keeps(c, u) BY <1>3, Zenon DEF Keeps, Shaped
<1> HIDE DEF c, u
<1>5. Keeps(s, u) /\ Shaped(u) BY <1>3, <1>4, KeepsTrans, KeepsShape, Zenon
<1>6. QED BY <1>2, <1>5, SmallStepsKeep, KeepsTrans, Zenon

-----------------------------------------------------------------------------
(* Steps that leave the tables alone. *)

Kept == DOMAIN hs' = Handshakes /\ \A g \in Handshakes : Keeps(hs[g], hs'[g])

(* Writing a later state of one handshake keeps them all. *)
LEMMA SetKeeps ==
  ASSUME ObjectsOK, NEW h \in Handshakes, NEW t, Keeps(hs[h], t), Set(h, t)
  PROVE  Kept
<1>1. DOMAIN hs = Handshakes BY Zenon DEF ObjectsOK
<1>2. hs' = [hs EXCEPT ![h] = t] BY Zenon DEF Set
<1>3. ASSUME NEW g \in Handshakes PROVE Keeps(hs[g], hs'[g])
  <2>1. CASE g = h
    <3>1. hs'[g] = t BY <1>1, <1>2, <2>1, Zenon
    <3>2. QED BY <2>1, <3>1, Zenon
  <2>2. CASE g # h
    <3>1. hs'[g] = hs[g] BY <1>1, <1>2, <2>2, Zenon
    <3>2. QED BY <3>1, KeepsSame, Zenon
  <2>3. QED BY <2>1, <2>2
<1>4. DOMAIN hs' = Handshakes BY <1>1, <1>2, Zenon
<1>5. QED BY <1>3, <1>4 DEF Kept

(* The stages of _addHandshake() and the answer. *)
LEMMA HandshakeStepKeeps ==
  ASSUME ObjectsOK, NEW h \in Handshakes, HandshakeStep(h)
  PROVE  Kept
<1> DEFINE s == hs[h]
<1>0. Shaped(s) BY Zenon DEF ObjectsOK
<1>f. Keeps(s, Fail(s)) BY <1>0, EndsKeep, Zenon
<1>pc. ASSUME NEW p, p # "unused" PROVE Keeps(s, [s EXCEPT !.pc = p])
  BY <1>0, <1>pc, Zenon DEF Keeps, Shaped
<1>1. CASE Received(h)
  <2>1. Set(h, Fail(s)) \/ Set(h, [s EXCEPT !.pc = "firewall"])
    BY <1>1, Zenon DEF Received
  <2>2. Keeps(s, [s EXCEPT !.pc = "firewall"]) BY <1>pc, Zenon
  <2>3. QED BY <2>1, <2>2, <1>f, SetKeeps, Zenon
<1>2. CASE Firewalled(h)
  <2>1. Set(h, Fail(s)) \/ Set(h, [s EXCEPT !.pc = "local"])
    BY <1>2, Zenon DEF Firewalled
  <2>2. Keeps(s, [s EXCEPT !.pc = "local"]) BY <1>pc, Zenon
  <2>3. QED BY <2>1, <2>2, <1>f, SetKeeps, Zenon
<1>3. CASE Localized(h)
  <2>1. \/ Set(h, Fail(s))
        \/ \E raw, relay : Set(h, [s EXCEPT !.pc = "send", !.raw = raw, !.relay = relay])
    BY <1>3, Zenon DEF Localized
  <2>2. ASSUME NEW raw, NEW relay
        PROVE  Keeps(s, [s EXCEPT !.pc = "send", !.raw = raw, !.relay = relay])
    BY <1>0, Zenon DEF Keeps, Shaped
  <2>3. QED BY <2>1, <2>2, <1>f, SetKeeps, Zenon
<1>4. CASE Sent(h)
  <2> DEFINE r == [s EXCEPT !.pc = "returned"]
             l(t) == [t EXCEPT !.pc = "lan"]
  <2>1. \/ Set(h, Fail(DestroyRaw(s)))
        \/ Set(h, ClearLater(r))
        \/ Set(h, OnSocket(r))
        \/ \E t \in {s, StartRelay(s)} : Set(h, l(t)) \/ Set(h, WaitForPeer(t))
    BY <1>4, Zenon DEF Sent
  <2>2. Keeps(s, r) /\ Shaped(r) BY <1>0, <1>pc, KeepsShape, Zenon
  <2>3. Keeps(s, Fail(DestroyRaw(s)))
    <3>1. Keeps(s, DestroyRaw(s)) /\ Shaped(DestroyRaw(s))
      BY <1>0, SmallStepsKeep, KeepsShape, Zenon
    <3>2. QED BY <3>1, EndsKeep, KeepsTrans, Zenon
  <2> HIDE DEF r
  <2>4. Keeps(s, ClearLater(r)) /\ Keeps(s, OnSocket(r))
    BY <2>2, SmallStepsKeep, OnSocketKeeps, KeepsTrans, Zenon
  <2>5. ASSUME NEW t \in {s, StartRelay(s)} PROVE Keeps(s, l(t)) /\ Keeps(s, WaitForPeer(t))
    <3>1. Keeps(s, t) /\ Shaped(t) BY <1>0, SmallStepsKeep, KeepsSame, KeepsShape, Zenon
    <3>2. Keeps(t, l(t)) BY <3>1, Zenon DEF Keeps, Shaped
    <3>3. Keeps(t, WaitForPeer(t)) BY <3>1, EndsKeep, Zenon
    <3> HIDE DEF l
    <3>4. QED BY <3>1, <3>2, <3>3, KeepsTrans, Zenon
  <2> HIDE DEF l
  <2>6. QED BY <2>1, <2>3, <2>4, <2>5, SetKeeps, Zenon
<1>5. CASE LanChecked(h)
  <2>1. \/ Set(h, WaitPassively(SetupHolepuncher(s)))
        \/ Set(h, Fail(s)) \/ Set(h, WaitForPeer(s))
    BY <1>5, Zenon DEF LanChecked
  <2>2. Keeps(s, WaitPassively(SetupHolepuncher(s)))
    <3>1. Keeps(s, SetupHolepuncher(s)) /\ Shaped(SetupHolepuncher(s))
      BY <1>0, SmallStepsKeep, KeepsShape, Zenon
    <3>2. QED BY <3>1, SmallStepsKeep, KeepsTrans, Zenon
  <2>3. Keeps(s, WaitForPeer(s)) BY <1>0, EndsKeep, Zenon
  <2>4. QED BY <2>1, <2>2, <2>3, <1>f, SetKeeps, Zenon
<1>6. CASE Answer(h)
  <2>1. Set(h, [s EXCEPT !.pc = IF Stopped THEN "refused" ELSE "answered"])
    BY <1>6, Zenon DEF Answer
  <2>2. Keeps(s, [s EXCEPT !.pc = IF Stopped THEN "refused" ELSE "answered"])
    <3>1. (IF Stopped THEN "refused" ELSE "answered") # "unused" BY Zenon
    <3>2. QED BY <3>1, <1>pc, Zenon
  <2>3. QED BY <2>1, <2>2, SetKeeps, Zenon
<1>7. QED BY <1>1, <1>2, <1>3, <1>4, <1>5, <1>6 DEF HandshakeStep

(* The raw stream, the relay, the timers but the one that clears, and the   *)
(* end of the probes.                                                       *)
LEMMA EventKeeps ==
  ASSUME ObjectsOK, NEW h \in Handshakes,
         \/ DirectTraffic(h) \/ RawError(h) \/ RawClosed(h)
         \/ RelayPaired(h) \/ RelayFailed(h) \/ RelayLost(h) \/ UpgradeSettled(h)
         \/ RecoveryDue(h) \/ RecoveryTimer(h) \/ PrepunchTimer(h) \/ ProbesEnd(h)
  PROVE  Kept
<1> DEFINE s == hs[h]
<1>0. Shaped(s) BY Zenon DEF ObjectsOK
<1>1. CASE DirectTraffic(h)
  BY <1>0, <1>1, OnSocketKeeps, SetKeeps, Zenon DEF DirectTraffic
<1>2. CASE RawError(h)
  <2>1. Keeps(s, DestroyPuncher(s)) /\ Shaped(DestroyPuncher(s))
    BY <1>0, DestroyPuncherKeeps, KeepsShape, Zenon
  <2>2. Keeps(s, DestroyRaw(DestroyPuncher(s)))
    BY <2>1, SmallStepsKeep, KeepsTrans, Zenon
  <2>3. QED BY <1>2, <2>2, SetKeeps, Zenon DEF RawError
<1>3. CASE RawClosed(h)
  <2> DEFINE c == ClearRelayRecovery(s)
             u == [c EXCEPT !.raw = "closed"]
             T == {u, ClearLater(u), ClearLater(Silence(u))}
  <2>1. \E t \in T : Set(h, t) \/ Set(h, DestroyRelayConnection(t))
    BY <1>3, Zenon DEF RawClosed
  <2>2. Keeps(s, c) /\ Shaped(c) BY <1>0, SmallStepsKeep, KeepsShape, Zenon
  <2>3. Keeps(c, u) BY <2>2, Zenon DEF Keeps, Shaped
  <2> HIDE DEF c, u
  <2>4. Keeps(s, u) /\ Shaped(u) BY <2>2, <2>3, KeepsTrans, KeepsShape, Zenon
  <2>5. Keeps(s, Silence(u)) /\ Shaped(Silence(u))
    BY <2>4, SmallStepsKeep, KeepsTrans, KeepsShape, Zenon
  <2>6. Keeps(s, ClearLater(u)) BY <2>4, SmallStepsKeep, KeepsTrans, Zenon
  <2>7. Keeps(s, ClearLater(Silence(u))) BY <2>5, SmallStepsKeep, KeepsTrans, Zenon
  <2>8. ASSUME NEW t \in T PROVE Keeps(s, t) /\ Keeps(s, DestroyRelayConnection(t))
    <3>1. Keeps(s, t) BY <2>4, <2>6, <2>7, Zenon
    <3>2. Shaped(t) BY <1>0, <3>1, KeepsShape, Zenon
    <3>3. QED BY <3>1, <3>2, SmallStepsKeep, KeepsTrans, Zenon
  <2> HIDE DEF T
  <2>9. QED BY <2>1, <2>8, SetKeeps, Zenon
<1>4. CASE RelayPaired(h)
  <2> DEFINE u == [s EXCEPT !.relay = "paired", !.prepunching = "none",
                            !.connected = TRUE, !.emitted = @ + 1]
  <2>1. Set(h, RelayOnAbort(s)) \/ Set(h, u) BY <1>4, Zenon DEF RelayPaired
  <2>2. Keeps(s, u) BY <1>0, Zenon DEF Keeps, Shaped
  <2> HIDE DEF u
  <2>3. QED BY <1>0, <2>1, <2>2, RelayOnAbortKeeps, SetKeeps, Zenon
<1>5. CASE RelayFailed(h)
  BY <1>0, <1>5, RelayOnAbortKeeps, SetKeeps, Zenon DEF RelayFailed
<1>6. CASE RelayLost(h)
  BY <1>0, <1>6, RelayOnAbortKeeps, SetKeeps, Zenon DEF RelayLost
<1>7. CASE UpgradeSettled(h)
  BY <1>0, <1>7, SmallStepsKeep, SetKeeps, Zenon DEF UpgradeSettled
<1>8. CASE RecoveryDue(h)
  <2>1. Keeps(s, [s EXCEPT !.late = TRUE]) BY <1>0, Zenon DEF Keeps, Shaped
  <2>2. QED BY <1>8, <2>1, SetKeeps, Zenon DEF RecoveryDue
<1>9. CASE RecoveryTimer(h)
  <2> DEFINE u == [s EXCEPT !.recovery = FALSE]
  <2>1. Keeps(s, u) BY <1>0, Zenon DEF Keeps, Shaped
  <2>2. Set(h, MaybeDestroyRelayHandshake(u)) BY <1>9, Zenon DEF RecoveryTimer
  <2> HIDE DEF u
  <2>3. Keeps(s, MaybeDestroyRelayHandshake(u))
    BY <1>0, <2>1, MaybeDestroyKeeps, KeepsTrans, KeepsShape, Zenon
  <2>4. QED BY <2>2, <2>3, SetKeeps, Zenon
<1>10. CASE PrepunchTimer(h)
  <2> DEFINE u == [s EXCEPT !.prepunching = "spent"]
  <2>1. Keeps(s, u) BY <1>0, Zenon DEF Keeps, Shaped
  <2>2. Set(h, OnAbort(u)) \/ Set(h, DestroyPuncher(u)) BY <1>10, Zenon DEF PrepunchTimer
  <2> HIDE DEF u
  <2>3. Shaped(u) BY <1>0, <2>1, KeepsShape, Zenon
  <2>4. Keeps(s, OnAbort(u)) BY <2>1, <2>3, OnAbortKeeps, KeepsTrans, Zenon
  <2>5. Keeps(s, DestroyPuncher(u)) BY <2>1, <2>3, DestroyPuncherKeeps, KeepsTrans, Zenon
  <2>6. QED BY <2>2, <2>4, <2>5, SetKeeps, Zenon
<1>11. CASE ProbesEnd(h)
  BY <1>0, <1>11, DestroyPuncherKeeps, SetKeeps, Zenon DEF ProbesEnd
<1>12. QED
  BY <1>1, <1>2, <1>3, <1>4, <1>5, <1>6, <1>7, <1>8, <1>9, <1>10, <1>11

-----------------------------------------------------------------------------
(* Holepunch requests. *)

(* Nothing changes. *)
LEMMA SameKeeps == ASSUME ObjectsOK, UNCHANGED hs PROVE Kept
BY KeepsSame, Zenon DEF Kept, ObjectsOK

(* The handshake of a request, if the request has one. *)
LEMMA RequestSetKeeps ==
  ASSUME ObjectsOK, NEW r, NEW t, Set(reqs[r].h, t),
         reqs[r].h \in Handshakes => Keeps(hs[reqs[r].h], t)
  PROVE  Kept
<1>1. CASE reqs[r].h \in Handshakes BY <1>1, SetKeeps, Zenon
<1>2. CASE reqs[r].h \notin Handshakes
  <2> DEFINE x == reqs[r].h
  <2>1. DOMAIN hs = Handshakes BY Zenon DEF ObjectsOK
  <2>2. hs' = [hs EXCEPT ![x] = t] BY Zenon DEF Set
  <2>3. x \notin Handshakes BY <1>2
  <2> HIDE DEF x
  <2>4. ASSUME NEW g \in Handshakes PROVE Keeps(hs[g], hs'[g])
    <3>1. g # x BY <2>3
    <3>2. hs'[g] = hs[g] BY <2>1, <2>2, <3>1, Zenon
    <3>3. QED BY <3>2, KeepsSame, Zenon
  <2>5. DOMAIN hs' = Handshakes BY <2>1, <2>2, Zenon
  <2>6. QED BY <2>4, <2>5 DEF Kept
<1>3. QED BY <1>1, <1>2

(* The end of a request. *)
LEMMA FinishKeeps ==
  ASSUME ObjectsOK, NEW r, NEW t, Finish(r, t),
         reqs[r].h \in Handshakes => Keeps(hs[reqs[r].h], t)
  PROVE  Kept
<1> DEFINE s == hs[reqs[r].h]
           u == [t EXCEPT !.active = @ - 1]
<1>1. Set(reqs[r].h, MaybeDestroyRelayHandshake(u)) BY Zenon DEF Finish
<1>2. ASSUME reqs[r].h \in Handshakes PROVE Keeps(s, MaybeDestroyRelayHandshake(u))
  <2>1. Shaped(s) BY <1>2, Zenon DEF ObjectsOK
  <2>2. Keeps(s, t) /\ Shaped(t) BY <1>2, <2>1, KeepsShape, Zenon
  <2>3. Keeps(t, u) BY <2>2, Zenon DEF Keeps, Shaped
  <2> HIDE DEF u
  <2>4. Keeps(s, u) /\ Shaped(u) BY <2>2, <2>3, KeepsTrans, KeepsShape, Zenon
  <2>5. QED BY <2>4, MaybeDestroyKeeps, KeepsTrans, Zenon
<1> HIDE DEF u
<1>3. QED BY <1>1, <1>2, RequestSetKeeps, Zenon

(* The request aborts its handshake. *)
LEMMA AbortKeeps ==
  ASSUME ObjectsOK, NEW h \in Handshakes, NEW t, Keeps(hs[h], t)
  PROVE  Keeps(hs[h], Abort(t))
<1>1. Shaped(t) BY KeepsShape, Zenon DEF ObjectsOK
<1>2. Abort(t) = DestroyPuncher(t) BY Zenon DEF Abort
<1>3. QED BY <1>1, <1>2, DestroyPuncherKeeps, KeepsTrans, Zenon

(* What is left of a request after its analysis. *)
LEMMA DecideKeeps ==
  ASSUME ObjectsOK, NEW r, Decide(r, hs[reqs[r].h])
  PROVE  Kept
<1> DEFINE x == reqs[r].h
           s == hs[x]
           u == [s EXCEPT !.prepunching = "none"]
           v(p) == [u EXCEPT !.puncher = p]
<1>1. \/ Finish(r, s) \/ Finish(r, Abort(s)) \/ Finish(r, u) \/ Finish(r, Abort(u))
      \/ \E p : Set(x, v(p))
  BY Zenon DEF Decide
<1>2. ASSUME x \in Handshakes PROVE Keeps(s, u) /\ \A p : Keeps(s, v(p))
  <2>1. Shaped(s) BY <1>2, Zenon DEF ObjectsOK
  <2>2. Keeps(s, u) BY <2>1, Zenon DEF Keeps, Shaped
  <2>3. Shaped(u) BY <2>1, <2>2, KeepsShape, Zenon
  <2> HIDE DEF u
  <2>4. ASSUME NEW p PROVE Keeps(s, v(p))
    <3>1. Keeps(u, v(p)) BY <2>3, Zenon DEF Keeps, Shaped
    <3> HIDE DEF v
    <3>2. QED BY <2>2, <3>1, KeepsTrans, Zenon
  <2> HIDE DEF v
  <2>5. QED BY <2>2, <2>4, Zenon
<1> HIDE DEF u, v
<1>3. x \in Handshakes => Keeps(s, s) BY KeepsSame, Zenon
<1>4. x \in Handshakes => Keeps(s, Abort(s)) BY <1>3, AbortKeeps, Zenon
<1>5. x \in Handshakes => Keeps(s, Abort(u)) BY <1>2, AbortKeeps, Zenon
<1>6. CASE Finish(r, s) BY <1>3, <1>6, FinishKeeps, Zenon
<1>7. CASE Finish(r, Abort(s)) BY <1>4, <1>7, FinishKeeps, Zenon
<1>8. CASE Finish(r, u) BY <1>2, <1>8, FinishKeeps, Zenon
<1>9. CASE Finish(r, Abort(u)) BY <1>5, <1>9, FinishKeeps, Zenon
<1>10. CASE \E p : Set(x, v(p)) BY <1>2, <1>10, RequestSetKeeps, Zenon
<1>11. QED BY <1>1, <1>6, <1>7, <1>8, <1>9, <1>10

(* Every stage of a request. *)
LEMMA RequestStepKeeps ==
  ASSUME ObjectsOK, NEW r \in Requests, RequestStep(r)
  PROVE  Kept
<1> DEFINE x == reqs[r].h
           s == hs[x]
           u == [s EXCEPT !.puncher = "probing"]
<1>1. \/ Finish(r, s) \/ Finish(r, Abort(s)) \/ Finish(r, u)
      \/ Decide(r, s) \/ UNCHANGED hs
  BY Zenon DEF RequestStep, PuncherGone, Analyzed, Reopened, Pinged, Punched, Target, Stable
<1>2. x \in Handshakes => Keeps(s, s) BY KeepsSame, Zenon
<1>3. x \in Handshakes => Keeps(s, Abort(s)) BY <1>2, AbortKeeps, Zenon
<1>4. ASSUME x \in Handshakes PROVE Keeps(s, u)
  <2>1. Shaped(s) BY <1>4, Zenon DEF ObjectsOK
  <2>2. QED BY <2>1, Zenon DEF Keeps, Shaped
<1> HIDE DEF u
<1>5. CASE Finish(r, s) BY <1>2, <1>5, FinishKeeps, Zenon
<1>6. CASE Finish(r, Abort(s)) BY <1>3, <1>6, FinishKeeps, Zenon
<1>7. CASE Finish(r, u) BY <1>4, <1>7, FinishKeeps, Zenon
<1>8. CASE Decide(r, s) BY <1>8, DecideKeeps, Zenon
<1>9. CASE UNCHANGED hs BY <1>9, SameKeeps, Zenon
<1>10. QED BY <1>1, <1>5, <1>6, <1>7, <1>8, <1>9

(* A request arrives. *)
LEMMA HolepunchRequestKeeps ==
  ASSUME ObjectsOK, NEW r \in Requests, NEW h \in Handshakes, HolepunchRequest(r, h)
  PROVE  Kept
<1> DEFINE s == hs[h]
           u(w) == [s EXCEPT !.wants = w, !.active = @ + 1]
<1>1. Set(h, Abort(s)) \/ \E w : Set(h, u(w)) BY Zenon DEF HolepunchRequest
<1>2. Shaped(s) BY Zenon DEF ObjectsOK
<1>3. ASSUME NEW w PROVE Keeps(s, u(w)) BY <1>2, Zenon DEF Keeps, Shaped
<1> HIDE DEF u
<1>4. Keeps(s, Abort(s)) BY KeepsSame, AbortKeeps, Zenon
<1>5. QED BY <1>1, <1>3, <1>4, SetKeeps, Zenon

-----------------------------------------------------------------------------
(* The tables. *)

(* Objects stay objects. *)
LEMMA KeptObjects == ASSUME ObjectsOK, Kept PROVE ObjectsOK'
<1>1. ASSUME NEW h \in Handshakes
      PROVE  Shaped(hs'[h]) /\ (hs'[h].pc = "unused" => hs'[h].id = 0)
  <2>1. Keeps(hs[h], hs'[h]) BY Zenon DEF Kept
  <2>2. Shaped(hs[h]) BY Zenon DEF ObjectsOK
  <2>3. Shaped(hs'[h]) BY <2>1, <2>2, KeepsShape, Zenon
  <2>4. hs'[h].pc = "unused" => hs'[h].id = 0 BY <2>1, Zenon DEF ObjectsOK, Keeps
  <2>5. QED BY <2>3, <2>4, Zenon
<1>2. DOMAIN hs' = Handshakes BY Zenon DEF Kept
<1>3. QED BY <1>1, <1>2, Zenon DEF ObjectsOK, Shaped, Handshakes

(* A step that keeps the handshakes and the tables keeps the invariant. *)
LEMMA QuietStep == ASSUME TableInv, Kept, TableUnchanged PROVE TableInv'
<1>1. ObjectsOK' BY KeptObjects, Zenon DEF TableInv
<1>2. holepunches' = holepunches /\ connects' = connects BY Zenon DEF TableUnchanged
<1>3. \A g \in Handshakes : hs'[g].key = hs[g].key /\ hs'[g].id = hs[g].id
  BY Zenon DEF Kept, Keeps
<1>4. \A i \in 1..Len(holepunches) : holepunches[i] # 0 => holepunches[i] \in Handshakes
  BY HandshakesAssumption, SMT DEF TableInv, TablesOK, Handshakes
<1>5. TablesOK'
  BY <1>2, <1>3, <1>4, SMT DEF TableInv, TablesOK
<1>6. \A k \in Keys : connects[k] # 0 => connects[k] \in Handshakes
  BY HandshakesAssumption, SMT DEF TableInv, TablesOK, Handshakes
<1>7. TablesAgree'
  BY <1>2, <1>3, <1>4, <1>6, SMT DEF TableInv, TablesAgree, InTable
<1>8. QED BY <1>1, <1>5, <1>7 DEF TableInv

(* An element of a sequence. *)
LEMMA ElementInRange == ASSUME NEW S, NEW q \in Seq(S), NEW i \in 1..Len(q) PROVE q[i] \in S
OBVIOUS

(* A new handshake takes a free slot and a message that is not known. *)
LEMMA AddHandshakeStep ==
  ASSUME TableInv, NEW h \in Handshakes, NEW k \in Keys, AddHandshake(h, k)
  PROVE  TableInv'
<1> DEFINE n == Len(holepunches)
           free == {i \in 1..n : holepunches[i] = 0}
           id == IF free = {} THEN n + 1 ELSE CHOOSE i \in free : \A j \in free : i <= j
           m == IF free = {} THEN id ELSE n
           t == [Fresh EXCEPT !.pc = "recv", !.key = k, !.id = id]
<1>1. /\ connects[k] = 0
      /\ hs[h].pc = "unused"
      /\ holepunches' = [i \in 1..m |-> IF i = id THEN h ELSE holepunches[i]]
      /\ connects' = [connects EXCEPT ![k] = h]
      /\ hs' = [hs EXCEPT ![h] = t]
  BY Zenon DEF AddHandshake, Set
<1>2. t.pc = "recv" /\ t.key = k /\ t.id = id /\ Shaped(t)
  <2> HIDE DEF id
  <2>1. DOMAIN t = DOMAIN Fresh BY Zenon
  <2>2. {"pc", "key", "id"} \subseteq DOMAIN Fresh BY SMT DEF Fresh
  <2>3. QED BY <2>1, <2>2, Zenon DEF Shaped
<1>3. n \in Nat /\ holepunches \in Seq(0..MaxHandshakes) /\ connects \in [Keys -> 0..MaxHandshakes]
  BY SMT DEF TableInv, TablesOK
<1>5. /\ id \in 1..m /\ m \in Nat /\ n <= m
      /\ id <= n => holepunches[id] = 0
      /\ \A i \in 1..m : i = id \/ i \in 1..n
  <2>1. CASE free = {}
    <3>1. id = n + 1 /\ m = n + 1 BY <2>1
    <3> HIDE DEF id, m
    <3>2. QED BY <3>1, <1>3, SMT
  <2>2. CASE free # {}
    <3>1. free \in SUBSET Nat BY <1>3, SMT
    <3>2. \E i \in free : \A j \in free : i <= j BY <2>2, <3>1, LeastExists, Zenon
    <3>3. id \in free /\ m = n
      <4>1. id = CHOOSE i \in free : \A j \in free : i <= j BY <2>2, Zenon
      <4>2. m = n BY <2>2, Zenon
      <4> HIDE DEF free, id, m
      <4>3. QED BY <3>2, <4>1, <4>2, Zenon
    <3>4. id \in 1..n /\ holepunches[id] = 0 BY <3>3, Zenon
    <3> HIDE DEF id, m
    <3>5. QED BY <3>3, <3>4, <1>3, SMT
  <2>3. QED BY <2>1, <2>2
<1> HIDE DEF free, id, m, t
<1>6. DOMAIN hs = Handshakes BY Zenon DEF TableInv, ObjectsOK
<1>7. hs'[h] = t /\ \A g \in Handshakes : g # h => hs'[g] = hs[g] BY <1>1, <1>6, Zenon
<1>8. /\ h \in Nat /\ h # 0 /\ h \in 0..MaxHandshakes
  BY HandshakesAssumption, SMT DEF Handshakes
<1>9. hs[h].id = 0 BY <1>1, Zenon DEF TableInv, ObjectsOK
<1>10. \A i \in 1..n : holepunches[i] # 0 => /\ holepunches[i] \in Handshakes
                                            /\ holepunches[i] # h
                                            /\ hs[holepunches[i]].id = i
                                            /\ hs[holepunches[i]].key \in Keys
                                            /\ connects[hs[holepunches[i]].key] = holepunches[i]
  BY <1>3, <1>9, HandshakesAssumption, SMT DEF TableInv, TablesOK, TablesAgree, Handshakes
<1>11. \A j \in Keys : connects[j] # 0 => /\ connects[j] \in Handshakes
                                         /\ hs[connects[j]].key = j
                                         /\ hs[connects[j]].id \in 1..n
                                         /\ holepunches[hs[connects[j]].id] = connects[j]
  BY <1>3, HandshakesAssumption, SMT DEF TableInv, TablesOK, TablesAgree, Handshakes, InTable
<1>12. ObjectsOK'
  <2>1. DOMAIN hs' = Handshakes BY <1>1, <1>6, Zenon
  <2>2. ASSUME NEW g \in Handshakes
        PROVE  Shaped(hs'[g]) /\ (hs'[g].pc = "unused" => hs'[g].id = 0)
    <3>1. CASE g = h BY <1>2, <1>7, <3>1, Zenon
    <3>2. CASE g # h BY <1>7, <3>2, Zenon DEF TableInv, ObjectsOK
    <3>3. QED BY <3>1, <3>2
  <2>3. QED BY <2>1, <2>2, Zenon DEF ObjectsOK, Shaped, Handshakes
<1>13. /\ holepunches' \in Seq(0..MaxHandshakes) /\ Len(holepunches') = m
       /\ \A i \in 1..m : holepunches'[i] = IF i = id THEN h ELSE holepunches[i]
  <2>1. ASSUME NEW i \in 1..m
        PROVE  (IF i = id THEN h ELSE holepunches[i]) \in 0..MaxHandshakes
    <3>1. CASE i = id BY <1>8, <3>1, Zenon
    <3>2. CASE i # id
      <4>1. i \in 1..n BY <1>5, <3>2, Zenon
      <4>2. holepunches[i] \in 0..MaxHandshakes BY <1>3, <4>1, ElementInRange, Zenon
      <4>3. QED BY <3>2, <4>2, Zenon
    <3>3. QED BY <3>1, <3>2
  <2>2. QED BY <1>1, <1>5, <2>1, SMT
<1>14. connects' \in [Keys -> 0..MaxHandshakes] /\ connects'[k] = h
       /\ \A j \in Keys : j # k => connects'[j] = connects[j]
  BY <1>1, <1>3, <1>8, SMT
<1>15. TablesOK'
  <2>1. ASSUME NEW i \in 1..m, holepunches'[i] # 0 PROVE hs'[holepunches'[i]].key \in Keys
    <3>1. CASE i = id BY <1>2, <1>7, <1>13, <3>1, SMT
    <3>2. CASE i # id BY <1>5, <1>7, <1>10, <1>13, <2>1, <3>2, SMT
    <3>3. QED BY <3>1, <3>2
  <2>2. QED BY <2>1, <1>13, <1>14, SMT DEF TablesOK
<1>16. TablesAgree'
  <2>1. ASSUME NEW j \in Keys, connects'[j] # 0
        PROVE  /\ hs'[connects'[j]].key = j
               /\ hs'[connects'[j]].id \in 1..m
               /\ holepunches'[hs'[connects'[j]].id] = connects'[j]
    <3>1. CASE j = k
      <4>1. connects'[j] = h /\ hs'[h].key = j /\ hs'[h].id = id
        BY <1>2, <1>7, <1>14, <3>1, SMT
      <4>2. holepunches'[id] = h BY <1>5, <1>13, SMT
      <4>3. QED BY <4>1, <4>2, <1>5, Zenon
    <3>2. CASE j # k
      <4> DEFINE g == connects[j]
      <4>1. connects'[j] = g /\ g # 0 BY <1>14, <2>1, <3>2, Zenon
      <4>2. g \in Handshakes /\ hs[g].key = j /\ hs[g].id \in 1..n /\ holepunches[hs[g].id] = g
        BY <1>11, <4>1, Zenon
      <4> HIDE DEF g
      <4>3. g # h BY <1>10, <4>1, <4>2, Zenon
      <4>4. hs'[g] = hs[g] BY <1>7, <4>2, <4>3, Zenon
      <4>5. hs[g].id # id BY <1>3, <1>5, <4>1, <4>2, SMT
      <4>6. hs[g].id \in 1..m BY <1>3, <1>5, <4>2, SMT
      <4>7. holepunches'[hs[g].id] = g BY <1>13, <4>2, <4>5, <4>6, Zenon
      <4>8. QED BY <4>1, <4>2, <4>4, <4>6, <4>7, Zenon
    <3>3. QED BY <3>1, <3>2
  <2>2. ASSUME NEW i \in 1..m, holepunches'[i] # 0
        PROVE  hs'[holepunches'[i]].id = i
                 /\ connects'[hs'[holepunches'[i]].key] = holepunches'[i]
    <3>1. CASE i = id BY <1>2, <1>7, <1>13, <1>14, <3>1, SMT
    <3>2. CASE i # id
      <4> DEFINE g == holepunches[i]
      <4>1. holepunches'[i] = g /\ g # 0 /\ i \in 1..n BY <1>5, <1>13, <2>2, <3>2, SMT
      <4>2. g \in Handshakes /\ g # h /\ hs[g].id = i /\ hs[g].key \in Keys
              /\ connects[hs[g].key] = g
        BY <1>10, <4>1, Zenon
      <4> HIDE DEF g
      <4>3. hs'[g] = hs[g] BY <1>7, <4>2, Zenon
      <4>4. hs[g].key # k BY <1>1, <4>1, <4>2, Zenon
      <4>5. connects'[hs[g].key] = g BY <1>14, <4>2, <4>4, Zenon
      <4>6. QED BY <4>1, <4>2, <4>3, <4>5, Zenon
    <3>3. QED BY <3>1, <3>2
  <2>3. m # 0 => holepunches'[m] # 0
    <3>1. CASE m = id BY <1>5, <1>8, <1>13, <3>1, SMT
    <3>2. CASE m # id
      <4>1. m = n BY <1>3, <1>5, <3>2, SMT
      <4>2. n # 0 => holepunches[n] # 0 BY <1>3, SMT DEF TableInv, TablesAgree
      <4>3. QED BY <1>3, <1>5, <1>13, <3>2, <4>1, <4>2, SMT
    <3>3. QED BY <3>1, <3>2
  <2>4. holepunches' # <<>> => holepunches'[Len(holepunches')] # 0
    BY <1>13, <2>3, <1>5, SMT
  <2>5. QED BY <2>1, <2>2, <2>4, <1>13, Zenon DEF TablesAgree, InTable
<1>17. QED BY <1>12, <1>15, <1>16 DEF TableInv

(* Trim() drops trailing nulls and nothing else. *)
LEMMA TrimFacts ==
  ASSUME NEW t \in Seq(0..MaxHandshakes)
  PROVE  /\ Trim(t) \in Seq(0..MaxHandshakes)
         /\ Len(Trim(t)) <= Len(t)
         /\ \A i \in 1..Len(Trim(t)) : Trim(t)[i] = t[i]
         /\ \A i \in 1..Len(t) : t[i] # 0 => i \in 1..Len(Trim(t))
         /\ Trim(t) # <<>> => Trim(t)[Len(Trim(t))] # 0
<1> DEFINE n == Len(t)
           used == {i \in 1..n : t[i] # 0}
           last == IF used = {} THEN 0 ELSE CHOOSE i \in used : \A j \in used : j <= i
<1>1. Trim(t) = SubSeq(t, 1, last) BY Zenon DEF Trim
<1>2. n \in Nat OBVIOUS
<1>3. /\ last \in 0..n
      /\ last # 0 => t[last] # 0
      /\ \A i \in 1..n : t[i] # 0 => i <= last
  <2>1. CASE used = {}
    <3>1. last = 0 BY <2>1, Zenon
    <3>2. \A i \in 1..n : t[i] = 0 BY <2>1, Zenon
    <3> HIDE DEF used, last, n
    <3>3. QED BY <3>1, <3>2, <1>2, SMT
  <2>2. CASE used # {}
    <3>1. used \in SUBSET (1..n) BY Zenon
    <3>2. \E i \in used : \A j \in used : j <= i BY <1>2, <2>2, <3>1, GreatestExists, Zenon
    <3>3. last = CHOOSE i \in used : \A j \in used : j <= i BY <2>2, Zenon
    <3>4. last \in used /\ \A j \in used : j <= last
      <4> HIDE DEF used, last
      <4>1. QED BY <3>2, <3>3, Zenon
    <3>5. last \in 1..n /\ t[last] # 0 BY <3>4, Zenon
    <3>6. \A i \in 1..n : t[i] # 0 => i <= last BY <3>4, Zenon
    <3> HIDE DEF used, last, n
    <3>7. QED BY <3>5, <3>6, <1>2, SMT
  <2>3. QED BY <2>1, <2>2
<1> HIDE DEF used, last
<1>4. /\ SubSeq(t, 1, last) \in Seq(0..MaxHandshakes)
      /\ Len(SubSeq(t, 1, last)) = last
      /\ \A i \in 1..last : SubSeq(t, 1, last)[i] = t[i]
  <2>1. last <= n BY <1>2, <1>3, SMT
  <2>2. last \in 0..n BY <1>3, Zenon
  <2>3. \A i \in 1..last : i \in 1..n BY <1>2, <2>1, <2>2, SMT
  <2>4. SubSeq(t, 1, last) = [i \in 1..last |-> t[i]] BY <1>2, <2>1, <2>2, SMT
  <2>5. \A i \in 1..last : t[i] \in 0..MaxHandshakes BY <2>3, ElementInRange, Zenon
  <2>6. QED BY <2>2, <2>4, <2>5, SMT
<1>5. \A i \in 1..n : t[i] # 0 => i \in 1..last BY <1>2, <1>3, SMT
<1>6. SubSeq(t, 1, last) # <<>> => last # 0 BY <1>3, <1>4, SMT
<1>7. last # 0 => SubSeq(t, 1, last)[last] # 0 BY <1>2, <1>3, <1>4, SMT
<1>8. last <= n BY <1>2, <1>3, SMT
<1>9. QED BY <1>1, <1>4, <1>5, <1>6, <1>7, <1>8, Zenon

(* The timer of _clearLater() frees its own slot only. *)
LEMMA ClearTimerStep ==
  ASSUME TableInv, NEW h \in Handshakes, ClearTimer(h)
  PROVE  TableInv'
<1> DEFINE c == ClearRelayRecovery(hs[h])
           u == [c EXCEPT !.clearing = "spent"]
           i0 == hs[h].id
           k0 == hs[h].key
           t == [holepunches EXCEPT ![i0] = 0]
<1>1. /\ Set(h, u)
      /\ IF InTable(h)
         THEN holepunches' = Trim(t) /\ connects' = [connects EXCEPT ![k0] = 0]
         ELSE TableUnchanged
  BY Zenon DEF ClearTimer, Clear
<1>2. Kept
  <2>1. Shaped(hs[h]) /\ ObjectsOK BY Zenon DEF TableInv, ObjectsOK
  <2>2. Keeps(hs[h], c) /\ Shaped(c) BY <2>1, SmallStepsKeep, KeepsShape, Zenon
  <2>3. Keeps(c, u) BY <2>2, Zenon DEF Keeps, Shaped
  <2> HIDE DEF c, u
  <2>4. Keeps(hs[h], u) BY <2>2, <2>3, KeepsTrans, Zenon
  <2>5. QED BY <1>1, <2>1, <2>4, SetKeeps, Zenon
<1> HIDE DEF u
<1>3. CASE ~InTable(h) BY <1>1, <1>2, <1>3, QuietStep, Zenon
<1>4. CASE InTable(h)
  <2> DEFINE n == Len(holepunches)
             q == Trim(t)
  <2>1. ObjectsOK' BY <1>2, KeptObjects, Zenon DEF TableInv
  <2>2. \A g \in Handshakes : hs'[g].key = hs[g].key /\ hs'[g].id = hs[g].id
    BY <1>2, Zenon DEF Kept, Keeps
  <2>3. n \in Nat /\ holepunches \in Seq(0..MaxHandshakes) /\ connects \in [Keys -> 0..MaxHandshakes]
    BY SMT DEF TableInv, TablesOK
  <2>4. h \in Nat /\ h # 0 /\ MaxHandshakes \in Nat
    BY HandshakesAssumption, SMT DEF Handshakes
  <2>5. i0 \in 1..n /\ holepunches[i0] = h BY <1>4, Zenon DEF InTable
  <2>6. \A i \in 1..n : holepunches[i] # 0 => /\ holepunches[i] \in Handshakes
                                             /\ hs[holepunches[i]].id = i
                                             /\ hs[holepunches[i]].key \in Keys
                                             /\ connects[hs[holepunches[i]].key] = holepunches[i]
    BY <2>3, <2>4, SMT DEF TableInv, TablesOK, TablesAgree, Handshakes
  <2>7. \A j \in Keys : connects[j] # 0 => /\ connects[j] \in Handshakes
                                          /\ hs[connects[j]].key = j
                                          /\ hs[connects[j]].id \in 1..n
                                          /\ holepunches[hs[connects[j]].id] = connects[j]
    BY <2>3, <2>4, SMT DEF TableInv, TablesOK, TablesAgree, Handshakes, InTable
  <2>8. k0 \in Keys /\ connects[k0] = h BY <2>4, <2>5, <2>6, Zenon
  <2> HIDE DEF i0, k0
  <2>9. /\ t \in Seq(0..MaxHandshakes) /\ Len(t) = n
        /\ t[i0] = 0 /\ \A i \in 1..n : i # i0 => t[i] = holepunches[i]
    <3>1. 0 \in 0..MaxHandshakes BY <2>4, SMT
    <3>2. t \in Seq(0..MaxHandshakes) BY <2>3, <2>5, <3>1, ExceptSeq, Zenon
    <3>3. Len(t) = n BY <2>3, SMT
    <3>4. t[i0] = 0 BY <2>3, <2>5, SMT
    <3>5. \A i \in 1..n : i # i0 => t[i] = holepunches[i] BY <2>3, SMT
    <3>6. QED BY <3>2, <3>3, <3>4, <3>5, Zenon
  <2> HIDE DEF t
  <2>10. /\ q \in Seq(0..MaxHandshakes) /\ Len(q) <= n
         /\ \A i \in 1..Len(q) : q[i] = t[i]
         /\ \A i \in 1..n : t[i] # 0 => i \in 1..Len(q)
         /\ q # <<>> => q[Len(q)] # 0
    BY <2>9, TrimFacts, Zenon
  <2> HIDE DEF q
  <2>11. Len(q) \in Nat BY <2>10, SMT
  <2>12. \A i \in 1..Len(q) : q[i] # 0 => i \in 1..n /\ i # i0 /\ q[i] = holepunches[i]
    <3>1. ASSUME NEW i \in 1..Len(q), q[i] # 0 PROVE i \in 1..n /\ i # i0 /\ q[i] = holepunches[i]
      <4>1. i \in 1..n BY <2>3, <2>10, <2>11, SMT
      <4>2. QED BY <2>9, <2>10, <3>1, <4>1, Zenon
    <3>2. QED BY <3>1, Zenon
  <2>13. holepunches' = q BY <1>1, <1>4, Zenon DEF q
  <2>14. /\ connects' \in [Keys -> 0..MaxHandshakes] /\ connects'[k0] = 0
         /\ \A j \in Keys : j # k0 => connects'[j] = connects[j]
    <3>1. connects' = [connects EXCEPT ![k0] = 0] BY <1>1, <1>4, Zenon
    <3>2. 0 \in 0..MaxHandshakes BY <2>4, SMT
    <3>3. QED BY <2>3, <2>8, <3>1, <3>2, Zenon
  <2>15. TablesOK'
    <3>1. ASSUME NEW i \in 1..Len(q), q[i] # 0 PROVE hs'[q[i]].key \in Keys
      BY <2>2, <2>6, <2>12, <3>1, Zenon
    <3>2. QED BY <2>10, <2>13, <2>14, <3>1, Zenon DEF TablesOK
  <2>16. ASSUME NEW j \in Keys, connects'[j] # 0
         PROVE  /\ hs'[connects'[j]].key = j
                /\ hs'[connects'[j]].id \in 1..Len(q)
                /\ q[hs'[connects'[j]].id] = connects'[j]
    <3> DEFINE g == connects[j]
    <3>1. j # k0 /\ connects'[j] = g BY <2>14, <2>16, Zenon
    <3>2. g \in Handshakes /\ hs[g].key = j /\ hs[g].id \in 1..n /\ holepunches[hs[g].id] = g /\ g # 0
      BY <2>7, <2>16, <3>1, Zenon
    <3> HIDE DEF g
    <3>3. hs[g].id # i0
      <4>1. ASSUME hs[g].id = i0 PROVE FALSE
        <5>1. g = h BY <2>5, <3>2, <4>1, Zenon
        <5>2. hs[g].key = k0 BY <5>1, Zenon DEF k0
        <5>3. QED BY <3>1, <3>2, <5>2, Zenon
      <4>2. QED BY <4>1, Zenon
    <3>4. t[hs[g].id] = g BY <2>9, <3>2, <3>3, Zenon
    <3>5. hs[g].id \in 1..Len(q) BY <2>10, <3>2, <3>4, Zenon
    <3>6. q[hs[g].id] = g BY <2>10, <3>4, <3>5, Zenon
    <3>7. QED BY <2>2, <3>1, <3>2, <3>5, <3>6, Zenon
  <2>17. ASSUME NEW i \in 1..Len(q), q[i] # 0
         PROVE  hs'[q[i]].id = i /\ connects'[hs'[q[i]].key] = q[i]
    <3> DEFINE g == q[i]
    <3>1. i \in 1..n /\ i # i0 /\ g = holepunches[i] BY <2>12, <2>17, Zenon
    <3>2. g \in Handshakes /\ hs[g].id = i /\ hs[g].key \in Keys /\ connects[hs[g].key] = g
      BY <2>6, <2>17, <3>1, Zenon
    <3> HIDE DEF g
    <3>3. g # h BY <3>1, <3>2, Zenon DEF i0
    <3>4. hs[g].key # k0 BY <2>8, <3>2, <3>3, Zenon
    <3>5. connects'[hs[g].key] = g BY <2>14, <3>2, <3>4, Zenon
    <3>6. hs'[g].id = i /\ connects'[hs'[g].key] = g BY <2>2, <3>2, <3>5, Zenon
    <3>7. QED BY <3>6, Zenon DEF g
  <2>18. TablesAgree'
    BY <2>10, <2>13, <2>16, <2>17, Zenon DEF TablesAgree, InTable
  <2>19. QED BY <2>1, <2>15, <2>18, Zenon DEF TableInv
<1>5. QED BY <1>3, <1>4

(* _clearAll() empties both tables. *)
LEMMA ClearAllStep == ASSUME TableInv, ClearAll PROVE TableInv'
<1>1. /\ hs' = [h \in Handshakes |-> IF InTable(h) THEN Drop(hs[h]) ELSE hs[h]]
      /\ holepunches' = <<>>
      /\ connects' = [k \in Keys |-> 0]
  BY Zenon DEF ClearAll
<1>2. Kept
  <2>1. ASSUME NEW g \in Handshakes PROVE Keeps(hs[g], hs'[g])
    <3>1. hs'[g] \in {Drop(hs[g]), hs[g]} BY <1>1, Zenon
    <3>2. Shaped(hs[g]) BY Zenon DEF TableInv, ObjectsOK
    <3>3. QED BY <3>1, <3>2, DropKeeps, KeepsSame, Zenon
  <2>2. DOMAIN hs' = Handshakes BY <1>1, Zenon
  <2>3. QED BY <2>1, <2>2, Zenon DEF Kept
<1>3. ObjectsOK' BY <1>2, KeptObjects, Zenon DEF TableInv
<1>4. 0 \in 0..MaxHandshakes BY HandshakesAssumption, SMT
<1>5. connects' \in [Keys -> 0..MaxHandshakes] /\ \A k \in Keys : connects'[k] = 0
  BY <1>1, <1>4, Zenon
<1>6. holepunches' \in Seq(0..MaxHandshakes) /\ Len(holepunches') = 0 /\ 1..Len(holepunches') = {}
  BY <1>1, SMT
<1>7. TablesOK' BY <1>5, <1>6, Zenon DEF TablesOK
<1>8. TablesAgree' BY <1>1, <1>5, <1>6, Zenon DEF TablesAgree
<1>9. QED BY <1>3, <1>7, <1>8, Zenon DEF TableInv

-----------------------------------------------------------------------------
(* Initially the tables are empty and no handshake was begun. *)
LEMMA TableInvInit == ASSUME Init PROVE TableInv
<1>1. /\ holepunches = <<>>
      /\ connects = [k \in Keys |-> 0]
      /\ hs = [h \in Handshakes |-> Fresh]
  BY Zenon DEF Init
<1>2. Shaped(Fresh) /\ Fresh.id = 0
  <2>1. Fresh.id = 0 BY SMT DEF Fresh
  <2>2. Shaped(Fresh) BY SMT DEF Fresh, Shaped
  <2>3. QED BY <2>1, <2>2
<1>3. ObjectsOK BY <1>1, <1>2, Zenon DEF ObjectsOK
<1>4. 0 \in 0..MaxHandshakes BY HandshakesAssumption, SMT
<1>5. connects \in [Keys -> 0..MaxHandshakes] /\ \A k \in Keys : connects[k] = 0
  BY <1>1, <1>4, Zenon
<1>6. holepunches \in Seq(0..MaxHandshakes) /\ Len(holepunches) = 0 /\ 1..Len(holepunches) = {}
  BY <1>1, SMT
<1>7. TablesOK BY <1>5, <1>6, Zenon DEF TablesOK
<1>8. TablesAgree BY <1>1, <1>5, <1>6, Zenon DEF TablesAgree
<1>9. QED BY <1>3, <1>7, <1>8, Zenon DEF TableInv

(* Every step of the server keeps the invariant. *)
LEMMA TableInvStep == ASSUME TableInv, [Next]_vars PROVE TableInv'
<1>0. ObjectsOK BY Zenon DEF TableInv
<1>1. CASE \E h \in Handshakes, k \in Keys : AddHandshake(h, k)
  BY <1>1, AddHandshakeStep, Zenon
<1>2. ASSUME NEW h \in Handshakes, HandshakeStep(h) PROVE TableInv'
  <2>1. TableUnchanged
    BY <1>2, Zenon DEF HandshakeStep, Received, Firewalled, Localized, Sent, LanChecked, Answer,
                       OnlyHandshakes
  <2>2. QED BY <1>0, <1>2, <2>1, HandshakeStepKeeps, QuietStep, Zenon
<1>3. ASSUME NEW h \in Handshakes, TimerStep(h) PROVE TableInv'
  <2>1. CASE ClearTimer(h) BY <2>1, ClearTimerStep, Zenon
  <2>2. CASE PrepunchTimer(h) \/ RecoveryDue(h) \/ RecoveryTimer(h)
    <3>1. TableUnchanged
      BY <2>2, Zenon DEF PrepunchTimer, RecoveryDue, RecoveryTimer, OnlyHandshakes
    <3>2. QED BY <1>0, <2>2, <3>1, EventKeeps, QuietStep, Zenon
  <2>3. QED BY <1>3, <2>1, <2>2, Zenon DEF TimerStep
<1>4. ASSUME NEW h \in Handshakes,
             \/ DirectTraffic(h) \/ RawError(h) \/ RawClosed(h)
             \/ RelayPaired(h) \/ RelayFailed(h) \/ RelayLost(h) \/ UpgradeSettled(h)
             \/ ProbesEnd(h)
      PROVE  TableInv'
  <2>1. TableUnchanged
    BY <1>4, Zenon DEF DirectTraffic, RawError, RawClosed, RelayPaired, RelayFailed, RelayLost,
                       UpgradeSettled, ProbesEnd, OnlyHandshakes
  <2>2. QED BY <1>0, <1>4, <2>1, EventKeeps, QuietStep, Zenon
<1>5. ASSUME NEW r \in Requests, NEW h \in Handshakes, HolepunchRequest(r, h) PROVE TableInv'
  <2>1. TableUnchanged BY <1>5, Zenon DEF HolepunchRequest
  <2>2. QED BY <1>0, <1>5, <2>1, HolepunchRequestKeeps, QuietStep, Zenon
<1>6. ASSUME NEW r \in Requests, RequestStep(r) PROVE TableInv'
  <2>1. TableUnchanged
    BY <1>6, Zenon DEF RequestStep, PuncherGone, Analyzed, Reopened, Pinged, Punched, Resolves
  <2>2. QED BY <1>0, <1>6, <2>1, RequestStepKeeps, QuietStep, Zenon
<1>7. CASE Suspend \/ CloseClears
  <2>1. ClearAll BY <1>7, Zenon DEF Suspend, CloseClears
  <2>2. QED BY <2>1, ClearAllStep, Zenon
<1>8. CASE Resume \/ Close \/ Closed \/ UNCHANGED vars
  <2>1. TableUnchanged /\ UNCHANGED hs
    BY <1>8, Zenon DEF Resume, Close, Closed, vars, TableUnchanged
  <2>2. QED BY <1>0, <2>1, SameKeeps, QuietStep, Zenon
<1>9. QED BY <1>1, <1>2, <1>3, <1>4, <1>5, <1>6, <1>7, <1>8, Zenon DEF Next

(* The handshakes known by message and the handshakes in the slots are the  *)
(* same, for any number of handshakes, messages and suspensions: no late    *)
(* _clear() frees another handshake's slot.                                 *)
THEOREM TablesAgreeHolds == Spec => []TablesAgree
<1>1. Init => TableInv BY TableInvInit
<1>2. TableInv /\ [Next]_vars => TableInv' BY TableInvStep
<1>3. TableInv => TablesAgree BY Zenon DEF TableInv
<1>4. QED BY <1>1, <1>2, <1>3, PTL DEF Spec

-----------------------------------------------------------------------------
(* The raw stream of a handshake: who may hand it over, and who ends it.     *)
(*                                                                           *)
(* SoundHandshake says how far the parts of one handshake can be (its stage, *)
(* its stream, its relay, its puncher, its timers); OwnedInv adds the        *)
(* requests: how many there are, and that the one which cancelled the timer  *)
(* of a stream nobody else ends is still at its punch.                       *)

Stage == {"unused", "failed"} \cup Awaiting \cup Returned
Armed == {"onabort", "destroy"}
Paths == {"pairing", "paired"}

HandshakeType == [
  pc: Stage, key: Keys \cup {0}, id: Nat,
  raw: {"none", "open", "closing", "closed", "given"},
  connected: BOOLEAN, emitted: Nat,
  clearing: {"none", "armed", "spent"},
  prepunching: Armed \cup {"none", "spent"},
  puncher: {"none", "idle", "trying", "probing", "destroyed"},
  hooked: BOOLEAN, wants: BOOLEAN, aborted: BOOLEAN, active: Int,
  relay: Paths \cup {"none", "token"},
  failed: BOOLEAN, late: BOOLEAN, recovery: BOOLEAN]

(* What was announced, and what a handshake has at each stage.               *)
OnceSound(s) ==
  /\ s.emitted <= 1
  /\ s.emitted = 1 => s.raw = "given" \/ s.connected
  /\ s.relay \in {"token", "pairing"} => ~s.connected
  /\ s.pc \in {"unused", "recv", "firewall", "local"} =>
       s.raw = "none" /\ s.relay = "none" /\ s.clearing = "none"
  /\ s.pc \in {"unused", "recv", "firewall", "local", "send"} => ~s.connected /\ s.relay \notin Paths
  /\ s.pc \notin Returned =>
       s.puncher = "none" /\ ~s.aborted /\ s.prepunching = "none" /\ s.raw # "given"

(* The puncher and the timer of a stream that was handed over.               *)
HandedSound(s) ==
  /\ s.hooked => s.puncher # "none"
  /\ s.raw = "given" => s.puncher \in {"none", "destroyed"} /\ s.prepunching # "onabort"

(* The parts of a handshake whose stream is open.                            *)
OpenSound(s) ==
  /\ s.recovery => s.failed
  /\ s.raw = "open" =>
       /\ s.clearing # "none" => s.pc = "failed"
       /\ s.puncher = "destroyed" => s.aborted
       /\ s.puncher \notin {"none", "destroyed"} => s.hooked
       /\ s.pc \in Returned \cup {"lan"} => s.relay # "token"
       /\ s.prepunching = "destroy" => s.puncher # "none"

(* A timer that fired, or anything else that aborts, leaves the stream to a  *)
(* relay or destroys it.                                                     *)
FiredSound(s) == s.raw = "open" /\ s.prepunching = "spent" => s.aborted
AbortedSound(s) == s.raw = "open" /\ s.aborted => s.relay \in Paths

(* Somebody ends the stream; without a timer, probes, a relay or its loss    *)
(* that is a request at its punch, told by p.                                *)
Owned(s, p) ==
  /\ s.puncher = "trying" => p
  /\ s.raw = "open" /\ s.pc \in Returned =>
       /\ \/ s.prepunching \in Armed \/ s.active > 0 \/ s.puncher = "probing"
          \/ s.relay \in Paths \/ s.recovery
       /\ s.prepunching \in Armed \/ s.puncher = "probing" \/ s.relay \in Paths \/ s.failed \/ p

Shapely(s) == s \in HandshakeType /\ OnceSound(s) /\ HandedSound(s) /\ OpenSound(s)
SoundHandshake(s) == Shapely(s) /\ FiredSound(s) /\ AbortedSound(s)

Serving(h) == {r \in Requests : reqs[r].pc # "idle" /\ reqs[r].h = h}
AtPunch(h) == \E r \in Serving(h) : reqs[r].pc = "punch"

RequestsOK ==
  /\ reqs \in [Requests -> [pc: {"idle", "analyze", "reopen", "ping", "punch"}, h: 0..MaxHandshakes]]
  /\ \A r \in Requests : reqs[r].pc # "idle" => reqs[r].h \in Handshakes /\ hs[reqs[r].h].puncher # "none"

(* The inductive invariant.                                                  *)
OwnedInv ==
  /\ DOMAIN hs = Handshakes
  /\ RequestsOK
  /\ \A h \in Handshakes :
       /\ SoundHandshake(hs[h])
       /\ Owned(hs[h], AtPunch(h))
       /\ IsFiniteSet(Serving(h)) /\ hs[h].active = Cardinality(Serving(h))

(* onabort: what the handshake has left is destroyed, and unless it is       *)
(* offered to a relay its stream too.                                        *)
LEMMA OnAbortFields ==
  ASSUME NEW s \in HandshakeType
  PROVE  LET t == OnAbort(s)
         IN  /\ t \in HandshakeType
             /\ t.pc = s.pc /\ t.relay = s.relay /\ t.connected = s.connected
             /\ t.emitted = s.emitted /\ t.active = s.active
             /\ t.aborted /\ t.prepunching = "none" /\ ~t.failed /\ ~t.recovery
             /\ t.puncher = IF s.puncher = "none" THEN "none" ELSE "destroyed"
             /\ t.hooked => s.hooked
             /\ t.raw = IF s.raw = "open" /\ s.relay = "none" THEN "closing" ELSE s.raw
             /\ s.raw # "closed" => t.clearing = s.clearing
<1> DEFINE u == [ClearRelayRecovery(s) EXCEPT !.aborted = TRUE, !.prepunching = "none"]
           t == Silence(u)
<1>1. /\ u \in HandshakeType /\ u.aborted /\ u.prepunching = "none" /\ ~u.failed /\ ~u.recovery
      /\ u.pc = s.pc /\ u.relay = s.relay /\ u.connected = s.connected /\ u.emitted = s.emitted
      /\ u.active = s.active /\ u.puncher = s.puncher /\ u.hooked = s.hooked /\ u.raw = s.raw
      /\ u.clearing = s.clearing
  BY DEF ClearRelayRecovery, HandshakeType
<1>2. OnAbort(s) = IF t.raw = "closed" THEN ClearLater(t) ELSE IF t.relay = "none" THEN DestroyRaw(t) ELSE t
  BY DEF OnAbort
<1> HIDE DEF u
<1>3. /\ t \in HandshakeType /\ t.aborted /\ t.prepunching = "none" /\ ~t.failed /\ ~t.recovery
      /\ t.pc = s.pc /\ t.relay = s.relay /\ t.connected = s.connected /\ t.emitted = s.emitted
      /\ t.active = s.active /\ t.raw = s.raw /\ t.clearing = s.clearing
      /\ t.puncher = IF s.puncher = "none" THEN "none" ELSE "destroyed"
      /\ t.hooked => s.hooked
  <2>1. CASE u.puncher = "none"
    <3>1. t = u BY <2>1, Zenon DEF Silence
    <3>2. QED BY <1>1, <2>1, <3>1
  <2>2. CASE u.puncher # "none"
    <3>1. t = [u EXCEPT !.hooked = FALSE, !.puncher = "destroyed"] BY <2>2, Zenon DEF Silence
    <3> HIDE DEF t
    <3>2. t \in HandshakeType BY <1>1, <3>1 DEF HandshakeType
    <3>3. QED BY <1>1, <2>2, <3>1, <3>2 DEF HandshakeType
  <2>3. QED BY <2>1, <2>2
<1> HIDE DEF t
<1>4. CASE t.raw = "closed"
  <2>1. OnAbort(s) = [t EXCEPT !.clearing = "armed"] \/ OnAbort(s) = t
    BY <1>2, <1>4, Zenon DEF ClearLater
  <2>2. QED BY <1>3, <1>4, <2>1 DEF HandshakeType
<1>5. CASE t.raw = "open" /\ t.relay = "none"
  <2>1. OnAbort(s) = [t EXCEPT !.raw = "closing"] BY <1>2, <1>5, Zenon DEF DestroyRaw
  <2>2. QED BY <1>3, <1>5, <2>1 DEF HandshakeType
<1>6. CASE t.raw \notin {"open", "closed"} \/ (t.raw # "closed" /\ t.relay # "none")
  <2>1. OnAbort(s) = t BY <1>2, <1>6, Zenon DEF DestroyRaw
  <2>2. QED BY <1>3, <1>6, <2>1
<1>7. QED BY <1>4, <1>5, <1>6

(* Holepuncher.destroy(): a handshake whose puncher was at work is aborted.  *)
LEMMA DestroyPuncherSound ==
  ASSUME NEW s, Shapely(s), AbortedSound(s),
         s.raw = "open" /\ s.prepunching = "spent" => s.aborted \/ s.puncher # "none"
  PROVE  LET t == DestroyPuncher(s)
         IN  /\ SoundHandshake(t) /\ t.active = s.active /\ t.pc = s.pc
             /\ t.puncher = IF s.puncher = "none" THEN "none" ELSE "destroyed"
             /\ t = s \/ (t.raw = "open" => t.relay \in Paths)
<1> DEFINE u == [s EXCEPT !.puncher = "destroyed"]
<1>0. s \in HandshakeType BY DEF Shapely
<1>1. CASE s.puncher \in {"none", "destroyed"}
  <2>1. DestroyPuncher(s) = s BY <1>1, Zenon DEF DestroyPuncher
  <2>2. QED BY <1>0, <1>1, <2>1 DEF SoundHandshake, FiredSound, Shapely, OpenSound
<1>2. CASE s.puncher \notin {"none", "destroyed"} /\ ~s.hooked
  <2>1. DestroyPuncher(s) = u BY <1>2, Zenon DEF DestroyPuncher
  <2>2. /\ u \in HandshakeType /\ u.puncher = "destroyed"
        /\ u.pc = s.pc /\ u.relay = s.relay /\ u.connected = s.connected /\ u.emitted = s.emitted
        /\ u.active = s.active /\ u.raw = s.raw /\ u.clearing = s.clearing /\ u.hooked = s.hooked
        /\ u.aborted = s.aborted /\ u.prepunching = s.prepunching /\ u.recovery = s.recovery
        /\ u.failed = s.failed
    BY <1>0 DEF HandshakeType
  <2> HIDE DEF u
  <2>3. u.raw # "open" BY <1>2, <2>2 DEF Shapely, OpenSound
  <2>4. QED BY <1>2, <2>1, <2>2, <2>3
            DEF SoundHandshake, FiredSound, AbortedSound, Shapely, OnceSound, HandedSound, OpenSound
<1>3. CASE s.puncher \notin {"none", "destroyed"} /\ s.hooked
  <2>1. DestroyPuncher(s) = OnAbort(u) BY <1>3, Zenon DEF DestroyPuncher
  <2>2. /\ u \in HandshakeType /\ u.puncher = "destroyed"
        /\ u.pc = s.pc /\ u.relay = s.relay /\ u.connected = s.connected /\ u.emitted = s.emitted
        /\ u.active = s.active /\ u.raw = s.raw /\ u.clearing = s.clearing
    BY <1>0 DEF HandshakeType
  <2> DEFINE t == OnAbort(u)
  <2> HIDE DEF u
  <2>3. /\ t \in HandshakeType
        /\ t.pc = s.pc /\ t.relay = s.relay /\ t.connected = s.connected
        /\ t.emitted = s.emitted /\ t.active = s.active
        /\ t.aborted /\ t.prepunching = "none" /\ ~t.failed /\ ~t.recovery /\ t.puncher = "destroyed"
        /\ t.raw = IF s.raw = "open" /\ s.relay = "none" THEN "closing" ELSE s.raw
        /\ s.raw # "closed" => t.clearing = s.clearing
    BY <2>2, OnAbortFields
  <2>4. s.pc \in Returned BY <1>3 DEF Shapely, OnceSound
  <2> HIDE DEF t
  <2>5. t.raw = "open" => t.relay \in Paths BY <1>0, <2>3, <2>4 DEF Shapely, OpenSound, HandshakeType
  <2>6. SoundHandshake(t)
    BY <1>0, <2>3, <2>4, <2>5 DEF SoundHandshake, FiredSound, AbortedSound, Shapely, OnceSound,
                           HandedSound, OpenSound, Returned, Awaiting
  <2>7. QED BY <1>3, <2>1, <2>3, <2>5, <2>6 DEF t
<1>4. QED BY <1>1, <1>2, <1>3

(* hs.onsocket: the stream is handed over and announced if it was not.       *)
LEMMA OnSocketSound ==
  ASSUME NEW s \in HandshakeType, s.pc \in Returned,
         s.emitted <= 1, s.emitted = 1 => s.raw = "given" \/ s.connected,
         s.relay \in {"token", "pairing"} => ~s.connected, HandedSound(s), s.recovery => s.failed
  PROVE  LET t == OnSocket(s)
         IN  SoundHandshake(t) /\ t.raw = "given" /\ t.active = s.active
             /\ (s.puncher # "none" => t.puncher # "none")
<1> DEFINE c == ClearRelayRecovery(s)
           d == ClearLater(c)
           e == IF s.connected THEN d.emitted ELSE d.emitted + 1
           u == [d EXCEPT !.prepunching = "none", !.emitted = e, !.raw = "given"]
<1>1. CASE s.raw = "given"
  <2>1. OnSocket(s) = s BY <1>1, Zenon DEF OnSocket
  <2>2. QED BY <1>1, <2>1 DEF SoundHandshake, FiredSound, AbortedSound, Shapely, OnceSound,
               HandedSound, OpenSound, Returned, Awaiting
<1>2. CASE s.raw # "given"
  <2>2. /\ c \in HandshakeType /\ ~c.recovery
        /\ c.pc = s.pc /\ c.relay = s.relay /\ c.connected = s.connected /\ c.emitted = s.emitted
        /\ c.active = s.active /\ c.hooked = s.hooked /\ c.puncher = s.puncher
    BY DEF ClearRelayRecovery, HandshakeType
  <2>0. OnSocket(s) = Silence(u)
    <3>1. u = [d EXCEPT !.prepunching = "none", !.emitted = IF s.connected THEN @ ELSE @ + 1,
                        !.raw = "given"]
      OBVIOUS
    <3> HIDE DEF u
    <3> HIDE DEF c, d, e
    <3>2. OnSocket(s) = Silence([d EXCEPT !.prepunching = "none",
                                         !.emitted = IF s.connected THEN @ ELSE @ + 1,
                                         !.raw = "given"])
      BY <1>2, Zenon DEF OnSocket, c, d
    <3>3. QED BY <3>1, <3>2, Zenon
  <2> HIDE DEF c
  <2>3. d = c \/ d = [c EXCEPT !.clearing = "armed"] BY Zenon DEF ClearLater
  <2>4. /\ d \in HandshakeType /\ ~d.recovery
        /\ d.pc = s.pc /\ d.relay = s.relay /\ d.connected = s.connected /\ d.emitted = s.emitted
        /\ d.active = s.active /\ d.hooked = s.hooked /\ d.puncher = s.puncher
    BY <2>2, <2>3 DEF HandshakeType
  <2> HIDE DEF d
  <2>5. /\ s.emitted \in Nat /\ e \in Nat /\ (s.connected => e = s.emitted)
        /\ (~s.connected => e = s.emitted + 1)
    BY <2>4 DEF HandshakeType
  <2> HIDE DEF e
  <2>6. u \in HandshakeType
    <3> DEFINE v == [d EXCEPT !.prepunching = "none", !.raw = "given"]
    <3>0. d \in HandshakeType BY <2>4
    <3>1. v \in HandshakeType BY <3>0, ZenonT(60) DEF HandshakeType
    <3>2. u = [v EXCEPT !.emitted = e] BY <2>4, ZenonT(60) DEF HandshakeType
    <3> HIDE DEF u, v
    <3>3. QED BY <2>5, <3>1, <3>2 DEF HandshakeType
  <2>7. /\ ~u.recovery /\ u.raw = "given" /\ u.prepunching = "none"
        /\ u.pc = s.pc /\ u.relay = s.relay /\ u.connected = s.connected /\ u.emitted = e
        /\ u.active = s.active /\ u.hooked = s.hooked /\ u.puncher = s.puncher
    BY <2>4 DEF HandshakeType
  <2> HIDE DEF u
  <2> DEFINE t == Silence(u)
  <2>8. /\ t \in HandshakeType /\ ~t.recovery /\ t.raw = "given" /\ t.prepunching = "none"
        /\ t.pc = s.pc /\ t.relay = s.relay /\ t.connected = s.connected /\ t.emitted = e
        /\ t.active = s.active /\ (t.hooked => t.puncher # "none")
        /\ t.puncher \in {"none", "destroyed"} /\ (s.puncher # "none" => t.puncher # "none")
    <3>1. CASE u.puncher = "none"
      <4>1. t = u BY <3>1, Zenon DEF Silence
      <4>2. QED BY <2>6, <2>7, <3>1, <4>1 DEF HandedSound
    <3>2. CASE u.puncher # "none"
      <4>1. t = [u EXCEPT !.hooked = FALSE, !.puncher = "destroyed"] BY <3>2, Zenon DEF Silence
      <4> HIDE DEF t
      <4>2. t \in HandshakeType BY <2>6, <4>1 DEF HandshakeType
      <4>3. QED BY <2>6, <2>7, <3>2, <4>1, <4>2 DEF HandshakeType
    <3>3. QED BY <3>1, <3>2
  <2> HIDE DEF t
  <2>9. t.emitted <= 1 /\ (t.emitted = 1 => t.raw = "given") BY <1>2, <2>5, <2>8
  <2>10. SoundHandshake(t)
    BY <2>8, <2>9 DEF SoundHandshake, FiredSound, AbortedSound, Shapely, OnceSound,
               HandedSound, OpenSound, Returned, Awaiting
  <2>11. QED BY <2>0, <2>8, <2>10 DEF t
<1>3. QED BY <1>1, <1>2

(* maybeDestroyRelayHandshake: what is left of a handshake whose relay was   *)
(* lost is waited for, or its stream is destroyed.                           *)
LEMMA MaybeDestroySound ==
  ASSUME NEW s, NEW p \in BOOLEAN, Shapely(s), FiredSound(s), AbortedSound(s) \/ s.failed,
         p => s.active > 0, s.puncher = "trying" => p,
         s.raw = "open" /\ s.pc \in Returned =>
            s.prepunching \in Armed \/ s.puncher = "probing" \/ s.relay \in Paths \/ s.failed \/ p
  PROVE  LET t == MaybeDestroyRelayHandshake(s)
         IN  SoundHandshake(t) /\ Owned(t, p) /\ t.active = s.active /\ t.puncher = s.puncher
<1> DEFINE t == MaybeDestroyRelayHandshake(s)
           c == [s EXCEPT !.raw = "closing"]
           v == [s EXCEPT !.recovery = TRUE]
<1>0. s \in HandshakeType BY DEF Shapely
<1>1. CASE ~s.failed \/ s.raw \in {"none", "given", "closed"}
  <2>1. t = s BY <1>1, Zenon DEF MaybeDestroyRelayHandshake
  <2>2. AbortedSound(s) BY <1>1 DEF AbortedSound
  <2> HIDE DEF t
  <2>3. SoundHandshake(s) BY <2>2 DEF SoundHandshake
  <2>4. Owned(s, p) BY <1>1 DEF Owned
  <2>5. QED BY <2>1, <2>3, <2>4 DEF t
<1>2. CASE /\ s.failed /\ s.raw \notin {"none", "given", "closed"}
           /\ s.aborted \/ (/\ s.prepunching = "none" /\ ~(s.active > 0)
                            /\ s.puncher \notin {"trying", "probing"}
                            /\ s.puncher = "none" \/ s.late)
  <2>1. t = DestroyRaw(s) BY <1>2, Zenon DEF MaybeDestroyRelayHandshake
  <2>2. s.raw \in {"open", "closing"} BY <1>0, <1>2 DEF HandshakeType
  <2>3. t = c \/ (t = s /\ s.raw = "closing") BY <2>1, <2>2, Zenon DEF DestroyRaw
  <2>4. /\ c \in HandshakeType /\ c.raw = "closing"
        /\ c.pc = s.pc /\ c.relay = s.relay /\ c.connected = s.connected /\ c.emitted = s.emitted
        /\ c.active = s.active /\ c.clearing = s.clearing /\ c.hooked = s.hooked /\ c.puncher = s.puncher
        /\ c.aborted = s.aborted /\ c.prepunching = s.prepunching /\ c.recovery = s.recovery
        /\ c.failed = s.failed
    BY <1>0 DEF HandshakeType
  <2> HIDE DEF t, c
  <2>5. SoundHandshake(c) /\ Owned(c, p)
    BY <2>2, <2>4 DEF SoundHandshake, FiredSound, AbortedSound, Shapely, OnceSound, HandedSound, OpenSound, Owned
  <2>6. s.raw = "closing" => SoundHandshake(s) /\ Owned(s, p)
    BY DEF SoundHandshake, FiredSound, AbortedSound, Owned
  <2>7. QED BY <2>3, <2>4, <2>5, <2>6 DEF t
<1>3. CASE /\ s.failed /\ s.raw \notin {"none", "given", "closed"} /\ ~s.aborted
           /\ s.prepunching # "none" \/ s.active > 0 \/ s.puncher \in {"trying", "probing"}
  <2>1. t = s BY <1>3, Zenon DEF MaybeDestroyRelayHandshake
  <2> HIDE DEF t
  <2>2. SoundHandshake(s) BY <1>3 DEF SoundHandshake, AbortedSound
  <2>3. s.raw = "open" => s.prepunching # "spent" BY <1>3 DEF FiredSound
  <2>4. Owned(s, p) BY <1>0, <1>3, <2>3 DEF Owned, HandshakeType
  <2>5. QED BY <2>1, <2>2, <2>4 DEF t
<1>4. CASE /\ s.failed /\ s.raw \notin {"none", "given", "closed"} /\ ~s.aborted
           /\ s.prepunching = "none" /\ ~(s.active > 0) /\ s.puncher \notin {"trying", "probing"}
           /\ ~(s.puncher = "none" \/ s.late)
  <2>1. t = v BY <1>4, Zenon DEF MaybeDestroyRelayHandshake
  <2>2. /\ v \in HandshakeType /\ v.raw = s.raw /\ v.recovery
        /\ v.pc = s.pc /\ v.relay = s.relay /\ v.connected = s.connected /\ v.emitted = s.emitted
        /\ v.active = s.active /\ v.clearing = s.clearing /\ v.hooked = s.hooked /\ v.puncher = s.puncher
        /\ v.aborted = s.aborted /\ v.prepunching = s.prepunching /\ v.failed = s.failed
    BY <1>0 DEF HandshakeType
  <2> HIDE DEF t, v
  <2>3. SoundHandshake(v) /\ Owned(v, p)
    BY <1>4, <2>2 DEF SoundHandshake, FiredSound, AbortedSound, Shapely, OnceSound, HandedSound, OpenSound, Owned
  <2>4. QED BY <2>1, <2>2, <2>3 DEF t
<1>5. QED BY <1>1, <1>2, <1>3, <1>4

(* t is what a step may make of handshake s while p tells whether a request  *)
(* of it is at its punch.                                                    *)
Live(s, p) == SoundHandshake(s) /\ Owned(s, p) /\ (p => s.active > 0)
Goes(s, t, p) == /\ SoundHandshake(t) /\ Owned(t, p) /\ t.active = s.active
                 /\ s.puncher # "none" => t.puncher # "none"

(* Steps compose.                                                            *)
LEMMA GoesTrans ==
  ASSUME NEW s, NEW t, NEW u, NEW p, Goes(s, t, p), Goes(t, u, p)
  PROVE  Goes(s, u, p)
BY Zenon DEF Goes

(* Holepuncher.destroy() of a handshake that has a puncher.                  *)
LEMMA DestroyPuncherGoes ==
  ASSUME NEW s, NEW p \in BOOLEAN, SoundHandshake(s), s.puncher # "none"
  PROVE  LET t == DestroyPuncher(s)
         IN  /\ Goes(s, t, p) /\ t.puncher = "destroyed" /\ t.pc = s.pc
             /\ t.raw = "open" => t.relay \in Paths
<1> DEFINE t == DestroyPuncher(s)
<1>1. Shapely(s) /\ AbortedSound(s) /\ FiredSound(s) BY DEF SoundHandshake
<1>2. s.raw = "open" /\ s.prepunching = "spent" => s.aborted \/ s.puncher # "none"
  BY <1>1 DEF FiredSound
<1>3. /\ SoundHandshake(t) /\ t.active = s.active /\ t.pc = s.pc
      /\ t.puncher = IF s.puncher = "none" THEN "none" ELSE "destroyed"
      /\ t = s \/ (t.raw = "open" => t.relay \in Paths)
  BY <1>1, <1>2, DestroyPuncherSound
<1> HIDE DEF t
<1>4. t.puncher = "destroyed" BY <1>3
<1>5. t.raw = "open" => t.relay \in Paths
  BY <1>3, <1>4 DEF SoundHandshake, Shapely, OpenSound, AbortedSound
<1>6. Owned(t, p) BY <1>4, <1>5 DEF Owned
<1>7. QED BY <1>3, <1>4, <1>5, <1>6 DEF Goes, t

(* rawStream.destroy().                                                      *)
LEMMA DestroyRawGoes ==
  ASSUME NEW s, NEW p \in BOOLEAN, SoundHandshake(s), Owned(s, p)
  PROVE  LET t == DestroyRaw(s) IN Goes(s, t, p) /\ t.raw # "open" /\ t.pc = s.pc
<1> DEFINE t == DestroyRaw(s)
           c == [s EXCEPT !.raw = "closing"]
<1>0. s \in HandshakeType BY DEF SoundHandshake, Shapely
<1>1. CASE s.raw = "open"
  <2>1. t = c BY <1>1, Zenon DEF DestroyRaw
  <2>2. c \in HandshakeType BY <1>0 DEF HandshakeType
  <2>3. /\ c.raw = "closing"
        /\ c.pc = s.pc /\ c.relay = s.relay /\ c.connected = s.connected /\ c.emitted = s.emitted
        /\ c.active = s.active /\ c.clearing = s.clearing /\ c.hooked = s.hooked /\ c.puncher = s.puncher
        /\ c.aborted = s.aborted /\ c.prepunching = s.prepunching /\ c.recovery = s.recovery
        /\ c.failed = s.failed
    BY <1>0 DEF HandshakeType
  <2> HIDE DEF t, c
  <2>4. SoundHandshake(c) /\ Owned(c, p)
    BY <1>1, <2>2, <2>3 DEF SoundHandshake, FiredSound, AbortedSound, Shapely, OnceSound, HandedSound,
                            OpenSound, Owned
  <2>5. QED BY <2>1, <2>3, <2>4 DEF Goes, t
<1>2. CASE s.raw # "open"
  <2>1. t = s BY <1>2, Zenon DEF DestroyRaw
  <2>2. QED BY <1>2, <2>1 DEF Goes
<1>3. QED BY <1>1, <1>2

(* What a handshake without an open stream may lose: its relay, its          *)
(* recovery, its puncher; and _clearLater().                                 *)
LEMMA ShutGoes ==
  ASSUME NEW s, NEW p \in BOOLEAN, SoundHandshake(s), Owned(s, p), s.raw # "open"
  PROVE  /\ Goes(s, DestroyRelayConnection(s), p)
         /\ Goes(s, Silence(s), p) /\ Silence(s).raw = s.raw /\ Silence(s).pc = s.pc
         /\ s.pc \in Returned \cup {"lan", "failed", "send"} =>
              Goes(s, ClearLater(s), p) /\ ClearLater(s).raw = s.raw
<1> DEFINE a == DestroyRelayConnection(s)
           b == Silence(s)
           c == ClearLater(s)
<1>0. s \in HandshakeType BY DEF SoundHandshake, Shapely
<1>1. Goes(s, s, p) BY DEF Goes
<1>2. Goes(s, a, p)
  <2>1. a = [s EXCEPT !.relay = "none"] BY Zenon DEF DestroyRelayConnection
  <2> HIDE DEF a
  <2>2. a \in HandshakeType BY <1>0, <2>1 DEF HandshakeType
  <2>3. /\ a.relay = "none"
        /\ a.pc = s.pc /\ a.raw = s.raw /\ a.connected = s.connected /\ a.emitted = s.emitted
        /\ a.active = s.active /\ a.clearing = s.clearing /\ a.hooked = s.hooked /\ a.puncher = s.puncher
        /\ a.aborted = s.aborted /\ a.prepunching = s.prepunching /\ a.recovery = s.recovery
        /\ a.failed = s.failed
    BY <1>0, <2>1 DEF HandshakeType
  <2>4. SoundHandshake(a) /\ Owned(a, p)
    BY <2>2, <2>3 DEF SoundHandshake, FiredSound, AbortedSound, Shapely, OnceSound, HandedSound,
                            OpenSound, Owned, Paths
  <2>5. QED BY <2>3, <2>4 DEF Goes
<1>3. Goes(s, b, p) /\ b.raw = s.raw /\ b.pc = s.pc
  <2>1. CASE s.puncher = "none"
    <3>1. b = s BY <2>1, Zenon DEF Silence
    <3>2. QED BY <1>1, <3>1
  <2>2. CASE s.puncher # "none"
    <3>1. b = [s EXCEPT !.hooked = FALSE, !.puncher = "destroyed"] BY <2>2, Zenon DEF Silence
    <3> HIDE DEF b
    <3>2. b \in HandshakeType BY <1>0, <3>1 DEF HandshakeType
    <3>3. /\ b.puncher = "destroyed" /\ ~b.hooked
          /\ b.pc = s.pc /\ b.raw = s.raw /\ b.connected = s.connected /\ b.emitted = s.emitted
          /\ b.active = s.active /\ b.clearing = s.clearing /\ b.relay = s.relay
          /\ b.aborted = s.aborted /\ b.prepunching = s.prepunching /\ b.recovery = s.recovery
          /\ b.failed = s.failed
      BY <1>0, <3>1 DEF HandshakeType
    <3>4. SoundHandshake(b) /\ Owned(b, p)
      BY <2>2, <3>2, <3>3 DEF SoundHandshake, FiredSound, AbortedSound, Shapely, OnceSound, HandedSound,
                              OpenSound, Owned
    <3>5. QED BY <3>3, <3>4 DEF Goes
  <2>3. QED BY <2>1, <2>2
<1>4. ASSUME s.pc \in Returned \cup {"lan", "failed", "send"} PROVE Goes(s, c, p) /\ c.raw = s.raw
  <2>1. CASE s.clearing # "none"
    <3>1. c = s BY <2>1, Zenon DEF ClearLater
    <3>2. QED BY <1>1, <3>1
  <2>2. CASE s.clearing = "none"
    <3>1. c = [s EXCEPT !.clearing = "armed"] BY <2>2, Zenon DEF ClearLater
    <3> HIDE DEF c
    <3>2. c \in HandshakeType BY <1>0, <3>1 DEF HandshakeType
    <3>3. /\ c.clearing = "armed"
          /\ c.pc = s.pc /\ c.raw = s.raw /\ c.connected = s.connected /\ c.emitted = s.emitted
          /\ c.active = s.active /\ c.relay = s.relay /\ c.hooked = s.hooked /\ c.puncher = s.puncher
          /\ c.aborted = s.aborted /\ c.prepunching = s.prepunching /\ c.recovery = s.recovery
          /\ c.failed = s.failed
      BY <1>0, <3>1 DEF HandshakeType
    <3>4. SoundHandshake(c) /\ Owned(c, p)
      BY <1>4, <3>2, <3>3 DEF SoundHandshake, FiredSound, AbortedSound, Shapely, OnceSound, HandedSound,
                              OpenSound, Owned, Returned
    <3>5. QED BY <3>3, <3>4 DEF Goes
  <2>3. QED BY <2>1, <2>2
<1>5. QED BY <1>2, <1>3, <1>4

(* An await of _addHandshake() throws, or finds the server stopped.          *)
LEMMA FailGoes ==
  ASSUME NEW s, NEW p \in BOOLEAN, SoundHandshake(s), Owned(s, p), s.pc \in Awaiting
  PROVE  Goes(s, Fail(s), p)
<1> DEFINE f == [s EXCEPT !.pc = "failed"]
           c == ClearLater(f)
<1>0. s \in HandshakeType BY DEF SoundHandshake, Shapely
<1>1. Fail(s) = c BY Zenon DEF Fail
<1>2. f \in HandshakeType BY <1>0 DEF HandshakeType, Stage
<1>3. /\ f.pc = "failed"
      /\ f.clearing = s.clearing /\ f.raw = s.raw /\ f.connected = s.connected /\ f.emitted = s.emitted
      /\ f.active = s.active /\ f.relay = s.relay /\ f.hooked = s.hooked /\ f.puncher = s.puncher
      /\ f.aborted = s.aborted /\ f.prepunching = s.prepunching /\ f.recovery = s.recovery
      /\ f.failed = s.failed
  BY <1>0 DEF HandshakeType
<1> HIDE DEF f
<1>4. c = f \/ c = [f EXCEPT !.clearing = "armed"] BY Zenon DEF ClearLater
<1> HIDE DEF c
<1>5. c \in HandshakeType BY <1>2, <1>4 DEF HandshakeType
<1>6. /\ c.pc = "failed"
      /\ c.raw = s.raw /\ c.connected = s.connected /\ c.emitted = s.emitted
      /\ c.active = s.active /\ c.relay = s.relay /\ c.hooked = s.hooked /\ c.puncher = s.puncher
      /\ c.aborted = s.aborted /\ c.prepunching = s.prepunching /\ c.recovery = s.recovery
      /\ c.failed = s.failed
  BY <1>2, <1>3, <1>4 DEF HandshakeType
<1>7. "failed" \notin Returned /\ s.pc \notin Returned BY DEF Returned, Awaiting
<1>8. SoundHandshake(c) /\ Owned(c, p)
  BY <1>5, <1>6, <1>7 DEF SoundHandshake, FiredSound, AbortedSound, Shapely, OnceSound, HandedSound,
                          OpenSound, Owned
<1>9. QED BY <1>1, <1>6, <1>8 DEF Goes

(* _addHandshake() goes on to its next await, or its caller goes on.         *)
LEMMA StageGoes ==
  ASSUME NEW s, NEW p \in BOOLEAN, SoundHandshake(s), Owned(s, p), NEW x,
         \/ s.pc = "recv" /\ x = "firewall"
         \/ s.pc = "firewall" /\ x = "local"
         \/ s.pc = "send" /\ s.relay # "token" /\ x = "lan"
         \/ s.pc = "returned" /\ x \in Returned
  PROVE  Goes(s, [s EXCEPT !.pc = x], p)
<1> DEFINE f == [s EXCEPT !.pc = x]
<1>0. s \in HandshakeType BY DEF SoundHandshake, Shapely
<1>1. x \in Stage BY DEF Stage, Awaiting, Returned
<1>2. f \in HandshakeType BY <1>0, <1>1 DEF HandshakeType
<1>3. /\ f.pc = x
      /\ f.clearing = s.clearing /\ f.raw = s.raw /\ f.connected = s.connected /\ f.emitted = s.emitted
      /\ f.active = s.active /\ f.relay = s.relay /\ f.hooked = s.hooked /\ f.puncher = s.puncher
      /\ f.aborted = s.aborted /\ f.prepunching = s.prepunching /\ f.recovery = s.recovery
      /\ f.failed = s.failed
  BY <1>0 DEF HandshakeType
<1> HIDE DEF f
<1>4. SoundHandshake(f) /\ Owned(f, p)
  BY <1>2, <1>3 DEF SoundHandshake, FiredSound, AbortedSound, Shapely, OnceSound, HandedSound,
                    OpenSound, Owned, Returned
<1>5. QED BY <1>3, <1>4 DEF Goes, f

(* _addHandshake() opens the raw stream, unless the peer is refused by       *)
(* version.                                                                  *)
LEMMA OpenGoes ==
  ASSUME NEW s, NEW p \in BOOLEAN, SoundHandshake(s), Owned(s, p), s.pc = "local",
         NEW raw \in {"none", "open"}, NEW relay \in {"none", "token"}
  PROVE  Goes(s, [s EXCEPT !.pc = "send", !.raw = raw, !.relay = relay], p)
<1> DEFINE g == [s EXCEPT !.pc = "send", !.raw = raw]
           f == [g EXCEPT !.relay = relay]
<1>0. s \in HandshakeType BY DEF SoundHandshake, Shapely
<1>1. "send" \in Stage BY DEF Stage, Awaiting
<1>2. g \in HandshakeType BY <1>0, <1>1 DEF HandshakeType
<1>3. /\ g.pc = "send" /\ g.raw = raw
      /\ g.clearing = s.clearing /\ g.connected = s.connected /\ g.emitted = s.emitted
      /\ g.active = s.active /\ g.hooked = s.hooked /\ g.puncher = s.puncher
      /\ g.aborted = s.aborted /\ g.prepunching = s.prepunching /\ g.recovery = s.recovery
      /\ g.failed = s.failed
  BY <1>0 DEF HandshakeType
<1> HIDE DEF g
<1>4. f \in HandshakeType BY <1>2 DEF HandshakeType
<1>5. /\ f.pc = "send" /\ f.raw = raw /\ f.relay = relay
      /\ f.clearing = s.clearing /\ f.connected = s.connected /\ f.emitted = s.emitted
      /\ f.active = s.active /\ f.hooked = s.hooked /\ f.puncher = s.puncher
      /\ f.aborted = s.aborted /\ f.prepunching = s.prepunching /\ f.recovery = s.recovery
      /\ f.failed = s.failed
  BY <1>2, <1>3 DEF HandshakeType
<1> HIDE DEF f
<1>6. SoundHandshake(f) /\ Owned(f, p)
  BY <1>4, <1>5 DEF SoundHandshake, FiredSound, AbortedSound, Shapely, OnceSound, HandedSound,
                    OpenSound, Owned, Returned, Paths
<1>7. f = [s EXCEPT !.pc = "send", !.raw = raw, !.relay = relay] BY Zenon DEF f, g
<1>8. QED BY <1>5, <1>6, <1>7 DEF Goes

(* _addHandshake() leaves the peer its time, with a puncher or without;      *)
(* whether it looked for a shortcut in the LAN before makes no difference.   *)
LEMMA WaitGoes ==
  ASSUME NEW s \in HandshakeType, NEW l, l = [s EXCEPT !.pc = "lan"],
         NEW p \in BOOLEAN, SoundHandshake(l), Owned(l, p)
  PROVE  /\ Goes(l, WaitPassively(s), p)
         /\ Goes(l, WaitPassively(SetupHolepuncher(s)), p)
         /\ Goes(l, WaitForPeer(s), p)
<1> DEFINE v == [s EXCEPT !.puncher = "idle", !.hooked = TRUE]
<1>0. /\ s \in HandshakeType
      /\ l.puncher = s.puncher /\ l.hooked = s.hooked /\ l.prepunching = s.prepunching /\ l.pc = "lan"
      /\ l.clearing = s.clearing /\ l.raw = s.raw /\ l.connected = s.connected /\ l.emitted = s.emitted
      /\ l.active = s.active /\ l.relay = s.relay /\ l.aborted = s.aborted /\ l.recovery = s.recovery
      /\ l.failed = s.failed
  BY DEF HandshakeType
<1>1. s.puncher = "none" /\ s.raw # "given" /\ ~s.aborted
  BY <1>0 DEF SoundHandshake, Shapely, OnceSound, Returned
<1>2. SetupHolepuncher(s) = v BY <1>1, Zenon DEF SetupHolepuncher
<1>3. v \in HandshakeType BY <1>0 DEF HandshakeType
<1>4. /\ v.puncher = "idle" /\ v.hooked
      /\ v.clearing = s.clearing /\ v.raw = s.raw /\ v.connected = s.connected /\ v.emitted = s.emitted
      /\ v.active = s.active /\ v.relay = s.relay /\ v.aborted = s.aborted /\ v.recovery = s.recovery
      /\ v.failed = s.failed
  BY <1>0 DEF HandshakeType
<1>5. "returned" \in Stage /\ "returned" \in Returned BY DEF Stage, Returned
<1> HIDE DEF v
<1>6. ASSUME NEW x \in Armed PROVE Goes(l, [v EXCEPT !.prepunching = x, !.pc = "returned"], p)
  <2> DEFINE f == [v EXCEPT !.prepunching = x, !.pc = "returned"]
  <2>1. f \in HandshakeType BY <1>3, <1>5 DEF HandshakeType
  <2>2. /\ f.puncher = "idle" /\ f.hooked /\ f.prepunching = x /\ f.pc = "returned"
        /\ f.clearing = s.clearing /\ f.raw = s.raw /\ f.connected = s.connected /\ f.emitted = s.emitted
        /\ f.active = s.active /\ f.relay = s.relay /\ f.aborted = s.aborted /\ f.recovery = s.recovery
        /\ f.failed = s.failed
    BY <1>3, <1>4 DEF HandshakeType
  <2> HIDE DEF f
  <2>3. SoundHandshake(f) /\ Owned(f, p)
    BY <1>0, <1>1, <1>5, <2>1, <2>2 DEF SoundHandshake, FiredSound, AbortedSound, Shapely, OnceSound, HandedSound,
                    OpenSound, Owned, Armed
  <2>4. QED BY <1>0, <2>2, <2>3 DEF Goes, f
<1>7. Goes(l, [s EXCEPT !.prepunching = "onabort", !.pc = "returned"], p)
  <2> DEFINE f == [s EXCEPT !.prepunching = "onabort", !.pc = "returned"]
  <2>1. f \in HandshakeType BY <1>0, <1>5 DEF HandshakeType, Armed
  <2>2. /\ f.puncher = s.puncher /\ f.hooked = s.hooked /\ f.prepunching = "onabort" /\ f.pc = "returned"
        /\ f.clearing = s.clearing /\ f.raw = s.raw /\ f.connected = s.connected /\ f.emitted = s.emitted
        /\ f.active = s.active /\ f.relay = s.relay /\ f.aborted = s.aborted /\ f.recovery = s.recovery
        /\ f.failed = s.failed
    BY <1>0 DEF HandshakeType
  <2> HIDE DEF f
  <2>3. SoundHandshake(f) /\ Owned(f, p)
    BY <1>0, <1>1, <1>5, <2>1, <2>2 DEF SoundHandshake, FiredSound, AbortedSound, Shapely, OnceSound, HandedSound,
                    OpenSound, Owned, Armed
  <2>4. QED BY <1>0, <2>2, <2>3 DEF Goes, f
<1>8. Goes(l, WaitPassively(s), p) BY <1>7, Zenon DEF WaitPassively
<1>9. Goes(l, WaitPassively(SetupHolepuncher(s)), p)
  <2>1. "onabort" \in Armed BY DEF Armed
  <2>2. QED BY <1>2, <1>6, <2>1, Zenon DEF WaitPassively
<1>10. Goes(l, WaitForPeer(s), p)
  <2>1. "destroy" \in Armed BY DEF Armed
  <2>2. QED BY <1>2, <1>6, <1>8, <2>1, Zenon DEF WaitForPeer
<1>11. QED BY <1>8, <1>9, <1>10

(* hs.onsocket, from the answer of _addHandshake() or from the stream's      *)
(* firewall hook.                                                            *)
LEMMA OnSocketGoes ==
  ASSUME NEW s, NEW p \in BOOLEAN, SoundHandshake(s), s.pc = "send" \/ s.pc \in Returned
  PROVE  /\ s.pc = "send" => Goes(s, OnSocket([s EXCEPT !.pc = "returned"]), p)
         /\ s.pc \in Returned => Goes(s, OnSocket(s), p)
<1>0. s \in HandshakeType BY DEF SoundHandshake, Shapely
<1>1. ASSUME NEW f \in HandshakeType, f.pc \in Returned, f.emitted = s.emitted, f.raw = s.raw,
             f.connected = s.connected, f.relay = s.relay, f.hooked = s.hooked, f.puncher = s.puncher,
             f.prepunching = s.prepunching, f.recovery = s.recovery, f.failed = s.failed,
             f.active = s.active
      PROVE  Goes(s, OnSocket(f), p)
  <2> DEFINE t == OnSocket(f)
  <2>1. /\ f.emitted <= 1 /\ (f.emitted = 1 => f.raw = "given" \/ f.connected)
        /\ (f.relay \in {"token", "pairing"} => ~f.connected) /\ (f.recovery => f.failed)
    BY <1>1 DEF SoundHandshake, Shapely, OnceSound, OpenSound
  <2>2. HandedSound(f) BY <1>1 DEF SoundHandshake, Shapely, HandedSound
  <2>3. /\ SoundHandshake(t) /\ t.raw = "given" /\ t.active = f.active
        /\ (f.puncher # "none" => t.puncher # "none")
    BY <1>1, <2>1, <2>2, OnSocketSound
  <2> HIDE DEF t
  <2>4. Owned(t, p) BY <2>3 DEF Owned, SoundHandshake, Shapely, HandedSound
  <2>5. QED BY <1>1, <2>3, <2>4 DEF Goes, t
<1>2. s.pc = "send" => Goes(s, OnSocket([s EXCEPT !.pc = "returned"]), p)
  <2> DEFINE f == [s EXCEPT !.pc = "returned"]
  <2>1. "returned" \in Stage /\ "returned" \in Returned BY DEF Stage, Returned
  <2>2. f \in HandshakeType BY <1>0, <2>1 DEF HandshakeType
  <2>3. /\ f.pc \in Returned /\ f.emitted = s.emitted /\ f.raw = s.raw
        /\ f.connected = s.connected /\ f.relay = s.relay /\ f.hooked = s.hooked /\ f.puncher = s.puncher
        /\ f.prepunching = s.prepunching /\ f.recovery = s.recovery /\ f.failed = s.failed
        /\ f.active = s.active
    BY <1>0, <2>1 DEF HandshakeType
  <2> HIDE DEF f
  <2>4. Goes(s, OnSocket(f), p) BY <1>1, <2>2, <2>3
  <2>5. QED BY <2>4 DEF f
<1>3. s.pc \in Returned => Goes(s, OnSocket(s), p) BY <1>0, <1>1
<1>4. QED BY <1>2, <1>3

(* handshake.send() resolved: nothing is left to do for a refused peer, and   *)
(* the other handshakes go on, with the stream offered to a relay or not.    *)
LEMMA SentGoes ==
  ASSUME NEW s, NEW p \in BOOLEAN, SoundHandshake(s), Owned(s, p), s.pc = "send"
  PROVE  /\ s.raw = "none" => Goes(s, ClearLater([s EXCEPT !.pc = "returned"]), p)
         /\ s.raw # "none" => Goes(s, [StartRelay(s) EXCEPT !.pc = "lan"], p)
         /\ StartRelay(s) \in HandshakeType
<1>0. s \in HandshakeType BY DEF SoundHandshake, Shapely
<1>1. "returned" \in Stage /\ "returned" \in Returned /\ "lan" \in Stage /\ "lan" \notin Returned
  BY DEF Stage, Returned, Awaiting
<1>2. ASSUME s.raw = "none" PROVE Goes(s, ClearLater([s EXCEPT !.pc = "returned"]), p)
  <2> DEFINE f == [s EXCEPT !.pc = "returned"]
             c == ClearLater(f)
  <2>1. f \in HandshakeType BY <1>0, <1>1 DEF HandshakeType
  <2>2. /\ f.pc = "returned" /\ f.emitted = s.emitted /\ f.raw = s.raw
        /\ f.connected = s.connected /\ f.relay = s.relay /\ f.hooked = s.hooked /\ f.puncher = s.puncher
        /\ f.prepunching = s.prepunching /\ f.recovery = s.recovery /\ f.failed = s.failed
        /\ f.active = s.active
    BY <1>0 DEF HandshakeType
  <2> HIDE DEF f
  <2>3. c = f \/ c = [f EXCEPT !.clearing = "armed"] BY Zenon DEF ClearLater
  <2> HIDE DEF c
  <2>4. c \in HandshakeType BY <2>1, <2>3 DEF HandshakeType
  <2>5. /\ c.pc = "returned" /\ c.emitted = s.emitted /\ c.raw = s.raw
        /\ c.connected = s.connected /\ c.relay = s.relay /\ c.hooked = s.hooked /\ c.puncher = s.puncher
        /\ c.prepunching = s.prepunching /\ c.recovery = s.recovery /\ c.failed = s.failed
        /\ c.active = s.active
    BY <2>1, <2>2, <2>3 DEF HandshakeType
  <2>6. SoundHandshake(c) /\ Owned(c, p)
    BY <1>1, <1>2, <2>4, <2>5 DEF SoundHandshake, FiredSound, AbortedSound, Shapely, OnceSound, HandedSound,
                    OpenSound, Owned
  <2>7. QED BY <2>5, <2>6 DEF Goes, c, f
<1>3. StartRelay(s) \in HandshakeType /\ (s.raw # "none" => Goes(s, [StartRelay(s) EXCEPT !.pc = "lan"], p))
  <2> DEFINE r == StartRelay(s)
             f == [r EXCEPT !.pc = "lan"]
  <2>1. r = [s EXCEPT !.relay = "pairing"] BY Zenon DEF StartRelay
  <2> HIDE DEF r
  <2>2. r \in HandshakeType BY <1>0, <2>1 DEF HandshakeType, Paths
  <2>3. /\ r.emitted = s.emitted /\ r.raw = s.raw
        /\ r.connected = s.connected /\ r.relay = "pairing" /\ r.hooked = s.hooked /\ r.puncher = s.puncher
        /\ r.prepunching = s.prepunching /\ r.recovery = s.recovery /\ r.failed = s.failed
        /\ r.active = s.active /\ r.clearing = s.clearing /\ r.aborted = s.aborted
    BY <1>0, <2>1 DEF HandshakeType
  <2>4. f \in HandshakeType BY <1>1, <2>2 DEF HandshakeType
  <2>5. /\ f.pc = "lan" /\ f.emitted = s.emitted /\ f.raw = s.raw
        /\ f.connected = s.connected /\ f.relay = "pairing" /\ f.hooked = s.hooked /\ f.puncher = s.puncher
        /\ f.prepunching = s.prepunching /\ f.recovery = s.recovery /\ f.failed = s.failed
        /\ f.active = s.active /\ f.clearing = s.clearing /\ f.aborted = s.aborted
    BY <2>2, <2>3 DEF HandshakeType
  <2> HIDE DEF f
  <2>6. SoundHandshake(f) /\ Owned(f, p)
    BY <1>1, <2>4, <2>5 DEF SoundHandshake, FiredSound, AbortedSound, Shapely, OnceSound, HandedSound,
                    OpenSound, Owned, Returned, Paths
  <2>7. QED BY <2>2, <2>5, <2>6 DEF Goes, f, r
<1>4. QED BY <1>2, <1>3

(* The relay is lost, or never came: relay.onabort.                          *)
LEMMA RelayOnAbortGoes ==
  ASSUME NEW s, NEW p \in BOOLEAN, Live(s, p), s.relay \in Paths
  PROVE  Goes(s, RelayOnAbort(s), p)
<1> DEFINE d == DestroyRelayConnection(s)
           u == [d EXCEPT !.failed = TRUE, !.late = FALSE]
           t == MaybeDestroyRelayHandshake(u)
<1>0. s \in HandshakeType /\ SoundHandshake(s) /\ Owned(s, p) BY DEF Live, SoundHandshake, Shapely
<1>1. RelayOnAbort(s) = t BY Zenon DEF RelayOnAbort
<1>2. d = [s EXCEPT !.relay = "none"] BY Zenon DEF DestroyRelayConnection
<1> HIDE DEF d
<1>3. d \in HandshakeType BY <1>0, <1>2 DEF HandshakeType
<1>4. /\ d.pc = s.pc /\ d.emitted = s.emitted /\ d.raw = s.raw
      /\ d.connected = s.connected /\ d.relay = "none" /\ d.hooked = s.hooked /\ d.puncher = s.puncher
      /\ d.prepunching = s.prepunching /\ d.recovery = s.recovery
      /\ d.active = s.active /\ d.clearing = s.clearing /\ d.aborted = s.aborted
  BY <1>0, <1>2 DEF HandshakeType
<1>5. u \in HandshakeType BY <1>3 DEF HandshakeType
<1>6. /\ u.pc = s.pc /\ u.emitted = s.emitted /\ u.raw = s.raw
      /\ u.connected = s.connected /\ u.relay = "none" /\ u.hooked = s.hooked /\ u.puncher = s.puncher
      /\ u.prepunching = s.prepunching /\ u.recovery = s.recovery /\ u.failed
      /\ u.active = s.active /\ u.clearing = s.clearing /\ u.aborted = s.aborted
  BY <1>3, <1>4 DEF HandshakeType
<1> HIDE DEF u
<1>7. Shapely(u)
  BY <1>0, <1>5, <1>6 DEF SoundHandshake, Shapely, OnceSound, HandedSound, OpenSound, Paths
<1>8. FiredSound(u) BY <1>0, <1>6 DEF SoundHandshake, FiredSound
<1>9. (p => u.active > 0) /\ (u.puncher = "trying" => p) BY <1>0, <1>6 DEF Live, Owned
<1>10. SoundHandshake(t) /\ Owned(t, p) /\ t.active = u.active /\ t.puncher = u.puncher
  BY <1>6, <1>7, <1>8, <1>9, MaybeDestroySound
<1> HIDE DEF t
<1>11. QED BY <1>1, <1>6, <1>10 DEF Goes

(* The relay connected both sides: the first 'connection' event of a stream  *)
(* that was not handed over.                                                 *)
LEMMA PairedGoes ==
  ASSUME NEW s, NEW p \in BOOLEAN, SoundHandshake(s), Owned(s, p), s.relay = "pairing", s.raw # "given"
  PROVE  Goes(s, [s EXCEPT !.relay = "paired", !.prepunching = "none",
                           !.connected = TRUE, !.emitted = @ + 1], p)
<1> DEFINE u == [s EXCEPT !.relay = "paired", !.prepunching = "none"]
           t == [u EXCEPT !.connected = TRUE, !.emitted = @ + 1]
<1>0. s \in HandshakeType BY DEF SoundHandshake, Shapely
<1>1. s.emitted \in Nat BY <1>0 DEF HandshakeType
<1>2. s.emitted = 0 BY <1>1 DEF SoundHandshake, Shapely, OnceSound
<1>3. u \in HandshakeType BY <1>0 DEF HandshakeType, Paths
<1>4. /\ u.pc = s.pc /\ u.emitted = 0 /\ u.raw = s.raw
      /\ u.relay = "paired" /\ u.hooked = s.hooked /\ u.puncher = s.puncher
      /\ u.prepunching = "none" /\ u.recovery = s.recovery /\ u.failed = s.failed
      /\ u.active = s.active /\ u.clearing = s.clearing /\ u.aborted = s.aborted
  BY <1>0, <1>2 DEF HandshakeType
<1>5. t = [s EXCEPT !.relay = "paired", !.prepunching = "none", !.connected = TRUE, !.emitted = @ + 1]
  BY <1>0 DEF HandshakeType
<1> HIDE DEF u
<1>6. t = [u EXCEPT !.connected = TRUE, !.emitted = 1] BY <1>3, <1>4 DEF HandshakeType
<1> HIDE DEF t
<1>7. t \in HandshakeType BY <1>3, <1>6 DEF HandshakeType
<1>8. /\ t.pc = s.pc /\ t.emitted = 1 /\ t.raw = s.raw /\ t.connected
      /\ t.relay = "paired" /\ t.hooked = s.hooked /\ t.puncher = s.puncher
      /\ t.prepunching = "none" /\ t.recovery = s.recovery /\ t.failed = s.failed
      /\ t.active = s.active /\ t.clearing = s.clearing /\ t.aborted = s.aborted
  BY <1>3, <1>4, <1>6 DEF HandshakeType
<1>9. SoundHandshake(t) /\ Owned(t, p)
  BY <1>7, <1>8 DEF SoundHandshake, FiredSound, AbortedSound, Shapely, OnceSound, HandedSound,
                    OpenSound, Owned, Paths
<1>10. QED BY <1>5, <1>8, <1>9 DEF Goes
(* The timers of the relay's recovery.                                       *)
LEMMA RecoveryGoes ==
  ASSUME NEW s, NEW p \in BOOLEAN, Live(s, p)
  PROVE  /\ Goes(s, [s EXCEPT !.late = TRUE], p)
         /\ s.recovery => Goes(s, MaybeDestroyRelayHandshake([s EXCEPT !.recovery = FALSE]), p)
<1>0. s \in HandshakeType /\ SoundHandshake(s) /\ Owned(s, p) BY DEF Live, SoundHandshake, Shapely
<1>1. Goes(s, [s EXCEPT !.late = TRUE], p)
  <2> DEFINE u == [s EXCEPT !.late = TRUE]
  <2>1. u \in HandshakeType BY <1>0 DEF HandshakeType
  <2>2. /\ u.pc = s.pc /\ u.emitted = s.emitted /\ u.raw = s.raw
        /\ u.connected = s.connected /\ u.relay = s.relay /\ u.hooked = s.hooked /\ u.puncher = s.puncher
        /\ u.prepunching = s.prepunching /\ u.recovery = s.recovery /\ u.failed = s.failed
        /\ u.active = s.active /\ u.clearing = s.clearing /\ u.aborted = s.aborted
    BY <1>0 DEF HandshakeType
  <2> HIDE DEF u
  <2>3. SoundHandshake(u) /\ Owned(u, p)
    BY <1>0, <2>1, <2>2 DEF SoundHandshake, FiredSound, AbortedSound, Shapely, OnceSound, HandedSound,
                      OpenSound, Owned
  <2>4. QED BY <2>2, <2>3 DEF Goes, u
<1>2. ASSUME s.recovery PROVE Goes(s, MaybeDestroyRelayHandshake([s EXCEPT !.recovery = FALSE]), p)
  <2> DEFINE u == [s EXCEPT !.recovery = FALSE]
             t == MaybeDestroyRelayHandshake(u)
  <2>1. u \in HandshakeType BY <1>0 DEF HandshakeType
  <2>2. /\ u.pc = s.pc /\ u.emitted = s.emitted /\ u.raw = s.raw
        /\ u.connected = s.connected /\ u.relay = s.relay /\ u.hooked = s.hooked /\ u.puncher = s.puncher
        /\ u.prepunching = s.prepunching /\ ~u.recovery /\ u.failed = s.failed
        /\ u.active = s.active /\ u.clearing = s.clearing /\ u.aborted = s.aborted
    BY <1>0 DEF HandshakeType
  <2> HIDE DEF u
  <2>3. Shapely(u) /\ FiredSound(u) /\ AbortedSound(u)
    BY <1>0, <2>1, <2>2 DEF SoundHandshake, FiredSound, AbortedSound, Shapely, OnceSound, HandedSound,
                      OpenSound
  <2>4. /\ p => u.active > 0
        /\ u.puncher = "trying" => p
        /\ u.raw = "open" /\ u.pc \in Returned =>
             u.prepunching \in Armed \/ u.puncher = "probing" \/ u.relay \in Paths \/ u.failed \/ p
    BY <1>0, <2>2 DEF Live, Owned
  <2>5. SoundHandshake(t) /\ Owned(t, p) /\ t.active = u.active /\ t.puncher = u.puncher
    BY <2>3, <2>4, MaybeDestroySound
  <2> HIDE DEF t
  <2>6. QED BY <2>2, <2>5 DEF Goes, t, u
<1>3. QED BY <1>1, <1>2

(* The timer of a passive handshake calls onabort, the other destroys the    *)
(* puncher.                                                                  *)
LEMMA PrepunchGoes ==
  ASSUME NEW s, NEW p \in BOOLEAN, SoundHandshake(s), Owned(s, p)
  PROVE  LET u == [s EXCEPT !.prepunching = "spent"]
         IN  /\ s.prepunching = "onabort" => Goes(s, OnAbort(u), p)
             /\ s.prepunching = "destroy" => Goes(s, DestroyPuncher(u), p)
<1> DEFINE u == [s EXCEPT !.prepunching = "spent"]
<1>0. s \in HandshakeType BY DEF SoundHandshake, Shapely
<1>1. u \in HandshakeType BY <1>0 DEF HandshakeType
<1>2. /\ u.pc = s.pc /\ u.emitted = s.emitted /\ u.raw = s.raw /\ u.prepunching = "spent"
      /\ u.connected = s.connected /\ u.relay = s.relay /\ u.hooked = s.hooked /\ u.puncher = s.puncher
      /\ u.recovery = s.recovery /\ u.failed = s.failed
      /\ u.active = s.active /\ u.clearing = s.clearing /\ u.aborted = s.aborted
  BY <1>0 DEF HandshakeType
<1> HIDE DEF u
<1>3. ASSUME s.prepunching = "onabort" PROVE Goes(s, OnAbort(u), p)
  <2> DEFINE t == OnAbort(u)
  <2>1. /\ t \in HandshakeType
        /\ t.pc = u.pc /\ t.relay = u.relay /\ t.connected = u.connected
        /\ t.emitted = u.emitted /\ t.active = u.active
        /\ t.aborted /\ t.prepunching = "none" /\ ~t.failed /\ ~t.recovery
        /\ t.puncher = (IF u.puncher = "none" THEN "none" ELSE "destroyed")
        /\ t.hooked => u.hooked
        /\ t.raw = (IF u.raw = "open" /\ u.relay = "none" THEN "closing" ELSE u.raw)
        /\ u.raw # "closed" => t.clearing = u.clearing
    BY <1>1, OnAbortFields
  <2> HIDE DEF t
  <2>2. s.pc \in Returned /\ s.raw # "given"
    BY <1>3 DEF SoundHandshake, Shapely, OnceSound, HandedSound
  <2>3. t.raw = "open" => t.relay \in Paths
    BY <1>0, <1>2, <2>1, <2>2 DEF SoundHandshake, Shapely, OpenSound, HandshakeType
  <2>4. SoundHandshake(t) /\ Owned(t, p)
    BY <1>2, <2>1, <2>2, <2>3 DEF SoundHandshake, FiredSound, AbortedSound, Shapely, OnceSound, HandedSound,
                      OpenSound, Owned, Returned
  <2>5. QED BY <1>2, <2>1, <2>4 DEF Goes, t
<1>4. ASSUME s.prepunching = "destroy" PROVE Goes(s, DestroyPuncher(u), p)
  <2> DEFINE t == DestroyPuncher(u)
  <2>1. Shapely(u) /\ AbortedSound(u)
    BY <1>1, <1>2, <1>4 DEF SoundHandshake, AbortedSound, Shapely, OnceSound, HandedSound, OpenSound
  <2>2. u.raw = "open" => u.puncher # "none"
    BY <1>2, <1>4 DEF SoundHandshake, Shapely, OpenSound
  <2>3. /\ SoundHandshake(t) /\ t.active = u.active /\ t.pc = u.pc
        /\ t.puncher = (IF u.puncher = "none" THEN "none" ELSE "destroyed")
        /\ t = u \/ (t.raw = "open" => t.relay \in Paths)
    BY <2>1, <2>2, DestroyPuncherSound
  <2> HIDE DEF t
  <2>4. t.raw = "open" => t.relay \in Paths
    BY <1>2, <2>1, <2>2, <2>3 DEF Shapely, OpenSound, AbortedSound
  <2>5. Owned(t, p) BY <2>3, <2>4 DEF Owned
  <2>6. QED BY <1>2, <2>3, <2>5 DEF Goes, t
<1>5. QED BY <1>3, <1>4 DEF u

(* _clear(): only a failed handshake has an open stream then.                *)
LEMMA ClearGoes ==
  ASSUME NEW s, NEW p \in BOOLEAN, SoundHandshake(s), Owned(s, p), s.clearing = "armed"
  PROVE  Goes(s, [ClearRelayRecovery(s) EXCEPT !.clearing = "spent"], p)
<1> DEFINE c == ClearRelayRecovery(s)
           t == [c EXCEPT !.clearing = "spent"]
<1>0. s \in HandshakeType BY DEF SoundHandshake, Shapely
<1>1. c \in HandshakeType BY <1>0 DEF ClearRelayRecovery, HandshakeType
<1>2. /\ c.pc = s.pc /\ c.emitted = s.emitted /\ c.raw = s.raw /\ c.prepunching = s.prepunching
      /\ c.connected = s.connected /\ c.relay = s.relay /\ c.hooked = s.hooked /\ c.puncher = s.puncher
      /\ ~c.recovery /\ c.active = s.active /\ c.aborted = s.aborted
  BY <1>0 DEF ClearRelayRecovery, HandshakeType
<1> HIDE DEF c
<1>3. t \in HandshakeType BY <1>1 DEF HandshakeType
<1>4. /\ t.pc = s.pc /\ t.emitted = s.emitted /\ t.raw = s.raw /\ t.prepunching = s.prepunching
      /\ t.connected = s.connected /\ t.relay = s.relay /\ t.hooked = s.hooked /\ t.puncher = s.puncher
      /\ ~t.recovery /\ t.active = s.active /\ t.aborted = s.aborted
  BY <1>1, <1>2 DEF HandshakeType
<1> HIDE DEF t
<1>5. t.raw = "open" => t.pc = "failed" BY <1>4 DEF SoundHandshake, Shapely, OpenSound
<1>6. SoundHandshake(t) /\ Owned(t, p)
  BY <1>3, <1>4, <1>5 DEF SoundHandshake, FiredSound, AbortedSound, Shapely, OnceSound, HandedSound,
                    OpenSound, Owned, Returned
<1>7. QED BY <1>4, <1>6 DEF Goes, t, c

(* The stream fails.                                                         *)
LEMMA RawErrorGoes ==
  ASSUME NEW s, NEW p \in BOOLEAN, SoundHandshake(s), Owned(s, p)
  PROVE  Goes(s, DestroyRaw(DestroyPuncher(s)), p)
<1> DEFINE t == DestroyPuncher(s)
<1>1. Goes(s, t, p)
  <2>1. CASE s.puncher = "none"
    <3>1. t = s BY <2>1, Zenon DEF DestroyPuncher
    <3>2. QED BY <2>1, <3>1 DEF Goes
  <2>2. CASE s.puncher # "none" BY <2>2, DestroyPuncherGoes
  <2>3. QED BY <2>1, <2>2
<1> HIDE DEF t
<1>2. Goes(t, DestroyRaw(t), p) BY <1>1, DestroyRawGoes DEF Goes
<1>3. QED BY <1>1, <1>2, GoesTrans DEF t

(* 'close' of a stream that was not handed over.                             *)
LEMMA RawClosedGoes ==
  ASSUME NEW s, NEW p \in BOOLEAN, SoundHandshake(s), Owned(s, p), s.raw = "closing"
  PROVE  LET c == [ClearRelayRecovery(s) EXCEPT !.raw = "closed"]
             Ends(t) == IF t.relay = "paired" THEN DestroyRelayConnection(t) ELSE t
         IN  /\ Goes(s, Ends(ClearLater(Silence(c))), p)
             /\ Goes(s, Ends(ClearLater(c)), p)
             /\ Goes(s, Ends(c), p)
<1> DEFINE e == ClearRelayRecovery(s)
           c == [e EXCEPT !.raw = "closed"]
           Ends(t) == IF t.relay = "paired" THEN DestroyRelayConnection(t) ELSE t
<1>0. s \in HandshakeType BY DEF SoundHandshake, Shapely
<1>1. e \in HandshakeType BY <1>0 DEF ClearRelayRecovery, HandshakeType
<1>2. /\ e.pc = s.pc /\ e.emitted = s.emitted /\ e.clearing = s.clearing /\ e.prepunching = s.prepunching
      /\ e.connected = s.connected /\ e.relay = s.relay /\ e.hooked = s.hooked /\ e.puncher = s.puncher
      /\ ~e.recovery /\ e.active = s.active /\ e.aborted = s.aborted
  BY <1>0 DEF ClearRelayRecovery, HandshakeType
<1> HIDE DEF e
<1>3. c \in HandshakeType BY <1>1 DEF HandshakeType
<1>4. /\ c.pc = s.pc /\ c.emitted = s.emitted /\ c.clearing = s.clearing /\ c.prepunching = s.prepunching
      /\ c.connected = s.connected /\ c.relay = s.relay /\ c.hooked = s.hooked /\ c.puncher = s.puncher
      /\ ~c.recovery /\ c.active = s.active /\ c.aborted = s.aborted /\ c.raw = "closed"
  BY <1>1, <1>2 DEF HandshakeType
<1> HIDE DEF c
<1>5. Goes(s, c, p)
  <2>1. SoundHandshake(c) /\ Owned(c, p)
    BY <1>3, <1>4 DEF SoundHandshake, FiredSound, AbortedSound, Shapely, OnceSound, HandedSound,
                      OpenSound, Owned
  <2>2. QED BY <1>4, <2>1 DEF Goes
<1>6. c.pc \in Returned \cup {"lan", "failed", "send"}
  <2>1. s.pc \in Stage /\ s.pc \notin {"unused", "recv", "firewall", "local"}
    BY <1>0 DEF HandshakeType, SoundHandshake, Shapely, OnceSound
  <2>2. QED BY <1>4, <2>1 DEF Stage, Awaiting
<1>7. ASSUME NEW t, Goes(s, t, p), t.raw = "closed" PROVE Goes(s, Ends(t), p)
  <2>1. SoundHandshake(t) /\ Owned(t, p) BY <1>7 DEF Goes
  <2>2. Goes(t, DestroyRelayConnection(t), p) BY <1>7, <2>1, ShutGoes
  <2>3. Goes(s, DestroyRelayConnection(t), p) BY <1>7, <2>2, GoesTrans
  <2>4. QED BY <1>7, <2>3, Zenon
<1>8. SoundHandshake(c) /\ Owned(c, p) /\ c.raw # "open" BY <1>4, <1>5 DEF Goes
<1> DEFINE b == Silence(c)
           l == ClearLater(c)
           m == ClearLater(b)
<1>9. Goes(c, b, p) /\ b.raw = "closed" /\ b.pc = c.pc BY <1>4, <1>8, ShutGoes
<1>10. Goes(c, l, p) /\ l.raw = "closed" BY <1>4, <1>6, <1>8, ShutGoes
<1> HIDE DEF b
<1>11. Goes(b, m, p) /\ m.raw = "closed"
  <2>1. SoundHandshake(b) /\ Owned(b, p) /\ b.raw # "open" BY <1>9 DEF Goes
  <2>2. QED BY <1>6, <1>9, <2>1, ShutGoes
<1> HIDE DEF l, m
<1>12. Goes(s, l, p) /\ Goes(s, m, p) BY <1>5, <1>9, <1>10, <1>11, GoesTrans
<1>13. Goes(s, Ends(c), p) /\ Goes(s, Ends(l), p) /\ Goes(s, Ends(m), p)
  BY <1>4, <1>5, <1>7, <1>10, <1>11, <1>12
<1> HIDE DEF Ends
<1>14. QED BY <1>13 DEF l, m, b, c, e, Ends

(* _clearAll(): everything a handshake has is destroyed, its timers are      *)
(* cancelled.                                                                *)
LEMMA DropGoes ==
  ASSUME NEW s, NEW p \in BOOLEAN, SoundHandshake(s), Owned(s, p)
  PROVE  Goes(s, Drop(s), p)
<1> DEFINE a == DestroyPuncher(s)
           c == ClearRelayRecovery(a)
           x == Cancel(c.clearing)
           y == Cancel(c.prepunching)
           u == [c EXCEPT !.clearing = x, !.prepunching = y]
           t == DestroyRaw(u)
<1>1. SoundHandshake(a) /\ a.active = s.active /\ a.pc = s.pc
      /\ a.puncher = (IF s.puncher = "none" THEN "none" ELSE "destroyed")
  BY DestroyPuncherSound DEF SoundHandshake, FiredSound
<1>2. Drop(s) = t BY Zenon DEF Drop
<1> HIDE DEF a
<1>3. a \in HandshakeType BY <1>1 DEF SoundHandshake, Shapely
<1>4. c \in HandshakeType BY <1>3 DEF ClearRelayRecovery, HandshakeType
<1>5. /\ c.pc = a.pc /\ c.emitted = a.emitted /\ c.clearing = a.clearing /\ c.prepunching = a.prepunching
      /\ c.connected = a.connected /\ c.relay = a.relay /\ c.hooked = a.hooked /\ c.puncher = a.puncher
      /\ ~c.recovery /\ c.active = a.active /\ c.aborted = a.aborted /\ c.raw = a.raw
  BY <1>3 DEF ClearRelayRecovery, HandshakeType
<1> HIDE DEF c
<1>6. x \in {"none", "spent"} /\ y \in {"none", "spent"} BY DEF Cancel
<1>7. (c.clearing = "none" => x = "none") /\ (c.prepunching = "none" => y = "none") BY DEF Cancel
<1> HIDE DEF x, y
<1>8. u \in HandshakeType BY <1>4, <1>6 DEF HandshakeType
<1>9. /\ u.pc = a.pc /\ u.emitted = a.emitted /\ u.clearing = x /\ u.prepunching = y
      /\ u.connected = a.connected /\ u.relay = a.relay /\ u.hooked = a.hooked /\ u.puncher = a.puncher
      /\ ~u.recovery /\ u.active = a.active /\ u.aborted = a.aborted /\ u.raw = a.raw
  BY <1>4, <1>5 DEF HandshakeType
<1> HIDE DEF u
<1>10. CASE u.raw = "open"
  <2>1. t = [u EXCEPT !.raw = "closing"] BY <1>10, Zenon DEF DestroyRaw
  <2> HIDE DEF t
  <2>2. t \in HandshakeType BY <1>8, <2>1 DEF HandshakeType
  <2>3. /\ t.pc = a.pc /\ t.emitted = a.emitted /\ t.clearing = x /\ t.prepunching = y
        /\ t.connected = a.connected /\ t.relay = a.relay /\ t.hooked = a.hooked /\ t.puncher = a.puncher
        /\ ~t.recovery /\ t.active = a.active /\ t.aborted = a.aborted /\ t.raw = "closing"
    BY <1>8, <1>9, <2>1 DEF HandshakeType
  <2>4. SoundHandshake(t) /\ Owned(t, p)
    BY <1>1, <1>5, <1>6, <1>7, <1>9, <1>10, <2>2, <2>3
       DEF SoundHandshake, FiredSound, AbortedSound, Shapely, OnceSound, HandedSound, OpenSound, Owned
  <2>5. QED BY <1>1, <1>2, <2>3, <2>4 DEF Goes
<1>11. CASE u.raw # "open"
  <2>1. t = u BY <1>11, Zenon DEF DestroyRaw
  <2> HIDE DEF t
  <2>2. SoundHandshake(t) /\ Owned(t, p)
    BY <1>1, <1>5, <1>6, <1>7, <1>8, <1>9, <1>11, <2>1
       DEF SoundHandshake, FiredSound, AbortedSound, Shapely, OnceSound, HandedSound, OpenSound, Owned
  <2>3. QED BY <1>1, <1>2, <1>9, <2>1, <2>2 DEF Goes
<1>12. QED BY <1>10, <1>11

-----------------------------------------------------------------------------
(* The steps of the server.                                                  *)

(* A handshake with a request at its punch has a request under way.          *)
LEMMA LiveHandshake ==
  ASSUME OwnedInv, NEW h \in Handshakes
  PROVE  /\ Live(hs[h], AtPunch(h)) /\ AtPunch(h) \in BOOLEAN
         /\ SoundHandshake(hs[h]) /\ Owned(hs[h], AtPunch(h)) /\ hs[h] \in HandshakeType
<1>1. SoundHandshake(hs[h]) /\ Owned(hs[h], AtPunch(h)) BY DEF OwnedInv
<1>2. IsFiniteSet(Serving(h)) /\ hs[h].active = Cardinality(Serving(h)) BY DEF OwnedInv
<1>3. AtPunch(h) => hs[h].active > 0
  <2>1. ASSUME AtPunch(h) PROVE hs[h].active > 0
    <3>1. Serving(h) # {} BY <2>1 DEF AtPunch
    <3>2. Cardinality(Serving(h)) \in Nat /\ Cardinality(Serving(h)) # 0
      BY <1>2, <3>1, FS_CardinalityType, FS_EmptySet
    <3>3. QED BY <1>2, <3>2
  <2>2. QED BY <2>1
<1>4. AtPunch(h) \in BOOLEAN BY DEF AtPunch
<1>5. QED BY <1>1, <1>3, <1>4 DEF Live, SoundHandshake, Shapely

(* Steps that leave the requests alone.                                      *)
LEMMA OwnedFrame ==
  ASSUME OwnedInv, UNCHANGED reqs, DOMAIN hs' = Handshakes,
         \A g \in Handshakes : Goes(hs[g], hs'[g], AtPunch(g)) \/ hs'[g] = hs[g]
  PROVE  OwnedInv'
<1>1. \A g \in Handshakes : Serving(g)' = Serving(g) /\ AtPunch(g)' = AtPunch(g)
  BY DEF Serving, AtPunch
<1>2. ASSUME NEW g \in Handshakes
      PROVE  /\ SoundHandshake(hs'[g]) /\ Owned(hs'[g], AtPunch(g))
             /\ hs'[g].active = hs[g].active /\ (hs[g].puncher # "none" => hs'[g].puncher # "none")
  BY <1>2, LiveHandshake DEF Goes
<1>3. RequestsOK'
  <2>1. RequestsOK BY DEF OwnedInv
  <2>2. ASSUME NEW r \in Requests, reqs[r].pc # "idle"
        PROVE  reqs[r].h \in Handshakes /\ hs'[reqs[r].h].puncher # "none"
    <3>1. reqs[r].h \in Handshakes /\ hs[reqs[r].h].puncher # "none" BY <2>1, <2>2 DEF RequestsOK
    <3>2. QED BY <1>2, <3>1
  <2>3. reqs' = reqs OBVIOUS
  <2>4. reqs' \in [Requests -> [pc: {"idle", "analyze", "reopen", "ping", "punch"}, h: 0..MaxHandshakes]]
    BY <2>1, <2>3 DEF RequestsOK
  <2>5. QED BY <2>2, <2>3, <2>4, Zenon DEF RequestsOK
<1>4. ASSUME NEW g \in Handshakes
      PROVE  /\ SoundHandshake(hs'[g]) /\ Owned(hs'[g], AtPunch(g)')
             /\ IsFiniteSet(Serving(g)') /\ hs'[g].active = Cardinality(Serving(g)')
  <2>1. IsFiniteSet(Serving(g)) /\ hs[g].active = Cardinality(Serving(g)) BY DEF OwnedInv
  <2>2. Serving(g)' = Serving(g) /\ AtPunch(g)' = AtPunch(g) BY <1>1
  <2> HIDE DEF OwnedInv
  <2>3. QED BY <1>2, <2>1, <2>2, Zenon
<1>5. QED BY <1>3, <1>4, Zenon DEF OwnedInv

(* A step on one handshake.                                                  *)
LEMMA SetOwned ==
  ASSUME OwnedInv, NEW h \in Handshakes, NEW t, Set(h, t), UNCHANGED reqs,
         Goes(hs[h], t, AtPunch(h))
  PROVE  OwnedInv'
<1>1. DOMAIN hs = Handshakes BY DEF OwnedInv
<1>2. hs' = [hs EXCEPT ![h] = t] BY DEF Set
<1>3. DOMAIN hs' = Handshakes BY <1>1, <1>2
<1>4. \A g \in Handshakes : Goes(hs[g], hs'[g], AtPunch(g)) \/ hs'[g] = hs[g] BY <1>1, <1>2, Zenon
<1>5. QED BY <1>3, <1>4, OwnedFrame

(* A new handshake has nothing yet, and no request.                          *)
LEMMA AddHandshakeOwned ==
  ASSUME TableInv, OwnedInv, NEW h \in Handshakes, NEW k \in Keys, AddHandshake(h, k)
  PROVE  OwnedInv'
<1> DEFINE free == {i \in 1..Len(holepunches) : holepunches[i] = 0}
           id == IF free = {} THEN Len(holepunches) + 1
                              ELSE CHOOSE i \in free : \A j \in free : i <= j
           t == [Fresh EXCEPT !.pc = "recv", !.key = k, !.id = id]
<1>1. Set(h, t) /\ UNCHANGED reqs /\ hs[h].pc = "unused" BY Zenon DEF AddHandshake
<1>2. id \in Nat
  <2>1. holepunches \in Seq(0..MaxHandshakes) BY DEF TableInv, TablesOK
  <2>2. Len(holepunches) \in Nat BY <2>1
  <2>3. CASE free = {}
    <3>1. id = Len(holepunches) + 1 BY <2>3, Zenon
    <3> HIDE DEF id, free
    <3>2. QED BY <2>2, <3>1
  <2>4. CASE free # {}
    <3>1. free \in SUBSET Nat BY <2>2
    <3>2. \E i \in free : \A j \in free : i <= j BY <2>4, <3>1, LeastExists, Zenon
    <3>3. id = CHOOSE i \in free : \A j \in free : i <= j BY <2>4, Zenon
    <3> HIDE DEF id, free
    <3>4. id \in free BY <3>2, <3>3, Zenon
    <3>5. QED BY <3>1, <3>4, Zenon
  <2>5. QED BY <2>3, <2>4
<1> HIDE DEF id, free
<1>3. t \in HandshakeType
  <2>1. Fresh \in HandshakeType BY DEF Fresh, HandshakeType, Stage
  <2>2. "recv" \in Stage BY DEF Stage, Awaiting
  <2> HIDE DEF t
  <2>3. QED BY <1>2, <2>1, <2>2 DEF HandshakeType, t
<1>4. /\ t.pc = "recv" /\ t.emitted = 0 /\ t.raw = "none" /\ t.prepunching = "none"
      /\ ~t.connected /\ t.relay = "none" /\ ~t.hooked /\ t.puncher = "none"
      /\ ~t.recovery /\ t.active = 0 /\ t.clearing = "none" /\ ~t.aborted
  BY DEF Fresh
<1> HIDE DEF t
<1>5. hs[h].puncher = "none"
  BY <1>1, LiveHandshake DEF SoundHandshake, Shapely, OnceSound, Returned
<1>6. hs[h].active = 0
  <2>1. Serving(h) = {} BY <1>5 DEF OwnedInv, RequestsOK, Serving
  <2>2. hs[h].active = Cardinality(Serving(h)) BY DEF OwnedInv
  <2>3. QED BY <2>1, <2>2, FS_EmptySet
<1>7. SoundHandshake(t) /\ Owned(t, AtPunch(h))
  BY <1>3, <1>4 DEF SoundHandshake, FiredSound, AbortedSound, Shapely, OnceSound, HandedSound,
                    OpenSound, Owned, Returned, Paths
<1>8. Goes(hs[h], t, AtPunch(h)) BY <1>4, <1>5, <1>6, <1>7 DEF Goes
<1>9. QED BY <1>1, <1>8, SetOwned

(* The stages of _addHandshake().                                            *)
LEMMA HandshakeStepOwned ==
  ASSUME OwnedInv, NEW h \in Handshakes, HandshakeStep(h)
  PROVE  OwnedInv'
<1> DEFINE s == hs[h]
           p == AtPunch(h)
<1>0. Live(s, p) /\ p \in BOOLEAN /\ SoundHandshake(s) /\ Owned(s, p) /\ s \in HandshakeType
  BY LiveHandshake
<1> SUFFICES /\ UNCHANGED reqs
             /\ \E t : Set(h, t) /\ Goes(s, t, p)
  BY SetOwned
<1>1. UNCHANGED reqs
  BY Zenon DEF HandshakeStep, Received, Firewalled, Localized, Sent, LanChecked, Answer, OnlyHandshakes
<1>2. s.pc \in Awaiting => Goes(s, Fail(s), p) BY <1>0, FailGoes
<1>3. CASE Received(h)
  <2>1. s.pc = "recv" /\ (Set(h, Fail(s)) \/ Set(h, [s EXCEPT !.pc = "firewall"]))
    BY <1>3, Zenon DEF Received
  <2>2. Goes(s, [s EXCEPT !.pc = "firewall"], p) BY <1>0, <2>1, StageGoes
  <2>3. s.pc \in Awaiting BY <2>1 DEF Awaiting
  <2>4. QED BY <1>1, <1>2, <2>1, <2>2, <2>3, Zenon
<1>4. CASE Firewalled(h)
  <2>1. s.pc = "firewall" /\ (Set(h, Fail(s)) \/ Set(h, [s EXCEPT !.pc = "local"]))
    BY <1>4, Zenon DEF Firewalled
  <2>2. Goes(s, [s EXCEPT !.pc = "local"], p) BY <1>0, <2>1, StageGoes
  <2>3. s.pc \in Awaiting BY <2>1 DEF Awaiting
  <2>4. QED BY <1>1, <1>2, <2>1, <2>2, <2>3, Zenon
<1>5. CASE Localized(h)
  <2>1. /\ s.pc = "local"
        /\ \/ Set(h, Fail(s))
           \/ \E raw \in {"none", "open"}, relay \in IF Relaying THEN {"none", "token"} ELSE {"none"} :
                Set(h, [s EXCEPT !.pc = "send", !.raw = raw, !.relay = relay])
    BY <1>5, Zenon DEF Localized
  <2>2. s.pc \in Awaiting BY <2>1 DEF Awaiting
  <2>3. CASE Set(h, Fail(s)) BY <1>1, <1>2, <2>2, <2>3, Zenon
  <2>4. ASSUME NEW raw \in {"none", "open"}, NEW relay \in {"none", "token"},
               Set(h, [s EXCEPT !.pc = "send", !.raw = raw, !.relay = relay])
        PROVE  \E t : Set(h, t) /\ Goes(s, t, p)
    <3>1. Goes(s, [s EXCEPT !.pc = "send", !.raw = raw, !.relay = relay], p)
      BY <1>0, <2>1, OpenGoes
    <3>2. QED BY <2>4, <3>1, Zenon
  <2>5. QED BY <1>1, <2>1, <2>3, <2>4, Zenon
<1>6. CASE Sent(h)
  <2> DEFINE paths == (IF Relaying THEN {StartRelay(s)} ELSE {})
                        \cup (IF s.relay = "token" THEN {} ELSE {s})
  <2>1. /\ s.pc = "send"
        /\ \/ Set(h, Fail(DestroyRaw(s)))
           \/ s.raw = "none" /\ Set(h, ClearLater([s EXCEPT !.pc = "returned"]))
           \/ /\ s.raw # "none"
              /\ \/ Set(h, OnSocket([s EXCEPT !.pc = "returned"]))
                 \/ \E t \in paths : Set(h, [t EXCEPT !.pc = "lan"]) \/ Set(h, WaitForPeer(t))
    BY <1>6, Zenon DEF Sent
  <2>2. Goes(s, Fail(DestroyRaw(s)), p)
    <3> DEFINE d == DestroyRaw(s)
    <3>1. Goes(s, d, p) /\ d.pc = s.pc BY <1>0, DestroyRawGoes
    <3> HIDE DEF d
    <3>2. SoundHandshake(d) /\ Owned(d, p) /\ d.pc \in Awaiting BY <2>1, <3>1 DEF Goes, Awaiting
    <3>3. Goes(d, Fail(d), p) BY <1>0, <3>2, FailGoes
    <3>4. QED BY <3>1, <3>3, GoesTrans DEF d
  <2>3. s.raw = "none" => Goes(s, ClearLater([s EXCEPT !.pc = "returned"]), p)
    BY <1>0, <2>1, SentGoes
  <2>4. Goes(s, OnSocket([s EXCEPT !.pc = "returned"]), p) BY <1>0, <2>1, OnSocketGoes
  <2>5. ASSUME NEW t \in paths, s.raw # "none"
        PROVE  Goes(s, [t EXCEPT !.pc = "lan"], p) /\ Goes(s, WaitForPeer(t), p)
    <3> DEFINE l == [t EXCEPT !.pc = "lan"]
    <3>1. t \in HandshakeType /\ Goes(s, l, p)
      <4>1. t = StartRelay(s) \/ (t = s /\ s.relay # "token") BY <2>5, Zenon
      <4>2. CASE t = StartRelay(s)
        <5>1. Goes(s, [StartRelay(s) EXCEPT !.pc = "lan"], p) /\ StartRelay(s) \in HandshakeType
          BY <1>0, <2>1, <2>5, SentGoes
        <5>2. QED BY <4>2, <5>1, Zenon
      <4>3. CASE t = s /\ s.relay # "token"
        <5>1. Goes(s, [s EXCEPT !.pc = "lan"], p) BY <1>0, <2>1, <4>3, StageGoes
        <5>2. QED BY <1>0, <4>3, <5>1, Zenon
      <4>4. QED BY <4>1, <4>2, <4>3, Zenon
    <3>2. SoundHandshake(l) /\ Owned(l, p) BY <3>1, Zenon DEF Goes
    <3>3. \A m : m = [t EXCEPT !.pc = "lan"] /\ SoundHandshake(m) /\ Owned(m, p) => Goes(m, WaitForPeer(t), p)
      BY <1>0, <3>1, WaitGoes
    <3>4. Goes(l, WaitForPeer(t), p) BY <3>2, <3>3, Zenon
    <3> HIDE DEF l
    <3>5. Goes(s, WaitForPeer(t), p) BY <3>1, <3>4, GoesTrans
    <3>6. QED BY <3>1, <3>5 DEF l
  <2> HIDE DEF paths
  <2>6. QED BY <1>1, <2>1, <2>2, <2>3, <2>4, <2>5, Zenon
<1>7. CASE LanChecked(h)
  <2>1. /\ s.pc = "lan"
        /\ \/ Set(h, WaitPassively(SetupHolepuncher(s))) \/ Set(h, Fail(s)) \/ Set(h, WaitForPeer(s))
    BY <1>7, Zenon DEF LanChecked
  <2>2. s = [s EXCEPT !.pc = "lan"] BY <1>0, <2>1 DEF HandshakeType
  <2> HIDE DEF s, p
  <2>3. Goes(s, WaitPassively(SetupHolepuncher(s)), p) /\ Goes(s, WaitForPeer(s), p)
    BY <1>0, <2>2, WaitGoes
  <2>4. s.pc \in Awaiting BY <2>1 DEF Awaiting
  <2>5. QED BY <1>1, <1>2, <2>1, <2>3, <2>4, Zenon
<1>8. CASE Answer(h)
  <2>1. PICK x \in {"refused", "answered"} : s.pc = "returned" /\ Set(h, [s EXCEPT !.pc = x])
    BY <1>8, Zenon DEF Answer
  <2>2. x \in Returned BY DEF Returned
  <2>3. Goes(s, [s EXCEPT !.pc = x], p) BY <1>0, <2>1, <2>2, StageGoes
  <2>4. QED BY <1>1, <2>1, <2>3, Zenon
<1>9. QED BY <1>3, <1>4, <1>5, <1>6, <1>7, <1>8, Zenon DEF HandshakeStep

(* Events of the stream, the relay and the timers.                           *)
LEMMA EventOwned ==
  ASSUME OwnedInv, NEW h \in Handshakes,
         \/ DirectTraffic(h) \/ RawError(h) \/ RawClosed(h)
         \/ RelayPaired(h) \/ RelayFailed(h) \/ RelayLost(h) \/ UpgradeSettled(h)
         \/ ProbesEnd(h) \/ PrepunchTimer(h) \/ RecoveryDue(h) \/ RecoveryTimer(h) \/ ClearTimer(h)
  PROVE  OwnedInv'
<1> DEFINE s == hs[h]
           p == AtPunch(h)
<1>0. Live(s, p) /\ p \in BOOLEAN /\ SoundHandshake(s) /\ Owned(s, p) /\ s \in HandshakeType
  BY LiveHandshake
<1> SUFFICES /\ UNCHANGED reqs
             /\ \E t : Set(h, t) /\ Goes(s, t, p)
  BY SetOwned
<1>1. UNCHANGED reqs
  BY Zenon DEF DirectTraffic, RawError, RawClosed, RelayPaired, RelayFailed, RelayLost, UpgradeSettled,
               ProbesEnd, PrepunchTimer, RecoveryDue, RecoveryTimer, ClearTimer, OnlyHandshakes
<1>2. CASE DirectTraffic(h)
  <2>1. s.pc = "answered" /\ Set(h, OnSocket(s)) BY <1>2, Zenon DEF DirectTraffic
  <2>2. s.pc \in Returned BY <2>1 DEF Returned
  <2>3. Goes(s, OnSocket(s), p) BY <1>0, <2>2, OnSocketGoes
  <2>4. QED BY <1>1, <2>1, <2>3, Zenon
<1>3. CASE RawError(h)
  <2>1. Set(h, DestroyRaw(DestroyPuncher(s))) BY <1>3, Zenon DEF RawError
  <2>2. Goes(s, DestroyRaw(DestroyPuncher(s)), p) BY <1>0, RawErrorGoes
  <2>3. QED BY <1>1, <2>1, <2>2, Zenon
<1>4. CASE RawClosed(h)
  <2> DEFINE c == [ClearRelayRecovery(s) EXCEPT !.raw = "closed"]
             Ends(t) == IF t.relay = "paired" THEN DestroyRelayConnection(t) ELSE t
  <2>1. /\ s.raw = "closing"
        /\ Set(h, Ends(ClearLater(Silence(c)))) \/ Set(h, Ends(ClearLater(c))) \/ Set(h, Ends(c))
    BY <1>4, Zenon DEF RawClosed
  <2>2. /\ Goes(s, Ends(ClearLater(Silence(c))), p) /\ Goes(s, Ends(ClearLater(c)), p)
        /\ Goes(s, Ends(c), p)
    BY <1>0, <2>1, RawClosedGoes, Zenon
  <2> HIDE DEF c, Ends
  <2>3. QED BY <1>1, <2>1, <2>2, Zenon
<1>5. CASE RelayPaired(h)
  <2> DEFINE t == [s EXCEPT !.relay = "paired", !.prepunching = "none",
                            !.connected = TRUE, !.emitted = @ + 1]
  <2>1. s.relay = "pairing" /\ s.relay \in Paths BY <1>5, Zenon DEF RelayPaired, Paths
  <2>2. (s.raw = "given" /\ Set(h, RelayOnAbort(s))) \/ (s.raw # "given" /\ Set(h, t))
    BY <1>5, Zenon DEF RelayPaired
  <2>3. Goes(s, RelayOnAbort(s), p) BY <1>0, <2>1, RelayOnAbortGoes
  <2>4. s.raw # "given" => Goes(s, t, p) BY <1>0, <2>1, PairedGoes
  <2> HIDE DEF t
  <2>5. QED BY <1>1, <2>2, <2>3, <2>4, Zenon
<1>6. CASE RelayFailed(h) \/ RelayLost(h)
  <2>1. s.relay \in Paths /\ Set(h, RelayOnAbort(s)) BY <1>6, Zenon DEF RelayFailed, RelayLost, Paths
  <2>2. Goes(s, RelayOnAbort(s), p) BY <1>0, <2>1, RelayOnAbortGoes
  <2>3. QED BY <1>1, <2>1, <2>2, Zenon
<1>7. CASE UpgradeSettled(h)
  <2>1. s.raw = "given" /\ Set(h, DestroyRelayConnection(s)) BY <1>7, Zenon DEF UpgradeSettled
  <2>2. Goes(s, DestroyRelayConnection(s), p) BY <1>0, <2>1, ShutGoes
  <2>3. QED BY <1>1, <2>1, <2>2, Zenon
<1>8. CASE ProbesEnd(h)
  <2>1. s.puncher = "probing" /\ Set(h, DestroyPuncher(s)) BY <1>8, Zenon DEF ProbesEnd
  <2>2. Goes(s, DestroyPuncher(s), p) BY <1>0, <2>1, DestroyPuncherGoes
  <2>3. QED BY <1>1, <2>1, <2>2, Zenon
<1>9. CASE PrepunchTimer(h)
  <2> DEFINE u == [s EXCEPT !.prepunching = "spent"]
  <2>1. \/ s.prepunching = "onabort" /\ Set(h, OnAbort(u))
        \/ s.prepunching = "destroy" /\ Set(h, DestroyPuncher(u))
    BY <1>9, Zenon DEF PrepunchTimer
  <2>2. /\ s.prepunching = "onabort" => Goes(s, OnAbort(u), p)
        /\ s.prepunching = "destroy" => Goes(s, DestroyPuncher(u), p)
    BY <1>0, PrepunchGoes
  <2> HIDE DEF u
  <2>3. QED BY <1>1, <2>1, <2>2, Zenon
<1>10. CASE RecoveryDue(h)
  <2>1. Set(h, [s EXCEPT !.late = TRUE]) BY <1>10, Zenon DEF RecoveryDue
  <2>2. Goes(s, [s EXCEPT !.late = TRUE], p) BY <1>0, RecoveryGoes
  <2>3. QED BY <1>1, <2>1, <2>2, Zenon
<1>11. CASE RecoveryTimer(h)
  <2>1. s.recovery /\ Set(h, MaybeDestroyRelayHandshake([s EXCEPT !.recovery = FALSE]))
    BY <1>11, Zenon DEF RecoveryTimer
  <2>2. Goes(s, MaybeDestroyRelayHandshake([s EXCEPT !.recovery = FALSE]), p)
    BY <1>0, <2>1, RecoveryGoes
  <2>3. QED BY <1>1, <2>1, <2>2, Zenon
<1>12. CASE ClearTimer(h)
  <2>1. s.clearing = "armed" /\ Set(h, [ClearRelayRecovery(s) EXCEPT !.clearing = "spent"])
    BY <1>12, Zenon DEF ClearTimer, Clear
  <2>2. Goes(s, [ClearRelayRecovery(s) EXCEPT !.clearing = "spent"], p) BY <1>0, <2>1, ClearGoes
  <2>3. QED BY <1>1, <2>1, <2>2, Zenon
<1>13. QED BY <1>2, <1>3, <1>4, <1>5, <1>6, <1>7, <1>8, <1>9, <1>10, <1>11, <1>12, Zenon

(* _clearAll().                                                              *)
LEMMA ClearAllOwned == ASSUME OwnedInv, ClearAll PROVE OwnedInv'
<1>1. /\ hs' = [h \in Handshakes |-> IF InTable(h) THEN Drop(hs[h]) ELSE hs[h]]
      /\ UNCHANGED reqs
  BY Zenon DEF ClearAll
<1>2. DOMAIN hs' = Handshakes BY <1>1, Zenon
<1>3. ASSUME NEW g \in Handshakes PROVE Goes(hs[g], hs'[g], AtPunch(g)) \/ hs'[g] = hs[g]
  <2>1. hs'[g] = Drop(hs[g]) \/ hs'[g] = hs[g] BY <1>1, Zenon
  <2>2. Goes(hs[g], Drop(hs[g]), AtPunch(g)) BY LiveHandshake, DropGoes
  <2>3. QED BY <2>1, <2>2, Zenon
<1>4. QED BY <1>1, <1>2, <1>3, OwnedFrame

-----------------------------------------------------------------------------
(* The requests.                                                             *)

(* A request is counted while it is under way, and cancels nothing.          *)
LEMMA HolepunchRequestOwned ==
  ASSUME OwnedInv, NEW r \in Requests, NEW h \in Handshakes, HolepunchRequest(r, h)
  PROVE  OwnedInv'
<1> DEFINE s == hs[h]
           p == AtPunch(h)
<1>0. Live(s, p) /\ p \in BOOLEAN /\ SoundHandshake(s) /\ Owned(s, p) /\ s \in HandshakeType
  BY LiveHandshake
<1>1. reqs[r].pc = "idle" /\ s.puncher # "none" BY Zenon DEF HolepunchRequest
<1>2. CASE Set(h, Abort(s)) /\ UNCHANGED reqs
  <2>1. Goes(s, Abort(s), p) BY <1>0, <1>1, DestroyPuncherGoes, Zenon DEF Abort
  <2>2. QED BY <1>2, <2>1, SetOwned
<1>3. ASSUME NEW wants \in BOOLEAN, Set(h, [s EXCEPT !.wants = wants, !.active = @ + 1]),
             reqs' = [reqs EXCEPT ![r] = [pc |-> "analyze", h |-> h]]
      PROVE  OwnedInv'
  <2> DEFINE t == [s EXCEPT !.wants = wants, !.active = @ + 1]
  <2>1. DOMAIN hs = Handshakes /\ RequestsOK BY DEF OwnedInv
  <2>2. reqs \in [Requests -> [pc: {"idle", "analyze", "reopen", "ping", "punch"}, h: 0..MaxHandshakes]]
    BY <2>1 DEF RequestsOK
  <2>3. /\ reqs'[r] = [pc |-> "analyze", h |-> h]
        /\ \A q \in Requests \ {r} : reqs'[q] = reqs[q]
        /\ DOMAIN reqs' = Requests
    BY <1>3, <2>2
  <2>4. /\ hs'[h] = t /\ \A g \in Handshakes \ {h} : hs'[g] = hs[g]
        /\ DOMAIN hs' = Handshakes
    BY <1>3, <2>1, Zenon DEF Set
  <2>5. s.active \in Int BY <1>0 DEF HandshakeType
  <2>6. t \in HandshakeType
    <3> DEFINE n == s.active + 1
    <3>1. n \in Int BY <2>5
    <3>2. t = [s EXCEPT !.wants = wants, !.active = n] BY <1>0 DEF HandshakeType
    <3> HIDE DEF n, t
    <3>3. QED BY <1>0, <3>1, <3>2 DEF HandshakeType
  <2>7. /\ t.pc = s.pc /\ t.emitted = s.emitted /\ t.raw = s.raw
        /\ t.connected = s.connected /\ t.relay = s.relay /\ t.hooked = s.hooked /\ t.puncher = s.puncher
        /\ t.prepunching = s.prepunching /\ t.recovery = s.recovery /\ t.failed = s.failed
        /\ t.active = s.active + 1 /\ t.clearing = s.clearing /\ t.aborted = s.aborted
    BY <1>0 DEF HandshakeType
  <2> HIDE DEF t
  <2>8. Serving(h)' = Serving(h) \cup {r} /\ r \notin Serving(h)
    BY <1>1, <2>3 DEF Serving
  <2>9. \A g \in Handshakes \ {h} : Serving(g)' = Serving(g)
    BY <1>1, <2>3 DEF Serving
  <2>10. \A g \in Handshakes : AtPunch(g)' = AtPunch(g)
    <3>1. ASSUME NEW g \in Handshakes PROVE AtPunch(g)' <=> AtPunch(g)
      <4>1. reqs'[r].pc = "analyze" /\ reqs[r].pc = "idle" BY <1>1, <2>3
      <4>2. \A q \in Requests : (q \in Serving(g) /\ reqs[q].pc = "punch")
                                 <=> (q \in Serving(g)' /\ reqs'[q].pc = "punch")
        BY <2>3, <4>1 DEF Serving
      <4>3. Serving(g) \subseteq Requests /\ Serving(g)' \subseteq Requests BY DEF Serving
      <4>4. QED BY <4>2, <4>3, Zenon DEF AtPunch
    <3>2. QED BY <3>1 DEF AtPunch
  <2>11. SoundHandshake(t) /\ Owned(t, p)
    BY <1>0, <2>5, <2>6, <2>7 DEF SoundHandshake, FiredSound, AbortedSound, Shapely, OnceSound, HandedSound,
                      OpenSound, Owned
  <2>12. IsFiniteSet(Serving(h)') /\ t.active = Cardinality(Serving(h)')
    <3>1. IsFiniteSet(Serving(h)) /\ s.active = Cardinality(Serving(h)) BY DEF OwnedInv
    <3>2. /\ IsFiniteSet(Serving(h) \cup {r})
          /\ Cardinality(Serving(h) \cup {r}) = Cardinality(Serving(h)) + 1
      BY <2>8, <3>1, FS_AddElement
    <3>3. QED BY <2>7, <2>8, <3>1, <3>2, Zenon
  <2>13. RequestsOK'
    <3>1. [pc |-> "analyze", h |-> h] \in [pc: {"idle", "analyze", "reopen", "ping", "punch"}, h: 0..MaxHandshakes]
      BY DEF Handshakes
    <3>2. reqs' \in [Requests -> [pc: {"idle", "analyze", "reopen", "ping", "punch"}, h: 0..MaxHandshakes]]
      BY <1>3, <2>2, <3>1, Zenon
    <3>3. ASSUME NEW q \in Requests, reqs'[q].pc # "idle"
          PROVE  reqs'[q].h \in Handshakes /\ hs'[reqs'[q].h].puncher # "none"
      <4>1. CASE q = r BY <1>1, <2>3, <2>4, <2>7, <4>1
      <4>2. CASE q # r
        <5>1. reqs'[q] = reqs[q] BY <2>3, <4>2
        <5>2. reqs[q].h \in Handshakes /\ hs[reqs[q].h].puncher # "none"
          BY <2>1, <3>3, <5>1 DEF RequestsOK
        <5>3. CASE reqs[q].h = h BY <1>1, <2>4, <2>7, <5>1, <5>2, <5>3
        <5>4. CASE reqs[q].h # h BY <2>4, <5>1, <5>2, <5>4
        <5>5. QED BY <5>3, <5>4
      <4>3. QED BY <4>1, <4>2
    <3>4. QED BY <3>2, <3>3, Zenon DEF RequestsOK
  <2>14. ASSUME NEW g \in Handshakes
         PROVE  /\ SoundHandshake(hs'[g]) /\ Owned(hs'[g], AtPunch(g)')
                /\ IsFiniteSet(Serving(g)') /\ hs'[g].active = Cardinality(Serving(g)')
    <3>1. CASE g = h BY <2>4, <2>10, <2>11, <2>12, <3>1, Zenon
    <3>2. CASE g # h
      <4>1. hs'[g] = hs[g] /\ Serving(g)' = Serving(g) /\ AtPunch(g)' = AtPunch(g)
        BY <2>4, <2>9, <2>10, <3>2, Zenon
      <4>2. /\ SoundHandshake(hs[g]) /\ Owned(hs[g], AtPunch(g))
            /\ IsFiniteSet(Serving(g)) /\ hs[g].active = Cardinality(Serving(g))
        BY Zenon DEF OwnedInv
      <4>3. QED BY <4>1, <4>2, Zenon
    <3>3. QED BY <3>1, <3>2
  <2>15. QED BY <2>4, <2>13, <2>14, Zenon DEF OwnedInv
<1>4. QED BY <1>2, <1>3, Zenon DEF HolepunchRequest

(* Another request for r's handshake is at its punch.                        *)
OthersAtPunch(r) == \E x \in Serving(reqs[r].h) \ {r} : reqs[x].pc = "punch"

(* The handshakes after a step of request r that keeps the others' requests. *)
LEMMA RequestFrame ==
  ASSUME OwnedInv, NEW r \in Requests, reqs[r].pc # "idle",
         NEW h \in Handshakes, reqs[r].h = h,
         DOMAIN hs' = Handshakes, \A g \in Handshakes \ {h} : hs'[g] = hs[g],
         DOMAIN reqs' = Requests, \A q \in Requests \ {r} : reqs'[q] = reqs[q],
         reqs' \in [Requests -> [pc: {"idle", "analyze", "reopen", "ping", "punch"}, h: 0..MaxHandshakes]],
         reqs'[r].pc # "idle" => reqs'[r].h = h,
         hs'[h].puncher # "none",
         NEW p \in BOOLEAN, p <=> AtPunch(h)',
         SoundHandshake(hs'[h]), Owned(hs'[h], p),
         IsFiniteSet(Serving(h)'), hs'[h].active = Cardinality(Serving(h)')
  PROVE  OwnedInv'
<1>1. RequestsOK BY DEF OwnedInv
<1>2. ASSUME NEW q \in Requests, reqs'[q].pc # "idle"
      PROVE  reqs'[q].h \in Handshakes /\ hs'[reqs'[q].h].puncher # "none"
  <2>1. CASE q = r BY <1>1, <1>2, <2>1
  <2>2. CASE q # r
    <3>1. reqs'[q] = reqs[q] BY <2>2
    <3>2. reqs[q].h \in Handshakes /\ hs[reqs[q].h].puncher # "none" BY <1>1, <1>2, <3>1 DEF RequestsOK
    <3>3. CASE reqs[q].h = h BY <3>1, <3>2, <3>3
    <3>4. CASE reqs[q].h # h BY <3>1, <3>2, <3>4
    <3>5. QED BY <3>3, <3>4
  <2>3. QED BY <2>1, <2>2
<1>3. RequestsOK' BY <1>2, Zenon DEF RequestsOK
<1>4. AtPunch(h)' = p BY DEF AtPunch
<1>5. ASSUME NEW g \in Handshakes
      PROVE  /\ SoundHandshake(hs'[g]) /\ Owned(hs'[g], AtPunch(g)')
             /\ IsFiniteSet(Serving(g)') /\ hs'[g].active = Cardinality(Serving(g)')
  <2>1. CASE g = h BY <1>4, <2>1, Zenon
  <2>2. CASE g # h
    <3>1. hs'[g] = hs[g] BY <2>2
    <3>2. \A q \in Requests : (reqs'[q].pc # "idle" /\ reqs'[q].h = g) <=> (reqs[q].pc # "idle" /\ reqs[q].h = g)
      BY <2>2
    <3>3. Serving(g)' = Serving(g) BY <3>2 DEF Serving
    <3>4. r \notin Serving(g) BY <2>2 DEF Serving
    <3>5. \A q \in Serving(g) : q \in Requests \ {r} BY <3>4 DEF Serving
    <3>6. AtPunch(g)' <=> AtPunch(g)
      <4>1. \A q \in Serving(g) : reqs'[q] = reqs[q] BY <3>5
      <4>2. QED BY <3>3, <4>1, Zenon DEF AtPunch
    <3>7. AtPunch(g)' = AtPunch(g) BY <3>6 DEF AtPunch
    <3>8. /\ SoundHandshake(hs[g]) /\ Owned(hs[g], AtPunch(g))
          /\ IsFiniteSet(Serving(g)) /\ hs[g].active = Cardinality(Serving(g))
      BY Zenon DEF OwnedInv
    <3>9. QED BY <3>1, <3>3, <3>7, <3>8, Zenon
  <2>3. QED BY <2>1, <2>2
<1>6. QED BY <1>3, <1>5, Zenon DEF OwnedInv

(* The finally block of _onpeerholepunch().                                  *)
LEMMA FinishOwned ==
  ASSUME OwnedInv, NEW r \in Requests, reqs[r].pc # "idle",
         NEW h \in Handshakes, reqs[r].h = h, NEW u, Finish(r, u),
         SoundHandshake(u), u.active = Target(r).active, u.puncher # "none",
         u.puncher = "trying" => OthersAtPunch(r),
         u.raw = "open" /\ u.pc \in Returned =>
            \/ u.prepunching \in Armed \/ u.puncher = "probing" \/ u.relay \in Paths \/ u.failed
            \/ OthersAtPunch(r)
  PROVE  OwnedInv'
<1> DEFINE p == OthersAtPunch(r)
           v == [u EXCEPT !.active = @ - 1]
           t == MaybeDestroyRelayHandshake(v)
           S == Serving(h)
<1>1. RequestsOK /\ DOMAIN hs = Handshakes BY DEF OwnedInv
<1>2. reqs \in [Requests -> [pc: {"idle", "analyze", "reopen", "ping", "punch"}, h: 0..MaxHandshakes]]
  BY <1>1 DEF RequestsOK
<1>3. hs' = [hs EXCEPT ![h] = t] /\ reqs' = [reqs EXCEPT ![r] = Idle]
  BY Zenon DEF Finish, Set
<1>4. /\ hs'[h] = t /\ DOMAIN hs' = Handshakes /\ \A g \in Handshakes \ {h} : hs'[g] = hs[g]
  BY <1>1, <1>3, Zenon
<1>5. Idle \in [pc: {"idle", "analyze", "reopen", "ping", "punch"}, h: 0..MaxHandshakes] /\ Idle.pc = "idle"
  BY HandshakesAssumption DEF Idle
<1>6. /\ reqs' \in [Requests -> [pc: {"idle", "analyze", "reopen", "ping", "punch"}, h: 0..MaxHandshakes]]
      /\ reqs'[r] = Idle /\ DOMAIN reqs' = Requests /\ \A q \in Requests \ {r} : reqs'[q] = reqs[q]
  BY <1>2, <1>3, <1>5, Zenon
<1>7. r \in S BY DEF Serving
<1>8. Serving(h)' = S \ {r}
  BY <1>5, <1>6 DEF Serving
<1>9. IsFiniteSet(S) /\ Target(r).active = Cardinality(S) BY <1>1 DEF OwnedInv, Target
<1>10. /\ IsFiniteSet(S \ {r}) /\ Cardinality(S \ {r}) = Cardinality(S) - 1
       /\ Cardinality(S) \in Nat /\ Cardinality(S \ {r}) \in Nat
  BY <1>7, <1>9, FS_RemoveElement, FS_CardinalityType
<1>11. p \in BOOLEAN /\ (p => Cardinality(S \ {r}) # 0)
  <2>1. p => S \ {r} # {} BY DEF OthersAtPunch
  <2>2. QED BY <1>10, <2>1, FS_EmptySet DEF OthersAtPunch
<1>12. p <=> AtPunch(h)'
  <2>1. \A x \in S \ {r} : reqs'[x] = reqs[x] BY <1>6 DEF Serving
  <2>2. p <=> \E x \in S \ {r} : reqs'[x].pc = "punch" BY <2>1, Zenon DEF OthersAtPunch
  <2>3. QED BY <1>8, <2>2, Zenon DEF AtPunch
<1>13. u \in HandshakeType /\ u.active \in Int BY DEF SoundHandshake, Shapely, HandshakeType
<1>14. v \in HandshakeType
  <2> DEFINE n == u.active - 1
  <2>1. n \in Int BY <1>13
  <2>2. v = [u EXCEPT !.active = n] BY <1>13 DEF HandshakeType
  <2> HIDE DEF n, v
  <2>3. QED BY <1>13, <2>1, <2>2 DEF HandshakeType
<1>15. /\ v.pc = u.pc /\ v.emitted = u.emitted /\ v.raw = u.raw
       /\ v.connected = u.connected /\ v.relay = u.relay /\ v.hooked = u.hooked /\ v.puncher = u.puncher
       /\ v.prepunching = u.prepunching /\ v.recovery = u.recovery /\ v.failed = u.failed
       /\ v.active = u.active - 1 /\ v.clearing = u.clearing /\ v.aborted = u.aborted
  BY <1>13 DEF HandshakeType
<1> HIDE DEF v, p, S
<1>16. Shapely(v) /\ FiredSound(v) /\ AbortedSound(v)
  BY <1>14, <1>15 DEF SoundHandshake, FiredSound, AbortedSound, Shapely, OnceSound, HandedSound, OpenSound
<1>17. p => v.active > 0 BY <1>9, <1>10, <1>11, <1>15
<1>18. /\ v.puncher = "trying" => p
       /\ v.raw = "open" /\ v.pc \in Returned =>
             v.prepunching \in Armed \/ v.puncher = "probing" \/ v.relay \in Paths \/ v.failed \/ p
  BY <1>15 DEF p
<1>19. SoundHandshake(t) /\ Owned(t, p) /\ t.active = v.active /\ t.puncher = v.puncher
  BY <1>11, <1>16, <1>17, <1>18, MaybeDestroySound
<1> HIDE DEF t
<1>20. t.active = Cardinality(S \ {r}) /\ t.puncher # "none" BY <1>9, <1>10, <1>15, <1>19
<1>21. /\ hs'[h].puncher # "none" /\ SoundHandshake(hs'[h]) /\ Owned(hs'[h], p)
       /\ IsFiniteSet(Serving(h)') /\ hs'[h].active = Cardinality(Serving(h)')
  BY <1>4, <1>8, <1>10, <1>19, <1>20, Zenon
<1>22. reqs'[r].pc = "idle" BY <1>5, <1>6
<1>23. QED BY <1>4, <1>6, <1>11, <1>12, <1>21, <1>22, RequestFrame

(* A request goes on to its next await; at its punch it owns the stream.     *)
LEMMA WaitOwned ==
  ASSUME OwnedInv, NEW r \in Requests, reqs[r].pc \notin {"idle", "punch"},
         NEW h \in Handshakes, reqs[r].h = h,
         NEW pc \in {"reopen", "ping", "punch"}, Wait(r, pc),
         NEW t, hs'[h] = t, DOMAIN hs' = Handshakes,
         \A g \in Handshakes \ {h} : hs'[g] = hs[g],
         SoundHandshake(t), t.active = Target(r).active, t.puncher # "none",
         Owned(t, TRUE), pc # "punch" => Owned(t, AtPunch(h))
  PROVE  OwnedInv'
<1> DEFINE p == AtPunch(h) \/ pc = "punch"
<1>1. RequestsOK BY DEF OwnedInv
<1>2. reqs \in [Requests -> [pc: {"idle", "analyze", "reopen", "ping", "punch"}, h: 0..MaxHandshakes]]
  BY <1>1 DEF RequestsOK
<1>3. reqs' = [reqs EXCEPT ![r].pc = pc] BY DEF Wait
<1>4. reqs' \in [Requests -> [pc: {"idle", "analyze", "reopen", "ping", "punch"}, h: 0..MaxHandshakes]]
  BY <1>2, <1>3
<1>5. /\ reqs'[r].pc = pc /\ reqs'[r].h = h /\ DOMAIN reqs' = Requests
      /\ \A q \in Requests \ {r} : reqs'[q] = reqs[q]
  BY <1>2, <1>3
<1>6. Serving(h)' = Serving(h) BY <1>5 DEF Serving
<1>7. p <=> AtPunch(h)'
  <2>1. r \in Serving(h) BY DEF Serving
  <2>2. \A q \in Serving(h) : q # r => reqs'[q] = reqs[q] BY <1>5 DEF Serving
  <2>3. AtPunch(h)' <=> \E q \in Serving(h) : reqs'[q].pc = "punch" BY <1>6, Zenon DEF AtPunch
  <2>4. QED BY <1>5, <2>1, <2>2, <2>3, Zenon DEF AtPunch
<1>8. p \in BOOLEAN /\ Owned(t, p)
  <2>1. CASE pc = "punch"
    <3>1. p = TRUE BY <2>1
    <3>2. QED BY <3>1
  <2>2. CASE pc # "punch"
    <3>1. p = AtPunch(h) BY <2>2 DEF AtPunch
    <3>2. QED BY <2>2, <3>1
  <2>3. QED BY <2>1, <2>2
<1>9. IsFiniteSet(Serving(h)') /\ t.active = Cardinality(Serving(h)')
  <2>1. IsFiniteSet(Serving(h)) /\ Target(r).active = Cardinality(Serving(h)) BY <1>1 DEF OwnedInv, Target
  <2>2. QED BY <1>6, <2>1, Zenon
<1> HIDE DEF p
<1>10. QED BY <1>4, <1>5, <1>7, <1>8, <1>9, RequestFrame

(* What is left of a request once its puncher was looked at: it ends, or     *)
(* goes to its punch having cancelled the timer.                             *)
LEMMA DecideOwned ==
  ASSUME OwnedInv, NEW r \in Requests, reqs[r].pc \notin {"idle", "punch"},
         Decide(r, Target(r)), Target(r).puncher # "destroyed"
  PROVE  OwnedInv'
<1>1. PICK h \in Handshakes : reqs[r].h = h BY DEF OwnedInv, RequestsOK
<1> DEFINE s == hs[h]
           u == [s EXCEPT !.prepunching = "none"]
           p == AtPunch(h)
<1>2. Target(r) = s /\ DOMAIN hs = Handshakes BY <1>1, Zenon DEF Target, OwnedInv
<1>3. Live(s, p) /\ p \in BOOLEAN /\ SoundHandshake(s) /\ Owned(s, p) /\ s \in HandshakeType
  BY LiveHandshake
<1>4. s.puncher # "none" /\ s.puncher # "destroyed" BY <1>1, <1>2 DEF OwnedInv, RequestsOK
<1>5. s.pc \in Returned BY <1>3, <1>4 DEF SoundHandshake, Shapely, OnceSound
<1>6. s.active > 0
  <2>1. r \in Serving(h) BY <1>1 DEF Serving
  <2>2. IsFiniteSet(Serving(h)) /\ s.active = Cardinality(Serving(h)) BY DEF OwnedInv
  <2>3. Cardinality(Serving(h)) \in Nat /\ Cardinality(Serving(h)) # 0
    BY <2>1, <2>2, FS_CardinalityType, FS_EmptySet
  <2>4. QED BY <2>2, <2>3
<1>7. p => OthersAtPunch(r)
  <2>1. \A x \in Serving(h) : reqs[x].pc = "punch" => x # r OBVIOUS
  <2>2. QED BY <1>1, <2>1, Zenon DEF AtPunch, OthersAtPunch
<1>8. u \in HandshakeType BY <1>3 DEF HandshakeType
<1>9. /\ u.pc = s.pc /\ u.emitted = s.emitted /\ u.raw = s.raw /\ u.wants = s.wants
      /\ u.connected = s.connected /\ u.relay = s.relay /\ u.hooked = s.hooked /\ u.puncher = s.puncher
      /\ u.prepunching = "none" /\ u.recovery = s.recovery /\ u.failed = s.failed
      /\ u.active = s.active /\ u.clearing = s.clearing /\ u.aborted = s.aborted
  BY <1>3 DEF HandshakeType
<1>10. \/ Finish(r, s)
       \/ Finish(r, Abort(s))
       \/ Finish(r, IF u.relay = "none" THEN Abort(u) ELSE u)
       \/ /\ \E y \in IF u.puncher = "idle" THEN {"idle", "trying", "probing"} ELSE {u.puncher} :
               Set(reqs[r].h, [u EXCEPT !.puncher = y])
          /\ Wait(r, "punch")
  BY <1>2, Zenon DEF Decide
<1> HIDE DEF u, p, s
<1>11. SoundHandshake(u)
  BY <1>3, <1>5, <1>8, <1>9 DEF SoundHandshake, FiredSound, AbortedSound, Shapely, OnceSound, HandedSound,
                          OpenSound
<1>12. CASE Finish(r, s)
  <2>1. s.puncher = "trying" => OthersAtPunch(r) BY <1>3, <1>7 DEF Owned
  <2>2. s.raw = "open" /\ s.pc \in Returned =>
            \/ s.prepunching \in Armed \/ s.puncher = "probing" \/ s.relay \in Paths \/ s.failed
            \/ OthersAtPunch(r)
    BY <1>3, <1>7 DEF Owned
  <2>3. QED BY <1>1, <1>2, <1>3, <1>4, <1>12, <2>1, <2>2, FinishOwned
<1>13. ASSUME NEW v, SoundHandshake(v), v.puncher # "none", v.active = s.active, Finish(r, Abort(v))
       PROVE  OwnedInv'
  <2> DEFINE t == Abort(v)
  <2>1. Goes(v, DestroyPuncher(v), p) /\ DestroyPuncher(v).puncher = "destroyed"
        /\ (DestroyPuncher(v).raw = "open" => DestroyPuncher(v).relay \in Paths)
    BY <1>3, <1>13, DestroyPuncherGoes
  <2>2. t = DestroyPuncher(v) BY DEF Abort
  <2> HIDE DEF t
  <2>3. SoundHandshake(t) /\ t.active = v.active /\ t.puncher = "destroyed" /\ (t.raw = "open" => t.relay \in Paths)
    BY <2>1, <2>2 DEF Goes
  <2>4. Finish(r, t) BY <1>13 DEF t
  <2>5. QED BY <1>1, <1>2, <1>13, <2>3, <2>4, FinishOwned
<1>14. CASE Finish(r, IF u.relay = "none" THEN Abort(u) ELSE u)
  <2>1. CASE u.relay = "none"
    <3>1. Finish(r, Abort(u)) BY <1>14, <2>1, Zenon
    <3>2. QED BY <1>4, <1>9, <1>11, <1>13, <3>1
  <2>2. CASE u.relay # "none"
    <3>1. Finish(r, u) BY <1>14, <2>2, Zenon
    <3>2. u.raw = "open" => u.relay \in Paths
      BY <1>5, <1>8, <1>9, <1>11, <2>2 DEF SoundHandshake, Shapely, OpenSound, HandshakeType
    <3>3. u.puncher = "trying" => OthersAtPunch(r) BY <1>3, <1>7, <1>9 DEF Owned
    <3>4. QED BY <1>1, <1>2, <1>4, <1>9, <1>11, <3>1, <3>2, <3>3, FinishOwned
  <2>3. QED BY <2>1, <2>2
<1>15. ASSUME NEW y \in {"idle", "trying", "probing"}, Set(reqs[r].h, [u EXCEPT !.puncher = y]),
              Wait(r, "punch")
       PROVE  OwnedInv'
  <2> DEFINE t == [u EXCEPT !.puncher = y]
  <2>1. t \in HandshakeType BY <1>8 DEF HandshakeType
  <2>2. /\ t.pc = s.pc /\ t.emitted = s.emitted /\ t.raw = s.raw
        /\ t.connected = s.connected /\ t.relay = s.relay /\ t.hooked = s.hooked /\ t.puncher = y
        /\ t.prepunching = "none" /\ t.recovery = s.recovery /\ t.failed = s.failed
        /\ t.active = s.active /\ t.clearing = s.clearing /\ t.aborted = s.aborted
    BY <1>8, <1>9 DEF HandshakeType
  <2>3. hs'[h] = t /\ DOMAIN hs' = Handshakes /\ \A g \in Handshakes \ {h} : hs'[g] = hs[g]
    BY <1>1, <1>2, <1>15, Zenon DEF Set
  <2> HIDE DEF t
  <2>4. SoundHandshake(t) /\ Owned(t, TRUE)
    BY <1>3, <1>4, <1>5, <1>6, <2>1, <2>2
       DEF SoundHandshake, FiredSound, AbortedSound, Shapely, OnceSound, HandedSound, OpenSound, Owned
  <2>5. t.active = Target(r).active /\ t.puncher # "none" BY <1>2, <2>2
  <2>6. QED BY <1>1, <1>15, <2>3, <2>4, <2>5, WaitOwned
<1>16. CASE Finish(r, Abort(s)) BY <1>3, <1>4, <1>13, <1>16
<1>17. u.puncher \in {"idle", "trying", "probing"} BY <1>4, <1>8, <1>9 DEF HandshakeType
<1>18. QED BY <1>10, <1>12, <1>14, <1>15, <1>16, <1>17, Zenon

(* The steps of a request.                                                   *)
LEMMA RequestStepOwned ==
  ASSUME OwnedInv, NEW r \in Requests, RequestStep(r)
  PROVE  OwnedInv'
<1>0. reqs[r].pc # "idle"
  BY DEF RequestStep, PuncherGone, Analyzed, Reopened, Pinged, Punched, Resolves
<1>1. PICK h \in Handshakes : reqs[r].h = h BY <1>0 DEF OwnedInv, RequestsOK
<1> DEFINE s == hs[h]
           p == AtPunch(h)
<1>2. Target(r) = s /\ DOMAIN hs = Handshakes BY <1>1, Zenon DEF Target, OwnedInv
<1>3. Live(s, p) /\ p \in BOOLEAN /\ SoundHandshake(s) /\ Owned(s, p) /\ s \in HandshakeType
  BY LiveHandshake
<1>4. s.puncher # "none" BY <1>0, <1>1, <1>2 DEF OwnedInv, RequestsOK
<1> HIDE DEF s, p
<1>5. CASE PuncherGone(r)
  <2>1. s.puncher = "destroyed" /\ Finish(r, s) BY <1>2, <1>5, Zenon DEF PuncherGone
  <2>2. s.raw = "open" => s.relay \in Paths
    BY <1>3, <2>1 DEF SoundHandshake, Shapely, OpenSound, AbortedSound
  <2>3. QED BY <1>0, <1>1, <1>2, <1>3, <2>1, <2>2, FinishOwned
<1>6. ASSUME Finish(r, Abort(Target(r))) PROVE OwnedInv'
  <2> DEFINE t == Abort(s)
  <2>1. Goes(s, DestroyPuncher(s), p) /\ DestroyPuncher(s).puncher = "destroyed"
        /\ (DestroyPuncher(s).raw = "open" => DestroyPuncher(s).relay \in Paths)
    BY <1>3, <1>4, DestroyPuncherGoes
  <2>2. t = DestroyPuncher(s) BY DEF Abort
  <2>3. Finish(r, t) BY <1>2, <1>6
  <2> HIDE DEF t
  <2>4. SoundHandshake(t) /\ t.active = s.active /\ t.puncher = "destroyed" /\ (t.raw = "open" => t.relay \in Paths)
    BY <2>1, <2>2 DEF Goes
  <2>5. QED BY <1>0, <1>1, <1>2, <2>3, <2>4, FinishOwned
<1>7. ASSUME NEW pc \in {"reopen", "ping"}, reqs[r].pc # "punch", UNCHANGED hs, Wait(r, pc)
      PROVE  OwnedInv'
  <2>1. hs'[h] = s /\ DOMAIN hs' = Handshakes /\ \A g \in Handshakes \ {h} : hs'[g] = hs[g]
    BY <1>2, <1>7, Zenon DEF s
  <2>2. Owned(s, TRUE)
    <3>1. s.active > 0
      <4>1. r \in Serving(h) BY <1>0, <1>1 DEF Serving
      <4>2. IsFiniteSet(Serving(h)) /\ s.active = Cardinality(Serving(h)) BY DEF OwnedInv, s
      <4>3. Cardinality(Serving(h)) \in Nat /\ Cardinality(Serving(h)) # 0
        BY <4>1, <4>2, FS_CardinalityType, FS_EmptySet
      <4>4. QED BY <4>2, <4>3
    <3>2. QED BY <3>1 DEF Owned
  <2>3. Owned(s, AtPunch(h)) BY <1>3 DEF p
  <2>4. pc \in {"reopen", "ping", "punch"} /\ reqs[r].pc \notin {"idle", "punch"} BY <1>0, <1>7
  <2>5. QED BY <1>1, <1>2, <1>3, <1>4, <1>7, <2>1, <2>2, <2>3, <2>4, WaitOwned
<1>8. CASE Analyzed(r) \/ Reopened(r) \/ Pinged(r)
  <2>1. reqs[r].pc \notin {"idle", "punch"} /\ Target(r).puncher # "destroyed"
    BY <1>8 DEF Analyzed, Reopened, Pinged, Resolves
  <2>2. \/ Decide(r, Target(r))
        \/ Finish(r, Abort(Target(r)))
        \/ UNCHANGED hs /\ Wait(r, "ping")
        \/ UNCHANGED hs /\ Wait(r, "reopen")
    BY <1>8, Zenon DEF Analyzed, Reopened, Pinged, Stable
  <2>3. CASE Decide(r, Target(r)) BY <2>1, <2>3, DecideOwned
  <2>4. QED BY <1>6, <1>7, <2>1, <2>2, <2>3, Zenon
<1>9. CASE Punched(r)
  <2> DEFINE t == [s EXCEPT !.puncher = "probing"]
  <2>1. (s.puncher \in {"trying", "probing"} /\ Finish(r, t)) \/ Finish(r, Abort(Target(r)))
    BY <1>2, <1>9, Zenon DEF Punched
  <2>2. CASE s.puncher \in {"trying", "probing"} /\ Finish(r, t)
    <3>1. t \in HandshakeType BY <1>3 DEF HandshakeType
    <3>2. /\ t.pc = s.pc /\ t.emitted = s.emitted /\ t.raw = s.raw
          /\ t.connected = s.connected /\ t.relay = s.relay /\ t.hooked = s.hooked /\ t.puncher = "probing"
          /\ t.prepunching = s.prepunching /\ t.recovery = s.recovery /\ t.failed = s.failed
          /\ t.active = s.active /\ t.clearing = s.clearing /\ t.aborted = s.aborted
      BY <1>3 DEF HandshakeType
    <3> HIDE DEF t
    <3>3. SoundHandshake(t)
      BY <1>3, <2>2, <3>1, <3>2
         DEF SoundHandshake, FiredSound, AbortedSound, Shapely, OnceSound, HandedSound, OpenSound
    <3>4. QED BY <1>0, <1>1, <1>2, <2>2, <3>2, <3>3, FinishOwned
  <2>3. QED BY <1>6, <2>1, <2>2
<1>10. QED BY <1>5, <1>8, <1>9, Zenon DEF RequestStep

-----------------------------------------------------------------------------
(* Initially nothing was begun.                                              *)
LEMMA OwnedInvInit == ASSUME Init PROVE OwnedInv
<1>1. hs = [h \in Handshakes |-> Fresh] /\ reqs = [r \in Requests |-> Idle] BY Zenon DEF Init
<1>2. Idle \in [pc: {"idle", "analyze", "reopen", "ping", "punch"}, h: 0..MaxHandshakes] /\ Idle.pc = "idle"
  BY HandshakesAssumption DEF Idle
<1>3. RequestsOK BY <1>1, <1>2, Zenon DEF RequestsOK
<1>4. Fresh \in HandshakeType BY DEF Fresh, HandshakeType, Stage
<1>5. /\ Fresh.pc = "unused" /\ Fresh.emitted = 0 /\ Fresh.raw = "none" /\ Fresh.prepunching = "none"
      /\ ~Fresh.connected /\ Fresh.relay = "none" /\ ~Fresh.hooked /\ Fresh.puncher = "none"
      /\ ~Fresh.recovery /\ Fresh.active = 0 /\ Fresh.clearing = "none" /\ ~Fresh.aborted
  BY DEF Fresh
<1>6. ASSUME NEW h \in Handshakes
      PROVE  /\ SoundHandshake(hs[h]) /\ Owned(hs[h], AtPunch(h))
             /\ IsFiniteSet(Serving(h)) /\ hs[h].active = Cardinality(Serving(h))
  <2>1. hs[h] = Fresh BY <1>1, Zenon
  <2>2. Serving(h) = {} BY <1>1, <1>2 DEF Serving
  <2>3. SoundHandshake(Fresh) /\ Owned(Fresh, AtPunch(h))
    BY <1>4, <1>5 DEF SoundHandshake, FiredSound, AbortedSound, Shapely, OnceSound, HandedSound, OpenSound,
                      Owned, Returned, Paths
  <2>4. IsFiniteSet({}) /\ Cardinality({}) = 0 BY FS_EmptySet
  <2>5. QED BY <1>5, <2>1, <2>2, <2>3, <2>4, Zenon
<1>7. DOMAIN hs = Handshakes BY <1>1, Zenon
<1>8. QED BY <1>3, <1>6, <1>7, Zenon DEF OwnedInv

(* Every step of the server keeps the invariant.                             *)
LEMMA OwnedInvStep == ASSUME TableInv, OwnedInv, [Next]_vars PROVE OwnedInv'
<1>1. CASE \E h \in Handshakes, k \in Keys : AddHandshake(h, k)
  BY <1>1, AddHandshakeOwned
<1>2. ASSUME NEW h \in Handshakes,
             \/ HandshakeStep(h) \/ TimerStep(h)
             \/ DirectTraffic(h) \/ RawError(h) \/ RawClosed(h)
             \/ RelayPaired(h) \/ RelayFailed(h) \/ RelayLost(h) \/ UpgradeSettled(h)
             \/ ProbesEnd(h)
      PROVE  OwnedInv'
  BY <1>2, HandshakeStepOwned, EventOwned DEF TimerStep
<1>3. CASE \E r \in Requests, h \in Handshakes : HolepunchRequest(r, h)
  BY <1>3, HolepunchRequestOwned
<1>4. CASE \E r \in Requests : RequestStep(r)
  BY <1>4, RequestStepOwned
<1>5. CASE Suspend \/ CloseClears
  BY <1>5, ClearAllOwned DEF Suspend, CloseClears
<1>6. CASE Resume \/ Close \/ Closed \/ UNCHANGED vars
  <2>1. UNCHANGED <<hs, reqs>> BY <1>6, Zenon DEF Resume, Close, Closed, vars
  <2>2. DOMAIN hs' = Handshakes BY <2>1 DEF OwnedInv
  <2>3. QED BY <2>1, <2>2, OwnedFrame
<1>7. QED BY <1>1, <1>2, <1>3, <1>4, <1>5, <1>6, Zenon DEF Next

(* What the invariant says of the stream.                                    *)
LEMMA OwnedInvMeans == OwnedInv => OneConnection /\ HandoverIsFinal /\ StreamHasOwner
<1> SUFFICES ASSUME OwnedInv, NEW h \in Handshakes
             PROVE  /\ hs[h].emitted <= 1
                    /\ hs[h].raw = "given" => /\ hs[h].prepunching # "onabort"
                                              /\ ~(hs[h].hooked /\ hs[h].puncher # "destroyed")
                    /\ hs[h].raw = "open" /\ hs[h].pc \in Returned =>
                         \/ hs[h].prepunching \in {"onabort", "destroy"} \/ hs[h].active > 0
                         \/ hs[h].puncher = "probing" \/ hs[h].relay \in {"pairing", "paired"}
                         \/ hs[h].recovery
  BY Zenon DEF OneConnection, HandoverIsFinal, StreamHasOwner
<1>1. SoundHandshake(hs[h]) /\ Owned(hs[h], AtPunch(h)) BY DEF OwnedInv
<1>2. QED BY <1>1 DEF SoundHandshake, Shapely, OnceSound, HandedSound, Owned, Armed, Paths

(* The invariant holds throughout.                                           *)
LEMMA OwnedInvHolds == Spec => []OwnedInv
<1>1. Init => TableInv /\ OwnedInv BY TableInvInit, OwnedInvInit
<1>2. TableInv /\ OwnedInv /\ [Next]_vars => TableInv' /\ OwnedInv' BY TableInvStep, OwnedInvStep
<1>3. QED BY <1>1, <1>2, PTL DEF Spec

(* A handshake makes at most one 'connection' event, however the relay's     *)
(* 'data', hs.onsocket and the server's life interleave, for any number of   *)
(* handshakes, requests and suspensions.                                     *)
THEOREM OneConnectionHolds == Spec => []OneConnection
BY OwnedInvHolds, OwnedInvMeans, PTL

(* Nothing that is still armed calls onabort once hs.rawStream is null.      *)
THEOREM HandoverIsFinalHolds == Spec => []HandoverIsFinal
BY OwnedInvHolds, OwnedInvMeans, PTL

(* The raw stream of a handshake that was returned is never left open with   *)
(* nobody to end it: each early return of maybeDestroyRelayHandshake, and    *)
(* each cancelled timer, leaves another owner.                               *)
THEOREM StreamHasOwnerHolds == Spec => []StreamHasOwner
BY OwnedInvHolds, OwnedInvMeans, PTL
=============================================================================
