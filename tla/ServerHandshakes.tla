-------------------------- MODULE ServerHandshakes --------------------------
(***************************************************************************)
(* The handshake table of a listening server (lib/server.js).              *)
(*                                                                         *)
(* A handshake message makes _addHandshake() claim a slot of _holepunches  *)
(* and run through five awaits, at each of which the server may be         *)
(* suspended, resumed or closed. What the handshake acquires on the way (a *)
(* raw stream, a relay pairing, a holepuncher, timers) has to end either   *)
(* in one 'connection' event or in a cleared slot. Holepunch requests      *)
(* address a handshake by its slot number and have awaits of their own.    *)
(*                                                                         *)
(* Abstracted: addresses, keys and payload contents (a request carries the *)
(* handshake whose secret encrypted it), the clock (a timer that is armed  *)
(* may fire), the bookkeeping of rounds and tokens, the statistics. The    *)
(* raw stream's `destroyed` is true from its 'close' event on.             *)
(***************************************************************************)
EXTENDS Naturals, Sequences, FiniteSets

CONSTANTS Keys,          \* noise messages, the keys of _connects
          Requests,      \* holepunch requests that may be served at once
          Relaying,      \* some side gives a relayThrough
          Punching,      \* the server is behind a NAT and may punch
          MaxHandshakes, \* bound on _addHandshake() calls
          MaxSuspends    \* bound on suspend() calls

ASSUME HandshakesAssumption == /\ MaxHandshakes \in Nat /\ MaxSuspends \in Nat
                               /\ Relaying \in BOOLEAN /\ Punching \in BOOLEAN

VARIABLES closing,     \* close(): not called, called, table cleared, 'close' emitted
          suspended,
          suspends,    \* number of suspend() calls so far
          holepunches, \* _holepunches: handshake numbers, 0 for null
          connects,    \* _connects: handshake of a noise message, 0 for none
          hs,          \* the handshake objects
          reqs         \* the _onpeerholepunch() calls under way

vars == <<closing, suspended, suspends, holepunches, connects, hs, reqs>>

Handshakes == 1..MaxHandshakes

(* Awaiting stages of _addHandshake(), then what became of its promise. *)
Awaiting == {"recv", "firewall", "local", "send", "lan"}
Returned == {"returned", "answered", "refused"}

Handshake == [
  pc:       {"unused", "failed"} \cup Awaiting \cup Returned,
  key:      Keys \cup {0},
  id:       0..MaxHandshakes,
  raw:      {"none", "open", "closing", "closed", "given"}, \* given: hs.rawStream = null again
  connected: BOOLEAN,                                       \* raw stream connected through the relay
  emitted:  0..2,                                           \* 'connection' events
  clearing: {"none", "armed", "spent"},
  prepunching: {"none", "onabort", "destroy", "spent"},     \* what the timer will call; fired or cancelled
  puncher:  {"none", "idle", "trying", "probing", "destroyed"},
  hooked:   BOOLEAN,                                        \* puncher.onabort is not noop
  wants:    BOOLEAN,                                        \* puncher.remoteHolepunching
  aborted:  BOOLEAN,
  active:   0..Cardinality(Requests),                       \* activeHolepunchRequests
  relay:    {"none", "token", "pairing", "paired"},
  failed:   BOOLEAN,                                        \* relayFailedAt # null
  late:     BOOLEAN,                                        \* relayRecoveryWait passed since
  recovery: BOOLEAN]                                        \* relayRecoveryTimeout # null

Fresh == [pc |-> "unused", key |-> 0, id |-> 0, raw |-> "none", connected |-> FALSE,
          emitted |-> 0, clearing |-> "none", prepunching |-> "none", puncher |-> "none",
          hooked |-> FALSE, wants |-> FALSE, aborted |-> FALSE, active |-> 0,
          relay |-> "none", failed |-> FALSE, late |-> FALSE, recovery |-> FALSE]

Idle == [pc |-> "idle", h |-> 0]

Init == /\ closing = "no"
        /\ suspended = FALSE
        /\ suspends = 0
        /\ holepunches = <<>>
        /\ connects = [k \in Keys |-> 0]
        /\ hs = [h \in Handshakes |-> Fresh]
        /\ reqs = [r \in Requests |-> Idle]

Stopped == closing # "no" \/ suspended

(* The router entry is gone after _gc(). *)
Reachable == closing \in {"no", "called"}

InTable(h) == hs[h].id \in 1..Len(holepunches) /\ holepunches[hs[h].id] = h

-----------------------------------------------------------------------------
(* Steps on one handshake object; every one is a call of the code.          *)

ClearLater(s) == IF s.clearing = "none" THEN [s EXCEPT !.clearing = "armed"] ELSE s

ClearRelayRecovery(s) == [s EXCEPT !.recovery = FALSE, !.failed = FALSE, !.late = FALSE]

DestroyRaw(s) == IF s.raw = "open" THEN [s EXCEPT !.raw = "closing"] ELSE s

Silence(s) ==  \* puncher.onabort = noop; puncher.destroy()
  IF s.puncher = "none" THEN s ELSE [s EXCEPT !.hooked = FALSE, !.puncher = "destroyed"]

(* The onabort of a handshake without a direct connection. *)
OnAbort(s) ==
  LET t == Silence([ClearRelayRecovery(s) EXCEPT !.aborted = TRUE, !.prepunching = "none"])
  IN  IF t.raw = "closed" THEN ClearLater(t)
      ELSE IF t.relay = "none" THEN DestroyRaw(t)
      ELSE t

(* Holepuncher.destroy() on the side that never connects by itself. *)
DestroyPuncher(s) ==
  IF s.puncher \in {"none", "destroyed"} THEN s
  ELSE IF s.hooked THEN OnAbort([s EXCEPT !.puncher = "destroyed"])
  ELSE [s EXCEPT !.puncher = "destroyed"]

(* Mutant: a stream that is up through the relay is announced again.        *)
OnSocketAlwaysEmits(s) ==
  IF s.raw = "given"
  THEN s
  ELSE Silence([ClearLater(ClearRelayRecovery(s)) EXCEPT
                  !.prepunching = "none", !.emitted = @ + 1, !.raw = "given"])

(* Mutant: the puncher keeps its onabort.                                   *)
OnSocketKeepsPuncher(s) ==
  IF s.raw = "given"
  THEN s
  ELSE [ClearLater(ClearRelayRecovery(s)) EXCEPT
          !.prepunching = "none",
          !.emitted = IF s.connected THEN @ ELSE @ + 1,
          !.raw = "given"]

(* hs.onsocket: the raw stream becomes the application's. *)
OnSocket(s) ==
  IF s.raw = "given"
  THEN s
  ELSE Silence([ClearLater(ClearRelayRecovery(s)) EXCEPT
                  !.prepunching = "none",
                  !.emitted = IF s.connected THEN @ ELSE @ + 1,
                  !.raw = "given"])

(* Mutant: an idle puncher is taken for one that still works.               *)
MaybeDestroyNoRecovery(s) ==
  IF ~s.failed \/ s.raw \in {"none", "given", "closed"} THEN s
  ELSE IF s.aborted \/ s.puncher = "none" THEN DestroyRaw(s)
  ELSE s

MaybeDestroyRelayHandshake(s) ==
  IF ~s.failed \/ s.raw \in {"none", "given", "closed"} THEN s
  ELSE IF s.aborted THEN DestroyRaw(s)
  ELSE IF s.prepunching # "none" \/ s.active > 0 \/ s.puncher \in {"trying", "probing"} THEN s
  ELSE IF s.puncher = "none" \/ s.late THEN DestroyRaw(s)
  ELSE [s EXCEPT !.recovery = TRUE]

DestroyRelayConnection(s) == [s EXCEPT !.relay = "none"]

RelayOnAbort(s) ==
  MaybeDestroyRelayHandshake([DestroyRelayConnection(s) EXCEPT !.failed = TRUE, !.late = FALSE])

SetupHolepuncher(s) ==
  IF s.puncher # "none" THEN s ELSE [s EXCEPT !.puncher = "idle", !.hooked = TRUE]

Set(h, s) == hs' = [hs EXCEPT ![h] = s]

ServerUnchanged == UNCHANGED <<closing, suspended, suspends>>
TableUnchanged == UNCHANGED <<holepunches, connects>>
OnlyHandshakes == ServerUnchanged /\ TableUnchanged /\ UNCHANGED reqs

-----------------------------------------------------------------------------
(* _onpeerhandshake() of a message not seen before and the synchronous head *)
(* of _addHandshake(): the first free slot, or one more.                    *)
AddHandshake(h, k) ==
  LET free == {i \in 1..Len(holepunches) : holepunches[i] = 0}
      id == IF free = {} THEN Len(holepunches) + 1
                         ELSE CHOOSE i \in free : \A j \in free : i <= j
  IN  /\ Reachable
      /\ connects[k] = 0
      /\ hs[h].pc = "unused"
      /\ \A g \in 1..(h - 1) : hs[g].pc # "unused"
      /\ holepunches' = [i \in 1..(IF free = {} THEN id ELSE Len(holepunches)) |->
                           IF i = id THEN h ELSE holepunches[i]]
      /\ connects' = [connects EXCEPT ![k] = h]
      /\ Set(h, [Fresh EXCEPT !.pc = "recv", !.key = k, !.id = id])
      /\ ServerUnchanged /\ UNCHANGED reqs

Fail(s) == ClearLater([s EXCEPT !.pc = "failed"])

(* handshake.recv() resolved or threw. *)
Received(h) ==
  /\ hs[h].pc = "recv"
  /\ \/ Set(h, Fail(hs[h]))
     \/ ~Stopped /\ Set(h, [hs[h] EXCEPT !.pc = "firewall"])
  /\ OnlyHandshakes

(* The application's firewall() answered. *)
Firewalled(h) ==
  /\ hs[h].pc = "firewall"
  /\ \/ Set(h, Fail(hs[h]))
     \/ ~Stopped /\ Set(h, [hs[h] EXCEPT !.pc = "local"])
  /\ OnlyHandshakes

(* Local addresses are known: the raw stream, unless the peer is refused by *)
(* version, and the token of our relay, if we have one.                     *)
Localized(h) ==
  /\ hs[h].pc = "local"
  /\ \/ Stopped /\ Set(h, Fail(hs[h]))
     \/ /\ ~Stopped
        /\ \E raw \in {"none", "open"}, relay \in IF Relaying THEN {"none", "token"} ELSE {"none"} :
             Set(h, [hs[h] EXCEPT !.pc = "send", !.raw = raw, !.relay = relay])
  /\ OnlyHandshakes

(* What _addHandshake() leaves behind: an open server, or one that never    *)
(* punches, only waits; the others get a puncher.                           *)
WaitPassively(s) == [s EXCEPT !.prepunching = "onabort", !.pc = "returned"]

WaitForPeer(s) ==
  IF Punching THEN [SetupHolepuncher(s) EXCEPT !.prepunching = "destroy", !.pc = "returned"]
              ELSE WaitPassively(s)

(* _relayConnection(): the raw stream is offered to the relay for pairing.  *)
StartRelay(s) == [s EXCEPT !.relay = "pairing"]

(* handshake.send() resolved or threw. *)
Sent(h) ==
  LET s == hs[h]
      paths == (IF Relaying THEN {StartRelay(s)} ELSE {})
                 \cup (IF s.relay = "token" THEN {} ELSE {s})
  IN  /\ s.pc = "send"
      /\ \/ Set(h, Fail(DestroyRaw(s)))
         \/ /\ ~Stopped
            /\ s.raw = "none"
            /\ Set(h, ClearLater([s EXCEPT !.pc = "returned"]))
         \/ /\ ~Stopped
            /\ s.raw # "none"
            /\ \/ Set(h, OnSocket([s EXCEPT !.pc = "returned"]))
               \/ \E t \in paths : Set(h, [t EXCEPT !.pc = "lan"]) \/ Set(h, WaitForPeer(t))
      /\ OnlyHandshakes

(* Local addresses for the same-LAN shortcut. With a match the server does  *)
(* not look again whether it was stopped.                                   *)
LanChecked(h) ==
  LET s == hs[h]
  IN  /\ s.pc = "lan"
      /\ \/ Set(h, WaitPassively(SetupHolepuncher(s)))
         \/ Stopped /\ Set(h, Fail(s))
         \/ ~Stopped /\ Set(h, WaitForPeer(s))
      /\ OnlyHandshakes

(* The _onpeerhandshake() call that awaited the handshake goes on. *)
Answer(h) ==
  /\ hs[h].pc = "returned"
  /\ Set(h, [hs[h] EXCEPT !.pc = IF Stopped THEN "refused" ELSE "answered"])
  /\ OnlyHandshakes

-----------------------------------------------------------------------------
(* The raw stream. *)

(* Traffic from the peer itself reaches the stream's firewall hook. The     *)
(* peer learns the stream's id from the answer.                             *)
DirectTraffic(h) ==
  /\ hs[h].pc = "answered"
  /\ hs[h].raw = "open"
  /\ Set(h, OnSocket(hs[h]))
  /\ OnlyHandshakes

(* The stream fails: autoDestroy, and 'close' follows. *)
RawError(h) ==
  /\ hs[h].raw = "open"
  /\ Set(h, DestroyRaw(DestroyPuncher(hs[h])))
  /\ OnlyHandshakes

(* Mutant: nobody clears the slot when the stream closes.                   *)
RawClosedKeepsSlot(h) ==
  /\ hs[h].raw = "closing"
  /\ Set(h, [Silence(ClearRelayRecovery(hs[h])) EXCEPT !.raw = "closed"])
  /\ OnlyHandshakes

(* 'close' of a stream that was not handed over: onrawstreamclose, the      *)
(* listener of onabort, the listener of a paired relay.                     *)
RawClosed(h) ==
  LET s == [ClearRelayRecovery(hs[h]) EXCEPT !.raw = "closed"]
      t == IF closing = "no" THEN ClearLater(Silence(s))
           ELSE IF s.aborted THEN ClearLater(s) ELSE s
  IN  /\ hs[h].raw = "closing"
      /\ Set(h, IF t.relay = "paired" THEN DestroyRelayConnection(t) ELSE t)
      /\ OnlyHandshakes

-----------------------------------------------------------------------------
(* The relay. *)

(* 'data' of the pairing: the relay connected both sides. *)
RelayPaired(h) ==
  LET s == hs[h]
  IN  /\ s.relay = "pairing"
      /\ Set(h, IF s.raw = "given"
                THEN RelayOnAbort(s)
                ELSE [s EXCEPT !.relay = "paired", !.prepunching = "none",
                               !.connected = TRUE, !.emitted = @ + 1])
      /\ OnlyHandshakes

(* The pairing timed out or failed. *)
RelayFailed(h) ==
  /\ hs[h].relay = "pairing"
  /\ Set(h, RelayOnAbort(hs[h]))
  /\ OnlyHandshakes

(* The relay went away after it was paired. *)
RelayLost(h) ==
  /\ hs[h].relay = "paired"
  /\ Set(h, RelayOnAbort(hs[h]))
  /\ OnlyHandshakes

(* Data came over the direct path, or the upgraded stream closed. *)
UpgradeSettled(h) ==
  /\ hs[h].raw = "given"
  /\ hs[h].relay = "paired"
  /\ Set(h, DestroyRelayConnection(hs[h]))
  /\ OnlyHandshakes

(* relayRecoveryWait has passed since the relay failed. *)
RecoveryDue(h) ==
  /\ hs[h].failed /\ ~hs[h].late
  /\ Set(h, [hs[h] EXCEPT !.late = TRUE])
  /\ OnlyHandshakes

RecoveryTimer(h) ==
  /\ hs[h].recovery /\ hs[h].late
  /\ Set(h, MaybeDestroyRelayHandshake([hs[h] EXCEPT !.recovery = FALSE]))
  /\ OnlyHandshakes

-----------------------------------------------------------------------------
(* Timers and the puncher's own end. *)

(* The timer's handle stays in hs.prepunching unless onabort resets it. *)
PrepunchTimer(h) ==
  LET s == [hs[h] EXCEPT !.prepunching = "spent"]
  IN  /\ hs[h].prepunching \in {"onabort", "destroy"}
      /\ Set(h, IF hs[h].prepunching = "onabort" THEN OnAbort(s) ELSE DestroyPuncher(s))
      /\ OnlyHandshakes

(* The probes run out of tries: _autoDestroy(). *)
ProbesEnd(h) ==
  /\ hs[h].puncher = "probing"
  /\ Set(h, DestroyPuncher(hs[h]))
  /\ OnlyHandshakes

(* Trailing nulls are popped. *)
Trim(t) ==
  LET used == {i \in 1..Len(t) : t[i] # 0}
  IN  SubSeq(t, 1, IF used = {} THEN 0 ELSE CHOOSE i \in used : \A j \in used : j <= i)

(* Mutant: a late _clear() does not look whose slot it is by now.           *)
ClearUnchecked(h) ==
  /\ Set(h, [ClearRelayRecovery(hs[h]) EXCEPT !.clearing = "spent"])
  /\ IF hs[h].id \in 1..Len(holepunches)
     THEN /\ holepunches' = Trim([holepunches EXCEPT ![hs[h].id] = 0])
          /\ connects' = [connects EXCEPT ![hs[h].key] = 0]
     ELSE TableUnchanged

(* _clear(): only the handshake that still has its slot gives it up.        *)
Clear(h) ==
  /\ Set(h, [ClearRelayRecovery(hs[h]) EXCEPT !.clearing = "spent"])
  /\ IF InTable(h)
     THEN /\ holepunches' = Trim([holepunches EXCEPT ![hs[h].id] = 0])
          /\ connects' = [connects EXCEPT ![hs[h].key] = 0]
     ELSE TableUnchanged

(* The timer of _clearLater(). *)
ClearTimer(h) ==
  /\ hs[h].clearing = "armed"
  /\ Clear(h)
  /\ ServerUnchanged /\ UNCHANGED reqs

-----------------------------------------------------------------------------
(* Holepunch requests. *)

(* _abort(): the answer tells the peer to give up. *)
Abort(s) == DestroyPuncher(s)

(* A request of the peer of handshake h names h's slot and is encrypted     *)
(* with h's secret. It is dropped when the slot is empty or another's, and  *)
(* aborts the handshake when it carries an error.                           *)
HolepunchRequest(r, h) ==
  /\ Reachable
  /\ reqs[r].pc = "idle"
  /\ hs[h].pc = "answered"
  /\ ~Stopped /\ InTable(h) /\ hs[h].puncher # "none"
  /\ \/ Set(h, Abort(hs[h])) /\ UNCHANGED reqs
     \/ /\ \E wants \in BOOLEAN : Set(h, [hs[h] EXCEPT !.wants = wants, !.active = @ + 1])
        /\ reqs' = [reqs EXCEPT ![r] = [pc |-> "analyze", h |-> h]]
  /\ ServerUnchanged /\ TableUnchanged

Wait(r, pc) == reqs' = [reqs EXCEPT ![r].pc = pc]

(* The request ends with s; the finally block counts it and looks whether   *)
(* the relay failed meanwhile.                                              *)
Finish(r, s) ==
  /\ Set(reqs[r].h, MaybeDestroyRelayHandshake([s EXCEPT !.active = @ - 1]))
  /\ reqs' = [reqs EXCEPT ![r] = Idle]

(* What is left of the request after analysis and ping: punch if the peer   *)
(* wants to, unless the application declines or the budget of random        *)
(* punches is spent; then a relayed handshake is parked.                    *)
Decide(r, s) ==
  LET u == [s EXCEPT !.prepunching = "none"]
  IN  IF ~s.wants
      THEN Finish(r, s)
      ELSE \/ Finish(r, Abort(s))
           \/ Finish(r, IF u.relay = "none" THEN Abort(u) ELSE u)
           \/ /\ \E p \in IF u.puncher = "idle" THEN {"idle", "trying", "probing"}
                                               ELSE {u.puncher} :
                   Set(reqs[r].h, [u EXCEPT !.puncher = p])
              /\ Wait(r, "punch")

(* The handshake a request is about. *)
Target(r) == hs[reqs[r].h]

(* What request r awaits resolved, and finds the puncher destroyed. *)
PuncherGone(r) ==
  /\ reqs[r].pc # "idle"
  /\ Target(r).puncher = "destroyed"
  /\ Finish(r, Target(r))
  /\ ServerUnchanged /\ TableUnchanged

(* What request r awaits at pc resolved, and it goes on. *)
Resolves(r, pc) ==
  /\ reqs[r].pc = pc
  /\ Target(r).puncher # "destroyed"
  /\ ServerUnchanged /\ TableUnchanged

(* With a stable analysis the server may first answer with a quick ping. *)
Stable(r) == Decide(r, Target(r)) \/ (UNCHANGED hs /\ Wait(r, "ping"))

Analyzed(r) ==
  /\ Resolves(r, "analyze")
  /\ \/ Stable(r)
     \/ ~Target(r).wants /\ UNCHANGED hs /\ Wait(r, "reopen")

Reopened(r) ==
  /\ Resolves(r, "reopen")
  /\ Stable(r) \/ Finish(r, Abort(Target(r)))

Pinged(r) == Resolves(r, "ping") /\ Decide(r, Target(r))

(* punch() resolved: probes are running, or nothing can be punched. *)
Punched(r) ==
  /\ Resolves(r, "punch")
  /\ \/ /\ Target(r).puncher \in {"trying", "probing"}
        /\ Finish(r, [Target(r) EXCEPT !.puncher = "probing"])
     \/ /\ Target(r).puncher \in {"idle", "trying"}
        /\ Finish(r, Abort(Target(r)))

-----------------------------------------------------------------------------
(* The server's life. *)

Cancel(timer) == IF timer = "none" THEN "none" ELSE "spent"

Drop(s) ==
  LET t == DestroyPuncher(s)
  IN  DestroyRaw([ClearRelayRecovery(t) EXCEPT !.clearing = Cancel(@),
                                               !.prepunching = Cancel(@)])

ClearAll ==
  /\ hs' = [h \in Handshakes |-> IF InTable(h) THEN Drop(hs[h]) ELSE hs[h]]
  /\ holepunches' = <<>>
  /\ connects' = [k \in Keys |-> 0]
  /\ UNCHANGED reqs

Suspend ==
  /\ suspends < MaxSuspends
  /\ suspended' = TRUE
  /\ suspends' = suspends + 1
  /\ ClearAll
  /\ UNCHANGED closing

Resume ==
  /\ suspended
  /\ suspended' = FALSE
  /\ UNCHANGED <<closing, suspends, hs, reqs>> /\ TableUnchanged

Close ==
  /\ closing = "no"
  /\ closing' = "called"
  /\ UNCHANGED <<suspended, suspends, hs, reqs>> /\ TableUnchanged

(* _close() after the await of _listening: _gc() and _clearAll(). *)
CloseClears ==
  /\ closing = "called"
  /\ closing' = "cleared"
  /\ ClearAll
  /\ UNCHANGED <<suspended, suspends>>

(* The announcer stopped; 'close' is emitted. *)
Closed ==
  /\ closing = "cleared"
  /\ closing' = "closed"
  /\ UNCHANGED <<suspended, suspends, hs, reqs>> /\ TableUnchanged

-----------------------------------------------------------------------------
HandshakeStep(h) == Received(h) \/ Firewalled(h) \/ Localized(h) \/ Sent(h)
                      \/ LanChecked(h) \/ Answer(h)

TimerStep(h) == PrepunchTimer(h) \/ RecoveryDue(h) \/ RecoveryTimer(h) \/ ClearTimer(h)

RequestStep(r) == PuncherGone(r) \/ Analyzed(r) \/ Reopened(r) \/ Pinged(r) \/ Punched(r)

Next ==
  \/ \E h \in Handshakes, k \in Keys : AddHandshake(h, k)
  \/ \E h \in Handshakes :
       \/ HandshakeStep(h) \/ TimerStep(h)
       \/ DirectTraffic(h) \/ RawError(h) \/ RawClosed(h)
       \/ RelayPaired(h) \/ RelayFailed(h) \/ RelayLost(h) \/ UpgradeSettled(h)
       \/ ProbesEnd(h)
  \/ \E r \in Requests, h \in Handshakes : HolepunchRequest(r, h)
  \/ \E r \in Requests : RequestStep(r)
  \/ Suspend \/ Resume \/ Close \/ CloseClears \/ Closed

Spec == Init /\ [][Next]_vars

(***************************************************************************)
(* What the event loop guarantees: promises settle, armed timers fire,     *)
(* destroyed streams close, probes and the pairing have a deadline, and    *)
(* close() goes on. Nothing is assumed of the peer, of a paired relay or   *)
(* of the application.                                                     *)
(***************************************************************************)
Fairness ==
  /\ \A h \in Handshakes :
       /\ WF_vars(HandshakeStep(h))
       /\ WF_vars(PrepunchTimer(h))
       /\ WF_vars(RecoveryDue(h))
       /\ WF_vars(RecoveryTimer(h))
       /\ WF_vars(ClearTimer(h))
       /\ WF_vars(RawClosed(h))
       /\ WF_vars(RelayFailed(h))
       /\ WF_vars(ProbesEnd(h))
  /\ \A r \in Requests : WF_vars(RequestStep(r))
  /\ WF_vars(CloseClears) /\ WF_vars(Closed)

FairSpec == Spec /\ Fairness

-----------------------------------------------------------------------------
(* Properties. *)

(* Every field has its type; in particular a handshake never makes a third  *)
(* connection and never has more requests under way than there are.         *)
TypeOK ==
  /\ closing \in {"no", "called", "cleared", "closed"}
  /\ suspended \in BOOLEAN
  /\ suspends \in 0..MaxSuspends
  /\ holepunches \in Seq(0..MaxHandshakes) /\ Len(holepunches) <= MaxHandshakes
  /\ connects \in [Keys -> 0..MaxHandshakes]
  /\ \A h \in Handshakes : hs[h] \in Handshake
  /\ \A r \in Requests : reqs[r] \in [pc: {"idle", "analyze", "reopen", "ping", "punch"},
                                      h: 0..MaxHandshakes]

(* The two indexes of the handshakes agree: a noise message is known        *)
(* (_connects) exactly when its handshake holds its slot (_holepunches), so *)
(* no late _clear() of a handshake that lost its slot to a suspend() frees  *)
(* a slot that was claimed again, or forgets a message that came again.     *)
TablesAgree ==
  /\ \A k \in Keys : connects[k] # 0 => hs[connects[k]].key = k /\ InTable(connects[k])
  /\ \A i \in 1..Len(holepunches) :
       holepunches[i] # 0 => hs[holepunches[i]].id = i
                              /\ connects[hs[holepunches[i]].key] = holepunches[i]
  /\ holepunches # <<>> => holepunches[Len(holepunches)] # 0

(* A handshake makes at most one 'connection' event, however the relayed    *)
(* and the direct path race (the relay's 'data', hs.onsocket).              *)
OneConnection == \A h \in Handshakes : hs[h].emitted <= 1

(* Once the raw stream was handed over (hs.rawStream = null), nothing that  *)
(* is still armed calls onabort, which reads hs.rawStream.destroyed.        *)
HandoverIsFinal ==
  \A h \in Handshakes :
    hs[h].raw = "given" =>
      /\ hs[h].prepunching # "onabort"
      /\ ~(hs[h].hooked /\ hs[h].puncher # "destroyed")

(* An open raw stream of a handshake that was returned always has somebody  *)
(* who will end it: a timer, a request under way, running probes, a relay,  *)
(* the relay's recovery timer. It is what each early return of              *)
(* maybeDestroyRelayHandshake relies on.                                    *)
StreamHasOwner ==
  \A h \in Handshakes :
    hs[h].raw = "open" /\ hs[h].pc \in Returned =>
      \/ hs[h].prepunching \in {"onabort", "destroy"}
      \/ hs[h].active > 0
      \/ hs[h].puncher = "probing"
      \/ hs[h].relay \in {"pairing", "paired"}
      \/ hs[h].recovery

(* A slot is not held for ever: a handshake whose requests do not overlap   *)
(* without end leaves the table, or is on a relay that is up                *)
(* (_clearLater() is reached on every path).                                *)
SlotsAreFreed ==
  \A h \in Handshakes :
    []<>(hs[h].active = 0) => []<>(~InTable(h) \/ hs[h].relay = "paired")

(* The time a handshake is given to recover from the loss of its relay is   *)
(* anchored to the loss, "so requests cannot extend it": once it is over    *)
(* the raw stream is destroyed or handed over, whatever the peer sends.     *)
(* Not a property of the code: requests that overlap do extend it.          *)
RecoveryDeadlineHolds ==
  \A h \in Handshakes : hs[h].failed /\ hs[h].late ~> hs[h].raw # "open"

(* A server that emitted 'close' makes no more connections. Not a property  *)
(* of the code: a relay that is still pairing makes one.                    *)
ClosedIsQuiet ==
  [][closing = "closed" => \A h \in Handshakes : hs'[h].emitted = hs[h].emitted]_vars

=============================================================================
