---------------------------- MODULE ConnectionPool ----------------------------
(***************************************************************************)
(* Two peers that each listen and dial with a connection pool              *)
(* (lib/connection-pool.js, used by connect() and Server): the pool keeps  *)
(* one stream per remote key and settles which of two streams is the       *)
(* duplicate, each peer on its own and in its own order of events.         *)
(*                                                                         *)
(* A stream has two ends, which live and die separately: destroy() only    *)
(* starts the teardown, "close" is emitted later, and the other end learns *)
(* of it later still.  The connection process of connect.js and server.js  *)
(* is abstracted to: the responder's end appears (Server.onconnection),    *)
(* the initiator's end opens, or it fails.                                 *)
(***************************************************************************)
EXTENDS Integers, Sequences, FiniteSets, SequencesExt

CONSTANTS
  MaxDials,     (* bound: how many streams are ever dialled                  *)
  MaxDrops      (* bound: streams ended by their user or by a failure        *)

ASSUME PoolAssumption == MaxDials \in Nat /\ MaxDrops \in Nat

VARIABLES
  from,         (* the initiator of each stream                              *)
  end,          (* the two ends of each stream                               *)
  pool,         (* the pool of each peer                                     *)
  drops         (* how many streams were ended other than as duplicates      *)

vars == <<from, end, pool, drops>>

(* The public keys, which b4a.compare() orders.                            *)
Peers == {0, 1}

Other(p) == 1 - p

None == 0

Streams == DOMAIN from

Alive == {"connecting", "open"}

(* current and opened: the one entry of _connections (opened) or of        *)
(* _connecting, None if both are empty; waiting: the streams that wait for *)
(* another one to close, in the order their listeners were added; emitted: *)
(* the streams of the "connection" events.                                 *)
EmptyPool == [current |-> None, opened |-> FALSE, waiting |-> <<>>, emitted |-> <<>>]

Init ==
  /\ from = <<>> /\ end = <<>>
  /\ pool = [p \in Peers |-> EmptyPool]
  /\ drops = 0

-----------------------------------------------------------------------------
(* _attachStream() works on a peer: its pool and its ends of the streams.  *)

Side(p) == [pool |-> pool[p], end |-> [s \in Streams |-> end[s][p]]]

IsInitiator(p, s) == from[s] = p

(* Mutant: both peers prefer the newer stream.                             *)
KeepNewAlways(p, s, existing) == TRUE

(* keepNew.                                                                *)
KeepNew(p, s, existing) ==
  \/ IsInitiator(p, s) = IsInitiator(p, existing)
  \/ p > Other(p)

Destroyed(state) == IF state \in Alive THEN "destroying" ELSE state

(* Mutant: the new stream replaces the old one without waiting.            *)
WaitForNot(side, s, existing) ==
  [side EXCEPT !.end[existing] = Destroyed(@), !.pool.current = s, !.pool.opened = TRUE,
               !.pool.emitted = Append(@, s)]

(* The existing stream is destroyed and the new one waits for its close.   *)
WaitFor(side, s, existing) ==
  [side EXCEPT !.end[existing] = Destroyed(@),
               !.pool.waiting = Append(@, [stream |-> s, on |-> existing])]

(* _attachStream() of an opened stream.                                    *)
Attach(p, side, s) ==
  LET existing == side.pool.current
  IN IF existing = None
     THEN [side EXCEPT !.pool.current = s, !.pool.opened = TRUE,
                       !.pool.emitted = Append(@, s)]
     ELSE IF KeepNew(p, s, existing)
     THEN WaitFor(side, s, existing)
     ELSE [side EXCEPT !.end[s] = Destroyed(@)]

(* The state after peer p's handler left it as side.                       *)
Becomes(p, side) ==
  /\ pool' = [pool EXCEPT ![p] = side.pool]
  /\ end' = [s \in Streams |-> [end[s] EXCEPT ![p] = side.end[s]]]

-----------------------------------------------------------------------------
(* connect() with a pool: without an entry a new stream is attached, not   *)
(* opened; with one connect() returns that stream and changes nothing.     *)
Connect(p) ==
  /\ Len(from) < MaxDials
  /\ pool[p].current = None
  /\ from' = Append(from, p)
  /\ end' = Append(end, [q \in Peers |-> IF q = p THEN "connecting" ELSE "none"])
  /\ pool' = [pool EXCEPT ![p].current = Len(from) + 1, ![p].opened = FALSE]
  /\ UNCHANGED drops

(* Server "connection": the responder's end is attached as opened.  The    *)
(* initiator may have given up since it sent its handshake.                *)
Serve(p, s) ==
  /\ ~IsInitiator(p, s) /\ end[s][p] = "none"
  /\ Becomes(p, Attach(p, [Side(p) EXCEPT !.end[s] = "open"], s))
  /\ UNCHANGED <<from, drops>>

(* "open" of a dialled stream: from _connecting to _connections.           *)
Open(p, s) ==
  /\ end[s][p] = "connecting" /\ end[s][Other(p)] # "none"
  /\ end' = [end EXCEPT ![s][p] = "open"]
  /\ pool' = [pool EXCEPT ![p].opened = TRUE, ![p].emitted = Append(@, s)]
  /\ UNCHANGED <<from, drops>>

(* ConnectionRef.release(), or the connection fails.                       *)
Drop(p, s) ==
  /\ drops < MaxDrops
  /\ end[s][p] \in Alive
  /\ end' = [end EXCEPT ![s][p] = "destroying"]
  /\ drops' = drops + 1
  /\ UNCHANGED <<from, pool>>

(* External: the other end is gone and this one notices.                   *)
Hangup(p, s) ==
  /\ end[s][p] \in Alive /\ end[s][Other(p)] \in {"destroying", "closed"}
  /\ end' = [end EXCEPT ![s][p] = "destroying"]
  /\ UNCHANGED <<from, pool, drops>>

(* The listeners of streams that wait for s and did not close meanwhile.   *)
WaitersOn(p, s) == SelectSeq(pool[p].waiting, LAMBDA w : w.on = s)

(* The close listener of _attachStream() deletes by key: whatever stream   *)
(* is in _connections, or in _connecting if s never opened.                *)
Deletes(p, s) ==
  /\ IsInitiator(p, s) \/ s \in Range(pool[p].emitted)
  /\ pool[p].opened <=> s \in Range(pool[p].emitted)

(* "close" of an end: an entry goes, it waits no more, and then the        *)
(* streams that waited for it are attached in their order.                 *)
Close(p, s) ==
  /\ end[s][p] = "destroying"
  /\ LET gone == [Side(p) EXCEPT
                    !.end[s] = "closed",
                    !.pool.current = IF Deletes(p, s) THEN None ELSE @,
                    !.pool.opened = @ /\ ~Deletes(p, s),
                    !.pool.waiting = SelectSeq(@, LAMBDA w : s \notin {w.on, w.stream})]
     IN Becomes(p, FoldLeft(LAMBDA side, w : Attach(p, side, w.stream), gone, WaitersOn(p, s)))
  /\ UNCHANGED <<from, drops>>

Next ==
  \E p \in Peers :
    \/ Connect(p)
    \/ \E s \in Streams : Serve(p, s) \/ Open(p, s) \/ Drop(p, s) \/ Hangup(p, s) \/ Close(p, s)

Spec == Init /\ [][Next]_vars

(* A stream whose dialling end lives reaches the responder (connect() goes *)
(* on until it fails, which is Drop), teardowns end and are noticed.       *)
Progress(p, s) ==
  \/ end[s][Other(p)] \in Alive /\ Serve(p, s)
  \/ Open(p, s) \/ Hangup(p, s) \/ Close(p, s)

FairSpec == Spec /\ \A p \in Peers : \A s \in 1..MaxDials :
                      WF_vars(s \in Streams /\ Progress(p, s))

-----------------------------------------------------------------------------
(* Type invariant; the events of a pool name each stream at most once.     *)
EndStates == {"none", "connecting", "open", "destroying", "closed"}

TypeOK ==
  /\ from \in Seq(Peers) /\ Len(from) <= MaxDials
  /\ end \in Seq([Peers -> EndStates]) /\ Len(end) = Len(from)
  /\ pool \in [Peers -> [current : Streams \cup {None}, opened : BOOLEAN,
                         waiting : Seq([stream : Streams, on : Streams]),
                         emitted : Seq(Streams)]]
  /\ \A p \in Peers : IsInjective(pool[p].emitted)
  /\ drops \in 0..MaxDrops

(***************************************************************************)
(* The pool loses nothing: a live end is the pool's entry, or it waits for *)
(* a stream that is going away and still has its close to come; no live    *)
(* stream runs beside the pool's one.  And although entries are deleted by *)
(* key, the entry is never a stream that already closed.                   *)
(***************************************************************************)
LiveAreTracked ==
  \A p \in Peers, s \in Streams :
    /\ end[s][p] \in Alive =>
         \/ pool[p].current = s
         \/ \E i \in DOMAIN pool[p].waiting :
              /\ pool[p].waiting[i].stream = s
              /\ end[pool[p].waiting[i].on][p] = "destroying"
    /\ pool[p].current = s => end[s][p] \notin {"none", "closed"}

(***************************************************************************)
(* Simultaneous dials settle: unless a stream is ended by its user or      *)
(* fails, the two pools come to hold the same open stream for good; the    *)
(* two peers never throw out each other's choice.                          *)
(***************************************************************************)
Agreed ==
  /\ pool[0].current = pool[1].current /\ pool[0].current # None
  /\ \A p \in Peers : pool[p].opened /\ end[pool[p].current][p] = "open"

Converges == <>[](drops > 0 \/ from = <<>> \/ Agreed)
=============================================================================
