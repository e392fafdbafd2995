------------------------- MODULE MCServerHandshakes -------------------------
(* Two small instances of ServerHandshakes in one run. "race": one handshake  *)
(* with everything it can meet. "tables": two handshakes of two messages,     *)
(* without relay and requests, and one suspend(), which frees a slot and a    *)
(* message while their handshake goes on; both can be taken again before the  *)
(* clear of that handshake comes.                                             *)
EXTENDS ServerHandshakes
CONSTANT k2

VARIABLE scope

(* Every step of a handshake that a scope cuts has an outcome it keeps, so   *)
(* that the fairness of the step loses nothing.                              *)
Within ==
  \/ /\ scope = "race"
     /\ hs[1].key # k2 /\ hs[2].pc = "unused"
  \/ /\ scope = "tables"
     /\ suspends <= 1
     /\ hs[1].key # k2  \* the messages are interchangeable
     /\ \A h \in Handshakes : hs[h].relay = "none"
     /\ \A r \in Requests : reqs[r] = Idle

MCInit == Init /\ scope \in {"race", "tables"}
MCNext == Next /\ scope' = scope /\ Within'
MCSpec == MCInit /\ [][MCNext]_<<vars, scope>> /\ Fairness
=============================================================================
