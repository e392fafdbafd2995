----------------------------- MODULE MCPeerLedger -----------------------------
(* Model-checking instance of PeerLedger: three ledgers make a chain of       *)
(* three, a parent of two and a root beside a tree; one slot is taken again   *)
(* after its branch retired.  Four memory accounts make a pool of a pool with *)
(* reservations in both.                                                      *)
EXTENDS PeerLedger
=============================================================================
