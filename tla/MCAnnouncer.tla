----------------------------- MODULE MCAnnouncer -----------------------------
(* Model-checking instances of Announcer: two relays, one of which can lose   *)
(* requests, and two suspend() calls that can overlap.                        *)
EXTENDS Announcer
=============================================================================
