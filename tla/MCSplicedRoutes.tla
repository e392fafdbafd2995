---------------------------- MODULE MCSplicedRoutes ----------------------------
(* Two sources share the circuit, which has room for both ("wide") or only for   *)
(* one of them ("narrow"), so that an OPEN may find it full.                      *)
EXTENDS SplicedRoutes

VARIABLE scope

Narrow == INSTANCE SplicedRoutes WITH MaxSpliced <- 1

MCInit == Init /\ scope \in {"wide", "narrow"}
MCNext == /\ scope' = scope
          /\ \/ scope = "wide" /\ Next
             \/ scope = "narrow" /\ Narrow!Next

\* A message or a close is there to be taken whatever the limit, and taking it
\* disables the step: the fair steps of both scopes are the same.
MCSpec == MCInit /\ [][MCNext]_<<vars, scope>> /\ Fairness
=============================================================================
