----------------------------- MODULE MCSemaphore -----------------------------
(* Model-checking instance of Semaphore: five tasks share two permits, so   *)
(* that three can be queued behind two holders.                               *)
EXTENDS Semaphore
=============================================================================
