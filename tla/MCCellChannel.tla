---------------------------- MODULE MCCellChannel ----------------------------
(* Model-checking instance of CellChannel: the counter space is small enough  *)
(* to run out, the window small enough to be left on both sides.              *)
EXTENDS CellChannel
=============================================================================
