--------------------------- MODULE MCConnectionPool ---------------------------
(* Model-checking instance of ConnectionPool: four dials let both peers dial  *)
(* at once and dial again while their first streams are being torn down.      *)
EXTENDS ConnectionPool
=============================================================================
