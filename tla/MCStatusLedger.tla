--------------------------- MODULE MCStatusLedger ---------------------------
(* StatusLedger on two resources, one platform alert and a short history.  *)
EXTENDS StatusLedger
=============================================================================
