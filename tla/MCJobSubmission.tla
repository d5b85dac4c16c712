--------------------------- MODULE MCJobSubmission ---------------------------
(* JobSubmission with three requests; a lock runs out before the command.  *)
EXTENDS JobSubmission
=============================================================================
