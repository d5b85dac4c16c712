----------------------------- MODULE MCJobStatus -----------------------------
(* JobStatus: one job on each kind of cluster.                             *)
EXTENDS JobStatus
=============================================================================
