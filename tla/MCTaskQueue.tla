----------------------------- MODULE MCTaskQueue -----------------------------
(* TaskQueue with two users, two workers and three submissions.            *)
EXTENDS TaskQueue
=============================================================================
