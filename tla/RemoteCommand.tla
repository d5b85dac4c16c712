---------------------------- MODULE RemoteCommand ----------------------------
(***************************************************************************)
(* What Executor.run (activate_iri/executor.py) promises a handler: one    *)
(* answer, which is a success only after the script has ended on the       *)
(* cluster.  A failure says nothing of the script, which may run later,    *)
(* and it runs once at most.                                               *)
(***************************************************************************)
VARIABLES
    script,     \* on the cluster
    answer      \* to the handler

vars == <<script, answer>>

Init == script = "waiting" /\ answer = "none"

ScriptStarts == script = "waiting" /\ script' = "running" /\ UNCHANGED answer
ScriptStops == script = "running" /\ script' \in {"ended", "lost"} /\ UNCHANGED answer

Succeed == answer = "none" /\ script = "ended" /\ answer' = "success" /\ UNCHANGED script
Fail == answer = "none" /\ answer' = "failure" /\ UNCHANGED script

Next == ScriptStarts \/ ScriptStops \/ Succeed \/ Fail

Spec == Init /\ [][Next]_vars
=============================================================================
