------------------------------ MODULE Execution ------------------------------
(***************************************************************************)
(* One Executor.run of activate_iri/executor.py: a script sent to a        *)
(* cluster through a local process, ssh, or an ACTIVATE workflow run, and  *)
(* the return code that the handler gets.                                  *)
(*                                                                         *)
(* The direct executors wait for a process.  WorkflowExecutor starts a     *)
(* run, polls its status until a deadline and then reads its log, which    *)
(* may lag.  The cluster and the platform are the environment: a script    *)
(* goes on when its caller has given up.                                   *)
(***************************************************************************)
EXTENDS Naturals

CONSTANTS
    LogTries,   \* reads of the log of a run that has completed
    None        \* no exit code, no answer

ASSUME LogTriesAssumption == LogTries \in Nat \ {0}
ASSUME NoneAssumption == None \notin Nat

VARIABLES
    executor,   \* the one picked for the cluster
    phase,      \* where the call is
    status,     \* of the run, as last seen
    tries,      \* reads of the log
    text,       \* what the last read of the log returned
    result,     \* the return code
    script,     \* the script on the cluster
    code,       \* its exit code
    run,        \* the workflow run on the platform
    printed,    \* what the run's step has printed
    log         \* what the platform shows of that

caller == <<executor, phase, status, tries, text, result>>
cluster == <<script, code>>
platform == <<run, printed, log>>
vars == <<caller, cluster, platform>>

\* A log is told by its last line that matters.
Nothing == 0
BEGIN == 1
END == 2
RC == 3

RunOver == {"completed", "error", "canceled"}

TimedOut == 124
NoTarget == 98
Broken == 255

Init ==
    /\ executor \in {"local", "ssh", "workflow"}
    /\ phase = "called" /\ status = "running" /\ tries = 0 /\ text = Nothing /\ result = None
    /\ script = "waiting" /\ code = None
    /\ run = "none" /\ printed = Nothing /\ log = Nothing

Return(rc) == phase' = "returned" /\ result' = rc

-----------------------------------------------------------------------------
(* The cluster.                                                            *)

\* A script that was sent starts, whether or not the caller still waits.
Sent == IF executor = "workflow" THEN run = "queued" ELSE phase \in {"waiting", "returned"} /\ result # NoTarget

ScriptStarts ==
    /\ script = "waiting" /\ Sent
    /\ script' = "running"
    /\ IF executor = "workflow"
       THEN run' = "running" /\ printed' = BEGIN
       ELSE UNCHANGED <<run, printed>>
    /\ UNCHANGED <<caller, code, log>>

ScriptEnds(c) ==
    /\ script = "running"
    /\ script' = "ended" /\ code' = c
    /\ UNCHANGED <<caller, platform>>

ScriptLost ==
    /\ script = "running"
    /\ script' = "lost"
    /\ UNCHANGED <<caller, code, platform>>

-----------------------------------------------------------------------------
(* The platform, and the step of the iri-exec workflow.                    *)

\* The request may arrive when the command that made it was killed.
CreateRun ==
    /\ executor = "workflow" /\ run = "none" /\ phase \in {"starting", "raised"}
    /\ run' = "queued"
    /\ UNCHANGED <<caller, cluster, printed, log>>

PrintTrailer ==
    /\ run = "running" /\ script = "ended" /\ printed < RC
    /\ printed' = printed + 1
    /\ UNCHANGED <<caller, cluster, run, log>>

CompleteRun ==
    /\ run = "running" /\ printed = RC
    /\ run' = "completed"
    /\ UNCHANGED <<caller, cluster, printed, log>>

\* The run fails or is canceled; its script may go on.
BreakRun(how) ==
    /\ run \in {"queued", "running"}
    /\ run' = how
    /\ UNCHANGED <<caller, cluster, printed, log>>

\* The log is shown in order, and late.
ShowLog ==
    /\ log < printed
    /\ \E line \in (log + 1) .. printed : log' = line
    /\ UNCHANGED <<caller, cluster, run, printed>>

-----------------------------------------------------------------------------
(* LocalExecutor and SSHExecutor.                                          *)

\* The mapping gives no host or no cluster name.
RunNowhere ==
    /\ phase = "called" /\ executor # "local"
    /\ Return(NoTarget)
    /\ UNCHANGED <<executor, status, tries, text, cluster, platform>>

MintFails ==
    /\ phase = "called" /\ executor = "ssh"
    /\ phase' = "raised"
    /\ UNCHANGED <<executor, status, tries, text, result, cluster, platform>>

Spawn ==
    /\ phase = "called" /\ executor # "workflow"
    /\ phase' = "waiting"
    /\ UNCHANGED <<executor, status, tries, text, result, cluster, platform>>

ReturnCode ==
    /\ phase = "waiting" /\ script = "ended"
    /\ Return(code)
    /\ UNCHANGED <<executor, status, tries, text, cluster, platform>>

\* The process was killed, or ssh lost the connection.
ReturnBroken ==
    /\ phase = "waiting" /\ (script = "lost" \/ executor = "ssh")
    /\ Return(Broken)
    /\ UNCHANGED <<executor, status, tries, text, cluster, platform>>

\* Mutant: a process that was killed at its time limit has no return code, which
\* is taken for 0.
TimeOutAsNoCode ==
    /\ phase = "waiting"
    /\ Return(0)
    /\ UNCHANGED <<executor, status, tries, text, cluster, platform>>

\* The local process is killed.
TimeOut ==
    /\ phase = "waiting"
    /\ Return(TimedOut)
    /\ UNCHANGED <<executor, status, tries, text, cluster, platform>>

-----------------------------------------------------------------------------
(* WorkflowExecutor.                                                       *)

StartRun ==
    /\ phase = "called" /\ executor = "workflow"
    /\ phase' = "starting"
    /\ UNCHANGED <<executor, status, tries, text, result, cluster, platform>>

Started ==
    /\ phase = "starting" /\ run # "none"
    /\ phase' = "polling"
    /\ UNCHANGED <<executor, status, tries, text, result, cluster, platform>>

\* It was refused, or gave no answer in time.
StartFails ==
    /\ phase = "starting"
    /\ phase' = "raised"
    /\ UNCHANGED <<executor, status, tries, text, result, cluster, platform>>

View(answered) ==
    /\ phase = "polling"
    /\ status' = IF answered THEN run ELSE status
    /\ phase' = IF status' \in RunOver THEN "reading" ELSE "polling"
    /\ UNCHANGED <<executor, tries, text, result, cluster, platform>>

\* The command line tool answered, and not in JSON.
ViewUnreadable ==
    /\ phase = "polling"
    /\ phase' = "raised"
    /\ UNCHANGED <<executor, status, tries, text, result, cluster, platform>>

\* The deadline, counted from the answer to the start.
GiveUpPolling ==
    /\ phase = "polling"
    /\ phase' = "reading"
    /\ UNCHANGED <<executor, status, tries, text, result, cluster, platform>>

DefaultRc == IF status = "completed" THEN 0 ELSE 1

\* Mutant: a log without markers gets the default of its run.
ParseMarkedDefault(lines) == IF lines = RC THEN code ELSE DefaultRc

\* parse_marked_output: without both markers a failure, without a return code
\* the default.
ParseMarked(lines) == IF lines < END THEN 1 ELSE IF lines = RC THEN code ELSE DefaultRc

\* Mutant: one read of the log, as if it did not lag.
LastReadFirst(lines) == TRUE

LastRead(lines) == lines >= END \/ status # "completed" \/ tries + 1 = LogTries

ReadLog(answered) ==
    /\ phase = "reading"
    /\ text' = IF answered THEN log ELSE Nothing
    /\ tries' = tries + 1
    /\ IF LastRead(text') THEN Return(ParseMarked(text')) ELSE UNCHANGED <<phase, result>>
    /\ UNCHANGED <<executor, status, cluster, platform>>

-----------------------------------------------------------------------------
Environment ==
    \/ ScriptStarts \/ (\E c \in {0, 1} : ScriptEnds(c)) \/ ScriptLost
    \/ CreateRun \/ PrintTrailer \/ CompleteRun \/ ShowLog
    \/ \E how \in {"error", "canceled"} : BreakRun(how)

Call ==
    \/ RunNowhere \/ MintFails \/ Spawn \/ ReturnCode \/ ReturnBroken
    \/ StartRun \/ Started \/ ViewUnreadable
    \/ \E answered \in BOOLEAN : View(answered) \/ ReadLog(answered)

Timeout == TimeOut \/ StartFails \/ GiveUpPolling

Next == Environment \/ Call \/ Timeout

Spec == Init /\ [][Next]_vars

-----------------------------------------------------------------------------
(* Properties.                                                             *)

TypeOK ==
    /\ executor \in {"local", "ssh", "workflow"}
    /\ phase \in {"called", "waiting", "starting", "polling", "reading", "returned", "raised"}
    /\ status \in {"queued", "running"} \cup RunOver
    /\ tries \in 0 .. LogTries
    /\ text \in Nothing .. RC
    /\ result \in {None, 0, 1, NoTarget, TimedOut, Broken}
    /\ script \in {"waiting", "running", "ended", "lost"}
    /\ code \in {None, 0, 1}
    /\ run \in {"none", "queued", "running"} \cup RunOver
    /\ printed \in Nothing .. RC
    /\ log \in Nothing .. RC

\* "Reported as a failure, never as an empty success": a call that returns 0 had
\* a script that ended, and that exited with 0.  The one exception: a log that
\* stops between the END marker and the return code.
SuccessIsTrue ==
    result = 0 => script = "ended" /\ (code = 0 \/ text = END)

\* "Step logs can lag the terminal status": a run that was seen to complete is
\* reported by its exit code, unless every read of its log missed the END marker
\* or the log stops there.
CompletedIsRead ==
    phase = "returned" /\ status = "completed" =>
        \/ result = code
        \/ text = END
        \/ text < END /\ tries = LogTries

\* A call is one command on the cluster, whatever carries it: what the handlers
\* of compute.py and filesystem.py rely on.
Command == INSTANCE RemoteCommand WITH
    answer <- CASE phase = "raised" -> "failure"
                [] phase = "returned" -> IF result = 0 THEN "success" ELSE "failure"
                [] OTHER -> "none"
CommandSpec == Command!Spec
=============================================================================
