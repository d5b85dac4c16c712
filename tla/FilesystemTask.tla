---------------------------- MODULE FilesystemTask ----------------------------
(***************************************************************************)
(* One filesystem operation: a client of tools/iri.py that waits for its   *)
(* task, the handler of filesystem.py that the task runs, and where the    *)
(* operation is done: by a script on a cluster of this endpoint, which is  *)
(* the call of module Execution, or by a task of another facility that     *)
(* gateway.py asks and polls.                                              *)
(*                                                                         *)
(* The other facility is the environment.  It may accept a request whose   *)
(* answer is lost, and goes on when nobody polls any more.                 *)
(***************************************************************************)
EXTENDS Execution

VARIABLES
    op,         \* the operation
    target,     \* how the resource resolves when the handler looks it up
    input,      \* of the operation, as posix.py takes it
    stage,      \* where the handler is
    task,       \* status of the task, as the client may read it
    refused,    \* the result of the task names a refusal of this endpoint
    upTask,     \* the request to the other facility and its task there
    upScript,   \* what that task does there
    client      \* what the client knows

request == <<op, target, input>>
handler == <<stage, task, refused>>
upstream == <<upTask, upScript>>
fsVars == <<vars, request, handler, upstream, client>>

Operation == {"chmod", "chown", "ls", "head", "tail", "view", "checksum", "file", "stat", "rm", "mkdir",
              "symlink", "download", "upload", "compress", "extract", "mv", "cp"}

\* upload has no call of _forward.
Forwarded == Operation \ {"upload"}

\* posix.py raises ValueError while it writes the script of these: guard, for a
\* protected path, or the check of chmod's mode, which looks at no path.
Guarded == {"chmod", "rm", "extract", "mv"}

\* Their output must hold one entry of ls -l, or the ten fields of stat.
Parsed == {"chmod", "chown", "stat", "mkdir", "symlink", "upload", "compress", "extract", "mv", "cp"}

\* A cluster, or a mount on one; anything else has no cluster: a filesystem of a
\* node, a resource that has gone since the task was submitted.
Target == {"cluster", "mount", "filesystem", "gone", "upstream"}
Resolved == {"cluster", "mount"}

TaskOver == {"completed", "failed", "canceled"}

FsInit ==
    /\ Init
    /\ op \in Operation /\ target \in Target /\ input \in {"plain", "refused"}
    /\ stage = "called" /\ task = "active" /\ refused = FALSE
    /\ upTask = "none" /\ upScript = "waiting"
    /\ client = "waiting"

-----------------------------------------------------------------------------
(* The handler.  What it raises becomes the failure of the task.           *)

Settle(outcome) == stage' = "over" /\ task' = outcome /\ UNCHANGED refused
Refuse == stage' = "over" /\ task' = "failed" /\ refused' = TRUE

Remote == target = "upstream" /\ op \in Forwarded

BadInput == op \in Guarded /\ input = "refused"

\* _forward, or the script; then the first await.
StartLocal ==
    /\ stage = "called" /\ ~Remote
    /\ IF BadInput THEN Refuse ELSE stage' = "resolving" /\ UNCHANGED <<task, refused>>
    /\ UNCHANGED <<vars, request, upstream, client>>

\* _require_token
StartRemote(token) ==
    /\ stage = "called" /\ Remote
    /\ IF token
       THEN stage' = "posting" /\ upTask' = "requested" /\ UNCHANGED <<task, refused>>
       ELSE Refuse /\ UNCHANGED upTask
    /\ UNCHANGED <<vars, request, upScript, client>>

\* The inventory may fail, and may have lost the resource.
Resolve(served) ==
    /\ stage = "resolving"
    /\ IF served /\ target \in Resolved THEN stage' = "running" /\ UNCHANGED <<task, refused>> ELSE Refuse
    /\ UNCHANGED <<vars, request, upstream, client>>

RunExecutor == stage = "running" /\ (Call \/ Timeout) /\ UNCHANGED <<request, handler, upstream, client>>

ReturnedOk == phase = "returned" /\ result = 0

\* A script that succeeded may print what _entry and parse_stat do not accept.
FinishLocal(parsed) ==
    /\ stage = "running" /\ phase \in {"returned", "raised"}
    /\ Settle(IF ReturnedOk /\ (parsed \/ op \notin Parsed) THEN "completed" ELSE "failed")
    /\ UNCHANGED <<vars, request, upstream, client>>

\* The facility answers with an error, and does nothing.
PostRefused ==
    /\ stage = "posting" /\ upTask = "requested"
    /\ upTask' = "refused"
    /\ Settle("failed")
    /\ UNCHANGED <<vars, request, upScript, client>>

\* The time limit of the HTTP client, a broken connection, no JSON, or an error
\* that a proxy answers instead: the facility may have accepted the request, and
\* may yet.  The handler does not tell this from PostRefused.
PostLost ==
    /\ stage = "posting"
    /\ Settle("failed")
    /\ UNCHANGED <<vars, request, upstream, client>>

PostAnswered ==
    /\ stage = "posting" /\ upTask \notin {"requested", "refused"}
    /\ stage' = "polling"
    /\ UNCHANGED <<vars, request, task, refused, upstream, client>>

\* Mutant: any final status is taken for success.
AnswerAnyOver == "completed"

Answer == IF upTask = "completed" THEN "completed" ELSE "failed"

\* Mutant: an empty result is taken for "not forwarded" (if fwd, instead of if
\* fwd is not None).
PollOverEmpty ==
    /\ stage = "polling" /\ upTask \in TaskOver
    /\ \/ Settle(Answer)
       \/ upTask = "completed" /\ stage' = "resolving" /\ UNCHANGED <<task, refused>>
    /\ UNCHANGED <<vars, request, upstream, client>>

PollOver ==
    /\ stage = "polling" /\ upTask \in TaskOver
    /\ Settle(Answer)
    /\ UNCHANGED <<vars, request, upstream, client>>

\* Mutant: the handler polls without a time limit.
GiveUpUnreadable ==
    /\ stage = "polling" /\ upTask \in TaskOver
    /\ Settle("failed")
    /\ UNCHANGED <<vars, request, upstream, client>>

\* An answer that cannot be read, a result that is no response of the operation,
\* or 180 seconds without a final status.  The task of the other facility is not
\* canceled.
GiveUp ==
    /\ stage = "polling"
    /\ Settle("failed")
    /\ UNCHANGED <<vars, request, upstream, client>>

-----------------------------------------------------------------------------
(* The client: wait_task.                                                  *)

ClientTold ==
    /\ client = "waiting" /\ task \in TaskOver
    /\ client' = task
    /\ UNCHANGED <<vars, request, handler, upstream>>

ClientLeaves ==
    /\ client = "waiting"
    /\ client' = "left"
    /\ UNCHANGED <<vars, request, handler, upstream>>

-----------------------------------------------------------------------------
(* The other facility: it keeps the contract of RemoteCommand.             *)

\* The request may arrive when its sender has given up.
UpAccepts ==
    /\ upTask = "requested"
    /\ upTask' = "active"
    /\ UNCHANGED <<vars, request, handler, upScript, client>>

UpScriptSteps ==
    /\ upTask \notin {"none", "requested", "refused"}
    /\ \/ upScript = "waiting" /\ upScript' = "running"
       \/ upScript = "running" /\ upScript' \in {"ended", "lost"}
    /\ UNCHANGED <<vars, request, handler, upTask, client>>

UpSettles(outcome) ==
    /\ upTask = "active" /\ (outcome = "completed" => upScript = "ended")
    /\ upTask' = outcome
    /\ UNCHANGED <<vars, request, handler, upScript, client>>

-----------------------------------------------------------------------------
World ==
    \/ Environment /\ UNCHANGED <<request, handler, upstream, client>>
    \/ UpAccepts \/ UpScriptSteps
    \/ \E outcome \in TaskOver : UpSettles(outcome)

Handler ==
    \/ StartLocal \/ RunExecutor
    \/ \E answer \in BOOLEAN : StartRemote(answer) \/ Resolve(answer) \/ FinishLocal(answer)
    \/ PostRefused \/ PostLost \/ PostAnswered \/ PollOver \/ GiveUp

FsNext == World \/ Handler \/ ClientTold \/ ClientLeaves

FsSpec == FsInit /\ [][FsNext]_fsVars

\* The event loop resumes the handler, its awaits have time limits, and time
\* passes for the client.  Nothing is assumed of cluster, platform and facility.
FsFairness ==
    /\ WF_fsVars(StartLocal) /\ WF_fsVars(\E token \in BOOLEAN : StartRemote(token))
    /\ WF_fsVars(\E served \in BOOLEAN : Resolve(served))
    /\ WF_fsVars(\E parsed \in BOOLEAN : FinishLocal(parsed))
    /\ WF_fsVars(stage = "running" /\ (Spawn \/ StartRun) /\ UNCHANGED <<request, handler, upstream, client>>)
    /\ WF_fsVars(stage = "running" /\ (\E answered \in BOOLEAN : ReadLog(answered))
                 /\ UNCHANGED <<request, handler, upstream, client>>)
    /\ WF_fsVars(stage = "running" /\ Timeout /\ UNCHANGED <<request, handler, upstream, client>>)
    /\ WF_fsVars(PostLost) /\ WF_fsVars(GiveUp) /\ WF_fsVars(ClientLeaves)

FairFsSpec == FsSpec /\ FsFairness

-----------------------------------------------------------------------------
(* Properties.                                                             *)

FsTypeOK ==
    /\ TypeOK
    /\ op \in Operation /\ target \in Target /\ input \in {"plain", "refused"}
    /\ stage \in {"called", "resolving", "running", "posting", "polling", "over"}
    /\ task \in {"active", "completed", "failed"}
    /\ refused \in BOOLEAN
    /\ upTask \in {"none", "requested", "refused", "active"} \cup TaskOver
    /\ upScript \in {"waiting", "running", "ended", "lost"}
    /\ client \in {"waiting", "left"} \cup TaskOver

\* The task keeps, end to end, the contract that Executor.run and the other
\* facility keep for their part of it: whichever of them does the operation, it
\* does it once at most, and what the client reads as completed has been done.
\* A failed task says nothing: it may be done all the same, and later.
Operate == INSTANCE RemoteCommand WITH
    script <- IF Remote THEN upScript ELSE script,
    answer <- CASE task = "completed" -> "success" [] task = "failed" -> "failure" [] OTHER -> "none"
OperationSpec == Operate!Spec

\* A failure that names a refusal of this endpoint (a path or mode that is not
\* accepted, no credential, no filesystem endpoint) may be corrected and tried
\* again: nothing was sent anywhere, and nothing will be.  What reached a cluster
\* had passed the checks, and is not done at the other facility as well.  Of an
\* error that the other facility, or a proxy before it, answers nothing is said.
RefusedHasNoEffect ==
    /\ refused => script = "waiting" /\ phase = "called" /\ upTask = "none"
    /\ script # "waiting" => target \in Resolved /\ ~BadInput /\ upTask = "none"
    /\ upTask # "none" => Remote

\* Every task settles and every client stops waiting, however long script and
\* facility take and whatever they answer.
OperationEnds == <>(stage = "over" /\ client # "waiting")
=============================================================================
