------------------------- MODULE FilesystemTaskProofs -------------------------
(***************************************************************************)
(* Proofs about Execution and FilesystemTask, for any number of reads of   *)
(* the log.  First one call: its types, that a success is one, that a      *)
(* completed run is reported by its code, and that it implements           *)
(* RemoteCommand.  Then the task around it: its types, that what is        *)
(* refused has no effect, and that a task implements RemoteCommand         *)
(* wherever its operation is done; what the call does is taken from the    *)
(* lemmas of the first part.                                               *)
(***************************************************************************)
EXTENDS FilesystemTask, TLAPS

-----------------------------------------------------------------------------
(* One call: Execution.                                                    *)

USE LogTriesAssumption, NoneAssumption DEF Nothing, BEGIN, END, RC, RunOver, TimedOut, NoTarget, Broken

\* What a log shows was printed, and the trailer follows the script's end.
LogIsTrue ==
    /\ code # None <=> script = "ended"
    /\ printed >= END => script = "ended"
    /\ log <= printed
    /\ text >= END => script = "ended"
    /\ script = "waiting" => printed = Nothing

\* A result exists once the call has returned, and a run's status once it polls.
CallInOrder ==
    /\ result # None <=> phase = "returned"
    /\ phase = "returned" /\ executor # "workflow" => status = "running"
    /\ phase \in {"called", "waiting", "starting"} => status = "running"
    /\ phase = "waiting" => executor # "workflow"
    /\ phase \in {"starting", "polling", "reading"} => executor = "workflow"
    /\ phase \in {"called", "starting", "polling"} => tries = 0
    /\ phase = "reading" => tries < LogTries
    /\ phase = "polling" => run # "none"

IInv == TypeOK /\ LogIsTrue /\ CallInOrder /\ SuccessIsTrue /\ CompletedIsRead

-----------------------------------------------------------------------------
LEMMA Initially == Init => IInv
BY DEF Init, IInv, TypeOK, LogIsTrue, CallInOrder, SuccessIsTrue, CompletedIsRead

LEMMA EnvironmentStep ==
    ASSUME IInv, Environment
    PROVE  IInv'
<1> USE DEF IInv, TypeOK, LogIsTrue, CallInOrder, SuccessIsTrue, CompletedIsRead, caller, cluster, platform
<1>1. CASE ScriptStarts
  BY <1>1 DEF ScriptStarts, Sent
<1>2. ASSUME NEW c \in {0, 1}, ScriptEnds(c) PROVE IInv'
  BY <1>2 DEF ScriptEnds
<1>3. CASE ScriptLost
  BY <1>3 DEF ScriptLost
<1>4. CASE CreateRun
  BY <1>4 DEF CreateRun
<1>5. CASE PrintTrailer
  BY <1>5 DEF PrintTrailer
<1>6. CASE CompleteRun
  BY <1>6 DEF CompleteRun
<1>7. CASE ShowLog
  BY <1>7 DEF ShowLog
<1>8. ASSUME NEW how \in {"error", "canceled"}, BreakRun(how) PROVE IInv'
  BY <1>8 DEF BreakRun
<1> QED BY <1>1, <1>2, <1>3, <1>4, <1>5, <1>6, <1>7, <1>8 DEF Environment

LEMMA ReadLogStep ==
    ASSUME IInv, NEW answered \in BOOLEAN, ReadLog(answered)
    PROVE  IInv'
<1> USE DEF IInv, TypeOK, LogIsTrue, CallInOrder, SuccessIsTrue, CompletedIsRead, cluster, platform
<1>1. text' \in {Nothing, log} /\ tries' = tries + 1 /\ phase = "reading"
  BY DEF ReadLog
<1>2. CASE LastRead(text')
  <2>1. phase' = "returned" /\ result' = ParseMarked(text')
    BY <1>2 DEF ReadLog, Return
  <2> QED BY <1>1, <1>2, <2>1 DEF ReadLog, LastRead, ParseMarked, DefaultRc
<1>3. CASE ~ LastRead(text')
  BY <1>1, <1>3 DEF ReadLog, LastRead
<1> QED BY <1>2, <1>3

LEMMA CallStep ==
    ASSUME IInv, Call \/ Timeout
    PROVE  IInv'
<1> USE DEF IInv, TypeOK, LogIsTrue, CallInOrder, SuccessIsTrue, CompletedIsRead, cluster, platform, Return
<1>1. CASE RunNowhere
  BY <1>1 DEF RunNowhere
<1>2. CASE MintFails
  BY <1>2 DEF MintFails
<1>3. CASE Spawn
  BY <1>3 DEF Spawn
<1>4. CASE ReturnCode
  BY <1>4 DEF ReturnCode
<1>5. CASE ReturnBroken
  BY <1>5 DEF ReturnBroken
<1>6. CASE StartRun
  BY <1>6 DEF StartRun
<1>7. CASE Started
  BY <1>7 DEF Started
<1>8. ASSUME NEW answered \in BOOLEAN, View(answered) PROVE IInv'
  BY <1>8 DEF View
<1>9. ASSUME NEW answered \in BOOLEAN, ReadLog(answered) PROVE IInv'
  BY <1>9, ReadLogStep
<1>10. CASE TimeOut
  BY <1>10 DEF TimeOut
<1>11. CASE StartFails
  BY <1>11 DEF StartFails
<1>12. CASE GiveUpPolling
  BY <1>12 DEF GiveUpPolling
<1>13. CASE ViewUnreadable
  BY <1>13 DEF ViewUnreadable
<1> QED
  BY <1>1, <1>2, <1>3, <1>4, <1>5, <1>6, <1>7, <1>8, <1>9, <1>10, <1>11, <1>12, <1>13 DEF Call, Timeout

LEMMA Invariance == Spec => []IInv
<1>1. IInv /\ [Next]_vars => IInv'
  <2>1. ASSUME IInv, UNCHANGED vars PROVE IInv'
    BY <2>1 DEF vars, caller, cluster, platform, IInv, TypeOK, LogIsTrue, CallInOrder, SuccessIsTrue, CompletedIsRead
  <2> QED BY <2>1, EnvironmentStep, CallStep DEF Next
<1> QED BY <1>1, Initially, PTL DEF Spec

-----------------------------------------------------------------------------
\* Every reachable state is well typed.
THEOREM TypeCorrect == Spec => []TypeOK
<1>1. IInv => TypeOK
  BY DEF IInv
<1> QED BY <1>1, Invariance, PTL

\* A call that returns 0 had a script that exited with 0, unless its log stops
\* between the END marker and the return code (executor.py parse_marked_output).
THEOREM SuccessIsTrueAlways == Spec => []SuccessIsTrue
<1>1. IInv => SuccessIsTrue
  BY DEF IInv
<1> QED BY <1>1, Invariance, PTL

\* A run that was seen to complete is reported by its exit code, unless every
\* read of its log missed the END marker or the log stops there (executor.py
\* WorkflowExecutor.run).
THEOREM CompletedIsReadAlways == Spec => []CompletedIsRead
<1>1. IInv => CompletedIsRead
  BY DEF IInv
<1> QED BY <1>1, Invariance, PTL

\* Every executor keeps the promise of RemoteCommand: one answer, a success only
\* after the script has ended (executor.py Executor.run).
THEOREM ExecutionImplementsCommand == Spec => CommandSpec
<1> DEFINE answer == CASE phase = "raised" -> "failure"
                       [] phase = "returned" -> IF result = 0 THEN "success" ELSE "failure"
                       [] OTHER -> "none"
<1>1. Init => Command!Init
  BY DEF Init, Command!Init
<1>2. ASSUME IInv, [Next]_vars PROVE [Command!Next]_(Command!vars)
  <2> SUFFICES [Command!Next]_<<script, answer>>
    BY DEF Command!vars
  <2>1. CASE Environment
    <3>1. UNCHANGED <<phase, result>> /\ answer' = answer
      BY <2>1 DEF Environment, ScriptStarts, ScriptEnds, ScriptLost, CreateRun, PrintTrailer, CompleteRun,
         ShowLog, BreakRun, caller
    <3>2. \/ UNCHANGED script
          \/ script = "waiting" /\ script' = "running"
          \/ script = "running" /\ script' \in {"ended", "lost"}
      BY <2>1 DEF Environment, ScriptStarts, ScriptEnds, ScriptLost, CreateRun, PrintTrailer, CompleteRun,
         ShowLog, BreakRun, cluster
    <3> QED BY <3>1, <3>2 DEF Command!Next, Command!ScriptStarts, Command!ScriptStops
  <2>2. CASE Call \/ Timeout
    <3>1. UNCHANGED script
      BY <2>2 DEF Call, Timeout, RunNowhere, MintFails, Spawn, ReturnCode, ReturnBroken, StartRun, Started, View, ViewUnreadable,
         ReadLog, TimeOut, StartFails, GiveUpPolling, cluster
    <3>2. phase \notin {"returned", "raised"}
      BY <2>2 DEF Call, Timeout, RunNowhere, MintFails, Spawn, ReturnCode, ReturnBroken, StartRun, Started, View, ViewUnreadable,
         ReadLog, TimeOut, StartFails, GiveUpPolling
    <3>3. answer = "none"
      BY <3>2
    <3>4. IInv'
      BY <1>2, <2>2, CallStep
    <3>5. CASE phase' = "raised"
      <4>1. answer' = "failure"
        BY <3>5
      <4> QED BY <3>1, <3>3, <4>1 DEF Command!Next, Command!Fail
    <3>6. CASE phase' = "returned" /\ result' = 0
      <4>1. answer' = "success"
        BY <3>6
      <4>2. script = "ended"
        BY <3>1, <3>4, <3>6 DEF IInv, SuccessIsTrue
      <4> QED BY <3>1, <3>3, <4>1, <4>2 DEF Command!Next, Command!Succeed
    <3>7. CASE phase' = "returned" /\ result' # 0
      <4>1. answer' = "failure"
        BY <3>7
      <4> QED BY <3>1, <3>3, <4>1 DEF Command!Next, Command!Fail
    <3>8. CASE phase' \notin {"returned", "raised"}
      <4>1. answer' = "none"
        BY <3>8
      <4> QED BY <3>1, <3>3, <4>1
    <3> QED BY <3>5, <3>6, <3>7, <3>8
  <2>3. CASE UNCHANGED vars
    BY <2>3 DEF vars, caller, cluster
  <2> QED BY <1>2, <2>1, <2>2, <2>3 DEF Next
<1>3. Spec => []IInv
  BY Invariance
<1> QED BY <1>1, <1>2, <1>3, PTL DEF Spec, CommandSpec, Command!Spec

-----------------------------------------------------------------------------
(* The task: FilesystemTask.                                               *)

USE DEF TaskOver, Resolved

\* Before the handler calls the executor nothing has been sent to a cluster, and
\* it calls it only for what it neither refuses nor forwards.
LocalInOrder ==
    /\ phase = "called" => run = "none" /\ script = "waiting"
    /\ stage \in {"called", "resolving", "posting", "polling"} => phase = "called"
    /\ stage \in {"resolving", "running"} => ~Remote /\ ~BadInput
    /\ stage = "running" => target \in Resolved
    /\ phase # "called" => target \in Resolved /\ ~Remote /\ ~BadInput
    /\ refused => stage = "over" /\ phase = "called"

\* The other facility has a task only for what was forwarded, and none for what
\* was refused.
UpstreamInOrder ==
    /\ stage \in {"posting", "polling"} => Remote
    /\ stage = "posting" => upTask # "none"
    /\ stage = "polling" => upTask \notin {"none", "requested", "refused"}
    /\ stage \in {"called", "resolving", "running"} => upTask = "none"
    /\ upTask # "none" => Remote
    /\ upTask \in {"none", "requested", "refused"} => upScript = "waiting"
    /\ upTask = "completed" => upScript = "ended"
    /\ refused => upTask = "none"

\* The task is settled with the handler, and completed only what has been done.
OutcomeIsTrue ==
    /\ stage = "over" <=> task # "active"
    /\ task = "completed" => (IF Remote THEN upScript ELSE script) = "ended"

FsInv == FsTypeOK /\ IInv /\ LocalInOrder /\ UpstreamInOrder /\ OutcomeIsTrue

-----------------------------------------------------------------------------
LEMMA FsInitially == FsInit => FsInv
<1> SUFFICES ASSUME FsInit PROVE FsInv
  OBVIOUS
<1>1. IInv
  BY Initially DEF FsInit
<1>2. FsTypeOK
  BY <1>1 DEF FsInit, FsTypeOK, IInv
<1>3. LocalInOrder /\ UpstreamInOrder /\ OutcomeIsTrue
  BY DEF FsInit, Init, LocalInOrder, UpstreamInOrder, OutcomeIsTrue, Remote, BadInput
<1> QED BY <1>1, <1>2, <1>3 DEF FsInv

\* The call and the cluster do what Execution lets them do, and nobody else
\* touches their state.
LEMMA ExecutionStep ==
    ASSUME FsNext
    PROVE  [Next]_vars
<1>1. CASE World
  BY <1>1 DEF World, UpAccepts, UpScriptSteps, UpSettles, Next
<1>2. CASE Handler
  BY <1>2 DEF Handler, StartLocal, RunExecutor, StartRemote, Resolve, FinishLocal, PostRefused, PostLost, PostAnswered,
     PollOver, GiveUp, Next
<1>3. CASE ClientTold \/ ClientLeaves
  BY <1>3 DEF ClientTold, ClientLeaves
<1> QED BY <1>1, <1>2, <1>3 DEF FsNext

LEMMA IInvStep ==
    ASSUME IInv, [Next]_vars
    PROVE  IInv'
<1>1. ASSUME UNCHANGED vars PROVE IInv'
  BY <1>1 DEF vars, caller, cluster, platform, IInv, TypeOK, LogIsTrue, CallInOrder, SuccessIsTrue, CompletedIsRead
<1> QED BY <1>1, EnvironmentStep, CallStep DEF Next

\* What the cluster and the platform do to a call.
LEMMA EnvironmentEffect ==
    ASSUME IInv, LocalInOrder, Environment
    PROVE  /\ UNCHANGED <<phase, result>>
           /\ phase = "called" => UNCHANGED <<run, script>>
           /\ \/ UNCHANGED script
              \/ script = "waiting" /\ script' = "running"
              \/ script = "running" /\ script' \in {"ended", "lost"}
<1> USE DEF caller, cluster, platform
<1>1. UNCHANGED <<phase, result>>
  BY DEF Environment, ScriptStarts, ScriptEnds, ScriptLost, CreateRun, PrintTrailer, CompleteRun, ShowLog, BreakRun
<1>2. \/ UNCHANGED script
      \/ script = "waiting" /\ script' = "running"
      \/ script = "running" /\ script' \in {"ended", "lost"}
  BY DEF Environment, ScriptStarts, ScriptEnds, ScriptLost, CreateRun, PrintTrailer, CompleteRun, ShowLog, BreakRun
<1>3. phase = "called" => UNCHANGED <<run, script>>
  BY DEF Environment, ScriptStarts, ScriptEnds, ScriptLost, CreateRun, PrintTrailer, CompleteRun, ShowLog, BreakRun,
     Sent, LocalInOrder, IInv, TypeOK
<1> QED BY <1>1, <1>2, <1>3

LEMMA CallEffect ==
    ASSUME IInv, Call \/ Timeout
    PROVE  UNCHANGED <<run, script>> /\ phase' # "called"
<1> USE DEF cluster, platform, Return
<1>1. UNCHANGED <<run, script>>
  BY DEF Call, Timeout, RunNowhere, MintFails, Spawn, ReturnCode, ReturnBroken, StartRun, Started, View, ViewUnreadable,
     ReadLog, TimeOut, StartFails, GiveUpPolling
<1>2. CASE \E answered \in BOOLEAN : ReadLog(answered)
  <2>1. PICK answered \in BOOLEAN : ReadLog(answered)
    BY <1>2
  <2>2. phase' = "returned" \/ (phase' = phase /\ phase = "reading")
    BY <2>1 DEF ReadLog
  <2> QED BY <1>1, <2>2
<1>3. CASE ~ \E answered \in BOOLEAN : ReadLog(answered)
  BY <1>1, <1>3 DEF Call, Timeout, RunNowhere, MintFails, Spawn, ReturnCode, ReturnBroken, StartRun, Started, View, ViewUnreadable,
     TimeOut, StartFails, GiveUpPolling
<1> QED BY <1>2, <1>3

-----------------------------------------------------------------------------
LEMMA WorldStep ==
    ASSUME FsInv, IInv', World
    PROVE  FsInv'
<1> USE DEF FsInv, request, handler, upstream, Remote, BadInput
<1>1. CASE Environment /\ UNCHANGED <<request, handler, upstream, client>>
  <2>1. /\ UNCHANGED <<phase, result>>
        /\ phase = "called" => UNCHANGED <<run, script>>
        /\ script = "ended" => UNCHANGED script
    BY <1>1, EnvironmentEffect
  <2>2. FsTypeOK'
    BY <1>1 DEF FsTypeOK, IInv
  <2>3. LocalInOrder' /\ UpstreamInOrder' /\ OutcomeIsTrue'
    BY <1>1, <2>1 DEF LocalInOrder, UpstreamInOrder, OutcomeIsTrue
  <2> QED BY <2>2, <2>3
<1>2. CASE UpAccepts
  <2>1. UNCHANGED <<phase, run, script>>
    BY <1>2 DEF UpAccepts, vars, caller, cluster, platform
  <2>2. FsTypeOK'
    BY <1>2 DEF UpAccepts, FsTypeOK, IInv
  <2>3. LocalInOrder' /\ UpstreamInOrder' /\ OutcomeIsTrue'
    BY <1>2, <2>1 DEF UpAccepts, LocalInOrder, UpstreamInOrder, OutcomeIsTrue, FsTypeOK
  <2> QED BY <2>2, <2>3
<1>3. CASE UpScriptSteps
  <2>1. UNCHANGED <<phase, run, script>>
    BY <1>3 DEF UpScriptSteps, vars, caller, cluster, platform
  <2>2. FsTypeOK'
    BY <1>3 DEF UpScriptSteps, FsTypeOK, IInv
  <2>3. LocalInOrder' /\ UpstreamInOrder' /\ OutcomeIsTrue'
    BY <1>3, <2>1 DEF UpScriptSteps, LocalInOrder, UpstreamInOrder, OutcomeIsTrue
  <2> QED BY <2>2, <2>3
<1>4. ASSUME NEW outcome \in TaskOver, UpSettles(outcome) PROVE FsInv'
  <2>1. UNCHANGED <<phase, run, script>>
    BY <1>4 DEF UpSettles, vars, caller, cluster, platform
  <2>2. FsTypeOK'
    BY <1>4 DEF UpSettles, FsTypeOK, IInv
  <2>3. LocalInOrder' /\ UpstreamInOrder' /\ OutcomeIsTrue'
    BY <1>4, <2>1 DEF UpSettles, LocalInOrder, UpstreamInOrder, OutcomeIsTrue
  <2> QED BY <2>2, <2>3
<1> QED BY <1>1, <1>2, <1>3, <1>4 DEF World

LEMMA HandlerStep ==
    ASSUME FsInv, IInv', Handler
    PROVE  FsInv'
<1> USE DEF FsInv, request, upstream, Remote, BadInput
<1>1. CASE RunExecutor
  <2> USE DEF handler
  <2>1. UNCHANGED <<run, script>> /\ phase' # "called"
    BY <1>1, CallEffect DEF RunExecutor
  <2>2. FsTypeOK'
    BY <1>1 DEF RunExecutor, FsTypeOK, IInv
  <2>3. LocalInOrder' /\ UpstreamInOrder' /\ OutcomeIsTrue'
    BY <1>1, <2>1 DEF RunExecutor, LocalInOrder, UpstreamInOrder, OutcomeIsTrue
  <2> QED BY <2>2, <2>3
<1>2. CASE StartLocal
  <2>1. UNCHANGED <<phase, run, script>>
    BY <1>2 DEF StartLocal, vars, caller, cluster, platform
  <2>2. FsTypeOK'
    BY <1>2 DEF StartLocal, Refuse, FsTypeOK, IInv
  <2>3. LocalInOrder' /\ UpstreamInOrder' /\ OutcomeIsTrue'
    BY <1>2, <2>1 DEF StartLocal, Refuse, LocalInOrder, UpstreamInOrder, OutcomeIsTrue, FsTypeOK
  <2> QED BY <2>2, <2>3
<1>3. ASSUME NEW token \in BOOLEAN, StartRemote(token) PROVE FsInv'
  <2>1. UNCHANGED <<phase, run, script>>
    BY <1>3 DEF StartRemote, vars, caller, cluster, platform
  <2>2. FsTypeOK'
    BY <1>3 DEF StartRemote, Refuse, FsTypeOK, IInv
  <2>3. LocalInOrder' /\ UpstreamInOrder' /\ OutcomeIsTrue'
    BY <1>3, <2>1 DEF StartRemote, Refuse, LocalInOrder, UpstreamInOrder, OutcomeIsTrue, FsTypeOK
  <2> QED BY <2>2, <2>3
<1>4. ASSUME NEW served \in BOOLEAN, Resolve(served) PROVE FsInv'
  <2>1. UNCHANGED <<phase, run, script>>
    BY <1>4 DEF Resolve, vars, caller, cluster, platform
  <2>2. FsTypeOK'
    BY <1>4 DEF Resolve, Refuse, FsTypeOK, IInv
  <2>3. LocalInOrder' /\ UpstreamInOrder' /\ OutcomeIsTrue'
    BY <1>4, <2>1 DEF Resolve, Refuse, LocalInOrder, UpstreamInOrder, OutcomeIsTrue, FsTypeOK
  <2> QED BY <2>2, <2>3
<1>5. ASSUME NEW parsed \in BOOLEAN, FinishLocal(parsed) PROVE FsInv'
  <2>1. UNCHANGED <<phase, result, run, script>>
    BY <1>5 DEF FinishLocal, vars, caller, cluster, platform
  <2>2. FsTypeOK'
    BY <1>5 DEF FinishLocal, Settle, FsTypeOK, IInv
  <2>3. ReturnedOk => script = "ended"
    BY DEF ReturnedOk, IInv, SuccessIsTrue
  <2>4. LocalInOrder' /\ UpstreamInOrder' /\ OutcomeIsTrue'
    BY <1>5, <2>1, <2>3 DEF FinishLocal, Settle, LocalInOrder, UpstreamInOrder, OutcomeIsTrue, FsTypeOK
  <2> QED BY <2>2, <2>4
<1>6. CASE PostRefused
  <2>1. UNCHANGED <<phase, run, script>>
    BY <1>6 DEF PostRefused, vars, caller, cluster, platform
  <2>2. FsTypeOK'
    BY <1>6 DEF PostRefused, Settle, FsTypeOK, IInv
  <2>3. LocalInOrder' /\ UpstreamInOrder' /\ OutcomeIsTrue'
    BY <1>6, <2>1 DEF PostRefused, Settle, LocalInOrder, UpstreamInOrder, OutcomeIsTrue, FsTypeOK
  <2> QED BY <2>2, <2>3
<1>7. CASE PostLost \/ PostAnswered \/ PollOver \/ GiveUp
  <2>1. UNCHANGED <<phase, run, script>>
    BY <1>7 DEF PostLost, PostAnswered, PollOver, GiveUp, vars, caller, cluster, platform
  <2>2. FsTypeOK'
    BY <1>7 DEF PostLost, PostAnswered, PollOver, GiveUp, Settle, Answer, FsTypeOK, IInv
  <2>3. LocalInOrder' /\ UpstreamInOrder' /\ OutcomeIsTrue'
    BY <1>7, <2>1 DEF PostLost, PostAnswered, PollOver, GiveUp, Settle, Answer, LocalInOrder, UpstreamInOrder, OutcomeIsTrue, FsTypeOK
  <2> QED BY <2>2, <2>3
<1> QED BY <1>1, <1>2, <1>3, <1>4, <1>5, <1>6, <1>7 DEF Handler

LEMMA ClientStep ==
    ASSUME FsInv, IInv', ClientTold \/ ClientLeaves \/ UNCHANGED fsVars
    PROVE  FsInv'
<1> USE DEF FsInv, request, handler, upstream, Remote, BadInput, fsVars
<1>1. UNCHANGED <<phase, run, script, request, handler, upstream>>
  BY DEF ClientTold, ClientLeaves, vars, caller, cluster, platform
<1>2. FsTypeOK'
  BY <1>1 DEF ClientTold, ClientLeaves, FsTypeOK, IInv
<1>3. LocalInOrder' /\ UpstreamInOrder' /\ OutcomeIsTrue'
  BY <1>1 DEF LocalInOrder, UpstreamInOrder, OutcomeIsTrue
<1> QED BY <1>2, <1>3

LEMMA FsInvariance == FsSpec => []FsInv
<1>1. FsInv /\ [FsNext]_fsVars => FsInv'
  <2> SUFFICES ASSUME FsInv, [FsNext]_fsVars PROVE FsInv'
    OBVIOUS
  <2>1. [Next]_vars
    BY ExecutionStep DEF fsVars
  <2>2. IInv'
    BY <2>1, IInvStep DEF FsInv
  <2> QED BY <2>2, WorldStep, HandlerStep, ClientStep DEF FsNext
<1> QED BY <1>1, FsInitially, PTL DEF FsSpec

-----------------------------------------------------------------------------
\* Every reachable state of task, call and upstream task is well typed.
THEOREM TaskTypeCorrect == FsSpec => []FsTypeOK
<1>1. FsInv => FsTypeOK
  BY DEF FsInv
<1> QED BY <1>1, FsInvariance, PTL

\* What this endpoint refuses is never sent anywhere, what reaches a cluster has
\* passed the checks, and what is done in one place is not done in the other
\* (filesystem.py _forward and _run, gateway.py filesystem).
THEOREM RefusedHasNoEffectAlways == FsSpec => []RefusedHasNoEffect
<1>1. FsInv => RefusedHasNoEffect
  BY DEF FsInv, IInv, CallInOrder, LocalInOrder, UpstreamInOrder, RefusedHasNoEffect, BadInput, Remote, FsTypeOK
<1> QED BY <1>1, FsInvariance, PTL

\* A filesystem task runs its operation once at most, here or at the other
\* facility, and is completed only after that (filesystem.py, gateway.py
\* filesystem).
THEOREM TaskImplementsCommand == FsSpec => OperationSpec
<1> DEFINE opScript == IF Remote THEN upScript ELSE script
           opAnswer == CASE task = "completed" -> "success" [] task = "failed" -> "failure" [] OTHER -> "none"
<1>1. FsInit => Operate!Init
  BY DEF FsInit, Init, Operate!Init, Remote
<1>2. ASSUME FsInv, FsInv', [FsNext]_fsVars PROVE [Operate!Next]_(Operate!vars)
  <2> SUFFICES [Operate!Next]_<<opScript, opAnswer>>
    BY DEF Operate!vars
  <2> USE DEF request, handler, upstream
  <2>1. Remote' = Remote
    BY <1>2 DEF Remote, FsNext, World, UpAccepts, UpScriptSteps, UpSettles, Handler, StartLocal, RunExecutor, StartRemote, Resolve,
       FinishLocal, PostRefused, PostLost, PostAnswered, PollOver, GiveUp, ClientTold, ClientLeaves, fsVars
  <2>2. CASE World
    <3>1. opAnswer' = opAnswer
      BY <2>2 DEF World, UpAccepts, UpScriptSteps, UpSettles
    <3>2. \/ opScript' = opScript
          \/ opScript = "waiting" /\ opScript' = "running"
          \/ opScript = "running" /\ opScript' \in {"ended", "lost"}
      <4>1. CASE Environment /\ UNCHANGED <<request, handler, upstream, client>>
        BY <1>2, <2>1, <4>1, EnvironmentEffect DEF FsInv
      <4>2. CASE ~(Environment /\ UNCHANGED <<request, handler, upstream, client>>)
        BY <2>1, <2>2, <4>2 DEF World, UpAccepts, UpScriptSteps, UpSettles, vars, cluster
      <4> QED BY <4>1, <4>2
    <3> QED BY <3>1, <3>2 DEF Operate!Next, Operate!ScriptStarts, Operate!ScriptStops
  <2>3. CASE Handler
    <3>1. opScript' = opScript
      <4>1. CASE RunExecutor
        BY <1>2, <2>1, <4>1, CallEffect DEF RunExecutor, FsInv
      <4>2. CASE ~RunExecutor
        BY <2>1, <2>3, <4>2 DEF Handler, StartLocal, StartRemote, Resolve, FinishLocal, PostRefused, PostLost, PostAnswered,
           PollOver, GiveUp, vars, cluster
      <4> QED BY <4>1, <4>2
    <3>2. task' = task \/ task = "active"
      BY <1>2, <2>3 DEF FsInv, OutcomeIsTrue, Handler, StartLocal, RunExecutor, StartRemote, Resolve, FinishLocal, PostRefused,
         PostLost, PostAnswered, PollOver, GiveUp
    <3>3. task' \in {"active", "completed", "failed"}
      BY <1>2 DEF FsInv, FsTypeOK
    <3>4. CASE task' = task
      BY <3>1, <3>4
    <3>5. CASE task = "active" /\ task' = "completed"
      <4>1. opAnswer = "none" /\ opAnswer' = "success"
        BY <3>5
      <4>2. opScript = "ended"
        BY <1>2, <3>1, <3>5 DEF FsInv, OutcomeIsTrue
      <4> QED BY <3>1, <4>1, <4>2 DEF Operate!Next, Operate!Succeed
    <3>6. CASE task = "active" /\ task' = "failed"
      <4>1. opAnswer = "none" /\ opAnswer' = "failure"
        BY <3>6
      <4> QED BY <3>1, <4>1 DEF Operate!Next, Operate!Fail
    <3> QED BY <3>2, <3>3, <3>4, <3>5, <3>6
  <2>4. CASE ClientTold \/ ClientLeaves \/ UNCHANGED fsVars
    BY <2>1, <2>4 DEF ClientTold, ClientLeaves, fsVars, vars, cluster
  <2> QED BY <1>2, <2>2, <2>3, <2>4 DEF FsNext
<1> QED BY <1>1, <1>2, FsInvariance, PTL DEF FsSpec, OperationSpec, Operate!Spec
=============================================================================
