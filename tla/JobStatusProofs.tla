--------------------------- MODULE JobStatusProofs ---------------------------
(***************************************************************************)
(* Proofs about JobStatus: its types, that no source lets a job be         *)
(* reported completed or over when it is not, and that a job that ran to   *)
(* its end is reported by its exit code.                                   *)
(***************************************************************************)
EXTENDS JobStatus, TLAPS

\* The facts about the job: an exit code exists once the command has ended, the
\* file holds it or the mark of cancel_job, and an end is what it is called.
Truthful ==
    /\ code # None <=> command = "ended"
    /\ rc \notin {None, Empty, SIGTERM} => rc = code
    /\ rc = Empty => command = "ended" \/ cancel = "emptied"
    /\ rc = SIGTERM => cancel = "done"
    /\ rc = SIGTERM \/ cancel \in {"killed", "emptied"} => driver = "shell"
    /\ sched \in Unlisted => driver = "slurm"
    /\ sched \in {"queued", "special"} => Batch /\ command = "waiting"
    /\ sched = "active" /\ driver = "shell" => cancel = "no"
    /\ sched = "completed" => command = "ended" /\ code = 0

\* The job is over, or a shell job is being canceled.
OverOrCanceled == command \in {"ended", "killed"} \/ (driver = "shell" /\ cancel # "no")

SchedIsOver == sched \in Over => OverOrCanceled

\* Accounting knows no end but the one that came.
AcctLags ==
    /\ acct \in Over => acct = sched
    /\ ~accounting => acct = None

\* What any answer or partial answer may say; it stays true as the job goes on.
Honest(word) ==
    /\ word = "completed" =>
          \/ command = "ended" /\ code = 0
          \/ driver = "pbs" /\ (command = "killed" \/ sched = "canceled")
    /\ word \in Over => OverOrCanceled

PollHonest == Honest(poll.found) /\ Honest(report.word)

\* The sources are asked by the driver that has them.
PollOfDriver ==
    /\ poll.at \in {"sacct", "scontrol"} => driver = "slurm"
    /\ poll.at = "rcfile" => Batch
    /\ poll.at = "pid" => driver = "shell"

\* A status command that began when all was settled has found nothing or the
\* truth; beside a missing exit code file no other appears.
PollSettled ==
    /\ poll.settled \/ report.settled => Settled \/ (driver = "shell" /\ sched \in Over)
    /\ poll.settled /\ poll.at = "pid" => rc \in {None, Empty, SIGTERM}
    /\ poll.settled /\ RanToItsEnd /\ Batch => poll.found \in {None, ByCode(code)}

JobInv == Truthful /\ SchedIsOver /\ AcctLags
PollInv == PollHonest /\ PollOfDriver /\ PollSettled /\ SettledReportIsRight
IInv == TypeOK /\ JobInv /\ PollInv

-----------------------------------------------------------------------------
LEMMA Strings == None \notin Nat /\ None \notin Word /\ Empty \notin Nat /\ Empty # None
BY NoneAssumption, EmptyAssumption DEF Word, Unlisted, Over

USE Strings DEF Word, Unlisted, Over, Batch, ByCode, SIGTERM

LEMMA Initially == Init => IInv
BY DEF Init, Idle, Unasked, IInv, TypeOK, JobInv, Truthful, SchedIsOver, OverOrCanceled, AcctLags,
   PollInv, PollHonest, Honest, OverOrCanceled, PollOfDriver, PollSettled,
     SettledReportIsRight, Reported, StateOf, RanToItsEnd, Settled

LEMMA StartStep ==
    ASSUME IInv, Start
    PROVE  IInv'
<1>1. TypeOK'
  BY DEF IInv, TypeOK, Start, job, records
<1>2. JobInv'
  BY DEF IInv, TypeOK, JobInv, Truthful, SchedIsOver, OverOrCanceled, AcctLags, Start, job, records
<1>3. PollInv'
  BY DEF IInv, TypeOK, JobInv, Truthful, SchedIsOver, AcctLags, PollInv, PollHonest, Honest, OverOrCanceled, PollOfDriver, PollSettled,
     SettledReportIsRight, Reported, StateOf, RanToItsEnd, Settled,
     Start, job, records
<1> QED BY <1>1, <1>2, <1>3 DEF IInv

LEMMA LeaveUnlistedStep ==
    ASSUME IInv, LeaveUnlisted
    PROVE  IInv'
<1>1. TypeOK'
  BY DEF IInv, TypeOK, LeaveUnlisted, job, records
<1>2. JobInv'
  BY DEF IInv, TypeOK, JobInv, Truthful, SchedIsOver, OverOrCanceled, AcctLags, LeaveUnlisted, job, records
<1>3. PollInv'
  BY DEF IInv, TypeOK, JobInv, Truthful, SchedIsOver, AcctLags, PollInv, PollHonest, Honest, OverOrCanceled, PollOfDriver, PollSettled,
     SettledReportIsRight, Reported, StateOf, RanToItsEnd, Settled,
     LeaveUnlisted, job, records
<1> QED BY <1>1, <1>2, <1>3 DEF IInv

LEMMA EnterUnlistedStep ==
    ASSUME IInv, EnterUnlisted
    PROVE  IInv'
<1>1. TypeOK'
  BY DEF IInv, TypeOK, EnterUnlisted, job, records
<1>2. JobInv'
  BY DEF IInv, TypeOK, JobInv, Truthful, SchedIsOver, OverOrCanceled, AcctLags, EnterUnlisted, job, records
<1>3. PollInv'
  BY DEF IInv, TypeOK, JobInv, Truthful, SchedIsOver, AcctLags, PollInv, PollHonest, Honest, OverOrCanceled, PollOfDriver, PollSettled,
     SettledReportIsRight, Reported, StateOf, RanToItsEnd, Settled,
     EnterUnlisted, job, records
<1> QED BY <1>1, <1>2, <1>3 DEF IInv

LEMMA CommandEndsStep ==
    ASSUME IInv, NEW c \in {0, 1}, CommandEnds(c)
    PROVE  IInv'
<1>1. TypeOK'
  BY DEF IInv, TypeOK, CommandEnds, job, records
<1>2. JobInv'
  BY DEF IInv, TypeOK, JobInv, Truthful, SchedIsOver, OverOrCanceled, AcctLags, CommandEnds, job, records
<1>3. PollInv'
  BY DEF IInv, TypeOK, JobInv, Truthful, SchedIsOver, AcctLags, PollInv, PollHonest, Honest, OverOrCanceled, PollOfDriver, PollSettled,
     SettledReportIsRight, Reported, StateOf, RanToItsEnd, Settled,
     CommandEnds, job, records
<1> QED BY <1>1, <1>2, <1>3 DEF IInv

LEMMA CreateRcStep ==
    ASSUME IInv, CreateRc
    PROVE  IInv'
<1>1. TypeOK'
  BY DEF IInv, TypeOK, CreateRc, job, records
<1>2. JobInv'
  BY DEF IInv, TypeOK, JobInv, Truthful, SchedIsOver, OverOrCanceled, AcctLags, CreateRc, job, records
<1>3. PollInv'
  BY DEF IInv, TypeOK, JobInv, Truthful, SchedIsOver, AcctLags, PollInv, PollHonest, Honest, OverOrCanceled, PollOfDriver, PollSettled,
     SettledReportIsRight, Reported, StateOf, RanToItsEnd, Settled,
     CreateRc, job, records
<1> QED BY <1>1, <1>2, <1>3 DEF IInv

LEMMA WriteRcStep ==
    ASSUME IInv, WriteRc
    PROVE  IInv'
<1>1. TypeOK'
  BY DEF IInv, TypeOK, WriteRc, job, records
<1>2. JobInv'
  BY DEF IInv, TypeOK, JobInv, Truthful, SchedIsOver, OverOrCanceled, AcctLags, WriteRc, job, records
<1>3. PollInv'
  BY DEF IInv, TypeOK, JobInv, Truthful, SchedIsOver, AcctLags, PollInv, PollHonest, Honest, OverOrCanceled, PollOfDriver, PollSettled,
     SettledReportIsRight, Reported, StateOf, RanToItsEnd, Settled,
     WriteRc, job, records
<1> QED BY <1>1, <1>2, <1>3 DEF IInv

LEMMA FinishStep ==
    ASSUME IInv, Finish
    PROVE  IInv'
<1>1. TypeOK'
  BY DEF IInv, TypeOK, Finish, job, records
<1>2. JobInv'
  BY DEF IInv, TypeOK, JobInv, Truthful, SchedIsOver, OverOrCanceled, AcctLags, Finish, job, records
<1>3. PollInv'
  BY DEF IInv, TypeOK, JobInv, Truthful, SchedIsOver, AcctLags, PollInv, PollHonest, Honest, OverOrCanceled, PollOfDriver, PollSettled,
     SettledReportIsRight, Reported, StateOf, RanToItsEnd, Settled,
     Finish, job, records
<1> QED BY <1>1, <1>2, <1>3 DEF IInv

LEMMA KilledStep ==
    ASSUME IInv, Killed
    PROVE  IInv'
<1>1. TypeOK'
  BY DEF IInv, TypeOK, Killed, Stop, job, records
<1>2. JobInv'
  BY DEF IInv, TypeOK, JobInv, Truthful, SchedIsOver, OverOrCanceled, AcctLags, Killed, Stop, job, records
<1>3. PollInv'
  BY DEF IInv, TypeOK, JobInv, Truthful, SchedIsOver, AcctLags, PollInv, PollHonest, Honest, OverOrCanceled, PollOfDriver, PollSettled,
     SettledReportIsRight, Reported, StateOf, RanToItsEnd, Settled,
     Killed, Stop, job, records
<1> QED BY <1>1, <1>2, <1>3 DEF IInv

LEMMA AcctCatchesUpStep ==
    ASSUME IInv, AcctCatchesUp
    PROVE  IInv'
<1>1. TypeOK'
  BY DEF IInv, TypeOK, AcctCatchesUp, Age, job, records
<1>2. JobInv'
  BY DEF IInv, TypeOK, JobInv, Truthful, SchedIsOver, OverOrCanceled, AcctLags, AcctCatchesUp, Age, job, records
<1>3. PollInv'
  BY DEF IInv, TypeOK, JobInv, Truthful, SchedIsOver, AcctLags, PollInv, PollHonest, Honest, OverOrCanceled, PollOfDriver, PollSettled,
     SettledReportIsRight, Reported, StateOf, RanToItsEnd, Settled,
     AcctCatchesUp, Age, job, records
<1> QED BY <1>1, <1>2, <1>3 DEF IInv

LEMMA ForgetStep ==
    ASSUME IInv, Forget
    PROVE  IInv'
<1>1. TypeOK'
  <2>1. memory' \in BOOLEAN
    BY DEF Forget
  <2> QED BY <2>1 DEF IInv, TypeOK, Forget, job
<1>2. JobInv'
  BY DEF IInv, TypeOK, JobInv, Truthful, SchedIsOver, OverOrCanceled, AcctLags, Forget, job, records
<1>3. PollInv'
  BY DEF IInv, TypeOK, JobInv, Truthful, SchedIsOver, AcctLags, PollInv, PollHonest, Honest, OverOrCanceled, PollOfDriver, PollSettled,
     SettledReportIsRight, Reported, StateOf, RanToItsEnd, Settled,
     Forget, job, records
<1> QED BY <1>1, <1>2, <1>3 DEF IInv

LEMMA CancelBatchStep ==
    ASSUME IInv, CancelBatch
    PROVE  IInv'
<1>1. TypeOK'
  BY DEF IInv, TypeOK, CancelBatch, Stop, job, records
<1>2. JobInv'
  BY DEF IInv, TypeOK, JobInv, Truthful, SchedIsOver, OverOrCanceled, AcctLags, CancelBatch, Stop, job, records
<1>3. PollInv'
  BY DEF IInv, TypeOK, JobInv, Truthful, SchedIsOver, AcctLags, PollInv, PollHonest, Honest, OverOrCanceled, PollOfDriver, PollSettled,
     SettledReportIsRight, Reported, StateOf, RanToItsEnd, Settled,
     CancelBatch, Stop, job, records
<1> QED BY <1>1, <1>2, <1>3 DEF IInv

LEMMA CancelKillStep ==
    ASSUME IInv, CancelKill
    PROVE  IInv'
<1>1. TypeOK'
  BY DEF IInv, TypeOK, CancelKill, job, records
<1>2. JobInv'
  BY DEF IInv, TypeOK, JobInv, Truthful, SchedIsOver, OverOrCanceled, AcctLags, CancelKill, job, records
<1>3. PollInv'
  BY DEF IInv, TypeOK, JobInv, Truthful, SchedIsOver, AcctLags, PollInv, PollHonest, Honest, OverOrCanceled, PollOfDriver, PollSettled,
     SettledReportIsRight, Reported, StateOf, RanToItsEnd, Settled,
     CancelKill, job, records
<1> QED BY <1>1, <1>2, <1>3 DEF IInv

LEMMA CancelEmptyStep ==
    ASSUME IInv, CancelEmpty
    PROVE  IInv'
<1>1. TypeOK'
  BY DEF IInv, TypeOK, CancelEmpty, job, records
<1>2. JobInv'
  BY DEF IInv, TypeOK, JobInv, Truthful, SchedIsOver, OverOrCanceled, AcctLags, CancelEmpty, job, records
<1>3. PollInv'
  BY DEF IInv, TypeOK, JobInv, Truthful, SchedIsOver, AcctLags, PollInv, PollHonest, Honest, OverOrCanceled, PollOfDriver, PollSettled,
     SettledReportIsRight, Reported, StateOf, RanToItsEnd, Settled,
     CancelEmpty, job, records
<1> QED BY <1>1, <1>2, <1>3 DEF IInv

LEMMA CancelMarkStep ==
    ASSUME IInv, CancelMark
    PROVE  IInv'
<1>1. TypeOK'
  BY DEF IInv, TypeOK, CancelMark, job, records
<1>2. JobInv'
  BY DEF IInv, TypeOK, JobInv, Truthful, SchedIsOver, OverOrCanceled, AcctLags, CancelMark, job, records
<1>3. PollInv'
  BY DEF IInv, TypeOK, JobInv, Truthful, SchedIsOver, AcctLags, PollInv, PollHonest, Honest, OverOrCanceled, PollOfDriver, PollSettled,
     SettledReportIsRight, Reported, StateOf, RanToItsEnd, Settled,
     CancelMark, job, records
<1> QED BY <1>1, <1>2, <1>3 DEF IInv

-----------------------------------------------------------------------------
(* The sources of get_job.                                                 *)

PollType == [at : {"idle", "sacct", "scontrol", "rcfile", "pid"}, found : Word \cup {None}, settled : BOOLEAN]

LEMMA AskType ==
    ASSUME NEW source \in Word \cup {None}, NEW next \in {"sacct", "rcfile", "pid"}, Ask(source, next)
    PROVE  poll' \in PollType
<1>1. Settled \in BOOLEAN
  BY DEF Settled
<1> QED BY <1>1 DEF Ask, PollType

LEMMA AskNextType ==
    ASSUME TypeOK, NEW source \in Word \cup {None}, NEW next \in {"scontrol", "rcfile"}, AskNext(source, next)
    PROVE  poll' \in PollType
<1>1. poll \in PollType
  BY DEF TypeOK, PollType
<1>2. Found(source) \in Word \cup {None}
  BY <1>1 DEF Found, PollType
<1> QED BY <1>1, <1>2 DEF AskNext, PollType

LEMMA AnswerType ==
    ASSUME NEW word \in Word \cup {None}, NEW settled \in BOOLEAN, Answer(word, settled)
    PROVE  poll' \in PollType /\ report' \in [word : Word \cup {None}, settled : BOOLEAN]
BY DEF Answer, Idle, PollType

LEMMA AskSqueueStep ==
    ASSUME IInv, NEW answered \in BOOLEAN, AskSqueue(answered)
    PROVE  IInv'
<1>1. TypeOK'
  BY DEF IInv, TypeOK, Settled, AskSqueue, Ask, Live, Environment, job, records
<1>2. JobInv'
  BY DEF IInv, JobInv, Truthful, SchedIsOver, OverOrCanceled, AcctLags, AskSqueue, Ask, Live, Environment, job, records
<1>3. PollInv'
  BY DEF IInv, TypeOK, JobInv, Truthful, SchedIsOver, OverOrCanceled, AcctLags, PollInv, PollHonest, Honest, PollOfDriver, PollSettled,
     SettledReportIsRight, Reported, StateOf, RanToItsEnd, Settled,
     AskSqueue, Ask, Live, Environment, job, records
<1> QED BY <1>1, <1>2, <1>3 DEF IInv

LEMMA AskSqueueOnlyStep ==
    ASSUME IInv, NEW answered \in BOOLEAN, AskSqueueOnly(answered)
    PROVE  IInv'
<1>1. TypeOK'
  BY DEF IInv, TypeOK, Settled, AskSqueueOnly, Answer, Idle, Live, Environment, job, records
<1>2. JobInv'
  BY DEF IInv, JobInv, Truthful, SchedIsOver, OverOrCanceled, AcctLags, AskSqueueOnly, Answer, Idle, Live, Environment, job, records
<1>3. PollInv'
  BY DEF IInv, TypeOK, JobInv, Truthful, SchedIsOver, OverOrCanceled, AcctLags, PollInv, PollHonest, Honest, PollOfDriver, PollSettled,
     SettledReportIsRight, Reported, StateOf, RanToItsEnd, Settled,
     AskSqueueOnly, Answer, Idle, Live, Environment, job, records
<1> QED BY <1>1, <1>2, <1>3 DEF IInv

LEMMA AskSacctStep ==
    ASSUME IInv, NEW answered \in BOOLEAN, AskSacct(answered)
    PROVE  IInv'
<1>1. TypeOK'
  <2>1. (IF answered THEN acct ELSE None) \in Word \cup {None}
    BY DEF IInv, TypeOK
  <2>2. poll' \in PollType
    BY <2>1, AskNextType DEF IInv, AskSacct
  <2> QED BY <2>2 DEF IInv, TypeOK, PollType, AskSacct, Environment, job, records
<1>2. JobInv'
  BY DEF IInv, JobInv, Truthful, SchedIsOver, OverOrCanceled, AcctLags, AskSacct, AskNext, Found, Environment, job, records
<1>3. PollInv'
  BY DEF IInv, TypeOK, JobInv, Truthful, SchedIsOver, OverOrCanceled, AcctLags, PollInv, PollHonest, Honest, PollOfDriver, PollSettled,
     SettledReportIsRight, Reported, StateOf, RanToItsEnd, Settled,
     AskSacct, AskNext, Found, Environment, job, records
<1> QED BY <1>1, <1>2, <1>3 DEF IInv

LEMMA AskScontrolStep ==
    ASSUME IInv, NEW answered \in BOOLEAN, AskScontrol(answered)
    PROVE  IInv'
<1>1. TypeOK'
  <2>1. (IF answered /\ memory THEN sched ELSE None) \in Word \cup {None}
    BY DEF IInv, TypeOK
  <2>2. poll' \in PollType
    BY <2>1, AskNextType DEF IInv, AskScontrol
  <2> QED BY <2>2 DEF IInv, TypeOK, PollType, AskScontrol, Environment, job, records
<1>2. JobInv'
  BY DEF IInv, JobInv, Truthful, SchedIsOver, OverOrCanceled, AcctLags, AskScontrol, AskNext, Found, Environment, job, records
<1>3. PollInv'
  BY DEF IInv, TypeOK, JobInv, Truthful, SchedIsOver, OverOrCanceled, AcctLags, PollInv, PollHonest, Honest, PollOfDriver, PollSettled,
     SettledReportIsRight, Reported, StateOf, RanToItsEnd, Settled,
     AskScontrol, AskNext, Found, Environment, job, records
<1> QED BY <1>1, <1>2, <1>3 DEF IInv

LEMMA AskQstatStep ==
    ASSUME IInv, NEW answered \in BOOLEAN, NEW historical \in BOOLEAN, AskQstat(answered, historical)
    PROVE  IInv'
<1>1. TypeOK'
  <2>1. \E source \in Word \cup {None} : Ask(source, "rcfile")
    BY DEF IInv, TypeOK, AskQstat, PBSWords
  <2>2. poll' \in PollType
    BY <2>1, AskType
  <2> QED BY <2>2 DEF IInv, TypeOK, PollType, AskQstat, Environment, job, records
<1>2. JobInv'
  BY DEF IInv, JobInv, Truthful, SchedIsOver, OverOrCanceled, AcctLags, AskQstat, Ask, PBSWords, Environment, job, records
<1>3. PollInv'
  BY DEF IInv, TypeOK, JobInv, Truthful, SchedIsOver, OverOrCanceled, AcctLags, PollInv, PollHonest, Honest, PollOfDriver, PollSettled,
     SettledReportIsRight, Reported, StateOf, RanToItsEnd, Settled,
     AskQstat, Ask, PBSWords, Environment, job, records
<1> QED BY <1>1, <1>2, <1>3 DEF IInv

LEMMA ReadRcStep ==
    ASSUME IInv, ReadRc
    PROVE  IInv'
<1>1. TypeOK'
  BY DEF IInv, TypeOK, Settled, ReadRc, Answer, Idle, Found, Environment, job, records
<1>2. JobInv'
  BY DEF IInv, JobInv, Truthful, SchedIsOver, OverOrCanceled, AcctLags, ReadRc, Answer, Idle, Found, Environment, job, records
<1>3. PollInv'
  BY DEF IInv, TypeOK, JobInv, Truthful, SchedIsOver, OverOrCanceled, AcctLags, PollInv, PollHonest, Honest, PollOfDriver, PollSettled,
     SettledReportIsRight, Reported, StateOf, RanToItsEnd, Settled,
     ReadRc, Answer, Idle, Found, Environment, job, records
<1> QED BY <1>1, <1>2, <1>3 DEF IInv

LEMMA ReadRcRaisesStep ==
    ASSUME IInv, ReadRcRaises
    PROVE  IInv'
<1>1. TypeOK'
  BY DEF IInv, TypeOK, Settled, ReadRcRaises, Answer, Idle, Found, Environment, job, records
<1>2. JobInv'
  BY DEF IInv, JobInv, Truthful, SchedIsOver, OverOrCanceled, AcctLags, ReadRcRaises, Answer, Idle, Found, Environment, job, records
<1>3. PollInv'
  BY DEF IInv, TypeOK, JobInv, Truthful, SchedIsOver, OverOrCanceled, AcctLags, PollInv, PollHonest, Honest, PollOfDriver, PollSettled,
     SettledReportIsRight, Reported, StateOf, RanToItsEnd, Settled,
     ReadRcRaises, Answer, Idle, Found, Environment, job, records
<1> QED BY <1>1, <1>2, <1>3 DEF IInv

LEMMA TestRcStep ==
    ASSUME IInv, TestRc
    PROVE  IInv'
<1>1. TypeOK'
  <2>1. Settled \in BOOLEAN
    BY DEF Settled
  <2>2. CASE rc # None
    <3>1. Answer(ByCode(rc), Settled)
      BY <2>2 DEF TestRc
    <3>2. poll' \in PollType /\ report' \in [word : Word \cup {None}, settled : BOOLEAN]
      BY <2>1, <3>1, AnswerType
    <3> QED BY <3>2 DEF IInv, TypeOK, PollType, TestRc, Environment, job, records
  <2>3. CASE rc = None
    <3>1. Ask(None, "pid")
      BY <2>3 DEF TestRc
    <3>2. poll' \in PollType
      BY <3>1, AskType
    <3> QED BY <2>3, <3>2 DEF IInv, TypeOK, PollType, TestRc, Environment, job, records
  <2> QED BY <2>2, <2>3
<1>2. JobInv'
  BY DEF IInv, JobInv, Truthful, SchedIsOver, OverOrCanceled, AcctLags, TestRc, Answer, Ask, Idle, Environment, job, records
<1>3. PollInv'
  BY DEF IInv, TypeOK, JobInv, Truthful, SchedIsOver, OverOrCanceled, AcctLags, PollInv, PollHonest, Honest, PollOfDriver, PollSettled,
     SettledReportIsRight, Reported, StateOf, RanToItsEnd, Settled,
     TestRc, Answer, Ask, Idle, Environment, job, records
<1> QED BY <1>1, <1>2, <1>3 DEF IInv

LEMMA TestPidStep ==
    ASSUME IInv, TestPid
    PROVE  IInv'
<1>1. TypeOK'
  BY DEF IInv, TypeOK, Settled, TestPid, Answer, Idle, Environment, job, records
<1>2. JobInv'
  BY DEF IInv, JobInv, Truthful, SchedIsOver, OverOrCanceled, AcctLags, TestPid, Answer, Idle, Environment, job, records
<1>3. PollInv'
  BY DEF IInv, TypeOK, JobInv, Truthful, SchedIsOver, OverOrCanceled, AcctLags, PollInv, PollHonest, Honest, PollOfDriver, PollSettled,
     SettledReportIsRight, Reported, StateOf, RanToItsEnd, Settled,
     TestPid, Answer, Idle, Environment, job, records
<1> QED BY <1>1, <1>2, <1>3 DEF IInv

-----------------------------------------------------------------------------
LEMMA Inductive == IInv /\ [Next]_vars => IInv'
<1> SUFFICES ASSUME IInv, [Next]_vars PROVE IInv'
  OBVIOUS
<1>1. CASE Start \/ EnterUnlisted \/ LeaveUnlisted \/ CreateRc \/ WriteRc \/ Finish \/ Killed \/ \E c \in {0, 1} : CommandEnds(c)
  BY <1>1, StartStep, EnterUnlistedStep, LeaveUnlistedStep, CreateRcStep, CommandEndsStep, WriteRcStep, FinishStep, KilledStep
<1>2. CASE AcctCatchesUp \/ Forget \/ CancelBatch \/ CancelKill \/ CancelEmpty \/ CancelMark
  BY <1>2, AcctCatchesUpStep, ForgetStep, CancelBatchStep, CancelKillStep, CancelEmptyStep, CancelMarkStep
<1>3. CASE GetJob
  BY <1>3, AskSqueueStep, AskSacctStep, AskScontrolStep, AskQstatStep, ReadRcStep, ReadRcRaisesStep, TestRcStep, TestPidStep DEF GetJob
<1>4. CASE \E answered \in BOOLEAN : AskSqueueOnly(answered)
  BY <1>4, AskSqueueOnlyStep
<1>5. CASE UNCHANGED vars
  BY <1>5 DEF vars, job, records, IInv, TypeOK, JobInv, Truthful, SchedIsOver, OverOrCanceled, AcctLags,
     PollInv, PollHonest, Honest, PollOfDriver, PollSettled, SettledReportIsRight, Reported, StateOf, RanToItsEnd, Settled
<1> QED BY <1>1, <1>2, <1>3, <1>4, <1>5 DEF Next

LEMMA Invariance == Spec => []IInv
BY Initially, Inductive, PTL DEF Spec

\* Every reachable state is well typed.
THEOREM TypeCorrect == Spec => []TypeOK
<1>1. IInv => TypeOK
  BY DEF IInv
<1> QED BY <1>1, Invariance, PTL

\* A job is reported completed only when its command ended with 0 (parse_status
\* of schedulers.py and compute.py).
THEOREM CompletedIsTrueAlways == Spec => []CompletedIsTrue
<1>1. IInv => CompletedIsTrue
  BY DEF IInv, PollInv, PollHonest, Honest, CompletedIsTrue, Reported, StateOf
<1> QED BY <1>1, Invariance, PTL

\* A job whose command waits or runs is reported over only when it is a canceled
\* shell job, or when Slurm showed a state that _state_map does not list, and then
\* as failed (parse_status of schedulers.py and compute.py).
THEOREM TerminalIsOverAlways == Spec => []TerminalIsOver
<1>1. IInv => TerminalIsOver
  BY DEF IInv, PollInv, PollHonest, Honest, OverOrCanceled, TerminalIsOver, Reported, StateOf
<1> QED BY <1>1, Invariance, PTL

\* A job that ran to its end is reported by its exit code, whatever the sources
\* answer or have forgotten (status_command and rc_lookup of schedulers.py).
THEOREM SettledReportIsRightAlways == Spec => []SettledReportIsRight
<1>1. IInv => SettledReportIsRight
  BY DEF IInv, PollInv
<1> QED BY <1>1, Invariance, PTL
=============================================================================
