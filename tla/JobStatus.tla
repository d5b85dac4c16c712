------------------------------ MODULE JobStatus ------------------------------
(***************************************************************************)
(* What GET /compute/status says of a job, against what became of it:      *)
(* get_job and cancel_job of activate_iri/compute.py with the drivers of   *)
(* activate_iri/schedulers.py and the shell driver of compute.py.          *)
(*                                                                         *)
(* The status command asks several sources in turn while the job goes on;  *)
(* the answers are concatenated and the first record of the job wins.  The *)
(* job, the schedulers and their data bases are the environment: they may  *)
(* fail to answer, lag behind and forget.  A batch job is not requeued.    *)
(***************************************************************************)
EXTENDS Naturals

CONSTANTS
    None,       \* no record, no exit code
    Empty       \* the exit code file between its creation and its write

ASSUME NoneAssumption ==
    None \notin Nat \cup {"queued", "active", "special", "stopped", "completed", "failed", "canceled"}
ASSUME EmptyAssumption == Empty \notin Nat \cup {None}

VARIABLES
    driver,     \* the cluster's scheduler
    accounting, \* whether Slurm has an accounting data base
    noted,      \* whether the job id was recorded beside the batch script
    command,    \* the user's command
    code,       \* its exit code
    sched,      \* the job as its scheduler knows it; the wrapper of a shell job
    rc,         \* the exit code file
    acct,       \* what the accounting data base has
    memory,     \* whether the scheduler remembers a job that is over
    cancel,     \* how far cancel_job has come
    poll,       \* the status command under way
    report      \* the latest answer of get_job

job == <<command, code, sched, rc>>
records == <<acct, memory>>
vars == <<driver, accounting, noted, job, records, cancel, poll, report>>

\* The word a scheduler has for a job: one that waits, that runs, or how it
\* ended.  "queued" and "active" stand for all the words that _state_map lists
\* for a job that is not over, "special" and "stopped" for those it does not
\* list: SPECIAL_EXIT and RESV_DEL_HOLD of a job that waits, STOPPED of one that
\* runs.
Over == {"completed", "failed", "canceled"}
Unlisted == {"special", "stopped"}
Word == {"queued", "active"} \cup Unlisted \cup Over
SIGTERM == 143

\* The state that _parse and _parse_scontrol make of a word.
StateOf(word) == IF word \in Unlisted THEN "failed" ELSE word

\* What an exit code is reported as.
ByCode(c) == IF c = 0 THEN "completed" ELSE "failed"

Idle == [at |-> "idle", found |-> None, settled |-> FALSE]
Unasked == [word |-> None, settled |-> FALSE]

Batch == driver # "shell"

Init ==
    /\ driver \in {"slurm", "pbs", "shell"}
    /\ accounting \in BOOLEAN /\ (accounting => driver = "slurm")
    /\ noted \in BOOLEAN
    /\ command = IF Batch THEN "waiting" ELSE "running"
    /\ sched = IF Batch THEN "queued" ELSE "active"
    /\ code = None /\ rc = None /\ acct = None
    /\ memory = TRUE
    /\ cancel = "no"
    /\ poll = Idle /\ report = Unasked

-----------------------------------------------------------------------------
(* The job.  A batch script and the wrapper of a shell job both run the    *)
(* command, create the exit code file, write the code and exit.            *)

Start ==
    /\ sched = "queued"
    /\ sched' = "active" /\ command' = "running"
    /\ UNCHANGED <<driver, accounting, noted, code, rc, records, cancel, poll, report>>

\* Slurm shows the job in a state that the driver does not list, for a while.
EnterUnlisted ==
    /\ driver = "slurm"
    /\ \/ sched = "queued" /\ sched' = "special"
       \/ sched = "active" /\ sched' = "stopped"
    /\ UNCHANGED <<driver, accounting, noted, command, code, rc, records, cancel, poll, report>>

LeaveUnlisted ==
    /\ \/ sched = "special" /\ sched' = "queued"
       \/ sched = "stopped" /\ sched' = "active"
    /\ UNCHANGED <<driver, accounting, noted, command, code, rc, records, cancel, poll, report>>

CommandEnds(c) ==
    /\ command = "running" /\ sched # "stopped"
    /\ command' = "ended" /\ code' = c
    /\ UNCHANGED <<driver, accounting, noted, sched, rc, records, cancel, poll, report>>

\* The redirection creates the file, empty, before echo writes to it.
CreateRc ==
    /\ command = "ended" /\ sched = "active" /\ rc = None
    /\ rc' = Empty
    /\ UNCHANGED <<driver, accounting, noted, command, code, sched, records, cancel, poll, report>>

\* Mutant: the file gets the exit code of what ran after the command.
WriteLaterRc ==
    /\ sched = "active" /\ rc = Empty
    /\ rc' = 0
    /\ UNCHANGED <<driver, accounting, noted, command, code, sched, records, cancel, poll, report>>

WriteRc ==
    /\ sched = "active" /\ rc = Empty
    /\ rc' = code
    /\ UNCHANGED <<driver, accounting, noted, command, code, sched, records, cancel, poll, report>>

Finish ==
    /\ sched = "active" /\ rc \notin {None, Empty}
    /\ sched' = ByCode(code)
    /\ UNCHANGED <<driver, accounting, noted, command, code, rc, records, cancel, poll, report>>

\* The scheduler ends a batch job and its command: the user asked for it, or
\* its time was up or its node failed.  A shell job can only be lost with its
\* host.
Stop(how) ==
    /\ sched \notin Over
    /\ sched' = how
    /\ command' = IF command = "ended" THEN "ended" ELSE "killed"
    /\ UNCHANGED <<driver, accounting, noted, code, rc, records, poll, report>>
Killed == Stop("failed") /\ UNCHANGED cancel

\* Records reach the accounting data base in order, and late; schedulers forget
\* a job some time after it is over.
Age(word) ==
    CASE word = None -> 0
      [] word \in {"queued", "special"} -> 1
      [] word \in {"active", "stopped"} -> 2
      [] word \in Over -> 3

AcctCatchesUp ==
    /\ accounting
    /\ \E word \in {"queued", "active", sched} :
          /\ Age(acct) < Age(word) /\ Age(word) <= Age(sched)
          /\ acct' = word
    /\ UNCHANGED <<driver, accounting, noted, job, memory, cancel, poll, report>>

Forget ==
    /\ sched \in Over /\ memory
    /\ memory' = FALSE
    /\ UNCHANGED <<driver, accounting, noted, job, acct, cancel, poll, report>>

-----------------------------------------------------------------------------
(* cancel_job.                                                             *)

CancelBatch == Batch /\ cancel = "no" /\ cancel' = "done" /\ Stop("canceled")

\* The shell driver signals the wrapper, which leaves the command behind, and
\* then writes an exit code, whatever the file holds: the redirection empties it
\* before.
CancelKill ==
    /\ ~Batch /\ cancel = "no"
    /\ cancel' = "killed"
    /\ sched' = IF sched = "active" THEN "canceled" ELSE sched
    /\ UNCHANGED <<driver, accounting, noted, command, code, rc, records, poll, report>>
CancelEmpty ==
    /\ cancel = "killed"
    /\ cancel' = "emptied"
    /\ rc' = Empty
    /\ UNCHANGED <<driver, accounting, noted, command, code, sched, records, poll, report>>
CancelMark ==
    /\ cancel = "emptied"
    /\ cancel' = "done"
    /\ rc' = SIGTERM
    /\ UNCHANGED <<driver, accounting, noted, command, code, sched, records, poll, report>>

-----------------------------------------------------------------------------
(* get_job: one action per source, in the order of the status command.     *)

\* Nothing more will happen to the job or to its records, but to be forgotten.
Settled ==
    /\ sched \in Over
    /\ accounting => acct = sched
    /\ cancel \in {"no", "done"}

\* The first record of the job wins.
Found(source) == IF poll.found = None THEN source ELSE poll.found

Ask(source, next) ==
    poll' = [at |-> next, found |-> source, settled |-> Settled]
AskNext(source, next) ==
    poll' = [poll EXCEPT !.at = next, !.found = Found(source)]
Answer(word, settled) ==
    /\ poll' = Idle
    /\ report' = [word |-> word, settled |-> settled]

Environment == <<driver, accounting, noted, job, records, cancel>>

\* squeue, alone where history is not asked for.
Live == IF sched \in Over THEN None ELSE sched

AskSqueue(answered) ==
    /\ driver = "slurm" /\ poll.at = "idle"
    /\ Ask(IF answered THEN Live ELSE None, "sacct")
    /\ UNCHANGED <<report, Environment>>
AskSqueueOnly(answered) ==
    /\ driver = "slurm" /\ poll.at = "idle"
    /\ Answer(IF answered THEN Live ELSE None, FALSE)
    /\ UNCHANGED Environment

AskSacct(answered) ==
    /\ poll.at = "sacct"
    /\ AskNext(IF answered THEN acct ELSE None, "scontrol")
    /\ UNCHANGED <<report, Environment>>

AskScontrol(answered) ==
    /\ poll.at = "scontrol"
    /\ AskNext(IF answered /\ memory THEN sched ELSE None, "rcfile")
    /\ UNCHANGED <<report, Environment>>

\* PBS shows a job that is over where history is asked for.  It has no word for
\* how a job ended but an exit status, which a job that was deleted or killed may
\* lack; no exit status is a success.
PBSWords ==
    IF sched \in Over /\ (command # "ended" \/ sched = "canceled")
    THEN {"completed", "failed"}
    ELSE {sched}

AskQstat(answered, historical) ==
    /\ driver = "pbs" /\ poll.at = "idle"
    /\ IF answered /\ (sched \notin Over \/ (historical /\ memory))
       THEN \E word \in PBSWords : Ask(word, "rcfile")
       ELSE Ask(None, "rcfile")
    /\ UNCHANGED <<report, Environment>>

\* The PBS driver cannot read an empty file, and the request fails; the Slurm
\* driver takes it for exit code 1.
Unreadable == driver = "pbs" /\ poll.found = None /\ noted /\ rc = Empty

\* Mutant: the exit code files are searched only when the scheduler answers.
ReadRcIfKnown ==
    /\ poll.at = "rcfile" /\ ~Unreadable
    /\ Answer(Found(IF noted /\ rc # None /\ memory THEN ByCode(rc) ELSE None), poll.settled)
    /\ UNCHANGED Environment

\* rc_lookup finds the file by the job id recorded beside it.
ReadRc ==
    /\ poll.at = "rcfile" /\ ~Unreadable
    /\ Answer(Found(IF noted /\ rc # None THEN ByCode(rc) ELSE None), poll.settled)
    /\ UNCHANGED Environment
ReadRcRaises ==
    /\ poll.at = "rcfile" /\ Unreadable
    /\ poll' = Idle
    /\ UNCHANGED <<report, Environment>>

\* The shell driver cannot read an empty file either: a request that meets one
\* fails and changes nothing.
TestRc ==
    /\ driver = "shell" /\ poll.at = "idle" /\ rc # Empty
    /\ IF rc # None
       THEN Answer(ByCode(rc), Settled)
       ELSE Ask(None, "pid") /\ UNCHANGED report
    /\ UNCHANGED Environment

\* Mutant: without an exit code file the process is taken for lost.
TestNoPid ==
    /\ poll.at = "pid"
    /\ Answer("failed", poll.settled)
    /\ UNCHANGED Environment

\* The wrapper runs, or is lost without an exit code.
TestPid ==
    /\ poll.at = "pid"
    /\ Answer(IF sched = "active" THEN "active" ELSE "failed", poll.settled)
    /\ UNCHANGED Environment

GetJob ==
    \/ \E answered \in BOOLEAN : AskSqueue(answered) \/ AskSacct(answered) \/ AskScontrol(answered)
    \/ \E answered, historical \in BOOLEAN : AskQstat(answered, historical)
    \/ ReadRc \/ ReadRcRaises \/ TestRc \/ TestPid

-----------------------------------------------------------------------------
Next ==
    \/ Start \/ EnterUnlisted \/ LeaveUnlisted
    \/ (\E c \in {0, 1} : CommandEnds(c)) \/ CreateRc \/ WriteRc \/ Finish \/ Killed
    \/ AcctCatchesUp \/ Forget
    \/ CancelBatch \/ CancelKill \/ CancelEmpty \/ CancelMark
    \/ GetJob \/ \E answered \in BOOLEAN : AskSqueueOnly(answered)

Spec == Init /\ [][Next]_vars

\* A client goes on polling with history, a script that has recorded its exit code
\* exits, however often it is stopped, and accounting records arrive.
Fairness ==
    /\ WF_vars(GetJob)
    /\ WF_vars(LeaveUnlisted)
    /\ SF_vars(Finish)
    /\ WF_vars(CancelEmpty) /\ WF_vars(CancelMark)
    /\ WF_vars(AcctCatchesUp)

FairSpec == Spec /\ Fairness

-----------------------------------------------------------------------------
(* Properties.                                                             *)

TypeOK ==
    /\ driver \in {"slurm", "pbs", "shell"} /\ accounting \in BOOLEAN /\ noted \in BOOLEAN
    /\ command \in {"waiting", "running", "ended", "killed"}
    /\ code \in {None, 0, 1}
    /\ sched \in Word
    /\ rc \in {None, Empty, 0, 1, SIGTERM}
    /\ acct \in Word \cup {None} /\ memory \in BOOLEAN
    /\ cancel \in {"no", "killed", "emptied", "done"}
    /\ poll \in [at : {"idle", "sacct", "scontrol", "rcfile", "pid"},
                 found : Word \cup {None}, settled : BOOLEAN]
    /\ report \in [word : Word \cup {None}, settled : BOOLEAN]

\* The state in the answer to the client.
Reported == StateOf(report.word)

\* A failure is never reported as a success, whichever sources answered and
\* however late they are: a job is reported completed only when its command
\* ended with 0.  (PBS: also a job without an exit status, deleted or killed.)
CompletedIsTrue ==
    Reported = "completed" =>
        \/ command = "ended" /\ code = 0
        \/ driver = "pbs" /\ (command = "killed" \/ sched = "canceled")

\* An answer that a job is over, while its command still waits or runs, comes of
\* two things only: a shell job was canceled, or Slurm showed the job in a state
\* that _state_map does not list, which is reported failed.  No late source, no
\* silent one and no other cancellation does it, whatever the job does between
\* two sources.
TerminalIsOver ==
    Reported \in Over =>
        \/ command \in {"ended", "killed"}
        \/ driver = "shell" /\ cancel # "no"
        \/ Reported = "failed" /\ report.word \in Unlisted

\* The command ended by itself, and its exit code is on file.
RanToItsEnd == command = "ended" /\ sched = ByCode(code) /\ rc = code

\* "Status survives schedulers without accounting": a job that ran to its end is
\* reported by its exit code, and never unknown, whatever the queue, the
\* accounting data base and the controller answer or have forgotten, unless
\* the shell driver was told to cancel it.
SettledReportIsRight ==
    /\ report.settled
    /\ RanToItsEnd
    /\ Batch => noted
    => Reported = ByCode(code)

\* A client that goes on polling gets an end for every job whose exit code was
\* recorded; and what it was told too early, of a state that is not listed or of
\* a process that was gone before its exit code was seen, is put right in the end
\* where the job ran to its end and nobody canceled it.
Recorded == rc \notin {None, Empty} /\ (Batch => noted)

EndsReported ==
    /\ Recorded ~> report.word \in Over
    /\ Recorded /\ RanToItsEnd ~> report.word = ByCode(code) \/ cancel # "no"

=============================================================================
