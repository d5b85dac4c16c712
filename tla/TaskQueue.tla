------------------------------ MODULE TaskQueue ------------------------------
(***************************************************************************)
(* The in-process task queue of activate_iri/tasks.py, which runs every    *)
(* filesystem command of the API.  Requests (submit, cancel, list) and     *)
(* workers are coroutines of one event loop, so a step runs from one await *)
(* to the next: a worker's step ends where it awaits on_task, and the next *)
(* one begins when on_task returns.                                        *)
(*                                                                         *)
(* Tasks are numbered in the order they are submitted (the code draws a    *)
(* fresh UUID).  A task that has left the dictionary is still known to the *)
(* worker that runs it; what the worker writes then, nobody can see.       *)
(***************************************************************************)
EXTENDS Integers, Sequences

CONSTANTS
    User,       \* submitting users
    Worker,     \* the coroutines _ensure_workers starts
    None,       \* no user, no task, no time stamp
    TTL,        \* ttl_seconds: how long a finished task stays visible
    MaxTask,    \* bound on the number of submissions, for model checking
    MaxTime     \* bound on the clock, for model checking

Task == 1 .. MaxTask
Time == 1 .. MaxTime

ASSUME BoundsAssumption == MaxTask \in Nat /\ MaxTime \in Nat \ {0} /\ TTL \in Nat
ASSUME NoneAssumption == None \notin Nat \cup User

VARIABLES
    tasks,      \* the dictionary: task -> its record, Gone once popped or before submission
    submitted,  \* how many tasks were submitted so far
    queue,      \* the ids waiting in the asyncio queue
    running,    \* running[w]: the task whose on_task worker w awaits
    started,    \* history: the tasks whose command was handed to on_task
    now         \* the wall clock

vars == <<tasks, submitted, queue, running, started, now>>

Live == {"pending", "active"}
Outcome == {"completed", "failed"}
TaskStatus == Live \cup Outcome \cup {"canceled"}

Gone == [user |-> None, status |-> "gone", finished |-> None]
Record == [user : User, status : TaskStatus, finished : Time \cup {None}]

Present(t) == tasks[t].status # "gone"
Terminal(t) == tasks[t].status \in Outcome \cup {"canceled"}

Init ==
    /\ tasks = [t \in Task |-> Gone]
    /\ submitted = 0
    /\ queue = <<>>
    /\ running = [w \in Worker |-> None]
    /\ started = {}
    /\ now = 1

-----------------------------------------------------------------------------
(* Requests.                                                               *)

\* _expire: what submit and list drop from the dictionary.
Expired(t) == tasks[t].finished # None /\ tasks[t].finished + TTL < now
AfterExpire == [t \in Task |-> IF Expired(t) THEN Gone ELSE tasks[t]]

\* Mutant: the newest submission is served first.
SubmitInFront(u) ==
    /\ submitted < MaxTask
    /\ LET t == submitted + 1 IN
          /\ submitted' = t
          /\ tasks' = [AfterExpire EXCEPT
                          ![t] = [user |-> u, status |-> "pending", finished |-> None]]
          /\ queue' = <<t>> \o queue
    /\ UNCHANGED <<running, started, now>>

Submit(u) ==
    /\ submitted < MaxTask
    /\ LET t == submitted + 1 IN
          /\ submitted' = t
          /\ tasks' = [AfterExpire EXCEPT
                          ![t] = [user |-> u, status |-> "pending", finished |-> None]]
          /\ queue' = Append(queue, t)
    /\ UNCHANGED <<running, started, now>>

List ==
    /\ tasks' = AfterExpire
    /\ UNCHANGED <<submitted, queue, running, started, now>>

\* Mutant: cancel does not look at the status.
CancelAny(u, t) ==
    /\ tasks[t].user = u
    /\ tasks' = [tasks EXCEPT ![t].status = "canceled", ![t].finished = now]
    /\ UNCHANGED <<submitted, queue, running, started, now>>

Cancel(u, t) ==
    /\ tasks[t].user = u
    /\ tasks[t].status \in Live
    /\ tasks' = [tasks EXCEPT ![t].status = "canceled", ![t].finished = now]
    /\ UNCHANGED <<submitted, queue, running, started, now>>

-----------------------------------------------------------------------------
(* Workers.                                                                *)

Take(w) ==
    /\ running[w] = None
    /\ queue # <<>>
    /\ queue' = Tail(queue)

\* Mutants: a worker skips a task nobody canceled; it runs one that was.
SkipPending(w) ==
    /\ Take(w)
    /\ tasks[Head(queue)].status \in {"gone", "canceled", "pending"}
    /\ UNCHANGED <<tasks, submitted, running, started, now>>
StartCanceled(w) ==
    /\ Take(w)
    /\ LET t == Head(queue) IN
          /\ Present(t)
          /\ tasks' = [tasks EXCEPT ![t].status = "active"]
          /\ running' = [running EXCEPT ![w] = t]
          /\ started' = started \cup {t}
    /\ UNCHANGED <<submitted, now>>

\* The task was canceled, or canceled and expired, while it waited.
Skip(w) ==
    /\ Take(w)
    /\ tasks[Head(queue)].status \in {"gone", "canceled"}
    /\ UNCHANGED <<tasks, submitted, running, started, now>>

Start(w) ==
    /\ Take(w)
    /\ LET t == Head(queue) IN
          /\ tasks[t].status \notin {"gone", "canceled"}
          /\ tasks' = [tasks EXCEPT ![t].status = "active"]
          /\ running' = [running EXCEPT ![w] = t]
          /\ started' = started \cup {t}
    /\ UNCHANGED <<submitted, now>>

\* Mutant: an exception frees the worker and leaves the task active.
FinishOrLose(w, outcome) ==
    /\ running[w] # None
    /\ LET t == running[w] IN
          tasks' = IF Present(t) /\ outcome = "completed"
                   THEN [tasks EXCEPT ![t].status = outcome, ![t].finished = now]
                   ELSE tasks
    /\ running' = [running EXCEPT ![w] = None]
    /\ UNCHANGED <<submitted, queue, started, now>>

\* on_task has returned with a result and a status, or raised (failed).  The
\* worker stores what it got, whatever has happened to the task meanwhile.
Finish(w, outcome) ==
    /\ running[w] # None
    /\ LET t == running[w] IN
          tasks' = IF Present(t)
                   THEN [tasks EXCEPT ![t].status = outcome, ![t].finished = now]
                   ELSE tasks
    /\ running' = [running EXCEPT ![w] = None]
    /\ UNCHANGED <<submitted, queue, started, now>>

Tick ==
    /\ now < MaxTime
    /\ now' = now + 1
    /\ UNCHANGED <<tasks, submitted, queue, running, started>>

-----------------------------------------------------------------------------
Next ==
    \/ \E u \in User : Submit(u)
    \/ List
    \/ \E u \in User, t \in Task : Cancel(u, t)
    \/ \E w \in Worker : Skip(w) \/ Start(w)
    \/ \E w \in Worker, outcome \in Outcome : Finish(w, outcome)
    \/ Tick

Spec == Init /\ [][Next]_vars

\* The event loop resumes a worker whose queue has an item, and on_task always
\* returns: every executor bounds the time a command may take.
Fairness ==
    \A w \in Worker : /\ WF_vars(Skip(w) \/ Start(w))
                      /\ WF_vars(\E outcome \in Outcome : Finish(w, outcome))

FairSpec == Spec /\ Fairness

-----------------------------------------------------------------------------
(* Properties.                                                             *)

TypeOK ==
    /\ tasks \in [Task -> Record \cup {Gone}]
    /\ submitted \in 0 .. MaxTask
    /\ queue \in Seq(Task)
    /\ running \in [Worker -> Task \cup {None}]
    /\ started \subseteq Task
    /\ now \in Time

Waiting == {queue[i] : i \in DOMAIN queue}
RunBy(t) == {w \in Worker : running[w] = t}

\* No accepted task is lost or run twice: the queue holds exactly the newest
\* submissions in order, a pending task waits in it, an active one has a
\* worker, no task has two workers, and none both waits and runs.
NoTaskLost ==
    /\ Len(queue) <= submitted
    /\ \A i \in DOMAIN queue : queue[i] = submitted - Len(queue) + i
    /\ \A t \in Task :
          /\ tasks[t].status = "pending" => t \in Waiting
          /\ tasks[t].status = "active" => RunBy(t) # {}
          /\ t \in Waiting => RunBy(t) = {} /\ t \notin started
          /\ \A v, w \in RunBy(t) : v = w

\* Commands start in submission order whatever is canceled or expires between:
\* once a task has started, no earlier one is still pending.
StartsInOrder ==
    \A t, u \in Task : t < u /\ u \in started => tasks[t].status # "pending"

\* A task canceled before a worker took it never reaches the cluster, neither
\* while it waits in the queue nor after it has expired from the dictionary.
CanceledBeforeStartNeverRuns ==
    [][\A t \in Task :
          /\ t <= submitted
          /\ t \notin started
          /\ tasks[t].status \in {"canceled", "gone"}
          => t \notin started']_vars

\* A client that has read completed or failed reads it again until the task
\* expires; a canceled task gets another status only from the worker that was
\* already running it.
OutcomeIsFinal ==
    [][\A t \in Task :
          /\ tasks[t].status \in Outcome => tasks'[t] \in {tasks[t], Gone}
          /\ tasks[t].status = "canceled" =>
                \/ tasks'[t] \in {tasks[t], Gone}
                \/ \E w \in RunBy(t) : running'[w] = None]_vars

\* A task disappears only when it has been finished for longer than the TTL:
\* never while it is pending or active.
ExpiresAfterTTL ==
    [][\A t \in Task :
          Present(t) /\ ~Present(t)' =>
              Terminal(t) /\ tasks[t].finished + TTL < now]_vars

\* Every accepted task is eventually canceled, completed, failed or gone.
TasksSettle == \A t \in Task : tasks[t].status \in Live ~> tasks[t].status \notin Live

=============================================================================
