--------------------------- MODULE TaskQueueProofs ---------------------------
(***************************************************************************)
(* Proofs about the task queue, for any users, workers, TTL and bounds.    *)
(***************************************************************************)
EXTENDS TaskQueue, TLAPS

USE BoundsAssumption, NoneAssumption

\* The number of tasks workers have taken from the queue so far.
Taken == submitted - Len(queue)

\* Where a task is follows from its number: the first Taken tasks have left
\* the queue, the others up to submitted wait in it in order.
QueueIsSuffix ==
    /\ Len(queue) <= submitted
    /\ \A i \in 1 .. Len(queue) : queue[i] = Taken + i

TaskInv(t) ==
    /\ t > submitted => tasks[t] = Gone
    /\ t \in started => t <= Taken
    /\ tasks[t].status = "pending" => Taken < t
    /\ tasks[t].status \in Outcome \cup {"active"} => t \in started
    /\ tasks[t].status = "active" => \E w \in Worker : running[w] = t
    /\ tasks[t].finished # None => Terminal(t)

WorkerInv(w) ==
    running[w] # None =>
        /\ running[w] \in started
        /\ tasks[running[w]].status \in {"active", "canceled", "gone"}
        /\ \A v \in Worker : running[v] = running[w] => v = w

IInv ==
    /\ QueueIsSuffix
    /\ \A t \in Task : TaskInv(t)
    /\ \A w \in Worker : WorkerInv(w)

-----------------------------------------------------------------------------
LEMMA GoneIsNoRecord == Gone \notin Record /\ Gone.status = "gone" /\ Gone.finished = None
BY DEF Gone, Record

LEMMA TasksType ==
    ASSUME TypeOK, NEW t \in Task
    PROVE  \/ /\ tasks[t] \in Record
              /\ Present(t)
              /\ tasks[t] = [user |-> tasks[t].user, status |-> tasks[t].status,
                             finished |-> tasks[t].finished]
           \/ tasks[t] = Gone /\ ~Present(t)
BY DEF TypeOK, Record, Gone, Present, TaskStatus, Live, Outcome

LEMMA ExpireType ==
    ASSUME TypeOK
    PROVE  AfterExpire \in [Task -> Record \cup {Gone}]
BY DEF TypeOK, AfterExpire

LEMMA StepType == TypeOK /\ [Next]_vars => TypeOK'
<1> SUFFICES ASSUME TypeOK, [Next]_vars PROVE TypeOK'
  OBVIOUS
<1>1. ASSUME NEW u \in User, Submit(u) PROVE TypeOK'
  <2>1. submitted + 1 \in Task
    BY <1>1 DEF Submit, Task, TypeOK
  <2>2. [user |-> u, status |-> "pending", finished |-> None] \in Record
    BY DEF Record, TaskStatus, Live
  <2> QED
    BY <1>1, <2>1, <2>2, ExpireType DEF Submit, TypeOK, Task
<1>2. ASSUME List PROVE TypeOK'
  BY <1>2, ExpireType DEF List, TypeOK
<1>3. ASSUME NEW u \in User, NEW t \in Task, Cancel(u, t) PROVE TypeOK'
  <2>1. tasks[t] \in Record
    BY <1>3, TasksType DEF Cancel, Gone, Present, Live
  <2>2. tasks'[t] \in Record
    BY <1>3, <2>1 DEF Cancel, TypeOK, Record, TaskStatus
  <2> QED
    BY <1>3, <2>2 DEF Cancel, TypeOK
<1>4. ASSUME NEW w \in Worker, Skip(w) PROVE TypeOK'
  BY <1>4 DEF Skip, Take, TypeOK
<1>5. ASSUME NEW w \in Worker, Start(w) PROVE TypeOK'
  <2>1. Head(queue) \in Task
    BY <1>5 DEF Start, Take, TypeOK
  <2>2. tasks[Head(queue)] \in Record
    BY <1>5, <2>1, TasksType DEF Start, Gone, Present
  <2>3. tasks'[Head(queue)] \in Record
    BY <1>5, <2>1, <2>2 DEF Start, TypeOK, Record, TaskStatus, Live
  <2> QED
    BY <1>5, <2>1, <2>3 DEF Start, Take, TypeOK
<1>6. ASSUME NEW w \in Worker, NEW outcome \in Outcome, Finish(w, outcome) PROVE TypeOK'
  <2>1. running[w] \in Task
    BY <1>6 DEF Finish, TypeOK
  <2>2. CASE Present(running[w])
    <3>1. tasks[running[w]] \in Record
      BY <2>1, <2>2, TasksType
    <3>2. tasks'[running[w]] \in Record
      BY <1>6, <2>1, <2>2, <3>1 DEF Finish, TypeOK, Record, TaskStatus
    <3> QED
      BY <1>6, <2>1, <2>2, <3>2 DEF Finish, TypeOK
  <2>3. CASE ~Present(running[w])
    BY <1>6, <2>3 DEF Finish, TypeOK
  <2> QED
    BY <2>2, <2>3
<1>7. ASSUME Tick PROVE TypeOK'
  BY <1>7 DEF Tick, TypeOK, Time
<1>8. CASE UNCHANGED vars
  BY <1>8 DEF vars, TypeOK
<1> QED
  BY <1>1, <1>2, <1>3, <1>4, <1>5, <1>6, <1>7, <1>8 DEF Next

\* Every variable of the queue keeps its type.
THEOREM TypeCorrect == Spec => []TypeOK
<1>1. Init => TypeOK
  BY DEF Init, TypeOK, Task, Time
<1> QED
  BY <1>1, StepType, PTL DEF Spec

-----------------------------------------------------------------------------
(* The inductive invariant.                                                *)

LEMMA InitInv == Init => IInv
<1> SUFFICES ASSUME Init PROVE IInv
  OBVIOUS
<1>1. Len(queue) = 0 /\ submitted = 0
  BY DEF Init
<1>2. QueueIsSuffix
  BY <1>1 DEF QueueIsSuffix
<1>3. ASSUME NEW t \in Task PROVE TaskInv(t)
  BY <1>1 DEF Init, TaskInv, Gone, Outcome, Task
<1>4. ASSUME NEW w \in Worker PROVE WorkerInv(w)
  BY DEF Init, WorkerInv
<1> QED
  BY <1>2, <1>3, <1>4 DEF IInv

\* What expiry does to one task.
LEMMA ExpireOne ==
    ASSUME TypeOK, IInv, NEW t \in Task
    PROVE  \/ AfterExpire[t] = tasks[t]
           \/ AfterExpire[t] = Gone /\ Terminal(t) /\ tasks[t].finished + TTL < now
BY DEF AfterExpire, Expired, IInv, TaskInv

LEMMA SubmitInv ==
    ASSUME TypeOK, IInv, NEW u \in User, Submit(u)
    PROVE  IInv'
<1> DEFINE new == submitted + 1
<1>1. /\ new \in Task
      /\ submitted' = new
      /\ Len(queue) \in Nat
      /\ Len(queue') = Len(queue) + 1
      /\ queue'[Len(queue) + 1] = new
      /\ \A i \in 1 .. Len(queue) : queue'[i] = queue[i]
      /\ UNCHANGED <<running, started>>
  BY DEF Submit, TypeOK, Task
<1>2. Taken' = Taken /\ Taken \in Nat
  BY <1>1 DEF Taken, TypeOK, IInv, QueueIsSuffix
<1>3. QueueIsSuffix'
  BY <1>1, <1>2 DEF QueueIsSuffix, IInv, Taken, TypeOK
<1>4. /\ tasks[new] = Gone
      /\ new \notin started
      /\ tasks'[new] = [user |-> u, status |-> "pending", finished |-> None]
      /\ \A t \in Task \ {new} : tasks'[t] = AfterExpire[t]
  BY <1>1, ExpireType DEF Submit, IInv, TaskInv, TypeOK, Taken
<1>5. ASSUME NEW t \in Task PROVE TaskInv(t)'
  <2>1. CASE t = new
    BY <1>1, <1>2, <1>4, <2>1 DEF TaskInv, Taken, TypeOK, Outcome
  <2>2. CASE t # new
    <3>1. tasks'[t] = tasks[t] \/ tasks'[t] = Gone
      BY <1>4, <2>2, ExpireOne
    <3>2. TaskInv(t)
      BY DEF IInv
    <3> QED
      BY <1>1, <1>2, <2>2, <3>1, <3>2 DEF TaskInv, Gone, Outcome, Terminal, TypeOK, Task
  <2> QED
    BY <2>1, <2>2
<1>6. ASSUME NEW w \in Worker PROVE WorkerInv(w)'
  <2>1. CASE running[w] # None
    <3>1. WorkerInv(w) /\ running[w] \in Task /\ running[w] # new
      BY <1>4, <2>1 DEF IInv, WorkerInv, TypeOK
    <3>2. tasks'[running[w]] = tasks[running[w]] \/ tasks'[running[w]] = Gone
      BY <1>4, <3>1, ExpireOne
    <3> QED
      BY <1>1, <3>1, <3>2 DEF WorkerInv, Gone
  <2> QED
    BY <1>1, <2>1 DEF WorkerInv
<1> QED
  BY <1>3, <1>5, <1>6 DEF IInv

LEMMA ListInv ==
    ASSUME TypeOK, IInv, List
    PROVE  IInv'
<1>1. tasks' = AfterExpire /\ UNCHANGED <<submitted, queue, running, started>>
  BY DEF List
<1>2. ASSUME NEW t \in Task PROVE tasks'[t] = tasks[t] \/ tasks'[t] = Gone
  BY <1>1, ExpireOne
<1>3. ASSUME NEW t \in Task PROVE TaskInv(t)'
  BY <1>1, <1>2 DEF IInv, TaskInv, Taken, Gone, Outcome, Terminal
<1>4. ASSUME NEW w \in Worker PROVE WorkerInv(w)'
  BY <1>1, <1>2 DEF IInv, WorkerInv, Gone, TypeOK
<1> QED
  BY <1>1, <1>3, <1>4 DEF IInv, QueueIsSuffix, Taken

LEMMA CancelInv ==
    ASSUME TypeOK, IInv, NEW u \in User, NEW c \in Task, Cancel(u, c)
    PROVE  IInv'
<1>1. UNCHANGED <<submitted, queue, running, started>>
  BY DEF Cancel
<1>2. /\ tasks'[c].status = "canceled"
      /\ \A t \in Task \ {c} : tasks'[t] = tasks[t]
      /\ tasks[c].status \in Live
  BY DEF Cancel, TypeOK
<1>3. ASSUME NEW t \in Task PROVE TaskInv(t)'
  <2>1. CASE t = c
    <3>1. ~(c > submitted)
      BY <1>2 DEF IInv, TaskInv, Gone, Live
    <3> QED
      BY <1>1, <1>2, <2>1, <3>1 DEF IInv, TaskInv, Taken, Terminal, Outcome
  <2> QED
    BY <1>1, <1>2, <2>1 DEF IInv, TaskInv, Taken, Terminal
<1>4. ASSUME NEW w \in Worker PROVE WorkerInv(w)'
  BY <1>1, <1>2 DEF IInv, WorkerInv, TypeOK
<1> QED
  BY <1>1, <1>3, <1>4 DEF IInv, QueueIsSuffix, Taken

\* Taking the head of the queue takes task Taken + 1.
LEMMA TakeHead ==
    ASSUME TypeOK, IInv, NEW w \in Worker, Take(w), submitted' = submitted
    PROVE  /\ Head(queue) = Taken + 1
           /\ Head(queue) \in Task
           /\ Head(queue) <= submitted
           /\ Taken' = Taken + 1
           /\ Taken \in Nat
           /\ QueueIsSuffix'
<1>1. /\ Len(queue) \in Nat \ {0}
      /\ Len(queue') = Len(queue) - 1
      /\ \A i \in 1 .. Len(queue') : queue'[i] = queue[i + 1]
      /\ Head(queue) = queue[1]
      /\ Head(queue) \in Task
  BY DEF Take, TypeOK
<1> QED
  BY <1>1 DEF IInv, QueueIsSuffix, Taken, TypeOK

LEMMA SkipInv ==
    ASSUME TypeOK, IInv, NEW w \in Worker, Skip(w)
    PROVE  IInv'
<1>1. UNCHANGED <<tasks, submitted, running, started>> /\ Take(w)
  BY DEF Skip
<1>2. ASSUME NEW t \in Task PROVE TaskInv(t)'
  <2>1. TaskInv(t)
    BY DEF IInv
  <2>2. tasks[t].status = "pending" => t # Taken + 1
    BY <1>1, TakeHead DEF Skip
  <2> QED
    BY <1>1, <2>1, <2>2, TakeHead DEF TaskInv, Terminal, Task
<1>3. ASSUME NEW v \in Worker PROVE WorkerInv(v)'
  BY <1>1 DEF IInv, WorkerInv
<1> QED
  BY <1>1, <1>2, <1>3, TakeHead DEF IInv

LEMMA StartInv ==
    ASSUME TypeOK, IInv, NEW w \in Worker, Start(w)
    PROVE  IInv'
<1> DEFINE h == Head(queue)
<1>1. /\ submitted' = submitted
      /\ Take(w)
      /\ running[w] = None
      /\ running' = [running EXCEPT ![w] = h]
      /\ started' = started \cup {h}
  BY DEF Start, Take
<1>2. /\ h = Taken + 1
      /\ h \in Task
      /\ h <= submitted
      /\ Taken' = Taken + 1
      /\ Taken \in Nat
      /\ QueueIsSuffix'
  BY <1>1, TakeHead
<1>3. /\ tasks'[h].status = "active"
      /\ tasks'[h].finished = tasks[h].finished
      /\ \A t \in Task \ {h} : tasks'[t] = tasks[t]
  BY <1>2 DEF Start, TypeOK
<1>4. h \notin started
  BY <1>2 DEF IInv, TaskInv
<1>5. \A v \in Worker : running[v] # h
  BY <1>2, <1>4 DEF IInv, WorkerInv, Task
<1>6. /\ running'[w] = h
      /\ \A v \in Worker \ {w} : running'[v] = running[v]
  BY <1>1 DEF TypeOK
<1>7. tasks[h].finished = None
  <2>1. TaskInv(h) /\ tasks[h].status # "canceled"
    BY <1>2 DEF IInv, Start
  <2> QED
    BY <1>4, <2>1 DEF TaskInv, Terminal
<1>8. ASSUME NEW t \in Task PROVE TaskInv(t)'
  <2>1. CASE t = h
    BY <1>1, <1>2, <1>3, <1>6, <1>7, <2>1 DEF TaskInv, Task, TypeOK
  <2>2. CASE t # h
    <3>1. TaskInv(t)
      BY DEF IInv
    <3>2. tasks[t].status = "active" => \E v \in Worker : running'[v] = t
      BY <1>1, <1>6, <3>1 DEF TaskInv, Task
    <3> QED
      BY <1>1, <1>2, <1>3, <2>2, <3>1, <3>2 DEF TaskInv, Task, Terminal
  <2> QED
    BY <2>1, <2>2
<1>9. ASSUME NEW v \in Worker PROVE WorkerInv(v)'
  <2>1. CASE v = w
    BY <1>1, <1>2, <1>3, <1>5, <1>6, <2>1 DEF WorkerInv
  <2>2. CASE v # w
    BY <1>1, <1>3, <1>5, <1>6, <2>2 DEF IInv, WorkerInv, TypeOK
  <2> QED
    BY <2>1, <2>2
<1> QED
  BY <1>2, <1>8, <1>9 DEF IInv

LEMMA FinishInv ==
    ASSUME TypeOK, IInv, NEW w \in Worker, NEW outcome \in Outcome, Finish(w, outcome)
    PROVE  IInv'
<1> DEFINE f == running[w]
<1>1. /\ f \in Task
      /\ f # None
      /\ UNCHANGED <<submitted, queue, started>>
      /\ running' = [running EXCEPT ![w] = None]
  BY DEF Finish, TypeOK
<1>2. WorkerInv(w) /\ TaskInv(f)
  BY <1>1 DEF IInv
<1>3. \A t \in Task \ {f} : tasks'[t] = tasks[t]
  BY <1>1 DEF Finish, TypeOK
<1>4. \/ tasks'[f].status \in Outcome
      \/ tasks'[f] = tasks[f] /\ ~Present(f)
  BY <1>1 DEF Finish, TypeOK
<1>5. /\ running'[w] = None
      /\ \A v \in Worker \ {w} : running'[v] = running[v] /\ running[v] # f
  BY <1>1, <1>2 DEF TypeOK, WorkerInv
<1>6. ASSUME NEW t \in Task PROVE TaskInv(t)'
  <2>1. CASE t = f
    <3>1. CASE tasks'[f].status \in Outcome
      <4>1. ~(f > submitted)
        BY <1>1, <1>2 DEF WorkerInv, TaskInv, Taken, TypeOK, Task
      <4> QED
        BY <1>1, <1>2, <2>1, <3>1, <4>1 DEF TaskInv, WorkerInv, Taken, Terminal, Outcome
    <3>2. CASE tasks'[f] = tasks[f] /\ ~Present(f)
      BY <1>1, <1>2, <2>1, <3>2 DEF TaskInv, Taken, Terminal, Present
    <3> QED
      BY <1>4, <3>1, <3>2
  <2>2. CASE t # f
    <3>1. TaskInv(t)
      BY DEF IInv
    <3>2. tasks[t].status = "active" => \E v \in Worker : running'[v] = t
      BY <1>5, <2>2, <3>1 DEF TaskInv
    <3> QED
      BY <1>1, <1>3, <2>2, <3>1, <3>2 DEF TaskInv, Taken, Terminal
  <2> QED
    BY <2>1, <2>2
<1>7. ASSUME NEW v \in Worker PROVE WorkerInv(v)'
  <2>1. CASE v = w
    BY <1>5, <2>1 DEF WorkerInv
  <2>2. CASE v # w /\ running[v] # None
    <3>1. WorkerInv(v) /\ running[v] \in Task \ {f}
      BY <1>5, <2>2 DEF IInv, TypeOK
    <3> QED
      BY <1>1, <1>3, <1>5, <2>2, <3>1 DEF WorkerInv
  <2>3. CASE v # w /\ running[v] = None
    BY <1>5, <2>3 DEF WorkerInv
  <2> QED
    BY <2>1, <2>2, <2>3
<1>8. QueueIsSuffix'
  BY <1>1 DEF IInv, QueueIsSuffix, Taken
<1> QED
  BY <1>6, <1>7, <1>8 DEF IInv

LEMMA IInvAlways == Spec => []IInv
<1>1. TypeOK /\ IInv /\ [Next]_vars => IInv'
  <2> SUFFICES ASSUME TypeOK, IInv, [Next]_vars PROVE IInv'
    OBVIOUS
  <2>1. ASSUME UNCHANGED <<tasks, submitted, queue, running, started>> PROVE IInv'
    BY <2>1 DEF IInv, QueueIsSuffix, TaskInv, WorkerInv, Taken, Terminal
  <2> QED
    BY <2>1, SubmitInv, ListInv, CancelInv, SkipInv, StartInv, FinishInv DEF Next, Tick, vars
<1> QED
  BY <1>1, InitInv, TypeCorrect, PTL DEF Spec

-----------------------------------------------------------------------------
(* The properties.                                                         *)

\* No accepted task is lost, duplicated or run by two workers.
THEOREM NoTaskLostAlways == Spec => []NoTaskLost
<1>1. TypeOK /\ IInv => NoTaskLost
  <2> SUFFICES ASSUME TypeOK, IInv PROVE NoTaskLost
    OBVIOUS
  <2>1. /\ Len(queue) \in Nat
        /\ Len(queue) <= submitted
        /\ DOMAIN queue = 1 .. Len(queue)
        /\ Taken \in Nat
        /\ submitted = Taken + Len(queue)
        /\ \A i \in DOMAIN queue : queue[i] = Taken + i
    BY DEF TypeOK, IInv, QueueIsSuffix, Taken
  <2>2. ASSUME NEW t \in Task
        PROVE  t \in Waiting <=> Taken < t /\ t <= submitted
    <3>1. ASSUME Taken < t, t <= submitted
          PROVE  t \in Waiting
      <4>1. t - Taken \in DOMAIN queue /\ queue[t - Taken] = t
        BY <2>1, <3>1 DEF Task, TypeOK
      <4> QED
        BY <4>1 DEF Waiting
    <3>2. ASSUME t \in Waiting
          PROVE  Taken < t /\ t <= submitted
      BY <2>1, <3>2 DEF Waiting
    <3> QED
      BY <3>1, <3>2
  <2>3. ASSUME NEW t \in Task
        PROVE  /\ tasks[t].status = "pending" => t \in Waiting
               /\ tasks[t].status = "active" => RunBy(t) # {}
               /\ t \in Waiting => RunBy(t) = {} /\ t \notin started
               /\ \A v, w \in RunBy(t) : v = w
    <3>1. TaskInv(t) /\ t # None
      BY DEF IInv, Task
    <3>2. tasks[t].status = "pending" => t \in Waiting
      BY <2>1, <2>2, <3>1 DEF TaskInv, Gone, TypeOK, Task
    <3>3. t \in Waiting => t \notin started
      BY <2>1, <2>2, <3>1 DEF TaskInv, Task
    <3>4. \A w \in RunBy(t) : t \in started /\ \A v \in RunBy(t) : v = w
      BY <3>1 DEF RunBy, IInv, WorkerInv
    <3>5. tasks[t].status = "active" => RunBy(t) # {}
      BY <3>1 DEF TaskInv, RunBy
    <3> QED
      BY <3>2, <3>3, <3>4, <3>5
  <2> QED
    BY <2>1, <2>3 DEF NoTaskLost, Taken
<1> QED
  BY <1>1, TypeCorrect, IInvAlways, PTL

\* Commands start in the order they were submitted.
THEOREM StartsInOrderAlways == Spec => []StartsInOrder
<1>1. TypeOK /\ IInv => StartsInOrder
  <2> SUFFICES ASSUME TypeOK, IInv, NEW t \in Task, NEW u \in Task, t < u, u \in started
               PROVE  tasks[t].status # "pending"
    BY DEF StartsInOrder
  <2>1. TaskInv(t) /\ TaskInv(u) /\ Taken \in Int
    BY DEF IInv, Taken, TypeOK
  <2> QED
    BY <2>1 DEF TaskInv, Task
<1> QED
  BY <1>1, TypeCorrect, IInvAlways, PTL

\* A task canceled before a worker took it never reaches the cluster.
THEOREM CanceledBeforeStartNeverRunsAlways == Spec => CanceledBeforeStartNeverRuns
<1>1. TypeOK /\ [Next]_vars =>
          [\A t \in Task :
              /\ t <= submitted
              /\ t \notin started
              /\ tasks[t].status \in {"canceled", "gone"}
              => t \notin started']_vars
  BY DEF Next, Submit, List, Cancel, Skip, Start, Finish, Tick, vars
<1> QED
  BY <1>1, TypeCorrect, PTL DEF Spec, CanceledBeforeStartNeverRuns

\* Only expiry takes a task away, and only a finished one.
LEMMA StepFromTask ==
    ASSUME TypeOK, IInv, Next, NEW t \in Task
    PROVE  \/ tasks'[t] = tasks[t]
           \/ tasks'[t] = Gone /\ Terminal(t) /\ tasks[t].finished + TTL < now
           \/ tasks[t] = Gone /\ ~Present(t)
           \/ tasks[t].status \in Live /\ tasks'[t].status \in TaskStatus
           \/ /\ tasks[t].status \in Live \cup {"canceled"}
              /\ tasks'[t].status \in TaskStatus
              /\ \E w \in RunBy(t) : running'[w] = None
<1>1. ASSUME NEW u \in User, Submit(u)
      PROVE  tasks'[t] = AfterExpire[t] \/ tasks[t] = Gone
  BY <1>1, ExpireType DEF Submit, IInv, TaskInv, TypeOK
<1>2. ASSUME NEW u \in User, NEW c \in Task, Cancel(u, c)
      PROVE  tasks'[t] = tasks[t] \/ (tasks[t].status \in Live /\ tasks'[t].status \in TaskStatus)
  BY <1>2 DEF Cancel, TypeOK, TaskStatus
<1>3. ASSUME NEW w \in Worker, Start(w)
      PROVE  tasks'[t] = tasks[t] \/ (tasks[t].status \in Live /\ tasks'[t].status \in TaskStatus)
  <2>1. Head(queue) = Taken + 1 /\ Head(queue) \in Task /\ Taken \in Nat
    BY <1>3, TakeHead DEF Start
  <2>2. tasks[Head(queue)].status \in Live
    <3>1. TaskInv(Head(queue)) /\ Head(queue) \notin started
      BY <2>1 DEF IInv, TaskInv
    <3>2. tasks[Head(queue)].status \in TaskStatus
      BY <1>3, <2>1 DEF Start, TypeOK, Record, Gone
    <3> QED
      BY <1>3, <3>1, <3>2 DEF Start, TaskInv, TaskStatus, Live
  <2> QED
    BY <1>3, <2>1, <2>2 DEF Start, TypeOK, TaskStatus, Live
<1>4. ASSUME NEW w \in Worker, NEW outcome \in Outcome, Finish(w, outcome)
      PROVE  \/ tasks'[t] = tasks[t]
             \/ /\ tasks[t].status \in Live \cup {"canceled"}
                /\ tasks'[t].status \in TaskStatus
                /\ \E v \in RunBy(t) : running'[v] = None
  <2>1. CASE t = running[w] /\ Present(t)
    <3>1. tasks[t].status \in Live \cup {"canceled"}
      BY <1>4, <2>1 DEF Finish, IInv, WorkerInv, Present, Live
    <3>2. tasks'[t].status \in TaskStatus
      BY <1>4, <2>1 DEF Finish, TypeOK, TaskStatus
    <3>3. w \in RunBy(t) /\ running'[w] = None
      BY <1>4, <2>1 DEF Finish, RunBy, TypeOK
    <3> QED
      BY <3>1, <3>2, <3>3
  <2> QED
    BY <1>4, <2>1 DEF Finish, TypeOK
<1>5. AfterExpire[t] = tasks[t] \/ (AfterExpire[t] = Gone /\ Terminal(t)
                                       /\ tasks[t].finished + TTL < now)
  BY ExpireOne
<1>6. tasks[t] = Gone => ~Present(t)
  BY DEF Gone, Present
<1> QED
  BY <1>1, <1>2, <1>3, <1>4, <1>5, <1>6 DEF Next, List, Skip, Tick

\* Completed and failed are final until the task expires; a canceled task
\* changes only when the worker that was running it returns.
THEOREM OutcomeIsFinalAlways == Spec => OutcomeIsFinal
<1> DEFINE Final(t) ==
        /\ tasks[t].status \in Outcome => tasks'[t] \in {tasks[t], Gone}
        /\ tasks[t].status = "canceled" =>
              \/ tasks'[t] \in {tasks[t], Gone}
              \/ \E w \in RunBy(t) : running'[w] = None
<1>1. TypeOK /\ IInv /\ [Next]_vars => [\A t \in Task : Final(t)]_vars
  <2> SUFFICES ASSUME TypeOK, IInv, Next, NEW t \in Task PROVE Final(t)
    OBVIOUS
  <2> QED
    BY StepFromTask DEF Outcome, Live, Present
<1> QED
  BY <1>1, TypeCorrect, IInvAlways, PTL DEF Spec, OutcomeIsFinal

\* A task disappears only when it has been finished for longer than the TTL.
THEOREM ExpiresAfterTTLAlways == Spec => ExpiresAfterTTL
<1> DEFINE Kept(t) == Present(t) /\ ~Present(t)' =>
                          Terminal(t) /\ tasks[t].finished + TTL < now
<1>1. TypeOK /\ IInv /\ [Next]_vars => [\A t \in Task : Kept(t)]_vars
  <2> SUFFICES ASSUME TypeOK, IInv, Next, NEW t \in Task PROVE Kept(t)
    OBVIOUS
  <2> QED
    BY StepFromTask DEF Present, TaskStatus, Live, Outcome
<1> QED
  BY <1>1, TypeCorrect, IInvAlways, PTL DEF Spec, ExpiresAfterTTL
=============================================================================
