------------------------ MODULE UsageAccountingProofs ------------------------
(***************************************************************************)
(* Who pays, for any number of users, credentials, clusters, requests and  *)
(* restarts, proved of UsageAccounting.                                    *)
(***************************************************************************)
EXTENDS UsageAccounting, FiniteSetTheorems, TLAPS

LEMMA SentType ==
    ASSUME TypeOK, NEW r \in Request, req[r].phase # "unsent"
    PROVE  req[r] \in Sent
<1>1. req[r] \in Sent \cup {Unsent}
  BY DEF TypeOK
<1>2. req[r] # Unsent
  BY DEF Unsent
<1> QED BY <1>1, <1>2

LEMMA JobType ==
    ASSUME TypeOK, NEW j \in Jobs
    PROVE  j \in Request /\ job[j] \in Job
<1>1. j \in Request /\ job[j].state # "none"
  BY DEF Jobs
<1>2. job[j] \in Job \cup {NoJob}
  BY <1>1 DEF TypeOK
<1> QED BY <1>1, <1>2 DEF NoJob

LEMMA CallerType ==
    ASSUME TypeOK, NEW r \in Request, req[r] \in Sent
    PROVE  Caller(r) \in User /\ AccountFor(Caller(r)) \in Account \cup {None}
<1>1. Caller(r) \in User
  BY CredentialAssumption DEF Caller, Sent
<1> QED BY <1>1 DEF AccountFor, TypeOK

\* A cluster's next number.
LEMMA NumberType ==
    ASSUME NEW cluster
    PROVE  Cardinality(JobsOn(cluster)) + 1 \in Nat
<1>1. IsFiniteSet(Request)
  BY FS_Interval, BoundAssumption DEF Request
<1>2. JobsOn(cluster) \subseteq Request
  BY DEF JobsOn, Jobs
<1>3. IsFiniteSet(JobsOn(cluster))
  BY <1>1, <1>2, FS_Subset
<1>4. Cardinality(JobsOn(cluster)) \in Nat
  BY <1>3, FS_CardinalityType
<1> QED BY <1>4

-----------------------------------------------------------------------------
(* Type correctness, and what a step does to its request.                  *)

\* Request r goes to phase p of the same credential; the others stay.
Moves(r, p) ==
    /\ req[r] \in Sent
    /\ req'[r] \in Sent
    /\ req'[r].phase = p
    /\ req'[r].credential = req[r].credential
    /\ \A q \in Request \ {r} : req'[q] = req[q]
    /\ req' \in [Request -> Sent \cup {Unsent}]

LEMMA MoveOnly ==
    ASSUME TypeOK, NEW r \in Request, req[r].phase # "unsent", NEW p \in Phase,
           req' = [req EXCEPT ![r].phase = p]
    PROVE  /\ Moves(r, p)
           /\ req'[r].polled = req[r].polled
           /\ req'[r].account = req[r].account
<1>1. req[r] \in Sent /\ req \in [Request -> Sent \cup {Unsent}]
  BY SentType DEF TypeOK
<1>2. req'[r].phase = p /\ req'[r].credential = req[r].credential
  BY <1>1 DEF Sent
<1>3. req'[r].polled = req[r].polled /\ req'[r].account = req[r].account
  BY <1>1 DEF Sent
<1>4. [req[r] EXCEPT !.phase = p] \in Sent
  BY <1>1 DEF Sent
<1>5. req'[r] \in Sent /\ req' \in [Request -> Sent \cup {Unsent}]
  BY <1>1, <1>4
<1>6. \A q \in Request \ {r} : req'[q] = req[q]
  BY <1>1
<1> QED BY <1>1, <1>2, <1>3, <1>5, <1>6 DEF Moves

\* A poll also notes what it polled, and what it charges.
LEMMA PollMove ==
    ASSUME TypeOK, NEW r \in Request, req[r].phase # "unsent", NEW p \in Phase,
           NEW j \in Request, NEW a \in Account \cup {None}
    PROVE  /\ req' = [req EXCEPT ![r].phase = p, ![r].polled = j] =>
                 Moves(r, p) /\ req'[r].polled = j /\ req'[r].account = req[r].account
           /\ req' = [req EXCEPT ![r].phase = p, ![r].polled = j, ![r].account = a] =>
                 Moves(r, p) /\ req'[r].polled = j /\ req'[r].account = a
<1>1. req[r] \in Sent /\ req \in [Request -> Sent \cup {Unsent}]
  BY SentType DEF TypeOK
<1>2. /\ [req[r] EXCEPT !.phase = p, !.polled = j] \in Sent
      /\ [req[r] EXCEPT !.phase = p, !.polled = j, !.account = a] \in Sent
  BY <1>1 DEF Sent
<1>3. ASSUME req' = [req EXCEPT ![r].phase = p, ![r].polled = j]
      PROVE  Moves(r, p) /\ req'[r].polled = j /\ req'[r].account = req[r].account
  <2>1. req'[r] = [req[r] EXCEPT !.phase = p, !.polled = j]
    BY <1>1, <1>3
  <2>2. req'[r].phase = p /\ req'[r].credential = req[r].credential
    BY <1>1, <2>1 DEF Sent
  <2>3. req'[r].polled = j /\ req'[r].account = req[r].account
    BY <1>1, <2>1 DEF Sent
  <2>4. req' \in [Request -> Sent \cup {Unsent}]
    BY <1>1, <1>2, <1>3
  <2>5. \A q \in Request \ {r} : req'[q] = req[q]
    BY <1>1, <1>3
  <2> QED BY <1>1, <1>2, <2>1, <2>2, <2>3, <2>4, <2>5 DEF Moves
<1>4. ASSUME req' = [req EXCEPT ![r].phase = p, ![r].polled = j, ![r].account = a]
      PROVE  Moves(r, p) /\ req'[r].polled = j /\ req'[r].account = a
  <2>1. req'[r] = [req[r] EXCEPT !.phase = p, !.polled = j, !.account = a]
    BY <1>1, <1>4
  <2>2. req'[r].phase = p /\ req'[r].credential = req[r].credential
    BY <1>1, <2>1 DEF Sent
  <2>3. req'[r].polled = j /\ req'[r].account = a
    BY <1>1, <2>1 DEF Sent
  <2>4. req' \in [Request -> Sent \cup {Unsent}]
    BY <1>1, <1>2, <1>4
  <2>5. \A q \in Request \ {r} : req'[q] = req[q]
    BY <1>1, <1>4
  <2> QED BY <1>1, <1>2, <2>1, <2>2, <2>3, <2>4, <2>5 DEF Moves
<1> QED BY <1>3, <1>4
\* Each action in these terms.
LEMMA SubmitMove ==
    ASSUME TypeOK, NEW r \in Request, NEW cluster \in Cluster,
           NEW requested \in Account \cup {None}, Submit(r, cluster, requested)
    PROVE  /\ req[r].phase = "authenticated"
           /\ Moves(r, "submitted")
           /\ job' \in [Request -> Job \cup {NoJob}]
           /\ job'[r].state = "running"
           /\ job'[r].requested = requested
           /\ job'[r].account = IF requested # None THEN requested ELSE AccountFor(Caller(r))
           /\ \A q \in Request \ {r} : job'[q] = job[q]
           /\ UNCHANGED <<remembered, seen, restarts>>
<1>1. req[r].phase = "authenticated" /\ UNCHANGED <<remembered, seen, restarts>>
  BY DEF Submit
<1>2. Moves(r, "submitted")
  BY <1>1, MoveOnly DEF Submit, Phase
<1> DEFINE number == Cardinality(JobsOn(cluster)) + 1
           account == IF requested # None THEN requested ELSE AccountFor(Caller(r))
           new == [state |-> "running", cluster |-> cluster, number |-> number,
                   requested |-> requested, account |-> account]
<1>3. number \in Nat /\ account \in Account \cup {None}
  BY <1>2, NumberType, CallerType DEF Moves
<1>4. job' = [job EXCEPT ![r] = new]
  BY DEF Submit
<1> HIDE DEF number, account
<1>5. new \in Job
  BY <1>3 DEF Job
<1>6. job \in [Request -> Job \cup {NoJob}]
  BY DEF TypeOK
<1>7. /\ job' \in [Request -> Job \cup {NoJob}]
      /\ job'[r] = new
      /\ \A q \in Request \ {r} : job'[q] = job[q]
  BY <1>4, <1>5, <1>6
<1> QED BY <1>1, <1>2, <1>7 DEF account

LEMMA PollMoves ==
    ASSUME TypeOK, NEW r \in Request, NEW j \in Request
    PROVE  /\ PollUncharged(r, j) =>
                 /\ Moves(r, "answered")
                 /\ req[r].phase = "authenticated"
                 /\ UNCHANGED <<remembered, job, seen, restarts>>
           /\ PollSkipped(r, j) =>
                 /\ Moves(r, "skipped")
                 /\ req[r].phase = "authenticated"
                 /\ UNCHANGED <<remembered, job, seen, restarts>>
           /\ PollCharge(r, j) =>
                 /\ Moves(r, "posting")
                 /\ req[r].phase = "authenticated"
                 /\ j \in Jobs
                 /\ req'[r].polled = j
                 /\ req'[r].account = AccountFor(Caller(r))
                 /\ AccountFor(Caller(r)) # None
                 /\ job[j].number \notin seen
                 /\ seen' = seen \cup {job[j].number}
                 /\ UNCHANGED <<remembered, job, restarts>>
<1>1. CASE req[r].phase # "authenticated"
  BY <1>1 DEF PollUncharged, PollSkipped, PollCharge, PollFinished
<1>2. CASE req[r].phase = "authenticated"
  <2>1. req[r] \in Sent
    BY <1>2, SentType
  <2>2. AccountFor(Caller(r)) \in Account \cup {None}
    BY <2>1, CallerType
  <2>3. PollUncharged(r, j) => Moves(r, "answered") /\ UNCHANGED <<remembered, job, seen, restarts>>
    BY <1>2, <2>2, PollMove DEF PollUncharged, Phase
  <2>4. PollSkipped(r, j) => Moves(r, "skipped") /\ UNCHANGED <<remembered, job, seen, restarts>>
    BY <1>2, <2>2, PollMove DEF PollSkipped, Phase
  <2>5. ASSUME PollCharge(r, j)
        PROVE  Moves(r, "posting") /\ req'[r].polled = j /\ req'[r].account = AccountFor(Caller(r))
    <3> DEFINE a == AccountFor(Caller(r))
    <3>1. req' = [req EXCEPT ![r].phase = "posting", ![r].polled = j, ![r].account = a]
      BY <2>5 DEF PollCharge
    <3>2. a \in Account \cup {None} /\ "posting" \in Phase /\ req[r].phase # "unsent"
      BY <1>2, <2>2 DEF Phase
    <3> HIDE DEF a
    <3>3. Moves(r, "posting") /\ req'[r].polled = j /\ req'[r].account = a
      BY <3>1, <3>2, PollMove
    <3> QED BY <3>3 DEF a
  <2>6. PollCharge(r, j) => /\ j \in Jobs
                            /\ AccountFor(Caller(r)) # None
                            /\ job[j].number \notin seen
                            /\ seen' = seen \cup {job[j].number}
                            /\ UNCHANGED <<remembered, job, restarts>>
    BY DEF PollCharge, PollFinished, Jobs
  <2> QED BY <1>2, <2>3, <2>4, <2>5, <2>6
<1> QED BY <1>1, <1>2

\* An answer of the platform, a failed post, a stored event.
LEMMA PostMoves ==
    ASSUME TypeOK, NEW r \in Request
    PROVE  /\ Confirmed(r) =>
                 /\ Moves(r, "confirmed")
                 /\ req[r].phase = "recorded"
                 /\ UNCHANGED <<remembered, job, seen, restarts>>
           /\ Raised(r) =>
                 /\ Moves(r, "abandoned") \/ Moves(r, "unconfirmed")
                 /\ req[r].phase = "posting" => Moves(r, "abandoned")
                 /\ req[r].phase \in {"posting", "recorded"}
                 /\ seen' = seen \ {job[req[r].polled].number}
                 /\ UNCHANGED <<remembered, job, restarts>>
           /\ Record(r) =>
                 /\ req[r].phase = "posting" => Moves(r, "recorded")
                 /\ req[r].phase # "posting" => Moves(r, "unconfirmed")
                 /\ req[r].phase \in {"posting", "abandoned"}
                 /\ UNCHANGED <<remembered, job, seen, restarts>>
           /\ Confirmed(r) \/ Raised(r) \/ Record(r) =>
                 req'[r].polled = req[r].polled /\ req'[r].account = req[r].account
<1>1. ASSUME Confirmed(r)
      PROVE  /\ Moves(r, "confirmed")
             /\ req'[r].polled = req[r].polled /\ req'[r].account = req[r].account
  BY <1>1, MoveOnly DEF Confirmed, Phase
<1>2. ASSUME Raised(r)
      PROVE  /\ Moves(r, "abandoned") \/ Moves(r, "unconfirmed")
             /\ req[r].phase = "posting" => Moves(r, "abandoned")
             /\ req'[r].polled = req[r].polled /\ req'[r].account = req[r].account
  <2>1. req[r].phase \in {"posting", "recorded"} /\ req[r].phase # "unsent"
    BY <1>2 DEF Raised
  <2>2. req' = [req EXCEPT ![r].phase = IF req[r].phase = "posting" THEN "abandoned" ELSE "unconfirmed"]
    BY <1>2 DEF Raised, AfterRaise
  <2>3. CASE req[r].phase = "posting"
    BY <2>1, <2>2, <2>3, MoveOnly DEF Phase
  <2>4. CASE req[r].phase # "posting"
    BY <2>1, <2>2, <2>4, MoveOnly DEF Phase
  <2> QED BY <2>3, <2>4
<1>3. ASSUME Record(r)
      PROVE  /\ req[r].phase = "posting" => Moves(r, "recorded")
             /\ req[r].phase # "posting" => Moves(r, "unconfirmed")
             /\ req'[r].polled = req[r].polled /\ req'[r].account = req[r].account
  <2>1. req[r].phase \in {"posting", "abandoned"} /\ req[r].phase # "unsent"
    BY <1>3 DEF Record
  <2>2. req' = [req EXCEPT ![r].phase = IF req[r].phase = "posting" THEN "recorded" ELSE "unconfirmed"]
    BY <1>3 DEF Record
  <2>3. CASE req[r].phase = "posting"
    BY <2>1, <2>2, <2>3, MoveOnly DEF Phase
  <2>4. CASE req[r].phase # "posting"
    BY <2>1, <2>2, <2>4, MoveOnly DEF Phase
  <2> QED BY <2>3, <2>4
<1>4. /\ Confirmed(r) => req[r].phase = "recorded" /\ UNCHANGED <<remembered, job, seen, restarts>>
      /\ Raised(r) => /\ req[r].phase \in {"posting", "recorded"}
                      /\ seen' = seen \ {job[req[r].polled].number}
                      /\ UNCHANGED <<remembered, job, restarts>>
      /\ Record(r) => /\ req[r].phase \in {"posting", "abandoned"}
                      /\ UNCHANGED <<remembered, job, seen, restarts>>
  BY DEF Confirmed, Raised, Record
<1> QED BY <1>1, <1>2, <1>3, <1>4

\* A job that is stopped, put on or ends keeps its number and its account.
LEMMA JobGoesMove ==
    ASSUME TypeOK, NEW j \in Request, NEW state \in {"running", "unlisted", "done"}, JobGoes(j, state)
    PROVE  /\ job' \in [Request -> Job \cup {NoJob}]
           /\ \A q \in Request : /\ job'[q].state = "none" <=> job[q].state = "none"
                                 /\ job'[q].number = job[q].number
                                 /\ job'[q].account = job[q].account
                                 /\ job'[q].requested = job[q].requested
           /\ UNCHANGED <<remembered, req, seen, restarts>>
<1>1. job \in [Request -> Job \cup {NoJob}]
  BY DEF TypeOK
<1>2. job[j] \in Job
  BY <1>1 DEF JobGoes, NoJob
<1>3. job' = [job EXCEPT ![j].state = state] /\ UNCHANGED <<remembered, req, seen, restarts>>
  BY DEF JobGoes
<1>4. [job[j] EXCEPT !.state = state] \in Job
  BY <1>2 DEF Job
<1>5. job'[j].state = state /\ job[j].state # "none"
  BY <1>1, <1>2, <1>3 DEF Job, JobGoes
<1>6. /\ job'[j].number = job[j].number
      /\ job'[j].account = job[j].account
      /\ job'[j].requested = job[j].requested
  BY <1>1, <1>2, <1>3 DEF Job
<1>7. \A q \in Request \ {j} : job'[q] = job[q]
  BY <1>1, <1>3
<1> QED BY <1>1, <1>3, <1>4, <1>5, <1>6, <1>7

\* A restart interrupts what was on its way and forgets.
LEMMA RestartMove ==
    ASSUME TypeOK, Restart
    PROVE  /\ restarts' = restarts + 1 /\ seen' = {} /\ job' = job
           /\ remembered' = [u \in User |-> None]
           /\ req' \in [Request -> Sent \cup {Unsent}]
           /\ \A r \in Request :
                 \/ req'[r] = req[r] /\ req[r].phase \notin {"authenticated", "posting", "recorded"}
                 \/ /\ req'[r] \in Sent /\ req[r] \in Sent
                    /\ req'[r].credential = req[r].credential
                    /\ req'[r].polled = req[r].polled
                    /\ req'[r].account = req[r].account
                    /\ \/ req[r].phase = "authenticated" /\ req'[r].phase = "lost"
                       \/ req[r].phase = "posting" /\ req'[r].phase = "abandoned"
                       \/ req[r].phase = "recorded" /\ req'[r].phase = "unconfirmed"
<1>1. req \in [Request -> Sent \cup {Unsent}]
  BY DEF TypeOK
<1>2. restarts' = restarts + 1 /\ seen' = {} /\ job' = job /\ remembered' = [u \in User |-> None]
  BY DEF Restart
<1>3. DOMAIN req' = Request /\ req' = [r \in Request |-> req'[r]]
  BY DEF Restart
<1>4. ASSUME NEW r \in Request, req[r].phase # "unsent", NEW p \in Phase,
             req'[r] = [req[r] EXCEPT !.phase = p]
      PROVE  /\ req'[r] \in Sent /\ req[r] \in Sent
             /\ req'[r].credential = req[r].credential
             /\ req'[r].polled = req[r].polled
             /\ req'[r].account = req[r].account
             /\ req'[r].phase = p
  <2>1. req[r] \in Sent
    BY <1>4, SentType
  <2> QED BY <1>4, <2>1 DEF Sent
<1>5. ASSUME NEW r \in Request
      PROVE  \/ req'[r] = req[r] /\ req[r].phase \notin {"authenticated", "posting", "recorded"}
             \/ /\ req'[r] \in Sent /\ req[r] \in Sent
                /\ req'[r].credential = req[r].credential
                /\ req'[r].polled = req[r].polled
                /\ req'[r].account = req[r].account
                /\ \/ req[r].phase = "authenticated" /\ req'[r].phase = "lost"
                   \/ req[r].phase = "posting" /\ req'[r].phase = "abandoned"
                   \/ req[r].phase = "recorded" /\ req'[r].phase = "unconfirmed"
  <2>1. CASE req[r].phase = "authenticated"
    <3>1. req'[r] = [req[r] EXCEPT !.phase = "lost"]
      BY <2>1 DEF Restart
    <3> QED BY <2>1, <3>1, <1>4 DEF Phase
  <2>2. CASE req[r].phase = "posting"
    <3>1. req'[r] = [req[r] EXCEPT !.phase = "abandoned"]
      BY <2>2 DEF Restart, AfterRaise
    <3> QED BY <2>2, <3>1, <1>4 DEF Phase
  <2>3. CASE req[r].phase = "recorded"
    <3>1. req'[r] = [req[r] EXCEPT !.phase = "unconfirmed"]
      BY <2>3 DEF Restart, AfterRaise
    <3> QED BY <2>3, <3>1, <1>4 DEF Phase
  <2>4. CASE req[r].phase \notin {"authenticated", "posting", "recorded"}
    <3>1. req'[r] = req[r]
      BY <2>4 DEF Restart
    <3> QED BY <2>4, <3>1
  <2> QED BY <2>1, <2>2, <2>3, <2>4
<1>6. req' \in [Request -> Sent \cup {Unsent}]
  BY <1>1, <1>3, <1>5
<1> QED BY <1>2, <1>5, <1>6

LEMMA AuthenticateMove ==
    ASSUME TypeOK, NEW r \in Request, NEW c \in Credential, Authenticate(r, c)
    PROVE  /\ req[r] = Unsent
           /\ req'[r].phase = "authenticated" /\ req'[r].credential = c
           /\ \A q \in Request \ {r} : req'[q] = req[q]
           /\ req' \in [Request -> Sent \cup {Unsent}]
           /\ remembered' \in [User -> Account \cup {None}]
           /\ \A u \in User : IF c \in Keycard /\ UserOf[c] = u
                               THEN remembered'[u] = AccountOf[c] ELSE remembered'[u] = remembered[u]
           /\ \A q \in 1 .. (r - 1) : req[q] # Unsent
           /\ UNCHANGED <<job, seen, restarts>>
<1>1. req \in [Request -> Sent \cup {Unsent}] /\ remembered \in [User -> Account \cup {None}]
  BY DEF TypeOK
<1>2. [phase |-> "authenticated", credential |-> c, polled |-> None, account |-> None] \in Sent
  BY DEF Sent, Phase
<1>3. req' \in [Request -> Sent \cup {Unsent}] /\ \A q \in Request \ {r} : req'[q] = req[q]
  BY <1>1, <1>2 DEF Authenticate
<1>4. req'[r].phase = "authenticated" /\ req'[r].credential = c
  BY <1>1 DEF Authenticate
<1>5. /\ remembered' \in [User -> Account \cup {None}]
      /\ \A u \in User : IF c \in Keycard /\ UserOf[c] = u
                          THEN remembered'[u] = AccountOf[c] ELSE remembered'[u] = remembered[u]
  BY <1>1, CredentialAssumption DEF Authenticate, Remember
<1> QED BY <1>3, <1>4, <1>5 DEF Authenticate
-----------------------------------------------------------------------------
(* The inductive invariant.                                                *)

\* The requests that polled a job whose usage they post, posted or may have.
Charging == OnItsWay \cup Posted \cup {r \in Request : req[r].phase = "abandoned"}

\* A job belongs to the request that submitted it, and what is charged for is
\* a job.
Linked ==
    /\ \A r \in Request : job[r].state # "none" => req[r].phase = "submitted"
    /\ \A r \in Charging : req[r].polled \in Jobs

\* Requests are authenticated in turn.
InTurn == \A r \in Request : req[r] # Unsent => \A q \in Request : q < r => req[q] # Unsent

\* The last request that presented a Keycard of a user.
Last(q, u) == q \in Presented(u) /\ \A p \in Presented(u) : p <= q

\* What is remembered for a user is named by the last Keycard presented; nothing
\* is after a restart, when no request waits.
RememberedLast ==
    \A u \in User :
        (remembered[u] # None \/ \E r \in Presented(u) : req[r].phase = "authenticated") =>
            \E q \in Request : Last(q, u) /\ remembered[u] = AccountOf[req[q].credential]

Charged ==
    /\ \A r \in Jobs : IF job[r].requested = None THEN job[r].account \in Default(r)
                        ELSE job[r].account = job[r].requested
    /\ \A r \in Charging : req[r].account \in Named(r)

\* Within one life of the process no two requests are on their way with the
\* same number.
OnePoster ==
    restarts = 0 =>
        \A r, s \in OnItsWay : job[req[r].polled].number = job[req[s].polled].number => r = s

LEMMA StepType == TypeOK /\ [Next]_vars => TypeOK'
<1> SUFFICES ASSUME TypeOK, [Next]_vars PROVE TypeOK'
  OBVIOUS
<1>1. ASSUME NEW r \in Request, NEW c \in Credential, Authenticate(r, c) PROVE TypeOK'
  BY <1>1, AuthenticateMove DEF TypeOK
<1>2. ASSUME NEW r \in Request, NEW cluster \in Cluster, NEW requested \in Account \cup {None},
             Submit(r, cluster, requested)
      PROVE  TypeOK'
  BY <1>2, SubmitMove DEF TypeOK, Moves
<1>3. ASSUME NEW r \in Request, NEW j \in Request, PollUncharged(r, j) \/ PollSkipped(r, j)
      PROVE  TypeOK'
  BY <1>3, PollMoves DEF TypeOK, Moves
<1>4. ASSUME NEW r \in Request, NEW j \in Request, PollCharge(r, j) PROVE TypeOK'
  <2>1. job[j].number \in Nat
    BY <1>4, PollMoves, JobType DEF Job
  <2>2. /\ req' \in [Request -> Sent \cup {Unsent}]
        /\ seen' = seen \cup {job[j].number}
        /\ UNCHANGED <<remembered, job, restarts>>
    BY <1>4, PollMoves DEF Moves
  <2> QED BY <2>1, <2>2 DEF TypeOK
<1>5. ASSUME NEW r \in Request, Confirmed(r) \/ Raised(r) \/ Record(r) PROVE TypeOK'
  BY <1>5, PostMoves DEF TypeOK, Moves
<1>6. ASSUME NEW j \in Request, NEW state \in {"running", "unlisted", "done"}, JobGoes(j, state) PROVE TypeOK'
  BY <1>6, JobGoesMove DEF TypeOK
<1>7. CASE Restart
  BY <1>7, RestartMove DEF TypeOK
<1>8. CASE UNCHANGED vars
  BY <1>8 DEF vars, TypeOK
<1> QED BY <1>1, <1>2, <1>3, <1>4, <1>5, <1>6, <1>7, <1>8 DEF Next

\* Requests, jobs and what is remembered stay of their types (auth.py,
\* compute.py), for every instance.
THEOREM TypeCorrect == Spec => []TypeOK
<1>1. Init => TypeOK
  BY BoundAssumption DEF Init, TypeOK
<1> QED BY <1>1, StepType, PTL DEF Spec

-----------------------------------------------------------------------------
(* Who is charged.                                                         *)

Accounted == Linked /\ InTurn /\ RememberedLast /\ Charged

IInv == TypeOK /\ Accounted /\ SeenHasPoster /\ OnePoster

\* The phases of each set of requests, before and after a step.
OnItsWayPhase == {"posting", "recorded", "confirmed"}
ChargingPhase == OnItsWayPhase \cup {"unconfirmed", "abandoned"}

LEMMA ByPhase ==
    /\ OnItsWay = {r \in Request : req[r].phase \in OnItsWayPhase}
    /\ Charging = {r \in Request : req[r].phase \in ChargingPhase}
    /\ OnItsWay' = {r \in Request : req'[r].phase \in OnItsWayPhase}
    /\ Charging' = {r \in Request : req'[r].phase \in ChargingPhase}
BY DEF OnItsWay, Charging, Posted, OnItsWayPhase, ChargingPhase

\* What a request was authenticated with stays, and none is authenticated.
SentSame ==
    /\ \A q \in Request : req'[q] = Unsent <=> req[q] = Unsent
    /\ \A q \in Request : req[q] # Unsent => req'[q].credential = req[q].credential

LEMMA MoveSame ==
    ASSUME NEW r \in Request, NEW p, Moves(r, p)
    PROVE  SentSame
<1>1. \A x \in Sent : x # Unsent
  BY DEF Sent, Unsent, Phase
<1> QED BY <1>1 DEF Moves, SentSame

LEMMA PresentedSame ==
    ASSUME SentSame
    PROVE  /\ \A u : Presented(u)' = Presented(u)
           /\ \A u : \A q \in Presented(u) : q \in Request /\ req'[q].credential = req[q].credential
           /\ \A r \in Request : req[r] # Unsent => Caller(r)' = Caller(r) /\ Named(r)' = Named(r) /\ Default(r)' = Default(r)
<1>1. \A u : Presented(u)' = Presented(u)
  BY DEF SentSame, Presented
<1>2. \A u : \A q \in Presented(u) : q \in Request /\ req'[q].credential = req[q].credential
  BY DEF SentSame, Presented
<1>3. ASSUME NEW r \in Request, req[r] # Unsent
      PROVE  Caller(r)' = Caller(r) /\ Named(r)' = Named(r) /\ Default(r)' = Default(r)
  <2>1. Caller(r)' = Caller(r) /\ req'[r].credential = req[r].credential
    BY <1>3 DEF SentSame, Caller
  <2> DEFINE u == Caller(r)
             knows == {k \in Presented(u) : \A p \in Presented(u) : p <= k \/ p > r}
  <2>2. Named(r) = {AccountOf[req[q].credential] : q \in knows}
    BY DEF Named
  <2>3. Named(r)' = {AccountOf[req'[q].credential] : q \in knows}
    <3>1. Presented(u)' = Presented(u) /\ Presented(Caller(r))' = Presented(u)
      BY <1>1, <2>1 DEF Presented
    <3> QED BY <3>1 DEF Named
  <2>4. \A q \in knows : req'[q].credential = req[q].credential
    BY <1>2
  <2> HIDE DEF knows
  <2>5. Named(r)' = Named(r)
    BY <2>2, <2>3, <2>4
  <2> QED BY <2>1, <2>5 DEF Default
<1> QED BY <1>1, <1>2, <1>3

\* The account remembered for the caller of a request that waits is one that it
\* knows of.
LEMMA RememberedNamed ==
    ASSUME TypeOK, RememberedLast, NEW r \in Request, req[r].phase = "authenticated"
    PROVE  /\ AccountFor(Caller(r)) # None => AccountFor(Caller(r)) \in Named(r)
           /\ AccountFor(Caller(r)) \in Default(r)
<1> DEFINE u == Caller(r)
<1>1. req[r] \in Sent /\ req[r] # Unsent /\ u \in User
  BY SentType, CallerType DEF Unsent
<1>2. ASSUME NEW q \in Request, Last(q, u), remembered[u] = AccountOf[req[q].credential]
      PROVE  AccountFor(u) \in Named(r)
  <2>1. q \in {k \in Presented(u) : \A p \in Presented(u) : p <= k \/ p > r}
    BY <1>2 DEF Last
  <2> QED BY <1>2, <2>1 DEF Named, AccountFor
<1>3. AccountFor(u) # None => AccountFor(u) \in Named(r)
  BY <1>1, <1>2 DEF RememberedLast, AccountFor
<1>4. req[r].credential \in Keycard => AccountFor(u) \in Named(r)
  <2>1. req[r].credential \in Keycard => r \in Presented(u)
    BY <1>1 DEF Presented, Caller
  <2> QED BY <1>1, <1>2, <2>1 DEF RememberedLast
<1> QED BY <1>3, <1>4 DEF Default

LEMMA InTurnSame == ASSUME InTurn, SentSame PROVE InTurn'
BY DEF InTurn, SentSame

\* What is remembered stays while no other request waits.
LEMMA RememberedSame ==
    ASSUME RememberedLast, SentSame, UNCHANGED remembered,
           \A q \in Request : req'[q].phase = "authenticated" => req[q].phase = "authenticated"
    PROVE  RememberedLast'
<1> SUFFICES ASSUME NEW u \in User,
                    remembered'[u] # None \/ \E r \in Presented(u)' : req'[r].phase = "authenticated"
             PROVE  \E q \in Request : Last(q, u)' /\ remembered'[u] = AccountOf[req'[q].credential]
  BY DEF RememberedLast
<1>1. Presented(u)' = Presented(u) /\ \A q \in Presented(u) : q \in Request /\ req'[q].credential = req[q].credential
  BY PresentedSame
<1>2. remembered[u] # None \/ \E r \in Presented(u) : req[r].phase = "authenticated"
  BY <1>1
<1>3. PICK q \in Request : Last(q, u) /\ remembered[u] = AccountOf[req[q].credential]
  BY <1>2 DEF RememberedLast
<1> QED BY <1>1, <1>3 DEF Last

\* A step that leaves the jobs alone and moves one request, which is charging
\* before and after, or not after, for what it polled.
LEMMA MoveKeepsCharges ==
    ASSUME TypeOK, Accounted, NEW r \in Request, NEW p \in Phase, Moves(r, p), UNCHANGED <<job, remembered>>,
           req[r].phase # "submitted", p # "authenticated",
           \/ p \notin ChargingPhase
           \/ req'[r].polled \in Jobs /\ req'[r].account \in Named(r)
    PROVE  Accounted'
<1>1. Jobs' = Jobs
  BY DEF Jobs
<1>2. r \notin Jobs
  BY DEF Accounted, Linked, Jobs
<1>3. \A q \in Request \ {r} : req'[q] = req[q] /\ (q \in Charging' <=> q \in Charging)
  BY ByPhase DEF Moves
<1>4. r \in Charging' => req'[r].polled \in Jobs /\ req'[r].account \in Named(r)
  BY ByPhase DEF Moves
<1>5. /\ \A q \in Charging : q \in Request /\ req[q] # Unsent
      /\ \A q \in Jobs : q \in Request /\ req[q] # Unsent
      /\ req[r] # Unsent
  <2>1. \A x \in Sent : x # Unsent
    BY DEF Sent, Unsent, Phase
  <2> QED BY <2>1, ByPhase DEF ChargingPhase, OnItsWayPhase, Accounted, Linked, Jobs, Unsent, Moves
<1>6. SentSame
  BY MoveSame
<1>7. \A q \in Request : req[q] # Unsent => Named(q)' = Named(q) /\ Default(q)' = Default(q)
  BY <1>6, PresentedSame
<1>8. Linked'
  <2>1. ASSUME NEW q \in Request, job'[q].state # "none" PROVE req'[q].phase = "submitted"
    BY <1>2, <1>3, <2>1 DEF Accounted, Linked, Jobs
  <2>2. ASSUME NEW q \in Charging' PROVE req'[q].polled \in Jobs'
    <3>1. q \in Request
      BY ByPhase
    <3> QED BY <1>1, <1>3, <1>4, <3>1 DEF Accounted, Linked
  <2> QED BY <2>1, <2>2 DEF Linked
<1>9. Charged'
  <2>1. ASSUME NEW q \in Jobs'
        PROVE  IF job'[q].requested = None THEN job'[q].account \in Default(q)' ELSE job'[q].account = job'[q].requested
    BY <1>1, <1>5, <1>7 DEF Accounted, Charged
  <2>2. ASSUME NEW q \in Charging' PROVE req'[q].account \in Named(q)'
    <3>1. q \in Request
      BY ByPhase
    <3>2. CASE q = r
      BY <1>4, <1>5, <1>7, <3>2
    <3>3. CASE q # r
      BY <1>3, <1>5, <1>7, <3>1, <3>3 DEF Accounted, Charged
    <3> QED BY <3>2, <3>3
  <2> QED BY <2>1, <2>2 DEF Charged
<1>10. RememberedLast'
  <2>1. \A q \in Request : req'[q].phase = "authenticated" => req[q].phase = "authenticated"
    BY <1>3 DEF Moves
  <2> QED BY <1>6, <2>1, RememberedSame DEF Accounted
<1> QED BY <1>6, <1>8, <1>9, <1>10, InTurnSame DEF Accounted

LEMMA AuthenticateStep ==
    ASSUME TypeOK, Accounted, NEW r \in Request, NEW c \in Credential, Authenticate(r, c)
    PROVE  Accounted'
<1>1. /\ req[r] = Unsent /\ req'[r] # Unsent
      /\ req'[r].phase = "authenticated" /\ req'[r].credential = c /\ req[r].phase = "unsent"
      /\ \A q \in Request \ {r} : req'[q] = req[q]
      /\ UNCHANGED job
  BY AuthenticateMove DEF Unsent
\* It is the last one.
<1>2. \A q \in Request : req'[q] # Unsent => q <= r
  <2>1. \A q \in Request : q > r => req[q] = Unsent
    BY <1>1 DEF Accounted, InTurn
  <2> QED BY <1>1, <2>1, BoundAssumption DEF Request
<1>3. InTurn'
  <2> SUFFICES ASSUME NEW s \in Request, req'[s] # Unsent, NEW q \in Request, q < s PROVE req'[q] # Unsent
    BY DEF InTurn
  <2>1. CASE s = r
    <3>1. q \in 1 .. (r - 1)
      BY <2>1, BoundAssumption DEF Request
    <3> QED BY <1>1, <2>1, <3>1, AuthenticateMove
  <2>2. CASE s # r
    BY <1>1, <2>2 DEF Accounted, InTurn
  <2> QED BY <2>1, <2>2
\* A Keycard more is presented, of its user.
<1>4. ASSUME NEW u
      PROVE  /\ \A q \in Request \ {r} : q \in Presented(u)' <=> q \in Presented(u)
             /\ r \notin Presented(u)
             /\ r \in Presented(u)' <=> c \in Keycard /\ UserOf[c] = u
             /\ Presented(u) \subseteq Presented(u)' /\ Presented(u)' \subseteq Request
  BY <1>1 DEF Presented
<1>5. ASSUME NEW s \in Request, req[s] # Unsent
      PROVE  Named(s) \subseteq Named(s)' /\ Default(s) \subseteq Default(s)'
  <2>1. s # r /\ s < r /\ Caller(s)' = Caller(s) /\ req'[s] = req[s]
    <3>1. s # r /\ req'[s] = req[s]
      BY <1>1, <1>5
    <3>2. s <= r
      BY <1>2, <1>5, <3>1
    <3> QED BY <3>1, <3>2, BoundAssumption DEF Caller, Request
  <2>0. PICK u : u = Caller(s)
    OBVIOUS
  <2>2. ASSUME NEW k \in Presented(u), \A p \in Presented(u) : p <= k \/ p > s
        PROVE  AccountOf[req[k].credential] \in Named(s)'
    <3>1. k # r /\ k \in Presented(u)' /\ req'[k] = req[k]
      BY <1>1, <1>4
    <3>2. \A p \in Presented(u)' : p <= k \/ p > s
      BY <1>4, <2>1, <2>2
    <3>3. Presented(Caller(s))' = Presented(u)'
      BY <2>0, <2>1 DEF Presented
    <3>4. k \in {m \in Presented(Caller(s))' : \A p \in Presented(Caller(s))' : p <= m \/ p > s}
      BY <3>1, <3>2, <3>3
    <3>5. Named(s)' = {AccountOf[req'[q].credential] : q \in {m \in Presented(Caller(s))' : \A p \in Presented(Caller(s))' : p <= m \/ p > s}}
      BY DEF Named
    <3> QED BY <3>1, <3>4, <3>5
  <2>3. Named(s) = {AccountOf[req[q].credential] : q \in {k \in Presented(u) : \A p \in Presented(u) : p <= k \/ p > s}}
    BY <2>0 DEF Named
  <2>4. Named(s) \subseteq Named(s)'
    BY <2>2, <2>3
  <2> QED BY <2>1, <2>4 DEF Default
<1>6. RememberedLast'
  <2> SUFFICES ASSUME NEW u \in User,
                      remembered'[u] # None \/ \E q \in Presented(u)' : req'[q].phase = "authenticated"
               PROVE  \E q \in Request : Last(q, u)' /\ remembered'[u] = AccountOf[req'[q].credential]
    BY DEF RememberedLast
  <2>1. CASE c \in Keycard /\ UserOf[c] = u
    <3>1. remembered'[u] = AccountOf[c]
      BY <2>1, AuthenticateMove
    <3>2. \A p \in Presented(u)' : p <= r
      BY <1>2, <1>4 DEF Presented
    <3>3. Last(r, u)'
      BY <1>4, <2>1, <3>2 DEF Last
    <3> QED BY <1>1, <3>1, <3>3
  <2>2. CASE ~(c \in Keycard /\ UserOf[c] = u)
    <3>1. remembered'[u] = remembered[u]
      BY <2>2, AuthenticateMove
    <3>2. Presented(u)' = Presented(u) /\ \A q \in Presented(u) : q \in Request /\ q # r /\ req'[q] = req[q]
      BY <1>1, <1>4, <2>2
    <3>3. PICK q \in Request : Last(q, u) /\ remembered[u] = AccountOf[req[q].credential]
      BY <3>1, <3>2 DEF Accounted, RememberedLast
    <3> QED BY <3>1, <3>2, <3>3 DEF Last
  <2> QED BY <2>1, <2>2
<1>7. Jobs' = Jobs /\ r \notin Jobs /\ r \notin Charging' /\ Charging' \subseteq Request
  BY <1>1, ByPhase DEF Accounted, Linked, Jobs, ChargingPhase, OnItsWayPhase
<1>8. \A q \in Request \ {r} : q \in Charging' <=> q \in Charging
  BY <1>1, ByPhase
<1>9. Linked'
  BY <1>1, <1>7, <1>8 DEF Accounted, Linked, Jobs
<1>10. /\ \A q \in Charging : q \in Request /\ req[q] # Unsent
       /\ \A q \in Jobs : q \in Request /\ req[q] # Unsent
  BY ByPhase DEF ChargingPhase, OnItsWayPhase, Accounted, Linked, Jobs, Unsent
<1>11. Charged'
  <2>1. ASSUME NEW q \in Jobs'
        PROVE  IF job'[q].requested = None THEN job'[q].account \in Default(q)' ELSE job'[q].account = job'[q].requested
    BY <1>1, <1>5, <1>7, <1>10 DEF Accounted, Charged
  <2>2. ASSUME NEW q \in Charging' PROVE req'[q].account \in Named(q)'
    <3>1. q \in Request \ {r} /\ q \in Charging
      BY <1>7, <1>8
    <3> QED BY <1>1, <1>5, <1>10, <3>1 DEF Accounted, Charged
  <2> QED BY <2>1, <2>2 DEF Charged
<1> QED BY <1>3, <1>6, <1>9, <1>11 DEF Accounted

LEMMA SubmitStep ==
    ASSUME TypeOK, Accounted, NEW r \in Request, NEW cluster \in Cluster,
           NEW requested \in Account \cup {None}, Submit(r, cluster, requested)
    PROVE  Accounted'
<1>1. /\ req[r].phase = "authenticated" /\ req'[r].phase = "submitted"
      /\ req[r] \in Sent /\ req[r] # Unsent /\ UNCHANGED remembered
      /\ \A q \in Request \ {r} : req'[q] = req[q] /\ job'[q] = job[q]
  BY SubmitMove DEF Moves, Unsent
<1>2. /\ job'[r].state = "running" /\ job'[r].requested = requested
      /\ job'[r].account = IF requested # None THEN requested ELSE AccountFor(Caller(r))
  BY SubmitMove
<1>3. Jobs' = Jobs \cup {r}
  BY <1>1, <1>2 DEF Jobs, Accounted, Linked
<1>4. Charging' = Charging /\ r \notin Charging
  BY <1>1, ByPhase DEF ChargingPhase, OnItsWayPhase
<1>5. /\ \A q \in Charging : q \in Request /\ req[q] # Unsent
      /\ \A q \in Jobs : q \in Request /\ req[q] # Unsent
  BY ByPhase DEF ChargingPhase, OnItsWayPhase, Accounted, Linked, Jobs, Unsent
<1>6. SentSame
  BY SubmitMove, MoveSame
<1>7. \A q \in Request : req[q] # Unsent => Named(q)' = Named(q) /\ Default(q)' = Default(q)
  BY <1>6, PresentedSame
<1>8. Linked'
  <2>1. ASSUME NEW q \in Request, job'[q].state # "none" PROVE req'[q].phase = "submitted"
    BY <1>1, <2>1 DEF Accounted, Linked
  <2>2. ASSUME NEW q \in Charging' PROVE req'[q].polled \in Jobs'
    BY <1>1, <1>3, <1>4, <1>5, <2>2 DEF Accounted, Linked
  <2> QED BY <2>1, <2>2 DEF Linked
<1>9. Charged'
  <2>1. ASSUME NEW q \in Jobs'
        PROVE  IF job'[q].requested = None THEN job'[q].account \in Default(q)' ELSE job'[q].account = job'[q].requested
    <3>1. CASE q = r
      <4>1. AccountFor(Caller(r)) \in Default(r)
        BY <1>1, RememberedNamed DEF Accounted
      <4> QED BY <1>1, <1>2, <1>7, <3>1, <4>1
    <3>2. CASE q # r
      BY <1>1, <1>3, <1>5, <1>7, <2>1, <3>2 DEF Accounted, Charged
    <3> QED BY <3>1, <3>2
  <2>2. ASSUME NEW q \in Charging' PROVE req'[q].account \in Named(q)'
    BY <1>1, <1>4, <1>5, <1>7, <2>2 DEF Accounted, Charged
  <2> QED BY <2>1, <2>2 DEF Charged
<1>10. RememberedLast'
  BY <1>1, <1>6, RememberedSame DEF Accounted
<1> QED BY <1>6, <1>8, <1>9, <1>10, InTurnSame DEF Accounted

\* What a restart interrupts is charging on, or not on its way any more.
LEMMA RestartStep ==
    ASSUME TypeOK, Accounted, Restart
    PROVE  Accounted'
<1>1. job' = job /\ Jobs' = Jobs /\ \A u \in User : remembered'[u] = None
  BY RestartMove DEF Jobs
<1>2. \A q \in Request : req'[q].phase # "authenticated"
  BY RestartMove
<1>3. SentSame
  <2>1. \A x \in Sent : x # Unsent
    BY DEF Sent, Unsent, Phase
  <2> QED BY <2>1, RestartMove DEF SentSame
<1>4. RememberedLast'
  <2>1. \A u : \A q \in Presented(u)' : q \in Request
    BY DEF Presented
  <2> QED BY <1>1, <1>2, <2>1 DEF RememberedLast
<1>5. ASSUME NEW q \in Charging'
      PROVE  q \in Request /\ q \in Charging /\ req'[q].polled = req[q].polled /\ req'[q].account = req[q].account
  <2>1. q \in Request /\ req'[q].phase \in ChargingPhase
    BY <1>5, ByPhase
  <2>2. CASE req'[q] = req[q]
    BY <2>1, <2>2, ByPhase
  <2>3. CASE req'[q] # req[q]
    BY <2>1, <2>3, RestartMove, ByPhase DEF ChargingPhase, OnItsWayPhase
  <2> QED BY <2>2, <2>3
<1>6. ASSUME NEW q \in Jobs PROVE req'[q] = req[q] /\ q \in Request
  <2>1. q \in Request /\ req[q].phase = "submitted"
    BY DEF Jobs, Accounted, Linked
  <2> QED BY <2>1, RestartMove
<1>7. Linked'
  BY <1>1, <1>5, <1>6 DEF Accounted, Linked, Jobs
<1>8. /\ \A q \in Charging : q \in Request /\ req[q] # Unsent
      /\ \A q \in Jobs : q \in Request /\ req[q] # Unsent
  BY ByPhase DEF ChargingPhase, OnItsWayPhase, Accounted, Linked, Jobs, Unsent
<1>9. Charged'
  <2>1. \A q \in Request : req[q] # Unsent => Named(q)' = Named(q) /\ Default(q)' = Default(q)
    BY <1>3, PresentedSame
  <2> QED BY <1>1, <1>5, <1>8, <2>1 DEF Accounted, Charged
<1> QED BY <1>3, <1>4, <1>7, <1>9, InTurnSame DEF Accounted

LEMMA ChargesStep == IInv /\ [Next]_vars => Accounted'
<1> SUFFICES ASSUME IInv, [Next]_vars PROVE Accounted'
  OBVIOUS
<1>t. TypeOK /\ Accounted /\ Linked /\ RememberedLast /\ Charged
  BY DEF IInv, Accounted
<1>1. ASSUME NEW r \in Request, NEW c \in Credential, Authenticate(r, c) PROVE Accounted'
  BY <1>1, <1>t, AuthenticateStep
<1>2. ASSUME NEW r \in Request, NEW cluster \in Cluster, NEW requested \in Account \cup {None},
             Submit(r, cluster, requested)
      PROVE  Accounted'
  BY <1>2, <1>t, SubmitStep
<1>3. ASSUME NEW r \in Request, NEW j \in Request, PollUncharged(r, j) \/ PollSkipped(r, j)
      PROVE  Accounted'
  <2>1. PICK p \in {"answered", "skipped"} : Moves(r, p)
    BY <1>3, <1>t, PollMoves
  <2>2. req[r].phase # "submitted" /\ UNCHANGED <<job, remembered>>
    BY <1>3, <1>t, PollMoves
  <2>3. p \in Phase /\ p \notin ChargingPhase /\ p # "authenticated"
    BY DEF Phase, ChargingPhase, OnItsWayPhase
  <2> QED BY <1>t, <2>1, <2>2, <2>3, MoveKeepsCharges
<1>4. ASSUME NEW r \in Request, NEW j \in Request, PollCharge(r, j) PROVE Accounted'
  <2>1. Moves(r, "posting") /\ "posting" \in Phase
    BY <1>4, <1>t, PollMoves DEF Phase
  <2>2. req[r].phase = "authenticated" /\ UNCHANGED <<job, remembered>> /\ req'[r].polled \in Jobs
    BY <1>4, <1>t, PollMoves
  <2>3. req'[r].account \in Named(r)
    <3>1. req'[r].account = AccountFor(Caller(r)) /\ AccountFor(Caller(r)) # None
      BY <1>4, <1>t, PollMoves
    <3> QED BY <1>t, <2>2, <3>1, RememberedNamed
  <2> QED BY <1>t, <2>1, <2>2, <2>3, MoveKeepsCharges
<1>5. ASSUME NEW r \in Request, Confirmed(r) \/ Raised(r) \/ Record(r) PROVE Accounted'
  <2>1. PICK p \in Phase : Moves(r, p) /\ p # "authenticated"
    BY <1>5, <1>t, PostMoves DEF Phase
  <2>2. req[r].phase # "submitted" /\ UNCHANGED <<job, remembered>> /\ r \in Charging
    BY <1>5, <1>t, PostMoves, ByPhase DEF ChargingPhase, OnItsWayPhase
  <2>3. req'[r].polled = req[r].polled /\ req'[r].account = req[r].account
    BY <1>5, <1>t, PostMoves
  <2>4. req'[r].polled \in Jobs /\ req'[r].account \in Named(r)
    BY <1>t, <2>2, <2>3 DEF Linked, Charged
  <2> QED BY <1>t, <2>1, <2>2, <2>4, MoveKeepsCharges
<1>6. ASSUME NEW j \in Request, NEW state \in {"running", "unlisted", "done"}, JobGoes(j, state) PROVE Accounted'
  <2>1. Jobs' = Jobs /\ UNCHANGED <<req, remembered>>
    BY <1>6, <1>t, JobGoesMove DEF Jobs
  <2>2. Charging' = Charging
    BY <2>1, ByPhase
  <2>3. \A q \in Request : /\ job'[q].account = job[q].account
                           /\ job'[q].requested = job[q].requested
                           /\ job'[q].state = "none" <=> job[q].state = "none"
    BY <1>6, <1>t, JobGoesMove
  <2>4. Linked'
    BY <1>t, <2>1, <2>2, <2>3 DEF Linked
  <2>5. Charged'
    <3>1. \A q \in Jobs : q \in Request
      BY DEF Jobs
    <3>2. \A q : Named(q)' = Named(q) /\ Default(q)' = Default(q)
      BY <2>1 DEF Named, Default, Presented, Caller
    <3> QED BY <1>t, <2>1, <2>2, <2>3, <3>1, <3>2 DEF Charged
  <2>6. SentSame /\ RememberedLast' /\ InTurn'
    BY <1>t, <2>1 DEF SentSame, RememberedLast, Last, Presented, InTurn, Accounted
  <2> QED BY <2>4, <2>5, <2>6 DEF Accounted
<1>7. CASE Restart
  BY <1>7, <1>t, RestartStep
<1>8. CASE UNCHANGED vars
  <2>1. UNCHANGED <<req, job, remembered>>
    BY <1>8 DEF vars
  <2>2. Linked' /\ InTurn' /\ RememberedLast'
    BY <2>1, <1>t DEF Linked, InTurn, RememberedLast, Last, Presented, Accounted, Charging, OnItsWay, Posted, Jobs
  <2>3. /\ Jobs' = Jobs /\ Charging' = Charging
        /\ \A q : Named(q)' = Named(q) /\ Default(q)' = Default(q)
    BY <2>1 DEF Named, Default, Presented, Caller, Jobs, Charging, OnItsWay, Posted
  <2>4. Charged'
    BY <2>1, <2>3, <1>t DEF Charged
  <2> QED BY <2>2, <2>4 DEF Accounted
<1> QED BY <1>1, <1>2, <1>3, <1>4, <1>5, <1>6, <1>7, <1>8 DEF Next
-----------------------------------------------------------------------------
(* How often usage is posted.                                              *)

Number(r) == job[req[r].polled].number

\* A step after which the same requests are on their way for the same numbers.
LEMMA SamePosters ==
    ASSUME SeenHasPoster, OnePoster, OnItsWay' = OnItsWay, UNCHANGED <<seen, restarts>>,
           \A r \in OnItsWay : job'[req'[r].polled].number = job[req[r].polled].number
    PROVE  (SeenHasPoster /\ OnePoster)'
BY DEF SeenHasPoster, OnePoster

LEMMA PostersStep == IInv /\ [Next]_vars => (SeenHasPoster /\ OnePoster)'
<1> SUFFICES ASSUME IInv, [Next]_vars PROVE (SeenHasPoster /\ OnePoster)'
  OBVIOUS
<1>t. TypeOK /\ Linked /\ SeenHasPoster /\ OnePoster
  BY DEF IInv, Accounted
<1>p. \A r \in OnItsWay : r \in Request /\ req[r].polled \in Jobs /\ req[r].polled \in Request
  BY <1>t DEF Linked, Charging, OnItsWay, Jobs
\* Requests that were not on their way and are not now.
<1>q. ASSUME NEW r \in Request, r \notin OnItsWay, r \notin OnItsWay',
             \A q \in Request \ {r} : req'[q] = req[q],
             UNCHANGED <<seen, restarts>>,
             \A q \in Jobs : job'[q] = job[q]
      PROVE  (SeenHasPoster /\ OnePoster)'
  <2>1. OnItsWay' = OnItsWay
    BY <1>q, ByPhase
  <2>2. \A q \in OnItsWay : job'[req'[q].polled].number = job[req[q].polled].number
    BY <1>q, <1>p
  <2> QED BY <1>q, <1>t, <2>1, <2>2, SamePosters
<1>1. ASSUME NEW r \in Request, NEW c \in Credential, Authenticate(r, c)
      PROVE  (SeenHasPoster /\ OnePoster)'
  <2>1. r \notin OnItsWay /\ r \notin OnItsWay'
    BY <1>1, <1>t, AuthenticateMove, ByPhase DEF Unsent, OnItsWayPhase
  <2> QED BY <1>1, <1>t, <1>q, <2>1, AuthenticateMove
<1>2. ASSUME NEW r \in Request, NEW cluster \in Cluster, NEW requested \in Account \cup {None},
             Submit(r, cluster, requested)
      PROVE  (SeenHasPoster /\ OnePoster)'
  <2>1. r \notin OnItsWay /\ r \notin OnItsWay' /\ r \notin Jobs
    BY <1>2, <1>t, SubmitMove, ByPhase DEF OnItsWayPhase, Moves, Linked, Jobs
  <2>2. /\ \A q \in Request \ {r} : req'[q] = req[q] /\ job'[q] = job[q]
        /\ UNCHANGED <<seen, restarts>>
    BY <1>2, <1>t, SubmitMove DEF Moves
  <2>3. \A q \in Jobs : job'[q] = job[q]
    BY <2>1, <2>2 DEF Jobs
  <2> QED BY <1>q, <2>1, <2>2, <2>3
<1>3. ASSUME NEW r \in Request, NEW j \in Request, PollUncharged(r, j) \/ PollSkipped(r, j)
      PROVE  (SeenHasPoster /\ OnePoster)'
  <2>1. /\ \A q \in Request \ {r} : req'[q] = req[q]
        /\ req[r].phase = "authenticated" /\ req'[r].phase \in {"answered", "skipped"}
        /\ UNCHANGED <<job, seen, restarts>>
    BY <1>3, <1>t, PollMoves DEF Moves
  <2>2. r \notin OnItsWay /\ r \notin OnItsWay'
    BY <2>1, ByPhase DEF OnItsWayPhase
  <2> QED BY <1>q, <2>1, <2>2
<1>4. ASSUME NEW r \in Request, NEW j \in Request, PollCharge(r, j)
      PROVE  (SeenHasPoster /\ OnePoster)'
  <2>1. /\ \A q \in Request \ {r} : req'[q] = req[q]
        /\ req[r].phase = "authenticated" /\ req'[r].phase = "posting"
        /\ req'[r].polled = j
        /\ job[j].number \notin seen
        /\ seen' = seen \cup {job[j].number}
        /\ UNCHANGED <<job, restarts>>
    BY <1>4, <1>t, PollMoves DEF Moves
  <2>2. OnItsWay' = OnItsWay \cup {r} /\ r \notin OnItsWay
    BY <2>1, ByPhase DEF OnItsWayPhase
  <2>3. /\ Number(r)' = job[j].number
        /\ \A q \in OnItsWay : Number(q)' = Number(q)
    BY <1>p, <2>1, <2>2 DEF Number
  <2>4. SeenHasPoster'
    <3>1. ASSUME NEW n \in seen' PROVE \E q \in OnItsWay' : Number(q)' = n
      <4>1. CASE n = job[j].number
        BY <2>2, <2>3, <4>1
      <4>2. CASE n # job[j].number
        <5>1. PICK q \in OnItsWay : Number(q) = n
          BY <1>t, <2>1, <4>2 DEF SeenHasPoster, Number
        <5> QED BY <2>2, <2>3, <5>1
      <4> QED BY <4>1, <4>2
    <3>2. ASSUME restarts' = 0, NEW q \in OnItsWay' PROVE Number(q)' \in seen'
      <4>1. CASE q = r
        BY <2>1, <2>3, <4>1
      <4>2. CASE q # r
        <5>1. q \in OnItsWay /\ Number(q) \in seen
          BY <1>t, <2>1, <2>2, <3>2, <4>2 DEF SeenHasPoster, Number
        <5> QED BY <2>1, <2>3, <5>1
      <4> QED BY <4>1, <4>2
    <3> QED BY <3>1, <3>2 DEF SeenHasPoster, Number
  <2>5. OnePoster'
    <3> SUFFICES ASSUME restarts' = 0, NEW q \in OnItsWay', NEW s \in OnItsWay', Number(q)' = Number(s)'
                 PROVE  q = s
      BY DEF OnePoster, Number
    <3>1. \A x \in OnItsWay : Number(x) \in seen
      BY <1>t, <2>1 DEF SeenHasPoster, Number
    <3>2. CASE q \in OnItsWay /\ s \in OnItsWay
      BY <1>t, <2>1, <2>3, <3>2 DEF OnePoster, Number
    <3>3. CASE q = r /\ s = r
      BY <3>3
    <3>4. CASE q = r /\ s \in OnItsWay
      BY <2>1, <2>3, <3>1, <3>4
    <3>5. CASE q \in OnItsWay /\ s = r
      BY <2>1, <2>3, <3>1, <3>5
    <3> QED BY <2>2, <3>2, <3>3, <3>4, <3>5
  <2> QED BY <2>4, <2>5
<1>5. ASSUME NEW r \in Request, Confirmed(r) \/ (Record(r) /\ req[r].phase = "posting")
      PROVE  (SeenHasPoster /\ OnePoster)'
  <2>1. /\ \A q \in Request \ {r} : req'[q] = req[q]
        /\ req[r].phase \in OnItsWayPhase /\ req'[r].phase \in OnItsWayPhase
        /\ req'[r].polled = req[r].polled
        /\ UNCHANGED <<job, seen, restarts>>
    BY <1>5, <1>t, PostMoves DEF Moves, OnItsWayPhase
  <2>2. OnItsWay' = OnItsWay
    BY <2>1, ByPhase
  <2>3. \A q \in OnItsWay : job'[req'[q].polled].number = job[req[q].polled].number
    BY <1>p, <2>1
  <2> QED BY <1>t, <2>1, <2>2, <2>3, SamePosters
<1>6. ASSUME NEW r \in Request, Record(r), req[r].phase # "posting"
      PROVE  (SeenHasPoster /\ OnePoster)'
  <2>1. /\ \A q \in Request \ {r} : req'[q] = req[q]
        /\ req[r].phase = "abandoned" /\ req'[r].phase = "unconfirmed"
        /\ UNCHANGED <<job, seen, restarts>>
    BY <1>6, <1>t, PostMoves DEF Moves
  <2>2. r \notin OnItsWay /\ r \notin OnItsWay'
    BY <2>1, ByPhase DEF OnItsWayPhase
  <2> QED BY <1>q, <2>1, <2>2
<1>7. ASSUME NEW r \in Request, Raised(r) PROVE (SeenHasPoster /\ OnePoster)'
  <2>1. /\ \A q \in Request \ {r} : req'[q] = req[q]
        /\ req[r].phase \in OnItsWayPhase /\ req'[r].phase \in {"abandoned", "unconfirmed"}
        /\ seen' = seen \ {Number(r)}
        /\ UNCHANGED <<job, restarts>>
    BY <1>7, <1>t, PostMoves DEF Moves, OnItsWayPhase, Number
  <2>2. OnItsWay' = OnItsWay \ {r} /\ r \in OnItsWay
    BY <2>1, ByPhase DEF OnItsWayPhase
  <2>3. \A q \in OnItsWay' : Number(q)' = Number(q)
    BY <1>p, <2>1, <2>2 DEF Number
  <2>4. SeenHasPoster'
    <3>1. ASSUME NEW n \in seen' PROVE \E q \in OnItsWay' : Number(q)' = n
      <4>1. PICK q \in OnItsWay : Number(q) = n
        BY <1>t, <2>1 DEF SeenHasPoster, Number
      <4>2. q # r
        BY <2>1, <4>1
      <4> QED BY <2>2, <2>3, <4>1, <4>2
    <3>2. ASSUME restarts' = 0, NEW q \in OnItsWay' PROVE Number(q)' \in seen'
      <4>1. q \in OnItsWay /\ Number(q) \in seen
        BY <1>t, <2>1, <2>2, <3>2 DEF SeenHasPoster, Number
      <4>2. Number(q) # Number(r)
        BY <1>t, <2>1, <2>2, <3>2 DEF OnePoster, Number
      <4> QED BY <2>1, <2>3, <4>1, <4>2
    <3> QED BY <3>1, <3>2 DEF SeenHasPoster, Number
  <2>5. OnePoster'
    BY <1>t, <2>1, <2>2, <2>3 DEF OnePoster, Number
  <2> QED BY <2>4, <2>5
<1>8. ASSUME NEW j \in Request, NEW state \in {"running", "unlisted", "done"}, JobGoes(j, state)
      PROVE  (SeenHasPoster /\ OnePoster)'
  <2>1. OnItsWay' = OnItsWay /\ UNCHANGED <<seen, restarts>>
    BY <1>8, <1>t, JobGoesMove, ByPhase
  <2>2. \A q \in OnItsWay : job'[req'[q].polled].number = job[req[q].polled].number
    BY <1>8, <1>p, <1>t, JobGoesMove
  <2> QED BY <1>t, <2>1, <2>2, SamePosters
<1>9. CASE Restart
  <2>1. restarts' = restarts + 1 /\ seen' = {} /\ restarts \in Nat
    BY <1>9, <1>t, RestartMove DEF TypeOK
  <2>2. restarts' # 0
    BY <2>1
  <2> QED BY <2>1, <2>2 DEF SeenHasPoster, OnePoster
<1>10. CASE UNCHANGED vars
  BY <1>10, <1>t, SamePosters DEF vars, OnItsWay
<1> QED BY <1>1, <1>2, <1>3, <1>4, <1>5, <1>6, <1>7, <1>8, <1>9, <1>10 DEF Next

LEMMA Invariance == Spec => []IInv
<1>1. Init => IInv
  <2> SUFFICES ASSUME Init PROVE IInv
    OBVIOUS
  <2>1. TypeOK
    BY BoundAssumption DEF Init, TypeOK
  <2>2. \A r \in Request : req[r].phase = "unsent" /\ job[r].state = "none"
    BY DEF Init, Unsent, NoJob
  <2>3. Jobs = {} /\ Charging = {} /\ OnItsWay = {}
    BY <2>2, ByPhase DEF Jobs, ChargingPhase, OnItsWayPhase
  <2>4. seen = {} /\ \A u \in User : remembered[u] = None
    BY DEF Init
  <2>5. InTurn /\ RememberedLast
    BY <2>2, <2>4 DEF Init, InTurn, RememberedLast, Presented
  <2> QED BY <2>1, <2>2, <2>3, <2>4, <2>5 DEF IInv, Accounted, Linked, Charged, SeenHasPoster, OnePoster
<1>2. IInv /\ [Next]_vars => IInv'
  BY StepType, ChargesStep, PostersStep DEF IInv
<1> QED BY <1>1, <1>2, PTL DEF Spec

\* Default accounts and usage events follow the Keycards that callers present
\* (auth.py remember and account_for, compute.py submit_job and _record_usage).
THEOREM ChargedAsPresentedAlways == Spec => []ChargedAsPresented
<1>1. IInv => ChargedAsPresented
  BY DEF IInv, Accounted, Charged, ChargedAsPresented, Charging, Jobs
<1> QED BY <1>1, Invariance, PTL

\* Every number noted as seen has a request that posted it or is about to
\* (compute.py _record_usage).
THEOREM SeenHasPosterAlways == Spec => []SeenHasPoster
<1>1. IInv => SeenHasPoster
  BY DEF IInv
<1> QED BY <1>1, Invariance, PTL

\* Two usage events for one number need a restart or a lost answer (compute.py
\* _record_usage).
THEOREM PostedOnceAlways == Spec => []PostedOnce
<1>1. ASSUME IInv PROVE PostedOnce
  <2>1. restarts \in Nat /\ OnePoster
    BY <1>1 DEF IInv, TypeOK
  <2> SUFFICES ASSUME NEW r \in Posted, NEW s \in Posted, r # s,
                      job[req[r].polled].number = job[req[s].polled].number,
                      ~ (restarts > 0), "unconfirmed" \notin {req[r].phase, req[s].phase}
               PROVE  FALSE
    BY DEF PostedOnce
  <2>2. restarts = 0
    BY <2>1
  <2>3. r \in OnItsWay /\ s \in OnItsWay
    BY DEF Posted, OnItsWay
  <2> QED BY <2>1, <2>2, <2>3 DEF OnePoster
<1> QED BY <1>1, Invariance, PTL
=============================================================================
