--------------------------- MODULE UsageAccounting ---------------------------
(***************************************************************************)
(* Who is charged: from the Keycard of a request (activate_iri/auth.py) to *)
(* the account a job is submitted under and the usage event posted when a  *)
(* poll finds it finished (activate_iri/compute.py).                       *)
(*                                                                         *)
(* Requests are coroutines of one event loop: what a Keycard names is      *)
(* remembered when the request is authenticated and read after the         *)
(* handler's first await.  A job is named by the request that submitted    *)
(* it; its number is what Slurm calls it, and every cluster counts by      *)
(* itself.                                                                 *)
(***************************************************************************)
EXTENDS Naturals, FiniteSets

CONSTANTS
    User,           \* ACTIVATE users
    Account,        \* ACTIVATE allocations
    Credential,     \* what requests authenticate with
    Keycard,        \* those that are AmSC Keycards; the others are API keys
    UserOf,         \* the user a credential stands for (whoami, mapping file)
    AccountOf,      \* the account the mapping file names for a Keycard
    None,
    Cluster,        \* Slurm clusters
    MaxRequest,     \* bound on the requests, for model checking
    MaxRestarts     \* bound on the restarts of the endpoint, for model checking

Request == 1 .. MaxRequest

ASSUME CredentialAssumption ==
    /\ Keycard \subseteq Credential
    /\ UserOf \in [Credential -> User]
    /\ AccountOf \in [Keycard -> Account \cup {None}]
ASSUME NoneAssumption == None \notin Account
ASSUME BoundAssumption == MaxRequest \in Nat /\ MaxRestarts \in Nat

VARIABLES
    remembered, \* _amsc: the account of the Keycard last seen for a user
    req,        \* the requests
    job,        \* job[r]: the job that request r submitted
    seen,       \* _usage_seen: the job numbers with a usage event posted or on its way
    restarts    \* how often the endpoint restarted

vars == <<remembered, req, job, seen, restarts>>

Unsent == [phase |-> "unsent"]
Phase == {"authenticated", "answered", "submitted", "skipped", "lost",
          "posting", "recorded", "confirmed", "abandoned", "unconfirmed"}
Sent == [phase : Phase, credential : Credential, polled : Request \cup {None},
         account : Account \cup {None}]

NoJob == [state |-> "none"]
Job == [state : {"running", "unlisted", "done"}, cluster : Cluster, number : Nat,
        requested : Account \cup {None}, account : Account \cup {None}]

Init ==
    /\ remembered = [u \in User |-> None]
    /\ req = [r \in Request |-> Unsent]
    /\ job = [r \in Request |-> NoJob]
    /\ seen = {}
    /\ restarts = 0

Caller(r) == UserOf[req[r].credential]
Jobs == {r \in Request : job[r].state # "none"}
JobsOn(cluster) == {r \in Jobs : job[r].cluster = cluster}

-----------------------------------------------------------------------------
(* Requests.                                                               *)

\* Mutant: the first Keycard of a user is remembered for good.
RememberOnce(c) == [remembered EXCEPT ![UserOf[c]] = IF @ = None THEN AccountOf[c] ELSE @]

\* IdentityResolver.remember, for a Keycard; account_for reads it.
Remember(c) == [remembered EXCEPT ![UserOf[c]] = AccountOf[c]]

AccountFor(u) == remembered[u]

Authenticate(r, c) ==
    /\ req[r] = Unsent
    /\ \A q \in 1 .. (r - 1) : req[q] # Unsent
    /\ req' = [req EXCEPT ![r] =
          [phase |-> "authenticated", credential |-> c, polled |-> None, account |-> None]]
    /\ remembered' = IF c \in Keycard THEN Remember(c) ELSE remembered
    /\ UNCHANGED <<job, seen, restarts>>

\* submit_job, from the await of the inventory: the account is the one the
\* JobSpec asks for, or else the caller's.
Submit(r, cluster, requested) ==
    /\ req[r].phase = "authenticated"
    /\ req' = [req EXCEPT ![r].phase = "submitted"]
    /\ job' = [job EXCEPT ![r] =
          [state |-> "running", cluster |-> cluster,
           number |-> Cardinality(JobsOn(cluster)) + 1, requested |-> requested,
           account |-> IF requested # None THEN requested ELSE AccountFor(Caller(r))]]
    /\ UNCHANGED <<remembered, seen, restarts>>

\* get_job with nothing to post: the job still runs, the caller has no account,
\* or sacct does not have the elapsed time (yet).
PollUncharged(r, j) ==
    /\ req[r].phase = "authenticated"
    /\ j \in Jobs
    /\ req' = [req EXCEPT ![r].phase = "answered", ![r].polled = j]
    /\ UNCHANGED <<remembered, job, seen, restarts>>

\* get_job finds the job finished, or takes it to be: a queue that shows it in a
\* state that _state_map does not list reports it failed, and sacct has the time it
\* ran so far.  From the return of the status command to the await of post_usage
\* nothing else runs.
PollFinished(r, j) ==
    /\ req[r].phase = "authenticated"
    /\ job[j].state \in {"unlisted", "done"}
    /\ AccountFor(Caller(r)) # None

\* The job's number was posted before, or is being posted.
PollSkipped(r, j) ==
    /\ PollFinished(r, j)
    /\ job[j].number \in seen
    /\ req' = [req EXCEPT ![r].phase = "skipped", ![r].polled = j]
    /\ UNCHANGED <<remembered, job, seen, restarts>>

\* Mutant: the number is noted only when the platform has answered.
PollChargeUnmarked(r, j) ==
    /\ PollFinished(r, j)
    /\ job[j].number \notin seen
    /\ req' = [req EXCEPT ![r].phase = "posting", ![r].polled = j,
                          ![r].account = AccountFor(Caller(r))]
    /\ UNCHANGED <<remembered, job, seen, restarts>>

\* The number is noted before the post is awaited.
PollCharge(r, j) ==
    /\ PollFinished(r, j)
    /\ job[j].number \notin seen
    /\ seen' = seen \cup {job[j].number}
    /\ req' = [req EXCEPT ![r].phase = "posting", ![r].polled = j,
                          ![r].account = AccountFor(Caller(r))]
    /\ UNCHANGED <<remembered, job, restarts>>

Confirmed(r) ==
    /\ req[r].phase = "recorded"
    /\ req' = [req EXCEPT ![r].phase = "confirmed"]
    /\ UNCHANGED <<remembered, job, seen, restarts>>

\* post_usage raises: refused, timed out, or the answer was lost.  Where the
\* platform had the event already, it keeps it.
AfterRaise(phase) == IF phase = "posting" THEN "abandoned" ELSE "unconfirmed"

Raised(r) ==
    /\ req[r].phase \in {"posting", "recorded"}
    /\ req' = [req EXCEPT ![r].phase = AfterRaise(@)]
    /\ seen' = seen \ {job[req[r].polled].number}
    /\ UNCHANGED <<remembered, job, restarts>>

\* The endpoint restarts and forgets whom and what it has seen.
Restart ==
    /\ restarts < MaxRestarts
    /\ restarts' = restarts + 1
    /\ remembered' = [u \in User |-> None]
    /\ seen' = {}
    /\ req' = [r \in Request |->
          CASE req[r].phase = "authenticated" -> [req[r] EXCEPT !.phase = "lost"]
            [] req[r].phase \in {"posting", "recorded"} ->
                  [req[r] EXCEPT !.phase = AfterRaise(@)]
            [] OTHER -> req[r]]
    /\ UNCHANGED job

-----------------------------------------------------------------------------
(* The platform and the clusters.                                          *)

\* The platform stores the event, perhaps after the endpoint has given up.
Record(r) ==
    /\ req[r].phase \in {"posting", "abandoned"}
    /\ req' = [req EXCEPT ![r].phase = IF @ = "posting" THEN "recorded" ELSE "unconfirmed"]
    /\ UNCHANGED <<remembered, job, seen, restarts>>

\* A job is stopped, put on or ends.
JobGoes(j, state) ==
    /\ job[j].state \in {"running", "unlisted"} \ {state}
    /\ job' = [job EXCEPT ![j].state = state]
    /\ UNCHANGED <<remembered, req, seen, restarts>>

-----------------------------------------------------------------------------
Next ==
    \/ \E r \in Request, c \in Credential : Authenticate(r, c)
    \/ \E r \in Request, cluster \in Cluster, requested \in Account \cup {None} :
          Submit(r, cluster, requested)
    \/ \E r, j \in Request : PollUncharged(r, j) \/ PollSkipped(r, j) \/ PollCharge(r, j)
    \/ \E r \in Request : Confirmed(r) \/ Raised(r) \/ Record(r)
    \/ \E j \in Request, state \in {"running", "unlisted", "done"} : JobGoes(j, state)
    \/ Restart

Spec == Init /\ [][Next]_vars

-----------------------------------------------------------------------------
(* Properties.                                                             *)

TypeOK ==
    /\ remembered \in [User -> Account \cup {None}]
    /\ req \in [Request -> Sent \cup {Unsent}]
    /\ job \in [Request -> Job \cup {NoJob}]
    /\ seen \subseteq Nat
    /\ restarts \in Nat

\* The requests whose usage event the platform has, and those that may yet
\* bring it there.
Posted == {r \in Request : req[r].phase \in {"recorded", "confirmed", "unconfirmed"}}
OnItsWay == {r \in Request : req[r].phase \in {"posting", "recorded", "confirmed"}}

\* "Idempotent per job id within the process lifetime": two events for one job
\* number need a post whose outcome the endpoint was not told, or a restart;
\* polls that run concurrently never post twice.
PostedOnce ==
    \A r, s \in Posted :
        /\ r # s
        /\ job[req[r].polled].number = job[req[s].polled].number
        => restarts > 0 \/ "unconfirmed" \in {req[r].phase, req[s].phase}

\* A number is noted as seen exactly while one request has posted its event or
\* is about to: none is stuck without an event, none is dropped by the failure
\* of another request's post.
SeenHasPoster ==
    /\ \A n \in seen : \E r \in OnItsWay : job[req[r].polled].number = n
    /\ restarts = 0 => \A r \in OnItsWay : job[req[r].polled].number \in seen

\* The requests that presented a Keycard of a user.
Presented(u) == {q \in Request : req[q] # Unsent /\ req[q].credential \in Keycard /\ UserOf[req[q].credential] = u}

\* What Keycards of its caller name, that request r knows of: the last one
\* presented up to r, or one that was presented while r was on its way.
Named(r) ==
    {AccountOf[req[q].credential] :
        q \in {k \in Presented(Caller(r)) : \A p \in Presented(Caller(r)) : p <= k \/ p > r}}

\* An API key names no account.
Default(r) == Named(r) \cup (IF req[r].credential \in Keycard THEN {} ELSE {None})

\* A job that asks for no account runs under the one of the Keycard it was
\* submitted with, and a usage event goes to the one of the Keycard that polled,
\* whoever submitted the job: not to one of another user nor to that of an older Keycard
\* of the same user, but perhaps to that of a Keycard of the same user that
\* overtook the request.  With an API key it is the last Keycard's of the user.
ChargedAsPresented ==
    \A r \in Request :
        /\ job[r].state # "none" => IF job[r].requested = None THEN job[r].account \in Default(r)
                                    ELSE job[r].account = job[r].requested
        /\ r \in OnItsWay \cup Posted => req[r].account \in Named(r)

\* A poll that finds a job finished, with its elapsed time and an account to
\* charge, leaves it with a usage event, posted or on its way.
FinishedJobsArePosted ==
    [][\A r \in Request : req'[r].phase = "skipped" /\ req[r].phase # "skipped" =>
          \E s \in Posted \cup OnItsWay : req[s].polled = req'[r].polled]_vars
=============================================================================
