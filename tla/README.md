# activate-iri in TLA+

This directory models the endpoint that publishes ACTIVATE resources under the
DOE IRI API (`activate-iri/`). The models are translated from the Python
source; `PROJECT.json` maps each definition to the lines it stands for, lists
the runs, the mutants that show each property can fail, the hazards and the
theorems.

    tlc -workers 2 -config MCTaskQueue.cfg MCTaskQueue      # model-check a run
    tlapm TaskQueueProofs.tla                               # check proofs

## The system

One endpoint is one Python process with one asyncio event loop. The DOE IRI
framework (`app.*`, not in the repository) routes requests to the adapters in
`activate-iri/activate_iri/`. All state is in the memory of the process, so a
restart loses it. Between two awaits a coroutine runs alone; hence **an action
is the code from one await to the next**.

| Component | State it keeps | Operations | What is hard | What makes it correct |
|---|---|---|---|---|
| Status ledger, `inventory.py:105-158` | last status per resource, events, incidents | `observe`, `planned_from_alerts` | long sequences of statuses; a search among planned and unplanned incidents | one incident per outage, history and links consistent, nothing published is rewritten |
| Task queue, `tasks.py`, `task.py` | task dictionary, id queue, workers | submit, list, get, cancel, worker | cancel and expiry while an id waits or a worker runs | nothing lost or run twice, order, canceled before start never runs, everything settles |
| Idempotency store, `idempotency.py` | locks and answers by key | check_and_lock, store_result, delete_lock, close | locks are dropped by age alone; late requests meet locks of others | answers are real and final, no lock outlives its request |
| Job submission and accounting, `compute.py` | numbers whose usage was posted | submit, get, list, cancel a job | commands that outlive their time limit; errors after acceptance; concurrent polls | one job per key, one usage event per job, charged to the account of the one who asked |
| Identities, `auth.py` | what the last Keycard of a user named, whoami cache | authenticate, remember, account_for, resolve | written at authentication, read after an await | a request acts for the Keycard it came with |
| Executors, `executor.py` | a subprocess per command | run: local, ssh, workflow run, routing | deadlines, logs that lag the status | a failure is never reported as a success |
| Scheduler drivers, `schedulers.py`, `compute.py:31-78` | none (files on the cluster) | script, submit, status, list, cancel | four status sources, each with its own delay | a terminal state is true and stays |
| Inventory builder, `inventory.py:161-488` | the inventory being built | build | reads that fail or disagree with each other | references resolve, failures are not outages |
| Runtime, `runtime.py` | cached inventory | inventory | check, lock, check again; fallback to the old inventory | no double build, bounded age |
| Gateway, `gateway.py` | per upstream: facility, sites, resources, incidents, age | refresh, merge, forward, filesystem | one of four reads fails; forwarded task outlives its deadline; gateways of gateways | a request reaches the owner of a name, an upstream's data belong together |
| Filesystem, `filesystem.py`, `posix.py` | none | one shell script per operation, or one task of another facility | the resource is looked up when the task runs; answers get lost | done once at most, completed only when done, nothing refused is done |
| Topology, `iri-topology/aggregate.py` | the graph being built, the last 288 sweeps | sweep all facilities, write the graph | facilities publish each other and are read one after the other | every system once, a site's status follows from its systems |
| AmSC resource adapter, `amscrot-activate/` | plan and run of a job by name | discover, plan, create, status, destroy | create twice, destroy before create | one run per job |
| Clients: connector tools, workflow, console | none that matters to the API | poll and display | they rely on final states and on idempotency | – |

Components call each other directly. The points where they meet in time are:
an adapter awaits the inventory, then the executor; the framework calls the
idempotency store before and after the adapter; a build feeds the ledger; a
worker of the task queue awaits a filesystem adapter, which awaits the
inventory and the executor, or the gateway; a gateway reads other endpoints,
which may be gateways.

## The modules

### `StatusLedger` and `IncidentLifecycle`

`StatusLedger` has the three variables of the class: `last`, `events`,
`incidents`. `Observe(r, cur)` is `observe` for a resource with that status,
split by the branches of the code: `ObserveOutage` (a new incident),
`ObserveRecovery` (completes the one that is open), `ObserveOther` (an event
only), `ObserveSame` (the early return). `PlannedFromAlerts` takes what the
platform reports and which resources the build published. Neither method
awaits, so each is one action, and any order of calls is possible. An event's
time stamp is its position in the history; ids, which the code hashes from
resource and stamp, are therefore the stamp. The distinctness of stamps is
that of `now()` at microsecond resolution for a single resource.

`IncidentLifecycle` is the promise to a reader of the status domain in one bit
for each resource. `StatusLedger!LifecycleSpec` states the refinement: the bit
is "some incident on the resource is unresolved".

### `TaskQueue`

`tasks`, `queue` and `running` are the dictionary, the asyncio queue and the
awaits of the workers; `started` is a history variable. A worker's step ends at
its await: `Skip` and `Start` are the head of its loop, `Finish` what follows
`on_task`, which returns or raises (`completed` or `failed`). `Submit` and
`List` first drop what has expired, `Cancel` does not. The clock is a
variable; `Tick` may come at any point.

### `IdempotencyStore` and `JobSubmission`

`IdempotencyStore` gives the four operations of the store as operators on
`items`; each runs under one lock and contains no await. `JobSubmission`
composes them with the life of a request: `Arrive` (key checked; the handler
runs up to the executor), `SubmittedShell`, `SubmittedBatch`, `Failed`,
`Recorded`, `RecordRaised` (what the handler does when a command returns) and
the framework's answer, `ReplyOk` or `ReplyError`. The script on the cluster is
a separate actor: `Accept` may happen before, after or without the answer of
the executor, because `_spawn` kills the local end only. `Due` keeps the clock
from passing a time limit that has not fired: `asyncio.wait_for` always fires.

The framework's code is outside the repository; `PhaseOf`, `ReplyOk` and
`ReplyError` are modelled from the store's interface and marked external.

### `UsageAccounting`

`remembered` is `IdentityResolver._amsc`, `seen` the set `_usage_seen`.
`Authenticate` writes the account of a Keycard, `Submit` and the `Poll...`
actions read it after the handler's first await. `JobGoes` is what a scheduler
does with a job: it runs, is shown in a state that `_state_map` does not list
(`unlisted`), or is done; the last two are reported over, so `PollFinished` posts
in either. `PollCharge` is
`_record_usage` up to the await of `post_usage`, `Confirmed` and `Raised` what
follows. The platform stores the event in `Record`, possibly after the
endpoint has given up waiting. Jobs carry the number that Slurm gives them,
counted by each cluster on its own. `PollUncharged` stands for every early
return that posts nothing: a job that runs, no account, sku or organization,
no elapsed time. Any user may poll any job: the code does not ask who
submitted it, and charges who polls. `ChargedAsPresented` therefore says nothing
about whose job it is: it says which Keycard's account a job or an event gets,
although the account is remembered per user and read after an await, the last
one of that user up to the request, or one that came while it was on its way.

### `JobStatus`

One job and what `get_job` says of it. The environment is the job itself
(`command`, `code`, and `sched`, the word its scheduler has for it), the exit
code file `rc`, the accounting data base `acct`, which lags, and the
scheduler's `memory`, which ends. A batch job is not requeued. The status
command asks its sources in the order of the script that `status_command`
writes, and the job goes on between two of them; so there is one action for
each source: `AskSqueue`, `AskSqueueOnly`, `AskSacct`, `AskScontrol`,
`AskQstat`, `ReadRc`, `TestRc`, `TestPid`. Each may fail to answer. The
outputs are concatenated and the first record wins (`Found`).

A word is what a scheduler prints, a state what `StateOf` makes of it. Slurm has
words that `_state_map` does not list, and `_parse` and `_parse_scontrol` make
FAILED of them: `special` stands for those of a job that waits (SPECIAL_EXIT,
RESV_DEL_HOLD), `stopped` for STOPPED, and `EnterUnlisted` and `LeaveUnlisted` take
a job in and out, as often as the scheduler likes. PBS reports a job that was
deleted or killed before it ran without an exit status, which the code maps to
completed (`PBSWords`). The shell creates the exit code file before it writes to
it (`CreateRc`, `WriteRc`): in between Slurm's driver reads 1, those of PBS and the
shell raise and the request fails (`ReadRcRaises`, `TestRc`). `cancel_job` is one
step for Slurm and PBS and three for a shell job (kill, empty the file, write 143),
between which the job and the polls go on.
`settled` is history: whether the job was over and its code on file when the
poll began.

### `Execution` and `RemoteCommand`

One `Executor.run` with its caller, the cluster and the platform. The direct
executors are `Spawn` and then `ReturnCode`, `ReturnBroken` or `TimeOut`;
`WorkflowExecutor` is `StartRun`, `Started`, `View` until a final status or
`GiveUpPolling`, then `ReadLog` at most `LogTries` times. A log is told by its last line
that matters: nothing, the BEGIN marker, the END marker, the return code. What
is `printed` is shown in the `log` later. The script goes on whatever its
caller does.

`RemoteCommand` is what the handlers rely on: one answer, and a success only
after the script has ended. `Execution!CommandSpec` states the refinement: a
call that raised or returned another code than 0 is a failure. `SuccessIsTrue`
is stronger and has an exception that the code makes: when the log stops
between the END marker and the return code, a completed run counts as 0.

### `FilesystemTask`

One operation end to end. It EXTENDS `Execution`, whose call becomes one of the
two places where the operation is done; the other is a task of another
facility. `StartLocal` is the head of every handler of `filesystem.py`: does it
forward, does the guard let the path through. `Resolve` is the lookup of the
cluster, after an await, for a resource that may have gone since the task was
submitted. `BadInput` is a path that the guard refuses or, for `chmod`, which has
no guard, a mode that is not octal. `RunExecutor` is any step of the call, `FinishLocal` what is made of
its result (return code, and for most operations a line that must parse). A
forwarded operation is `StartRemote` (is there a token), the request, which is
refused, answered or whose answer is lost (`PostRefused`, `PostAnswered`,
`PostLost`: also an error that a proxy answers while the facility goes on, which
the handler takes for a refusal), and the polling of the task, which ends by `PollOver` or `GiveUp`.
`client` is `wait_task` of the connector tool: it is told a final status or
leaves after its own 180 seconds.

The other facility (`UpAccepts`, `UpScriptSteps`, `UpSettles`) is assumed to do
what `RemoteCommand` says, may accept a request after its sender gave up, and
goes on when nobody polls. `OperationSpec` states that the task as a whole keeps
the contract of `RemoteCommand` again. A task that waits in the queue or is
canceled there is in `TaskQueue`.

`upload` never asks the gateway (`Forwarded`): for a resource of another
facility it looks for a cluster of this one and fails, although the head of
`gateway.py` and the integration plan say that filesystem calls are forwarded.
`RefusedHasNoEffect` shows that it fails before anything is sent. `refused` is
history and set by the refusals of this endpoint only, before it has sent anything.

### `InventoryCache`

`Runtime.inventory` with its lock. Builds are numbered, and data are told by
the number of the build that fetched them, so "these belong together" is
equality of numbers. `ReadCached`, `TakeLock` and `AwaitLock` are the three
ways into the method; `Wake` is the next in line, first in first out as
`asyncio.Lock` has it, which checks again. The holder then goes from await to
await: `Observe` (own resources, and the ledger), one `Refresh...` for each
upstream in any order (taken over, skipped, failed, torn: resources of this build
with the incidents of an older one), and `Publish`. `Assemble`, `KeepPrevious`, `StartEmpty` and `MergeFails`
are the error paths. `failedAt`, `behind` and the field `made` are history: when
a build failed, whether a merge has failed since the inventory was published, and
when the published inventory was really built.

### `InventoryBuild`

What a build publishes. `at` is the read the build waits for: the clusters, the
details (one for each managed cluster, which may fail), the shared storage, the
buckets, the services, the alerts. Lustre and NFS are told apart by nothing but
attributes and are one list. Each list is any of the answers that the platform
may give at that moment, so a cluster can be gone from one read to the next, be
attached to a filesystem without being selected, or lose its detail between two
builds. `Merged` is what the detail fills in where the list leaves something out:
the status or the note of a failed update. An attachment is told by the cluster:
the code matches its name or its id, and the platform is taken to give each
cluster and each attachment both. (Without ids `None == None` would match the first
cluster that has none.) `Fail` is a read that raises through the build. `ClusterStatus`,
`Matches` and `SiteFor`, `Capabilities`, `NodeFilesystems`, `Attached` and
`SharedMounts` are the methods and functions of these names. Ids are tuples:
`stable_id` hashes them and is taken to be injective. The assumptions say what
the code relies on: a bucket is no provider and a node's mount point no shared
filesystem, statuses are those of the API, and the default site is a site (for
another, `site_for` raises and nothing is ever built).

The ledger is there by its promise: `Observe` is `IncidentLifecycle!Report` for
every published resource in one step, since nothing is awaited between the
last list and the last `observe`. That `StatusLedger` implements
`IncidentLifecycle` is proved.

### `Federation`

Facilities that are gateways to each other and the sweep of the topology page. A name is the sequence of its prefixes and the local id, so `Ns`
and `Split` are what `ns` and `split_id` do to the text: local ids are UUIDs
without the separator, and no upstream is named `urn...`, which `split_id` takes for
a local id. Each gateway has for
each upstream what it last read (`Refresh`: either list may be missing, or the
whole upstream may not answer); what it publishes is computed from that by
`merge_into` (`Published`). Its own inventory is taken to be current, and the two
lists of one refresh to be of one instant: ages and torn reads are in
`InventoryCache`. A request is asked of a gateway for a copy it publishes (`Ask`),
is looked up and passed to the upstream that the first prefix names (`Forward`),
at each gateway anew, and ends with an answer or an error anywhere (`Answer`);
lists and resources change between two gateways. One request at a time is enough,
as requests do not meet, and none while a sweep is under way (`Sweeping`, a
bound), as both only read the lists. The sweep is `Fetch` or `FetchFails` for one
facility after the other, and `Write`; `ShownOf` is what it keeps of a list: no
copies of others, and what the configuration of the facility does not leave out by
name or type (`Shows`).

Two gateways that list each other publish copies of copies without end, one
more prefix at each refresh. The code has no guard against it. The instance
excludes it, to be finite; the theorems do not.

### Which module composes which

`JobSubmission` EXTENDS `IdempotencyStore` and `FilesystemTask` EXTENDS
`Execution`; `StatusLedger` and `InventoryBuild` INSTANCE `IncidentLifecycle`,
`Execution` and `FilesystemTask` INSTANCE `RemoteCommand`; each `MC...` module EXTENDS the module it checks; each
`...Proofs` module EXTENDS the module it proves about, `GatewayProofs` both
`Federation` and `InventoryCache`.

## The runs

| Run | Shows | Bounds |
|---|---|---|
| `status_ledger` | consistency of history, incidents and links; refinement of `IncidentLifecycle` | two resources, one alert, five changes: first sight, outage, recovery and a second outage and recovery, or two resources interleaved |
| `task_queue` | no loss, order, cancellation, expiry, settling | three tasks for two workers, so that one waits while two run; TTL 1 and four instants, so that a task can finish, expire and still be run |
| `job_submission` | locks, answers, duplicates, settling under time limits, errors, a restart | three requests: one that outlives its lock, one that takes the key, one retry; one key (keys do not interact), two bodies |
| `usage_accounting` | whose account is charged, how often | two clusters, three Keycards and an API key of two users, three requests, one restart |
| `job_status` | what is reported of a job by lagging, forgetful and silent sources and in words the driver does not list | one job, three drivers, with and without accounting and a recorded id; no bound, the state space is finite |
| `filesystem_task` | what a return code and a final status say, that an operation is done once at most and in one place, refinement of `RemoteCommand` by call and task, answers | one operation of each kind on each kind of resource, three executors, three reads of the log, so that it can catch up before, between and after them |
| `inventory_cache` | what readers see belongs together; age; nobody rebuilds twice or waits for ever | three requests (one rebuilds, two wait, or each finds what the other left), one upstream, six instants; the three limits differ (2, 1, 3) |
| `inventory_build` | references, observed statuses, which incidents builds start and end | three clusters (managed with a node filesystem and GPUs, cloud, one that the filters leave out), one shared filesystem attached to any, one bucket, one service; no bound on builds |
| `federation` | where requests arrive, sites of copies, systems shown once, status of sites | a facility, a gateway to it, a gateway to both (names with one and two prefixes, two ways to one resource), all four statuses, one system left out of the page; one request or sweep at a time; no bound on reads and sweeps |
| `one_job_per_key` | finding: two jobs for one key | two requests, answers that do not expire |
| `finished_jobs_posted` | finding: a job number of another cluster suppresses a usage event | two submissions, two polls |
| `filesystems_resolve` | finding: a published filesystem endpoint without a cluster | that of `inventory_build` |

Bounds are CONSTANTS: `MaxEvents`, `MaxTask`, `MaxTime`, `MaxRequest` and
`MaxRestarts` cap counters that are unbounded in the code. Times are scaled and
keep the order of the defaults where it matters: `LockTTL` (60 s) is shorter than
`CommandTimeout` (300 s). `ResultTTL` (a day) is shrunk in `job_submission`, so
that answers expire within the run; this only adds behaviours. `LogTries` is 3
where the code has 20: the model tells only the first, a later and the last
read apart. The requests of
`inventory_cache` are a set of model values without symmetry, as the run checks
liveness; one upstream is enough, because upstreams share nothing but the lock
and the failure of the merge. The theorems below hold for every value of these
constants, any number of upstreams included.

Deadlock is checked in `status_ledger`, `task_queue`, `job_status`,
`federation` and the runs of `InventoryBuild`, where observing, listing, polling
and building are always possible. The other runs stop when every request is
answered and the clock has reached its bound.

The instance of `inventory_build` has one of everything that is told apart and
two clusters that are published, since references can cross only between two; sites have one rule
each, on names or types. In `federation`, two prefixes are needed for a name to
be split twice, and a longer chain repeats what each gateway does.

Each property has a mutant: the definition of a plausible bug, in the module,
directly before the definition it replaces. With the mutant in place the
property fails in its run.

### Fairness

`TasksSettle` assumes, for each worker, that the event loop resumes it when the
queue has an item, and that `on_task` returns. Every executor bounds a command
(`command_timeout`; the polling loops of `WorkflowExecutor` are bounded), so
the second is a property of the code. Nothing is assumed of users.
`RequestsSettle` assumes that time passes and that a handler whose time is up
is resumed. The cluster gets no fairness: a script may never be accepted.
`EndsReported` assumes that a client keeps polling with history and that its
status command ends, that a cancellation that has begun is finished, that a job
leaves an unlisted state again, that a script that has recorded its exit code exits,
however often it is stopped before (strong fairness of `Finish`: it can exit
whenever it runs), and that accounting records arrive. Sources may stay silent
for ever. `OperationEnds` assumes that the event loop resumes the handler, that
the reads of a log return, that a time limit fires (the executor's, the HTTP
client's and the 180 seconds of polling), and that time passes for the client;
nothing of the script, the run, the log or the other facility. `RequestsEnd` assumes that a wake-up of the lock is delivered
and that the holder's awaits return, which the HTTP client's timeouts ensure.

## The proofs

Every invariant, action property and refinement that a passing run checks is
proved for all values of the constants, from the named
assumptions in those modules (constants are naturals; `None` is not a value of
the sets it is added to; those of `InventoryBuild` and `Federation` above).

* `StatusLedgerProofs`. Types first, then `OneOpenIncident`. Planned incidents
  are `pending`, so only unplanned ones are candidates of the search; an outage
  starts only when there is none. The refinement follows: an observation
  changes the candidates of its own resource only. For `IncidentTracksOutage`
  the history quantifies over events, so the step lemma says what one appended
  event does to the outage of each resource. The links are inductive together
  with types and the fact that incident numbers do not exceed the history.
* `TaskQueueProofs`. `NoTaskLost` is inductive with the type invariant once it
  says that the queue is exactly the interval of the newest submissions; order
  and "canceled before start never runs" follow, the latter because a task that
  has not started is in the queue or was never submitted.
* `JobSubmissionProofs`. `DuplicatesExplained` is not inductive. Its
  strengthening says for each key that, unless one of the explanations holds,
  an accepted or running script is accounted for by the lock or the answer now
  in the store; deadlines keep a request that has not outlived its lock in
  possession of it.

* `UsageAccountingProofs`. `ChargedAsPresented` holds because requests are
  presented in turn and what is remembered of a user is of the last Keycard
  presented (`InTurn`, `RememberedLast`); the accounts read from it are those of
  the property. `PostedOnce` needs that a number in `seen`, or a post
  under way, belongs to exactly one poll of the present process: a charge
  happens in the step that puts the number into the set. The cluster's next
  number is a cardinality, hence the lemmas on finite sets.
* `JobStatusProofs`. The invariant has the facts about the job (an exit code
  exists once the command ended, the file holds it or the mark of a
  cancellation), and says of every partial answer what the final one must
  satisfy; these statements stay true as the job goes on, which is why a stale
  source does no harm. A word that is not listed is among them until a poll is
  answered with it, hence the exception of `TerminalIsOver`. A poll that began when all was settled has found nothing
  or the truth.
* `FilesystemTaskProofs`, of `Execution` and `FilesystemTask`. Of a call: what a
  log shows was printed, and the END marker is printed after the script ended;
  with the order of the phases this gives both properties, and the refinement
  step by step. Each step of the task is a step of the call, of the
  cluster or of neither, so the invariant of `Execution` is kept by its own
  lemmas. The invariant added says how far handler and other facility can be at
  each stage: nothing is sent before the lookup succeeded, the other facility has
  a task only for what was forwarded, and a settled task is completed only if
  the place where it is done has done it. Refinement and `RefusedHasNoEffect`
  follow.
* `InventoryBuildProofs`. What the properties say of a built inventory holds, in
  a weaker form, from the first read on: the invariant says of every published
  resource what it is, told by its id (a cluster that was added, a filesystem or
  mount of its agent, a shared mount, an item), and that the read which lists it
  has been answered. Ids of different kinds differ, so what a read adds has ids
  that nothing published has, and one lemma (`PublishMore`) says that such an
  addition keeps ids, sites and mounts whole if it is whole itself.
  `clustersByResource` holds exactly the clusters added, which are selected, so a
  mount leads to one. The ledger changes in one step only; what that does to each
  resource (`ObserveEffect`) gives `StatusesAgree` and, with the kinds and the
  mapping of statuses, both action properties. That a rule which matches has a
  first one, so that every item has a site, is the well-foundedness of `<`.
* `GatewayProofs`, of `Federation`. The invariant is about names: `Leads(f, id,
  owner)` says that each prefix is an upstream of the facility before it, the
  last one the owner, and the local name a resource of its own. The lemmas say
  that an own name leads to its facility, that `Ns` keeps this from one gateway
  further out, and that `Split` takes it back by one; so every name that is
  published, cached or asked for leads to its owner, however old the list. Of the
  topology it says that nodes are of facilities swept before, each once, and that
  sites are counted node by node; the statuses follow in `Write`.
* `GatewayProofs`, of `InventoryCache`. Mutual exclusion first: the request that
  works has the
  lock, and took it when the inventory had expired. Then, for each stretch of a
  rebuild, what ledger and upstreams agree with: with what is published until
  they are touched, with what is being built afterwards. After a failed merge
  (`behind`) that is lost until the next publication, and what is known instead is
  the time: the inventory has expired, or a build has failed within the grace
  period.

TLC has checked the invariants of `InventoryBuild` and `Federation` on the
instances of their runs, too.

Only model-checked: the liveness properties `TasksSettle`, `RequestsSettle`,
`EndsReported`, `OperationEnds` and `RequestsEnd`, as fairness is beyond the
prover. The type invariants are proved and checked by no run, as are `ExpiresAfterTTL`,
`ResultIsFinal` and `SeenHasPoster`: a theorem says it for every instance.
No theorem rests on anything but the named assumptions.

## Findings

Three runs refute what a document, a comment or a client of the repository says;
`PROJECT.json` quotes the lines. A lock may lapse before the submission it
protects; job numbers of two clusters collide in the accounting; a filesystem that
an agent reports is published with a filesystem endpoint, and every operation on
it is refused, because its cluster is looked up by a relation it has not.

Behaviours that the models contain and no property forbids, so that a reader does
not take their absence for promised:

* A task that was canceled while it ran is reported completed or failed later,
  while the clients stop polling at canceled. `OutcomeIsFinal` says exactly which
  outcomes can be overwritten.
* The account of a Keycard may be another project's when two projects share a
  user; `ChargedAsPresented` bounds the mistake.
* `get_job` posts a job's usage to the account of whoever polls it first, also of
  somebody else's job: "posted to the caller's ACTIVATE allocation"
  (`src/docs/ARCHITECTURE.md:108`). A job runs under the account that its JobSpec
  asks for, and nobody asks whether the caller may use it.
* A Slurm job in a state that `_state_map` does not list is reported failed while it
  waits or runs, and a client that stops there is misled. A poll then also posts
  its usage, with the time it ran so far, and no later poll posts the rest.
* A poll that meets the exit code file between its creation and the writing fails
  on PBS and for shell jobs; on Slurm without other sources it reads 1.
* A PBS job that is deleted or killed may be reported completed, as it has no exit
  status.
* A task whose request another facility answers with an error may be done there all
  the same, when the error is a proxy's.
* Cancelling a shell job signals its wrapper while the command, in a session of
  its own, runs on; `TerminalIsOver` makes the exception.
* After a merge that failed and a build that failed, the previous inventory is
  served for the grace period while the ledger is ahead of it (`LedgerInStep`).
  A resource that `merge_into` does not expect fails every request until the
  upstream is read again. After a torn read, old incidents of an upstream stand
  beside its new resources (`IncidentsNotAhead` says: never the other way).
* A site of the topology whose systems are all UNKNOWN is shown UP.
* In the topology, a system that is only read through a gateway is not shown when
  its own facility does not answer: copies are skipped before that is known.
* A filesystem that an agent reports is always up, also on a cluster that is
  down, and a cluster outside `execution_clusters` still publishes filesystem
  endpoints for them.

## Not modelled

Formatting of batch scripts and shell commands, parsing of `ls` output, the
attributes of published resources, the console, the topology page and the
deployment files. The history file of the sweep, which starts again with the
process. The lists of `account.py` and `storage.py`, which convert what was read.
Authentication itself is the framework's and the platform's; of `auth.py` the
whoami cache (120 seconds old at most) and `resolve` are left out. The AmSC
adapter is a library of another program.

## Plan

Done: the ledger, the task queue, submission with its idempotency, accounting,
job status, executors, filesystem operations, the inventory with its cache, and
the federation of facilities. What is left, in order:

1. The safety half of the liveness properties, as theorems: a waiting request is
   in the queue of the lock exactly once, a task that is not settled has a step
   left to take, and each forward shortens the name, so that no request circles
   between gateways that list each other.
2. `Identity`: the whoami cache and `resolve` (which user and host a request acts
   as), beside the account that `UsageAccounting` has.
3. `ServiceClient`: plan, create, status and destroy of the AmSC adapter, whose
   second `create` forgets the first run.

All twelve runs and forty checked properties are taken: a new module takes the
place of a run that a theorem makes dispensable.
