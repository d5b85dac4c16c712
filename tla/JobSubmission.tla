---------------------------- MODULE JobSubmission ----------------------------
(***************************************************************************)
(* POST /compute/job with an Idempotency-Key, from the framework's check   *)
(* of the key to the answer: ComputeAdapter.submit_job                     *)
(* (activate_iri/compute.py) over the store of IdempotencyStore, the       *)
(* executor's time limit (activate_iri/executor.py) and a scheduler.       *)
(*                                                                         *)
(* Requests are numbered in the order they arrive.  A request submits at   *)
(* most one script, and the script makes at most one job, so the job that  *)
(* request r made is named r.  The command on the cluster is not the       *)
(* coroutine that awaits it: the executor gives up after CommandTimeout    *)
(* and reports a failure, and the script runs on.                          *)
(***************************************************************************)
EXTENDS IdempotencyStore

CONSTANTS
    MaxRequest,     \* bound on the HTTP requests, each attempt of a client one of them
    CommandTimeout, \* command_timeout: how long the submit command may take
    RecordTimeout,  \* how long the command that writes the jobid file may take
    MaxTime,        \* bound on the clock, for model checking
    MaxRestarts     \* bound on the restarts of the endpoint, for model checking

Request == 1 .. MaxRequest

ASSUME RequestAssumption == MaxRequest \in Nat /\ Job = Request
ASSUME TimeoutAssumption == CommandTimeout \in Nat /\ RecordTimeout \in Nat
ASSUME BoundAssumption == MaxTime \in Nat /\ MaxRestarts \in Nat

VARIABLES
    req,        \* the requests: what was asked, when, and what became of it
    script,     \* script[r]: what became of the submit script of r on the cluster
    restarts    \* how often the endpoint restarted

vars == <<items, now, req, script, restarts>>

InFlight == {"submitting", "recording"}
Refused == {"fingerprint_mismatch", "conflict"}
Phase == {"unsent", "ok", "hit", "error", "lost"} \cup InFlight \cup Refused

Unsent == [phase |-> "unsent"]
Sent == [phase : Phase \ {"unsent"}, key : Key, body : Body, job : Job \cup {None},
         start : Nat, ended : Nat, deadline : Nat]

Init ==
    /\ StoreInit
    /\ req = [r \in Request |-> Unsent]
    /\ script = [r \in Request |-> "none"]
    /\ restarts = 0

-----------------------------------------------------------------------------
(* The endpoint.                                                           *)

\* How the framework acts on the verdict: it lets the handler run, or answers.
PhaseOf(verdict) == IF verdict = "proceed" THEN "submitting" ELSE verdict

\* A request is checked against its key.  When it proceeds, the handler runs
\* up to the await of the executor, with the script on its way.
Arrive(r, k, b) ==
    /\ req[r] = Unsent
    /\ \A q \in 1 .. (r - 1) : req[q] # Unsent
    /\ now + CommandTimeout + RecordTimeout <= MaxTime
    /\ LET verdict == Verdict(k, b) IN
          /\ req' = [req EXCEPT ![r] =
                [phase |-> PhaseOf(verdict), key |-> k, body |-> b,
                 job |-> IF verdict = "hit" THEN items[k].job ELSE None,
                 start |-> now, ended |-> now, deadline |-> now + CommandTimeout]]
          /\ script' = IF verdict = "proceed"
                       THEN [script EXCEPT ![r] = "running"]
                       ELSE script
    /\ CheckAndLock(k, b)
    /\ UNCHANGED <<now, restarts>>

\* The framework stores the answer of a handler that returned and releases the
\* key of one that raised.
ReplyOk(r) ==
    /\ req' = [req EXCEPT ![r].phase = "ok", ![r].job = r, ![r].ended = now]
    /\ StoreResult(req[r].key, req[r].body, r)
ReplyError(r) ==
    /\ req' = [req EXCEPT ![r].phase = "error", ![r].ended = now]
    /\ DeleteLock(req[r].key)

\* The executor returned the job id.  On a cluster without a batch scheduler the
\* handler returns; otherwise it first has the id written beside the script.
SubmittedShell(r) ==
    /\ req[r].phase = "submitting"
    /\ script[r] = "accepted"
    /\ ReplyOk(r)
    /\ UNCHANGED <<now, script, restarts>>
SubmittedBatch(r) ==
    /\ req[r].phase = "submitting"
    /\ script[r] = "accepted"
    /\ req' = [req EXCEPT ![r].phase = "recording", ![r].deadline = now + RecordTimeout]
    /\ UNCHANGED <<items, now, script, restarts>>

\* Mutant: the handler waits until the scheduler has accepted the script.
FailedOnceAccepted(r) ==
    /\ req[r].phase = "submitting"
    /\ script[r] = "accepted"
    /\ ReplyError(r)
    /\ UNCHANGED <<now, script, restarts>>

\* The handler raises before it has a job id: the resource or the platform
\* failed it, the executor returned a non-zero code or gave up at the time
\* limit, or the output held no id.  None of these says the script did not run.
Failed(r) ==
    /\ req[r].phase = "submitting"
    /\ ReplyError(r)
    /\ UNCHANGED <<now, script, restarts>>

\* The second command has returned, with whatever code.
Recorded(r) ==
    /\ req[r].phase = "recording"
    /\ ReplyOk(r)
    /\ UNCHANGED <<now, script, restarts>>

\* The second command could not be started: the executor raised.
RecordRaised(r) ==
    /\ req[r].phase = "recording"
    /\ ReplyError(r)
    /\ UNCHANGED <<now, script, restarts>>

\* The endpoint restarts: the clients of the requests in flight see the
\* connection close, and the store is empty.
Restart ==
    /\ restarts < MaxRestarts
    /\ restarts' = restarts + 1
    /\ Close
    /\ req' = [r \in Request |-> IF req[r].phase \in InFlight
                                 THEN [req[r] EXCEPT !.phase = "lost", !.ended = now]
                                 ELSE req[r]]
    /\ UNCHANGED <<now, script>>

-----------------------------------------------------------------------------
(* The cluster and the clock.                                              *)

\* The scheduler accepts a script, however late that gets to run.  A script that
\* it rejects, or that is never started, stays as it is.
Accept(r) ==
    /\ script[r] = "running"
    /\ script' = [script EXCEPT ![r] = "accepted"]
    /\ UNCHANGED <<items, now, req, restarts>>

\* asyncio.wait_for fires when its time is up, before the clock goes on.
Due(r) == req[r].phase \in InFlight /\ req[r].deadline <= now

Tick ==
    /\ now < MaxTime
    /\ \A r \in Request : ~ Due(r)
    /\ now' = now + 1
    /\ UNCHANGED <<items, req, script, restarts>>

-----------------------------------------------------------------------------
Next ==
    \/ \E r \in Request, k \in Key, b \in Body : Arrive(r, k, b)
    \/ \E r \in Request :
          \/ SubmittedShell(r) \/ SubmittedBatch(r) \/ Failed(r)
          \/ Recorded(r) \/ RecordRaised(r)
    \/ Restart
    \/ \E r \in Request : Accept(r)
    \/ Tick

Spec == Init /\ [][Next]_vars

\* Time passes, and the handler whose time is up is resumed.  Nothing is
\* assumed of the cluster: a script may stay undecided.
Fairness ==
    /\ WF_vars(Tick)
    /\ \A r \in Request : /\ WF_vars(Due(r) /\ Failed(r))
                          /\ WF_vars(Due(r) /\ Recorded(r))

FairSpec == Spec /\ Fairness

-----------------------------------------------------------------------------
(* Properties.                                                             *)

TypeOK ==
    /\ StoreTypeOK
    /\ req \in [Request -> Sent \cup {Unsent}]
    /\ script \in [Request -> {"none", "running", "accepted"}]
    /\ restarts \in Nat

\* The requests of a key that were let through to the handler.
Proceeded(k) == {r \in Request : script[r] # "none" /\ req[r].key = k}

\* A locked key always has the request in flight that locked it: no error, time
\* limit or overlap of two requests leaves a lock nobody will release, so a
\* client whose request failed is not told "conflict" for the rest of LockTTL.
LockHasHolder ==
    \A k \in Key : items[k].state = "locked" =>
        \E r \in Proceeded(k) :
            /\ req[r].phase \in InFlight
            /\ req[r].body = items[k].body
            /\ req[r].start + LockTTL = items[k].expires

\* Every job a client is given, by its own request or replayed from the store,
\* is one the scheduler accepted for a request with that key and that body,
\* also when a request outlives its lock and the key was locked anew for
\* another body.
AnswersAreReal ==
    /\ \A k \in Key : items[k].state = "done" =>
          LET j == items[k].job IN
          script[j] = "accepted" /\ req[j].key = k /\ req[j].body = items[k].body
    /\ \A r \in Request : req[r].phase \in {"ok", "hit"} =>
          LET j == req[r].job IN
          /\ j \in Job /\ script[j] = "accepted"
          /\ req[j].key = req[r].key /\ req[j].body = req[r].body

\* What can part a key from the job it stands for: a request that is or was in
\* flight when its lock ran out, an accepted job whose client was told of an
\* error, an answer that is no longer replayed.
Outlived(r) == (IF req[r].phase \in InFlight THEN now ELSE req[r].ended) > req[r].start + LockTTL
Disowned(r) == script[r] = "accepted" /\ req[r].phase = "error"
Forgotten(r) == req[r].phase = "ok" /\ req[r].ended + ResultTTL < now

\* A key gets a second job only in those cases, or after a restart: in all
\* others the store keeps one key to one job, whatever the order of requests,
\* answers and errors.
DuplicatesExplained ==
    \A k \in Key : \A r, s \in Proceeded(k) :
        /\ r # s
        /\ script[r] = "accepted"
        /\ script[s] = "accepted"
        => \/ restarts > 0
           \/ \E q \in Proceeded(k) : Outlived(q) \/ Disowned(q) \/ Forgotten(q)

\* A stored answer is what every later request gets until it expires or the
\* endpoint restarts: no request that ends late replaces it or deletes it.
ResultIsFinal ==
    [][\A k \in Key : items[k].state = "done" =>
          \/ items'[k] = items[k]
          \/ items[k].expires < now
          \/ restarts' # restarts]_vars

\* Every request is answered, also when the cluster never does.
RequestsSettle ==
    \A r \in Request : req[r].phase \in InFlight ~> req[r].phase \notin InFlight

\* The promise of the clients that send a key: "idempotent per workflow run",
\* all successful submissions with one key name one job.
OneJobPerKey ==
    \A r, s \in Request :
        /\ req[r].phase \in {"ok", "hit"}
        /\ req[s].phase \in {"ok", "hit"}
        /\ req[r].key = req[s].key
        => req[r].job = req[s].job
=============================================================================
