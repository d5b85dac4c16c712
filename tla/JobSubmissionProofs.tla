------------------------- MODULE JobSubmissionProofs -------------------------
(***************************************************************************)
(* What the submission path guarantees for any number of requests, keys,   *)
(* bodies, time limits and restarts, proved of JobSubmission.              *)
(***************************************************************************)
EXTENDS JobSubmission, TLAPS

ScriptState == {"none", "running", "accepted"}

LEMMA PhasesAreDistinct ==
    /\ InFlight \subseteq Phase \ {"unsent"}
    /\ Refused \subseteq Phase \ {"unsent"}
    /\ {"ok", "hit", "error", "lost"} \subseteq Phase \ {"unsent"}
BY DEF InFlight, Refused, Phase

LEMMA SentType ==
    ASSUME TypeOK, NEW r \in Request, req[r].phase # "unsent"
    PROVE  req[r] \in Sent
<1>1. req[r] \in Sent \cup {Unsent}
  BY DEF TypeOK
<1>2. req[r] # Unsent
  BY DEF Unsent
<1> QED BY <1>1, <1>2

LEMMA FreeOrItem ==
    ASSUME TypeOK, NEW k \in Key
    PROVE  /\ items[k].state = "free" <=> items[k] = Free
           /\ items[k].state = "locked" => items[k] \in Lock
           /\ items[k].state = "done" => items[k] \in Answer
<1>1. items[k] \in Lock \cup Answer \cup {Free}
  BY DEF TypeOK, StoreTypeOK
<1> QED BY <1>1 DEF Lock, Answer, Free

-----------------------------------------------------------------------------
(* Type correctness.                                                       *)

LEMMA SweptType ==
    ASSUME TypeOK
    PROVE  Swept \in [Key -> Lock \cup Answer \cup {Free}]
BY DEF TypeOK, StoreTypeOK, Swept

LEMMA VerdictType ==
    ASSUME TypeOK, NEW k \in Key, NEW b \in Body
    PROVE  /\ Verdict(k, b) \in {"proceed", "fingerprint_mismatch", "conflict", "hit"}
           /\ Verdict(k, b) = "proceed" <=> Swept[k].state = "free"
           /\ Verdict(k, b) = "hit" => Swept[k].state = "done" /\ Swept[k].body = b
<1>1. Swept[k].state \in {"free", "locked", "done"}
  BY SweptType DEF Lock, Answer, Free
<1> QED BY <1>1 DEF Verdict

LEMMA CheckType ==
    ASSUME TypeOK, NEW k \in Key, NEW b \in Body, CheckAndLock(k, b)
    PROVE  items' \in [Key -> Lock \cup Answer \cup {Free}]
<1>1. [state |-> "locked", body |-> b, expires |-> now + LockTTL, job |-> None] \in Lock
  BY TTLAssumption DEF Lock, TypeOK, StoreTypeOK
<1> QED BY <1>1, SweptType DEF CheckAndLock

LEMMA StoreResultType ==
    ASSUME TypeOK, NEW k \in Key, NEW b \in Body, NEW j \in Job, StoreResult(k, b, j)
    PROVE  items' \in [Key -> Lock \cup Answer \cup {Free}]
<1>1. [state |-> "done", body |-> b, expires |-> now + ResultTTL, job |-> j] \in Answer
  BY TTLAssumption DEF Answer, TypeOK, StoreTypeOK
<1> QED BY <1>1 DEF StoreResult, TypeOK, StoreTypeOK

LEMMA DeleteLockType ==
    ASSUME TypeOK, NEW k \in Key, DeleteLock(k)
    PROVE  items' \in [Key -> Lock \cup Answer \cup {Free}]
BY DEF DeleteLock, TypeOK, StoreTypeOK

\* The record an answered request ends with, and the one a batch job's request
\* waits in, have the type of a sent request.
LEMMA AnsweredType ==
    ASSUME TypeOK, NEW r \in Request, req[r].phase # "unsent",
           NEW p \in Phase \ {"unsent"}, NEW j \in Job \cup {None}, NEW d \in Nat, NEW e \in Nat
    PROVE  /\ [req[r] EXCEPT !.phase = p, !.job = j, !.ended = e] \in Sent
           /\ [req[r] EXCEPT !.phase = p, !.ended = e] \in Sent
           /\ [req[r] EXCEPT !.phase = p, !.deadline = d] \in Sent
BY SentType DEF Sent

LEMMA StepType == TypeOK /\ [Next]_vars => TypeOK'
<1> SUFFICES ASSUME TypeOK, [Next]_vars PROVE TypeOK'
  OBVIOUS
<1> USE RequestAssumption, PhasesAreDistinct
<1>1. ASSUME NEW r \in Request, NEW k \in Key, NEW b \in Body, Arrive(r, k, b) PROVE TypeOK'
  <2>1. items' \in [Key -> Lock \cup Answer \cup {Free}]
    BY <1>1, CheckType DEF Arrive
  <2> DEFINE j == IF Verdict(k, b) = "hit" THEN items[k].job ELSE None
  <2>2. j \in Job \cup {None}
    <3>1. CASE Verdict(k, b) = "hit"
      <4>1. Swept[k].state = "done"
        BY <3>1, VerdictType
      <4>2. items[k].state = "done"
        BY <4>1 DEF Swept, Free
      <4>3. items[k] \in Answer
        BY <4>2, FreeOrItem
      <4> QED BY <4>3 DEF Answer
    <3>2. CASE Verdict(k, b) # "hit"
      BY <3>2
    <3> QED BY <3>1, <3>2
  <2>3. PhaseOf(Verdict(k, b)) \in Phase \ {"unsent"}
    BY VerdictType DEF PhaseOf, Phase, InFlight, Refused
  <2>4. [phase |-> PhaseOf(Verdict(k, b)), key |-> k, body |-> b, job |-> j,
         start |-> now, ended |-> now, deadline |-> now + CommandTimeout] \in Sent
    <3>1. now \in Nat /\ now + CommandTimeout \in Nat
      BY TimeoutAssumption DEF TypeOK, StoreTypeOK
    <3> HIDE DEF j
    <3> QED BY <2>2, <2>3, <3>1 DEF Sent
  <2>5. req' \in [Request -> Sent \cup {Unsent}]
    BY <1>1, <2>4 DEF Arrive, TypeOK
  <2>6. script' \in [Request -> ScriptState]
    BY <1>1 DEF Arrive, TypeOK, ScriptState
  <2> QED BY <1>1, <2>1, <2>5, <2>6 DEF Arrive, TypeOK, StoreTypeOK, ScriptState
<1>2. ASSUME NEW r \in Request, req[r].phase \in InFlight, ReplyOk(r), UNCHANGED <<now, script, restarts>>
      PROVE  TypeOK'
  <2>1. req[r].phase # "unsent" /\ req[r] \in Sent
    BY <1>2, SentType DEF InFlight
  <2>2. items' \in [Key -> Lock \cup Answer \cup {Free}]
    BY <1>2, <2>1, StoreResultType DEF ReplyOk, Sent
  <2>3. [req[r] EXCEPT !.phase = "ok", !.job = r, !.ended = now] \in Sent
    BY <2>1, AnsweredType DEF TypeOK, StoreTypeOK
  <2>4. req' \in [Request -> Sent \cup {Unsent}]
    BY <1>2, <2>3 DEF ReplyOk, TypeOK
  <2> QED BY <1>2, <2>2, <2>4 DEF TypeOK, StoreTypeOK
<1>3. ASSUME NEW r \in Request, req[r].phase \in InFlight, ReplyError(r), UNCHANGED <<now, script, restarts>>
      PROVE  TypeOK'
  <2>1. req[r].phase # "unsent" /\ req[r] \in Sent
    BY <1>3, SentType DEF InFlight
  <2>2. items' \in [Key -> Lock \cup Answer \cup {Free}]
    BY <1>3, <2>1, DeleteLockType DEF ReplyError, Sent
  <2>3. [req[r] EXCEPT !.phase = "error", !.ended = now] \in Sent
    BY <2>1, AnsweredType DEF TypeOK, StoreTypeOK
  <2>4. req' \in [Request -> Sent \cup {Unsent}]
    BY <1>3, <2>3 DEF ReplyError, TypeOK
  <2> QED BY <1>3, <2>2, <2>4 DEF TypeOK, StoreTypeOK
<1>4. ASSUME NEW r \in Request, SubmittedBatch(r) PROVE TypeOK'
  <2>1. req[r].phase # "unsent" /\ now + RecordTimeout \in Nat
    BY <1>4, TimeoutAssumption DEF SubmittedBatch, TypeOK, StoreTypeOK
  <2>2. [req[r] EXCEPT !.phase = "recording", !.deadline = now + RecordTimeout] \in Sent
    BY <2>1, AnsweredType DEF InFlight, TypeOK, StoreTypeOK
  <2> QED BY <1>4, <2>2 DEF SubmittedBatch, TypeOK, StoreTypeOK
<1>5. ASSUME Restart PROVE TypeOK'
  <2>1. ASSUME NEW r \in Request, req[r].phase \in InFlight
        PROVE  [req[r] EXCEPT !.phase = "lost", !.ended = now] \in Sent
    BY <2>1, AnsweredType DEF InFlight, TypeOK, StoreTypeOK
  <2>2. req' \in [Request -> Sent \cup {Unsent}]
    BY <1>5, <2>1 DEF Restart, TypeOK
  <2>3. StoreTypeOK'
    BY <1>5 DEF Restart, Close, TypeOK, StoreTypeOK
  <2>4. restarts' = restarts + 1 /\ script' = script
    BY <1>5 DEF Restart
  <2> QED BY <2>2, <2>3, <2>4 DEF TypeOK
<1>6. ASSUME NEW r \in Request, Accept(r) PROVE TypeOK'
  BY <1>6 DEF Accept, TypeOK, StoreTypeOK
<1>7. CASE Tick
  BY <1>7 DEF Tick, TypeOK, StoreTypeOK
<1>8. CASE UNCHANGED vars
  BY <1>8 DEF vars, TypeOK, StoreTypeOK
<1>9. ASSUME NEW r \in Request,
             SubmittedShell(r) \/ Failed(r) \/ Recorded(r) \/ RecordRaised(r)
      PROVE  TypeOK'
  BY <1>9, <1>2, <1>3 DEF SubmittedShell, Failed, Recorded, RecordRaised, InFlight
<1> QED BY <1>1, <1>4, <1>5, <1>6, <1>7, <1>8, <1>9 DEF Next

\* The store, the requests and the scripts stay of their types (idempotency.py,
\* compute.py submit_job), for every instance.
THEOREM TypeCorrect == Spec => []TypeOK
<1>1. Init => TypeOK
  BY BoundAssumption DEF Init, StoreInit, TypeOK, StoreTypeOK
<1> QED BY <1>1, StepType, PTL DEF Spec

-----------------------------------------------------------------------------
(* Steps.  Whatever happens, a request keeps what it asked for, an answer  *)
(* stays, and so does a job.                                               *)

\* A request that is let through has a script; a job id is written only for a
\* job; a request answered with its own job has one.
Progress ==
    \A r \in Request :
        /\ script[r] # "none" => req[r].phase # "unsent"
        /\ req[r].phase \in InFlight => script[r] # "none"
        /\ req[r].phase = "recording" => script[r] = "accepted"

IInv == TypeOK /\ Progress /\ LockHasHolder /\ AnswersAreReal

\* A request in flight is answered, or waits for its second command.
Moves(r) ==
    /\ req[r].phase \in InFlight
    /\ req'[r].phase \in {"recording", "ok", "error"}
    /\ req'[r].key = req[r].key
    /\ req'[r].body = req[r].body
    /\ req'[r].start = req[r].start
    /\ \A q \in Request \ {r} : req'[q] = req[q]

LEMMA ReplyMoves ==
    ASSUME TypeOK, NEW r \in Request, req[r].phase \in InFlight
    PROVE  /\ ReplyOk(r) => /\ Moves(r)
                            /\ StoreResult(req[r].key, req[r].body, r)
                            /\ req'[r].phase = "ok"
                            /\ req'[r].job = r
           /\ ReplyError(r) => /\ Moves(r)
                               /\ DeleteLock(req[r].key)
                               /\ req'[r].phase = "error"
           /\ SubmittedBatch(r) => /\ Moves(r)
                                   /\ UNCHANGED items
                                   /\ req'[r].phase = "recording"
<1>1. req[r] \in Sent
  BY SentType DEF InFlight
<1>2. req \in [Request -> Sent \cup {Unsent}]
  BY DEF TypeOK
<1>3. ASSUME ReplyOk(r)
      PROVE  /\ Moves(r)
             /\ StoreResult(req[r].key, req[r].body, r)
             /\ req'[r].phase = "ok"
             /\ req'[r].job = r
  BY <1>1, <1>2, <1>3 DEF ReplyOk, Moves, Sent
<1>4. ASSUME ReplyError(r)
      PROVE  /\ Moves(r)
             /\ DeleteLock(req[r].key)
             /\ req'[r].phase = "error"
  BY <1>1, <1>2, <1>4 DEF ReplyError, Moves, Sent
<1>5. ASSUME SubmittedBatch(r)
      PROVE  /\ Moves(r)
             /\ UNCHANGED items
             /\ req'[r].phase = "recording"
  BY <1>1, <1>2, <1>5 DEF SubmittedBatch, Moves, Sent
<1> QED BY <1>3, <1>4, <1>5

-----------------------------------------------------------------------------
(* Progress and the holder of a lock.                                      *)

LEMMA LockOf ==
    ASSUME TypeOK, NEW r \in Request, req[r] \in Sent
    PROVE  /\ \A j \in Job : StoreResult(req[r].key, req[r].body, j) =>
                 \A k \in Key :
                    /\ items'[k].state = "locked" => items'[k] = items[k]
                    /\ items'[k].state = "locked" /\ k = req[r].key => items[k].body # req[r].body
           /\ DeleteLock(req[r].key) =>
                 \A k \in Key :
                    /\ items'[k] = Free \/ items'[k] = items[k]
                    /\ items'[k].state = "locked" => k # req[r].key
<1>1. req[r].key \in Key
  BY DEF Sent
<1>2. ASSUME NEW j \in Job, StoreResult(req[r].key, req[r].body, j), NEW k \in Key
      PROVE  /\ items'[k].state = "locked" => items'[k] = items[k]
             /\ items'[k].state = "locked" /\ k = req[r].key => items[k].body # req[r].body
  BY <1>1, <1>2 DEF StoreResult, TypeOK, StoreTypeOK
<1>3. ASSUME DeleteLock(req[r].key), NEW k \in Key
      PROVE  /\ items'[k] = Free \/ items'[k] = items[k]
             /\ items'[k].state = "locked" => k # req[r].key
  BY <1>1, <1>3 DEF DeleteLock, TypeOK, StoreTypeOK, Free
<1> QED BY <1>2, <1>3

\* A step of request r that leaves every lock but its own in place keeps the
\* holders: a lock that stays is held by another request, or r stays in flight.
LEMMA MoveKeepsHolders ==
    ASSUME TypeOK, Progress, LockHasHolder, NEW r \in Request, Moves(r), UNCHANGED script,
           \A k \in Key : items'[k].state = "locked" =>
               /\ items'[k] = items[k]
               /\ \/ k # req[r].key
                  \/ items[k].body # req[r].body
                  \/ req'[r].phase \in InFlight
    PROVE  LockHasHolder'
<1> SUFFICES ASSUME NEW k \in Key, items'[k].state = "locked"
             PROVE  \E q \in Request :
                        /\ script[q] # "none" /\ req'[q].key = k
                        /\ req'[q].phase \in InFlight
                        /\ req'[q].body = items'[k].body
                        /\ req'[q].start + LockTTL = items'[k].expires
  BY DEF LockHasHolder, Proceeded
<1>1. items'[k] = items[k]
  OBVIOUS
<1>2. PICK q \in Request : /\ script[q] # "none" /\ req[q].key = k
                           /\ req[q].phase \in InFlight
                           /\ req[q].body = items[k].body
                           /\ req[q].start + LockTTL = items[k].expires
  BY <1>1 DEF LockHasHolder, Proceeded
<1>3. CASE q # r
  <2>1. req'[q] = req[q]
    BY <1>3 DEF Moves
  <2> QED BY <1>1, <1>2, <2>1
<1>4. CASE q = r
  <2>1. req'[r].phase \in InFlight
    BY <1>2, <1>4
  <2> QED BY <1>1, <1>2, <1>4, <2>1 DEF Moves
<1> QED BY <1>3, <1>4

\* A request that arrives is recorded with what it asks, and keeps out of the
\* way of the others.
LEMMA ArriveRequest ==
    ASSUME TypeOK, NEW r \in Request, NEW k \in Key, NEW b \in Body, Arrive(r, k, b)
    PROVE  /\ req[r] = Unsent
           /\ req'[r].phase = PhaseOf(Verdict(k, b))
           /\ req'[r].key = k /\ req'[r].body = b /\ req'[r].start = now
           /\ Verdict(k, b) = "hit" => req'[r].job = items[k].job
           /\ \A q \in Request \ {r} : req'[q] = req[q] /\ script'[q] = script[q]
           /\ script'[r] = IF Verdict(k, b) = "proceed" THEN "running" ELSE script[r]
BY DEF Arrive, TypeOK

LEMMA ArriveKeepsHolders ==
    ASSUME IInv, NEW r \in Request, NEW k \in Key, NEW b \in Body, Arrive(r, k, b)
    PROVE  LockHasHolder'
<1> SUFFICES ASSUME NEW l \in Key, items'[l].state = "locked"
             PROVE  \E q \in Request :
                        /\ script'[q] # "none" /\ req'[q].key = l
                        /\ req'[q].phase \in InFlight
                        /\ req'[q].body = items'[l].body
                        /\ req'[q].start + LockTTL = items'[l].expires
  BY DEF LockHasHolder, Proceeded
<1>1. CheckAndLock(k, b) /\ TypeOK
  BY DEF Arrive, IInv
<1>2. CASE Verdict(k, b) = "proceed" /\ l = k
  <2>1. items'[k] = [state |-> "locked", body |-> b, expires |-> now + LockTTL, job |-> None]
    BY <1>1, <1>2, SweptType DEF CheckAndLock
  <2>2. req'[r].phase \in InFlight /\ script'[r] # "none"
    BY <1>1, <1>2, ArriveRequest DEF PhaseOf, InFlight
  <2> QED BY <1>1, <1>2, <2>1, <2>2, ArriveRequest
<1>3. CASE ~ (Verdict(k, b) = "proceed" /\ l = k)
  <2>1. items'[l] = Swept[l]
    BY <1>1, <1>3, SweptType DEF CheckAndLock
  <2>2. items'[l] = items[l]
    BY <2>1 DEF Swept, Free
  <2>3. PICK q \in Request : /\ script[q] # "none" /\ req[q].key = l
                             /\ req[q].phase \in InFlight
                             /\ req[q].body = items[l].body
                             /\ req[q].start + LockTTL = items[l].expires
    BY <2>2 DEF IInv, LockHasHolder, Proceeded
  <2>4. q # r
    BY <1>1, <2>3, ArriveRequest DEF Unsent, InFlight
  <2> QED BY <1>1, <2>2, <2>3, <2>4, ArriveRequest
<1> QED BY <1>2, <1>3

LEMMA StepHolders == IInv /\ [Next]_vars => LockHasHolder'
<1> SUFFICES ASSUME IInv, [Next]_vars PROVE LockHasHolder'
  OBVIOUS
<1> USE DEF IInv
<1>1. ASSUME NEW r \in Request, req[r].phase \in InFlight, ReplyOk(r), UNCHANGED script
      PROVE  LockHasHolder'
  <2>1. Moves(r) /\ StoreResult(req[r].key, req[r].body, r)
    BY <1>1, ReplyMoves
  <2>2. req[r] \in Sent /\ r \in Job
    BY <1>1, SentType, RequestAssumption DEF InFlight
  <2>3. \A k \in Key : items'[k].state = "locked" =>
           items'[k] = items[k] /\ (k # req[r].key \/ items[k].body # req[r].body)
    BY <2>1, <2>2, LockOf
  <2> QED BY <1>1, <2>1, <2>3, MoveKeepsHolders
<1>2. ASSUME NEW r \in Request, req[r].phase \in InFlight, ReplyError(r), UNCHANGED script
      PROVE  LockHasHolder'
  <2>1. Moves(r) /\ DeleteLock(req[r].key)
    BY <1>2, ReplyMoves
  <2>2. req[r] \in Sent
    BY <1>2, SentType DEF InFlight
  <2>3. \A k \in Key : items'[k].state = "locked" => items'[k] = items[k] /\ k # req[r].key
    BY <2>1, <2>2, LockOf DEF Free
  <2> QED BY <1>2, <2>1, <2>3, MoveKeepsHolders
<1>3. ASSUME NEW r \in Request, SubmittedBatch(r) PROVE LockHasHolder'
  <2>1. req[r].phase \in InFlight /\ UNCHANGED script
    BY <1>3 DEF SubmittedBatch, InFlight
  <2>2. Moves(r) /\ UNCHANGED items /\ req'[r].phase \in InFlight
    BY <1>3, <2>1, ReplyMoves DEF InFlight
  <2> QED BY <2>1, <2>2, MoveKeepsHolders
<1>4. ASSUME NEW r \in Request, NEW k \in Key, NEW b \in Body, Arrive(r, k, b)
      PROVE  LockHasHolder'
  BY <1>4, ArriveKeepsHolders
<1>5. CASE Restart
  BY <1>5 DEF Restart, Close, LockHasHolder, Free
<1>6. ASSUME NEW r \in Request, Accept(r) PROVE LockHasHolder'
  <2>1. \A q \in Request : script[q] # "none" => script'[q] # "none"
    BY <1>6 DEF Accept, TypeOK
  <2> QED BY <1>6, <2>1 DEF Accept, LockHasHolder, Proceeded
<1>7. CASE Tick \/ UNCHANGED vars
  BY <1>7 DEF Tick, vars, LockHasHolder, Proceeded
<1>8. ASSUME NEW r \in Request,
             SubmittedShell(r) \/ Failed(r) \/ Recorded(r) \/ RecordRaised(r)
      PROVE  LockHasHolder'
  BY <1>8, <1>1, <1>2 DEF SubmittedShell, Failed, Recorded, RecordRaised, InFlight
<1> QED BY <1>3, <1>4, <1>5, <1>6, <1>7, <1>8 DEF Next

LEMMA StepProgress == TypeOK /\ Progress /\ [Next]_vars => Progress'
<1> SUFFICES ASSUME TypeOK, Progress, [Next]_vars PROVE Progress'
  OBVIOUS
<1>1. ASSUME NEW r \in Request, NEW p \in {"recording", "ok", "error"}, Moves(r),
             req'[r].phase = p, p = "recording" => script[r] = "accepted", UNCHANGED script
      PROVE  Progress'
  BY <1>1 DEF Progress, Moves, InFlight
<1>2. ASSUME NEW r \in Request, req[r].phase \in InFlight, ReplyOk(r) \/ ReplyError(r),
             UNCHANGED script
      PROVE  Progress'
  BY <1>1, <1>2, ReplyMoves
<1>3. ASSUME NEW r \in Request, SubmittedBatch(r) PROVE Progress'
  <2>1. req[r].phase \in InFlight /\ UNCHANGED script /\ script[r] = "accepted"
    BY <1>3 DEF SubmittedBatch, InFlight
  <2> QED BY <1>1, <1>3, <2>1, ReplyMoves
<1>4. ASSUME NEW r \in Request, NEW k \in Key, NEW b \in Body, Arrive(r, k, b) PROVE Progress'
  <2>1. script[r] = "none"
    BY <1>4, ArriveRequest DEF Progress, Unsent
  <2>2. /\ req'[r].phase # "unsent" /\ req'[r].phase # "recording"
        /\ req'[r].phase \in InFlight => script'[r] # "none"
    BY <1>4, ArriveRequest, VerdictType DEF PhaseOf, InFlight
  <2> QED BY <1>4, <2>2, ArriveRequest DEF Progress
<1>5. CASE Restart
  <2>1. \A r \in Request :
          /\ req'[r].phase \notin InFlight
          /\ req[r].phase # "unsent" => req'[r].phase # "unsent"
    <3> SUFFICES ASSUME NEW r \in Request
                 PROVE  /\ req'[r].phase \notin InFlight
                        /\ req[r].phase # "unsent" => req'[r].phase # "unsent"
      OBVIOUS
    <3>1. CASE req[r].phase \in InFlight
      <4>1. req[r] \in Sent
        BY <3>1, SentType DEF InFlight
      <4>2. req'[r] = [req[r] EXCEPT !.phase = "lost", !.ended = now]
        BY <1>5, <3>1 DEF Restart
      <4>3. req'[r].phase = "lost"
        BY <4>1, <4>2 DEF Sent
      <4> QED BY <4>3 DEF InFlight
    <3>2. CASE req[r].phase \notin InFlight
      BY <1>5, <3>2 DEF Restart
    <3> QED BY <3>1, <3>2
  <2>2. script' = script
    BY <1>5 DEF Restart
  <2>3. ASSUME NEW r \in Request
        PROVE  /\ script'[r] # "none" => req'[r].phase # "unsent"
               /\ req'[r].phase \in InFlight => script'[r] # "none"
               /\ req'[r].phase = "recording" => script'[r] = "accepted"
    <3>1. script[r] # "none" => req[r].phase # "unsent"
      BY DEF Progress
    <3>2. script'[r] = script[r]
      BY <2>2
    <3>3. req'[r].phase # "recording"
      BY <2>1 DEF InFlight
    <3> QED BY <2>1, <3>1, <3>2, <3>3
  <2> QED BY <2>3 DEF Progress
<1>6. ASSUME NEW r \in Request, Accept(r) PROVE Progress'
  BY <1>6 DEF Accept, Progress, TypeOK
<1>7. CASE Tick \/ UNCHANGED vars
  BY <1>7 DEF Tick, vars, Progress
<1>8. ASSUME NEW r \in Request,
             SubmittedShell(r) \/ Failed(r) \/ Recorded(r) \/ RecordRaised(r)
      PROVE  Progress'
  BY <1>8, <1>2 DEF SubmittedShell, Failed, Recorded, RecordRaised, InFlight
<1> QED BY <1>3, <1>4, <1>5, <1>6, <1>7, <1>8 DEF Next

-----------------------------------------------------------------------------
(* The jobs that answers name.                                             *)

RealJob(j, k, b) == script[j] = "accepted" /\ req[j].key = k /\ req[j].body = b

LEMMA AnswersByRealJob ==
    AnswersAreReal <=>
        /\ \A k \in Key : items[k].state = "done" => RealJob(items[k].job, k, items[k].body)
        /\ \A r \in Request : req[r].phase \in {"ok", "hit"} =>
              req[r].job \in Job /\ RealJob(req[r].job, req[r].key, req[r].body)
BY DEF AnswersAreReal, RealJob

\* A request keeps its key and body, an answer is final, a job stays accepted.
LEMMA StepKeeps ==
    ASSUME TypeOK, Progress, [Next]_vars
    PROVE  /\ \A q \in Request : req[q].phase # "unsent" =>
                 req'[q].key = req[q].key /\ req'[q].body = req[q].body
           /\ \A q \in Request : req[q].phase \notin InFlight \cup {"unsent"} => req'[q] = req[q]
           /\ \A q \in Request : script[q] = "accepted" => script'[q] = "accepted"
<1> DEFINE Keeps ==
      /\ \A q \in Request : req[q].phase # "unsent" =>
            req'[q].key = req[q].key /\ req'[q].body = req[q].body
      /\ \A q \in Request : req[q].phase \notin InFlight \cup {"unsent"} => req'[q] = req[q]
      /\ \A q \in Request : script[q] = "accepted" => script'[q] = "accepted"
<1>1. ASSUME NEW r \in Request, Moves(r), UNCHANGED script PROVE Keeps
  BY <1>1 DEF Moves
<1>2. ASSUME NEW r \in Request, NEW k \in Key, NEW b \in Body, Arrive(r, k, b) PROVE Keeps
  <2>1. req[r].phase = "unsent" /\ script[r] # "accepted"
    BY <1>2, ArriveRequest DEF Progress, Unsent
  <2> QED BY <1>2, <2>1, ArriveRequest
<1>3. CASE Restart
  <2>1. script' = script
    BY <1>3 DEF Restart
  <2>2. ASSUME NEW q \in Request
        PROVE  /\ req[q].phase # "unsent" => req'[q].key = req[q].key /\ req'[q].body = req[q].body
               /\ req[q].phase \notin InFlight \cup {"unsent"} => req'[q] = req[q]
    <3>1. CASE req[q].phase \in InFlight
      <4>1. req[q] \in Sent
        BY <3>1, SentType DEF InFlight
      <4>2. req'[q] = [req[q] EXCEPT !.phase = "lost", !.ended = now]
        BY <1>3, <3>1 DEF Restart
      <4> QED BY <3>1, <4>1, <4>2 DEF Sent
    <3>2. CASE req[q].phase \notin InFlight
      BY <1>3, <3>2 DEF Restart
    <3> QED BY <3>1, <3>2
  <2> QED BY <2>1, <2>2
<1>4. ASSUME NEW r \in Request, Accept(r) PROVE Keeps
  BY <1>4 DEF Accept, TypeOK
<1>5. CASE Tick \/ UNCHANGED vars
  BY <1>5 DEF Tick, vars
<1>6. ASSUME NEW r \in Request, SubmittedBatch(r) PROVE Keeps
  <2>1. req[r].phase \in InFlight /\ UNCHANGED script
    BY <1>6 DEF SubmittedBatch, InFlight
  <2>2. Moves(r)
    BY <1>6, <2>1, ReplyMoves
  <2> QED BY <1>1, <2>1, <2>2
<1>7. ASSUME NEW r \in Request,
             SubmittedShell(r) \/ Failed(r) \/ Recorded(r) \/ RecordRaised(r)
      PROVE  Keeps
  <2>1. req[r].phase \in InFlight /\ UNCHANGED script /\ (ReplyOk(r) \/ ReplyError(r))
    BY <1>7 DEF SubmittedShell, Failed, Recorded, RecordRaised, InFlight
  <2>2. Moves(r)
    BY <2>1, ReplyMoves
  <2> QED BY <1>1, <2>1, <2>2
<1> QED BY <1>2, <1>3, <1>4, <1>5, <1>6, <1>7 DEF Next

\* A stored answer is either an older one or that of a request that ends now
\* with a job of its own.
LEMMA DoneFrom ==
    ASSUME TypeOK, NEW r \in Request, req[r].phase \in InFlight,
           ReplyOk(r) \/ ReplyError(r) \/ SubmittedBatch(r),
           NEW k \in Key, items'[k].state = "done"
    PROVE  \/ items'[k] = items[k]
           \/ /\ ReplyOk(r) /\ k = req[r].key
              /\ items[k].state = "locked"
              /\ items'[k].job = r /\ items'[k].body = req[r].body
<1>1. req[r] \in Sent /\ r \in Job
  BY SentType, RequestAssumption DEF InFlight
<1>2. CASE ReplyOk(r)
  <2>1. StoreResult(req[r].key, req[r].body, r)
    BY <1>2, ReplyMoves
  <2> QED BY <1>1, <1>2, <2>1 DEF StoreResult, TypeOK, StoreTypeOK, Sent
<1>3. CASE ReplyError(r)
  <2>1. DeleteLock(req[r].key)
    BY <1>3, ReplyMoves
  <2> QED BY <1>1, <2>1, LockOf DEF Free
<1>4. CASE SubmittedBatch(r)
  BY <1>4, ReplyMoves
<1> QED BY <1>2, <1>3, <1>4

\* A request in flight that has an accepted script ends with a real job.
LEMMA MoveKeepsReal ==
    ASSUME IInv, [Next]_vars, NEW r \in Request, req[r].phase \in InFlight,
           ReplyOk(r) \/ ReplyError(r) \/ SubmittedBatch(r),
           ReplyOk(r) => script[r] = "accepted"
    PROVE  AnswersAreReal'
<1>1. TypeOK /\ Progress /\ req[r] \in Sent /\ req[r].phase # "unsent"
  BY SentType DEF IInv, InFlight
<1>2. Moves(r)
  BY <1>1, ReplyMoves
<1>3. ASSUME ReplyOk(r) PROVE RealJob(r, req[r].key, req[r].body)'
  BY <1>1, <1>2, <1>3, StepKeeps DEF RealJob, Moves
<1>4. ASSUME NEW k \in Key, items'[k].state = "done"
      PROVE  RealJob(items[k].job, k, items[k].body)'
  <2>1. CASE items'[k] = items[k]
    <3>1. items[k].state = "done" /\ items[k].job \in Request
      BY <1>1, <1>4, <2>1, FreeOrItem, RequestAssumption DEF Answer
    <3>2. RealJob(items[k].job, k, items[k].body)
      BY <3>1, AnswersByRealJob DEF IInv
    <3> QED BY <2>1, <3>2, <1>1, <3>1, StepKeeps DEF RealJob, Progress
  <2>2. CASE items'[k] # items[k]
    <3>1. /\ ReplyOk(r) /\ k = req[r].key
          /\ items'[k].job = r /\ items'[k].body = req[r].body
      BY <1>1, <1>4, <2>2, DoneFrom
    <3> QED BY <1>2, <1>3, <3>1 DEF RealJob, Moves
  <2> QED BY <2>1, <2>2
<1>5. ASSUME NEW q \in Request, req'[q].phase \in {"ok", "hit"}
      PROVE  req'[q].job \in Job /\ RealJob(req[q].job, req[q].key, req[q].body)'
  <2>1. CASE q = r
    <3>1. ReplyOk(r) /\ req'[r].job = r
      BY <1>1, <1>2, <1>5, <2>1, ReplyMoves DEF Moves
    <3> QED BY <1>2, <1>3, <2>1, <3>1, RequestAssumption DEF RealJob, Moves
  <2>2. CASE q # r
    <3>1. req'[q] = req[q]
      BY <1>2, <2>2 DEF Moves
    <3>2. req[q].job \in Request /\ RealJob(req[q].job, req[q].key, req[q].body)
      BY <1>5, <3>1, AnswersByRealJob, RequestAssumption DEF IInv
    <3> QED BY <1>1, <3>1, <3>2, StepKeeps, RequestAssumption DEF RealJob, Progress
  <2> QED BY <2>1, <2>2
<1> QED BY <1>4, <1>5 DEF AnswersAreReal, RealJob

LEMMA StepReal == IInv /\ [Next]_vars => AnswersAreReal'
<1> SUFFICES ASSUME IInv, [Next]_vars PROVE AnswersAreReal'
  OBVIOUS
<1>1. TypeOK /\ Progress
  BY DEF IInv
<1>2. ASSUME NEW k \in Key, items'[k].state = "done", items'[k] = items[k]
      PROVE  RealJob(items[k].job, k, items[k].body)'
  <2>1. items[k].state = "done" /\ items[k].job \in Request
    BY <1>1, <1>2, FreeOrItem, RequestAssumption DEF Answer
  <2>2. RealJob(items[k].job, k, items[k].body)
    BY <2>1, AnswersByRealJob DEF IInv
  <2> QED BY <1>1, <1>2, <2>1, <2>2, StepKeeps DEF RealJob, Progress
<1>3. ASSUME NEW q \in Request, req[q].phase \in {"ok", "hit"}, req'[q] = req[q]
      PROVE  req'[q].job \in Job /\ RealJob(req[q].job, req[q].key, req[q].body)'
  <2>1. req[q].job \in Request /\ RealJob(req[q].job, req[q].key, req[q].body)
    BY <1>3, AnswersByRealJob, RequestAssumption DEF IInv
  <2> QED BY <1>1, <1>3, <2>1, StepKeeps, RequestAssumption DEF RealJob, Progress
<1>4. ASSUME NEW r \in Request, NEW k \in Key, NEW b \in Body, Arrive(r, k, b)
      PROVE  AnswersAreReal'
  <2>1. ASSUME NEW l \in Key, items'[l].state = "done" PROVE items'[l] = items[l]
    <3>1. items'[l] = Swept[l]
      BY <1>1, <1>4, <2>1, SweptType DEF Arrive, CheckAndLock
    <3> QED BY <2>1, <3>1 DEF Swept, Free
  <2>2. ASSUME NEW q \in Request, req'[q].phase \in {"ok", "hit"}
        PROVE  req'[q].job \in Job /\ RealJob(req[q].job, req[q].key, req[q].body)'
    <3>1. CASE q # r
      BY <1>1, <1>3, <1>4, <2>2, <3>1, ArriveRequest
    <3>2. CASE q = r
      <4>1. Verdict(k, b) = "hit"
        BY <1>1, <1>4, <2>2, <3>2, ArriveRequest, VerdictType DEF PhaseOf
      <4>2. Swept[k].state = "done" /\ Swept[k].body = b
        BY <1>1, <4>1, VerdictType
      <4>3. items[k] = Swept[k]
        BY <4>2 DEF Swept, Free
      <4>4. items[k].job \in Request /\ RealJob(items[k].job, k, b)
        BY <1>1, <4>2, <4>3, FreeOrItem, AnswersByRealJob, RequestAssumption DEF IInv, Answer
      <4>5. req'[r].job = items[k].job /\ req'[r].key = k /\ req'[r].body = b
        BY <1>1, <1>4, <4>1, ArriveRequest
      <4>6. RealJob(items[k].job, k, b) => /\ script'[items[k].job] = "accepted"
                                           /\ req'[items[k].job].key = k
                                           /\ req'[items[k].job].body = b
        BY <1>1, <4>4, StepKeeps DEF RealJob, Progress
      <4> QED BY <3>2, <4>4, <4>5, <4>6, RequestAssumption DEF RealJob
    <3> QED BY <3>1, <3>2
  <2> QED BY <1>2, <2>1, <2>2 DEF AnswersAreReal, RealJob
<1>5. CASE Restart
  <2>1. ASSUME NEW k \in Key PROVE items'[k].state # "done"
    BY <1>5 DEF Restart, Close, Free
  <2>2. ASSUME NEW q \in Request, req'[q].phase \in {"ok", "hit"}
        PROVE  req'[q].job \in Job /\ RealJob(req[q].job, req[q].key, req[q].body)'
    <3>1. CASE req[q].phase \in InFlight
      <4>1. req[q] \in Sent
        BY <1>1, <3>1, SentType DEF InFlight
      <4>2. req'[q] = [req[q] EXCEPT !.phase = "lost", !.ended = now]
        BY <1>5, <3>1 DEF Restart
      <4>3. req'[q].phase = "lost"
        BY <4>1, <4>2 DEF Sent
      <4> QED BY <2>2, <4>3
    <3>2. CASE req[q].phase \notin InFlight
      <4>1. req'[q] = req[q]
        BY <1>5, <3>2 DEF Restart
      <4> QED BY <1>3, <2>2, <4>1
    <3> QED BY <3>1, <3>2
  <2> QED BY <2>1, <2>2 DEF AnswersAreReal, RealJob
<1>6. ASSUME UNCHANGED <<items, req>> PROVE AnswersAreReal'
  BY <1>2, <1>3, <1>6 DEF AnswersAreReal, RealJob
<1>7. ASSUME NEW r \in Request,
             \/ SubmittedShell(r) \/ SubmittedBatch(r) \/ Failed(r)
             \/ Recorded(r) \/ RecordRaised(r)
      PROVE  AnswersAreReal'
  <2>1. /\ req[r].phase \in InFlight
        /\ ReplyOk(r) \/ ReplyError(r) \/ SubmittedBatch(r)
    BY <1>7 DEF SubmittedShell, SubmittedBatch, Failed, Recorded, RecordRaised, InFlight
  <2>2. ASSUME ReplyOk(r) PROVE script[r] = "accepted"
    <3>1. ~ ReplyError(r) /\ ~ SubmittedBatch(r)
      BY <1>1, <2>1, <2>2, ReplyMoves
    <3>2. SubmittedShell(r) \/ Recorded(r)
      BY <1>7, <3>1 DEF Failed, RecordRaised
    <3> QED BY <1>1, <3>2 DEF SubmittedShell, Recorded, Progress
  <2> QED BY <2>1, <2>2, MoveKeepsReal
<1> QED BY <1>4, <1>5, <1>6, <1>7 DEF Next, Accept, Tick, vars

LEMMA IInvAlways == Spec => []IInv
<1>1. Init => IInv
  BY BoundAssumption DEF Init, StoreInit, IInv, TypeOK, StoreTypeOK, Progress, LockHasHolder,
     AnswersAreReal, Unsent, Free, InFlight
<1>2. IInv /\ [Next]_vars => IInv'
  BY StepType, StepProgress, StepHolders, StepReal DEF IInv
<1> QED BY <1>1, <1>2, PTL DEF Spec

\* No lock is left behind without a request that will release it: idempotency.py
\* knows no owner, and every way a submission ends releases the lock it finds.
THEOREM LockHasHolderAlways == Spec => []LockHasHolder
<1>1. IInv => LockHasHolder
  BY DEF IInv
<1> QED BY <1>1, IInvAlways, PTL

\* Every job a client is given was accepted for its key and body, for any number
\* of overlapping requests and any time limits: the body hash that store_result
\* compares is what this rests on.
THEOREM AnswersAreRealAlways == Spec => []AnswersAreReal
<1>1. IInv => AnswersAreReal
  BY DEF IInv
<1> QED BY <1>1, IInvAlways, PTL

\* A stored answer is replayed until it expires or the endpoint restarts; no
\* request that outlived its lock can replace or delete it.
THEOREM ResultIsFinalAlways == Spec => ResultIsFinal
<1> DEFINE Keep == \A k \in Key : items[k].state = "done" =>
          \/ items'[k] = items[k]
          \/ items[k].expires < now
          \/ restarts' # restarts
<1>1. TypeOK /\ [Next]_vars => Keep \/ UNCHANGED vars
  <2> SUFFICES ASSUME TypeOK, [Next]_vars, NEW k \in Key, items[k].state = "done"
               PROVE  \/ items'[k] = items[k]
                      \/ items[k].expires < now
                      \/ restarts' # restarts
    OBVIOUS
  <2>1. ASSUME NEW r \in Request, NEW l \in Key, NEW b \in Body, Arrive(r, l, b)
        PROVE  items'[k] = items[k] \/ items[k].expires < now
    <3>1. CASE Lapsed(k)
      BY <3>1 DEF Lapsed
    <3>2. CASE ~ Lapsed(k)
      <4>1. Swept[k] = items[k]
        BY <3>2 DEF Swept
      <4>2. k = l => Verdict(l, b) # "proceed"
        BY <4>1, VerdictType
      <4> QED BY <2>1, <4>1, <4>2, SweptType DEF Arrive, CheckAndLock
    <3> QED BY <3>1, <3>2
  <2>2. ASSUME Restart PROVE restarts' # restarts
    <3>1. restarts' = restarts + 1 /\ restarts \in Nat
      BY <2>2 DEF Restart, TypeOK
    <3> QED BY <3>1
  <2>3. ASSUME NEW r \in Request, ReplyOk(r) \/ ReplyError(r) PROVE items'[k] = items[k]
    BY <2>3 DEF ReplyOk, ReplyError, StoreResult, DeleteLock, TypeOK, StoreTypeOK
  <2>4. ASSUME NEW r \in Request,
               SubmittedShell(r) \/ Failed(r) \/ Recorded(r) \/ RecordRaised(r)
        PROVE  items'[k] = items[k]
    BY <2>3, <2>4 DEF SubmittedShell, Failed, Recorded, RecordRaised
  <2> QED BY <2>1, <2>2, <2>4 DEF Next, SubmittedBatch, Accept, Tick, vars
<1> QED BY <1>1, TypeCorrect, PTL DEF Spec, ResultIsFinal

-----------------------------------------------------------------------------
(* One job per key.  As long as nothing has parted the key from its job,   *)
(* at most one request of the key is in flight or has succeeded, and the   *)
(* store holds its lock or its answer, which is not due to expire.         *)

Succeeding(k) == {r \in Proceeded(k) : req[r].phase \in InFlight \cup {"ok"}}

Parted(k) == \E q \in Proceeded(k) : Outlived(q) \/ Disowned(q) \/ Forgotten(q)

Bound(k) ==
    /\ \A r, s \in Succeeding(k) : r = s
    /\ \A r \in Succeeding(k) :
          /\ items[k].body = req[r].body
          /\ req[r].phase \in InFlight =>
                items[k].state = "locked" /\ items[k].expires = req[r].start + LockTTL
          /\ req[r].phase = "ok" =>
                items[k].state = "done" /\ items[k].expires = req[r].ended + ResultTTL

Ends ==
    \A r \in Request : script[r] # "none" =>
        /\ req[r].phase \in InFlight \cup {"ok", "error", "lost"}
        /\ req[r].phase = "lost" => restarts > 0

KeyInv == \A k \in Key : restarts > 0 \/ Parted(k) \/ Bound(k)

\* How one step changes one request, in the terms that the argument is about.
LEMMA StepShape ==
    ASSUME TypeOK, Progress, Ends, [Next]_vars, ~ Restart, NEW q \in Request, script[q] # "none"
    PROVE  /\ req'[q].key = req[q].key /\ req'[q].body = req[q].body
           /\ req'[q].start = req[q].start
           /\ script'[q] \in {script[q], "accepted"}
           /\ req[q].phase \notin InFlight => req'[q] = req[q]
           /\ req'[q].phase \in InFlight => req[q].phase \in InFlight
           /\ req[q].phase \in InFlight =>
                 /\ req'[q].phase \in InFlight \cup {"ok", "error"}
                 /\ req'[q].phase \notin InFlight => req'[q].ended = now /\ now' = now
           /\ now' >= now
           /\ restarts' = restarts
<1> DEFINE Goal ==
           /\ req'[q].key = req[q].key /\ req'[q].body = req[q].body
           /\ req'[q].start = req[q].start
           /\ script'[q] \in {script[q], "accepted"}
           /\ req[q].phase \notin InFlight => req'[q] = req[q]
           /\ req'[q].phase \in InFlight => req[q].phase \in InFlight
           /\ req[q].phase \in InFlight =>
                 /\ req'[q].phase \in InFlight \cup {"ok", "error"}
                 /\ req'[q].phase \notin InFlight => req'[q].ended = now /\ now' = now
           /\ now' >= now
           /\ restarts' = restarts
<1>1. req[q].phase # "unsent" /\ req[q] \in Sent /\ now \in Nat
  BY SentType DEF Progress, TypeOK, StoreTypeOK
<1>2. ASSUME NEW r \in Request, NEW k \in Key, NEW b \in Body, Arrive(r, k, b) PROVE Goal
  <2>1. r # q
    BY <1>1, <1>2, ArriveRequest DEF Unsent
  <2>2. req'[q] = req[q] /\ script'[q] = script[q]
    BY <1>2, <2>1, ArriveRequest
  <2> QED BY <1>1, <1>2, <2>2 DEF Arrive
<1>3. ASSUME NEW r \in Request, req[r].phase \in InFlight, ReplyOk(r) \/ ReplyError(r),
             UNCHANGED <<now, script, restarts>>
      PROVE  Goal
  <2>1. CASE r # q
    <3>1. Moves(r)
      BY <1>3, ReplyMoves
    <3>2. req'[q] = req[q]
      BY <2>1, <3>1 DEF Moves
    <3> QED BY <1>1, <1>3, <3>2
  <2>2. CASE r = q
    <3>1. req'[q].ended = now
      BY <1>1, <1>3, <2>2 DEF ReplyOk, ReplyError, TypeOK, Sent
    <3>2. Moves(q) /\ req'[q].phase \in {"ok", "error"}
      BY <1>3, <2>2, ReplyMoves
    <3> QED BY <1>1, <1>3, <2>2, <3>1, <3>2 DEF Moves, InFlight
  <2> QED BY <2>1, <2>2
<1>4. ASSUME NEW r \in Request, SubmittedBatch(r) PROVE Goal
  <2>1. req[r].phase \in InFlight /\ UNCHANGED <<now, script, restarts>>
    BY <1>4 DEF SubmittedBatch, InFlight
  <2>2. Moves(r) /\ req'[r].phase \in InFlight
    BY <1>4, <2>1, ReplyMoves DEF InFlight
  <2>3. r # q => req'[q] = req[q]
    BY <2>2 DEF Moves
  <2> QED BY <1>1, <2>1, <2>2, <2>3 DEF Moves
<1>5. ASSUME NEW r \in Request, Accept(r) PROVE Goal
  BY <1>1, <1>5 DEF Accept, TypeOK
<1>6. CASE Tick \/ UNCHANGED vars
  BY <1>1, <1>6 DEF Tick, vars
<1>7. ASSUME NEW r \in Request,
             SubmittedShell(r) \/ Failed(r) \/ Recorded(r) \/ RecordRaised(r)
      PROVE  Goal
  BY <1>3, <1>7 DEF SubmittedShell, Failed, Recorded, RecordRaised, InFlight
<1> QED BY <1>2, <1>4, <1>5, <1>6, <1>7 DEF Next

\* What has parted a key from its job stays so.
LEMMA PartedStays ==
    ASSUME TypeOK, Progress, Ends, [Next]_vars, ~ Restart, NEW k \in Key, Parted(k)
    PROVE  Parted(k)'
<1>1. PICK q \in Request : /\ script[q] # "none" /\ req[q].key = k
                           /\ Outlived(q) \/ Disowned(q) \/ Forgotten(q)
  BY DEF Parted, Proceeded
<1>2. /\ req[q] \in Sent /\ now \in Nat /\ LockTTL \in Nat /\ ResultTTL \in Nat
      /\ req[q].start \in Nat /\ req[q].ended \in Nat
  BY <1>1, SentType, TTLAssumption DEF Progress, TypeOK, StoreTypeOK, Sent
<1>3. /\ req'[q].key = k /\ req'[q].start = req[q].start /\ script'[q] # "none"
      /\ script[q] = "accepted" => script'[q] = "accepted"
      /\ req[q].phase \notin InFlight => req'[q] = req[q]
      /\ req[q].phase \in InFlight /\ req'[q].phase \notin InFlight =>
            req'[q].ended = now
      /\ req'[q].phase \in InFlight => req[q].phase \in InFlight
      /\ now' >= now
  BY <1>1, StepShape
<1>4. now' \in Nat
  BY StepType DEF TypeOK, StoreTypeOK
<1>5. Outlived(q) => Outlived(q)'
  BY <1>2, <1>3, <1>4 DEF Outlived
<1>6. Disowned(q) => Disowned(q)'
  BY <1>3 DEF Disowned, InFlight
<1>7. Forgotten(q) => Forgotten(q)'
  BY <1>2, <1>3, <1>4 DEF Forgotten, InFlight
<1>8. Outlived(q)' \/ Disowned(q)' \/ Forgotten(q)'
  BY <1>1, <1>5, <1>6, <1>7
<1> QED BY <1>3, <1>8 DEF Parted, Proceeded

LEMMA StepEnds == TypeOK /\ Progress /\ Ends /\ [Next]_vars => Ends'
<1> SUFFICES ASSUME TypeOK, Progress, Ends, [Next]_vars, NEW r \in Request, script'[r] # "none"
             PROVE  /\ req'[r].phase \in InFlight \cup {"ok", "error", "lost"}
                    /\ req'[r].phase = "lost" => restarts' > 0
  BY DEF Ends
<1>1. CASE Restart
  <2>1. script[r] # "none" /\ restarts' = restarts + 1 /\ restarts \in Nat
    BY <1>1 DEF Restart, TypeOK
  <2>2. CASE req[r].phase \in InFlight
    <3>1. req[r] \in Sent
      BY <2>2, SentType DEF InFlight
    <3>2. req'[r] = [req[r] EXCEPT !.phase = "lost", !.ended = now]
      BY <1>1, <2>2 DEF Restart
    <3>3. req'[r].phase = "lost"
      BY <3>1, <3>2 DEF Sent
    <3> QED BY <2>1, <3>3
  <2>3. CASE req[r].phase \notin InFlight
    <3>1. req'[r] = req[r]
      BY <1>1, <2>3 DEF Restart
    <3> QED BY <2>1, <3>1 DEF Ends
  <2> QED BY <2>2, <2>3
<1>2. CASE script[r] # "none" /\ ~ Restart
  BY <1>2, StepShape DEF Ends, InFlight
<1>3. CASE script[r] = "none" /\ ~ Restart
  <2>1. ASSUME NEW q \in Request, NEW k \in Key, NEW b \in Body, Arrive(q, k, b)
        PROVE  req'[r].phase = "submitting"
    <3>1. q = r /\ Verdict(k, b) = "proceed"
      BY <1>3, <2>1, ArriveRequest
    <3> QED BY <2>1, <3>1, ArriveRequest DEF PhaseOf
  <2>2. \E q \in Request, k \in Key, b \in Body : Arrive(q, k, b)
    BY <1>3 DEF Next, SubmittedShell, SubmittedBatch, Failed, Recorded, RecordRaised,
                Accept, Tick, vars, TypeOK
  <2> QED BY <2>1, <2>2 DEF InFlight
<1> QED BY <1>1, <1>2, <1>3

\* The store does not drop the item of a key that nothing has parted.
LEMMA BoundItemStays ==
    ASSUME TypeOK, Ends, Progress, NEW k \in Key, ~ Parted(k), Bound(k), Succeeding(k) # {}
    PROVE  items[k].state # "free" /\ Swept[k] = items[k]
<1>1. PICK r \in Request : script[r] # "none" /\ req[r].key = k
                           /\ req[r].phase \in InFlight \cup {"ok"} /\ r \in Succeeding(k)
  BY DEF Succeeding, Proceeded
<1>2. /\ req[r] \in Sent /\ now \in Nat /\ LockTTL \in Nat /\ ResultTTL \in Nat
      /\ req[r].start \in Nat /\ req[r].ended \in Nat
  BY <1>1, SentType, TTLAssumption DEF Progress, TypeOK, StoreTypeOK, Sent
<1>3. ~ Outlived(r) /\ ~ Forgotten(r)
  BY <1>1 DEF Parted, Proceeded
<1>4. CASE req[r].phase \in InFlight
  <2>1. items[k].state = "locked" /\ items[k].expires = req[r].start + LockTTL
    BY <1>1, <1>4 DEF Bound
  <2> QED BY <1>2, <1>3, <1>4, <2>1 DEF Outlived, Swept, Lapsed
<1>5. CASE req[r].phase = "ok"
  <2>1. items[k].state = "done" /\ items[k].expires = req[r].ended + ResultTTL
    BY <1>1, <1>5 DEF Bound
  <2> QED BY <1>2, <1>3, <1>5, <2>1 DEF Forgotten, Swept, Lapsed
<1> QED BY <1>1, <1>4, <1>5

LEMMA KeepsBound ==
    ASSUME NEW k \in Key, Bound(k),
           Succeeding(k)' # {} => items'[k] = items[k],
           \A r \in Succeeding(k)' :
               /\ r \in Succeeding(k)
               /\ req'[r].body = req[r].body /\ req'[r].start = req[r].start
               /\ req'[r].phase \in InFlight => req[r].phase \in InFlight
               /\ req'[r].phase = "ok" => req[r].phase = "ok" /\ req'[r].ended = req[r].ended
    PROVE  Bound(k)'
<1>1. \A r, s \in Succeeding(k)' : r = s
  BY DEF Bound
<1>2. ASSUME NEW r \in Succeeding(k)'
      PROVE  /\ items'[k].body = req'[r].body
             /\ req'[r].phase \in InFlight =>
                   items'[k].state = "locked" /\ items'[k].expires = req'[r].start + LockTTL
             /\ req'[r].phase = "ok" =>
                   items'[k].state = "done" /\ items'[k].expires = req'[r].ended + ResultTTL
  <2>1. items'[k] = items[k] /\ r \in Succeeding(k)
    BY <1>2
  <2> QED BY <1>2, <2>1 DEF Bound
<1> QED BY <1>1, <1>2 DEF Bound, InFlight

\* The handler of r returns: the answer takes the place of the lock it holds.
LEMMA ReplyOkBound ==
    ASSUME TypeOK, Progress, Ends, NEW k \in Key, Bound(k), NEW r \in Request,
           req[r].phase \in InFlight, ReplyOk(r), UNCHANGED <<now, script, restarts>>
    PROVE  Bound(k)'
<1>1. /\ req[r] \in Sent /\ script[r] # "none" /\ Moves(r)
      /\ StoreResult(req[r].key, req[r].body, r)
      /\ req'[r].phase = "ok" /\ req'[r].ended = now
      /\ items \in [Key -> Lock \cup Answer \cup {Free}]
  <2>1. req[r] \in Sent
    BY SentType DEF InFlight
  <2>2. req'[r].ended = now
    BY <2>1 DEF ReplyOk, TypeOK, Sent
  <2> QED BY <2>1, <2>2, ReplyMoves DEF Progress, TypeOK, StoreTypeOK
<1>2. Succeeding(k)' = Succeeding(k)
  <2>1. \A q \in Request : script[q] # "none" =>
           /\ req'[q].key = req[q].key
           /\ req'[q].phase \in InFlight \cup {"ok"} <=> req[q].phase \in InFlight \cup {"ok"}
    BY <1>1 DEF Moves
  <2> QED BY <2>1 DEF Succeeding, Proceeded
<1>3. CASE req[r].key = k
  <2>1. r \in Succeeding(k)
    BY <1>1, <1>3 DEF Succeeding, Proceeded
  <2>2. items[k].state = "locked" /\ items[k].body = req[r].body
    BY <2>1 DEF Bound
  <2>3. items'[k] = [state |-> "done", body |-> req[r].body,
                     expires |-> now + ResultTTL, job |-> r]
    BY <1>1, <1>3, <2>2 DEF StoreResult
  <2>4. \A q \in Succeeding(k)' : q = r
    BY <1>2, <2>1 DEF Bound
  <2>5. /\ items'[k].body = req'[r].body /\ items'[k].state = "done"
        /\ items'[k].expires = req'[r].ended + ResultTTL
    BY <1>1, <2>3 DEF Moves
  <2> QED BY <1>1, <2>4, <2>5 DEF Bound, InFlight
<1>4. CASE req[r].key # k
  <2>1. items'[k] = items[k]
    BY <1>1, <1>4 DEF StoreResult
  <2>2. \A q \in Succeeding(k)' : q # r /\ q \in Request
    BY <1>2, <1>4 DEF Succeeding, Proceeded
  <2>3. \A q \in Succeeding(k)' : req'[q] = req[q]
    BY <1>1, <2>2 DEF Moves
  <2> QED BY <1>2, <2>1, <2>3, KeepsBound
<1> QED BY <1>3, <1>4

\* The handler of r raises: its lock goes, and r no longer counts.
LEMMA ReplyErrorBound ==
    ASSUME TypeOK, Progress, Ends, NEW k \in Key, Bound(k), NEW r \in Request,
           req[r].phase \in InFlight, ReplyError(r), UNCHANGED <<now, script, restarts>>
    PROVE  Bound(k)'
<1>1. /\ req[r] \in Sent /\ script[r] # "none" /\ Moves(r)
      /\ DeleteLock(req[r].key) /\ req'[r].phase = "error"
      /\ items \in [Key -> Lock \cup Answer \cup {Free}]
  <2>1. req[r] \in Sent
    BY SentType DEF InFlight
  <2> QED BY <2>1, ReplyMoves DEF Progress, TypeOK, StoreTypeOK
<1>2. \A q \in Succeeding(k)' : q \in Succeeding(k) /\ q # r /\ req'[q] = req[q]
  BY <1>1 DEF Succeeding, Proceeded, Moves, InFlight
<1>3. CASE req[r].key = k
  <2>1. r \in Succeeding(k)
    BY <1>1, <1>3 DEF Succeeding, Proceeded
  <2>2. Succeeding(k)' = {}
    BY <1>2, <2>1 DEF Bound
  <2> QED BY <2>2 DEF Bound
<1>4. CASE req[r].key # k
  <2>1. items'[k] = items[k]
    BY <1>1, <1>4 DEF DeleteLock
  <2> QED BY <1>2, <2>1, KeepsBound
<1> QED BY <1>3, <1>4

LEMMA ArriveBound ==
    ASSUME TypeOK, Progress, Ends, NEW k \in Key, ~ Parted(k), Bound(k),
           NEW r \in Request, NEW l \in Key, NEW b \in Body, Arrive(r, l, b)
    PROVE  Bound(k)'
<1>1. /\ script[r] = "none" /\ req'[r].key = l /\ req'[r].body = b /\ req'[r].start = now
      /\ req'[r].phase = PhaseOf(Verdict(l, b))
      /\ \A q \in Request \ {r} : req'[q] = req[q] /\ script'[q] = script[q]
      /\ script'[r] = IF Verdict(l, b) = "proceed" THEN "running" ELSE script[r]
  BY ArriveRequest DEF Progress, Unsent
<1>2. CASE l = k /\ Verdict(l, b) = "proceed"
  <2>1. Swept[k].state = "free"
    BY <1>2, VerdictType
  <2>2. Succeeding(k) = {}
    BY <2>1, BoundItemStays
  <2>3. \A q \in Succeeding(k)' : q = r
    BY <1>1, <2>2 DEF Succeeding, Proceeded
  <2>4. items'[k] = [state |-> "locked", body |-> b, expires |-> now + LockTTL, job |-> None]
    BY <1>2, SweptType DEF Arrive, CheckAndLock
  <2>5. req'[r].phase = "submitting"
    BY <1>1, <1>2 DEF PhaseOf
  <2>6. /\ items'[k].body = req'[r].body /\ items'[k].state = "locked"
        /\ items'[k].expires = req'[r].start + LockTTL
    BY <1>1, <2>4
  <2> QED BY <2>3, <2>5, <2>6 DEF Bound
<1>3. CASE ~ (l = k /\ Verdict(l, b) = "proceed")
  <2>1. items'[k] = Swept[k]
    BY <1>3, SweptType DEF Arrive, CheckAndLock
  <2>2. \A q \in Succeeding(k)' : q # r
    BY <1>1, <1>3 DEF Succeeding, Proceeded
  <2>3. \A q \in Succeeding(k)' : q \in Succeeding(k) /\ req'[q] = req[q]
    BY <1>1, <2>2 DEF Succeeding, Proceeded
  <2>4. Succeeding(k)' # {} => items'[k] = items[k]
    BY <2>1, <2>3, BoundItemStays
  <2> QED BY <2>3, <2>4, KeepsBound
<1> QED BY <1>2, <1>3

LEMMA StepBound ==
    ASSUME TypeOK, Progress, Ends, [Next]_vars, ~ Restart, NEW k \in Key, ~ Parted(k), Bound(k)
    PROVE  Bound(k)'
<1>1. ASSUME NEW r \in Request,
             SubmittedShell(r) \/ Failed(r) \/ Recorded(r) \/ RecordRaised(r)
      PROVE  Bound(k)'
  <2>1. /\ req[r].phase \in InFlight /\ UNCHANGED <<now, script, restarts>>
        /\ ReplyOk(r) \/ ReplyError(r)
    BY <1>1 DEF SubmittedShell, Failed, Recorded, RecordRaised, InFlight
  <2> QED BY <2>1, ReplyOkBound, ReplyErrorBound
<1>2. ASSUME UNCHANGED items,
             \A q \in Request : /\ script'[q] # "none" => script[q] # "none"
                                /\ req'[q].phase = "ok" => req'[q] = req[q]
      PROVE  Bound(k)'
  <2>1. \A q \in Succeeding(k)' :
          /\ q \in Succeeding(k)
          /\ req'[q].body = req[q].body /\ req'[q].start = req[q].start
          /\ req'[q].phase \in InFlight => req[q].phase \in InFlight
          /\ req'[q].phase = "ok" => req[q].phase = "ok" /\ req'[q].ended = req[q].ended
    BY <1>2, StepShape DEF Succeeding, Proceeded, InFlight
  <2> QED BY <1>2, <2>1, KeepsBound
<1>3. ASSUME NEW r \in Request, SubmittedBatch(r) PROVE Bound(k)'
  <2>1. req[r].phase \in InFlight /\ UNCHANGED script
    BY <1>3 DEF SubmittedBatch, InFlight
  <2>2. UNCHANGED items /\ Moves(r) /\ req'[r].phase = "recording"
    BY <1>3, <2>1, ReplyMoves
  <2> QED BY <1>2, <2>1, <2>2 DEF Moves
<1>4. ASSUME NEW r \in Request, Accept(r) PROVE Bound(k)'
  <2>1. UNCHANGED items /\ UNCHANGED req /\ \A q \in Request : script'[q] # "none" => script[q] # "none"
    BY <1>4 DEF Accept, TypeOK
  <2> QED BY <1>2, <2>1
<1>5. CASE Tick \/ UNCHANGED vars
  BY <1>2, <1>5 DEF Tick, vars
<1>6. ASSUME NEW r \in Request, NEW l \in Key, NEW b \in Body, Arrive(r, l, b) PROVE Bound(k)'
  BY <1>6, ArriveBound
<1> QED BY <1>1, <1>3, <1>4, <1>5, <1>6 DEF Next

\* A key gets a second job only after a request of it outlived its lock, an
\* accepted job was answered with an error, the answer had expired, or the
\* endpoint restarted: the store alone never lets two jobs through.
THEOREM DuplicatesExplainedAlways == Spec => []DuplicatesExplained
<1> DEFINE Inv == TypeOK /\ Progress /\ Ends /\ KeyInv
<1>1. Init => Inv
  BY BoundAssumption DEF Init, StoreInit, TypeOK, StoreTypeOK, Progress, Ends, KeyInv, Bound,
     Succeeding, Proceeded, Unsent, Free, InFlight
<1>2. Inv /\ [Next]_vars => Inv'
  <2> SUFFICES ASSUME Inv, [Next]_vars PROVE Inv'
    OBVIOUS
  <2>1. TypeOK' /\ Progress' /\ Ends'
    BY StepType, StepProgress, StepEnds
  <2>2. ASSUME NEW k \in Key, ~ (restarts' > 0), ~ Parted(k)' PROVE Bound(k)'
    <3>1. restarts \in Nat /\ (Restart => restarts' = restarts + 1)
      BY DEF Restart, TypeOK
    <3>2. ~ Restart
      BY <2>2, <3>1
    <3>3. restarts' = restarts
      BY <3>2 DEF Next, Arrive, SubmittedShell, SubmittedBatch, Failed, Recorded,
                  RecordRaised, Accept, Tick, vars
    <3>4. ~ Parted(k)
      BY <2>2, <3>2, PartedStays
    <3>5. Bound(k)
      BY <2>2, <3>3, <3>4 DEF KeyInv
    <3> QED BY <3>2, <3>4, <3>5, StepBound
  <2> QED BY <2>1, <2>2 DEF KeyInv
<1>3. Inv => DuplicatesExplained
  <2> SUFFICES ASSUME Inv, NEW k \in Key, NEW r \in Proceeded(k), NEW s \in Proceeded(k),
                      script[r] = "accepted", script[s] = "accepted",
                      ~ (restarts > 0), ~ Parted(k)
               PROVE  r = s
    BY DEF DuplicatesExplained, Parted
  <2>1. Bound(k)
    BY DEF KeyInv
  <2>2. ~ Disowned(r) /\ ~ Disowned(s)
    BY DEF Parted
  <2>3. r \in Succeeding(k) /\ s \in Succeeding(k)
    BY <2>2 DEF Succeeding, Proceeded, Ends, Disowned
  <2> QED BY <2>1, <2>3 DEF Bound
<1>4. Spec => []Inv
  <2> HIDE DEF Inv
  <2> QED BY <1>1, <1>2, PTL DEF Spec
<1> QED BY <1>3, <1>4, PTL
=============================================================================
