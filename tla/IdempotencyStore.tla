--------------------------- MODULE IdempotencyStore ---------------------------
(***************************************************************************)
(* The store behind Idempotency-Key (activate_iri/idempotency.py): a       *)
(* dictionary from cache key to a lock that a submission holds, or to the  *)
(* answer it ended with.  Every operation runs under one asyncio lock with *)
(* no await inside, so each is one step.  Locks are dropped by age alone:  *)
(* the store does not know who holds them.                                 *)
(***************************************************************************)
EXTENDS Naturals

CONSTANTS
    Key,        \* cache keys
    Body,       \* hashes of request bodies
    Job,        \* the jobs an answer can name
    None,       \* no job
    LockTTL,    \* lock_ttl: how long a lock is honoured
    ResultTTL   \* ttl: how long an answer is replayed

ASSUME TTLAssumption == LockTTL \in Nat /\ ResultTTL \in Nat
ASSUME NoJobAssumption == None \notin Job

VARIABLES
    items,      \* _items: cache key -> lock or answer
    now         \* the wall clock

Lock == [state : {"locked"}, body : Body, expires : Nat, job : {None}]
Answer == [state : {"done"}, body : Body, expires : Nat, job : Job]
Free == [state |-> "free"]

StoreTypeOK ==
    /\ items \in [Key -> Lock \cup Answer \cup {Free}]
    /\ now \in Nat

StoreInit ==
    /\ items = [k \in Key |-> Free]
    /\ now = 0

\* Mutant: an item expires as soon as its time is reached.
LapsedAtExpiry(k) == items[k].state # "free" /\ items[k].expires <= now

\* _expire drops, on every check, each key whose item has had its time.
Lapsed(k) == items[k].state # "free" /\ items[k].expires < now
Swept == [k \in Key |-> IF Lapsed(k) THEN Free ELSE items[k]]

\* check_and_lock: what the framework is told, and the lock it then holds.
Verdict(k, b) ==
    LET item == Swept[k] IN
    CASE item.state = "free" -> "proceed"
      [] item.state # "free" /\ item.body # b -> "fingerprint_mismatch"
      [] item.state = "locked" /\ item.body = b -> "conflict"
      [] item.state = "done" /\ item.body = b -> "hit"

CheckAndLock(k, b) ==
    items' = IF Verdict(k, b) = "proceed"
             THEN [Swept EXCEPT ![k] = [state |-> "locked", body |-> b,
                                        expires |-> now + LockTTL, job |-> None]]
             ELSE Swept

\* Mutant: an answer is stored whatever body the lock was taken for.
StoreAnyResult(k, b, j) ==
    items' = IF items[k].state = "locked"
             THEN [items EXCEPT ![k] = [state |-> "done", body |-> items[k].body,
                                        expires |-> now + ResultTTL, job |-> j]]
             ELSE items

\* store_result: the lock of this key and body, whoever took it, becomes the
\* answer; otherwise nothing is stored.
StoreResult(k, b, j) ==
    items' = IF items[k].state = "locked" /\ items[k].body = b
             THEN [items EXCEPT ![k] = [state |-> "done", body |-> b,
                                        expires |-> now + ResultTTL, job |-> j]]
             ELSE items

\* Mutant: the lock of a failed request stays until it expires.
KeepLock(k) == UNCHANGED items

\* delete_lock: the lock of this key, whoever took it, goes; an answer stays.
DeleteLock(k) ==
    items' = IF items[k].state = "locked" THEN [items EXCEPT ![k] = Free] ELSE items

\* The store lives in the process: a restart begins with an empty one.
Close == items' = [k \in Key |-> Free]
=============================================================================
