---------------------------- MODULE InventoryCache ----------------------------
(***************************************************************************)
(* Runtime.inventory of activate_iri/runtime.py: the published inventory,  *)
(* its rebuilding under a lock while requests wait, and what a rebuild     *)
(* updates on its way, the status ledger (inventory.py) and the upstream   *)
(* facilities (gateway.py).                                                *)
(*                                                                         *)
(* The builds are numbered, and data are told by the number of the build   *)
(* that fetched them.  An action is the code between two awaits of the     *)
(* request that holds the lock.                                            *)
(***************************************************************************)
EXTENDS Integers, Sequences

CONSTANTS
    Request,    \* calls of Runtime.inventory
    Upstream,   \* facilities of the gateway
    InvTTL,     \* cache_ttl_seconds of the inventory
    Grace,      \* before the next try after a failed build (30 s)
    GwTTL,      \* cache_ttl_seconds of the gateway
    MaxTime,
    None

ASSUME TimeAssumption == InvTTL \in Nat /\ Grace \in Nat /\ GwTTL \in Nat /\ MaxTime \in Nat
ASSUME NoneAssumption == None \notin Request /\ None \notin Int /\ None \notin [built : Int, made : Int, own : Nat, up : [Upstream -> Nat]]

VARIABLES
    clock,
    inv,        \* the published inventory
    request,    \* where each request is
    lock,       \* the request that rebuilds
    queue,      \* those that wait for the lock
    builds,     \* builds begun
    draft,      \* the inventory being built
    todo,       \* upstreams that the refresh has still to visit
    ledger,     \* the build whose statuses the ledger has
    gw,         \* what the gateway holds of each upstream
    failedAt,   \* when a build failed and the previous inventory was kept
    behind      \* whether a merge has failed since the inventory was published

caching == <<inv, lock, queue, builds>>
building == <<draft, todo, ledger, gw>>
vars == <<clock, caching, request, building, failedAt, behind>>

\* Own is 0 where the control plane could not be read and nothing was there to serve.
Draft == [own : Nat, made : Int]
Inventory == [built : Int, made : Int, own : Nat, up : [Upstream -> Nat]]
NoDraft == [own |-> 0, made |-> 0]

\* Nothing fetched yet; fetched_at is long past.
Unvisited == [resources |-> 0, incidents |-> 0, error |-> FALSE, malformed |-> FALSE, at |-> 0 - GwTTL]

Init ==
    /\ clock = 0
    /\ inv = None
    /\ request = [r \in Request |-> "new"]
    /\ lock = None /\ queue = <<>>
    /\ builds = 0
    /\ draft = NoDraft /\ todo = {}
    /\ ledger = 0
    /\ gw = [u \in Upstream |-> Unvisited]
    /\ failedAt = None /\ behind = FALSE

Tick == clock < MaxTime /\ clock' = clock + 1 /\ UNCHANGED <<caching, request, building, failedAt, behind>>

Fresh == inv # None /\ clock - inv.built < InvTTL

Goes(r, phase) == request' = [request EXCEPT ![r] = phase]

-----------------------------------------------------------------------------
(* Requests and the lock.                                                  *)

\* A cached inventory is returned at once.
ReadCached(r) ==
    /\ request[r] = "new" /\ Fresh
    /\ Goes(r, "served")
    /\ UNCHANGED <<clock, caching, building, failedAt, behind>>

Begin(r) ==
    /\ lock' = r
    /\ builds' = builds + 1
    /\ Goes(r, "fetching")
    /\ UNCHANGED <<clock, inv, building, failedAt, behind>>

TakeLock(r) ==
    /\ request[r] = "new" /\ ~Fresh
    /\ lock = None /\ queue = <<>>
    /\ Begin(r) /\ UNCHANGED queue

AwaitLock(r) ==
    /\ request[r] = "new" /\ ~Fresh
    /\ lock # None \/ queue # <<>>
    /\ queue' = Append(queue, r)
    /\ Goes(r, "waiting")
    /\ UNCHANGED <<clock, inv, lock, builds, building, failedAt, behind>>

\* Mutant: the request that gets the lock does not look at the cache again.
WakeToBuild ==
    /\ lock = None /\ queue # <<>>
    /\ queue' = Tail(queue)
    /\ Begin(Head(queue))

\* The first that waits gets the lock, and finds the cache filled or rebuilds.
Wake ==
    /\ lock = None /\ queue # <<>>
    /\ queue' = Tail(queue)
    /\ IF Fresh
       THEN Goes(Head(queue), "served") /\ UNCHANGED <<clock, inv, lock, builds, building, failedAt, behind>>
       ELSE Begin(Head(queue))

-----------------------------------------------------------------------------
(* The rebuild, by the request that holds the lock.                        *)

Leave(phase) == lock' = None /\ Goes(lock, phase)

\* InventoryBuilder.build up to the ledger's observations; alerts are next.
Observe ==
    /\ lock # None /\ request[lock] = "fetching"
    /\ ledger' = builds
    /\ draft' = [draft EXCEPT !.own = builds]
    /\ Goes(lock, "observed")
    /\ UNCHANGED <<clock, caching, todo, gw, failedAt, behind>>

\* Mutant: when they cannot be read, the build fails.
AssembleUncaught ==
    /\ lock # None /\ request[lock] = "observed"
    /\ IF inv = None
       THEN /\ draft' = [draft EXCEPT !.made = clock] /\ todo' = Upstream
            /\ Goes(lock, "refreshing")
            /\ UNCHANGED <<inv, lock>>
       ELSE /\ inv' = [inv EXCEPT !.built = clock - InvTTL + Grace]
            /\ Leave("served")
            /\ UNCHANGED <<draft, todo>>
    /\ UNCHANGED <<clock, queue, builds, ledger, gw, failedAt, behind>>

\* Alerts and settings were read, or could not be.
Assemble ==
    /\ lock # None /\ request[lock] = "observed"
    /\ draft' = [draft EXCEPT !.made = clock]
    /\ todo' = Upstream
    /\ Goes(lock, "refreshing")
    /\ UNCHANGED <<clock, caching, ledger, gw, failedAt, behind>>

\* Mutant: the previous inventory counts as rebuilt.
KeepPreviousAsNew ==
    /\ lock # None /\ request[lock] = "fetching" /\ inv # None
    /\ inv' = [inv EXCEPT !.built = clock]
    /\ failedAt' = clock
    /\ Leave("served")
    /\ UNCHANGED <<clock, queue, builds, building, behind>>

\* The control plane cannot be read: the previous inventory is served on for a
\* while,
KeepPrevious ==
    /\ lock # None /\ request[lock] = "fetching" /\ inv # None
    /\ inv' = [inv EXCEPT !.built = clock - InvTTL + Grace]
    /\ failedAt' = clock
    /\ Leave("served")
    /\ UNCHANGED <<clock, queue, builds, building, behind>>

\* or, without one, the upstreams alone are published.
StartEmpty ==
    /\ lock # None /\ request[lock] = "fetching" /\ inv = None
    /\ draft' = [own |-> 0, made |-> clock]
    /\ todo' = Upstream
    /\ Goes(lock, "refreshing")
    /\ UNCHANGED <<clock, caching, ledger, gw, failedAt, behind>>

Visit(u, data) ==
    /\ lock # None /\ request[lock] = "refreshing" /\ u \in todo
    /\ todo' = todo \ {u}
    /\ gw' = [gw EXCEPT ![u] = data]
    /\ UNCHANGED <<clock, caching, request, draft, ledger, failedAt, behind>>

Recent(u) == clock - gw[u].at < GwTTL

RefreshSkipped(u) == Recent(u) /\ Visit(u, gw[u])

\* Resources may be of a form that the merge does not expect.
RefreshOk(u, malformed) ==
    /\ ~Recent(u)
    /\ Visit(u, [resources |-> builds, incidents |-> builds, error |-> FALSE, malformed |-> malformed, at |-> clock])

\* One of the reads fails.
RefreshFails(u) ==
    /\ ~Recent(u)
    /\ Visit(u, [gw[u] EXCEPT !.error = TRUE, !.at = clock])

\* Mutant: the incidents are taken first, and the resources are not JSON.
RefreshTornSwapped(u, malformed) ==
    /\ ~Recent(u)
    /\ Visit(u, [gw[u] EXCEPT !.incidents = builds, !.error = TRUE, !.at = clock])

\* The incidents are not JSON: the resources have been replaced.
RefreshTorn(u, malformed) ==
    /\ ~Recent(u)
    /\ Visit(u, [gw[u] EXCEPT !.resources = builds, !.malformed = malformed, !.error = TRUE, !.at = clock])

\* All upstreams were visited.
Merged == lock # None /\ request[lock] = "refreshing" /\ todo = {}
Malformed == \E u \in Upstream : gw[u].malformed

\* Mutant: on a failed merge the lock is kept.
MergeFailsLocked ==
    /\ Merged /\ Malformed
    /\ behind' = TRUE
    /\ draft' = NoDraft
    /\ Goes(lock, "raised")
    /\ UNCHANGED <<clock, caching, todo, ledger, gw, failedAt>>

\* merge_into fails on malformed resources, and with it the request.
MergeFails ==
    /\ Merged /\ Malformed
    /\ behind' = TRUE
    /\ draft' = NoDraft
    /\ Leave("raised")
    /\ UNCHANGED <<clock, inv, queue, builds, todo, ledger, gw, failedAt>>

Publish ==
    /\ Merged /\ ~Malformed
    /\ inv' = [built |-> draft.made, made |-> draft.made, own |-> draft.own, up |-> [u \in Upstream |-> gw[u].resources]]
    /\ behind' = FALSE
    /\ draft' = NoDraft
    /\ Leave("served")
    /\ UNCHANGED <<clock, queue, builds, todo, ledger, gw, failedAt>>

-----------------------------------------------------------------------------
Build ==
    \/ Observe \/ Assemble \/ KeepPrevious \/ StartEmpty
    \/ \E u \in Upstream :
          \/ RefreshSkipped(u) \/ RefreshFails(u)
          \/ \E malformed \in BOOLEAN : RefreshOk(u, malformed) \/ RefreshTorn(u, malformed)
    \/ MergeFails \/ Publish

Next ==
    \/ Tick
    \/ \E r \in Request : ReadCached(r) \/ TakeLock(r) \/ AwaitLock(r)
    \/ Wake \/ Build

Spec == Init /\ [][Next]_vars

\* The event loop resumes the holder of the lock, whose reads all have time
\* limits, and wakes who waits for it.
Fairness == WF_vars(Wake) /\ WF_vars(Build)

FairSpec == Spec /\ Fairness

-----------------------------------------------------------------------------
(* Properties.                                                             *)

Held == [resources : Nat, incidents : Nat, error : BOOLEAN, malformed : BOOLEAN, at : Int]

TypeOK ==
    /\ clock \in 0 .. MaxTime
    /\ inv \in Inventory \cup {None}
    /\ request \in [Request -> {"new", "waiting", "fetching", "observed", "refreshing", "served", "raised"}]
    /\ lock \in Request \cup {None}
    /\ queue \in Seq(Request)
    /\ builds \in Nat
    /\ draft \in Draft
    /\ todo \subseteq Upstream
    /\ ledger \in 0 .. builds
    /\ gw \in [Upstream -> Held]
    /\ failedAt \in 0 .. MaxTime \cup {None}
    /\ behind \in BOOLEAN

\* Within the grace period of a build that failed.
InGrace == failedAt # None /\ clock - failedAt < Grace

\* What readers of /status see belongs together: when nobody rebuilds, the
\* statuses in the ledger are those of the published resources, or of any build
\* while upstreams alone are published.  A merge that failed has left the ledger
\* ahead; then a request is served from the cache only in the grace period of a
\* later build, which failed and kept the resources of before the merge.
LedgerInStep ==
    lock = None /\ inv # None => ledger = inv.own \/ inv.own = 0 \/ (behind /\ (Fresh => InGrace))

\* The incidents that readers see of an upstream, which are not part of the
\* published inventory, are never of a later read than its published resources:
\* none is about a resource that appeared since.  They may be of an earlier read,
\* when the last one was torn.  A merge that failed is the exception, as above.
IncidentsNotAhead ==
    lock = None /\ inv # None =>
        \A u \in Upstream : \/ gw[u].incidents <= inv.up[u] /\ inv.up[u] = gw[u].resources
                            \/ behind /\ (Fresh => InGrace)

\* An inventory is served from the cache beyond its time to live only within
\* the grace period of a build that failed.
StaleIsExcused ==
    Fresh => clock - inv.made < InvTTL \/ InGrace

\* Only an inventory that has expired is replaced: requests that waited while
\* another rebuilt do not rebuild again.
ReplacesExpired == [][inv' # inv => ~Fresh]_vars

\* Every request that asked for the inventory gets it or an error.
RequestsEnd == \A r \in Request : request[r] # "new" ~> request[r] \in {"served", "raised"}
=============================================================================
