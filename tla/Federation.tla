------------------------------ MODULE Federation ------------------------------
(***************************************************************************)
(* Facilities that publish each other: the gateway of each (gateway.py),   *)
(* which copies what its upstreams publish under names of its own and      *)
(* forwards what is asked of a copy, and the sweep of the topology page    *)
(* (iri-topology/aggregate.py) over all of them.                           *)
(*                                                                         *)
(* An upstream may be a gateway itself, so names may have several          *)
(* prefixes, and every list is as old as its last refresh.  Times to live  *)
(* and torn reads are in InventoryCache.                                   *)
(***************************************************************************)
EXTENDS Sequences, FiniteSets, Naturals

CONSTANTS
    Facility,
    Upstreams,  \* those a facility is a gateway to
    Systems,    \* the resources a facility may have
    SiteOf,     \* site of a facility's resource
    Swept,      \* the facilities of the topology page, in order
    Shows,      \* the names of a facility that the page shows: exclude_names, include_types
    Reported    \* statuses a facility may report

ASSUME UpstreamsAssumption == Upstreams \in [Facility -> SUBSET Facility]
ASSUME SweptOnce == Swept \in Seq(Facility) /\ \A m, n \in DOMAIN Swept : Swept[m] = Swept[n] => m = n

VARIABLES
    has,        \* the resources each facility has now
    cache,      \* what each gateway last read of each upstream
    requests,   \* for a resource, between two facilities; one at most
    position,   \* of the sweep
    nodes,      \* the systems of the topology
    sites       \* and its sites

\* An identifier is the sequence of its prefixes and the local name.  A facility
\* makes UUIDs for local names (inventory.py stable_id), which have no separator;
\* an operator names no upstream "urn...", which split_id would take as local.
Local(x) == <<x>>
Ns(f, id) == <<f>> \o id

-----------------------------------------------------------------------------
(* The gateway: merge_into, after the resources of its own.                *)

Unread == [sites |-> {}, resources |-> {}]

\* An upstream without sites gets one named after itself.
SitesOf(u, list) == IF list.sites = {} THEN {Local(u)} ELSE list.sites

\* Mutant: the upstream's name of the site, whether or not that site was read.
MergedSiteAsNamed(u, r, list) == Ns(u, r.site)

MergedSite(u, r, list) == Ns(u, IF r.site \in list.sites THEN r.site ELSE CHOOSE s \in SitesOf(u, list) : TRUE)

\* owner is the facility the resource belongs to.
Own(f) == {[id |-> Local(x), site |-> Local(SiteOf[f][x]), owner |-> f] : x \in has[f]}
OwnSites(f) == {Local(SiteOf[f][x]) : x \in Systems[f]}

Copies(u, list) == {[id |-> Ns(u, r.id), site |-> MergedSite(u, r, list), owner |-> r.owner] : r \in list.resources}

Published(f) ==
    [sites |-> OwnSites(f) \cup UNION {{Ns(u, s) : s \in SitesOf(u, cache[f][u])} : u \in Upstreams[f]},
     resources |-> Own(f) \cup UNION {Copies(u, cache[f][u]) : u \in Upstreams[f]}]

\* Mutant: everything up to the last separator is the facility.
SplitLast(id) == [prefix |-> SubSeq(id, 1, Len(id) - 1), rest |-> SubSeq(id, Len(id), Len(id))]

\* split_id: the first prefix, and the rest as the upstream names it.
Split(id) ==
    IF Len(id) = 1 THEN [prefix |-> <<>>, rest |-> id]
    ELSE [prefix |-> SubSeq(id, 1, 1), rest |-> Tail(id)]

\* The upstream that a name leads to.
NextHop(f, id) == {u \in Upstreams[f] : <<u>> = Split(id).prefix}

-----------------------------------------------------------------------------
(* The sweep.                                                              *)

\* Mutant: a copy is told by its second prefix.
ConsolidatedTwice(r) == Len(r.id) > 2

\* A name with a separator; the attribute iri_upstream_facility says the same.
Consolidated(r) == Len(r.id) > 1

\* Mutant: a site without systems is no exception.
RollUpVacuous(statuses) ==
    CASE statuses \subseteq {"DOWN"} -> "DOWN"
      [] statuses \cap {"DOWN", "DEGRADED"} # {} -> "DEGRADED"
      [] OTHER -> "UP"

RollUp(statuses) ==
    CASE statuses = {} -> "UNKNOWN"
      [] statuses = {"DOWN"} -> "DOWN"
      [] statuses # {"DOWN"} /\ statuses \cap {"DOWN", "DEGRADED"} # {} -> "DEGRADED"
      [] OTHER -> "UP"

topology == <<position, nodes, sites>>
fedVars == <<has, cache, requests, topology>>

FedInit ==
    /\ has = [f \in Facility |-> {}] /\ requests = {}
    /\ cache = [f \in Facility |-> [u \in Upstreams[f] |-> Unread]]
    /\ position = 1 /\ nodes = {} /\ sites = <<>>

\* A facility gets or loses a resource.
Change(f, x) ==
    /\ has' = [has EXCEPT ![f] = IF x \in @ THEN @ \ {x} ELSE @ \cup {x}]
    /\ UNCHANGED <<cache, requests, topology>>

\* Either list may be answered with an error and is then empty; an upstream
\* that does not answer changes nothing.
Refresh(f, u, sitesRead, resourcesRead) ==
    /\ cache' = [cache EXCEPT ![f][u] =
                   [sites |-> IF sitesRead THEN Published(u).sites ELSE {},
                    resources |-> IF resourcesRead THEN Published(u).resources ELSE {}]]
    /\ UNCHANGED <<has, requests, topology>>

\* A request and a sweep read the lists and change none, so neither can tell
\* whether the other is on its way: bound, they are not at once.
Sweeping == position # 1

\* A client asks a gateway for a copy; what a facility has itself it answers for.
Ask(f, r) ==
    /\ requests = {} /\ ~Sweeping /\ Len(r.id) > 1
    /\ requests' = {[at |-> f, id |-> r.id, owner |-> r.owner]}
    /\ UNCHANGED <<has, cache, topology>>

\* Looked up, then asked of the upstream under its own name for the resource.
Forward(q) ==
    /\ \E r \in Published(q.at).resources : r.id = q.id
    /\ \E u \in NextHop(q.at, q.id) : requests' = {[at |-> u, id |-> Split(q.id).rest, owner |-> q.owner]}
    /\ UNCHANGED <<has, cache, topology>>

\* Or an error: not found, no credential, no answer.
Answer(q) ==
    /\ requests' = requests \ {q}
    /\ UNCHANGED <<has, cache, topology>>

\* The sites of the facility itself, or one for all of it.
SweptSites(f, list) == LET own == {s \in list.sites : Len(s) = 1} IN IF own = {} THEN {Local(f)} ELSE own

Place(f, r, list) == <<f, IF r.site \in SweptSites(f, list) THEN r.site ELSE CHOOSE s \in SweptSites(f, list) : TRUE>>

\* What the page shows of a facility: what is its own, unless left out by its
\* name or type.
ShownOf(f, list) == {r \in list.resources : ~Consolidated(r) /\ r.id[Len(r.id)] \in Shows[f]}

Fetched(f, list, connected) ==
    LET own == ShownOf(f, list)
        here == {<<f, s>> : s \in SweptSites(f, list)} IN
    /\ \E status \in [own -> Reported] :
         LET new == {[via |-> f, id |-> r.id, owner |-> r.owner, site |-> Place(f, r, list), status |-> status[r]] : r \in own}
             At(s) == {n \in new : n.site = s} IN
         /\ nodes' = nodes \cup new
         /\ sites' = [s \in DOMAIN sites \cup here |->
                       IF s \in here THEN [systems |-> Cardinality(At(s)), connected |-> connected /\ At(s) # {}, status |-> "UNKNOWN"]
                       ELSE sites[s]]
    /\ position' = position + 1
    /\ UNCHANGED <<has, cache, requests>>

Fetch(sitesRead, resourcesRead) ==
    /\ position <= Len(Swept) /\ requests = {}
    /\ LET list == Published(Swept[position]) IN
       Fetched(Swept[position], [sites |-> IF sitesRead THEN list.sites ELSE {}, resources |-> IF resourcesRead THEN list.resources ELSE {}], TRUE)

FetchFails ==
    /\ position <= Len(Swept) /\ requests = {}
    /\ Fetched(Swept[position], Unread, FALSE)

\* The statuses of the sites; then the graph is written.
Write ==
    /\ position = Len(Swept) + 1
    /\ position' = position + 1
    /\ sites' = [s \in DOMAIN sites |-> [sites[s] EXCEPT !.status = RollUp({n.status : n \in {m \in nodes : m.site = s}})]]
    /\ UNCHANGED <<has, cache, requests, nodes>>

SweepAgain ==
    /\ position = Len(Swept) + 2
    /\ position' = 1 /\ nodes' = {} /\ sites' = <<>>
    /\ UNCHANGED <<has, cache, requests>>

FedNext ==
    \/ \E f \in Facility : \E x \in Systems[f] : Change(f, x)
    \/ \E f \in Facility : \E u \in Upstreams[f] : \E s, r \in BOOLEAN : Refresh(f, u, s, r)
    \/ \E f \in Facility : \E r \in Published(f).resources : Ask(f, r)
    \/ \E q \in requests : Forward(q) \/ Answer(q)
    \/ \E s, r \in BOOLEAN : Fetch(s, r)
    \/ FetchFails \/ Write \/ SweepAgain

FedSpec == FedInit /\ [][FedNext]_fedVars

-----------------------------------------------------------------------------
(* Properties.                                                             *)

\* However many gateways a name has passed, however old their lists are and
\* whatever changes on the way, a request that is forwarded no further is at the
\* facility that has, or had, the resource, under the name it has there.
RequestReachesOwner ==
    \A q \in requests : NextHop(q.at, q.id) = {} => q.at = q.owner /\ Len(q.id) = 1 /\ q.id[1] \in Systems[q.owner]

\* A copy stands at a site that is published with it, of the same upstream.
CopiesHaveSites ==
    \A f \in Facility : \A r \in Published(f).resources :
        r.site \in Published(f).sites /\ (Len(r.id) > 1 => Head(r.site) = Head(r.id) /\ Len(r.site) > 1)

\* "The consolidated copies of other facilities are skipped so nothing appears
\* twice": a system is in the topology at most once and under its own facility,
\* whatever gateways published of it between two fetches of one sweep.
ShownOnce ==
    /\ \A n \in nodes : n.via = n.owner
    /\ \A m, n \in nodes : m.owner = n.owner /\ m.id[Len(m.id)] = n.id[Len(n.id)] => m = n

\* A written topology counts every system at one of its sites, also when the
\* sites of its facility could not be read, and the status of a site follows what
\* is at it and nothing else: UNKNOWN is a site without systems, DOWN one where all
\* are, UP one where none is known to be DOWN or DEGRADED.  A site whose systems
\* are all UNKNOWN therefore is UP, which looks better than what is known of it.
SitesAgree ==
    position = Len(Swept) + 2 =>
        /\ \A n \in nodes : n.site \in DOMAIN sites
        /\ \A s \in DOMAIN sites :
             LET there == {n \in nodes : n.site = s}
                 Some(statuses) == \E n \in there : n.status \in statuses IN
             /\ sites[s].systems = Cardinality(there) /\ (sites[s].connected <=> there # {})
             /\ sites[s].status = "UNKNOWN" <=> there = {}
             /\ sites[s].status = "DOWN" <=> Some({"DOWN"}) /\ \A n \in there : n.status = "DOWN"
             /\ sites[s].status = "UP" <=> there # {} /\ ~Some({"DOWN", "DEGRADED"})
=============================================================================
