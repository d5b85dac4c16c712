---------------------------- MODULE InventoryBuild ----------------------------
(***************************************************************************)
(* One InventoryBuilder.build after another (activate_iri/inventory.py),   *)
(* await by await: the platform may answer each read differently, and some *)
(* reads may fail.  The build observes what it publishes in the status     *)
(* ledger, which is taken by its promise, IncidentLifecycle: planned       *)
(* incidents and the history of events are in StatusLedger.                *)
(*                                                                         *)
(* Runtime's lock makes builds follow each other; who asks for them and    *)
(* what is served when one fails is in InventoryCache.  Names, units and   *)
(* attributes are data layout and left out.  The platform gives clusters,  *)
(* and what is attached to them, an id and a name that are nobody else's:  *)
(* what a list leaves without an id would match the first cluster that has *)
(* none, None being equal to None, and is not modelled.                    *)
(***************************************************************************)
EXTENDS Naturals, Sequences

CONSTANTS
    Cluster, Managed, Cloud,    \* the clusters of the platform, by type
    Mountpoint, Partition, Gpu, \* what an agent reports; Gpu match the patterns
    Shared, Bucket, Provider,   \* lustre and nfs, buckets, AI services
    MaySay,                     \* item -> what the platform may say of it
    DetailStatus,               \* the words a detail may have for the status; "": none
    Selected,                   \* passes type, name and tag filters
    ExecutionClusters,          \* empty: all
    ElasticStatus,              \* of a cloud cluster that is off
    SiteOrder, Rules, Attribute, DefaultSite,
    None

\* Ids of different kinds are hashed from different things.
ASSUME KindsAssumption ==
    /\ Shared \cap Bucket = {} /\ Shared \cap Provider = {} /\ Bucket \cap Provider = {}
    /\ Mountpoint \cap Shared = {}

VARIABLES
    at,                     \* the read the build waits for
    listed,                 \* what the list said
    todo,                   \* the listed clusters not yet added
    resources,              \* published
    capabilityResource,     \* capability -> resource
    clustersByResource,     \* resource -> cluster, with its detail
    siteMembers,            \* resource_ids of each site
    status, outage          \* the ledger

draft == <<resources, capabilityResource, clustersByResource, siteMembers>>
ledger == <<status, outage>>
vars == <<at, listed, todo, draft, ledger>>

\* stable_id: no two of them are equal.
ClusterId(c) == <<"cluster", c>>
FilesystemId(c, m) == <<"filesystem", c, m>>
MountId(c, m) == <<"mount", c, m>>
ItemId(i) == <<"item", i>>
Resource ==
    {ClusterId(c) : c \in Cluster} \cup {ItemId(i) : i \in Shared \cup Bucket \cup Provider}
    \cup {FilesystemId(c, m) : c \in Cluster, m \in Mountpoint}
    \cup {MountId(c, m) : c \in Cluster, m \in Mountpoint \cup Shared}

Ledger == INSTANCE IncidentLifecycle

\* What the platform may say, by the kind of the item; of a bucket or a provider
\* what the build makes of it.
ASSUME SayingsAssumption ==
    /\ \A c \in Cluster : MaySay[c] \subseteq [status : STRING, updateFailed : BOOLEAN]
    /\ \A f \in Shared : MaySay[f] \subseteq [attached : SUBSET Cluster, provisioned : BOOLEAN, error : BOOLEAN]
    /\ \A i \in Bucket \cup Provider : MaySay[i] \subseteq Ledger!Status
ASSUME DetailAssumption == DetailStatus \subseteq STRING /\ "" \in DetailStatus
ASSUME ElasticAssumption == ElasticStatus \in Ledger!Status

-----------------------------------------------------------------------------
(* Sites.                                                                  *)

Site == {SiteOrder[n] : n \in DOMAIN SiteOrder}

\* site_for raises where the default is no site: then nothing is ever built.
ASSUME SitesAssumption == SiteOrder \in Seq(Site) /\ DefaultSite \in Site

\* The values of a rule are alternatives, the rules of a site are not; a site
\* without rules matches nothing.
Matches(site, item) ==
    LET given == {field \in DOMAIN Rules[site] : Rules[site][field] # {}} IN
    /\ given # {}
    /\ \A field \in given : Attribute[item][field] \cap Rules[site][field] # {}

SiteFor(item) ==
    LET matching == {n \in DOMAIN SiteOrder : Matches(SiteOrder[n], item)} IN
    IF matching = {} THEN DefaultSite
    ELSE SiteOrder[CHOOSE n \in matching : \A other \in matching : n <= other]

-----------------------------------------------------------------------------
(* What a cluster becomes.                                                 *)

ClusterStatus(c, said) ==
    CASE said.status = "failed" -> "down"
      [] said.status # "failed" /\ said.updateFailed -> "degraded"
      [] ~said.updateFailed /\ said.status \in {"active", "on"} -> "up"
      [] ~said.updateFailed /\ said.status \in {"provisioning", "resuming", "updating", "connecting"} -> "degraded"
      [] ~said.updateFailed /\ said.status \in {"stopping", "stopped", "deleted"} -> "down"
      [] ~said.updateFailed /\ said.status = "off" -> IF c \in Cloud THEN ElasticStatus ELSE "down"
      [] OTHER -> "unknown"

Capability == Cluster \X {"nodes", "CPU", "GPU"}

\* The detail of a managed cluster; NoDetail when it cannot be read.
Detail == [status : DetailStatus, updateFailed : BOOLEAN, partitions : SUBSET Partition, mounts : SUBSET Mountpoint]
NoDetail == [status |-> "", updateFailed |-> FALSE, partitions |-> {}, mounts |-> {}]

\* The detail fills in what the list leaves empty or false.
Merged(said, detail) ==
    [status |-> IF said.status = "" THEN detail.status ELSE said.status,
     updateFailed |-> said.updateFailed \/ detail.updateFailed]

Capabilities(c, partitions) ==
    IF partitions = {} THEN {<<c, "nodes">>}
    ELSE {<<c, "CPU">> : p \in partitions \ Gpu} \cup {<<c, "GPU">> : p \in partitions \cap Gpu}

EndpointsFor(c) == IF ExecutionClusters # {} /\ c \notin ExecutionClusters THEN {} ELSE {"compute", "filesystem"}

Plain(id, site, s) ==
    [id |-> id, site |-> site, status |-> s, endpoints |-> {}, capabilities |-> {}, hasMount |-> {}, mountedOn |-> {}]

\* Mutant: a cluster whose detail cannot be read is degraded.
ClusterResourceDegraded(c, detail) ==
    [Plain(ClusterId(c), SiteFor(c), IF c \in Managed /\ detail = NoDetail THEN "degraded" ELSE ClusterStatus(c, Merged(listed[c], detail)))
        EXCEPT !.endpoints = EndpointsFor(c), !.capabilities = Capabilities(c, detail.partitions)]

ClusterResource(c, detail) ==
    [Plain(ClusterId(c), SiteFor(c), ClusterStatus(c, Merged(listed[c], detail)))
        EXCEPT !.endpoints = EndpointsFor(c), !.capabilities = Capabilities(c, detail.partitions)]

NodeFilesystems(c, mounts) ==
    {[Plain(FilesystemId(c, m), SiteFor(c), "up") EXCEPT !.endpoints = {"filesystem"}, !.hasMount = {MountId(c, m)}] : m \in mounts}
    \cup {[Plain(MountId(c, m), SiteFor(c), "up") EXCEPT !.mountedOn = {ClusterId(c)}] : m \in mounts}

Added(published) == [s \in Site |-> siteMembers[s] \cup {r.id : r \in {q \in published : q.site = s}}]

-----------------------------------------------------------------------------
Empty ==
    /\ listed' = <<>> /\ todo' = {}
    /\ resources' = {} /\ capabilityResource' = <<>> /\ clustersByResource' = <<>>
    /\ siteMembers' = [s \in Site |-> {}]

Init ==
    /\ at = "idle" /\ listed = <<>> /\ todo = {}
    /\ resources = {} /\ capabilityResource = <<>> /\ clustersByResource = <<>>
    /\ siteMembers = [s \in Site |-> {}]
    /\ Ledger!Init

Begin ==
    /\ at \in {"idle", "built"}
    /\ at' = "clusters" /\ Empty
    /\ UNCHANGED ledger

\* clusters, lustre, nfs or buckets raise.
Fail ==
    /\ at \in {"clusters", "buckets"} \/ (at = "details" /\ todo = {})
    /\ at' = "idle" /\ Empty
    /\ UNCHANGED ledger

ListClusters(answer) ==
    /\ at = "clusters"
    /\ at' = "details"
    /\ listed' = [c \in DOMAIN answer \cap Selected |-> answer[c]]
    /\ todo' = DOMAIN listed'
    /\ UNCHANGED <<draft, ledger>>

AddCluster(c, detail) ==
    /\ at = "details"
    /\ todo' = todo \ {c}
    /\ LET cluster == ClusterResource(c, detail)
           filesystems == NodeFilesystems(c, detail.mounts) IN
       /\ resources' = resources \cup {cluster} \cup filesystems
       /\ siteMembers' = Added({cluster} \cup filesystems)
       /\ capabilityResource' = [cap \in DOMAIN capabilityResource \cup cluster.capabilities |->
                                   IF cap \in cluster.capabilities THEN cluster.id ELSE capabilityResource[cap]]
       /\ clustersByResource' = [r \in DOMAIN clustersByResource \cup {cluster.id} |->
                                   IF r = cluster.id THEN [name |-> c, detail |-> detail] ELSE clustersByResource[r]]
    /\ UNCHANGED <<at, listed, ledger>>

\* Mutant: every cluster the item is attached to, published or not.
AttachedAll(item) == item.attached

\* Only a cluster this build published can be the target of a mount; one with
\* the attachment's name has its id, too.
Attached(item) == {c \in item.attached : ClusterId(c) \in DOMAIN clustersByResource}

SharedMounts(f, item) ==
    {[Plain(MountId(c, f), SiteFor(f), IF item.provisioned THEN "up" ELSE "down") EXCEPT !.mountedOn = {ClusterId(c)}] :
        c \in Attached(item)}

SharedFilesystem(f, item) ==
    [Plain(ItemId(f), SiteFor(f), IF item.provisioned /\ ~item.error THEN "up" ELSE "down")
        EXCEPT !.hasMount = {m.id : m \in SharedMounts(f, item)}]

\* lustre and nfs are both read before the first item is added.  The mounts are
\* no members of the site they name.
ListStorage(items) ==
    /\ at = "details" /\ todo = {}
    /\ at' = "buckets"
    /\ LET filesystems == {SharedFilesystem(f, items[f]) : f \in DOMAIN items} IN
       /\ resources' = resources \cup filesystems \cup UNION {SharedMounts(f, items[f]) : f \in DOMAIN items}
       /\ siteMembers' = Added(filesystems)
    /\ UNCHANGED <<listed, todo, capabilityResource, clustersByResource, ledger>>

ListBuckets(items) ==
    /\ at = "buckets"
    /\ at' = "services"
    /\ LET buckets == {Plain(ItemId(b), SiteFor(b), items[b]) : b \in DOMAIN items} IN
       resources' = resources \cup buckets /\ siteMembers' = Added(buckets)
    /\ UNCHANGED <<listed, todo, capabilityResource, clustersByResource, ledger>>

Services(items) == {Plain(ItemId(p), DefaultSite, items[p]) : p \in DOMAIN items}

\* Mutant: a resource that is no longer published is taken to be up.
ObserveAll(published) ==
    LET Now(r) == IF \E q \in published : q.id = r THEN (CHOOSE q \in published : q.id = r).status ELSE "up" IN
    /\ status' = [r \in Resource |-> Now(r)]
    /\ outage' = [r \in Resource |-> Now(r) # "up" /\ (outage[r] \/ Ledger!StartsOutage(r, Now(r)))]

\* Mutant: services are added after the others were observed.
ObserveBeforeServices(published) ==
    LET seen == {q \in published : q \in resources}
        Now(r) == (CHOOSE q \in seen : q.id = r).status IN
    /\ status' = [r \in Resource |-> IF \E q \in seen : q.id = r THEN Now(r) ELSE status[r]]
    /\ outage' = [r \in Resource |->
                    IF \E q \in seen : q.id = r THEN Now(r) # "up" /\ (outage[r] \/ Ledger!StartsOutage(r, Now(r))) ELSE outage[r]]

\* Ledger!Report of each published resource.
Observe(published) ==
    LET Now(r) == (CHOOSE q \in published : q.id = r).status IN
    /\ status' = [r \in Resource |-> IF \E q \in published : q.id = r THEN Now(r) ELSE status[r]]
    /\ outage' = [r \in Resource |->
                    IF \E q \in published : q.id = r
                    THEN Now(r) # "up" /\ (outage[r] \/ Ledger!StartsOutage(r, Now(r)))
                    ELSE outage[r]]

\* A failed read gives no services; nothing is awaited from here to the last
\* observe.
ListServices(items) ==
    /\ at = "services"
    /\ at' = "alerts"
    /\ resources' = resources \cup Services(items)
    /\ siteMembers' = Added(Services(items))
    /\ Observe(resources')
    /\ UNCHANGED <<listed, todo, capabilityResource, clustersByResource>>

\* Alerts and settings; what they raise is caught.
Finish ==
    /\ at = "alerts"
    /\ at' = "built"
    /\ UNCHANGED <<listed, todo, draft, ledger>>

\* What a list of some of the items may say.
Listing(items) == UNION {{said \in [some -> UNION {MaySay[i] : i \in some}] : \A i \in some : said[i] \in MaySay[i]} : some \in SUBSET items}

Next ==
    \/ Begin \/ Fail \/ Finish
    \/ \E answer \in Listing(Cluster) : ListClusters(answer)
    \/ \E c \in todo : \E detail \in {NoDetail} \cup (IF c \in Managed THEN Detail ELSE {}) : AddCluster(c, detail)
    \/ \E items \in Listing(Shared) : ListStorage(items)
    \/ \E items \in Listing(Bucket) : ListBuckets(items)
    \/ \E items \in Listing(Provider) : ListServices(items)

Spec == Init /\ [][Next]_vars

-----------------------------------------------------------------------------
(* Readers of the built inventory.                                         *)

Published == {r.id : r \in resources}

MountedOn(id) == UNION {r.mountedOn : r \in {q \in resources : q.id = id}}

\* cluster_for: only mounted-on is followed.
ClusterFor(id) ==
    IF id \in DOMAIN clustersByResource THEN clustersByResource[id].name
    ELSE LET targets == MountedOn(id) \cap DOMAIN clustersByResource IN
         IF targets = {} THEN None ELSE clustersByResource[CHOOSE t \in targets : TRUE].name

-----------------------------------------------------------------------------
(* Properties.                                                             *)

Record ==
    [id : Resource, site : Site, status : Ledger!Status, endpoints : SUBSET {"compute", "filesystem"},
     capabilities : SUBSET Capability, hasMount : SUBSET Resource, mountedOn : SUBSET Resource]

TypeOK ==
    /\ at \in {"idle", "clusters", "details", "buckets", "services", "alerts", "built"}
    /\ DOMAIN listed \subseteq Cluster /\ \A c \in DOMAIN listed : listed[c] \in [status : STRING, updateFailed : BOOLEAN]
    /\ todo \subseteq DOMAIN listed
    /\ resources \subseteq Record
    /\ DOMAIN capabilityResource \subseteq Capability /\ \A cap \in DOMAIN capabilityResource : capabilityResource[cap] \in Resource
    /\ DOMAIN clustersByResource \subseteq Resource
    /\ \A r \in DOMAIN clustersByResource : clustersByResource[r] \in [name : Cluster, detail : Detail]
    /\ siteMembers \in [Site -> SUBSET Resource]
    /\ status \in [Resource -> Ledger!Status \cup {None}]
    /\ outage \in [Resource -> BOOLEAN]

IdsUnique == \A r, q \in resources : r.id = q.id => r = q

CapabilitiesResolve ==
    \A r \in resources : r.capabilities = {cap \in DOMAIN capabilityResource : capabilityResource[cap] = r.id}

\* Mounts of shared filesystems are the one kind their site does not list.
Member(r) == ~(r.id[1] = "mount" /\ r.id[3] \in Shared)
MembersResolve == \A s \in Site : siteMembers[s] = {r.id : r \in {q \in resources : q.site = s /\ Member(q)}}

MountsResolve ==
    /\ \A r \in resources : r.hasMount \subseteq Published
    /\ \A m \in resources : m.mountedOn # {} =>
         /\ \E f \in resources : m.id \in f.hasMount
         /\ m.mountedOn = {ClusterId(ClusterFor(m.id))} /\ ClusterFor(m.id) \in Selected

\* Whatever reads failed and whatever changed on the platform between two of
\* them, the ids in a built inventory lead somewhere, and to the same place from
\* both ends: capabilities, sites, filesystems and mounts, and the cluster that
\* operations on a mount run on.
ReferencesResolve ==
    at = "built" => IdsUnique /\ CapabilitiesResolve /\ MembersResolve /\ MountsResolve

\* What an inventory publishes is what the ledger has seen last of every resource
\* in it, and no incident is open on a resource it publishes as up.
StatusesAgree ==
    at = "built" => \A r \in resources : status[r.id] = r.status /\ (r.status = "up" => ~outage[r.id])

\* An incident ends only when a build publishes its resource as up: not because
\* the build failed, nor because the resource is no longer listed, attached or
\* reported by its agent.  It stays open for as long as that lasts.
OutageEndsWhenUp ==
    [][\A id \in Resource : outage[id] /\ ~outage'[id] => \E r \in resources' : r.id = id /\ r.status = "up"]_vars

\* A read that fails starts no incident, nor does one that leaves the status
\* empty: a cluster's needs a list or a detail that says so, and a filesystem
\* reported by an agent never has one.
FailuresStartNoOutage ==
    [][/\ \A c \in Cluster : ~outage[ClusterId(c)] /\ outage'[ClusterId(c)] =>
             \/ listed[c].status \notin {"active", "on", ""} \/ listed[c].updateFailed
             \/ LET detail == clustersByResource[ClusterId(c)].detail IN
                detail.status \notin {"active", "on", ""} \/ detail.updateFailed
       /\ \A c \in Cluster, m \in Mountpoint : ~outage'[FilesystemId(c, m)] /\ ~outage'[MountId(c, m)]]_vars

\* "storage mounts and filesystems resolve to the cluster they are mounted on":
\* what is published with a filesystem endpoint has a cluster to run on.
EndpointsResolve ==
    at = "built" => \A r \in resources : "filesystem" \in r.endpoints => ClusterFor(r.id) # None
=============================================================================
