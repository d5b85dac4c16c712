------------------------- MODULE InventoryBuildProofs -------------------------
(***************************************************************************)
(* Proofs about InventoryBuild, for any platform: its types, that what is  *)
(* published refers to what is published, that the ledger agrees with it,  *)
(* and what starts and ends an outage.                                     *)
(***************************************************************************)
EXTENDS InventoryBuild, WellFoundedInduction, TLAPS

StorageRead == at \in {"buckets", "services", "alerts", "built"}
BucketsRead == at \in {"services", "alerts", "built"}
ServicesRead == at \in {"alerts", "built"}

AddedClusters == DOMAIN listed \ todo

\* The clusters that were added are those that mounts may name.
ClustersInStep ==
    /\ DOMAIN clustersByResource = {ClusterId(c) : c \in AddedClusters}
    /\ \A c \in AddedClusters : clustersByResource[ClusterId(c)].name = c
    /\ DOMAIN listed \subseteq Selected

\* What a published resource is, told by its id; nothing is there before the
\* read that lists it.
IsCluster(r) ==
    \E c \in AddedClusters :
        /\ r.id = ClusterId(c) /\ r.mountedOn = {}
        /\ r.status = ClusterStatus(c, Merged(listed[c], clustersByResource[ClusterId(c)].detail))
IsNodeFilesystem(r) ==
    \E c \in AddedClusters, m \in Mountpoint : r.id = FilesystemId(c, m) /\ r.mountedOn = {} /\ r.status = "up"
IsNodeMount(r) ==
    \E c \in AddedClusters, m \in Mountpoint : r.id = MountId(c, m) /\ r.mountedOn = {ClusterId(c)} /\ r.status = "up"
IsSharedMount(r) ==
    StorageRead /\ \E c \in AddedClusters, f \in Shared : r.id = MountId(c, f) /\ r.mountedOn = {ClusterId(c)}
IsItem(r) ==
    /\ r.mountedOn = {}
    /\ \/ StorageRead /\ \E f \in Shared : r.id = ItemId(f)
       \/ BucketsRead /\ \E b \in Bucket : r.id = ItemId(b)
       \/ ServicesRead /\ \E p \in Provider : r.id = ItemId(p)

HasKind(r) == IsCluster(r) \/ IsNodeFilesystem(r) \/ IsNodeMount(r) \/ IsSharedMount(r) \/ IsItem(r)
KindsKnown == \A r \in resources : HasKind(r)

\* A capability is that of a cluster that was added.
CapabilitiesInStep ==
    \A cap \in DOMAIN capabilityResource : cap[1] \in AddedClusters /\ capabilityResource[cap] = ClusterId(cap[1])

\* Both ends of a mount are published together.
MountsListed ==
    /\ \A r \in resources : r.hasMount \subseteq Published
    /\ \A m \in resources : m.mountedOn # {} => \E f \in resources : m.id \in f.hasMount

\* What an agent reports is up for as long as it is published.
AgentsReportUp == \A c \in Cluster, m \in Mountpoint : ~outage[FilesystemId(c, m)] /\ ~outage[MountId(c, m)]

\* Nothing is left of the build before.
StartsEmpty == at \in {"idle", "clusters"} => DOMAIN listed = {}

Observed == ServicesRead => \A r \in resources : status[r.id] = r.status /\ (r.status = "up" => ~outage[r.id])

IInv ==
    /\ TypeOK /\ ClustersInStep /\ KindsKnown /\ CapabilitiesInStep
    /\ IdsUnique /\ CapabilitiesResolve /\ MembersResolve /\ MountsListed
    /\ AgentsReportUp /\ Observed /\ StartsEmpty

USE DEF Ledger!Status, Ledger!Impaired

-----------------------------------------------------------------------------
(* What the operators build.                                               *)

LEMMA IdsDiffer ==
    /\ \A c, d : ClusterId(c) = ClusterId(d) => c = d
    /\ \A c, d, m, n : FilesystemId(c, m) = FilesystemId(d, n) => c = d /\ m = n
    /\ \A c, d, m, n : MountId(c, m) = MountId(d, n) => c = d /\ m = n
    /\ \A c, d, m : ClusterId(c) # FilesystemId(d, m) /\ ClusterId(c) # MountId(d, m)
    /\ \A c, i : ClusterId(c) # ItemId(i)
    /\ \A c, d, m, n : FilesystemId(c, m) # MountId(d, n)
    /\ \A i, j : ItemId(i) = ItemId(j) => i = j
    /\ \A c, m, i : FilesystemId(c, m) # ItemId(i) /\ MountId(c, m) # ItemId(i)
BY DEF ClusterId, FilesystemId, MountId, ItemId

LEMMA IdsAreResources ==
    /\ \A c \in Cluster : ClusterId(c) \in Resource
    /\ \A c \in Cluster, m \in Mountpoint : FilesystemId(c, m) \in Resource
    /\ \A c \in Cluster, m \in Mountpoint \cup Shared : MountId(c, m) \in Resource
    /\ \A i \in Shared \cup Bucket \cup Provider : ItemId(i) \in Resource
BY DEF Resource

\* A rule that matches has a first one, so every item has a site.
LEMMA SiteForIsSite == \A item : SiteFor(item) \in Site
<1> SUFFICES ASSUME NEW item PROVE SiteFor(item) \in Site
  OBVIOUS
<1> DEFINE matching == {n \in DOMAIN SiteOrder : Matches(SiteOrder[n], item)}
<1>1. CASE matching = {}
  BY <1>1, SitesAssumption DEF SiteFor
<1>2. CASE matching # {}
  <2>1. matching \subseteq Nat
    BY SitesAssumption
  <2>2. PICK n \in matching : \A other \in matching : ~ (<<other, n>> \in OpToRel(<, Nat))
    BY <1>2, <2>1, NatLessThanWellFounded, WFMin
  <2>3. \A other \in matching : ~ (other < n)
    BY <2>1, <2>2 DEF OpToRel
  <2>4. \A other \in matching : n <= other
    BY <2>1, <2>3
  <2>5. (CHOOSE k \in matching : \A other \in matching : k <= other) \in DOMAIN SiteOrder
    BY <2>4
  <2> QED BY <1>2, <2>5 DEF SiteFor, Site
<1> QED BY <1>1, <1>2

LEMMA ClusterFields ==
    \A c, detail : LET r == ClusterResource(c, detail) IN
        /\ r.id = ClusterId(c) /\ r.site = SiteFor(c) /\ r.mountedOn = {} /\ r.hasMount = {}
        /\ r.status = ClusterStatus(c, Merged(listed[c], detail))
        /\ r.capabilities = Capabilities(c, detail.partitions) /\ r.endpoints = EndpointsFor(c)
BY DEF ClusterResource, Plain

\* The status of a cluster is one of the four, up where nothing says otherwise
\* and unknown where nothing is said.
LEMMA ClusterStatusKnown ==
    \A c, said : /\ ClusterStatus(c, said) \in Ledger!Status
                 /\ said.status \in {"active", "on", ""} /\ said.updateFailed = FALSE => ClusterStatus(c, said) \in {"up", "unknown"}
<1> SUFFICES ASSUME NEW c, NEW said
             PROVE  /\ ClusterStatus(c, said) \in Ledger!Status
                    /\ said.status \in {"active", "on", ""} /\ said.updateFailed = FALSE => ClusterStatus(c, said) \in {"up", "unknown"}
  OBVIOUS
<1>1. CASE said.status = "failed"
  BY <1>1 DEF ClusterStatus
<1>2. CASE said.status # "failed" /\ said.updateFailed
  BY <1>2 DEF ClusterStatus
<1>3. CASE said.status # "failed" /\ ~said.updateFailed
  <2>1. CASE said.status \in {"active", "on"}
    BY <1>3, <2>1 DEF ClusterStatus
  <2>2. CASE said.status \in {"provisioning", "resuming", "updating", "connecting"}
    BY <1>3, <2>2 DEF ClusterStatus
  <2>3. CASE said.status \in {"stopping", "stopped", "deleted"}
    BY <1>3, <2>3 DEF ClusterStatus
  <2>4. CASE said.status = "off"
    BY <1>3, <2>4, ElasticAssumption DEF ClusterStatus
  <2>5. CASE said.status \notin {"active", "on", "provisioning", "resuming", "updating", "connecting", "stopping", "stopped", "deleted", "off"}
    BY <1>3, <2>5 DEF ClusterStatus
  <2> QED BY <2>1, <2>2, <2>3, <2>4, <2>5
<1> QED BY <1>1, <1>2, <1>3

LEMMA CapabilitiesOfCluster ==
    \A partitions : \A c \in Cluster : /\ Capabilities(c, partitions) \subseteq Capability
                                         /\ \A cap \in Capabilities(c, partitions) : cap[1] = c
BY DEF Capabilities, Capability

LEMMA ClusterTyped ==
    ASSUME NEW c \in Cluster, NEW detail
    PROVE  ClusterResource(c, detail) \in Record
<1>1. ClusterId(c) \in Resource /\ SiteFor(c) \in Site
  BY IdsAreResources, SiteForIsSite
<1>2. ClusterStatus(c, Merged(listed[c], detail)) \in Ledger!Status /\ Capabilities(c, detail.partitions) \subseteq Capability
  BY ClusterStatusKnown, CapabilitiesOfCluster
<1>3. EndpointsFor(c) \subseteq {"compute", "filesystem"}
  BY DEF EndpointsFor
<1> QED BY <1>1, <1>2, <1>3 DEF ClusterResource, Plain, Record

NodeFilesystem(c, m) == [Plain(FilesystemId(c, m), SiteFor(c), "up") EXCEPT !.endpoints = {"filesystem"}, !.hasMount = {MountId(c, m)}]
NodeMount(c, m) == [Plain(MountId(c, m), SiteFor(c), "up") EXCEPT !.mountedOn = {ClusterId(c)}]

LEMMA NodeFields ==
    \A c, m : /\ LET r == NodeFilesystem(c, m) IN
                   /\ r.id = FilesystemId(c, m) /\ r.site = SiteFor(c) /\ r.status = "up" /\ r.endpoints = {"filesystem"}
                   /\ r.capabilities = {} /\ r.hasMount = {MountId(c, m)} /\ r.mountedOn = {}
              /\ LET r == NodeMount(c, m) IN
                   /\ r.id = MountId(c, m) /\ r.site = SiteFor(c) /\ r.status = "up" /\ r.endpoints = {}
                   /\ r.capabilities = {} /\ r.hasMount = {} /\ r.mountedOn = {ClusterId(c)}
BY DEF NodeFilesystem, NodeMount, Plain

LEMMA NodeRecords ==
    \A c, mounts : NodeFilesystems(c, mounts) = {NodeFilesystem(c, m) : m \in mounts} \cup {NodeMount(c, m) : m \in mounts}
BY DEF NodeFilesystems, NodeFilesystem, NodeMount

LEMMA NodeTyped ==
    ASSUME NEW c \in Cluster, NEW m \in Mountpoint
    PROVE  NodeFilesystem(c, m) \in Record /\ NodeMount(c, m) \in Record
<1>1. FilesystemId(c, m) \in Resource /\ MountId(c, m) \in Resource /\ ClusterId(c) \in Resource /\ SiteFor(c) \in Site
  BY IdsAreResources, SiteForIsSite
<1>2. NodeFilesystem(c, m) \in Record
  BY <1>1 DEF NodeFilesystem, Plain, Record
<1>3. NodeMount(c, m) \in Record
  BY <1>1 DEF NodeMount, Plain, Record
<1> QED BY <1>2, <1>3

-----------------------------------------------------------------------------
(* Publishing more keeps what was published whole.                         *)

\* new is published, as members of their sites those of listing.
LEMMA PublishMore ==
    ASSUME IdsUnique, MembersResolve, MountsListed, NEW new, NEW members,
           resources' = resources \cup new, siteMembers' = Added(members),
           members = {r \in new : Member(r)},
           \A r, q \in new : r.id = q.id => r = q,
           \A r \in new, q \in resources : r.id # q.id,
           \A r \in new : r.hasMount \subseteq {q.id : q \in new},
           \A m \in new : m.mountedOn # {} => \E f \in new : m.id \in f.hasMount
    PROVE  (IdsUnique /\ MembersResolve /\ MountsListed)'
<1>1. IdsUnique'
  BY DEF IdsUnique
<1>2. MembersResolve'
  <2> SUFFICES ASSUME NEW s \in Site
               PROVE  siteMembers'[s] = {r.id : r \in {q \in resources' : q.site = s /\ Member(q)}}
    BY DEF MembersResolve
  <2>1. siteMembers'[s] = siteMembers[s] \cup {r.id : r \in {q \in members : q.site = s}}
    BY DEF Added
  <2>2. siteMembers[s] = {r.id : r \in {q \in resources : q.site = s /\ Member(q)}}
    BY DEF MembersResolve
  <2>3. {q \in resources' : q.site = s /\ Member(q)} = {q \in resources : q.site = s /\ Member(q)} \cup {q \in members : q.site = s}
    OBVIOUS
  <2> QED BY <2>1, <2>2, <2>3
<1>3. MountsListed'
  <2>1. Published' = Published \cup {q.id : q \in new}
    BY DEF Published
  <2>2. ASSUME NEW r \in resources' PROVE r.hasMount \subseteq Published'
    BY <2>1, <2>2 DEF MountsListed
  <2>3. ASSUME NEW m \in resources', m.mountedOn # {} PROVE \E f \in resources' : m.id \in f.hasMount
    BY <2>3 DEF MountsListed
  <2> QED BY <2>2, <2>3 DEF MountsListed
<1> QED BY <1>1, <1>2, <1>3

LEMMA DetailTyped ==
    \A c, detail : detail \in {NoDetail} \cup (IF c \in Managed THEN Detail ELSE {}) => detail \in Detail
<1>1. NoDetail \in Detail
  BY DetailAssumption DEF NoDetail, Detail
<1> QED BY <1>1

PartOfCluster(c, detail) == {ClusterResource(c, detail)} \cup NodeFilesystems(c, detail.mounts)

\* The cluster of an action of AddCluster and its filesystems have ids that
\* nothing else has.
LEMMA ClusterPublished ==
    ASSUME IInv, at = "details", NEW c \in todo, NEW detail \in Detail
    PROVE  LET new == PartOfCluster(c, detail) IN
           /\ new \subseteq Record
           /\ \A r \in new : Member(r)
           /\ \A r, q \in new : r.id = q.id => r = q
           /\ \A r \in new, q \in resources : r.id # q.id
           /\ \A r \in new : r.hasMount \subseteq {q.id : q \in new}
           /\ \A m \in new : m.mountedOn # {} => \E f \in new : m.id \in f.hasMount
           /\ \A r \in new : r = ClusterResource(c, detail) \/ (r.id # ClusterId(c) /\ r.capabilities = {})
<1> DEFINE new == PartOfCluster(c, detail)
<1>1. c \in Cluster /\ detail.mounts \subseteq Mountpoint /\ c \notin AddedClusters
  BY DEF IInv, TypeOK, Detail, AddedClusters
<1>2. \A r \in new : \/ r = ClusterResource(c, detail)
                     \/ \E m \in detail.mounts : r = NodeFilesystem(c, m)
                     \/ \E m \in detail.mounts : r = NodeMount(c, m)
  BY NodeRecords DEF PartOfCluster
<1>3. \A m \in detail.mounts : NodeFilesystem(c, m) \in new /\ NodeMount(c, m) \in new
  BY NodeRecords DEF PartOfCluster
<1> HIDE DEF new
<1>4. new \subseteq Record
  BY <1>1, <1>2, ClusterTyped, NodeTyped
<1>5. \A r \in new : Member(r)
  <2>1. ClusterResource(c, detail).id[1] = "cluster"
    BY ClusterFields DEF ClusterId
  <2>2. \A m \in detail.mounts : NodeFilesystem(c, m).id[1] = "filesystem"
    BY NodeFields DEF FilesystemId
  <2>3. \A m \in detail.mounts : NodeMount(c, m).id[3] \notin Shared
    BY <1>1, NodeFields, KindsAssumption DEF MountId
  <2> QED BY <1>2, <2>1, <2>2, <2>3 DEF Member
<1>6. \A r, q \in new : r.id = q.id => r = q
  BY <1>2, ClusterFields, NodeFields, IdsDiffer
<1>7. ASSUME NEW q \in resources PROVE \A r \in new : r.id # q.id
  <2> SUFFICES ASSUME NEW r \in new PROVE r.id # q.id
    OBVIOUS
  <2>1. ~StorageRead /\ ~BucketsRead /\ ~ServicesRead
    BY DEF StorageRead, BucketsRead, ServicesRead
  <2>2. \/ \E d \in AddedClusters : q.id = ClusterId(d)
        \/ \E d \in AddedClusters, m \in Mountpoint : q.id = FilesystemId(d, m) \/ q.id = MountId(d, m)
    BY <1>7, <2>1 DEF IInv, KindsKnown, HasKind, IsCluster, IsNodeFilesystem, IsNodeMount, IsSharedMount, IsItem
  <2>3. r.id = ClusterId(c) \/ \E m \in Mountpoint : r.id = FilesystemId(c, m) \/ r.id = MountId(c, m)
    BY <1>1, <1>2, ClusterFields, NodeFields
  <2> QED BY <1>1, <2>2, <2>3, IdsDiffer
<1>8. \A r \in new : r.hasMount \subseteq {q.id : q \in new}
  <2>1. ASSUME NEW r \in new, NEW x \in r.hasMount PROVE \E q \in new : x = q.id
    <3>1. PICK m \in detail.mounts : r = NodeFilesystem(c, m)
      BY <1>2, <2>1, ClusterFields, NodeFields
    <3> QED BY <1>3, <2>1, <3>1, NodeFields
  <2> QED BY <2>1
<1>9. ASSUME NEW r \in new, r.mountedOn # {} PROVE \E f \in new : r.id \in f.hasMount
  <2>1. PICK m \in detail.mounts : r = NodeMount(c, m)
    BY <1>2, <1>9, ClusterFields, NodeFields
  <2> QED BY <1>3, <2>1, NodeFields
<1>10. ASSUME NEW r \in new, r # ClusterResource(c, detail) PROVE r.id # ClusterId(c) /\ r.capabilities = {}
  <2>1. PICK m \in detail.mounts : r = NodeFilesystem(c, m) \/ r = NodeMount(c, m)
    BY <1>2, <1>10
  <2>2. r.capabilities = {} /\ (r.id = FilesystemId(c, m) \/ r.id = MountId(c, m))
    BY <2>1, NodeFields
  <2> QED BY <2>2, IdsDiffer
<1>11. \A r \in new : r = ClusterResource(c, detail) \/ (r.id # ClusterId(c) /\ r.capabilities = {})
  BY <1>10
<1>12. \A r \in new, q \in resources : r.id # q.id
  BY <1>7
<1>13. \A m \in new : m.mountedOn # {} => \E f \in new : m.id \in f.hasMount
  BY <1>9
<1> QED BY <1>4, <1>5, <1>6, <1>8, <1>11, <1>12, <1>13 DEF new

-----------------------------------------------------------------------------
(* The steps.                                                              *)

LEMMA AddClusterStep ==
    ASSUME IInv, NEW c \in todo, NEW detail \in Detail, AddCluster(c, detail)
    PROVE  IInv'
<1> DEFINE cluster == ClusterResource(c, detail)
           new == PartOfCluster(c, detail)
<1>1. /\ at = "details" /\ at' = at /\ listed' = listed /\ todo' = todo \ {c}
      /\ status' = status /\ outage' = outage
      /\ resources' = resources \cup new /\ siteMembers' = Added(new)
      /\ capabilityResource' = [cap \in DOMAIN capabilityResource \cup cluster.capabilities |->
                                  IF cap \in cluster.capabilities THEN cluster.id ELSE capabilityResource[cap]]
      /\ clustersByResource' = [r \in DOMAIN clustersByResource \cup {cluster.id} |->
                                  IF r = cluster.id THEN [name |-> c, detail |-> detail] ELSE clustersByResource[r]]
  BY DEF AddCluster, ledger, PartOfCluster
<1>2. /\ new \subseteq Record
      /\ \A r \in new : Member(r)
      /\ \A r, q \in new : r.id = q.id => r = q
      /\ \A r \in new, q \in resources : r.id # q.id
      /\ \A r \in new : r.hasMount \subseteq {q.id : q \in new}
      /\ \A m \in new : m.mountedOn # {} => \E f \in new : m.id \in f.hasMount
      /\ \A r \in new : r = cluster \/ (r.id # ClusterId(c) /\ r.capabilities = {})
  BY <1>1, ClusterPublished
<1>3. cluster.id = ClusterId(c) /\ cluster.capabilities \subseteq Capability /\ (\A cap \in cluster.capabilities : cap[1] = c)
  BY ClusterFields, CapabilitiesOfCluster DEF IInv, TypeOK
<1>4. c \in Cluster /\ c \in DOMAIN listed /\ c \notin AddedClusters /\ AddedClusters' = AddedClusters \cup {c}
  BY <1>1 DEF AddedClusters, IInv, TypeOK
<1>5. cluster \in new /\ \A r \in new : \/ r = cluster
                                        \/ \E m \in Mountpoint : r = NodeFilesystem(c, m) \/ r = NodeMount(c, m)
  BY NodeRecords DEF Detail, PartOfCluster
<1> HIDE DEF new, cluster
<1>6. TypeOK'
  <2>1. \A s \in Site : siteMembers'[s] \subseteq Resource
    <3> SUFFICES ASSUME NEW s \in Site PROVE siteMembers'[s] \subseteq Resource
      OBVIOUS
    <3>1. siteMembers'[s] = siteMembers[s] \cup {r.id : r \in {q \in new : q.site = s}}
      BY <1>1 DEF Added
    <3>2. \A r \in new : r.id \in Resource
      BY <1>2 DEF Record
    <3> QED BY <3>1, <3>2 DEF IInv, TypeOK
  <2>2. siteMembers' \in [Site -> SUBSET Resource]
    BY <1>1, <2>1 DEF Added
  <2>3. /\ DOMAIN capabilityResource' \subseteq Capability
        /\ \A cap \in DOMAIN capabilityResource' : capabilityResource'[cap] \in Resource
    BY <1>1, <1>3, <1>4, IdsAreResources DEF IInv, TypeOK
  <2>4. /\ DOMAIN clustersByResource' \subseteq Resource
        /\ \A r \in DOMAIN clustersByResource' : clustersByResource'[r] \in [name : Cluster, detail : Detail]
    BY <1>1, <1>3, <1>4, IdsAreResources DEF IInv, TypeOK
  <2> QED BY <1>1, <1>2, <2>2, <2>3, <2>4 DEF IInv, TypeOK
<1>7. ClustersInStep'
  <2>1. DOMAIN clustersByResource' = {ClusterId(d) : d \in AddedClusters'}
    BY <1>1, <1>3, <1>4 DEF IInv, ClustersInStep
  <2>2. \A d \in AddedClusters' : clustersByResource'[ClusterId(d)].name = d
    BY <1>1, <1>3, <1>4, IdsDiffer DEF IInv, ClustersInStep
  <2> QED BY <1>1, <2>1, <2>2 DEF IInv, ClustersInStep
<1>8. \A d \in AddedClusters : clustersByResource'[ClusterId(d)] = clustersByResource[ClusterId(d)]
  BY <1>1, <1>3, <1>4, IdsDiffer DEF IInv, ClustersInStep
<1>9. KindsKnown'
  <2> SUFFICES ASSUME NEW r \in resources'
               PROVE  (IsCluster(r) \/ IsNodeFilesystem(r) \/ IsNodeMount(r))'
    BY DEF KindsKnown, HasKind
  <2>1. CASE r \in resources
    <3>1. IsCluster(r) \/ IsNodeFilesystem(r) \/ IsNodeMount(r)
      BY <1>1, <2>1 DEF IInv, KindsKnown, HasKind, IsSharedMount, IsItem, StorageRead, BucketsRead, ServicesRead
    <3> QED BY <1>1, <1>4, <1>8, <3>1 DEF IsCluster, IsNodeFilesystem, IsNodeMount
  <2>2. CASE r = cluster
    <3>1. clustersByResource'[ClusterId(c)].detail = detail
      BY <1>1, <1>3
    <3> QED BY <1>1, <1>4, <2>2, <3>1, ClusterFields DEF IsCluster, cluster
  <2>3. ASSUME NEW m \in Mountpoint, r = NodeFilesystem(c, m) \/ r = NodeMount(c, m)
        PROVE  IsNodeFilesystem(r)' \/ IsNodeMount(r)'
    BY <1>4, <2>3, NodeFields DEF IsNodeFilesystem, IsNodeMount
  <2> QED BY <1>1, <1>5, <2>1, <2>2, <2>3
<1>10. CapabilitiesInStep'
  BY <1>1, <1>3, <1>4 DEF IInv, CapabilitiesInStep
<1>11. CapabilitiesResolve'
  <2> SUFFICES ASSUME NEW r \in resources'
               PROVE  r.capabilities = {cap \in DOMAIN capabilityResource' : capabilityResource'[cap] = r.id}
    BY DEF CapabilitiesResolve
  <2>1. \A cap \in DOMAIN capabilityResource : cap \notin cluster.capabilities /\ capabilityResource[cap] # ClusterId(c)
    BY <1>3, <1>4, IdsDiffer DEF IInv, CapabilitiesInStep
  <2>2. CASE r = cluster
    BY <1>1, <1>3, <2>1, <2>2
  <2>3. CASE r \in resources
    <3>1. r.capabilities = {cap \in DOMAIN capabilityResource : capabilityResource[cap] = r.id}
      BY <2>3 DEF IInv, CapabilitiesResolve
    <3>2. r.id # cluster.id
      BY <1>2, <1>5, <2>3
    <3> QED BY <1>1, <2>1, <3>1, <3>2
  <2>4. CASE r \in new /\ r # cluster
    <3>1. r.id # cluster.id /\ r.capabilities = {}
      BY <1>2, <1>3, <2>4
    <3>2. \A cap \in DOMAIN capabilityResource : capabilityResource[cap] # r.id
      <4>1. \A d : r.id # ClusterId(d)
        <5>1. PICK m \in Mountpoint : r = NodeFilesystem(c, m) \/ r = NodeMount(c, m)
          BY <1>5, <2>4
        <5> QED BY <5>1, NodeFields, IdsDiffer
      <4> QED BY <4>1 DEF IInv, CapabilitiesInStep
    <3> QED BY <1>1, <3>1, <3>2
  <2> QED BY <1>1, <2>2, <2>3, <2>4
<1>12. (IdsUnique /\ MembersResolve /\ MountsListed)'
  <2>1. new = {r \in new : Member(r)}
    BY <1>2
  <2> QED BY <1>1, <1>2, <2>1, PublishMore DEF IInv
<1>13. AgentsReportUp' /\ Observed' /\ StartsEmpty'
  BY <1>1 DEF IInv, AgentsReportUp, Observed, ServicesRead, StartsEmpty
<1> QED BY <1>6, <1>7, <1>9, <1>10, <1>11, <1>12, <1>13 DEF IInv

LEMMA ListingTyped ==
    \A items : \A said \in Listing(items) : DOMAIN said \subseteq items /\ \A i \in DOMAIN said : said[i] \in MaySay[i]
BY DEF Listing

SharedMount(f, item, c) ==
    [Plain(MountId(c, f), SiteFor(f), IF item.provisioned THEN "up" ELSE "down") EXCEPT !.mountedOn = {ClusterId(c)}]

LEMMA SharedFields ==
    \A f, item : /\ \A c : LET r == SharedMount(f, item, c) IN
                       /\ r.id = MountId(c, f) /\ r.site = SiteFor(f) /\ r.status \in {"up", "down"} /\ r.endpoints = {}
                       /\ r.capabilities = {} /\ r.hasMount = {} /\ r.mountedOn = {ClusterId(c)}
                 /\ LET r == SharedFilesystem(f, item) IN
                       /\ r.id = ItemId(f) /\ r.site = SiteFor(f) /\ r.status \in {"up", "down"} /\ r.endpoints = {}
                       /\ r.capabilities = {} /\ r.mountedOn = {} /\ r.hasMount = {m.id : m \in SharedMounts(f, item)}
                 /\ SharedMounts(f, item) = {SharedMount(f, item, c) : c \in Attached(item)}
BY DEF SharedMount, SharedFilesystem, SharedMounts, Plain

LEMMA SharedIds ==
    \A f, item : /\ SharedFilesystem(f, item).id = ItemId(f) /\ SharedFilesystem(f, item).capabilities = {}
                 /\ \A c : SharedMount(f, item, c).id = MountId(c, f) /\ SharedMount(f, item, c).capabilities = {}
BY SharedFields

LEMMA SharedTyped ==
    ASSUME NEW f \in Shared, NEW item, Attached(item) \subseteq Cluster
    PROVE  SharedFilesystem(f, item) \in Record /\ \A c \in Attached(item) : SharedMount(f, item, c) \in Record
<1>1. SiteFor(f) \in Site /\ ItemId(f) \in Resource /\ \A c \in Cluster : MountId(c, f) \in Resource /\ ClusterId(c) \in Resource
  BY IdsAreResources, SiteForIsSite
<1>2. \A c \in Attached(item) : SharedMount(f, item, c) \in Record
  BY <1>1 DEF SharedMount, Plain, Record
<1>3. {m.id : m \in SharedMounts(f, item)} \subseteq Resource
  BY <1>1, SharedFields
<1>4. SharedFilesystem(f, item) \in Record
  BY <1>1, <1>3 DEF SharedFilesystem, Plain, Record
<1> QED BY <1>2, <1>4

SharedFilesystems(items) == {SharedFilesystem(f, items[f]) : f \in DOMAIN items}
PartOfStorage(items) == SharedFilesystems(items) \cup UNION {SharedMounts(f, items[f]) : f \in DOMAIN items}

\* The shared filesystems and their mounts have ids that nothing else has.
LEMMA StoragePublished ==
    ASSUME IInv, at = "details", NEW items \in Listing(Shared)
    PROVE  LET new == PartOfStorage(items) IN
           /\ new \subseteq Record
           /\ SharedFilesystems(items) = {r \in new : Member(r)}
           /\ \A r, q \in new : r.id = q.id => r = q
           /\ \A r \in new, q \in resources : r.id # q.id
           /\ \A r \in new : r.hasMount \subseteq {q.id : q \in new}
           /\ \A m \in new : m.mountedOn # {} => \E f \in new : m.id \in f.hasMount
           /\ \A r \in new : r.capabilities = {} /\ \A d : r.id # ClusterId(d)
           /\ \A r \in new : \/ \E f \in Shared : r.id = ItemId(f) /\ r.mountedOn = {}
                             \/ \E f \in Shared, c \in AddedClusters : r.id = MountId(c, f) /\ r.mountedOn = {ClusterId(c)}
<1> DEFINE new == PartOfStorage(items)
<1>1. DOMAIN items \subseteq Shared
  BY ListingTyped
<1>2. \A item : Attached(item) \subseteq AddedClusters
  BY IdsDiffer DEF Attached, IInv, ClustersInStep
<1>3. AddedClusters \subseteq Cluster
  BY DEF IInv, TypeOK, AddedClusters
<1>4. \A r \in new : \/ \E f \in DOMAIN items : r = SharedFilesystem(f, items[f])
                     \/ \E f \in DOMAIN items : \E c \in Attached(items[f]) : r = SharedMount(f, items[f], c)
  BY SharedFields DEF PartOfStorage, SharedFilesystems
<1>5. \A f \in DOMAIN items : /\ SharedFilesystem(f, items[f]) \in new
                              /\ \A c \in Attached(items[f]) : SharedMount(f, items[f], c) \in new
  BY SharedFields DEF PartOfStorage, SharedFilesystems
<1> HIDE DEF new
<1>6. new \subseteq Record
  BY <1>1, <1>2, <1>3, <1>4, SharedTyped
<1>7. SharedFilesystems(items) = {r \in new : Member(r)}
  <2>1. \A f \in DOMAIN items : Member(SharedFilesystem(f, items[f]))
    BY SharedFields DEF Member, ItemId
  <2>2. \A f \in DOMAIN items : \A c \in Attached(items[f]) : ~Member(SharedMount(f, items[f], c))
    BY <1>1, SharedFields DEF Member, MountId
  <2> QED BY <1>4, <1>5, <2>1, <2>2 DEF SharedFilesystems
<1>8. \A r, q \in new : r.id = q.id => r = q
  <2> SUFFICES ASSUME NEW r \in new, NEW q \in new, r.id = q.id PROVE r = q
    OBVIOUS
  <2>1. ASSUME NEW f \in DOMAIN items, r = SharedFilesystem(f, items[f]) PROVE r = q
    <3>1. r.id = ItemId(f)
      BY <2>1, SharedFields
    <3>2. PICK g \in DOMAIN items : q = SharedFilesystem(g, items[g]) \/ \E c : q = SharedMount(g, items[g], c)
      BY <1>4
    <3>3. ASSUME NEW c, q = SharedMount(g, items[g], c) PROVE FALSE
      <4>1. q.id = MountId(c, g)
        BY <3>3, SharedIds
      <4> QED BY <3>1, <4>1, IdsDiffer
    <3>4. q = SharedFilesystem(g, items[g])
      BY <3>2, <3>3
    <3>5. q.id = ItemId(g)
      BY <3>4, SharedIds
    <3> QED BY <2>1, <3>1, <3>4, <3>5, IdsDiffer
  <2>2. ASSUME NEW f \in DOMAIN items, NEW c \in Attached(items[f]), r = SharedMount(f, items[f], c) PROVE r = q
    <3>1. r.id = MountId(c, f)
      BY <2>2, SharedFields
    <3>2. PICK g \in DOMAIN items : q = SharedFilesystem(g, items[g]) \/ \E d : q = SharedMount(g, items[g], d)
      BY <1>4
    <3>3. PICK d : q = SharedMount(g, items[g], d)
      <4>1. SharedFilesystem(g, items[g]).id = ItemId(g)
        BY SharedIds
      <4>2. q.id # ItemId(g)
        BY <3>1, IdsDiffer
      <4> QED BY <3>2, <4>1, <4>2
    <3>4. q.id = MountId(d, g)
      BY <3>3, SharedFields
    <3> QED BY <2>2, <3>1, <3>3, <3>4, IdsDiffer
  <2> QED BY <1>4, <2>1, <2>2
<1>16. \A r \in new : \/ \E f \in Shared : r.id = ItemId(f)
                      \/ \E f \in Shared, c \in AddedClusters : r.id = MountId(c, f)
  BY <1>1, <1>2, <1>4, SharedFields
<1>9. ASSUME NEW q \in resources PROVE \A r \in new : r.id # q.id
  <2>1. ~StorageRead /\ ~BucketsRead /\ ~ServicesRead
    BY DEF StorageRead, BucketsRead, ServicesRead
  <2>2. \/ \E d \in AddedClusters : q.id = ClusterId(d)
        \/ \E d \in AddedClusters, m \in Mountpoint : q.id = FilesystemId(d, m) \/ q.id = MountId(d, m)
    BY <1>9, <2>1 DEF IInv, KindsKnown, HasKind, IsCluster, IsNodeFilesystem, IsNodeMount, IsSharedMount, IsItem
  <2> QED BY <1>16, <2>2, IdsDiffer, KindsAssumption
<1>10. \A r \in new : r.hasMount \subseteq {q.id : q \in new}
  <2>1. ASSUME NEW r \in new, NEW x \in r.hasMount PROVE \E q \in new : x = q.id
    <3>1. PICK f \in DOMAIN items : r = SharedFilesystem(f, items[f])
      BY <1>4, <2>1, SharedFields
    <3>2. PICK c \in Attached(items[f]) : x = SharedMount(f, items[f], c).id
      BY <2>1, <3>1, SharedFields
    <3> QED BY <1>5, <3>2
  <2> QED BY <2>1
<1>11. ASSUME NEW r \in new, r.mountedOn # {} PROVE \E f \in new : r.id \in f.hasMount
  <2>1. PICK f \in DOMAIN items : \E c \in Attached(items[f]) : r = SharedMount(f, items[f], c)
    BY <1>4, <1>11, SharedFields
  <2>2. r.id \in SharedFilesystem(f, items[f]).hasMount
    BY <2>1, SharedFields
  <2> QED BY <1>5, <2>2
<1>12. \A r \in new : r.capabilities = {} /\ \A d : r.id # ClusterId(d)
  BY <1>4, <1>16, SharedIds, IdsDiffer
<1>13. \A r \in new : \/ \E f \in Shared : r.id = ItemId(f) /\ r.mountedOn = {}
                      \/ \E f \in Shared, c \in AddedClusters : r.id = MountId(c, f) /\ r.mountedOn = {ClusterId(c)}
  BY <1>1, <1>2, <1>4, SharedFields
<1>14. \A r \in new, q \in resources : r.id # q.id
  BY <1>9
<1>15. \A m \in new : m.mountedOn # {} => \E f \in new : m.id \in f.hasMount
  BY <1>11
<1> QED BY <1>6, <1>7, <1>8, <1>10, <1>12, <1>13, <1>14, <1>15 DEF new

LEMMA ItemFields ==
    \A i, site, s : LET r == Plain(ItemId(i), site, s) IN
        /\ r.id = ItemId(i) /\ r.capabilities = {} /\ r.hasMount = {} /\ r.mountedOn = {}
BY DEF Plain

\* Buckets and services have ids that nothing else has.
LEMMA ItemsPublished ==
    ASSUME IInv, NEW items, NEW place, DOMAIN items \subseteq Bucket \cup Provider,
           \A i \in DOMAIN items : items[i] \in Ledger!Status /\ place[i] \in Site,
           \A i \in DOMAIN items, q \in resources : q.id # ItemId(i)
    PROVE  LET new == {Plain(ItemId(i), place[i], items[i]) : i \in DOMAIN items} IN
           /\ new \subseteq Record
           /\ new = {r \in new : Member(r)}
           /\ \A r, q \in new : r.id = q.id => r = q
           /\ \A r \in new, q \in resources : r.id # q.id
           /\ \A r \in new : r.hasMount \subseteq {q.id : q \in new}
           /\ \A m \in new : m.mountedOn # {} => \E f \in new : m.id \in f.hasMount
           /\ \A r \in new : r.capabilities = {} /\ \A d : r.id # ClusterId(d)
           /\ \A r \in new : \E i \in DOMAIN items : r.id = ItemId(i) /\ r.mountedOn = {}
<1> DEFINE new == {Plain(ItemId(i), place[i], items[i]) : i \in DOMAIN items}
<1>1. \A r \in new : \E i \in DOMAIN items : r = Plain(ItemId(i), place[i], items[i])
  OBVIOUS
<1>2. ASSUME NEW r \in new PROVE Member(r)
  <2>1. PICK i \in DOMAIN items : r.id = ItemId(i)
    BY <1>1, ItemFields
  <2> QED BY <2>1 DEF Member, ItemId
<1>3. \A i \in DOMAIN items : Plain(ItemId(i), place[i], items[i]) \in Record
  BY IdsAreResources DEF Plain, Record
<1> HIDE DEF new
<1>4. new \subseteq Record
  BY <1>1, <1>3
<1>5. \A r, q \in new : r.id = q.id => r = q
  BY <1>1, ItemFields, IdsDiffer
<1>6. \A r \in new : \E i \in DOMAIN items : r.id = ItemId(i) /\ r.mountedOn = {}
  BY <1>1, ItemFields
<1>7. \A r \in new : r.capabilities = {} /\ r.hasMount = {} /\ r.mountedOn = {}
  BY <1>1, ItemFields
<1>8. \A r \in new : \A d : r.id # ClusterId(d)
  BY <1>6, IdsDiffer
<1>9. \A r \in new, q \in resources : r.id # q.id
  BY <1>6
<1> QED BY <1>2, <1>4, <1>5, <1>6, <1>7, <1>8, <1>9 DEF new

\* What was published stays what it is as further reads are answered.
LEMMA KindsStay ==
    ASSUME KindsKnown, UNCHANGED <<listed, todo, clustersByResource>>,
           StorageRead => StorageRead', BucketsRead => BucketsRead', ServicesRead => ServicesRead'
    PROVE  \A r \in resources : HasKind(r)'
<1> SUFFICES ASSUME NEW r \in resources PROVE HasKind(r)'
  OBVIOUS
<1>1. AddedClusters' = AddedClusters
  BY DEF AddedClusters
<1>2. CASE IsCluster(r)
  BY <1>1, <1>2 DEF IsCluster, HasKind
<1>3. CASE IsNodeFilesystem(r) \/ IsNodeMount(r)
  BY <1>1, <1>3 DEF IsNodeFilesystem, IsNodeMount, HasKind
<1>4. CASE IsSharedMount(r)
  BY <1>1, <1>4 DEF IsSharedMount, HasKind
<1>5. CASE IsItem(r)
  BY <1>5 DEF IsItem, HasKind
<1> QED BY <1>2, <1>3, <1>4, <1>5 DEF KindsKnown, HasKind

\* Publishing what is no cluster.
LEMMA PublishOthers ==
    ASSUME IInv, NEW new, NEW members,
           resources' = resources \cup new, siteMembers' = Added(members), members = {r \in new : Member(r)},
           UNCHANGED <<listed, todo, capabilityResource, clustersByResource>>,
           at' \in {"buckets", "services", "alerts"},
           status' \in [Resource -> Ledger!Status \cup {None}], outage' \in [Resource -> BOOLEAN],
           new \subseteq Record,
           \A r, q \in new : r.id = q.id => r = q,
           \A r \in new, q \in resources : r.id # q.id,
           \A r \in new : r.hasMount \subseteq {q.id : q \in new},
           \A m \in new : m.mountedOn # {} => \E f \in new : m.id \in f.hasMount,
           \A r \in new : r.capabilities = {} /\ \A d : r.id # ClusterId(d)
    PROVE  (TypeOK /\ ClustersInStep /\ CapabilitiesInStep /\ IdsUnique /\ CapabilitiesResolve /\ MembersResolve /\ MountsListed)'
<1>1. TypeOK'
  <2>1. ASSUME NEW s \in Site PROVE siteMembers'[s] \subseteq Resource
    <3>1. siteMembers'[s] = siteMembers[s] \cup {r.id : r \in {q \in members : q.site = s}}
      BY DEF Added
    <3>2. \A r \in members : r.id \in Resource
      BY DEF Record
    <3> QED BY <3>1, <3>2 DEF IInv, TypeOK
  <2>2. siteMembers' \in [Site -> SUBSET Resource]
    BY <2>1 DEF Added
  <2> QED BY <2>2 DEF IInv, TypeOK
<1>2. ClustersInStep' /\ CapabilitiesInStep'
  BY DEF IInv, ClustersInStep, CapabilitiesInStep, AddedClusters
<1>3. CapabilitiesResolve'
  <2> SUFFICES ASSUME NEW r \in new
               PROVE  r.capabilities = {cap \in DOMAIN capabilityResource : capabilityResource[cap] = r.id}
    BY DEF IInv, CapabilitiesResolve
  <2>1. \A cap \in DOMAIN capabilityResource : capabilityResource[cap] # r.id
    BY DEF IInv, CapabilitiesInStep
  <2> QED BY <2>1
<1>4. (IdsUnique /\ MembersResolve /\ MountsListed)'
  BY PublishMore DEF IInv
<1> QED BY <1>1, <1>2, <1>3, <1>4

\* What observing does to the ledger, resource by resource.
LEMMA ObserveEffect ==
    ASSUME IInv, resources' \subseteq Record, IdsUnique', Observe(resources')
    PROVE  /\ \A r \in resources' : /\ status'[r.id] = r.status
                                    /\ outage'[r.id] <=> r.status # "up" /\ (outage[r.id] \/ Ledger!StartsOutage(r.id, r.status))
           /\ \A id \in Resource : (\A r \in resources' : r.id # id) => status'[id] = status[id] /\ outage'[id] = outage[id]
           /\ status' \in [Resource -> Ledger!Status \cup {None}] /\ outage' \in [Resource -> BOOLEAN]
<1> DEFINE Now(id) == (CHOOSE q \in resources' : q.id = id).status
<1>1. \A r \in resources' : Now(r.id) = r.status
  <2> SUFFICES ASSUME NEW r \in resources' PROVE (CHOOSE q \in resources' : q.id = r.id) = r
    OBVIOUS
  <2>1. \A q \in resources' : q.id = r.id => q = r
    BY DEF IdsUnique
  <2> QED BY <2>1
<1>2. \A r \in resources' : r.id \in Resource /\ r.status \in Ledger!Status
  BY DEF Record
<1>3. /\ status' = [id \in Resource |-> IF \E q \in resources' : q.id = id THEN Now(id) ELSE status[id]]
      /\ outage' = [id \in Resource |-> IF \E q \in resources' : q.id = id
                                        THEN Now(id) # "up" /\ (outage[id] \/ Ledger!StartsOutage(id, Now(id)))
                                        ELSE outage[id]]
  BY DEF Observe
<1> HIDE DEF Now
<1>4. \A r \in resources' : /\ status'[r.id] = r.status
                            /\ outage'[r.id] <=> r.status # "up" /\ (outage[r.id] \/ Ledger!StartsOutage(r.id, r.status))
  BY <1>1, <1>2, <1>3
<1>5. \A id \in Resource : (\A r \in resources' : r.id # id) => status'[id] = status[id] /\ outage'[id] = outage[id]
  BY <1>3
<1>6. status' \in [Resource -> Ledger!Status \cup {None}]
  <2>1. ASSUME NEW id \in Resource PROVE status'[id] \in Ledger!Status \cup {None}
    BY <1>2, <1>4, <1>5 DEF IInv, TypeOK
  <2> QED BY <1>3, <2>1
<1>7. outage' \in [Resource -> BOOLEAN]
  <2>1. ASSUME NEW id \in Resource PROVE outage'[id] \in BOOLEAN
    <3>1. CASE \E q \in resources' : q.id = id
      <4>1. outage'[id] = (Now(id) # "up" /\ (outage[id] \/ Ledger!StartsOutage(id, Now(id))))
        BY <1>3, <3>1
      <4> QED BY <4>1
    <3>2. CASE ~ \E q \in resources' : q.id = id
      BY <1>5, <3>2 DEF IInv, TypeOK
    <3> QED BY <3>1, <3>2
  <2> QED BY <1>3, <2>1
<1> QED BY <1>4, <1>5, <1>6, <1>7

LEMMA ListStorageStep ==
    ASSUME IInv, NEW items \in Listing(Shared), ListStorage(items)
    PROVE  IInv'
<1> DEFINE new == PartOfStorage(items)
           members == SharedFilesystems(items)
<1>1. /\ at = "details" /\ at' = "buckets"
      /\ resources' = resources \cup new /\ siteMembers' = Added(members)
      /\ UNCHANGED <<listed, todo, capabilityResource, clustersByResource, status, outage>>
  BY DEF ListStorage, PartOfStorage, SharedFilesystems, ledger
<1> HIDE DEF new, members
<1>2. /\ new \subseteq Record
      /\ members = {r \in new : Member(r)}
      /\ \A r, q \in new : r.id = q.id => r = q
      /\ \A r \in new, q \in resources : r.id # q.id
      /\ \A r \in new : r.hasMount \subseteq {q.id : q \in new}
      /\ \A m \in new : m.mountedOn # {} => \E f \in new : m.id \in f.hasMount
      /\ \A r \in new : r.capabilities = {} /\ \A d : r.id # ClusterId(d)
      /\ \A r \in new : \/ \E f \in Shared : r.id = ItemId(f) /\ r.mountedOn = {}
                        \/ \E f \in Shared, c \in AddedClusters : r.id = MountId(c, f) /\ r.mountedOn = {ClusterId(c)}
  BY <1>1, StoragePublished DEF new, members
<1>3. status' \in [Resource -> Ledger!Status \cup {None}] /\ outage' \in [Resource -> BOOLEAN]
  BY <1>1 DEF IInv, TypeOK
<1>4. (TypeOK /\ ClustersInStep /\ CapabilitiesInStep /\ IdsUnique /\ CapabilitiesResolve /\ MembersResolve /\ MountsListed)'
  BY <1>1, <1>2, <1>3, PublishOthers
<1>5. KindsKnown'
  <2>1. StorageRead' /\ ~StorageRead /\ ~BucketsRead /\ ~ServicesRead
    BY <1>1 DEF StorageRead, BucketsRead, ServicesRead
  <2>2. \A r \in resources : HasKind(r)'
    BY <1>1, <2>1, KindsStay DEF IInv
  <2>3. ASSUME NEW r \in new PROVE HasKind(r)'
    <3>1. CASE \E f \in Shared : r.id = ItemId(f) /\ r.mountedOn = {}
      BY <2>1, <3>1 DEF HasKind, IsItem
    <3>2. CASE \E f \in Shared, c \in AddedClusters : r.id = MountId(c, f) /\ r.mountedOn = {ClusterId(c)}
      BY <1>1, <2>1, <3>2 DEF HasKind, IsSharedMount, AddedClusters
    <3> QED BY <1>2, <3>1, <3>2
  <2> QED BY <1>1, <2>2, <2>3 DEF KindsKnown
<1>6. AgentsReportUp' /\ Observed' /\ StartsEmpty'
  BY <1>1 DEF IInv, AgentsReportUp, Observed, ServicesRead, StartsEmpty
<1> QED BY <1>4, <1>5, <1>6 DEF IInv

LEMMA ListBucketsStep ==
    ASSUME IInv, NEW items \in Listing(Bucket), ListBuckets(items)
    PROVE  IInv'
<1> DEFINE place == [b \in Bucket |-> SiteFor(b)]
           new == {Plain(ItemId(b), place[b], items[b]) : b \in DOMAIN items}
<1>1. DOMAIN items \subseteq Bucket /\ \A b \in DOMAIN items : items[b] \in Ledger!Status /\ place[b] \in Site
  BY ListingTyped, SayingsAssumption, SiteForIsSite
<1>2. new = {Plain(ItemId(b), SiteFor(b), items[b]) : b \in DOMAIN items}
  BY <1>1
<1>3. /\ at = "buckets" /\ at' = "services"
      /\ resources' = resources \cup new /\ siteMembers' = Added(new)
      /\ UNCHANGED <<listed, todo, capabilityResource, clustersByResource, status, outage>>
  BY <1>2 DEF ListBuckets, ledger
<1>4. StorageRead /\ StorageRead' /\ BucketsRead' /\ ~BucketsRead /\ ~ServicesRead /\ ~ServicesRead'
  BY <1>3 DEF StorageRead, BucketsRead, ServicesRead
<1>5. \A b \in DOMAIN items, q \in resources : q.id # ItemId(b)
  <2> SUFFICES ASSUME NEW b \in DOMAIN items, NEW q \in resources, q.id = ItemId(b) PROVE FALSE
    OBVIOUS
  <2>1. PICK f \in Shared : q.id = ItemId(f)
    BY <1>4, IdsDiffer DEF IInv, KindsKnown, HasKind, IsCluster, IsNodeFilesystem, IsNodeMount, IsSharedMount, IsItem
  <2>2. b = f
    BY <2>1, IdsDiffer
  <2> QED BY <1>1, <2>2, KindsAssumption
<1> HIDE DEF place
<1>6. /\ new \subseteq Record
      /\ new = {r \in new : Member(r)}
      /\ \A r, q \in new : r.id = q.id => r = q
      /\ \A r \in new, q \in resources : r.id # q.id
      /\ \A r \in new : r.hasMount \subseteq {q.id : q \in new}
      /\ \A m \in new : m.mountedOn # {} => \E f \in new : m.id \in f.hasMount
      /\ \A r \in new : r.capabilities = {} /\ \A d : r.id # ClusterId(d)
      /\ \A r \in new : \E b \in DOMAIN items : r.id = ItemId(b) /\ r.mountedOn = {}
  BY <1>1, <1>5, ItemsPublished
<1> HIDE DEF new
<1>7. status' \in [Resource -> Ledger!Status \cup {None}] /\ outage' \in [Resource -> BOOLEAN]
  BY <1>3 DEF IInv, TypeOK
<1>8. (TypeOK /\ ClustersInStep /\ CapabilitiesInStep /\ IdsUnique /\ CapabilitiesResolve /\ MembersResolve /\ MountsListed)'
  BY <1>3, <1>6, <1>7, PublishOthers
<1>9. KindsKnown'
  <2>1. \A r \in resources : HasKind(r)'
    BY <1>3, <1>4, KindsStay DEF IInv
  <2>2. \A r \in new : HasKind(r)'
    BY <1>1, <1>4, <1>6 DEF HasKind, IsItem
  <2> QED BY <1>3, <2>1, <2>2 DEF KindsKnown
<1>10. AgentsReportUp' /\ Observed' /\ StartsEmpty'
  BY <1>3, <1>4 DEF IInv, AgentsReportUp, Observed, StartsEmpty
<1> QED BY <1>8, <1>9, <1>10 DEF IInv

LEMMA ListServicesStep ==
    ASSUME IInv, NEW items \in Listing(Provider), ListServices(items)
    PROVE  IInv'
<1> DEFINE place == [p \in Provider |-> DefaultSite]
           new == {Plain(ItemId(p), place[p], items[p]) : p \in DOMAIN items}
<1>1. DOMAIN items \subseteq Provider /\ \A p \in DOMAIN items : items[p] \in Ledger!Status /\ place[p] \in Site
  BY ListingTyped, SayingsAssumption, SitesAssumption
<1>2. new = Services(items)
  BY <1>1 DEF Services
<1>3. /\ at = "services" /\ at' = "alerts"
      /\ resources' = resources \cup new /\ siteMembers' = Added(new) /\ Observe(resources')
      /\ UNCHANGED <<listed, todo, capabilityResource, clustersByResource>>
  BY <1>2 DEF ListServices
<1>4. StorageRead /\ StorageRead' /\ BucketsRead' /\ BucketsRead /\ ~ServicesRead /\ ServicesRead'
  BY <1>3 DEF StorageRead, BucketsRead, ServicesRead
<1>5. \A p \in DOMAIN items, q \in resources : q.id # ItemId(p)
  <2> SUFFICES ASSUME NEW p \in DOMAIN items, NEW q \in resources, q.id = ItemId(p) PROVE FALSE
    OBVIOUS
  <2>1. \E i \in Shared \cup Bucket : q.id = ItemId(i)
    BY <1>4, IdsDiffer DEF IInv, KindsKnown, HasKind, IsCluster, IsNodeFilesystem, IsNodeMount, IsSharedMount, IsItem
  <2> QED BY <1>1, <2>1, IdsDiffer, KindsAssumption
<1> HIDE DEF place
<1>6. /\ new \subseteq Record
      /\ new = {r \in new : Member(r)}
      /\ \A r, q \in new : r.id = q.id => r = q
      /\ \A r \in new, q \in resources : r.id # q.id
      /\ \A r \in new : r.hasMount \subseteq {q.id : q \in new}
      /\ \A m \in new : m.mountedOn # {} => \E f \in new : m.id \in f.hasMount
      /\ \A r \in new : r.capabilities = {} /\ \A d : r.id # ClusterId(d)
      /\ \A r \in new : \E p \in DOMAIN items : r.id = ItemId(p) /\ r.mountedOn = {}
  BY <1>1, <1>5, ItemsPublished
<1> HIDE DEF new
<1>7. resources' \subseteq Record /\ IdsUnique'
  BY <1>3, <1>6 DEF IInv, TypeOK, IdsUnique
<1>8. /\ \A r \in resources' : /\ status'[r.id] = r.status
                               /\ outage'[r.id] <=> r.status # "up" /\ (outage[r.id] \/ Ledger!StartsOutage(r.id, r.status))
      /\ \A id \in Resource : (\A r \in resources' : r.id # id) => status'[id] = status[id] /\ outage'[id] = outage[id]
      /\ status' \in [Resource -> Ledger!Status \cup {None}] /\ outage' \in [Resource -> BOOLEAN]
  BY <1>3, <1>7, ObserveEffect
<1>9. (TypeOK /\ ClustersInStep /\ CapabilitiesInStep /\ IdsUnique /\ CapabilitiesResolve /\ MembersResolve /\ MountsListed)'
  BY <1>3, <1>6, <1>8, PublishOthers
<1>10. KindsKnown'
  <2>1. \A r \in resources : HasKind(r)'
    BY <1>3, <1>4, KindsStay DEF IInv
  <2>2. \A r \in new : HasKind(r)'
    BY <1>1, <1>4, <1>6 DEF HasKind, IsItem
  <2> QED BY <1>3, <2>1, <2>2 DEF KindsKnown
<1>11. Observed' /\ StartsEmpty'
  BY <1>3, <1>8 DEF Observed, StartsEmpty
<1>12. AgentsReportUp'
  <2> SUFFICES ASSUME NEW c \in Cluster, NEW m \in Mountpoint, NEW id \in {FilesystemId(c, m), MountId(c, m)}
               PROVE  ~outage'[id]
    BY DEF AgentsReportUp
  <2>1. id \in Resource /\ ~outage[id]
    BY IdsAreResources DEF IInv, AgentsReportUp
  <2>2. ASSUME NEW r \in resources', r.id = id PROVE r.status = "up"
    BY <1>10, <2>2, IdsDiffer, KindsAssumption
       DEF KindsKnown, HasKind, IsCluster, IsNodeFilesystem, IsNodeMount, IsSharedMount, IsItem
  <2> QED BY <1>8, <2>1, <2>2
<1> QED BY <1>9, <1>10, <1>11, <1>12 DEF IInv

\* Nothing is published yet, or any more.
LEMMA EmptyStep ==
    ASSUME IInv, Empty, UNCHANGED ledger, at' \in {"idle", "clusters"}
    PROVE  IInv'
<1>1. /\ listed' = <<>> /\ todo' = {} /\ resources' = {} /\ capabilityResource' = <<>> /\ clustersByResource' = <<>>
      /\ siteMembers' = [s \in Site |-> {}] /\ status' = status /\ outage' = outage
  BY DEF Empty, ledger
<1>2. DOMAIN listed' = {} /\ DOMAIN capabilityResource' = {} /\ DOMAIN clustersByResource' = {}
  BY <1>1
<1>3. TypeOK'
  BY <1>1, <1>2 DEF IInv, TypeOK
<1>4. ClustersInStep' /\ CapabilitiesInStep'
  BY <1>1, <1>2 DEF ClustersInStep, CapabilitiesInStep, AddedClusters
<1>5. (KindsKnown /\ IdsUnique /\ CapabilitiesResolve /\ MountsListed /\ Observed)'
  BY <1>1 DEF KindsKnown, IdsUnique, CapabilitiesResolve, MountsListed, Observed
<1>6. MembersResolve'
  BY <1>1 DEF MembersResolve
<1>7. AgentsReportUp' /\ StartsEmpty'
  BY <1>1, <1>2 DEF IInv, AgentsReportUp, StartsEmpty
<1> QED BY <1>3, <1>4, <1>5, <1>6, <1>7 DEF IInv

\* While the clusters are read nothing is published.
LEMMA ListClustersStep ==
    ASSUME IInv, NEW answer \in Listing(Cluster), ListClusters(answer)
    PROVE  IInv'
<1>1. /\ at = "clusters" /\ at' = "details" /\ listed' = [c \in DOMAIN answer \cap Selected |-> answer[c]] /\ todo' = DOMAIN listed'
      /\ UNCHANGED <<resources, capabilityResource, clustersByResource, siteMembers, status, outage>>
  BY DEF ListClusters, draft, ledger
<1>2. resources = {} /\ DOMAIN clustersByResource = {} /\ DOMAIN capabilityResource = {}
  <2>1. AddedClusters = {}
    BY <1>1 DEF IInv, StartsEmpty, AddedClusters
  <2> QED BY <1>1, <2>1 DEF IInv, ClustersInStep, CapabilitiesInStep, KindsKnown, HasKind, IsCluster, IsNodeFilesystem,
         IsNodeMount, IsSharedMount, IsItem, StorageRead, BucketsRead, ServicesRead
<1>3. DOMAIN listed' \subseteq Cluster \cap Selected /\ AddedClusters' = {}
  BY <1>1, ListingTyped DEF AddedClusters
<1>4. \A c \in DOMAIN listed' : listed'[c] \in [status : STRING, updateFailed : BOOLEAN]
  BY <1>1, ListingTyped, SayingsAssumption
<1>5. TypeOK'
  BY <1>1, <1>3, <1>4 DEF IInv, TypeOK
<1>6. ClustersInStep' /\ CapabilitiesInStep'
  BY <1>1, <1>2, <1>3 DEF ClustersInStep, CapabilitiesInStep
<1>7. (KindsKnown /\ IdsUnique /\ CapabilitiesResolve /\ MembersResolve /\ MountsListed)'
  BY <1>1, <1>2 DEF IInv, KindsKnown, IdsUnique, CapabilitiesResolve, MembersResolve, MountsListed, Published
<1>8. AgentsReportUp' /\ Observed' /\ StartsEmpty'
  BY <1>1 DEF IInv, AgentsReportUp, Observed, ServicesRead, StartsEmpty
<1> QED BY <1>5, <1>6, <1>7, <1>8 DEF IInv

LEMMA FinishStep ==
    ASSUME IInv, Finish
    PROVE  IInv'
<1>1. /\ at = "alerts" /\ at' = "built" /\ UNCHANGED <<listed, todo, status, outage>>
      /\ UNCHANGED <<resources, capabilityResource, clustersByResource, siteMembers>>
  BY DEF Finish, draft, ledger
<1>2. TypeOK'
  BY <1>1 DEF IInv, TypeOK
<1>3. (ClustersInStep /\ CapabilitiesInStep)'
  BY <1>1 DEF IInv, ClustersInStep, CapabilitiesInStep, AddedClusters
<1>4. KindsKnown'
  BY <1>1, KindsStay DEF IInv, KindsKnown, StorageRead, BucketsRead, ServicesRead
<1>5. (IdsUnique /\ CapabilitiesResolve /\ MembersResolve /\ MountsListed)'
  BY <1>1 DEF IInv, IdsUnique, CapabilitiesResolve, MembersResolve, MountsListed, Published
<1>6. (AgentsReportUp /\ Observed /\ StartsEmpty)'
  BY <1>1 DEF IInv, AgentsReportUp, Observed, ServicesRead, StartsEmpty
<1> QED BY <1>2, <1>3, <1>4, <1>5, <1>6 DEF IInv

LEMMA Initially == Init => IInv
<1> SUFFICES ASSUME Init PROVE IInv
  OBVIOUS
<1>1. /\ at = "idle" /\ DOMAIN listed = {} /\ todo = {}
      /\ resources = {} /\ DOMAIN capabilityResource = {} /\ DOMAIN clustersByResource = {}
      /\ siteMembers = [s \in Site |-> {}] /\ status = [r \in Resource |-> None] /\ outage = [r \in Resource |-> FALSE]
  BY DEF Init, Ledger!Init
<1>2. TypeOK
  BY <1>1 DEF TypeOK
<1>3. ClustersInStep /\ CapabilitiesInStep /\ StartsEmpty
  BY <1>1 DEF ClustersInStep, CapabilitiesInStep, AddedClusters, StartsEmpty
<1>4. KindsKnown /\ IdsUnique /\ CapabilitiesResolve /\ MountsListed /\ Observed /\ MembersResolve
  BY <1>1 DEF KindsKnown, IdsUnique, CapabilitiesResolve, MountsListed, Observed, MembersResolve
<1>5. AgentsReportUp
  BY <1>1, IdsAreResources DEF AgentsReportUp
<1> QED BY <1>2, <1>3, <1>4, <1>5 DEF IInv

LEMMA NextStep ==
    ASSUME IInv, Next
    PROVE  IInv'
<1>1. CASE Begin \/ Fail
  BY <1>1, EmptyStep DEF Begin, Fail
<1>2. CASE Finish
  BY <1>2, FinishStep
<1>3. ASSUME NEW answer \in Listing(Cluster), ListClusters(answer) PROVE IInv'
  BY <1>3, ListClustersStep
<1>4. ASSUME NEW c \in todo, NEW detail \in {NoDetail} \cup (IF c \in Managed THEN Detail ELSE {}), AddCluster(c, detail) PROVE IInv'
  BY <1>4, DetailTyped, AddClusterStep
<1>5. ASSUME NEW items \in Listing(Shared), ListStorage(items) PROVE IInv'
  BY <1>5, ListStorageStep
<1>6. ASSUME NEW items \in Listing(Bucket), ListBuckets(items) PROVE IInv'
  BY <1>6, ListBucketsStep
<1>7. ASSUME NEW items \in Listing(Provider), ListServices(items) PROVE IInv'
  BY <1>7, ListServicesStep
<1> QED BY <1>1, <1>2, <1>3, <1>4, <1>5, <1>6, <1>7 DEF Next

LEMMA StutterStep ==
    ASSUME IInv, UNCHANGED vars
    PROVE  IInv'
<1> USE DEF vars, draft, ledger, IInv
<1>1. TypeOK' /\ ClustersInStep' /\ CapabilitiesInStep' /\ StartsEmpty'
  BY DEF TypeOK, ClustersInStep, CapabilitiesInStep, AddedClusters, StartsEmpty
<1>2. KindsKnown'
  BY KindsStay DEF KindsKnown, StorageRead, BucketsRead, ServicesRead
<1>3. (IdsUnique /\ CapabilitiesResolve /\ MembersResolve /\ MountsListed)'
  BY DEF IdsUnique, CapabilitiesResolve, MembersResolve, MountsListed, Published
<1>4. (AgentsReportUp /\ Observed)'
  BY DEF AgentsReportUp, Observed, ServicesRead
<1> QED BY <1>1, <1>2, <1>3, <1>4

LEMMA Invariance == Spec => []IInv
<1>1. IInv /\ [Next]_vars => IInv'
  BY NextStep, StutterStep
<1> QED BY <1>1, Initially, PTL DEF Spec

-----------------------------------------------------------------------------
(* The theorems.                                                           *)

\* Every reachable state of the build is well typed (inventory.py
\* InventoryBuilder.build).
THEOREM TypeCorrect == Spec => []TypeOK
<1>1. IInv => TypeOK
  BY DEF IInv
<1> QED BY <1>1, Invariance, PTL

\* At any time of a build, an operation on a published mount runs on the one
\* cluster it is mounted on, a selected one (inventory.py Inventory.cluster_for).
LEMMA MountsLeadToCluster ==
    ASSUME IInv, NEW m \in resources, m.mountedOn # {}
    PROVE  m.mountedOn = {ClusterId(ClusterFor(m.id))} /\ ClusterFor(m.id) \in Selected
<1>1. PICK c \in AddedClusters, x \in Mountpoint \cup Shared : m.id = MountId(c, x) /\ m.mountedOn = {ClusterId(c)}
  BY DEF IInv, KindsKnown, HasKind, IsCluster, IsNodeFilesystem, IsNodeMount, IsSharedMount, IsItem
<1>2. m.id \notin DOMAIN clustersByResource
  BY <1>1, IdsDiffer DEF IInv, ClustersInStep
<1>3. {r \in resources : r.id = m.id} = {m}
  BY DEF IInv, IdsUnique
<1>4. MountedOn(m.id) = {ClusterId(c)}
  BY <1>1, <1>3 DEF MountedOn
<1>5. ClusterId(c) \in DOMAIN clustersByResource /\ clustersByResource[ClusterId(c)].name = c
  BY DEF IInv, ClustersInStep
<1>6. MountedOn(m.id) \cap DOMAIN clustersByResource = {ClusterId(c)}
  BY <1>4, <1>5
<1>7. ClusterFor(m.id) = c
  <2>1. (CHOOSE t \in {ClusterId(c)} : TRUE) = ClusterId(c)
    OBVIOUS
  <2> QED BY <1>2, <1>5, <1>6, <2>1 DEF ClusterFor
<1>8. c \in Selected
  BY DEF IInv, ClustersInStep, AddedClusters
<1> QED BY <1>1, <1>7, <1>8

\* The ids in a built inventory resolve, whatever reads failed and whatever the
\* platform answered between two of them (inventory.py InventoryBuilder.build).
THEOREM ReferencesResolveAlways == Spec => []ReferencesResolve
<1>1. IInv => ReferencesResolve
  BY MountsLeadToCluster DEF IInv, ReferencesResolve, MountsListed, MountsResolve
<1> QED BY <1>1, Invariance, PTL

\* The ledger has last seen what a built inventory publishes, and has no incident
\* open on what is up (inventory.py InventoryBuilder.build, StatusLedger.observe).
THEOREM StatusesAgreeAlways == Spec => []StatusesAgree
<1>1. IInv => StatusesAgree
  BY DEF IInv, StatusesAgree, Observed, ServicesRead
<1> QED BY <1>1, Invariance, PTL

\* Only the last observe of a build touches the ledger, each resource that is
\* published then and no other.
LEMMA LedgerStep ==
    ASSUME IInv, [Next]_vars
    PROVE  \/ UNCHANGED ledger
           \/ /\ UNCHANGED <<listed, todo, clustersByResource>>
              /\ \A r \in resources' : outage'[r.id] <=> r.status # "up" /\ (outage[r.id] \/ Ledger!StartsOutage(r.id, r.status))
              /\ \A id \in Resource : (\A r \in resources' : r.id # id) => outage'[id] = outage[id]
<1>1. CASE \E items \in Listing(Provider) : ListServices(items)
  <2>1. IInv'
    BY <1>1, ListServicesStep
  <2>2. Observe(resources') /\ UNCHANGED <<listed, todo, clustersByResource>>
    BY <1>1 DEF ListServices
  <2> QED BY <2>1, <2>2, ObserveEffect DEF IInv, TypeOK
<1>2. CASE UNCHANGED vars
  BY <1>2 DEF vars
<1>3. CASE Next /\ ~ \E items \in Listing(Provider) : ListServices(items)
  BY <1>3 DEF Next, Begin, Fail, Finish, ListClusters, AddCluster, ListStorage, ListBuckets
<1> QED BY <1>1, <1>2, <1>3

\* An incident ends only when a build publishes its resource as up (inventory.py
\* StatusLedger.observe, called by InventoryBuilder.build).
THEOREM OutageEndsWhenUpAlways == Spec => OutageEndsWhenUp
<1>1. ASSUME IInv, [Next]_vars, NEW id \in Resource, outage[id], ~outage'[id]
      PROVE  \E r \in resources' : r.id = id /\ r.status = "up"
  BY <1>1, LedgerStep DEF ledger
<1>2. IInv /\ [Next]_vars => [\A id \in Resource : outage[id] /\ ~outage'[id] => \E r \in resources' : r.id = id /\ r.status = "up"]_vars
  BY <1>1
<1> QED BY <1>2, Invariance, PTL DEF Spec, OutageEndsWhenUp

\* A read that fails starts no incident: a cluster's starts where the list or the
\* detail says that something is wrong, and what its agent reports has none
\* (inventory.py InventoryBuilder.build, inventory.py cluster_status).
THEOREM FailuresStartNoOutageAlways == Spec => FailuresStartNoOutage
<1> DEFINE Told(c) == \/ listed[c].status \notin {"active", "on", ""} \/ listed[c].updateFailed
                      \/ LET detail == clustersByResource[ClusterId(c)].detail IN
                         detail.status \notin {"active", "on", ""} \/ detail.updateFailed
<1>1. ASSUME IInv, [Next]_vars, NEW c \in Cluster, ~outage[ClusterId(c)], outage'[ClusterId(c)], ~Told(c)
      PROVE  FALSE
  <2>1. IInv'
    BY <1>1, NextStep, StutterStep
  <2>2. ClusterId(c) \in Resource
    BY IdsAreResources
  <2>3. /\ UNCHANGED <<listed, todo, clustersByResource>>
        /\ \A r \in resources' : outage'[r.id] <=> r.status # "up" /\ (outage[r.id] \/ Ledger!StartsOutage(r.id, r.status))
        /\ \A id \in Resource : (\A r \in resources' : r.id # id) => outage'[id] = outage[id]
    BY <1>1, LedgerStep DEF ledger
  <2>4. PICK r \in resources' : r.id = ClusterId(c) /\ r.status # "up" /\ Ledger!StartsOutage(r.id, r.status)
    BY <1>1, <2>2, <2>3
  <2>5. HasKind(r)'
    BY <2>1, <2>4 DEF IInv, KindsKnown
  <2>6. c \in AddedClusters /\ r.status = ClusterStatus(c, Merged(listed[c], clustersByResource[ClusterId(c)].detail))
    BY <2>3, <2>4, <2>5, IdsDiffer
       DEF HasKind, IsCluster, IsNodeFilesystem, IsNodeMount, IsSharedMount, IsItem, AddedClusters
  <2>7. listed[c] \in [status : STRING, updateFailed : BOOLEAN] /\ clustersByResource[ClusterId(c)].detail \in Detail
    BY <1>1, <2>6 DEF IInv, TypeOK, ClustersInStep, AddedClusters
  <2>8. LET said == Merged(listed[c], clustersByResource[ClusterId(c)].detail) IN
        said.status \in {"active", "on", ""} /\ said.updateFailed = FALSE
    BY <1>1, <2>7 DEF Merged, Detail
  <2>9. r.status \notin {"up", "unknown"}
    BY <2>4 DEF Ledger!StartsOutage, Ledger!Impaired
  <2> QED BY <2>6, <2>8, <2>9, ClusterStatusKnown
<1>2. ASSUME IInv, [Next]_vars, NEW c \in Cluster, NEW m \in Mountpoint
      PROVE  ~outage'[FilesystemId(c, m)] /\ ~outage'[MountId(c, m)]
  BY <1>2, NextStep, StutterStep DEF IInv, AgentsReportUp
<1>3. IInv /\ [Next]_vars =>
        [/\ \A c \in Cluster : ~outage[ClusterId(c)] /\ outage'[ClusterId(c)] => Told(c)
         /\ \A c \in Cluster, m \in Mountpoint : ~outage'[FilesystemId(c, m)] /\ ~outage'[MountId(c, m)]]_vars
  BY <1>1, <1>2
<1> QED BY <1>3, Invariance, PTL DEF Spec, FailuresStartNoOutage
=============================================================================
