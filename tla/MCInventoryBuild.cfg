\* A managed cluster with a node, a mount and a GPU partition, whose status the
\* list may leave to the detail; a cloud cluster; a cluster that the filters leave
\* out.  A shared filesystem attached to one of them, two or all, or gone between
\* two reads; one bucket, one provider.  Every
\* read of the control plane may fail in any build; builds go on for ever and
\* the state space is finite.
CONSTANTS
    Cluster = {"c1", "c2", "c3"}
    Managed = {"c1"}
    Cloud = {"c2"}
    Mountpoint = {"m"}
    Partition = {"g"}
    Gpu = {"g"}
    Shared = {"l"}
    Bucket = {"b"}
    DetailStatus = {"", "failed"}
    Provider = {"p"}
    Selected = {"c1", "c2"}
    ExecutionClusters = {}
    ElasticStatus = "up"
    DefaultSite = "lab"
    None = None
    MaySay <- MCMaySay
    SiteOrder <- MCSiteOrder
    Rules <- MCRules
    Attribute <- MCAttribute
SPECIFICATION Spec
INVARIANTS
    ReferencesResolve
    StatusesAgree
PROPERTIES
    OutageEndsWhenUp
    FailuresStartNoOutage
