\* Whether what is published with a filesystem endpoint has one, on the instance
\* of MCInventoryBuild.cfg.
CONSTANTS
    Cluster = {"c1", "c2", "c3"}
    Managed = {"c1"}
    Cloud = {"c2"}
    Mountpoint = {"m"}
    Partition = {"g"}
    Gpu = {"g"}
    Shared = {"l"}
    Bucket = {"b"}
    DetailStatus = {"", "failed"}
    Provider = {"p"}
    Selected = {"c1", "c2"}
    ExecutionClusters = {}
    ElasticStatus = "up"
    DefaultSite = "lab"
    None = None
    MaySay <- MCMaySay
    SiteOrder <- MCSiteOrder
    Rules <- MCRules
    Attribute <- MCAttribute
SPECIFICATION Spec
INVARIANTS
    EndpointsResolve
