\* Pages of a filtered list against writers.
CONSTANTS
    Jobs <- MCJobs
    Workloads <- ListWorkloads
    PlainKeys = 3
    Values = {"a", "b", "c"}
    Kinds = {"note", "claim", "handoff", "config", "knowledge"}
    Commits = {"c1", "c2"}
    Upstream <- MCUpstream
    MaxNow = 2
    Reconnects = 2
    Attempts = 2
    ProjectMeta = 3
    Procs = {"p", "q"}
    Labels <- MCLabels
    CacheTTL = 2
    Chunk = 2
    InlineLimit = 2
    MaxBytes = 4
    Cosine <- MCCosine
    Hits = {"b", "c"}
    Floor = 45
    Alpha = 85
    Staleness = 1
    HealthLimit = 2
    BatonLimit = 2
    ReconcileLimit = 2
    WebhookLimit = 2
SPECIFICATION Spec
INVARIANT ListedIsLatest
CHECK_DEADLOCK FALSE
