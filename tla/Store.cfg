\* Three calls over three keys, two upstream states, three moments.
CONSTANTS
    Jobs <- MCJobs
    Workloads <- MCWorkloads
    PlainKeys = 3
    Values = {"a", "b", "c"}
    Kinds = {"note", "claim", "handoff", "config", "knowledge"}
    Commits = {"c1", "c2"}
    Upstream <- MCUpstream
    MaxNow = 2
    Reconnects = 2
    Attempts = 2
    ProjectMeta = 3
    Procs = {"p", "q"}
    Labels <- MCLabels
    CacheTTL = 2
    Chunk = 2
    InlineLimit = 2
    MaxBytes = 4
    Cosine <- MCCosine
    Hits = {"b", "c"}
    Floor = 45
    Alpha = 85
    Staleness = 1
    HealthLimit = 2
    BatonLimit = 2
    ReconcileLimit = 2
    WebhookLimit = 2
SPECIFICATION Spec
INVARIANTS
    TypeOK
    WalkIsFaithful
    SearchedRowsWereLive
    FusionRespectsLegs
    VerdictIsAboutTheRow
    ClosuresAreAccountedFor
    SavesAreNotBuried
    CurrentMeansSeen
    BootstrapIsCandid
    EventsOnceInOrder
    InitLeavesPolicyAlone
    RotatedTokenStops
    ArtifactsAreWhole
CHECK_DEADLOCK FALSE
