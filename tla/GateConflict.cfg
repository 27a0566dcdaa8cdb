\* A delete confirmed in spite of its intent's conflict: ConflictBlocksDelete
\* fails.
CONSTANTS
    Calls <- MCCalls
    Workloads <- MCWorkloads
    Sessions <- MCSessions
    NoSession = NoSession
    NoEvent = NoEvent
    e1 = e1
    Kinds <- MCKinds
    Scopes <- MCScopes
    Tier2 = {"off"}
    ConnRetries = 2
    MaxIntents = 1
SPECIFICATION Spec
PROPERTY ConflictBlocksDelete
CHECK_DEADLOCK FALSE
