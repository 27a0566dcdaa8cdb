\* A gated delete run again after it landed: ReplaysAreDeduplicated fails.
CONSTANTS
    Calls <- MCCalls
    Workloads <- MCWorkloads
    Sessions <- MCSessions
    NoSession = NoSession
    NoEvent = NoEvent
    e1 = e1
    Kinds <- MCKinds
    Scopes <- MCScopes
    Tier2 = {"off", "conflict", "approve", "unavailable"}
    ConnRetries = 2
    MaxIntents = 1
SPECIFICATION Spec
INVARIANT ReplaysAreDeduplicated
CHECK_DEADLOCK FALSE
