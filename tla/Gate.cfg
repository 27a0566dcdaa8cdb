\* Blocks, tokens, overrides, retries and every outcome of Tier 2.
CONSTANTS
    Calls <- MCCalls
    Workloads <- MCWorkloads
    Sessions <- MCSessions
    NoSession = NoSession
    NoEvent = NoEvent
    e1 = e1
    Kinds <- MCKinds
    Scopes <- MCScopes
    Tier2 = {"off", "conflict", "approve", "unavailable"}
    ConnRetries = 2
    MaxIntents = 2
SPECIFICATION Spec
INVARIANTS
    TypeOK
    TokenSpentOnce
    DeletesAreConfirmed
    FalsePositivesLanded
PROPERTY
    VerdictsFinal
CHECK_DEADLOCK FALSE
