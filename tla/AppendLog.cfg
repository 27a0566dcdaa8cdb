\* Three concurrent calls over a pool of two connections.
CONSTANTS
    Calls <- MCCalls
    NoEvent = NoEvent
    e1 = e1
    e2 = e2
    MaxRetries = 2
    ConnRetries = 2
    HistoryLimit = 2
    PoolSize = 2
    Requests <- MCRequests
    Workloads <- MCWorkloads
    Kinds <- MCKinds
SPECIFICATION FairSpec
INVARIANTS
    TypeOK
    RevisionsDense
    AppliedOnce
    AckTruthful
    RefusedLeavesNothing
    VerificationFailureIsOverrun
    NoHoldAndWait
PROPERTIES
    AppendOnly
    EveryCallAnswered
    ImplementsExactlyOnceLog
CHECK_DEADLOCK FALSE
