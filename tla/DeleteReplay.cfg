\* A delete replayed after its kind changed: ReplayCollapses fails.
CONSTANTS
    Calls <- MCCalls
    NoEvent = NoEvent
    e1 = e1
    e2 = e2
    MaxRetries = 2
    ConnRetries = 2
    HistoryLimit = 2
    PoolSize = 2
    Requests <- MCRequests
    Workloads <- MCWorkloads
    Kinds <- MCKinds
SPECIFICATION Spec
INVARIANT ReplayCollapses
CHECK_DEADLOCK FALSE
