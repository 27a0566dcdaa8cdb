\* A trigger nobody validated escalates: UnvalidatedNeverEscalates fails.
CONSTANTS
    k1 = k1
    k2 = k2
    g1 = g1
    g2 = g2
    Skills = {k1, k2}
    Goals = {g1, g2}
    Prohibited = {g1}
    AnySkill = AnySkill
    NoGoal = NoGoal
    MaxNow = 1
    Jobs <- MCJobs
    Workloads <- MCWorkloads
SPECIFICATION Spec
INVARIANT UnvalidatedNeverEscalates
CHECK_DEADLOCK FALSE
