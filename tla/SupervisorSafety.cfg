SPECIFICATION SupSpec
CONSTANTS
    t1 = t1
    t2 = t2
    k1 = k1
    Tasks = {t1}
    Contracts = {k1}
    ContractOf <- MCContractOf
    MaxAttempts <- MCMaxAttempts
    TaskMax <- MCTaskMax
    ContractMax <- MCContractMax
    CostIds = {}
    Amounts = {1}
    Ttl = 1
    ReplyTasks = {t1}
    Procs = {p1, p2}
    Rank <- MCRank
    Window = 2
    NoDriver = {}
    SequenceTtl = 1
    MaxFaults = 2
INVARIANTS
    SupTypeOK
    SucceededIsEvidenced
    EvidenceOfOwnAttempt
    ReportedAsRecorded
PROPERTIES
    CheckpointsAscend
    EngineSteps
SYMMETRY MCSymmetry
