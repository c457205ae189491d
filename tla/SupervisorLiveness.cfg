SPECIFICATION FairSpec
CONSTANTS
    t1 = t1
    t2 = t2
    k1 = k1
    Tasks = {t1, t2}
    Contracts = {k1}
    ContractOf <- MCContractOf
    MaxAttempts <- MCMaxAttempts
    TaskMax <- MCTaskMax
    ContractMax <- MCContractMax
    CostIds = {c1}
    Amounts = {2}
    Ttl = 1
    ReplyTasks = {t1}
    Procs = {p1}
    Rank <- MCRank
    Window = 1
    NoDriver = {t2}
    SequenceTtl = 1
    MaxFaults = 1
PROPERTIES
    QueuedWorkEnds
    HeldWorkIsReleased
