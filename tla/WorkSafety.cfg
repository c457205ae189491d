SPECIFICATION Spec
CONSTANTS
    t1 = t1
    t2 = t2
    k1 = k1
    Tasks = {t1, t2}
    Contracts = {k1}
    ContractOf <- MCContractOf
    MaxAttempts <- MCMaxAttempts
    TaskMax <- MCTaskMax
    ContractMax <- MCContractMax
    CostIds = {c1, c2}
    Amounts = {1}
    Ttl = 2
    ReplyTasks = {t1}
INVARIANTS
    HeldAttempt
    FencedAttempts
    HeldWithinBudget
    OneSuccess
    SpentIsSumOfCosts
PROPERTIES
    ImplementsFencedWork
