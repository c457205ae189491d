-------------------------- MODULE MCWorkRepository --------------------------
EXTENDS WorkRepository
CONSTANTS t1, t2, k1
MCContractOf == [t \in Tasks |-> k1]
MCMaxAttempts == [t \in Tasks |-> IF t = t1 THEN 2 ELSE 1]
MCTaskMax == [t \in Tasks |-> IF t = t1 THEN 2 ELSE 1]
MCContractMax == [c \in Contracts |-> 2]
=============================================================================
