---------------------------- MODULE MCSupervisor ----------------------------
EXTENDS Supervisor, TLC
CONSTANTS t1, t2, k1
MCContractOf == [t \in Tasks |-> k1]
MCMaxAttempts == [t \in Tasks |-> IF t = t1 THEN 2 ELSE 1]
MCTaskMax == [t \in Tasks |-> 2]
MCContractMax == [c \in Contracts |-> 2]
(* The processes run one program: exchanging them changes nothing.         *)
MCSymmetry == Permutations(Procs)
MCRank == [t \in Tasks |-> IF t = t1 THEN 1 ELSE 2]
=============================================================================
