-------------------------- MODULE MCGatewayLedger --------------------------
EXTENDS GatewayLedger
CONSTANTS k1, k2, s1, r1, r2, r3
MCBudget == [s \in Scopes |-> 3]
MCKeyOf == [r \in Requests |-> IF r = r2 THEN k2 ELSE k1]
MCScopeOf == [r \in Requests |-> s1]
MCMaxCost == [r \in Requests |-> IF r = r3 THEN 1 ELSE 2]
MCRoutesOf == [r \in Requests |-> IF r = r2 THEN {"deepseek", "codex"}
                                            ELSE {"claude"}]
=============================================================================
