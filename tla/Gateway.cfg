SPECIFICATION FairSpec
CONSTANTS
    k1 = k1
    k2 = k2
    s1 = s1
    r1 = r1
    r2 = r2
    r3 = r3
    Procs = {p1, p2}
    Keys = {k1, k2}
    Scopes = {s1}
    Budget <- MCBudget
    Requests = {r1, r2, r3}
    KeyOf <- MCKeyOf
    ScopeOf <- MCScopeOf
    MaxCost <- MCMaxCost
    RoutesOf <- MCRoutesOf
    Registered = {"deepseek", "claude"}
    Costs = {0, 1, 3}
INVARIANTS
    WithinBudget
    AccountsMatchRows
    OneCallPerKey
    SettledAsMetered
PROPERTIES
    ImplementsEscrow
    DispatchedIsSettled
