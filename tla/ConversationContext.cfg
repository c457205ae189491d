CONSTANTS
    k1 = k1
    k2 = k2
    Keys = {k1, k2}
    Watched = {}
    MaxReplies = 2
    MaxAttempts = 1
    MaxFragments = 0
    MaxExtras = 0
    MaxFaults = 0
SPECIFICATION Spec
INVARIANTS ProviderHasTheThread
CHECK_DEADLOCK FALSE
