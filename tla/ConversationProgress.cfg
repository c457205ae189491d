CONSTANTS
    k1 = k1
    k2 = k2
    Keys = {k1}
    Watched = {k1}
    MaxReplies = 1
    MaxAttempts = 2
    MaxFragments = 2
    MaxExtras = 1
    MaxFaults = 1
SPECIFICATION FairSpec
INVARIANTS FragmentsOfOneAttempt
PROPERTIES EveryReplyEnds
CHECK_DEADLOCK FALSE
