CONSTANTS
    k1 = k1
    k2 = k2
    Keys = {k1, k2}
    Watched = {}
    MaxReplies = 2
    MaxAttempts = 2
    MaxFragments = 0
    MaxExtras = 1
    MaxFaults = 1
SPECIFICATION Spec
INVARIANTS AnswerSawTheThread SucceededIsAnswered
PROPERTIES ImplementsThread
SYMMETRY Symmetry
CHECK_DEADLOCK FALSE
