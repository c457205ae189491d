CONSTANTS
    c1 = c1
    c2 = c2
    Callers = {c1, c2}
    Keys = {"draft"}
    FormKey = "form"
    MaxMessages = 1
    MaxTasks = 2
    MaxAttempts = 2
    MaxFaults = 1
SPECIFICATION Spec
INVARIANTS DecidedOnce OneTranslationWins GeneratedAsApproved
CONSTRAINT Apart
SYMMETRY Symmetry
CHECK_DEADLOCK FALSE
