CONSTANTS
    owner = owner
    stranger = stranger
    p1 = p1
    p2 = p2
    a1 = a1
    deepseek = deepseek
    codex = codex
    Requests = {a1}
    Identities = {owner, stranger}
    Owner = owner
    Providers = {deepseek, codex}
    Processes = {p1, p2}
    Scripts <- ShortScripts
    Specs <- BuildSpecs
    SpendTables <- BuildSpend
    BatchLimit = 2
    MaxEnds = 1
    MaxFaults = 2
SPECIFICATION Spec
INVARIANTS OneDecision AcknowledgedIsDone StickersAreTracked AnswersAreNew
PROPERTIES EndsAreTold
CONSTRAINT Apart
SYMMETRY Symmetry
CHECK_DEADLOCK FALSE
