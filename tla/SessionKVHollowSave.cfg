\* The native engine, one segment, no budget.
CONSTANTS
    a = a
    None = None
    Husk = Husk
    Texts = {a}
    Systems = {}
    MaxMemories = 1
    MaxSegments = 1
    UseNative = TRUE
    Budgeted = FALSE
    PlanMayFail = FALSE
    CopyMayBeLost = FALSE
SPECIFICATION Spec
VIEW View
INVARIANTS
    IndexedCanBeSaved
