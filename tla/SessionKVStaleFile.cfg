\* One segment, no budget: appending to a persisted segment.
CONSTANTS
    a = a
    None = None
    Husk = Husk
    Texts = {a}
    Systems = {}
    MaxMemories = 2
    MaxSegments = 1
    UseNative = FALSE
    Budgeted = FALSE
    PlanMayFail = FALSE
    CopyMayBeLost = FALSE
SPECIFICATION Spec
VIEW View
INVARIANTS
    PersistedFilesAreCurrent
