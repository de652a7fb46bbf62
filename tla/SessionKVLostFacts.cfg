\* One segment of one memory, no budget: a delete that fails, then a save.
CONSTANTS
    a = a
    None = None
    Husk = Husk
    Texts = {a}
    Systems = {}
    MaxMemories = 1
    MaxSegments = 1
    UseNative = FALSE
    Budgeted = FALSE
    PlanMayFail = FALSE
    CopyMayBeLost = TRUE
SPECIFICATION Spec
VIEW View
INVARIANTS
    SavedSurvivesRestart
