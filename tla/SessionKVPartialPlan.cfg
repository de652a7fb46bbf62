\* A token estimate fails while the plan is rebuilt after a restart.
CONSTANTS
    a = a
    None = None
    Husk = Husk
    Texts = {a}
    Systems = {}
    MaxMemories = 2
    MaxSegments = 2
    UseNative = FALSE
    Budgeted = FALSE
    PlanMayFail = TRUE
    CopyMayBeLost = FALSE
SPECIFICATION Spec
VIEW View
INVARIANTS
    PlanCoversMemories
