\* The reference engine with a budget, so that a search also streams; two
\* segments, so that a search has something to leave out or to repeat.
CONSTANTS
    a = a
    None = None
    Husk = Husk
    Texts = {a}
    Systems = {}
    MaxMemories = 2
    MaxSegments = 2
    UseNative = FALSE
    Budgeted = TRUE
    PlanMayFail = FALSE
    CopyMayBeLost = TRUE
SPECIFICATION FairSpec
PROPERTIES
    DurableSpec
    SearchableSpec
    CommandEnds
