\* The reference engine: a segment of three memories can grow twice, and the
\* memories can fill two segments; a resident budget may evict.
CONSTANTS
    a = a
    None = None
    Husk = Husk
    Texts = {a}
    Systems = {}
    MaxMemories = 3
    MaxSegments = 2
    UseNative = FALSE
    Budgeted = TRUE
    PlanMayFail = TRUE
    CopyMayBeLost = FALSE
SPECIFICATION Spec
VIEW SilentView
INVARIANTS
    TypeOK
    ResidentIsCurrent
    PrefixCanGrow
    SearchReadsCurrent
    OneLiveContext
    ReferenceKeepsSnapshots
