\* The native engine, whose KV is built without a snapshot; a system text can
\* be set, so that a session made again under an old id differs from the old.
CONSTANTS
    a = a
    None = None
    Husk = Husk
    Texts = {a}
    Systems = {"sys"}
    MaxMemories = 2
    MaxSegments = 2
    UseNative = TRUE
    Budgeted = TRUE
    PlanMayFail = FALSE
    CopyMayBeLost = TRUE
SPECIFICATION Spec
VIEW View
INVARIANTS
    PlanCoversMemories
    ResidentIsCurrent
    SearchReadsCurrent
    OneLiveContext
    CleanIsNeverOld
    IndexedMeansSearchable
    PersistedMeansRestorable
    FactsBeforeKV
PROPERTIES
    OnlyDeleteLoses
