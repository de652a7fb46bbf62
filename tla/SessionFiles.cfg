\* Two texts, so that a count and the records it counts can disagree; two
\* changes of the settings, so that session.meta can be older than a memory.
CONSTANTS
    a = a
    b = b
    None = None
    Texts = {a, b}
    Systems = {"sys"}
    MaxMemories = 3
    MaxSettings = 2
SPECIFICATION Spec
INVARIANTS
    TypeOK
    AckedSurvives
    CleanMeansLoadable
    GoneStaysGone
    RestoresPrefix
PROPERTIES
    DurableSpec
