\* Three memories fill two segments of the smaller context; the largest text
\* passes the soft limit of the smaller context but not its length.
CONSTANTS
    Texts = {"a", "b", "c"}
    Tokens <- MCTokens
    Contexts = {16, 20}
    MaxSegments = 2
    MaxMemories = 3
    None = None
    Rankings <- MCRankings
    TopK = {0, 1, 2}
SPECIFICATION AllSpec
VIEW View
INVARIANTS
    TypeOK
    CountsAreSafe
    SegmentsFit
    PlanIsGreedy
    RebuildSucceeds
    OneshotFits
    AnswerIsSound
PROPERTIES
    NoSegmentCrowdedOut
