CONSTANTS
    Scanned <- MCScanned
    Extras = {"x"}
    MaxChunks <- MCMaxChunks
    MaxEdits = 2
    Husk = Husk
    None = None
SPECIFICATION Spec
INVARIANTS
    TypeOK
    LocalRecordsExist
    IndexIsComplete
    ResetForgets
