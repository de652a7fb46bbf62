\* Two sessions of two segments; blobs of 0..2 bytes; a budget of 3 is
\* exceeded by two large blobs, or after an export in place.
CONSTANTS
    s1 = s1
    s2 = s2
    g1 = g1
    g2 = g2
    Sessions = {s1, s2}
    Segments = {g1, g2}
    Budget = 3
    MaxSnapshotBytes = 2
SPECIFICATION Spec
SYMMETRY Symmetry
CONSTRAINT FewEntries
INVARIANTS
    TypeOK
    BytesAccounted
PROPERTIES
    BudgetEnforced
    StoreEvictsMinimally
