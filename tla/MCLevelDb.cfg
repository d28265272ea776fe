CONSTANTS
    Keys <- MCKeys
    Values = {empty, v}
    Empty = empty
    Absent = absent
    Deleters = {d1, d2}
    MaxWrites = 2
    MaxBatch = 1
    Calls = {"snapshot", "iter"}
SPECIFICATION Spec
SYMMETRY Symmetry
INVARIANTS
    PassIsExact
    NonEmptyIsDeleted
