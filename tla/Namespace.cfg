SPECIFICATION Spec
CONSTANTS
    Name = {a, b, c}
    BadName = {c}
    HashValue = {a, b, c}
    Hash <- Distinct
    Offset = {0}
    NoInode = NoInode
    NoEntry = NoEntry
    MaxInode = 3
    MaxBirths = 3
    MaxFaults = 1
SYMMETRY NameSymmetry
INVARIANTS EntriesResolve OneName ExtentsOwned HandlesStable
PROPERTY RefinesNameMap
