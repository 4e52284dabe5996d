SPECIFICATION Spec
CONSTANTS
    Name = {a, b}
    BadName = {}
    HashValue = {a, b}
    Hash <- Colliding
    Offset = {0}
    NoInode = NoInode
    NoEntry = NoEntry
    MaxInode = 3
    MaxBirths = 2
    MaxFaults = 0
PROPERTIES CreateKeepsOtherNames
