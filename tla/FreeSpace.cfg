SPECIFICATION Spec
CONSTANTS
    TotalBlocks = 8
    MaxRequest = 3
INVARIANTS Apart Partition NoFalseOutOfSpace
PROPERTIES RefinesFreePool
