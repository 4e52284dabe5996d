SPECIFICATION Spec
CONSTANTS
    BlockCells = 4
    JournalBlocks = 4
    SectorCells = 2
    Dirty <- DirtyCaches
    FlipBits = {0}
    MaxCommits = 3
    MaxTxid = 4
    MaxFaults = 2
INVARIANTS ReplaysOneCommit TableMatchesDivision
PROPERTIES SealedIsReplayed
