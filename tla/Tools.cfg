SPECIFICATION ToolsSpec
SYMMETRY ContentSymmetry
CONSTANTS
    DataStart = 0
    LastAddr = 3
    DeviceEnd = 3
    Content = {c1, c2}
    NoBlock = NoBlock
    Damaged = Damaged
    Corrupt = Corrupt
    BlockSize = 4096
    JournalBlocks = 3
    MaxTx = 4
    MaxFaults = 2
    MaxSbDamage = 2
    CallerRetries = FALSE
    RotAnytime = FALSE
    FileCount = 1
INVARIANTS IntactUnlessTorn NoStaleReplay WholeFilesOnly
PROPERTIES InspectionKeepsTree
