SPECIFICATION Spec
CONSTANTS
    DataStart = 0
    LastAddr = 3
    DeviceEnd = 3
    Content = {c1, c2}
    NoBlock = NoBlock
    Damaged = Damaged
    Corrupt = Corrupt
    BlockSize = 4096
    JournalBlocks = 3
    MaxTx = 3
    MaxFaults = 3
    MaxSbDamage = 2
    CallerRetries = FALSE
    RotAnytime = FALSE
SYMMETRY ContentSymmetry
INVARIANTS MountIntact AtomicDurable
PROPERTIES TxNeverGoesBack RefinesAtomicVolume
