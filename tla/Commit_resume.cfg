SPECIFICATION FairSpec
CONSTANTS
    DataStart = 0
    LastAddr = 2
    DeviceEnd = 3
    Content = {c1, c2}
    NoBlock = NoBlock
    Damaged = Damaged
    Corrupt = Corrupt
    BlockSize = 4096
    JournalBlocks = 2
    MaxTx = 3
    MaxFaults = 2
    MaxSbDamage = 1
    CallerRetries = TRUE
    RotAnytime = FALSE
PROPERTIES RefinesAtomicVolume ComesBackUp
