SPECIFICATION FairSpec
CONSTANTS
    DataStart = 0
    LastAddr = 2
    DeviceEnd = 2
    Content = {c1, c2}
    NoBlock = NoBlock
    Damaged = Damaged
    Corrupt = Corrupt
    BlockSize = 4096
    JournalBlocks = 4
    MaxTx = 2
    MaxFaults = 0
    MaxSbDamage = 0
    CallerRetries = FALSE
    RotAnytime = FALSE
PROPERTY ComesBackUp
