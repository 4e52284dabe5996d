SPECIFICATION Spec
CONSTANTS
    DataStart = 0
    LastAddr = 2
    DeviceEnd = 3
    Content = {c1, c2}
    NoBlock = NoBlock
    Damaged = Damaged
    Corrupt = Corrupt
    BlockSize = 4096
    JournalBlocks = 4
    MaxTx = 3
    MaxFaults = 1
    MaxSbDamage = 0
    CallerRetries = FALSE
    RotAnytime = FALSE
INVARIANT RecoveryReachesPost
