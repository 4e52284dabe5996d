SPECIFICATION Spec
CONSTANTS
    BlockSize = 2
    TotalBlocks = 8
    MetadataBlocks = 1
    MaxFileSize = 5
    MaxWrites = 3
    MaxFaults = 1
    MaxRot = 1
    NoExtent = NoExtent
    NoBlock = NoBlock
    Rotten = Rotten
    Failed = Failed
CHECK_DEADLOCK FALSE
INVARIANTS ReadsBack SizeRight OnlyOwnBytes ReadsCompose ReclaimsFreshWrites
