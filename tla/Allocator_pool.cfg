SPECIFICATION Spec
CONSTANTS
    TotalBlocks = 36
    File = {1, 2}
    Dir = {3}
    MaxData = 2
    MaxFlushes = 2
    BlockSize = 99
    ItemSize = 0
    InternalMax = 2
PROPERTY PoolKeepsBlocks
