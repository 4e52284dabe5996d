SPECIFICATION Spec
CONSTANTS
    Key = {1, 2, 3, 4, 5}
    Value = {16}
    ValueSize <- SizeIsValue
    NoValue = NoValue
    Pinned = {}
    BlockSize = 124
    InternalMax = 3
INVARIANT RangeMatchesLookup
