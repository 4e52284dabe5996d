SPECIFICATION Spec
CONSTANTS
    Key = {1, 2, 3, 4, 5}
    Value = {1, 50}
    ValueSize <- SizeIsValue
    NoValue = NoValue
    Pinned = {1}
    BlockSize = 226
    InternalMax = 2
INVARIANTS WellFormed FreesExactlyTheOldPath OldTreeStable RangeMatchesLookup
PROPERTIES
    RefinesOrderedMap
