SPECIFICATION Spec
CONSTANTS
    HashValue = {1, 2, 3, 4, 5}
    MaxChanges = 4
CHECK_DEADLOCK FALSE
INVARIANTS MissesNeedUnlinks RepeatsNeedCreates CallsBounded
