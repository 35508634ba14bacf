SPECIFICATION LRUSpec
CONSTANTS
    blank = blank
    operations = operations
    p = p
    q = q
    Key = {blank, operations, p, q}
    Value <- MCValue
    NULL = NULL
    hash <- MChash
    HASHMAP_DEFAULT_CAPACITY = 3
    MaxCount = 100
    Export <- MCExport
    Blank = blank
    Operations = operations
    capacity_lr = 2
    MAX_ACC_PATHS = 5
    MaxRegistrations = 2
    MaxLookups = 1
INVARIANTS EvictedFromBoth
CHECK_DEADLOCK FALSE
