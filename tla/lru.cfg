SPECIFICATION LRUSpec
CONSTANTS
    blank = blank
    operations = operations
    p = p
    q = q
    Key = {blank, operations, p, q}
    Value <- MCValue
    NULL = NULL
    hash <- MChash
    HASHMAP_DEFAULT_CAPACITY = 3
    MaxCount = 100
    Export <- MCExport
    Blank = blank
    Operations = operations
    capacity_lr = 3
    MAX_ACC_PATHS = 5
    MaxRegistrations = 1
    MaxLookups = 4
INVARIANTS LRUTypeOK MapMatchesList
PROPERTIES ImplementsCache
CHECK_DEADLOCK FALSE
