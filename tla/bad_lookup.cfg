SPECIFICATION SharedSpec
CONSTANTS
    k1 = k1
    k2 = k2
    k3 = k3
    Key = {k1, k2, k3}
    Value = {0, 7}
    NULL = NULL
    hash <- MChash
    HASHMAP_DEFAULT_CAPACITY = 3
    MaxCount = 2
    ReadOp = {"get"}
    WriteOp = {"set"}
INVARIANTS FoundIsAssociated
CHECK_DEADLOCK FALSE
