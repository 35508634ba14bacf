SPECIFICATION SharedSpec
CONSTANTS
    k1 = k1
    k2 = k2
    k3 = k3
    Key = {k1, k2, k3}
    Value = {0, 7}
    NULL = NULL
    hash <- MChash
    HASHMAP_DEFAULT_CAPACITY = 3
    MaxCount = 3
    ReadOp = {"get", "iterate"}
    WriteOp = {"set", "get_set", "get", "remove"}
INVARIANTS TypeOK LoopsEnd SizeIsEntries LookupRight IterationRight
PROPERTIES ImplementsDictionary
CHECK_DEADLOCK FALSE
