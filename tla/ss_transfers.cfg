SPECIFICATION FairSpec
CONSTANTS
    Client = {c1, c2}
    Letter <- MCLetter
    DottedLetter <- MCDottedLetter
    Export <- MCExport
    InitialDir <- MCDir
    InitialFile <- MCFile
    Request <- TransferRequest
    NamingCommand <- TransferNaming
    TarGz = ".tgz"
    LocalFile <- MCLocalFile
    Blocks = 2
    MAX_ASSOCIATED_FILES = 4
    MaxRequests = 1
    MaxNaming = 2
    MaxQuits = 1
INVARIANTS TypeOK IndicesDistinct SemaphoresAccounted IndexedFilesExist
PROPERTIES ReadersUndisturbed WritesArrive ServedUnlessFresh
CHECK_DEADLOCK FALSE
