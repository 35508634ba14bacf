SPECIFICATION FairSpec
CONSTANTS
    Client = {c1, c2}
    Letter <- MCLetter
    DottedLetter <- MCDottedLetter
    Export <- MCExport
    InitialDir <- MCDir
    InitialFile <- MCFile
    Request <- CreatedRequest
    NamingCommand <- CreatedNaming
    TarGz = ".tgz"
    LocalFile <- TextFile
    Blocks = 2
    MAX_ASSOCIATED_FILES = 4
    MaxRequests = 1
    MaxNaming = 1
    MaxQuits = 0
PROPERTY ClientsServed
CHECK_DEADLOCK FALSE
