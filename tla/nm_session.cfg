SPECIFICATION SessionSpec
CONSTANTS
    s1 = s1
    s2 = s2
    s3 = s3
    Nobody = Nobody
    Client = {c1}
    Server = {s1, s2}
    Letter <- MCLetter
    DottedLetter <- MCDottedLetter
    Command <- SessionCommand
    Ports <- DistinctPorts
    Export <- MCExport
    InitialDisk <- MCDisk
    Large = {}
    Coalesce = FALSE
    Glue = "~"
    TarGz = ".tgz"
    MAX_ACC_PATHS = 2
    NAMING_SERVER_PORT = 8989
    MaxCommands = 4
    MaxCrashes = 0
INVARIANTS TypeOK OwnResult DirectoryMirrorsDisks
PROPERTIES ImplementsDirectory
CHECK_DEADLOCK FALSE
