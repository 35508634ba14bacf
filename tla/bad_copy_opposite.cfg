SPECIFICATION SessionSpec
CONSTANTS
    s1 = s1
    s2 = s2
    s3 = s3
    Nobody = Nobody
    Client = {c1, c2}
    Server = {s1, s2}
    Letter <- MCLetter
    DottedLetter <- MCDottedLetter
    Command <- OppositeCommand
    Ports <- DistinctPorts
    Export <- CopyExport
    InitialDisk <- CopyDisk
    Large <- BothFiles
    Coalesce = FALSE
    Glue = "~"
    TarGz = ".tgz"
    MAX_ACC_PATHS = 3
    NAMING_SERVER_PORT = 8989
    MaxCommands = 1
    MaxCrashes = 0
PROPERTIES EveryCommandAnswered
CHECK_DEADLOCK FALSE
