SPECIFICATION Spec
CONSTANTS
    s1 = s1
    s2 = s2
    s3 = s3
    Nobody = Nobody
    Client = {c1, c2}
    Server = {s1}
    Letter <- MCLetter
    DottedLetter <- MCDottedLetter
    Command <- RaceCommand
    Ports <- DistinctPorts
    Export <- MCExport
    InitialDisk <- MCDisk
    Large = {}
    Coalesce = FALSE
    Glue = "~"
    TarGz = ".tgz"
    MAX_ACC_PATHS = 1
    NAMING_SERVER_PORT = 8989
    MaxCommands = 2
    MaxCrashes = 0
INVARIANTS OwnResult
CHECK_DEADLOCK FALSE
