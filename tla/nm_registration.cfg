SPECIFICATION FairSpec
CONSTANTS
    s1 = s1
    s2 = s2
    s3 = s3
    Nobody = Nobody
    Client = {c1}
    Server = {s1, s2, s3}
    Letter <- MCLetter
    DottedLetter <- MCDottedLetter
    Command <- RegistrationCommand
    Ports <- ClashPorts
    Export <- MCExport
    InitialDisk <- MCDisk
    Large = {}
    Coalesce = FALSE
    Glue = "~"
    TarGz = ".tgz"
    MAX_ACC_PATHS = 2
    NAMING_SERVER_PORT = 8989
    MaxCommands = 1
    MaxCrashes = 1
INVARIANTS PortsUnique RightServer ListedOnce
PROPERTIES EveryPeerHandled
CHECK_DEADLOCK FALSE
