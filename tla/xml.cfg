CONSTANTS
    NULL = NULL
    UNKNOWN = UNKNOWN
    NbCpus = 8
    NbNodes = 3
    Root = "root"
    MiscIds = {"hb", "dev", "osdev", "misc1", "x1", "x2", "x3", "x4"}
    Input <- MCInput
    Order <- MCOrder
    Id <- Ids
    Machines <- MCMachines
    Ignorable = {}
    FlagArgs = {}
    CpuArgs <- MCCpus
    MiscNames = {1, 2}
    RestrictArgs <- MCRestrictFlags
    HWLOC_SYNTHETIC_MAX_DEPTH = 5
    Descriptions <- MCDescriptions
    EmptyString = 4
    Escaped = {2, 3}
    LeadingNewline = {3}
    Infos <- MCInfos
    Devices <- MCDevices
    DeviceParents = {"root", "node0"}
    Matrices <- MCMatrices
    MaxEdits = 2
SPECIFICATION XmlSpec
CHECK_DEADLOCK FALSE
INVARIANTS RoundTrip ReadsExported SyntheticExact
