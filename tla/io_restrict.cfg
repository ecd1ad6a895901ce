CONSTANTS
    NULL = NULL
    NbCpus = 8
    NbNodes = 2
    Root = "root"
    MiscIds <- OtherIds
    Input <- MCInput
    Order <- MCOrder
    Id <- Ids
    Machines <- MCMachines
    Ignorable = {}
    FlagArgs = {}
    CpuArgs <- SomeCpus
    MiscNames = {}
    RestrictArgs <- IoRestrictFlags
    MaxItems = 1
    Pci <- MCPci
    Fake = "fake"
    HostIds <- MCHosts
    GroupIds = {"group"}
    EnvLocal <- MCEnv
    IoFlagArgs <- AllIoFlags
SPECIFICATION IoSpec
INVARIANTS CousinsExist
