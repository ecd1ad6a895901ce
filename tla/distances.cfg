CONSTANTS
    NULL = NULL
    NbCpus = 4
    NbNodes = 2
    Root = "root"
    MiscIds <- GroupIds
    Input <- MCInput
    Order <- MCOrder
    Id <- Ids
    Machines <- MCMachines
    Ignorable = {}
    FlagArgs = {}
    CpuArgs <- MCCpuArgs
    MiscNames = {}
    RestrictArgs <- MCFlags
    UserMatrices <- MCUserMatrices
    EnvStrings <- MCEnvStrings
    OSMatrix <- MCOSMatrix
    Accuracies <- OnlyExact
    MaxItems = 1
    MaxCalls = 4
SPECIFICATION DSpec
INVARIANTS LatencyAsGiven UserMatrixWins GroupsConnected
CHECK_DEADLOCK FALSE
