CONSTANTS
    NULL = NULL
    NbCpus = 5
    NbNodes = 3
    Root = "root"
    MiscIds = {}
    Input <- LoadInput
    Id <- Ids
    Machines <- NoAllowed
    Ignorable = {"SOCKET"}
    FlagArgs = {TRUE, FALSE}
    CpuArgs = {}
    MiscNames = {}
    RestrictArgs = {}
    MaxItems = 5
SPECIFICATION Spec
CONSTRAINT PUsFirst
INVARIANTS SetsSound LevelsSound
