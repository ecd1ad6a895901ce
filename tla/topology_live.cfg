CONSTANTS
    NULL = NULL
    NbCpus = 4
    NbNodes = 3
    Root = "root"
    MiscIds = {"misc1", "misc2"}
    Input <- LiveInput
    Id <- Ids
    Machines <- LiveMachines
    Ignorable = {}
    FlagArgs = {}
    CpuArgs <- LiveArgs
    MiscNames = {1}
    RestrictArgs <- LiveFlags
    MaxItems = 5
SPECIFICATION Spec
CONSTRAINT PUsFirst
INVARIANTS SetsSound LevelsSound LookupsExact RelativesExact DistributeEven
PROPERTIES RestrictExact MiscAnnotates
