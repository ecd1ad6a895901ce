CONSTANTS
    NULL = NULL
    NbCpus = 3
    NbNodes = 4
    Root = "root"
    Input <- DetectInput
    Id <- DetectIds
    Machines <- OneMachine
SPECIFICATION DetectSpec
INVARIANTS Nested ChildrenInOrder RefusedForCause
