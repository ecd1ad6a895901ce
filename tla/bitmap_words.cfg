SPECIFICATION Spec
CONSTANTS
    Handle = {a}
    NULL = NULL
    HWLOC_BITS_PER_LONG = 2
    HWLOC_BITMAP_SUBSTRING_SIZE = 1
    DigitSize = 1
    InitialUlongs = 1
    MaxUlongs = 3
PROPERTIES ImplementsSets ModifiersExact
