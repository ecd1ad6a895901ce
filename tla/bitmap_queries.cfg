SPECIFICATION StringsSpec
CONSTANTS
    Handle = {a, b}
    NULL = NULL
    HWLOC_BITS_PER_LONG = 2
    HWLOC_BITMAP_SUBSTRING_SIZE = 1
    DigitSize = 1
    InitialUlongs = 1
    MaxUlongs = 2
SYMMETRY HandleSymmetry
INVARIANTS QueriesExact StringsReadBack
PROPERTIES CombiningExact
