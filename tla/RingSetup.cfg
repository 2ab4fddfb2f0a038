SPECIFICATION Spec
CONSTANTS
    PageSize = 4096
    HugePageSize = 2097152
    KernMaxEntries = 32768
    EntriesAsked = {0, 1, 5, 64, 128, 32768, 40000}
    CqEntriesAsked = 200
    FlagSets <- MCFlagSets
    Kernels <- MCKernels
    AppBuffers <- MCAppBuffers
    NEntries = 512
    MaxOrder = 16
INVARIANTS
    Released
    UnmapsOnlyItsOwn
    DontforkCovers
    EstimateCovers
