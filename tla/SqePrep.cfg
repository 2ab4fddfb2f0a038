SPECIFICATION Spec
CONSTANTS
    IndexMod = 16
    Slots = {0, 1, 12, 13}
INVARIANTS
    NothingStale
    NothingLost
    SlotIsMeant
