SPECIFICATION ReapingSpec
CONSTANTS
  IdxMod = 4
  Entries = 2
  Stride = 2
  Vals = {v1, v2}
  None = None
  MaxPending = 2
  MaxWork = 1
INVARIANTS HeldAreVisible 
PROPERTIES HeldStable ReapsInOrder BacklogIsDelivered
