SPECIFICATION Spec
CONSTANTS
  IdxMod = 4
  Entries = 2
  Bids = {b1, b2}
  CqSize = 2
  None = None
INVARIANT OneOwner
PROPERTIES TakesInOrder 
