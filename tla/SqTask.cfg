SPECIFICATION Spec
CONSTANTS
  IdxMod = 8
  Entries = 2
  SqPoll = FALSE
  Stride = 2
  Reqs = {r1, r2}
  None = None
INVARIANT FlushEstimate
PROPERTIES SubmitsInOrder
