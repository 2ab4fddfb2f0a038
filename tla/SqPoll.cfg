SPECIFICATION FairSpec
CONSTANTS
  IdxMod = 4
  Entries = 2
  SqPoll = TRUE
  Stride = 1
  Reqs = {r1, r2}
  None = None
INVARIANTS IndexOrder SlotOwnership NoLostWakeup
PROPERTIES SubmitsInOrder FlushedIsTaken SqringWaitReturns
