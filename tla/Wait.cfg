SPECIFICATION FairSpec
CONSTANTS
  Rings = {{}, {"SQPOLL"}, {"EXT_ARG"}, {"EXT_ARG", "SQPOLL"}, {"EXT_ARG", "IOPOLL"}}
  SqEntries = 2
  CqEntries = 2
  Apis = {"peek_cqe", "wait_cqe", "wait_cqe_nr", "wait_cqes", "submit_and_wait_timeout"}
  MaxWait = 2
  MaxLegacyWait = 1
  MaxReqs = 2
  MaxTimers = 1
INVARIANTS WaitContract  SubmitsWhatIsLeft
PROPERTIES  WaitReturns
