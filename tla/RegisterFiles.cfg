SPECIFICATION FairSpec
CONSTANTS
  Threads = {t1, t2}
  Tables = {2, 5}
  Limits = {1, 4, 12}
 
PROPERTIES CallReturns
