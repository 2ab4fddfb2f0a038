SPECIFICATION Spec
CONSTANTS
  Fds = {0, 1}
  Indices = {0, 1}
  RegRegRing = TRUE
  FdOnly = {TRUE, FALSE}
INVARIANTS NeverAnotherFile Reachable 
