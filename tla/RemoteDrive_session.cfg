\* Two calls, on either worker, each started or cold.
SPECIFICATION Spec
CONSTANTS
  browser1 = browser1
  Nodes = {n1, n2}
  Devices = {browser1}
  NumSocks = 1
  NumOps = 2
  Asks <- DriveAnyClose
  Prompt = TRUE
  None = None
PROPERTY OwnerKnown
SYMMETRY Symmetry
\* Calls and connections are bounded, so a run of them ends.
CHECK_DEADLOCK FALSE
