\* One browser that reconnects once, to either worker, and one call.
SPECIFICATION FairSpec
CONSTANTS
  browser1 = browser1
  Nodes = {n1, n2}
  Devices = {browser1}
  NumSocks = 2
  NumOps = 1
  Asks <- AnyAndNamed
  Prompt = TRUE
  None = None
INVARIANTS TypeOK WrittenOnce NewestStays
PROPERTIES CallsAreKept GoneIsTold Settles
\* Calls and connections are bounded, so a run of them ends.
CHECK_DEADLOCK FALSE
