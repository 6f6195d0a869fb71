\* Two accounts, four acts of the user, two faults.
SPECIFICATION FairSpec
CONSTANTS
  Tokens = {a, b}
  None = None
  NumFlows = 4
  NumFaults = 2
INVARIANTS TypeOK OneClient Reachable
PROPERTIES BackOnline
\* What people do is bounded, so a run of it ends.
CHECK_DEADLOCK FALSE
