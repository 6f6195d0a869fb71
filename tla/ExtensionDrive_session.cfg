SPECIFICATION FairSpec
CONSTANTS
  NumTabs = 4
  NumOps = 4
  NumEvents = 4
  Overlaps = FALSE
INVARIANTS TypeOK NeverTheUsersTab Recoverable
PROPERTIES Answered
CHECK_DEADLOCK FALSE
