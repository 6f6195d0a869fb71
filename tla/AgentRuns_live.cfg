\* Two messages and a delivery that can get lost; or one message, and a run that
\* may wait for the page, with crashes and provider errors.
SPECIFICATION FairSpec
CONSTANTS
  Workers = {w1}
  Callers = {c1}
  NumMsgs = 2
  MaxOps = 1
  MaxCalls = 1
  MaxAttempts = 2
  MaxFaults = 2
  HandStatuses = {"snoozed"}
  None = None
CONSTRAINT OneMatter
PROPERTIES QueuedIsServed PostsSettle PageWaitAnswered
\* A thread whose messages are all answered has nothing left to do.
CHECK_DEADLOCK FALSE
