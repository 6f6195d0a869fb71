\* Two messages, one operation each, an execution and a request or job at a time.
SPECIFICATION Spec
CONSTANTS
  Workers = {w1}
  Callers = {c1}
  NumMsgs = 2
  MaxOps = 1
  MaxCalls = 1
  MaxAttempts = 2
  MaxFaults = 1
  HandStatuses = {"open"}
  None = None
INVARIANTS TypeOK OneReply MergedNeverReplied AtMostOneQueued OneInFlight RepliesInOrder
PROPERTY EffectNeedsApproval
\* A thread whose messages are all answered has nothing left to do.
CHECK_DEADLOCK FALSE
