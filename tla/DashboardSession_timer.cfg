\* The same tabs, with nobody there.
SPECIFICATION Spec
CONSTANTS
  Tabs = {t1, t2}
  Locks = TRUE
  Left = 3
  NumEvents = 0
  NumMinutes = 3
  None = None
INVARIANT RenewedInTime
\* Events and minutes are bounded, so a run of them ends.
CHECK_DEADLOCK FALSE
