\* Two tabs in a browser with Web Locks, in the last three minutes of their
\* access token.  While a tab that was loaded waits at the gate, two more things
\* may happen to the others and to the network.
SPECIFICATION FairSpec
CONSTANTS
  Tabs = {t1, t2}
  Locks = TRUE
  Left = 3
  NumEvents = 3
  NumMinutes = 3
  None = None
CONSTRAINT EventsOrMinutes
INVARIANTS TypeOK CookieKept GraceHolds
PROPERTY GateOpens
\* Events and minutes are bounded, so a run of them ends.
CHECK_DEADLOCK FALSE
