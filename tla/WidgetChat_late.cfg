\* Two conversations, one of them unread, and a visitor who waits for nothing.
SPECIFICATION Spec
CONSTANTS
  Start <- TwoThreads
  Ops = {"auto", "ask", "steps"}
  PageSize = 1
  NumEvents = 4
  NumOpen = 1
INVARIANT ThreadShows
\* What happens is bounded, so a run of it ends.
CHECK_DEADLOCK FALSE
