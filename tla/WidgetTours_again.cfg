\* One tab, one tour, which is started more than once.
SPECIFICATION FairSpec
CONSTANTS
  home = home
  shop = shop
  Tabs = {t1}
  Pages = {home, shop}
  Steps <- OneTour
  EveryTime = {}
  Passive = {}
  Policy = "ask"
  Starts = {"cross"}
  Offered = {}
  Others = FALSE
  NumMoves = 2
  None = None
PROPERTIES NextLoadContinues
\* Moves are bounded, so a run of them ends.
CHECK_DEADLOCK FALSE
