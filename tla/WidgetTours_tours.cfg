\* One tab; two tours and a banner.
SPECIFICATION FairSpec
CONSTANTS
  home = home
  shop = shop
  Tabs = {t1}
  Pages = {home, shop}
  Steps <- ThreeTours
  EveryTime = {"cross"}
  Passive = {"banner"}
  Policy = "ask"
  Starts = {"drive"}
  Offered = {"cross", "banner"}
  Others = TRUE
  NumMoves = 2
  None = None
INVARIANTS TypeOK NothingToResurrect
PROPERTIES PositionKept StepByStep OneOverlay CrossPageContinues
\* Moves are bounded, so a run of them ends.
CHECK_DEADLOCK FALSE
