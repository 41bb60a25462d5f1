\* Two tabs and one run that they take from each other.
SPECIFICATION FairBrowserSpec
CONSTANTS
  Tabs = {t1, t2}
  Runs = {r1}
  NoRun = NoRun
  MaxReconnects = 1
  MaxSockets = 2
  MaxClicks = 3
  MaxLosses = 2
INVARIANTS
  NeverBlind
PROPERTIES
  ReconnectionEnds
  LateAttachSettles
\* Users do not click for ever.
CHECK_DEADLOCK FALSE
