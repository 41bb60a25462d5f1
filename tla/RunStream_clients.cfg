\* Two clients of one run: reload, take-over, stop and disconnect at any await,
\* with their tasks scheduled fairly.
SPECIFICATION FairStreamSpec
CONSTANTS
  Runs = {r1}
  Clients = {c1, c2}
  NoRun = NoRun
  LogMax = 1
  MaxMessages = 2
  MaxAttach = 3
  MaxRequests = 3
INVARIANTS
  StarterMissesNothing
  LiveFollowsReplay
  WatcherStaysConnected
PROPERTIES
  WatchOfFinishedRunEnds
\* Runs and requests are bounded, so an instance stops.
CHECK_DEADLOCK FALSE
