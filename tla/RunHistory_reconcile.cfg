\* Two servers on one database, with the periods and the stale cutoff of the
\* code in ticks of 30 s and as many refused heartbeats in a row as the cutoff
\* can stand.
SPECIFICATION FairHistorySpec
CONSTANTS
  Servers = {s1, s2}
  Rows = {w1}
  BeatTicks = 1
  SweepTicks = 2
  StaleTicks = 6
  LegacyTicks = 8
  MaxMissed = 5
  MaxResults = 1
  MaxCrashes = 2
  DbOutcomes = {TRUE, FALSE}
INVARIANTS
  LiveRunsNotInterrupted
PROPERTIES
  ImplementsLifecycle
  DeadRowsReconciled
