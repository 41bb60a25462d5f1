\* One run of two files with two tests, up to two stops and a database that
\* may fail at every write.
SPECIFICATION CommandSpec
CONSTANTS
  Runs = {r1}
  Limit = 1
  NumFiles = 2
  NumTests = 2
  MaxStops = 2
  DbOutcomes = {TRUE, FALSE}
INVARIANTS
  BatchEndsOnce
  AllCompleteCarriesResults
  FinalStatusAnnounced
  HistoryKeepsResults
\* The runs of an instance are finite, so the system stops when all are over.
CHECK_DEADLOCK FALSE
