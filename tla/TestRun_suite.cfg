\* A test of every kind, with refusals, stuck streams and cancellations.
SPECIFICATION FairTestRunSpec
CONSTANTS
  Suite <- MCSuite
  Steps = 2
  Requests = 2
  Workers = 2
  LoadTimeout = 8
  Minute = 4
  Buffer = 1
  Pause = 1
  LlmTries = 3
  TestTries = 3
  Grace = 1
INVARIANTS
  NoTestOverruns
PROPERTIES
  RequestsSpaced
  RefusalsRespected
  TestClientsClosed
  EverySuiteEnds
