\* An edit of a server that a test run has used.
SPECIFICATION ClientSpec
CONSTANTS
  Requests = {q1, q2, q3}
  MaxClients = 3
  MaxEdits = 2
INVARIANTS
  RunsUseLoadedConfig
\* The requests of an instance are finite, so it stops.
CHECK_DEADLOCK FALSE
