\* Three requests of any kind for one server, with a client for each get.
SPECIFICATION FairClientSpec
CONSTANTS
  Requests = {q1, q2, q3}
  MaxClients = 6
  MaxEdits = 2
INVARIANTS
  CachedClientsOpen
  NothingLeaks
PROPERTIES
  BackoffRespected
  EveryRequestEnds
\* The requests of an instance are finite, so it stops.
CHECK_DEADLOCK FALSE
