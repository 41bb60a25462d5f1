\* Three tasks share a client: two can be rejected on one session while the
\* third closes it, and each of them can be cancelled at every await.
SPECIFICATION FairMcpSpec
CONSTANTS
  Callers = {c1, c2, c3}
  MaxOps = 5
INVARIANTS
  RetryOnNewSession
PROPERTIES
  ImplementsSession
  EveryOperationEnds
\* The operations of an instance are finite, so it stops.
CHECK_DEADLOCK FALSE
