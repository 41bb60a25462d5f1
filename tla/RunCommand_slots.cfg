\* Two runs that share one slot, every command scheduled fairly: a stop may
\* hit either at any await while the other waits for the slot.
SPECIFICATION FairCommandSpec
CONSTANTS
  Runs = {r1, r2}
  Limit = 1
  NumFiles = 1
  NumTests = 1
  MaxStops = 1
  DbOutcomes = {TRUE}
PROPERTIES
  ImplementsSlots
  StopDecides
  EveryRunFinishes
\* The runs of an instance are finite, so the system stops when all are over.
CHECK_DEADLOCK FALSE
