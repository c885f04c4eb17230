\* Two producers and a consumer that interrupt each other.
SPECIFICATION FairSpec
CONSTANTS
  Nodes = {"a", "b", "c"}
  Producers = {"P1", "P2"}
  Consumer = "C"
  Uses <- MCUses
  Requested = {"c"}
  MaxPops = 3
  PushDummy = FALSE
\* The contexts may stop calling.
CHECK_DEADLOCK FALSE
INVARIANTS
  QueueSound
  NoneIsEmpty
PROPERTIES
  FifoSteps
  CallsReturn
