\* Two producers and a consumer in every order of priority, all calls.
SPECIFICATION FairSpec
CONSTANTS
  Users = {"p1", "p2", "c"}
  Orders <- AllOrders
  Servers = {"c"}
  Mutexes = {"fifo"}
  Condvars = {"receivers", "senders"}
  Capacity = 2
  Calls <- AllCalls
  MaxItems = 4
INVARIANTS
  HighestNotLeft
PROPERTIES
  ImplementsFifo
  EveryItemArrives
CHECK_DEADLOCK FALSE
