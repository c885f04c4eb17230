\* The accepting thread above and below its caller.
SPECIFICATION FairSpec
CONSTANTS
  Users = {"entry", "accept"}
  Orders <- AllOrders
  Servers = {"accept"}
  Mutexes = {"arg", "result"}
  Condvars = {"waiter"}
  MaxCalls = 8
INVARIANTS
  OwnResult
  

  
CHECK_DEADLOCK FALSE
