\* Three tasks, each with one thing to wait for; a pool.
SPECIFICATION FairSpec
CONSTANTS
  Futures <- Simple
  Wakers = {"isr", "thread"}
  Repeats = FALSE
  Pool = {"cell"}
  Stack <- ThreeCalls
  MaxTicks = 3

  
  
PROPERTIES
  BlockOnReturns
CHECK_DEADLOCK FALSE
