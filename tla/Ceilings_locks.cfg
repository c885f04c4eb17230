\* A thread and the lowest of three interrupts take locks of both kinds, on both boards.
SPECIFICATION Spec
CONSTANTS
  Interrupts = {"I1", "I2", "I3"}
  HwPriority <- MCHw
  ThreadBase = 1
  Locks = {"t255", "i0", "i2"}
  Ceiling <- MCCeiling
  MaxNesting = 2
  Hals = {"plic", "nvic"}
  Lockers = {"thread", "I1"}
  AttachLocked = FALSE
INVARIANTS
  HighestCeiling
  
  
