\* Threads that switch, lock and block, nested devices, and an interrupt executor.
SPECIFICATION Spec
CONSTANTS
  Threads = {"L", "M", "H"}
  Idle = "Idle"
  Devices = {"D", "E"}
  Locks = {"lk", "hi"}
  BasePriority <- MCBase
  Ceiling <- MCCeiling
  WaitCeiling = 12
  HwPriority <- MCHw
  Masked = {"SYSCALL"}
  MaxTime = 1
  MaxSections = 1
  Apps <- Together
INVARIANTS
  ListsMatchStates
  ListsSorted
  SwitchesDone
  CeilingHonoured
  QueueExclusive
  NoReentry
PROPERTIES
  PreemptLockKept
  
