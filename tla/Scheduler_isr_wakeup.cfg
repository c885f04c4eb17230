\* A device wakes a thread up.
SPECIFICATION Spec
CONSTANTS
  Threads = {"L", "M", "H"}
  Idle = "Idle"
  Devices = {"D"}
  Locks = {"lk", "hi"}
  BasePriority <- MCBase
  Ceiling <- MCCeiling
  WaitCeiling = 12
  HwPriority <- MCHw
  Masked = {"SYSCALL"}
  MaxTime = 0
  MaxSections = 1
  Apps <- WithDevice
INVARIANTS
  HighestRuns
