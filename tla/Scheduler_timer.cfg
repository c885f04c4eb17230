\* Two threads that sleep, with and without events, and the timer interrupt.
SPECIFICATION FairSpec
CONSTANTS
  Threads = {"L", "M", "H"}
  Idle = "Idle"
  Devices = {}
  Locks = {"lk", "hi"}
  BasePriority <- MCBase
  Ceiling <- MCCeiling
  WaitCeiling = 12
  HwPriority <- MCHw
  Masked = {"SYSCALL"}
  MaxTime = 2
  MaxSections = 1
  Apps <- WithTimer
INVARIANTS
  AlarmSet

  
