\* Threads that start and make system calls, and then alarms at any point of a trap.
SPECIFICATION FairSpec
CONSTANTS
  Threads = {idle, a}
  Idle = idle
  Alarms = {1, 2}
  Early = FALSE
  MaxTime = 2
INVARIANTS
  RunnerIsCurrent
  InterruptFlag
  KernelExclusive
PROPERTIES
  SwitchCompletes
