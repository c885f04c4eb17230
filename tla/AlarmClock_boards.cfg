\* The alarm clocks of the two boards.
SPECIFICATION Spec
CONSTANTS
  Hals = {"plic", "nvic"}
  Base = 4
  MaxTime = 14
INVARIANTS
  ClockExact
  AlarmRings
  
