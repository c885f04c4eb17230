\* Waits for one event at a time, with and without a deadline.
SPECIFICATION Spec
CONSTANTS
  Events = {"a", "b"}
  Below = {"s1", "s2"}
  Waits <- OneEvent
  Calls = {"wait", "wait_until", "try", "delay"}
INVARIANTS
  EventsKept
  NoLostWakeup
