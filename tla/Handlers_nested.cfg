\* A thread and two nested handlers.  A panic stops the program, and so may the thread.
SPECIFICATION Spec
CONSTANTS
  Handlers = {"A", "B"}
  Number <- MCNumber
  HwPriority <- MCHwPriority
  StorageSize = 2
  Objects = {"o"}
  Programs <- MCPrograms
  MaxSections = 2
  MaxGuards = 2
  MaxUpdates = 2
CHECK_DEADLOCK FALSE
INVARIANTS
  SectionsExclude
  NoLostUpdate
  BorrowsExact
  ContextsNest
  ReadsInitialised
