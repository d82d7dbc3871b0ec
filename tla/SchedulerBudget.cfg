\* Two runs an hour, an interval shorter than the window.
SPECIFICATION Spec
CONSTANTS
  Hour = 4
  IntervalMinutes = 2
  DebounceMinutes = 1
  MaxRunsPerHour = 2
  MaxTime = 11
  Never = Never
CHECK_DEADLOCK FALSE
INVARIANTS
  TypeOK
  SlidingBudget
  EventServed
  IntervalKept
