\* A vault in which nothing changes.
SPECIFICATION Spec
CONSTANTS
  Hour = 4
  IntervalMinutes = 2
  DebounceMinutes = 1
  MaxRunsPerHour = 2
  MaxTime = 9
  Never = Never
CHECK_DEADLOCK FALSE
INVARIANT ScheduleRuns
