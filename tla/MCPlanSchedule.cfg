\* Deadlock is not checked: a call that returned or threw stops.
SPECIFICATION ScheduleSpec
CONSTANTS
  s1 = s1
  s2 = s2
  stove = stove
  Calls <- TwoCooks
  Parts = 1
  Attempts = 3
INVARIANTS
  AttemptsSuffice
CHECK_DEADLOCK FALSE
