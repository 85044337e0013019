\* Deadlock is not checked: once the session is over nothing is left to do.
SPECIFICATION ContinuationSpec
CONSTANTS
  Actor = {alice, bob}
  NoActor = NoActor
  NoTimer = NoTimer
  MaxContinuations = 2
  MaxAttempts = 2
  MaxEvictions = 1
  MaxFaults = 0
INVARIANTS
  TimedSuspendIsScheduled
CHECK_DEADLOCK FALSE
