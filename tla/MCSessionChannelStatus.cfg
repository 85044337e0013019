\* Deadlock is not checked: a channel that is disposed does nothing any more.
SPECIFICATION Spec
CONSTANTS
  MaxChanges = 1
  MaxAsks = 2
  MaxFaults = 1
INVARIANTS
  ConnectedIsCurrent
CHECK_DEADLOCK FALSE
