SPECIFICATION Spec
CONSTANTS
  Session = {A, B}
  Actor = {me, other}
  Me = me
  Other = other
  Connect = {c1, c2, c3}
  None = None
  MaxHandles = 2
  MaxEvents = 5
SYMMETRY Symmetry
INVARIANTS
  NewestHandleKept
PROPERTIES
  HandlesMoveForward
  OnlyRebindingLosesLease
CHECK_DEADLOCK FALSE
