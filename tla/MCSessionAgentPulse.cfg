\* Deadlock is not checked: when every call has been made and answered nothing is left.
SPECIFICATION Spec
CONSTANTS
  k1 = k1
  k2 = k2
  k3 = k3
  i1 = i1
  i2 = i2
  i3 = i3
  iForeign = iForeign
  started = started
  ended = ended
  MaxCalls = 3
  NoEvent = NoEvent
  Event <- MCEvent
  ForeignId <- MCForeignId
  Closing <- MCClosing
  Needs <- MCNeeds
  MaxCrashes = 0
INVARIANTS
  EveryCommitIsPublished
CHECK_DEADLOCK FALSE
