\* Deadlock is not checked: when every call has been made and answered, or the session is
\* over, nothing is left to do.
SPECIFICATION AgentSpec
CONSTANTS
  k1 = k1
  k2 = k2
  k3 = k3
  i1 = i1
  i2 = i2
  i3 = i3
  iForeign = iForeign
  started = started
  ended = ended
  MaxCalls = 3
  NoEvent = NoEvent
  Event <- MCEvent
  ForeignId <- MCForeignId
  Closing <- MCClosing
  Needs <- MCNeeds
  MaxCrashes = 1
  Actor = {alice, bob}
  NoActor = NoActor
  NoTimer = NoTimer
  MaxContinuations = 2
  MaxAttempts = 2
  MaxEvictions = 1
  MaxFaults = 1
INVARIANTS
  StateMatchesLog
  SnapshotNotTorn
  AcknowledgedIsPublished
  WokenByNews
  AcknowledgedEventHasWoken
  AtMostOneActive
  CompletedByLatestClaim
  ResumeIsRecoverable
  ChangesAreAnnounced
PROPERTIES
  ImplementsEventLog
  EveryCallEnds
  TimedWakeHappens
  StaleResumeEnds
CHECK_DEADLOCK FALSE
