\* Deadlock is not checked: a channel that is disposed does nothing any more.
SPECIFICATION ClientSpec
CONSTANTS
  MaxChanges = 1
  MaxAsks = 2
  MaxFaults = 1
  Fresh <- MCFresh
  MaxCalls = 2
  MaxConnects = 2
  MaxMishaps = 1
  Lengths = {1, 2}
  Lookahead = 1
  Enough = 2
  MaxBlocks = 3
  MaxChunks = 2
  MaxClock = 2
  MaxSwitches = 3
  Plan = {p, q}
  MaxRuns = 2
  MaxTurns = 1
  MaxPolls = 2
INVARIANTS
  ViewCoversPulse
  SettledViewIsCurrent
  ToolCallsAreKept
  SoundIsRight
  HookShowsItsCompile
PROPERTIES
  ViewNeverRegresses
  ClientSettles
CHECK_DEADLOCK FALSE
