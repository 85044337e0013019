\* Deadlock is not checked: a session that was cancelled stops, and a library is at rest
\* once each request is made.
SPECIFICATION BothSpec
CONSTANTS
  a = a
  b = b
  old = old
  new = new
  thePlan = thePlan
  theGoal = theGoal
  theCriterion = theCriterion
  Step <- TwoSteps
  Body = {old, new}
  Criterion = {theCriterion}
  Plans <- TwoStepPlans
  Request = {r1, r2}
  Confirmation = {c1}
  Asked = {"automatic"}
  Window = 1
  MaxEvents = 3
  MaxTimers = 0
  MaxRequests = 2
  MaxDeploys = 0
  MaxInputs = 1
  Job = {j1, j2}
  Source = {s1}
  Proposal = {p1}
  Edit = {e1, e2}
  Created = created
  First = 2
  MaxSources = 1
  MaxAttempts = 2
  MaxCalls = 3
  MaxFaults = 1
INVARIANTS
  KeysStayUnique
  ValidPatchIsAccepted
  HistoryIsALine
  CompileSourcesPresent
  WaitingHasQuestion
PROPERTY SettledJobIsOver
SYMMETRY Symmetry
CHECK_DEADLOCK FALSE
