\* Deadlock is not checked: a session that was cancelled stops.
SPECIFICATION NarrowSpec
CONSTANTS
  a = a
  b = b
  old = old
  new = new
  thePlan = thePlan
  theGoal = theGoal
  theCriterion = theCriterion
  Step <- OneStep
  Body = {old, new}
  Criterion = {theCriterion}
  Plans <- OneStepPlans
  Request = {r1}
  Confirmation = {c1}
  Asked = {"automatic"}
  Window = 1
  MaxEvents = 6
  MaxTimers = 1
  MaxRequests = 1
  MaxDeploys = 1
  MaxInputs = 0
INVARIANTS
  AppliedAsAssessed
PROPERTIES
  NothingSilent
CHECK_DEADLOCK FALSE
