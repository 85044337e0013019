\* Deadlock is not checked: a session that was cancelled stops.
SPECIFICATION Spec
CONSTANTS
  a = a
  b = b
  old = old
  new = new
  thePlan = thePlan
  theGoal = theGoal
  theCriterion = theCriterion
  Step <- OneStep
  Body = {old, new}
  Criterion = {theCriterion}
  Plans <- OneStepPlans
  Request = {r1}
  Confirmation = {c1}
  Asked = {"automatic"}
  Window = 1
  MaxEvents = 3
  MaxTimers = 1
  MaxRequests = 2
  MaxDeploys = 0
  MaxInputs = 1
PROPERTIES
  AuditKeepsCursor
CHECK_DEADLOCK FALSE
