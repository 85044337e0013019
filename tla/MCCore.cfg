\* Deadlock is not checked: a session that is over stops, and so does a call that returned.
SPECIFICATION CoreSpec
CONSTANTS
  s1 = s1
  s2 = s2
  s3 = s3
  b1 = b1
  b2 = b2
  c1 = c1
  c2 = c2
  planA = planA
  planB = planB
  goalA = goalA
  goalB = goalB
  Step <- MCStep
  Body <- MCBody
  Criterion <- MCCriterion
  Plans <- MCPlans
  gone = gone
  stove = stove
  hands = hands
  page = page
  Names <- MCNames
  Questions <- MCQuestions
  WrittenPlans <- MCWrittenPlans
  WrittenPatches <- MCWrittenPatches
  MaxAttempts = 2
  Calls <- MCCalls
  Parts = 2
  Attempts = 4
  Timer = {tea}
  Durations = {0, 2}
  Skew = 100
  Offsets <- MCOffsets
  Elapse = {300, 1000}
  MaxNow = 2600
  MaxError = 1200
INVARIANTS
  DependenciesRespected
  SomeStepCanProceed
  CompletionIsJustified
  AutomaticGoalEndsSession
  GraphIsRight
  ScheduleIsRight
  TimersKeepTime
  IdentityIsRight
PROPERTIES
  HistoryIsKept
CHECK_DEADLOCK FALSE
