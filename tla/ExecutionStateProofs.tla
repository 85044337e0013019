------------------------- MODULE ExecutionStateProofs -------------------------
(***************************************************************************)
(* Theorems about ExecutionState for every set of steps, bodies, criteria  *)
(* and plans. The inductive invariant is TypeOK with the two halves of     *)
(* "ready means every dependency is done"; that a plan never deadlocks     *)
(* follows from them because the dependencies of a plan form a DAG.        *)
(***************************************************************************)
EXTENDS ExecutionState, TLAPS

-------------------------------------------------------------------------------
\* The statuses of a plan, apart from the state that holds them.
Started(st, s) == st[s] \notin {"blocked", "skipped"}

Readiness(p, st) ==
  \A s \in p.steps :
    /\ Started(st, s) => \A d \in p.after[s] : st[d] \in TerminalStepStatus
    /\ st[s] = "blocked" => \E d \in p.after[s] : st[d] \notin TerminalStepStatus

\* What deriveStepStatuses needs of the statuses it starts from: a step that was
\* started, and will keep its status, has only finished dependencies.
Grounded(p, st) ==
  \A s \in DOMAIN st :
    st[s] \notin {"blocked", "ready", "skipped"} =>
      \A d \in p.after[s] : d \in DOMAIN st /\ st[d] \in TerminalStepStatus

Inv ==
  /\ TypeOK
  /\ DependenciesRespected
  /\ BlockedWaitsForSomeone

-------------------------------------------------------------------------------
\* Deriving readiness over any grounded statuses of some of a plan's steps, as
\* every step event, every plan update and the creation of a session do, gives
\* each step of the plan a status, and readiness is then exact.
LEMMA Rederive ==
  ASSUME NEW p, IsPlan(p),
         NEW D \in SUBSET p.steps, NEW st \in [D -> StepStatus],
         Grounded(p, st)
  PROVE  /\ Overlay(st, DeriveStepStatuses(p, st)) \in [p.steps -> StepStatus]
         /\ Readiness(p, Overlay(st, DeriveStepStatuses(p, st)))
         /\ Overlay(st, DeriveStepStatuses(p, st)) = DeriveStepStatuses(p, st)
<1> DEFINE new == DeriveStepStatuses(p, st)
<1>1. DOMAIN st = D /\ DOMAIN new = p.steps
  BY DEF DeriveStepStatuses
<1>2. p.after \in [p.steps -> SUBSET p.steps]
  BY DEF IsPlan, IsDag
<1>3. \A s \in p.steps :
        new[s] = IF s \in D /\ st[s] \notin {"blocked", "ready"} THEN st[s]
                 ELSE IF \A d \in p.after[s] : d \in D /\ st[d] \in TerminalStepStatus
                      THEN "ready" ELSE "blocked"
  BY <1>1 DEF DeriveStepStatuses
<1> HIDE DEF new
<1>4. new \in [p.steps -> StepStatus]
  <2>1. \A s \in p.steps : new[s] \in StepStatus
    BY <1>3 DEF StepStatus
  <2>2. new = [s \in p.steps |-> new[s]]
    BY DEF new, DeriveStepStatuses
  <2>. QED BY <2>1, <2>2
<1>5. Overlay(st, new) = new
  <2>1. D \cup p.steps = p.steps
    OBVIOUS
  <2>2. Overlay(st, new) = [s \in p.steps |-> new[s]]
    BY <1>1, <2>1 DEF Overlay
  <2>. QED BY <2>2, <1>4
<1>6. \A d \in p.steps :
        new[d] \in TerminalStepStatus <=> d \in D /\ st[d] \in TerminalStepStatus
  BY <1>3 DEF TerminalStepStatus
<1>7. Readiness(p, new)
  <2> SUFFICES ASSUME NEW s \in p.steps
               PROVE  /\ Started(new, s) =>
                           \A d \in p.after[s] : new[d] \in TerminalStepStatus
                      /\ new[s] = "blocked" =>
                           \E d \in p.after[s] : new[d] \notin TerminalStepStatus
    BY DEF Readiness
  <2>1. p.after[s] \subseteq p.steps
    BY <1>2
  <2>2. CASE s \in D /\ st[s] \notin {"blocked", "ready"}
    <3>1. new[s] = st[s]
      BY <1>3, <2>2
    <3>2. Started(new, s) => \A d \in p.after[s] : d \in D /\ st[d] \in TerminalStepStatus
      BY <1>1, <2>2, <3>1 DEF Grounded, Started
    <3>. QED BY <2>1, <2>2, <3>1, <3>2, <1>6
  <2>3. CASE ~(s \in D /\ st[s] \notin {"blocked", "ready"})
    <3>1. (\A d \in p.after[s] : d \in D /\ st[d] \in TerminalStepStatus) <=> new[s] = "ready"
      BY <1>3, <2>3
    <3>2. new[s] \in {"ready", "blocked"}
      BY <1>3, <2>3
    <3>. QED BY <2>1, <3>1, <3>2, <1>6 DEF Started
  <2>. QED BY <2>2, <2>3
<1>. QED BY <1>4, <1>5, <1>7 DEF new

\* The two readiness invariants are Readiness of the current plan.
LEMMA ReadinessOfState ==
  (DependenciesRespected /\ BlockedWaitsForSomeone) <=> Readiness(plan, stepStates)
BY DEF DependenciesRespected, BlockedWaitsForSomeone, Readiness, Started

-------------------------------------------------------------------------------
LEMMA InitInv == Init => Inv
<1> SUFFICES ASSUME Init PROVE Inv
  OBVIOUS
<1> DEFINE none == [s \in {} |-> "blocked"]
<1>1. IsPlan(plan)
  BY PlansAssumption DEF Init
<1>2. none \in [{} -> StepStatus] /\ Grounded(plan, none)
  BY DEF Grounded
<1>3. /\ DeriveStepStatuses(plan, none) \in [plan.steps -> StepStatus]
      /\ Readiness(plan, DeriveStepStatuses(plan, none))
  <2>1. {} \in SUBSET plan.steps
    OBVIOUS
  <2>2. /\ Overlay(none, DeriveStepStatuses(plan, none)) \in [plan.steps -> StepStatus]
        /\ Readiness(plan, Overlay(none, DeriveStepStatuses(plan, none)))
        /\ Overlay(none, DeriveStepStatuses(plan, none)) = DeriveStepStatuses(plan, none)
    BY <1>1, <1>2, <2>1, Rederive
  <2>. QED BY <2>2
<1>4. TypeOK
  BY <1>1, <1>3 DEF Init, TypeOK, SessionStatus
<1>. QED BY <1>3, <1>4, ReadinessOfState DEF Inv, Init

\* A step event grounds the statuses it derives from: the step it touches was not
\* done before, so no other started step loses a finished dependency.
LEMMA StepEventInv ==
  ASSUME Inv, NEW s, NEW next \in StepStatus \ {"ready"}, StepEvent(s, next)
  PROVE  Inv'
<1> DEFINE st == [stepStates EXCEPT ![s] = next]
<1>1. IsPlan(plan) /\ stepStates \in [plan.steps -> StepStatus] /\ s \in plan.steps
  BY DEF Inv, TypeOK, StepEvent
<1>2. st \in [plan.steps -> StepStatus]
  BY <1>1
<1>3. plan.after \in [plan.steps -> SUBSET plan.steps]
  BY <1>1 DEF IsPlan, IsDag
<1>4. stepStates[s] \notin TerminalStepStatus
  BY <1>1 DEF StepEvent, AllowedTransitions, TerminalStepStatus
<1>5. next \notin {"blocked", "skipped"} => stepStates[s] \notin {"blocked", "skipped"}
  <2>1. next \in AllowedTransitions[stepStates[s]]
    BY DEF StepEvent
  <2>. QED BY <2>1, <1>1 DEF AllowedTransitions, StepStatus
<1>6. Grounded(plan, st)
  <2> SUFFICES ASSUME NEW x \in plan.steps, st[x] \notin {"blocked", "ready", "skipped"},
                      NEW d \in plan.after[x]
               PROVE  d \in plan.steps /\ st[d] \in TerminalStepStatus
    BY <1>2 DEF Grounded
  <2>1. d \in plan.steps
    BY <1>3
  <2>2. stepStates[x] \notin {"blocked", "skipped"}
    BY <1>1, <1>5
  <2>3. stepStates[d] \in TerminalStepStatus
    BY <2>2 DEF Inv, DependenciesRespected
  <2>. QED BY <1>1, <1>4, <2>1, <2>3
<1>7. /\ stepStates' \in [plan.steps -> StepStatus]
      /\ Readiness(plan, stepStates')
  <2>1. stepStates' = Overlay(st, DeriveStepStatuses(plan, st))
    BY DEF StepEvent
  <2>2. plan.steps \in SUBSET plan.steps
    OBVIOUS
  <2> HIDE DEF st
  <2>3. /\ Overlay(st, DeriveStepStatuses(plan, st)) \in [plan.steps -> StepStatus]
        /\ Readiness(plan, Overlay(st, DeriveStepStatuses(plan, st)))
    BY <1>1, <1>2, <1>6, <2>2, Rederive
  <2>. QED BY <2>1, <2>3
<1>8. UNCHANGED <<session, plan, criterionEvaluations>>
  BY DEF StepEvent
<1>9. TypeOK'
  BY <1>7, <1>8 DEF Inv, TypeOK
<1>10. (DependenciesRespected /\ BlockedWaitsForSomeone)'
  BY <1>7, <1>8 DEF DependenciesRespected, BlockedWaitsForSomeone, Readiness, Started
<1>. QED BY <1>9, <1>10 DEF Inv

\* The retained statuses of a replan are grounded: a started step keeps its
\* status only with its `after` list, and what it depends on is done, hence
\* protected, hence in the new plan with its status.
LEMMA PlanUpdatedInv ==
  ASSUME Inv, NEW p \in Plans, PlanUpdated(p)
  PROVE  Inv'
<1> DEFINE st == RetainedStates(p)
<1> DEFINE kept == {s \in p.steps \cap plan.steps \cap DOMAIN stepStates :
                      stepStates[s] \in ProtectedStepStatus \/ StructurallyEqual(plan, p, s)}
<1>1. IsPlan(p)
  BY PlansAssumption
<1>2. IsPlan(plan) /\ stepStates \in [plan.steps -> StepStatus] /\ DOMAIN stepStates = plan.steps
  BY DEF Inv, TypeOK
<1>3. st = [s \in kept |-> stepStates[s]]
  BY DEF RetainedStates
<1>4. kept \in SUBSET p.steps /\ st \in [kept -> StepStatus]
  BY <1>2, <1>3
<1>5. \A s \in plan.steps : stepStates[s] \in ProtectedStepStatus =>
        s \in p.steps /\ StructurallyEqual(plan, p, s)
  BY <1>2 DEF PlanUpdated, RespectsProtectedSteps
<1>6. \A s \in kept : st[s] = stepStates[s] /\ StructurallyEqual(plan, p, s)
  BY <1>2, <1>3, <1>5
<1>7. plan.after \in [plan.steps -> SUBSET plan.steps]
  BY <1>2 DEF IsPlan, IsDag
<1>8. Grounded(p, st)
  <2> SUFFICES ASSUME NEW s \in kept, st[s] \notin {"blocked", "ready", "skipped"},
                      NEW d \in p.after[s]
               PROVE  d \in kept /\ st[d] \in TerminalStepStatus
    BY <1>3 DEF Grounded
  <2>1. s \in plan.steps /\ d \in plan.after[s]
    BY <1>6 DEF StructurallyEqual
  <2>2. stepStates[d] \in TerminalStepStatus
    BY <2>1, <1>6 DEF Inv, DependenciesRespected
  <2>3. d \in plan.steps
    BY <2>1, <1>7
  <2>4. d \in p.steps /\ stepStates[d] \in ProtectedStepStatus
    BY <2>2, <2>3, <1>5 DEF TerminalStepStatus, ProtectedStepStatus
  <2>5. d \in kept
    BY <2>3, <2>4, <1>2
  <2>. QED BY <2>2, <2>5, <1>6
<1>9. /\ stepStates' \in [p.steps -> StepStatus]
      /\ Readiness(p, stepStates')
  <2>1. stepStates' = Overlay(st, DeriveStepStatuses(p, st))
    BY DEF PlanUpdated
  <2> HIDE DEF st, kept
  <2>2. /\ Overlay(st, DeriveStepStatuses(p, st)) \in [p.steps -> StepStatus]
        /\ Readiness(p, Overlay(st, DeriveStepStatuses(p, st)))
    BY <1>1, <1>4, <1>8, Rederive
  <2>. QED BY <2>1, <2>2
<1>10. plan' = p
  BY DEF PlanUpdated
<1>11. session' \in SessionStatus
  BY DEF PlanUpdated, Inv, TypeOK, SessionStatus
<1>12. criterionEvaluations' \in [Criterion -> EvaluationStatus \cup {NoEvaluation}]
  BY DEF PlanUpdated, Inv, TypeOK
<1>13. TypeOK'
  BY <1>1, <1>9, <1>10, <1>11, <1>12 DEF TypeOK
<1>14. (DependenciesRespected /\ BlockedWaitsForSomeone)'
  BY <1>9, <1>10 DEF DependenciesRespected, BlockedWaitsForSomeone, Readiness, Started
<1>. QED BY <1>13, <1>14 DEF Inv

\* Session and goal events leave the plan and the statuses alone.
LEMMA OtherEventsInv ==
  ASSUME Inv,
         \/ SessionStarted \/ SessionPaused \/ SessionCancelled
         \/ \E c \in Criterion, status \in EvaluationStatus : GoalEvaluated(c, status)
         \/ \E goalId \in {p.goalId : p \in Plans} : GoalCompletionConfirmed(goalId)
         \/ UNCHANGED vars
  PROVE  Inv'
<1>1. UNCHANGED <<plan, stepStates>>
  BY DEF SessionStarted, SessionPaused, SessionCancelled, GoalEvaluated,
         GoalCompletionConfirmed, vars
<1>2. session' \in SessionStatus
  BY DEF Inv, TypeOK, SessionStatus, SessionStarted, SessionPaused, SessionCancelled,
         GoalEvaluated, GoalCompletionConfirmed, vars
<1>3. criterionEvaluations' \in [Criterion -> EvaluationStatus \cup {NoEvaluation}]
  BY DEF Inv, TypeOK, SessionStarted, SessionPaused, SessionCancelled,
         GoalEvaluated, GoalCompletionConfirmed, vars
<1>4. TypeOK'
  BY <1>1, <1>2, <1>3 DEF Inv, TypeOK
<1>5. (DependenciesRespected /\ BlockedWaitsForSomeone)'
  BY <1>1 DEF Inv, DependenciesRespected, BlockedWaitsForSomeone
<1>. QED BY <1>4, <1>5 DEF Inv

LEMMA NextInv == Inv /\ [Next]_vars => Inv'
<1> SUFFICES ASSUME Inv, [Next]_vars PROVE Inv'
  OBVIOUS
<1> USE DEF StepStatus
<1>1. CASE \E s \in Step : StepStarted(s)
  BY <1>1, StepEventInv DEF StepStarted
<1>2. CASE \E s \in Step : StepPaused(s)
  BY <1>2, StepEventInv DEF StepPaused
<1>3. CASE \E s \in Step : StepCompleted(s)
  BY <1>3, StepEventInv DEF StepCompleted
<1>4. CASE \E s \in Step : StepFailed(s)
  BY <1>4, StepEventInv DEF StepFailed
<1>5. CASE \E s \in Step : StepSkipped(s)
  BY <1>5, StepEventInv DEF StepSkipped
<1>6. CASE \E p \in Plans : PlanUpdated(p)
  BY <1>6, PlanUpdatedInv
<1>7. CASE \/ SessionStarted \/ SessionPaused \/ SessionCancelled
           \/ \E c \in Criterion, status \in EvaluationStatus : GoalEvaluated(c, status)
           \/ \E goalId \in {p.goalId : p \in Plans} : GoalCompletionConfirmed(goalId)
           \/ UNCHANGED vars
  BY <1>7, OtherEventsInv
<1>. QED BY <1>1, <1>2, <1>3, <1>4, <1>5, <1>6, <1>7 DEF Next

LEMMA InvHolds == Spec => []Inv
BY InitInv, NextInv, PTL DEF Spec

\* The state is well typed; the statuses are always those of exactly the steps of
\* the current plan, through every overlay of the reducer.
THEOREM TypeCorrect == Spec => []TypeOK
<1>1. Inv => TypeOK
  BY DEF Inv
<1>. QED BY <1>1, InvHolds, PTL

\* A started step never rests on an unfinished dependency, whatever was replanned.
THEOREM DependenciesAlwaysRespected == Spec => []DependenciesRespected
<1>1. Inv => DependenciesRespected
  BY DEF Inv
<1>. QED BY <1>1, InvHolds, PTL

\* No step is left blocked once everything it waits for is done.
THEOREM ReadinessNeverLost == Spec => []BlockedWaitsForSomeone
<1>1. Inv => BlockedWaitsForSomeone
  BY DEF Inv
<1>. QED BY <1>1, InvHolds, PTL

\* A plan with unfinished steps always has one an actor can act on. If every
\* unfinished step were blocked, the unfinished steps would be a set in which each
\* depends on another, which a DAG does not have.
THEOREM PlanNeverDeadlocks == Spec => []SomeStepCanProceed
<1>1. Inv => SomeStepCanProceed
  <2> SUFFICES ASSUME Inv, NEW u \in plan.steps, stepStates[u] \notin TerminalStepStatus,
                      \A s \in plan.steps :
                        stepStates[s] \notin {"ready", "active", "paused", "failed"}
               PROVE  FALSE
    BY DEF SomeStepCanProceed
  <2> DEFINE T == {s \in plan.steps : stepStates[s] \notin TerminalStepStatus}
  <2>1. \A s \in T : stepStates[s] = "blocked"
    BY DEF Inv, TypeOK, StepStatus, TerminalStepStatus
  <2>2. T \in SUBSET plan.steps /\ T # {}
    OBVIOUS
  <2>3. PICK s \in T : plan.after[s] \cap T = {}
    BY <2>2 DEF Inv, TypeOK, IsPlan, IsDag
  <2>4. PICK d \in plan.after[s] : stepStates[d] \notin TerminalStepStatus
    BY <2>1 DEF Inv, BlockedWaitsForSomeone
  <2>5. d \in plan.steps
    BY DEF Inv, TypeOK, IsPlan, IsDag
  <2>. QED BY <2>3, <2>4, <2>5
<1>. QED BY <1>1, InvHolds, PTL

-------------------------------------------------------------------------------
GoalInv == CompletionIsJustified /\ AutomaticGoalEndsSession

LEMMA NextGoalInv == GoalInv /\ [Next]_vars => GoalInv'
<1> SUFFICES ASSUME GoalInv, [Next]_vars PROVE GoalInv'
  OBVIOUS
<1> USE DEF GoalInv, CompletionIsJustified, AutomaticGoalEndsSession, TerminalSessionStatus
<1>1. ASSUME NEW s, NEW next, StepEvent(s, next) PROVE GoalInv'
  BY <1>1 DEF StepEvent, AutomaticallyComplete, GoalSatisfied
<1>2. CASE SessionStarted
  BY <1>2 DEF SessionStarted, AutomaticallyComplete, GoalSatisfied
<1>3. CASE SessionPaused
  BY <1>3 DEF SessionPaused, AutomaticallyComplete, GoalSatisfied
<1>4. CASE SessionCancelled
  BY <1>4 DEF SessionCancelled
<1>5. ASSUME NEW c \in Criterion, NEW status \in EvaluationStatus, GoalEvaluated(c, status)
      PROVE  GoalInv'
  BY <1>5 DEF GoalEvaluated, NotTerminal, AutomaticallyComplete, GoalSatisfied
<1>6. ASSUME NEW goalId, GoalCompletionConfirmed(goalId) PROVE GoalInv'
  BY <1>6 DEF GoalCompletionConfirmed, GoalSatisfied
<1>7. ASSUME NEW p \in Plans, PlanUpdated(p) PROVE GoalInv'
  <2>1. plan' = p /\ session # "completed"
    BY <1>7 DEF PlanUpdated, NotTerminal
  <2>2. session' = IF AutomaticallyComplete(p, criterionEvaluations') THEN "completed" ELSE session
    BY <1>7 DEF PlanUpdated
  <2>. QED BY <2>1, <2>2 DEF AutomaticallyComplete, GoalSatisfied
<1>8. CASE UNCHANGED vars
  BY <1>8 DEF vars, AutomaticallyComplete, GoalSatisfied
<1>. QED
  BY <1>1, <1>2, <1>3, <1>4, <1>5, <1>6, <1>7, <1>8
  DEF Next, StepStarted, StepPaused, StepCompleted, StepFailed, StepSkipped

LEMMA GoalInvHolds == Spec => []GoalInv
<1>1. Init => GoalInv
  <2> SUFFICES ASSUME Init PROVE GoalInv
    OBVIOUS
  <2>1. IsPlan(plan)
    BY PlansAssumption DEF Init
  <2>2. PICK c \in plan.criteria : c \in Criterion
    BY <2>1 DEF IsPlan
  <2>3. ~ GoalSatisfied(plan, criterionEvaluations)
    BY <2>2 DEF Init, GoalSatisfied, NoEvaluation
  <2>. QED
    BY <2>3 DEF Init, GoalInv, CompletionIsJustified, AutomaticGoalEndsSession,
                AutomaticallyComplete
<1>. QED BY <1>1, NextGoalInv, PTL DEF Spec

\* A completed session's last goal is satisfied on the latest evaluations.
THEOREM CompletionAlwaysJustified == Spec => []CompletionIsJustified
<1>1. GoalInv => CompletionIsJustified
  BY DEF GoalInv
<1>. QED BY <1>1, GoalInvHolds, PTL

\* An automatic goal is never left satisfied and running.
THEOREM AutomaticGoalsEnd == Spec => []AutomaticGoalEndsSession
<1>1. GoalInv => AutomaticGoalEndsSession
  BY DEF GoalInv
<1>. QED BY <1>1, GoalInvHolds, PTL

-------------------------------------------------------------------------------
\* What the action property HistoryIsKept says of one step.
KeepsHistory ==
  \A s \in plan.steps :
    /\ stepStates[s] \in TerminalStepStatus =>
         s \in plan'.steps /\ stepStates'[s] = stepStates[s]
    /\ stepStates[s] \in ProtectedStepStatus =>
         s \in plan'.steps /\ StructurallyEqual(plan, plan', s)

LEMMA StepEventKeepsHistory ==
  ASSUME TypeOK, NEW s, NEW next, StepEvent(s, next)
  PROVE  KeepsHistory
<1> DEFINE st == [stepStates EXCEPT ![s] = next]
<1>1. plan' = plan /\ stepStates' = Overlay(st, DeriveStepStatuses(plan, st))
  BY DEF StepEvent
<1>2. DOMAIN st = plan.steps /\ DOMAIN DeriveStepStatuses(plan, st) = plan.steps
  BY DEF TypeOK, DeriveStepStatuses
<1>3. stepStates[s] \notin TerminalStepStatus
  BY DEF StepEvent, TypeOK, AllowedTransitions, TerminalStepStatus
<1> SUFFICES ASSUME NEW x \in plan.steps, stepStates[x] \in TerminalStepStatus
             PROVE  stepStates'[x] = stepStates[x]
  BY <1>1 DEF KeepsHistory, StructurallyEqual
<1>4. st[x] = stepStates[x] /\ st[x] \notin {"blocked", "ready"}
  BY <1>3 DEF TypeOK, TerminalStepStatus
<1>5. DeriveStepStatuses(plan, st)[x] = st[x]
  BY <1>2, <1>4 DEF DeriveStepStatuses
<1>. QED BY <1>1, <1>2, <1>4, <1>5 DEF Overlay

LEMMA PlanUpdatedKeepsHistory ==
  ASSUME TypeOK, NEW p \in Plans, PlanUpdated(p)
  PROVE  KeepsHistory
<1> DEFINE st == RetainedStates(p)
<1>1. plan' = p /\ stepStates' = Overlay(st, DeriveStepStatuses(p, st))
  BY DEF PlanUpdated
<1>2. DOMAIN stepStates = plan.steps
  BY DEF TypeOK
<1>3. \A x \in plan.steps : stepStates[x] \in ProtectedStepStatus =>
        x \in p.steps /\ StructurallyEqual(plan, p, x)
  BY <1>2 DEF PlanUpdated, RespectsProtectedSteps
<1> SUFFICES ASSUME NEW x \in plan.steps, stepStates[x] \in TerminalStepStatus
             PROVE  stepStates'[x] = stepStates[x]
  BY <1>1, <1>3 DEF KeepsHistory, TerminalStepStatus, ProtectedStepStatus
<1>4. x \in p.steps /\ stepStates[x] \in ProtectedStepStatus
  BY <1>3 DEF TerminalStepStatus, ProtectedStepStatus
<1>5. x \in DOMAIN st /\ st[x] = stepStates[x]
  BY <1>2, <1>4 DEF RetainedStates
<1>6. DeriveStepStatuses(p, st)[x] = st[x] /\ x \in DOMAIN DeriveStepStatuses(p, st)
  BY <1>4, <1>5 DEF DeriveStepStatuses, TerminalStepStatus
<1>. QED BY <1>1, <1>5, <1>6 DEF Overlay

\* No event, a replan included, removes, revives or rewrites finished work, or
\* changes the document of a step somebody is working on.
THEOREM HistoryAlwaysKept == Spec => HistoryIsKept
<1>1. TypeOK /\ [Next]_vars => [KeepsHistory]_vars
  <2> SUFFICES ASSUME TypeOK, Next PROVE KeepsHistory \/ UNCHANGED vars
    OBVIOUS
  <2>1. ASSUME NEW s, NEW next, StepEvent(s, next) PROVE KeepsHistory
    BY <2>1, StepEventKeepsHistory
  <2>2. ASSUME NEW p \in Plans, PlanUpdated(p) PROVE KeepsHistory
    BY <2>2, PlanUpdatedKeepsHistory
  <2>3. CASE UNCHANGED <<plan, stepStates>>
    BY <2>3 DEF KeepsHistory, StructurallyEqual
  <2>. QED
    BY <2>1, <2>2, <2>3
    DEF Next, StepStarted, StepPaused, StepCompleted, StepFailed, StepSkipped,
        SessionStarted, SessionPaused, SessionCancelled, GoalEvaluated,
        GoalCompletionConfirmed
<1>2. HistoryIsKept <=> [][KeepsHistory]_vars
  BY DEF HistoryIsKept, KeepsHistory
<1>. QED BY <1>1, <1>2, TypeCorrect, PTL DEF Spec
===============================================================================
