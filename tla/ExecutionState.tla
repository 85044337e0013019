---------------------------- MODULE ExecutionState ----------------------------
(***************************************************************************)
(* The event reducer of @pear-agent/core (applyRuntimeEvent) on the part   *)
(* of the materialized state that decides what may run next and when the   *)
(* session is over: the session status, the plan (a DAG of steps and a     *)
(* goal), the status of every step and the latest evaluation of every      *)
(* success criterion.                                                      *)
(*                                                                         *)
(* Each action is one accepted event of a type the reducer handles; an     *)
(* event for which the reducer throws changes nothing and is no step here. *)
(* World state, observations and the audit-only evaluation history are     *)
(* data no guard of the reducer reads; the timers are module Timers, the   *)
(* event identities (duplicates) module SessionAgent.                      *)
(***************************************************************************)
EXTENDS Integers, FiniteSets

CONSTANTS
  Step,       \* step ids
  Body,       \* what a step's document holds beside its id and `after` list
  Criterion,  \* ids of success criteria
  Plans       \* the plan documents a session may start from or be replanned to

StepStatus == {"blocked", "ready", "active", "paused", "completed", "failed", "skipped"}
TerminalStepStatus == {"completed", "skipped"}
ProtectedStepStatus == {"completed", "skipped", "active"}
SessionStatus == {"not_started", "active", "paused", "completed", "cancelled"}
TerminalSessionStatus == {"completed", "cancelled"}
EvaluationStatus == {"satisfied", "unsatisfied", "unknown"}
NoEvaluation == "none"

\* What executionPlanSchema accepts of the `after` lists (validatePlanGraph):
\* every dependency is a step of the plan, and every non-empty set of steps has
\* one whose dependencies lie outside it.
IsDag(steps, after) ==
  /\ after \in [steps -> SUBSET steps]
  /\ \A T \in SUBSET steps : T # {} => \E s \in T : after[s] \cap T = {}

\* A document executionPlanSchema accepts. `id` and `goalId` identify the plan
\* and its goal; a goal has at least one criterion.
IsPlan(p) ==
  /\ p.version \in Nat \ {0}
  /\ p.steps \subseteq Step
  /\ IsDag(p.steps, p.after)
  /\ p.body \in [p.steps -> Body]
  /\ p.criteria \in (SUBSET Criterion) \ {{}}
  /\ p.completionPolicy \in {"automatic", "human_confirmation"}

ASSUME PlansAssumption == \A p \in Plans : IsPlan(p)

VARIABLES
  session,             \* session.status
  plan,                \* the current plan document
  stepStates,          \* status by step id
  criterionEvaluations \* latest evaluation status by criterion id

vars == <<session, plan, stepStates, criterionEvaluations>>

-------------------------------------------------------------------------------
\* The spread { ...f, ...g }.
Overlay(f, g) ==
  [x \in DOMAIN f \cup DOMAIN g |-> IF x \in DOMAIN g THEN g[x] ELSE f[x]]

\* Every status transitionStep allows, by the status it leaves.
AllowedTransitions ==
  [blocked   |-> {"ready", "skipped"},
   ready     |-> {"active", "skipped"},
   active    |-> {"paused", "completed", "failed", "skipped"},
   paused    |-> {"active", "completed", "failed", "skipped"},
   completed |-> {},
   failed    |-> {"ready", "skipped"},
   skipped   |-> {}]

\* Mutant of DeriveStepStatuses: only `completed` satisfies a dependency.
MutantSkippedIsNotDone(p, current) ==
  [s \in p.steps |->
     IF s \in DOMAIN current /\ current[s] \notin {"blocked", "ready"}
     THEN current[s]
     ELSE IF \A d \in p.after[s] : d \in DOMAIN current /\ current[d] = "completed"
          THEN "ready"
          ELSE "blocked"]

\* deriveStepStatuses: a step that was started or finished keeps its status; any
\* other is ready exactly when every dependency is done in `current`.
DeriveStepStatuses(p, current) ==
  [s \in p.steps |->
     IF s \in DOMAIN current /\ current[s] \notin {"blocked", "ready"}
     THEN current[s]
     ELSE IF \A d \in p.after[s] : d \in DOMAIN current /\ current[d] \in TerminalStepStatus
          THEN "ready"
          ELSE "blocked"]

\* evaluateGoalCompletion over latestCriterionEvaluations: every criterion of the
\* goal has a latest evaluation, and it is `satisfied`.
GoalSatisfied(p, evaluations) ==
  \A c \in p.criteria : evaluations[c] = "satisfied"

AutomaticallyComplete(p, evaluations) ==
  p.completionPolicy = "automatic" /\ GoalSatisfied(p, evaluations)

\* stepsStructurallyEqual: the two plans hold the same document for step s. A
\* reordered `after` list counts as a different Body.
StructurallyEqual(p, q, s) ==
  p.after[s] = q.after[s] /\ p.body[s] = q.body[s]

-------------------------------------------------------------------------------
\* buildInitialExecutionState.
Init ==
  /\ session = "not_started"
  /\ plan \in Plans
  /\ stepStates = DeriveStepStatuses(plan, [s \in {} |-> "blocked"])
  /\ criterionEvaluations = [c \in Criterion |-> NoEvaluation]

\* The guard in front of every event type.
NotTerminal == session \notin TerminalSessionStatus

\* The five step events: the step takes its new status, then readiness is derived
\* again for the whole plan.
StepEvent(s, next) ==
  /\ NotTerminal
  /\ s \in DOMAIN stepStates
  /\ next \in AllowedTransitions[stepStates[s]]
  /\ LET afterTransition == [stepStates EXCEPT ![s] = next]
     IN  stepStates' = Overlay(afterTransition, DeriveStepStatuses(plan, afterTransition))
  /\ UNCHANGED <<session, plan, criterionEvaluations>>

StepStarted(s)   == StepEvent(s, "active")
StepPaused(s)    == StepEvent(s, "paused")
StepCompleted(s) == StepEvent(s, "completed")
StepFailed(s)    == StepEvent(s, "failed")
StepSkipped(s)   == StepEvent(s, "skipped")

SessionStarted ==
  /\ session \in {"not_started", "paused"}
  /\ session' = "active"
  /\ UNCHANGED <<plan, stepStates, criterionEvaluations>>

SessionPaused ==
  /\ session = "active"
  /\ session' = "paused"
  /\ UNCHANGED <<plan, stepStates, criterionEvaluations>>

SessionCancelled ==
  /\ session \in {"not_started", "active", "paused"}
  /\ session' = "cancelled"
  /\ UNCHANGED <<plan, stepStates, criterionEvaluations>>

\* Mutant of GoalEvaluated: one satisfied criterion is taken for the whole goal.
MutantOneCriterionSuffices(c, status) ==
  /\ NotTerminal
  /\ criterionEvaluations' = [criterionEvaluations EXCEPT ![c] = status]
  /\ session' = IF plan.completionPolicy = "automatic" /\ status = "satisfied"
                THEN "completed" ELSE session
  /\ UNCHANGED <<plan, stepStates>>

\* The criterion id of the payload is not checked against the plan's goal.
GoalEvaluated(c, status) ==
  /\ NotTerminal
  /\ criterionEvaluations' = [criterionEvaluations EXCEPT ![c] = status]
  /\ session' = IF AutomaticallyComplete(plan, criterionEvaluations')
                THEN "completed" ELSE session
  /\ UNCHANGED <<plan, stepStates>>

GoalCompletionConfirmed(goalId) ==
  /\ NotTerminal
  /\ goalId = plan.goalId
  /\ plan.completionPolicy = "human_confirmation"
  /\ GoalSatisfied(plan, criterionEvaluations)
  /\ session' = "completed"
  /\ UNCHANGED <<plan, stepStates, criterionEvaluations>>

\* Mutant of RespectsProtectedSteps: a skipped step may be dropped or rewritten.
MutantSkippedUnprotected(p) ==
  \A s \in DOMAIN stepStates :
    stepStates[s] \in {"completed", "active"} =>
      s \in p.steps /\ (s \in plan.steps => StructurallyEqual(plan, p, s))

\* A protected step neither leaves the plan nor changes its document.
RespectsProtectedSteps(p) ==
  \A s \in DOMAIN stepStates :
    stepStates[s] \in ProtectedStepStatus =>
      s \in p.steps /\ (s \in plan.steps => StructurallyEqual(plan, p, s))

\* Mutant of RetainedStates: a step keeps its status whatever becomes of its document.
MutantRetainAll(p) ==
  [s \in p.steps \cap plan.steps \cap DOMAIN stepStates |-> stepStates[s]]

\* The statuses a new plan inherits: a rewritten step that is not protected loses
\* its status, so that readiness is derived for it afresh.
RetainedStates(p) ==
  LET kept == {s \in p.steps \cap plan.steps \cap DOMAIN stepStates :
                 stepStates[s] \in ProtectedStepStatus \/ StructurallyEqual(plan, p, s)}
  IN  [s \in kept |-> stepStates[s]]

\* Mutant of PlanUpdated: the goal is not checked against the new plan.
MutantGoalNotRechecked(p) ==
  /\ NotTerminal
  /\ p.id = plan.id
  /\ p.version > plan.version
  /\ p.goalId = plan.goalId
  /\ RespectsProtectedSteps(p)
  /\ plan' = p
  /\ stepStates' = Overlay(RetainedStates(p), DeriveStepStatuses(p, RetainedStates(p)))
  /\ criterionEvaluations' =
       [c \in Criterion |-> IF c \in p.criteria THEN criterionEvaluations[c] ELSE NoEvaluation]
  /\ UNCHANGED session

\* applyPlanUpdate.
PlanUpdated(p) ==
  /\ NotTerminal
  /\ p.id = plan.id
  /\ p.version > plan.version
  /\ p.goalId = plan.goalId
  /\ RespectsProtectedSteps(p)
  /\ plan' = p
  /\ stepStates' = Overlay(RetainedStates(p), DeriveStepStatuses(p, RetainedStates(p)))
  /\ criterionEvaluations' =
       [c \in Criterion |-> IF c \in p.criteria THEN criterionEvaluations[c] ELSE NoEvaluation]
  /\ session' = IF AutomaticallyComplete(p, criterionEvaluations')
                THEN "completed" ELSE session

Next ==
  \/ \E s \in Step : StepStarted(s)
  \/ \E s \in Step : StepPaused(s)
  \/ \E s \in Step : StepCompleted(s)
  \/ \E s \in Step : StepFailed(s)
  \/ \E s \in Step : StepSkipped(s)
  \/ SessionStarted
  \/ SessionPaused
  \/ SessionCancelled
  \/ \E c \in Criterion, status \in EvaluationStatus : GoalEvaluated(c, status)
  \/ \E goalId \in {p.goalId : p \in Plans} : GoalCompletionConfirmed(goalId)
  \/ \E p \in Plans : PlanUpdated(p)

Spec == Init /\ [][Next]_vars

-------------------------------------------------------------------------------
\* Type invariant. That stepStates has exactly the steps of the current plan is
\* what the two overlays of the reducer have to maintain.
TypeOK ==
  /\ session \in SessionStatus
  /\ IsPlan(plan)
  /\ stepStates \in [plan.steps -> StepStatus]
  /\ criterionEvaluations \in [Criterion -> EvaluationStatus \cup {NoEvaluation}]

\* Work begins only on finished ground: whatever sequence of step events and
\* replans produced the state, a step that is ready or was ever started has all
\* its dependencies, in the plan of now, completed or skipped.
DependenciesRespected ==
  \A s \in plan.steps :
    stepStates[s] \notin {"blocked", "skipped"} =>
      \A d \in plan.after[s] : stepStates[d] \in TerminalStepStatus

\* No lost readiness: a blocked step is waiting for somebody, that is some
\* dependency of it is not done yet.
BlockedWaitsForSomeone ==
  \A s \in plan.steps :
    stepStates[s] = "blocked" =>
      \E d \in plan.after[s] : stepStates[d] \notin TerminalStepStatus

\* The plan never deadlocks: while any step is unfinished there is one an actor
\* can act on (start, finish, or skip after a failure), after any replan too.
SomeStepCanProceed ==
  (\E s \in plan.steps : stepStates[s] \notin TerminalStepStatus) =>
    \E s \in plan.steps : stepStates[s] \in {"ready", "active", "paused", "failed"}

\* A session ends as completed only when every criterion of the goal it ends with
\* has `satisfied` as its latest evaluation.
CompletionIsJustified ==
  session = "completed" => GoalSatisfied(plan, criterionEvaluations)

\* With the automatic policy no live session sits on a satisfied goal, whichever
\* of the last evaluation and the last replan came later.
AutomaticGoalEndsSession ==
  AutomaticallyComplete(plan, criterionEvaluations) => session \in TerminalSessionStatus

\* Replanning keeps history: a completed or skipped step stays in the plan with
\* its status and its document, and an active step keeps its document.
HistoryIsKept ==
  [][\A s \in plan.steps :
       /\ stepStates[s] \in TerminalStepStatus =>
            s \in plan'.steps /\ stepStates'[s] = stepStates[s]
       /\ stepStates[s] \in ProtectedStepStatus =>
            s \in plan'.steps /\ StructurallyEqual(plan, plan', s)]_vars
===============================================================================
