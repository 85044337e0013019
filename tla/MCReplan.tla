-------------------------------- MODULE MCReplan --------------------------------
(* Replan on a plan of one step, or of two with b after a, and what it may be  *)
(* replanned to: the document of a rewritten, or b removed.                   *)
EXTENDS Replan

CONSTANTS a, b, old, new, thePlan, theGoal, theCriterion

Doc(v, steps, bodyA, bodyB) ==
  [id |-> thePlan, goalId |-> theGoal, version |-> v, steps |-> steps,
   after |-> [s \in steps |-> IF s = b THEN {a} ELSE {}],
   body |-> [s \in steps |-> IF s = a THEN bodyA ELSE bodyB],
   criteria |-> {theCriterion}, completionPolicy |-> "human_confirmation"]

OneStep == {a}
OneStepPlans == {Doc(1, {a}, old, old), Doc(2, {a}, new, old)}

TwoSteps == {a, b}
TwoStepPlans ==
  {Doc(1, TwoSteps, old, old), Doc(2, TwoSteps, new, old), Doc(2, {a}, old, old)}

\* A deploy counts as an event: a behaviour with one has an event less.
EventsAndDeploys == Len(log) + configured - SessionDomain
NarrowSpec == Init /\ [][Next /\ EventsAndDeploys' <= MaxEvents]_vars
===============================================================================
