-------------------------------- MODULE MCCore --------------------------------
(* The parts of the packages that compute on their own: the event reducer, the *)
(* schedule of a plan and the timers of @pear-agent/core, and the ids that     *)
(* @pear-agent/ai gives to what a model writes. They share no state, so a      *)
(* behaviour runs one of them and leaves the others alone.                     *)
(* ExecutionState runs on two families of plans. A family has its own plan id, *)
(* so a session stays in the one it starts in: planA exercises the step        *)
(* machine and replans of the DAG, planB evaluations against changes of the    *)
(* goal.                                                                       *)
EXTENDS ExecutionState, PlanSchedule, Timers, PlanIdentity

CONSTANTS s1, s2, s3, b1, b2, c1, c2, planA, planB, goalA, goalB, gone, stove, hands, page

VARIABLE part  \* the one that runs

MCStep == {s1, s2, s3}
MCBody == {b1, b2}
MCCriterion == {c1, c2}

StepPlan(v, steps, after, body) ==
  [id |-> planA, goalId |-> goalA, version |-> v, steps |-> steps, after |-> after,
   body |-> body, criteria |-> {c1}, completionPolicy |-> "human_confirmation"]

\* A session starts from a DAG over s1 < s2 < s3 (any DAG, up to the names of the
\* steps) and is replanned once, to any DAG over two or three steps, with the
\* document of s1 rewritten or not.
StepPlans ==
  {StepPlan(1, MCStep, after, [s \in MCStep |-> b1]) :
     after \in {f \in [MCStep -> SUBSET MCStep] :
                  f[s1] = {} /\ f[s2] \subseteq {s1} /\ f[s3] \subseteq {s1, s2}}}
  \cup
  UNION {{StepPlan(2, S, after, body) :
            after \in {f \in [S -> SUBSET S] : IsDag(S, f)},
            body \in {f \in [S -> MCBody] : \A s \in S \ {s1} : f[s] = b1}}
         : S \in {{s1, s2}, MCStep}}

\* Every goal over two criteria on a plan of one step, replanned up to three times.
GoalPlans ==
  {[id |-> planB, goalId |-> goal, version |-> v, steps |-> {s1},
    after |-> [s \in {s1} |-> {}], body |-> [s \in {s1} |-> b1],
    criteria |-> criteria, completionPolicy |-> policy] :
     v \in 1..4, criteria \in (SUBSET MCCriterion) \ {{}},
     policy \in {"automatic", "human_confirmation"}, goal \in {goalA, goalB}}

MCPlans == StepPlans \cup GoalPlans

-------------------------------------------------------------------------------
ThreeIds == <<s1, s2, s3>>
StepOf(id, after, duration, quantities, requirements) ==
  [id |-> id, after |-> after, duration |-> duration,
   quantities |-> quantities, requirements |-> requirements]
Bare(id, after) == StepOf(id, after, 1, <<>>, <<>>)
Subsequences(q) == {SelectSeq(q, LAMBDA x : x \in S) : S \in SUBSET ToSet(q)}
OnlyGraph(steps) == [steps |-> steps, capacities |-> [r \in {} |-> 0], resolve |-> TRUE]

\* Every graph over three steps, cycles included; dangling and repeated
\* dependencies and ids; the empty plan.
GraphCalls ==
  {OnlyGraph([i \in 1..3 |-> Bare(ThreeIds[i], after[i])]) :
     after \in [1..3 -> Subsequences(<<s3, s1, s2>>)]}
  \cup
  {OnlyGraph(<<Bare(s1, a), Bare(id, b), Bare(s3, <<s1, s1>>)>>) :
     a \in {<<>>, <<gone>>}, b \in {<<>>, <<s1>>, <<s1, s1>>}, id \in {s1, s2}}
  \cup {OnlyGraph(<<>>)}

\* Three steps on one stove, in halves of a second and of the stove: any DAG with s1 first,
\* durations and needs up to 2 (s1 needs 2), capacity 3 or exclusive, resolved or reported.
Need(q) == IF q = 0 THEN <<>> ELSE <<[resourceId |-> stove, quantity |-> q]>>
StoveCalls ==
  {[steps |-> [i \in 1..3 |-> StepOf(ThreeIds[i], after[i], d[i], Need(q[i]), <<>>)],
    capacities |-> stove :> [capacity |-> 3, mode |-> kind.mode], resolve |-> kind.resolve] :
     after \in {f \in [1..3 -> Subsequences(<<s1, s2>>)] :
                  f[1] = <<>> /\ f[2] \in {<<>>, <<s1>>}},
     d \in {f \in [1..3 -> 0..2] : f[1] > 0}, q \in {f \in [1..3 -> 0..2] : f[1] = 2},
     kind \in {[mode |-> "shared", resolve |-> TRUE], [mode |-> "shared", resolve |-> FALSE],
                [mode |-> "exclusive", resolve |-> TRUE]}}

\* Three independent steps that list a stove and a pair of hands by id: one of each, two halves.
HandsCalls ==
  {[steps |-> [i \in 1..3 |-> StepOf(ThreeIds[i], <<>>, d[i], <<>>, listed[i])],
    capacities |-> stove :> [capacity |-> 2, mode |-> "shared"]
                   @@ hands :> [capacity |-> 4, mode |-> "shared"],
    resolve |-> TRUE] :
     d \in [1..3 -> 1..2],
     listed \in [1..3 -> {<<stove>>, <<hands>>, <<stove, hands>>, <<hands, hands>>}]}

MCCalls == GraphCalls \cup StoveCalls \cup HandsCalls

MCOffsets == {-100, 0}

-------------------------------------------------------------------------------
NewStep(id, after, refs, alarms) == [id |-> id, after |-> after, refs |-> refs, timers |-> alarms]
OldSteps(after) == <<NewStep(s1, {}, {page}, <<>>), NewStep(s2, after, {}, <<>>)>>
Question(path, base, sources, finished, roots) ==
  [path |-> path, base |-> base, sources |-> sources, finished |-> finished, roots |-> roots]

MCNames == {s1, s2, s3, gone, b1, b2, page}

\* A plan with and without a source, and edits and replans of two steps in a line or apart.
MCQuestions ==
  {Question("create", <<>>, {page}, {}, {})}
  \cup {Question("edit", OldSteps({s1}), sources, {}, {}) : sources \in {{}, {page}}}
  \cup {Question("replan", OldSteps(after), {}, finished, roots) :
          after \in {{}, {s1}}, finished \in {{}, {s1}}, roots \in (SUBSET {s1, s2}) \ {{}}}

\* Any dependencies between two or three steps, with any alarms of the last one; steps that
\* cite a source, none, or one that nobody gave.
MCWrittenPlans ==
  {[i \in DOMAIN ids |->
      NewStep(ids[i], after[i], IF i = 1 THEN refs ELSE {page}, IF i = Len(ids) THEN alarms ELSE <<>>)] :
     ids \in {<<s1, s3>>, <<s3, s1>>}, after \in [1..2 -> SUBSET {s1, s3}],
     refs \in {{}, {page}, {page, gone}},
     alarms \in {<<>>} \cup {<<[id |-> b1, linked |-> a]>> : a \in {s1, s3, gone}}
               \cup {<<[id |-> a, linked |-> s1], [id |-> b2, linked |-> s3]>> : a \in {b1, b2}}}
  \cup
  {[i \in DOMAIN ids |-> NewStep(ids[i], after[i], {page}, <<>>)] :
     ids \in {ThreeIds, <<s3, s1, s2>>, <<s1, gone, s3>>},
     after \in [1..3 -> {S \in SUBSET MCStep : Cardinality(S) < 3}]}

SomeSteps == {S \in SUBSET {s1, s2, s3, gone} : Cardinality(S) < 3}
AddOf(step) == [type |-> "add_step", step |-> step]
UpdateOf(id, step) == [type |-> "update_step", stepId |-> id, step |-> step]
MCOperations ==
  {AddOf(NewStep(id, after, {}, <<>>)) : id \in {s1, s3, gone}, after \in SomeSteps}
  \cup {UpdateOf(id, NewStep(s2, after, {page}, <<>>)) : id \in {s1, s2}, after \in SomeSteps}
  \cup {[type |-> "remove_step", stepId |-> id] : id \in {s1, s2}}
  \cup {AddOf(NewStep(s3, {}, refs, alarms)) :
          refs \in {{page}, {gone}}, alarms \in {<<>>, <<[id |-> b1, linked |-> s3]>>}}

\* One operation, or two.
MCWrittenPatches == {<<a>> : a \in MCOperations} \cup {<<a, b>> : a, b \in MCOperations}

-------------------------------------------------------------------------------
IdlePlan == CHOOSE p \in GoalPlans : p.version = 1

ReducerIdle == Init /\ plan = IdlePlan
ScheduleIdle ==
  /\ GraphInit({<<>>})
  /\ capacity = [r \in {} |-> 0] /\ resolve = TRUE
  /\ timelines = [s \in {} |-> 0] /\ conflicts = {} /\ outcome = "none"

IdentityIdle == IdentityInit /\ question.path = "create"

CoreInit ==
  \/ part = "reducer" /\ Init /\ ScheduleIdle /\ TimersInit /\ IdentityIdle
  \/ part = "schedule" /\ ReducerIdle /\ ScheduleInit /\ TimersInit /\ IdentityIdle
  \/ part = "timers" /\ ReducerIdle /\ ScheduleIdle /\ TimersInit /\ IdentityIdle
  \/ part = "identity" /\ ReducerIdle /\ ScheduleIdle /\ TimersInit /\ IdentityInit

CoreNext ==
  \/ part = "reducer" /\ Next /\ UNCHANGED <<part, scheduleVars, timerVars, identityVars>>
  \/ part = "schedule" /\ ScheduleNext /\ UNCHANGED <<part, vars, timerVars, identityVars>>
  \/ part = "timers" /\ TimersNext /\ UNCHANGED <<part, vars, scheduleVars, identityVars>>
  \/ part = "identity" /\ IdentityNext /\ UNCHANGED <<part, vars, scheduleVars, timerVars>>

CoreSpec == CoreInit /\ [][CoreNext]_<<part, vars, scheduleVars, timerVars, identityVars>>
===============================================================================
