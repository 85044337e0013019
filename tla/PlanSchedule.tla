----------------------------- MODULE PlanSchedule -----------------------------
(***************************************************************************)
(* schedulePlan of @pear-agent/core: steps are placed one after the other  *)
(* in topological order, each as soon as its dependencies end and, unless  *)
(* the caller only wants conflicts reported, as soon as the resources it   *)
(* needs are free. Nothing placed is moved again.                          *)
(*                                                                         *)
(* Durations, quantities and capacities may be fractions. They are counted *)
(* in parts, fine enough for all of a call to be whole numbers of them.    *)
(***************************************************************************)
EXTENDS PlanGraph

CONSTANTS
  Calls,    \* what schedulePlan is called with
  Parts,    \* of a second, and of one of a resource
  Attempts  \* of findEarliestStart for one step: 10,000 in the code

\* Steps are a list, and so are what they depend on and what they need; durations,
\* quantities and capacities are not negative.
ASSUME PlanScheduleAssumption ==
  /\ {Parts, Attempts} \subseteq Nat \ {0}
  /\ \A call \in Calls :
       /\ call.steps \in Seq(ToSet(call.steps))
       /\ \A i \in DOMAIN call.steps :
            LET step == call.steps[i] IN
            /\ step.after \in Seq(ToSet(step.after)) /\ step.duration \in Nat
            /\ step.quantities \in Seq([resourceId : {q.resourceId : q \in ToSet(step.quantities)},
                                       quantity : Nat])
            /\ step.requirements \in Seq(ToSet(step.requirements))
       /\ \A r \in DOMAIN call.capacities : call.capacities[r].capacity \in Nat

VARIABLES
  capacity,   \* capacityById
  resolve,    \* options.resolveCapacity
  timelines,  \* start and end by step id; the order of placing is `order`
  conflicts,  \* ScheduleConflicts
  outcome     \* "none", then "scheduled" or "error"

scheduleVars == <<graphVars, capacity, resolve, timelines, conflicts, outcome>>

-------------------------------------------------------------------------------
Total(pairs, r) ==
  SumFunction([i \in DOMAIN pairs |-> IF pairs[i].resourceId = r THEN pairs[i].quantity ELSE 0])

\* effectiveResourceRequirements: what the step needs by resource. The list of
\* bare ids counts only where there are no quantities; repeated ids add up.
Needs(s) ==
  LET n == Node(s)
      listed == IF n.quantities # <<>> THEN n.quantities
                ELSE [i \in DOMAIN n.requirements |->
                        [resourceId |-> n.requirements[i], quantity |-> Parts]]
  IN  [r \in {listed[i].resourceId : i \in DOMAIN listed} |-> Total(listed, r)]

Capped(s) == DOMAIN Needs(s) \cap DOMAIN capacity

Placed == DOMAIN timelines
Users(r) == {u \in Placed : r \in DOMAIN Needs(u)}

\* What peakUsage looks at: the uses of r within [from, to), and the changes of usage
\* there, in the order of their times, what ends at a time before what starts at it.
UsersWithin(r, from, to) == {u \in Users(r) : timelines[u].end > from /\ timelines[u].start < to}
Begin(u, from) == Max({timelines[u].start, from})
End(u, to) == Min({timelines[u].end, to})
Changes(r, from, to) ==
  {[t |-> Begin(u, from), delta |-> Needs(u)[r]] : u \in UsersWithin(r, from, to)}
  \cup {[t |-> End(u, to), delta |-> - Needs(u)[r]] : u \in UsersWithin(r, from, to)}
NoLater(t, delta, c) == t < c.t \/ (t = c.t /\ delta <= c.delta)

\* The sum of the changes up to c, taken use by use.
UsageAfter(c, r, from, to) ==
  SumFunction([u \in UsersWithin(r, from, to) |->
                 (IF NoLater(Begin(u, from), Needs(u)[r], c) THEN Needs(u)[r] ELSE 0)
                 - (IF NoLater(End(u, to), - Needs(u)[r], c) THEN Needs(u)[r] ELSE 0)])

PeakUsage(r, from, to) ==
  Max({0} \cup {UsageAfter(c, r, from, to) : c \in Changes(r, from, to)})

Overloaded(s, start) ==
  {r \in Capped(s) : PeakUsage(r, start, start + Node(s).duration) + Needs(s)[r] > capacity[r]}

\* Mutant of Retry: on to the last end of a use, past gaps the step would fit in.
MutantRetryAtLastEnd(s, start) ==
  Max({timelines[u].end : u \in UNION {Users(r) : r \in Overloaded(s, start)}})

\* Where findEarliestStart tries next: where the first use of an overloaded
\* resource ends, for the resource where that is latest.
Retry(s, start) ==
  LET next(r) ==
        LET n == Min({start + Node(s).duration}
                     \cup {e \in {timelines[u].end : u \in Users(r)} : e > start})
        IN  IF n <= start THEN start + Parts ELSE n
  IN  Max({start} \cup {next(r) : r \in Overloaded(s, start)})

\* findEarliestStart: the start of the last attempt, the first that overloads nothing
\* if there is one.
EarliestStart(s, earliest) ==
  LET try[n \in 1..Attempts] ==
        IF n = 1 THEN earliest
        ELSE LET start == try[n - 1]
             IN  IF Overloaded(s, start) = {} THEN start ELSE Retry(s, start)
  IN  try[Attempts]

\* Mutant of DependenciesEnd: the first dependency is waited for.
MutantFirstDependencyEnds(s) ==
  IF After(s) = <<>> THEN 0 ELSE timelines[Head(After(s))].end

DependenciesEnd(s) == Max({0} \cup {timelines[d].end : d \in ToSet(After(s))})

\* assertFeasibleRequirements.
Infeasible(s) == {r \in Capped(s) : Needs(s)[r] > capacity[r]}

\* What is reported of a step that starts regardless of the resources.
ConflictsOf(s, start) ==
  {[stepId |-> s, resourceId |-> r, atOffsetSeconds |-> start, needed |-> Needs(s)[r],
    available |-> IF r \in Infeasible(s) THEN capacity[r]
                  ELSE Max({0, capacity[r] - PeakUsage(r, start, start + Node(s).duration)})]
     : r \in Overloaded(s, start)}

-------------------------------------------------------------------------------
ScheduleInit ==
  \E call \in Calls :
    /\ GraphInit({call.steps})
    /\ capacity = [r \in DOMAIN call.capacities |->
                     IF call.capacities[r].mode = "exclusive" THEN Parts
                     ELSE call.capacities[r].capacity]
    /\ resolve = call.resolve
    /\ timelines = [s \in {} |-> 0] /\ conflicts = {} /\ outcome = "none"

\* validatePlanGraph and topologicalOrder run first.
Prepare ==
  /\ outcome = "none"
  /\ GraphNext
  /\ outcome' = IF phase' = "invalid" THEN "error" ELSE "none"
  /\ UNCHANGED <<capacity, resolve, timelines, conflicts>>

\* The next step of the order.
Current == order[Cardinality(Placed) + 1]
Waiting == phase = "ordered" /\ outcome = "none" /\ Cardinality(Placed) < Len(order)

PlaceAt(s, start) ==
  timelines' = [x \in Placed \cup {s} |->
                  IF x = s THEN [start |-> start, end |-> start + Node(s).duration]
                  ELSE timelines[x]]

Place ==
  /\ Waiting
  /\ LET s == Current IN
       IF resolve
       THEN /\ Infeasible(s) = {}
            /\ Overloaded(s, EarliestStart(s, DependenciesEnd(s))) = {}
            /\ PlaceAt(s, EarliestStart(s, DependenciesEnd(s)))
            /\ UNCHANGED conflicts
       ELSE /\ PlaceAt(s, DependenciesEnd(s))
            /\ conflicts' = conflicts \cup ConflictsOf(s, DependenciesEnd(s))
  /\ UNCHANGED <<graphVars, capacity, resolve, outcome>>

\* A step needs more than there is: nothing is scheduled.
Refuse ==
  /\ Waiting /\ resolve /\ Infeasible(Current) # {}
  /\ outcome' = "error"
  /\ UNCHANGED <<graphVars, capacity, resolve, timelines, conflicts>>

\* No attempt has found a start.
GiveUp ==
  /\ Waiting /\ resolve /\ Infeasible(Current) = {}
  /\ Overloaded(Current, EarliestStart(Current, DependenciesEnd(Current))) # {}
  /\ outcome' = "error"
  /\ UNCHANGED <<graphVars, capacity, resolve, timelines, conflicts>>

Finished ==
  /\ phase = "ordered" /\ outcome = "none" /\ Placed = Id
  /\ outcome' = "scheduled"
  /\ UNCHANGED <<graphVars, capacity, resolve, timelines, conflicts>>

ScheduleNext == Prepare \/ Place \/ Refuse \/ GiveUp \/ Finished

ScheduleSpec == ScheduleInit /\ [][ScheduleNext]_scheduleVars

\* totalDurationSeconds, of schedulePlan and, of a scheduled plan, buildPlanPresentation.
Makespan == Max({0} \cup {timelines[s].end : s \in Placed})

-------------------------------------------------------------------------------
\* How much of r the steps of S use at time t: a step holds it from its start
\* until just before its end.
Uses(u, r, t) == r \in DOMAIN Needs(u) /\ timelines[u].start <= t /\ t < timelines[u].end
Load(S, r, t) == SumFunction([u \in S |-> IF Uses(u, r, t) THEN Needs(u)[r] ELSE 0])
Within(s) == timelines[s].start..(timelines[s].end - 1)

\* Whether s fits from `start` beside the steps of S at every moment.
Fits(S, s, start) ==
  \A r \in Capped(s) :
    /\ Needs(s)[r] <= capacity[r]
    /\ \A t \in start..(start + Node(s).duration - 1) : Load(S, r, t) + Needs(s)[r] <= capacity[r]

\* When the last of the steps that s waits for ends.
Ready(s) == Max({0} \cup {timelines[d].end : d \in ToSet(After(s))})

\* Every step starts after its dependencies end. With resources resolved it fits beside the
\* steps placed before it, and could not have started sooner. Without, it starts when its
\* dependencies end, and a conflict is reported exactly if it does not fit there.
StartsAreRight ==
  \A k \in 1..Cardinality(Placed) :
    LET s == order[k]
        before == {order[j] : j \in 1..(k - 1)}
    IN  /\ s \in Placed /\ ToSet(After(s)) \subseteq before
        /\ timelines[s].start >= Ready(s)
        /\ resolve =>
             /\ Fits(before, s, timelines[s].start)
             /\ \A sooner \in Ready(s)..(timelines[s].start - 1) : ~Fits(before, s, sooner)
        /\ ~resolve =>
             /\ timelines[s].start = Ready(s)
             /\ Fits(before, s, Ready(s)) <=> \A c \in conflicts : c.stepId # s

\* A schedule without conflicts asks at no moment for more of a resource than there is.
NothingIsOverbooked ==
  resolve \/ conflicts = {} =>
    \A s \in Placed : \A r \in Capped(s) : \A t \in Within(s) : Load(Placed, r, t) <= capacity[r]

\* A step is refused if some step needs more than there is, or if it would have to wait too
\* long: an attempt is spent on an end of a step placed before it or on as long as it takes
\* itself, and on nothing else.
Patience(s) == (Attempts - 1 - Cardinality(Placed)) * Node(s).duration
RefusalIsDue ==
  outcome = "error" /\ phase = "ordered" =>
    /\ resolve
    /\ \/ \E s \in Id : ~Fits({}, s, 0)
       \/ \A n \in 0..Patience(Current) : ~Fits(Placed, Current, Ready(Current) + n)

\* A schedule has all steps, and is no shorter than the critical path.
MakespanIsRight ==
  outcome = "scheduled" =>
    /\ Placed = Id
    /\ Makespan >= EstimateCriticalPathDuration
    /\ ~resolve => Makespan = EstimateCriticalPathDuration

\* What plan-schedule.test.ts says of the attempts: only more independent steps than there
\* are attempts, all competing for one resource, spend them.
AttemptsSuffice ==
  outcome = "error" /\ phase = "ordered" /\ Infeasible(Current) = {} => Cardinality(Id) > Attempts

\* A schedule is feasible, no step of it could start sooner, and there is one unless a
\* step can never fit or would wait for the better part of Attempts times its duration.
ScheduleIsRight == StartsAreRight /\ NothingIsOverbooked /\ RefusalIsDue /\ MakespanIsRight
===============================================================================
