------------------------------- MODULE PlanGraph -------------------------------
(***************************************************************************)
(* The graph utilities of @pear-agent/core (plan-graph.ts): the validation *)
(* every plan document passes, its topological order, and what is computed *)
(* along that order: depths, the length of the critical path and the steps *)
(* on one. The two loops are written as actions, an iteration each; what   *)
(* follows the order is written as functions on its prefixes.              *)
(***************************************************************************)
EXTENDS Integers, Sequences, FiniteSets, FiniteSetsExt, SequencesExt

VARIABLES
  nodes,    \* the argument: a sequence of [id, after, duration]
  phase,    \* "ids", "cycles", "order", "ordered", or "invalid"
  reason,   \* why the graph is invalid, "none" while it is not
  stack,    \* frames of the depth-first search
  visited,
  onPath,
  indegree,
  queue,
  order

search == <<stack, visited, onPath>>
sort == <<indegree, queue, order>>
graphVars == <<nodes, phase, reason, stack, visited, onPath, indegree, queue, order>>

-------------------------------------------------------------------------------
Id == {nodes[i].id : i \in DOMAIN nodes}
IdsInOrder == [i \in DOMAIN nodes |-> nodes[i].id]

\* Array.filter: the elements of s that are in `keep`, in their order.
Only(s, keep) ==
  LET kept[i \in 0..Len(s)] ==
        IF i = 0 THEN <<>>
        ELSE IF s[i] \in keep THEN Append(kept[i - 1], s[i]) ELSE kept[i - 1]
  IN  kept[Len(s)]

\* byId, dependencies: the last node of an id.
Node(s) == nodes[Max({i \in DOMAIN nodes : nodes[i].id = s})]
After(s) == Node(s).after

\* How often step s lists d: lists are not checked for repetitions.
Occurrences(s, d) == Cardinality({i \in DOMAIN After(s) : After(s)[i] = d})

GraphInit(Graphs) ==
  /\ nodes \in Graphs
  /\ phase = "ids"
  /\ reason = "none"
  /\ stack = <<>> /\ visited = {} /\ onPath = {}
  /\ indegree = [s \in {} |-> 0] /\ queue = <<>> /\ order = <<>>

Reject(r) ==
  /\ phase' = "invalid"
  /\ reason' = r

\* The checks of validatePlanGraph before the search.
CheckIds ==
  /\ phase = "ids"
  /\ CASE Cardinality(Id) # Len(nodes) -> Reject("duplicate_id")
       [] Cardinality(Id) = Len(nodes) /\ \E s \in Id : ~(ToSet(After(s)) \subseteq Id) ->
            Reject("missing_dependency")
       [] OTHER -> phase' = "cycles" /\ UNCHANGED reason
  /\ UNCHANGED <<nodes, search, sort>>

Enter(s) == [id |-> s, enter |-> TRUE]
Exit(s) == [id |-> s, enter |-> FALSE]

\* The search starts anew from the first node it has not seen.
NextRoot ==
  /\ phase = "cycles" /\ stack = <<>>
  /\ \E i \in DOMAIN nodes :
       /\ nodes[i].id \notin visited
       /\ \A j \in 1..(i - 1) : nodes[j].id \in visited
       /\ stack' = <<Enter(nodes[i].id)>>
  /\ onPath' = {}
  /\ UNCHANGED <<nodes, phase, reason, visited, sort>>

LeaveNode ==
  /\ phase = "cycles" /\ stack # <<>>
  /\ ~Last(stack).enter
  /\ onPath' = onPath \ {Last(stack).id}
  /\ stack' = Front(stack)
  /\ UNCHANGED <<nodes, phase, reason, visited, sort>>

\* A step was pushed by two steps that depend on it.
SkipNode ==
  /\ phase = "cycles" /\ stack # <<>>
  /\ Last(stack).enter /\ Last(stack).id \in visited
  /\ stack' = Front(stack)
  /\ UNCHANGED <<nodes, phase, reason, visited, onPath, sort>>

\* A dependency on the path closes a cycle; those not seen are searched next.
EnterNode ==
  /\ phase = "cycles" /\ stack # <<>>
  /\ Last(stack).enter /\ Last(stack).id \notin visited
  /\ LET s == Last(stack).id IN
       /\ visited' = visited \cup {s}
       /\ onPath' = onPath \cup {s}
       /\ IF ToSet(After(s)) \cap onPath' # {}
          THEN Reject("cycle") /\ UNCHANGED stack
          ELSE /\ LET unseen == Only(After(s), Id \ visited')
                  IN  stack' = Front(stack) \o <<Exit(s)>>
                                 \o [i \in DOMAIN unseen |-> Enter(unseen[i])]
               /\ UNCHANGED <<phase, reason>>
  /\ UNCHANGED <<nodes, sort>>

\* Nothing is left to search: topologicalOrder starts from the roots.
StartOrder ==
  /\ phase = "cycles" /\ stack = <<>> /\ Id \subseteq visited
  /\ phase' = "order"
  /\ indegree' = [s \in Id |-> Len(After(s))]
  /\ queue' = Only(IdsInOrder, {s \in Id : indegree'[s] = 0})
  /\ UNCHANGED <<nodes, reason, search, order>>

\* One step leaves the queue; the steps it was the last to hold back enter it.
TakeFromQueue ==
  /\ phase = "order" /\ queue # <<>>
  /\ LET s == Head(queue)
         left == [c \in Id |-> indegree[c] - Occurrences(c, s)]
         freed == Only(IdsInOrder, {c \in Id : left[c] = 0 /\ Occurrences(c, s) > 0})
     IN  /\ order' = Append(order, s)
         /\ indegree' = left
         /\ queue' = Tail(queue) \o freed
  /\ UNCHANGED <<nodes, phase, reason, search>>

FinishOrder ==
  /\ phase = "order" /\ queue = <<>>
  /\ IF Len(order) # Len(nodes) THEN Reject("cycle")
     ELSE phase' = "ordered" /\ UNCHANGED reason
  /\ UNCHANGED <<nodes, search, sort>>

GraphNext ==
  \/ CheckIds \/ NextRoot \/ LeaveNode \/ SkipNode \/ EnterNode
  \/ StartOrder \/ TakeFromQueue \/ FinishOrder

-------------------------------------------------------------------------------
\* Math.max over the dependencies of s, and 0.
Latest(s, values) == Max({0} \cup {values[d] : d \in ToSet(After(s))})

\* Along the order: the weight of each step on top of the latest of its dependencies.
AlongOrder(weight) ==
  LET f[k \in 0..Len(order)] ==
        IF k = 0 THEN [s \in {} |-> 0]
        ELSE LET before == f[k - 1]
                 s == order[k]
             IN  [x \in DOMAIN before \cup {s} |->
                    IF x = s THEN weight[s] + Latest(s, before) ELSE before[x]]
  IN  f[Len(order)]

\* topologicalDepths.
Depths == AlongOrder([s \in Id |-> IF After(s) = <<>> THEN 0 ELSE 1])

\* The memo of estimateCriticalPathDurationSeconds and computeCriticalPathIds.
Finish == AlongOrder([s \in Id |-> Node(s).duration])

EstimateCriticalPathDuration == Max({0} \cup {Finish[s] : s \in Id})

\* The first of a sequence of ids whose Finish is greatest.
FirstLongest(ids) ==
  LET i == Min({k \in DOMAIN ids : \A j \in DOMAIN ids : Finish[ids[j]] <= Finish[ids[k]]})
  IN  ids[i]

\* Mutant of CriticalPathIds: the first dependency instead of the longest.
MutantFirstDependency ==
  IF nodes = <<>> THEN <<>>
  ELSE LET path[k \in 0..Len(nodes)] ==
             IF k = 0 THEN <<FirstLongest(IdsInOrder)>>
             ELSE LET p == path[k - 1]
                  IN  IF After(Head(p)) = <<>> THEN p ELSE <<Head(After(Head(p)))>> \o p
       IN  path[Len(nodes)]

\* computeCriticalPathIds: from the step that ends last, back over the dependency
\* that ends last.
CriticalPathIds ==
  IF nodes = <<>> THEN <<>>
  ELSE LET path[k \in 0..Len(nodes)] ==
             IF k = 0 THEN <<FirstLongest(IdsInOrder)>>
             ELSE LET p == path[k - 1]
                  IN  IF After(Head(p)) = <<>> THEN p
                      ELSE <<FirstLongest(After(Head(p)))>> \o p
       IN  path[Len(nodes)]

\* buildPlanPresentation: the steps by depth, in the order of the plan.
Lanes ==
  [d \in 0..Max({0} \cup {Depths[s] : s \in Id}) |->
     Only(IdsInOrder, {s \in Id : Depths[s] = d})]

-------------------------------------------------------------------------------
\* What the results mean. A path is a sequence of steps each of which depends on
\* the one before it; in a graph without cycles no path is longer than the plan.
Acyclic ==
  \A T \in SUBSET Id : T # {} => \E s \in T : ToSet(After(s)) \cap T = {}
Paths ==
  {p \in UNION {[1..n -> Id] : n \in 1..Len(nodes)} :
     \A i \in 2..Len(p) : p[i - 1] \in ToSet(After(p[i]))}
Length(p) ==
  LET sum[i \in 0..Len(p)] == IF i = 0 THEN 0 ELSE sum[i - 1] + Node(p[i]).duration
  IN  sum[Len(p)]

\* validatePlanGraph accepts a graph exactly when its ids are distinct, every
\* dependency exists and there is no cycle, and names the first of these that fails.
VerdictIsRight ==
  /\ phase \in {"order", "ordered"} =>
       /\ Cardinality(Id) = Len(nodes)
       /\ \A s \in Id : ToSet(After(s)) \subseteq Id
       /\ Acyclic
  /\ reason = "duplicate_id" => Cardinality(Id) < Len(nodes)
  /\ reason = "missing_dependency" => \E s \in Id : ~(ToSet(After(s)) \subseteq Id)
  /\ reason = "cycle" => order = <<>> /\ ~Acyclic

\* The order has every step once and after all its dependencies.
SortIsRight ==
  phase = "ordered" =>
    /\ ToSet(order) = Id /\ Len(order) = Len(nodes)
    /\ \A k \in DOMAIN order : ToSet(After(order[k])) \subseteq {order[j] : j \in 1..(k - 1)}

\* The depth of a step is the length of the longest path to it, so that a lane holds no
\* two steps of which one needs the other, and no lane is empty.
DepthsAreRight ==
  phase = "ordered" =>
    /\ \A s \in Id : Depths[s] + 1 = Max({Len(p) : p \in {q \in Paths : Last(q) = s}})
    /\ \A d \in DOMAIN Lanes : ToSet(Lanes[d]) # {} \/ nodes = <<>>

\* The critical path is a longest path, and its length the estimate.
CriticalPathIsRight ==
  phase = "ordered" =>
    /\ EstimateCriticalPathDuration = Max({0} \cup {Length(p) : p \in Paths})
    /\ nodes # <<>> =>
         /\ CriticalPathIds \in Paths
         /\ Length(CriticalPathIds) = EstimateCriticalPathDuration

\* A graph is accepted, ordered and measured as its paths say.
GraphIsRight == VerdictIsRight /\ SortIsRight /\ DepthsAreRight /\ CriticalPathIsRight
===============================================================================
