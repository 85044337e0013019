------------------------------- MODULE CoreProofs -------------------------------
(***************************************************************************)
(* Theorems about the parts of MCCore besides the reducer's steps.         *)
(*                                                                         *)
(* Plan graphs. Every plan, of any size, is validated, ordered and         *)
(* measured as its paths say. The invariant of the search is that of a     *)
(* depth-first search with a stack of its own: no step is twice on the     *)
(* path, a frame was pushed by the last step on the path below it, and the *)
(* steps that are done are closed under dependencies and have no cycle.    *)
(* The invariant of the sort: the indegree of a step counts its            *)
(* dependencies that are not ordered, and exactly the steps that wait for  *)
(* none are in the queue or in the order. What follows the order is        *)
(* recursion over the order, over paths and over the prefixes of one, by   *)
(* induction on their length: a set of numbers which has 0 and the next of *)
(* each has them all, since it would lack a least one.                     *)
(*                                                                         *)
(* Schedules. Sums over finite sets are taken apart element by element;    *)
(* the peak of running sums that the code computes reaches an amount       *)
(* exactly if the load of some moment does; so a start is accepted exactly *)
(* if the step fits there, and every start that an attempt skips is one    *)
(* where it does not. That each step started right is an invariant of      *)
(* placing them, and feasibility and the length of the schedule follow     *)
(* from it by induction over the order.                                    *)
(*                                                                         *)
(* The timers of the reducer: pausing and resuming does not lose           *)
(* the time of a timer, for any number of timers, pauses and clocks. Their *)
(* invariant is inductive once it is known that a timer nobody started has *)
(* not run; what a step does to the bounds of one timer is arithmetic.     *)
(*                                                                         *)
(* The ids of what a model writes. New ids are numbers, the model's are    *)
(* not, and two steps never get the same: renaming them leaves a plan its  *)
(* shape, so it fits the schema as before, or, where its timers keep their *)
(* names, just if they are linked to old steps. A patch with the ids of    *)
(* the runtime does to the plan what it does with the model's, step for    *)
(* step. The invariant says which checks an answer went through.           *)
(***************************************************************************)
EXTENDS PlanSchedule, Timers, PlanIdentity, SequenceTheorems, FiniteSetTheorems, WellFoundedInduction, TLAPS

-------------------------------------------------------------------------------
\* Induction, by a least counterexample.

LEMMA LeastNumber ==
  ASSUME NEW T \in SUBSET Nat, T # {}
  PROVE  \E x \in T : \A y \in T : x <= y
<1> DEFINE R == {ss \in Nat \X Nat : ss[1] < ss[2]}
<1>1. IsWellFoundedOn(R, Nat)
  BY NatLessThanWellFounded, Zenon DEF OpToRel
<1>2. \E x \in T : \A y \in T : ~ (<<y, x>> \in R)
  <2> HIDE DEF R
  <2> QED
    BY <1>1, WFMin, Zenon
<1>3. \A x, y \in Nat : ~ (<<y, x>> \in R) => x <= y
  OBVIOUS
<1> QED
  BY <1>2, <1>3

\* A set of numbers that has 0 and the next of each has them all.
LEMMA AllNumbers ==
  ASSUME NEW T, 0 \in T, \A n \in Nat : n \in T => n + 1 \in T
  PROVE  Nat \subseteq T
<1> SUFFICES ASSUME Nat \ T # {} PROVE FALSE
  OBVIOUS
<1>1. PICK low \in Nat \ T : \A y \in Nat \ T : low <= y
  <2>1. Nat \ T \in SUBSET Nat
    OBVIOUS
  <2> QED BY <2>1, LeastNumber
<1>2. low - 1 \in Nat /\ low - 1 \in T
  BY <1>1
<1>. QED BY <1>1, <1>2

LEMMA GreatestNumber ==
  ASSUME NEW n \in Nat, NEW T \in SUBSET (0..n), T # {}
  PROVE  \E x \in T : \A y \in T : x >= y
<1> DEFINE U == {n - x : x \in T}
<1>1. U \in SUBSET Nat /\ U # {}
  <2>1. \A x \in T : n - x \in Nat
    OBVIOUS
  <2>. QED BY <2>1
<1>2. PICK u \in U : \A v \in U : u <= v
  <2> HIDE DEF U
  <2>. QED BY <1>1, LeastNumber
<1>3. PICK x \in T : u = n - x
  BY <1>2
<1>4. \A y \in T : n - x <= n - y
  BY <1>2, <1>3
<1>. QED BY <1>3, <1>4

-------------------------------------------------------------------------------
\* What Only keeps of a sequence.

KeptUpTo(s, keep, n, kept) ==
  kept = [i \in 0..n |->
            IF i = 0 THEN <<>>
            ELSE IF s[i] \in keep THEN Append(kept[i - 1], s[i]) ELSE kept[i - 1]]

LEMMA SomeKept ==
  ASSUME NEW s, NEW keep, NEW n \in Nat
  PROVE  \E kept : KeptUpTo(s, keep, n, kept)
<1> DEFINE T == {m \in Nat : \E kept : KeptUpTo(s, keep, m, kept)}
<1>1. 0 \in T
  <2>1. KeptUpTo(s, keep, 0, [i \in 0..0 |-> <<>>])
    BY DEF KeptUpTo
  <2>. QED BY <2>1
<1>2. ASSUME NEW m \in Nat, m \in T PROVE m + 1 \in T
  <2>1. PICK kept : KeptUpTo(s, keep, m, kept)
    BY <1>2
  <2> DEFINE more == [i \in 0..(m + 1) |->
                        IF i # m + 1 THEN kept[i]
                        ELSE IF s[i] \in keep THEN Append(kept[m], s[i]) ELSE kept[m]]
             Step(f, i) == IF i = 0 THEN <<>>
                           ELSE IF s[i] \in keep THEN Append(f[i - 1], s[i]) ELSE f[i - 1]
  <2>2. \A i \in 0..m : kept[i] = Step(kept, i)
    BY <2>1 DEF KeptUpTo
  <2>3. \A i \in 0..(m + 1) : more[i] = Step(more, i)
    <3> TAKE i \in 0..(m + 1)
    <3>1. CASE i = m + 1
      BY <3>1
    <3>2. CASE i # m + 1
      <4>1. i \in 0..m /\ (i # 0 => i - 1 \in 0..(m + 1) /\ i - 1 # m + 1)
        BY <3>2
      <4>. QED BY <4>1, <2>2
    <3>. QED BY <3>1, <3>2
  <2>4. more = [i \in 0..(m + 1) |-> more[i]]
    OBVIOUS
  <2>5. KeptUpTo(s, keep, m + 1, more)
    <3> HIDE DEF more
    <3>. QED BY <2>3, <2>4 DEF KeptUpTo
  <2>. QED BY <2>5
<1>3. Nat \subseteq T
  <2> HIDE DEF T
  <2>. QED BY <1>1, <1>2, AllNumbers
<1>. QED BY <1>3

\* The elements of s that are in keep, each as often as in s.
LEMMA OnlyKeeps ==
  ASSUME NEW S, NEW s \in Seq(S), NEW keep
  PROVE  /\ Only(s, keep) \in Seq(S)
         /\ ToSet(Only(s, keep)) = ToSet(s) \cap keep
         /\ IsInjective(s) => IsInjective(Only(s, keep))
<1>1. PICK kept : KeptUpTo(s, keep, Len(s), kept) /\ Only(s, keep) = kept[Len(s)]
  <2> DEFINE f == CHOOSE kept : KeptUpTo(s, keep, Len(s), kept)
  <2>1. KeptUpTo(s, keep, Len(s), f)
    BY SomeKept, LenProperties
  <2>2. Only(s, keep) = f[Len(s)]
    BY DEF Only, KeptUpTo
  <2>. QED BY <2>1, <2>2
<1> DEFINE Good(n) ==
      /\ kept[n] \in Seq(S)
      /\ \A x : (\E j \in DOMAIN kept[n] : kept[n][j] = x) <=> x \in keep /\ \E i \in 1..n : s[i] = x
      /\ IsInjective(s) => IsInjective(kept[n])
    T == {n \in Nat : n <= Len(s) => Good(n)}
<1>2. /\ kept[0] = <<>>
      /\ \A n \in 1..Len(s) : kept[n] = IF s[n] \in keep THEN Append(kept[n - 1], s[n]) ELSE kept[n - 1]
  <2> DEFINE Step(i) == IF i = 0 THEN <<>>
                        ELSE IF s[i] \in keep THEN Append(kept[i - 1], s[i]) ELSE kept[i - 1]
  <2>1. \A i \in 0..Len(s) : kept[i] = Step(i)
    BY <1>1, Zenon DEF KeptUpTo
  <2>2. 0 \in 0..Len(s) /\ \A i \in 1..Len(s) : i \in 0..Len(s) /\ i # 0
    BY LenProperties
  <2>. QED BY <2>1, <2>2
<1>3. 0 \in T
  <2>1. kept[0] \in Seq(S) /\ DOMAIN kept[0] = {} /\ 1..0 = {}
    BY <1>2
  <2>. QED BY <2>1 DEF IsInjective
<1>4. ASSUME NEW n \in Nat, n \in T PROVE n + 1 \in T
  <2> SUFFICES ASSUME n + 1 <= Len(s) PROVE Good(n + 1)
    OBVIOUS
  <2>1. Good(n) /\ n + 1 \in 1..Len(s) /\ s[n + 1] \in S /\ DOMAIN s = 1..Len(s) /\ (n + 1) - 1 = n
    <3>1. n <= Len(s) /\ n + 1 \in 1..Len(s) /\ (n + 1) - 1 = n
      BY LenProperties
    <3>. QED BY <1>4, <3>1, LenProperties, ElementOfSeq
  <2>2. CASE s[n + 1] \notin keep
    <3>1. kept[n + 1] = kept[n]
      BY <1>2, <2>1, <2>2
    <3>2. \A x : (\E i \in 1..(n + 1) : s[i] = x) <=> (\E i \in 1..n : s[i] = x) \/ x = s[n + 1]
      <4>1. \A i \in 1..(n + 1) : i \in 1..n \/ i = n + 1
        OBVIOUS
      <4>2. 1..n \subseteq 1..(n + 1) /\ n + 1 \in 1..(n + 1)
        OBVIOUS
      <4>. QED BY <4>1, <4>2
    <3>. QED BY <2>1, <2>2, <3>1, <3>2, Zenon
  <2>3. CASE s[n + 1] \in keep
    <3>1. kept[n + 1] = Append(kept[n], s[n + 1])
      BY <1>2, <2>1, <2>3
    <3> DEFINE k == kept[n]
               l == kept[n + 1]
    <3>2. /\ l \in Seq(S) /\ Len(k) \in Nat /\ Len(l) = Len(k) + 1
          /\ DOMAIN k = 1..Len(k) /\ DOMAIN l = 1..Len(l)
          /\ \A j \in 1..Len(k) : l[j] = k[j] /\ l[Len(k) + 1] = s[n + 1]
          /\ l[Len(k) + 1] = s[n + 1]
      BY <2>1, <3>1
    <3> HIDE DEF k, l
    <3>3. \A x : (\E j \in DOMAIN l : l[j] = x) <=> (\E j \in DOMAIN k : k[j] = x) \/ x = s[n + 1]
      <4>1. \A j \in DOMAIN l : j \in DOMAIN k \/ j = Len(k) + 1
        BY <3>2
      <4>2. DOMAIN k \subseteq DOMAIN l /\ Len(k) + 1 \in DOMAIN l
        BY <3>2
      <4>. QED BY <3>2, <4>1, <4>2
    <3>4. \A x : (\E i \in 1..(n + 1) : s[i] = x) <=> (\E i \in 1..n : s[i] = x) \/ x = s[n + 1]
      <4>1. \A i \in 1..(n + 1) : i \in 1..n \/ i = n + 1
        OBVIOUS
      <4>2. 1..n \subseteq 1..(n + 1) /\ n + 1 \in 1..(n + 1)
        OBVIOUS
      <4>. QED BY <4>1, <4>2
    <3>5. \A x : (\E j \in DOMAIN k : k[j] = x) <=> x \in keep /\ \E i \in 1..n : s[i] = x
      BY <2>1 DEF k
    <3>6. IsInjective(s) => IsInjective(l)
      <4> SUFFICES ASSUME IsInjective(s), NEW a \in DOMAIN l, NEW b \in DOMAIN l, l[a] = l[b]
                   PROVE  a = b
        BY DEF IsInjective
      <4>1. IsInjective(k)
        BY <2>1 DEF k
      <4>2. ~ \E j \in DOMAIN k : k[j] = s[n + 1]
        <5>1. ~ \E i \in 1..n : s[i] = s[n + 1]
          BY <2>1 DEF IsInjective
        <5>. QED BY <5>1, <3>5
      <4>3. a \in DOMAIN k \/ a = Len(k) + 1
        BY <3>2
      <4>4. b \in DOMAIN k \/ b = Len(k) + 1
        BY <3>2
      <4>. QED BY <3>2, <4>1, <4>2, <4>3, <4>4 DEF IsInjective
    <3>7. l \in Seq(S)
      BY <3>2
    <3>8. \A x : (\E j \in DOMAIN l : l[j] = x) <=> x \in keep /\ \E i \in 1..(n + 1) : s[i] = x
      BY <3>3, <3>4, <3>5, <2>3
    <3>. QED BY <3>6, <3>7, <3>8 DEF l
  <2>. QED BY <2>2, <2>3
<1>5. Nat \subseteq T
  <2> HIDE DEF T
  <2>. QED BY <1>3, <1>4, AllNumbers
<1>6. Good(Len(s)) /\ DOMAIN s = 1..Len(s)
  <2> HIDE DEF Good
  <2>. QED BY <1>5, LenProperties
<1>7. PICK l : l = Only(s, keep)
  OBVIOUS
<1>8. /\ l \in Seq(S) /\ (IsInjective(s) => IsInjective(l))
      /\ \A x : (\E j \in DOMAIN l : l[j] = x) <=> x \in keep /\ \E i \in DOMAIN s : s[i] = x
  BY <1>1, <1>6, <1>7, Zenon
<1>9. ToSet(l) = ToSet(s) \cap keep
  <2> HIDE DEF Good, T
  <2>. QED BY <1>8 DEF ToSet
<1>. QED BY <1>7, <1>8, <1>9

-------------------------------------------------------------------------------
\* The graph as validatePlanGraph and topologicalOrder keep it.

Lists ==
  /\ nodes \in Seq(ToSet(nodes))
  /\ \A i \in DOMAIN nodes :
       nodes[i].after \in Seq(ToSet(nodes[i].after)) /\ nodes[i].duration \in Nat
ValidIds ==
  /\ Cardinality(Id) = Len(nodes)
  /\ \A s \in Id : ToSet(After(s)) \subseteq Id

Frame == [id : Id, enter : BOOLEAN]
Exits == {i \in DOMAIN stack : ~stack[i].enter}
\* Steps whose search is over.
Done == visited \ onPath

\* No step on the path is searched again above it.
PathIsSimple ==
  \A i, j \in DOMAIN stack : i < j /\ ~stack[i].enter => stack[j].id # stack[i].id

\* A frame was pushed by the last step on the path below it, which depends on its step.
Pushed(i, j) ==
  /\ ~stack[i].enter /\ stack[j].id \in ToSet(After(stack[i].id))
  /\ \A k \in (i + 1)..(j - 1) : stack[k].enter
PushedFromPath ==
  \A j \in DOMAIN stack : j > 1 => \E i \in 1..(j - 1) : Pushed(i, j)

\* What a step on the path depends on is done, or in a frame above it.
Searched ==
  \A i \in Exits : \A d \in ToSet(After(stack[i].id)) :
    d \in Done \/ \E j \in DOMAIN stack : j > i /\ stack[j].id = d

DoneIsClosed == \A s \in Done : ToSet(After(s)) \subseteq Done
DoneIsAcyclic ==
  \A T \in SUBSET Done : T # {} => \E s \in T : ToSet(After(s)) \cap T = {}

SearchInv ==
  /\ stack \in Seq(Frame) /\ visited \subseteq Id
  /\ onPath = {stack[i].id : i \in Exits} /\ onPath \subseteq visited
  /\ PathIsSimple /\ PushedFromPath /\ Searched
  /\ DoneIsClosed /\ DoneIsAcyclic

\* The dependencies of c that are not ordered yet, by their places in its list.
Ahead(c) == {i \in DOMAIN After(c) : After(c)[i] \notin ToSet(order)}
InOrder ==
  \A k \in DOMAIN order : ToSet(After(order[k])) \subseteq {order[j] : j \in 1..(k - 1)}

SortInv ==
  /\ indegree \in [Id -> Nat] /\ queue \in Seq(Id) /\ order \in Seq(Id)
  /\ IsInjective(queue) /\ IsInjective(order) /\ ToSet(queue) \cap ToSet(order) = {}
  /\ \A c \in Id : indegree[c] = Cardinality(Ahead(c))
  /\ \A c \in Id : indegree[c] = 0 <=> c \in ToSet(queue) \cup ToSet(order)
  /\ InOrder

GraphInv ==
  /\ Lists
  /\ phase \in {"ids", "cycles", "order", "ordered", "invalid"}
  /\ reason \in {"none", "duplicate_id", "missing_dependency", "cycle"}
  /\ phase # "invalid" => reason = "none"
  /\ phase \in {"ids", "cycles"} => order = <<>>
  /\ phase = "ids" => stack = <<>> /\ visited = {} /\ onPath = {}
  /\ phase \in {"cycles", "order", "ordered"} => ValidIds
  /\ phase = "cycles" => SearchInv
  /\ phase \in {"order", "ordered"} => Acyclic /\ SortInv
  /\ phase = "ordered" => queue = <<>> /\ Len(order) = Len(nodes)
  /\ VerdictIsRight

LEMMA SeqFacts ==
  ASSUME NEW S, NEW s \in Seq(S)
  PROVE  Len(s) \in Nat /\ DOMAIN s = 1..Len(s) /\ \A i \in 1..Len(s) : s[i] \in S
OBVIOUS

LEMMA AfterIsList ==
  ASSUME Lists, NEW s \in Id
  PROVE  After(s) \in Seq(ToSet(After(s))) /\ Node(s).duration \in Nat
<1> DEFINE I == {i \in DOMAIN nodes : nodes[i].id = s}
<1>1. Len(nodes) \in Nat /\ DOMAIN nodes = 1..Len(nodes)
  BY DEF Lists
<1>2. I \in SUBSET (0..Len(nodes)) /\ I # {}
  BY <1>1 DEF Id
<1>3. Max(I) \in I
  <2> HIDE DEF I
  <2>1. \E x \in I : \A y \in I : x >= y
    BY <1>1, <1>2, GreatestNumber
  <2>. QED BY <2>1 DEF Max
<1>4. After(s) = nodes[Max(I)].after /\ Node(s).duration = nodes[Max(I)].duration
  BY DEF After, Node
<1>. QED BY <1>3, <1>4 DEF Lists

LEMMA Counting ==
  ASSUME NEW n \in Nat
  PROVE  IsFiniteSet(1..n) /\ Cardinality(1..n) = n
<1>1. 1 \in Int /\ n \in Int
  OBVIOUS
<1>2. IsFiniteSet(1..n) /\ Cardinality(1..n) = IF 1 > n THEN 0 ELSE n - 1 + 1
  BY <1>1, FS_Interval, Zenon
<1>3. (IF 1 > n THEN 0 ELSE n - 1 + 1) = n
  OBVIOUS
<1>. QED BY <1>2, <1>3

LEMMA IdsAreListed ==
  ASSUME Lists
  PROVE  /\ IdsInOrder \in Seq(Id) /\ Len(IdsInOrder) = Len(nodes) /\ ToSet(IdsInOrder) = Id
         /\ IsFiniteSet(Id)
         /\ Cardinality(Id) = Len(nodes) => IsInjective(IdsInOrder)
<1>1. Len(nodes) \in Nat /\ DOMAIN nodes = 1..Len(nodes)
  BY DEF Lists
<1>2. IdsInOrder = [i \in 1..Len(nodes) |-> nodes[i].id]
  BY <1>1 DEF IdsInOrder
<1>3. \A i \in 1..Len(nodes) : nodes[i].id \in Id
  BY <1>1 DEF Id
<1>4. IdsInOrder \in Seq(Id) /\ Len(IdsInOrder) = Len(nodes) /\ DOMAIN IdsInOrder = 1..Len(nodes)
  BY <1>1, <1>2, <1>3
<1>5. ToSet(IdsInOrder) = Id
  BY <1>1, <1>2 DEF ToSet, Id
<1>6. IdsInOrder \in Surjection(1..Len(nodes), Id)
  <2>1. IdsInOrder \in [1..Len(nodes) -> Id]
    BY <1>2, <1>3
  <2>2. \A s \in Id : \E i \in 1..Len(nodes) : IdsInOrder[i] = s
    BY <1>4, <1>5 DEF ToSet
  <2>. QED BY <2>1, <2>2 DEF Surjection
<1>7. IsFiniteSet(1..Len(nodes)) /\ Cardinality(1..Len(nodes)) = Len(nodes)
  BY <1>1, Counting
<1>8. /\ IsFiniteSet(Id)
      /\ Cardinality(Id) = Len(nodes) => IdsInOrder \in Injection(1..Len(nodes), Id)
  BY <1>6, <1>7, FS_Surjection
<1>9. IdsInOrder \in Injection(1..Len(nodes), Id) => IsInjective(IdsInOrder)
  BY DEF Injection, IsInjective
<1>. QED BY <1>4, <1>5, <1>8, <1>9

\* Ids, lists and paths are those of the nodes, which no step changes.
LEMMA NodesStay ==
  ASSUME nodes' = nodes
  PROVE  /\ Id' = Id /\ IdsInOrder' = IdsInOrder /\ (Lists <=> Lists') /\ (ValidIds <=> ValidIds')
         /\ \A s : Node(s)' = Node(s) /\ After(s)' = After(s)
         /\ (Acyclic <=> Acyclic')
BY DEF Id, IdsInOrder, Lists, ValidIds, Node, After, Acyclic

\* The first of the frames, and the last.
LEMMA TopOfStack ==
  ASSUME NEW S, NEW st \in Seq(S), st # <<>>
  PROVE  /\ Len(st) \in Nat /\ Len(st) >= 1 /\ DOMAIN st = 1..Len(st)
         /\ Last(st) = st[Len(st)] /\ Last(st) \in S
         /\ Front(st) \in Seq(S) /\ Len(Front(st)) = Len(st) - 1
         /\ DOMAIN Front(st) = 1..(Len(st) - 1)
         /\ \A i \in 1..(Len(st) - 1) : Front(st)[i] = st[i]
<1>1. Len(st) \in Nat /\ Len(st) >= 1 /\ DOMAIN st = 1..Len(st)
  BY EmptySeq, LenProperties
<1>2. Front(st) = SubSeq(st, 1, Len(st) - 1)
  BY DEF Front
<1>3. \A i \in 1..(Len(st) - 1) : st[i] \in S
  BY <1>1
<1>4. /\ SubSeq(st, 1, Len(st) - 1) \in Seq(S)
      /\ Len(SubSeq(st, 1, Len(st) - 1)) = IF 1 <= Len(st) - 1 THEN (Len(st) - 1) - 1 + 1 ELSE 0
      /\ \A i \in 1..((Len(st) - 1) - 1 + 1) : SubSeq(st, 1, Len(st) - 1)[i] = st[1 + i - 1]
  BY <1>1, <1>3, SubSeqProperties
<1>5. Len(Front(st)) = Len(st) - 1
  BY <1>1, <1>2, <1>4
<1>6. \A i \in 1..(Len(st) - 1) : Front(st)[i] = st[i]
  BY <1>1, <1>2, <1>4
<1>. QED BY <1>1, <1>2, <1>4, <1>5, <1>6 DEF Last

-------------------------------------------------------------------------------
\* The search.

\* An invariant of the search with a new stack that is shorter by one frame.
LEMMA PoppedKeeps ==
  ASSUME SearchInv, nodes' = nodes, stack # <<>>, stack' = Front(stack)
  PROVE  /\ stack' \in Seq(Frame') /\ PathIsSimple' /\ PushedFromPath'
         /\ Len(stack') = Len(stack) - 1 /\ DOMAIN stack' = 1..(Len(stack) - 1)
         /\ \A i \in 1..(Len(stack) - 1) : stack'[i] = stack[i]
         /\ Exits' = Exits \ {Len(stack)}
<1>1. Id' = Id /\ Frame' = Frame /\ \A s : After(s)' = After(s)
  BY NodesStay DEF Frame
<1>2. /\ Len(stack) \in Nat /\ Len(stack) >= 1 /\ DOMAIN stack = 1..Len(stack)
      /\ stack' \in Seq(Frame) /\ Len(stack') = Len(stack) - 1
      /\ DOMAIN stack' = 1..(Len(stack) - 1)
      /\ \A i \in 1..(Len(stack) - 1) : stack'[i] = stack[i]
  BY TopOfStack DEF SearchInv
<1>3. \A i \in DOMAIN stack' : i \in DOMAIN stack /\ stack'[i] = stack[i] /\ i \in Int
  BY <1>2
<1>4. PathIsSimple'
  BY <1>3 DEF SearchInv, PathIsSimple
<1>5. PushedFromPath'
  <2> SUFFICES ASSUME NEW j \in DOMAIN stack', j > 1
               PROVE  \E i \in 1..(j - 1) : Pushed(i, j)'
    BY DEF PushedFromPath
  <2>1. PICK i \in 1..(j - 1) : Pushed(i, j)
    BY <1>3 DEF SearchInv, PushedFromPath
  <2>2. i \in 1..(Len(stack) - 1) /\ j \in 1..(Len(stack) - 1)
        /\ (i + 1)..(j - 1) \subseteq 1..(Len(stack) - 1)
    BY <1>2
  <2>3. Pushed(i, j)'
    BY <1>1, <1>2, <2>1, <2>2 DEF Pushed
  <2>. QED BY <2>3
<1>6. Exits' = Exits \ {Len(stack)}
  <2>1. \A i \in DOMAIN stack : i \in DOMAIN stack' \/ i = Len(stack)
    BY <1>2
  <2>2. Len(stack) \notin DOMAIN stack'
    BY <1>2
  <2>. QED BY <1>3, <2>1, <2>2 DEF Exits
<1>. QED BY <1>1, <1>2, <1>4, <1>5, <1>6

LEMMA LeaveKeeps == ASSUME SearchInv, LeaveNode PROVE SearchInv'
<1> DEFINE n == Len(stack)
           s == stack[n].id
<1>1. /\ nodes' = nodes /\ visited' = visited /\ stack # <<>> /\ stack' = Front(stack)
      /\ onPath' = onPath \ {Last(stack).id} /\ ~Last(stack).enter
  BY DEF LeaveNode
<1>2. /\ stack' \in Seq(Frame') /\ PathIsSimple' /\ PushedFromPath'
      /\ DOMAIN stack' = 1..(n - 1) /\ \A i \in 1..(n - 1) : stack'[i] = stack[i]
      /\ Exits' = Exits \ {n}
  BY <1>1, PoppedKeeps
<1>3. /\ n \in Nat /\ n >= 1 /\ DOMAIN stack = 1..n /\ Last(stack) = stack[n] /\ stack[n] \in Frame
  BY <1>1, TopOfStack DEF SearchInv
<1>4. Id' = Id /\ \A t : After(t)' = After(t)
  BY <1>1, NodesStay
<1>5. n \in Exits /\ \A i \in Exits : i # n => i \in 1..(n - 1) /\ stack[i].id # s /\ i < n
  <2>1. n \in Exits
    BY <1>1, <1>3 DEF Exits
  <2>2. ASSUME NEW i \in Exits, i # n PROVE i \in 1..(n - 1) /\ stack[i].id # s /\ i < n
    <3>1. i \in DOMAIN stack /\ ~stack[i].enter /\ i < n /\ n \in DOMAIN stack
      BY <1>3, <2>2 DEF Exits
    <3>. QED BY <1>3, <3>1 DEF SearchInv, PathIsSimple
  <2>. QED BY <2>1, <2>2
<1> HIDE DEF n, s
<1>6. s \in onPath /\ onPath' = onPath \ {s} /\ onPath' = {stack'[i].id : i \in Exits'}
  <2>1. onPath = {stack[i].id : i \in Exits} /\ onPath' = onPath \ {s}
    BY <1>1, <1>3 DEF SearchInv, s
  <2>2. \A i \in Exits' : stack'[i] = stack[i] /\ stack[i].id # s /\ i \in Exits
    BY <1>2, <1>5
  <2>3. \A i \in Exits : i \in Exits' \/ stack[i].id = s
    BY <1>2, <1>5 DEF s
  <2>. QED BY <2>1, <2>2, <2>3, <1>5 DEF s
<1>7. Done' = Done \cup {s} /\ s \notin Done /\ onPath' \subseteq visited' /\ visited' \subseteq Id'
  BY <1>1, <1>4, <1>6 DEF Done, SearchInv
<1>8. ToSet(After(s)) \subseteq Done
  <2>1. ~ \E j \in DOMAIN stack : j > n
    BY <1>3
  <2>. QED BY <1>5, <2>1 DEF SearchInv, Searched, s
<1>9. Searched'
  <2> SUFFICES ASSUME NEW i \in Exits', NEW d \in ToSet(After(stack[i].id))', d \notin Done'
               PROVE  \E j \in DOMAIN stack' : j > i /\ stack'[j].id = d
    BY DEF Searched
  <2>1. i \in Exits /\ i \in 1..(n - 1) /\ stack'[i] = stack[i]
    BY <1>2, <1>5
  <2>2. d \in ToSet(After(stack[i].id)) /\ d \notin Done /\ d # s
    BY <1>4, <1>7, <2>1
  <2>3. PICK j \in DOMAIN stack : j > i /\ stack[j].id = d
    BY <2>1, <2>2 DEF SearchInv, Searched
  <2>4. j \in 1..(n - 1)
    BY <1>3, <2>2, <2>3 DEF s
  <2>. QED BY <1>2, <2>3, <2>4
<1>10. DoneIsClosed'
  BY <1>4, <1>7, <1>8 DEF SearchInv, DoneIsClosed
<1>11. DoneIsAcyclic'
  <2> SUFFICES ASSUME NEW T \in SUBSET Done', T # {}
               PROVE  \E t \in T : ToSet(After(t)) \cap T = {}
    BY <1>4 DEF DoneIsAcyclic
  <2>1. CASE T \cap Done = {}
    <3>1. T = {s}
      BY <1>7, <2>1
    <3>. QED BY <1>7, <1>8, <3>1
  <2>2. CASE T \cap Done # {}
    <3>1. PICK t \in T \cap Done : ToSet(After(t)) \cap (T \cap Done) = {}
      BY <2>2 DEF SearchInv, DoneIsAcyclic
    <3>2. ToSet(After(t)) \subseteq Done
      BY DEF SearchInv, DoneIsClosed
    <3>. QED BY <3>1, <3>2
  <2>. QED BY <2>1, <2>2
<1>. QED BY <1>2, <1>6, <1>7, <1>9, <1>10, <1>11 DEF SearchInv

LEMMA SkipKeeps == ASSUME SearchInv, SkipNode PROVE SearchInv'
<1> DEFINE n == Len(stack)
           s == stack[n].id
<1>1. /\ nodes' = nodes /\ visited' = visited /\ onPath' = onPath
      /\ stack # <<>> /\ stack' = Front(stack) /\ Last(stack).enter /\ Last(stack).id \in visited
  BY DEF SkipNode
<1>2. /\ stack' \in Seq(Frame') /\ PathIsSimple' /\ PushedFromPath'
      /\ DOMAIN stack' = 1..(n - 1) /\ \A i \in 1..(n - 1) : stack'[i] = stack[i]
      /\ Exits' = Exits \ {n}
  BY <1>1, PoppedKeeps
<1>3. /\ n \in Nat /\ n >= 1 /\ DOMAIN stack = 1..n /\ Last(stack) = stack[n] /\ stack[n] \in Frame
  BY <1>1, TopOfStack DEF SearchInv
<1>4. Id' = Id /\ \A t : After(t)' = After(t)
  BY <1>1, NodesStay
<1>5. n \notin Exits /\ Exits' = Exits /\ \A i \in Exits : i \in 1..(n - 1) /\ stack[i].id # s
  <2>1. n \notin Exits
    BY <1>1, <1>3 DEF Exits
  <2>2. ASSUME NEW i \in Exits PROVE i \in 1..(n - 1) /\ stack[i].id # s
    <3>1. i \in DOMAIN stack /\ ~stack[i].enter /\ i < n /\ n \in DOMAIN stack
      BY <1>3, <2>1 DEF Exits
    <3>. QED BY <1>3, <3>1 DEF SearchInv, PathIsSimple
  <2>. QED BY <1>2, <2>1, <2>2
<1> HIDE DEF n
<1>6. s \in Done /\ Done' = Done
  BY <1>1, <1>3, <1>5 DEF Done, SearchInv
<1>7. onPath' = {stack'[i].id : i \in Exits'}
  <2>1. \A i \in Exits : stack'[i] = stack[i]
    BY <1>2, <1>5
  <2>. QED BY <1>1, <1>5, <2>1 DEF SearchInv
<1>8. Searched'
  <2> SUFFICES ASSUME NEW i \in Exits', NEW d \in ToSet(After(stack[i].id))', d \notin Done'
               PROVE  \E j \in DOMAIN stack' : j > i /\ stack'[j].id = d
    BY DEF Searched
  <2>1. i \in Exits /\ i \in 1..(n - 1) /\ stack'[i] = stack[i]
    BY <1>2, <1>5
  <2>2. d \in ToSet(After(stack[i].id)) /\ d \notin Done /\ d # s
    BY <1>4, <1>6, <2>1
  <2>3. PICK j \in DOMAIN stack : j > i /\ stack[j].id = d
    BY <2>1, <2>2 DEF SearchInv, Searched
  <2>4. j \in 1..(n - 1)
    BY <1>3, <2>2, <2>3
  <2>. QED BY <1>2, <2>3, <2>4
<1>9. DoneIsClosed' /\ DoneIsAcyclic'
  BY <1>4, <1>6 DEF SearchInv, DoneIsClosed, DoneIsAcyclic
<1>. QED BY <1>1, <1>2, <1>4, <1>7, <1>8, <1>9 DEF SearchInv

LEMMA EnterKeeps ==
  ASSUME SearchInv, Lists, ValidIds, EnterNode, phase' # "invalid" PROVE SearchInv'
<1>0. PICK n, s : n = Len(stack) /\ s = stack[n].id
  OBVIOUS
<1> DEFINE unseen == Only(After(s), Id \ visited')
<1>1. /\ nodes' = nodes /\ stack # <<>> /\ Last(stack).enter /\ Last(stack).id \notin visited
      /\ n \in Nat /\ n >= 1 /\ DOMAIN stack = 1..n /\ Last(stack) = stack[n] /\ stack[n] \in Frame
      /\ Front(stack) \in Seq(Frame) /\ Len(Front(stack)) = n - 1
      /\ \A i \in 1..(n - 1) : Front(stack)[i] = stack[i]
  <2>1. /\ nodes' = nodes /\ stack # <<>> /\ Last(stack).enter /\ Last(stack).id \notin visited
        /\ stack \in Seq(Frame)
    BY DEF SearchInv, EnterNode
  <2>. QED BY <1>0, <2>1, TopOfStack
<1>2. /\ visited' = visited \cup {s} /\ onPath' = onPath \cup {s}
      /\ ToSet(After(s)) \cap onPath' = {}
      /\ stack' = Front(stack) \o <<Exit(s)>> \o [i \in DOMAIN unseen |-> Enter(unseen[i])]
  BY <1>0, <1>1 DEF EnterNode, Reject
<1>3. Id' = Id /\ Frame' = Frame /\ \A t : After(t)' = After(t)
  BY <1>1, NodesStay DEF Frame
<1>4. s \in Id /\ s \notin visited
  BY <1>0, <1>1 DEF Frame
<1>5. After(s) \in Seq(ToSet(After(s))) /\ ToSet(After(s)) \subseteq Id
  BY <1>4, AfterIsList DEF ValidIds
<1>6. /\ unseen \in Seq(ToSet(After(s))) /\ ToSet(unseen) = ToSet(After(s)) \cap (Id \ visited')
  BY <1>5, OnlyKeeps
<1> DEFINE m == Len(unseen)
           enters == [i \in DOMAIN unseen |-> Enter(unseen[i])]
<1>7. /\ m \in Nat /\ DOMAIN unseen = 1..m
      /\ \A k \in 1..m : unseen[k] \in Id /\ unseen[k] \notin visited' /\ unseen[k] \in ToSet(After(s))
  <2> HIDE DEF unseen
  <2>1. m \in Nat /\ DOMAIN unseen = 1..m
    BY <1>6
  <2>2. \A k \in 1..m : unseen[k] \in ToSet(unseen)
    BY <2>1 DEF ToSet
  <2>. QED BY <1>6, <2>1, <2>2
<1> HIDE DEF unseen
<1>8. Exit(s) = [id |-> s, enter |-> FALSE] /\ Exit(s) \in Frame
  BY <1>4 DEF Exit, Frame
<1>9. /\ enters \in Seq(Frame) /\ Len(enters) = m
      /\ \A k \in 1..m : enters[k].id = unseen[k] /\ enters[k].enter
  <2>1. \A k \in 1..m : Enter(unseen[k]) \in Frame /\ Enter(unseen[k]).id = unseen[k]
                        /\ Enter(unseen[k]).enter
    BY <1>7 DEF Enter, Frame
  <2>2. enters = [k \in 1..m |-> Enter(unseen[k])]
    BY <1>7
  <2>. QED BY <1>7, <2>1, <2>2
<1> HIDE DEF m, enters
<1>10. /\ stack' \in Seq(Frame) /\ Len(stack') = n + m /\ DOMAIN stack' = 1..(n + m)
       /\ \A i \in 1..(n - 1) : stack'[i] = stack[i]
       /\ stack'[n].id = s /\ ~stack'[n].enter
       /\ \A k \in 1..m : stack'[n + k].id = unseen[k] /\ stack'[n + k].enter
  <2> DEFINE path == Front(stack) \o <<Exit(s)>>
  <2>1. /\ path \in Seq(Frame) /\ Len(path) = n
        /\ \A i \in 1..(n - 1) : path[i] = stack[i]
        /\ path[n] = Exit(s)
    <3> DEFINE f == Front(stack)
    <3>1. f \in Seq(Frame) /\ <<Exit(s)>> \in Seq(Frame) /\ Len(<<Exit(s)>>) = 1 /\ <<Exit(s)>>[1] = Exit(s)
      BY <1>1, <1>8
    <3>2. Len(f) = n - 1
      BY <1>1
    <3>3. \A i \in 1..(n - 1) : f[i] = stack[i]
      BY <1>1
    <3> HIDE DEF f
    <3>4. /\ f \o <<Exit(s)>> \in Seq(Frame) /\ Len(f \o <<Exit(s)>>) = Len(f) + 1
          /\ \A i \in 1..(Len(f) + 1) :
               (f \o <<Exit(s)>>)[i] = IF i <= Len(f) THEN f[i] ELSE <<Exit(s)>>[i - Len(f)]
      BY <3>1, ConcatProperties
    <3>5. n \in Nat /\ n >= 1
      BY <1>1
    <3>6. \A i \in 1..(n - 1) : i \in 1..(Len(f) + 1) /\ i <= Len(f)
      BY <3>2, <3>5
    <3>7. n \in 1..(Len(f) + 1) /\ ~(n <= Len(f)) /\ n - Len(f) = 1
      BY <3>2, <3>5
    <3>8. Len(f \o <<Exit(s)>>) = n
      BY <3>2, <3>4, <3>5
    <3>. QED BY <3>1, <3>3, <3>4, <3>6, <3>7, <3>8 DEF f
  <2>2. stack' = path \o enters
    BY <1>2 DEF enters
  <2> HIDE DEF path
  <2>3. /\ path \o enters \in Seq(Frame) /\ Len(path \o enters) = n + m
        /\ \A i \in 1..(n + m) :
             (path \o enters)[i] = IF i <= n THEN path[i] ELSE enters[i - n]
    <3>1. enters \in Seq(Frame) /\ Len(enters) = m
      BY <1>9 DEF m, enters
    <3>2. /\ path \o enters \in Seq(Frame) /\ Len(path \o enters) = Len(path) + Len(enters)
          /\ \A i \in 1..(Len(path) + Len(enters)) :
               (path \o enters)[i] = IF i <= Len(path) THEN path[i] ELSE enters[i - Len(path)]
      BY <2>1, <3>1, ConcatProperties, ZenonT(20)
    <3>. QED BY <2>1, <3>1, <3>2
  <2>4. n \in Nat /\ n >= 1 /\ m \in Nat
    BY <1>1, <1>7 DEF m
  <2>5. \A i \in 1..n : i \in 1..(n + m) /\ i <= n
    BY <2>4
  <2>6. \A k \in 1..m : n + k \in 1..(n + m) /\ ~(n + k <= n) /\ (n + k) - n = k
    BY <2>4
  <2>7. \A i \in 1..n : stack'[i] = path[i]
    BY <2>2, <2>3, <2>5
  <2>8. \A k \in 1..m : stack'[n + k] = enters[k]
    BY <2>2, <2>3, <2>6
  <2>9. n \in 1..n /\ \A i \in 1..(n - 1) : i \in 1..n
    BY <2>4
  <2>10. DOMAIN stack' = 1..(n + m)
    BY <2>2, <2>3
  <2>11. stack' \in Seq(Frame) /\ Len(stack') = n + m
    BY <2>2, <2>3
  <2>12. \A i \in 1..(n - 1) : stack'[i] = stack[i]
    BY <2>1, <2>7, <2>9
  <2>13. stack'[n].id = s /\ ~stack'[n].enter
    BY <1>8, <2>1, <2>7, <2>9
  <2>14. \A k \in 1..m : stack'[n + k].id = unseen[k] /\ stack'[n + k].enter
    BY <1>9, <2>8
  <2>. QED BY <2>10, <2>11, <2>12, <2>13, <2>14
<1>11. /\ n \in Nat /\ n >= 1 /\ m \in Nat /\ DOMAIN stack = 1..n /\ stack[n].enter /\ stack[n].id = s
  BY <1>0, <1>1, <1>7 DEF m
<1>12. \A i \in 1..(n + m) : i \in 1..(n - 1) \/ i = n \/ \E k \in 1..m : i = n + k
  <2> TAKE i \in 1..(n + m)
  <2>1. i > n => \E k \in 1..m : i = n + k
    <3>1. i > n => i - n \in 1..m /\ i = n + (i - n)
      BY <1>11
    <3>. QED BY <3>1
  <2>2. i < n => i \in 1..(n - 1)
    BY <1>11
  <2>3. i < n \/ i = n \/ i > n
    BY <1>11
  <2>. QED BY <2>1, <2>2, <2>3
<1>13. Exits' = Exits \cup {n}
  <2>1. \A i \in DOMAIN stack : i \in 1..(n - 1) \/ i = n
    BY <1>11
  <2>2. \A i \in 1..(n - 1) : i \in DOMAIN stack /\ i \in DOMAIN stack'
    BY <1>10, <1>11
  <2>3. n \in DOMAIN stack'
    BY <1>10, <1>11
  <2>. QED BY <1>10, <1>11, <1>12, <2>1, <2>2, <2>3 DEF Exits
<1>14. \A i \in Exits : i \in 1..(n - 1) /\ stack'[i] = stack[i]
  BY <1>10, <1>11 DEF Exits
<1>15. onPath' = {stack'[i].id : i \in Exits'}
  <2>1. onPath = {stack[i].id : i \in Exits}
    BY DEF SearchInv
  <2>2. \A i \in Exits' : i = n \/ (i \in Exits /\ stack'[i] = stack[i])
    BY <1>13, <1>14
  <2>3. n \in Exits' /\ stack'[n].id = s /\ \A i \in Exits : i \in Exits' /\ stack'[i] = stack[i]
    BY <1>10, <1>13, <1>14
  <2>. QED BY <1>2, <2>1, <2>2, <2>3
<1>16. /\ onPath' \subseteq visited' /\ visited' \subseteq Id'
       /\ Done' = Done
  BY <1>2, <1>3, <1>4 DEF SearchInv, Done
<1>17. PathIsSimple'
  <2> SUFFICES ASSUME NEW i \in DOMAIN stack', NEW j \in DOMAIN stack', i < j, ~stack'[i].enter
               PROVE  stack'[j].id # stack'[i].id
    BY DEF PathIsSimple
  <2>1. i \in Exits' /\ stack'[i].id \in visited'
    BY <1>15, <1>16 DEF Exits
  <2>2. CASE j <= n
    <3>1. i \in 1..(n - 1) /\ j \in DOMAIN stack /\ i \in DOMAIN stack
      BY <1>10, <1>11, <2>2
    <3>2. stack'[j].id = stack[j].id /\ stack'[i] = stack[i]
      BY <1>10, <1>11, <1>12, <2>2, <3>1
    <3>. QED BY <3>1, <3>2 DEF SearchInv, PathIsSimple
  <2>3. CASE ~(j <= n)
    <3>0. j \in 1..(n + m) /\ ~(j \in 1..(n - 1) \/ j = n)
      BY <1>10, <1>11, <2>3
    <3>1. PICK k \in 1..m : j = n + k
      BY <1>12, <3>0, Zenon
    <3>. QED BY <1>7, <1>10, <2>1, <3>1 DEF m
  <2>. QED BY <2>2, <2>3
<1>18. PushedFromPath'
  <2> SUFFICES ASSUME NEW j \in DOMAIN stack', j > 1
               PROVE  \E i \in 1..(j - 1) : Pushed(i, j)'
    BY DEF PushedFromPath
  <2>1. CASE j <= n
    <3>1. j \in DOMAIN stack
      BY <1>10, <1>11, <2>1
    <3>2. PICK i \in 1..(j - 1) : Pushed(i, j)
      BY <3>1 DEF SearchInv, PushedFromPath
    <3>3. i \in 1..(n - 1) /\ (i + 1)..(j - 1) \subseteq 1..(n - 1)
      BY <1>11, <2>1, <3>1
    <3>4. stack'[j].id = stack[j].id
      BY <1>10, <1>11, <1>12, <2>1
    <3>5. Pushed(i, j)'
      BY <1>3, <1>10, <3>2, <3>3, <3>4 DEF Pushed
    <3>. QED BY <3>5
  <2>2. CASE ~(j <= n)
    <3>0. j \in 1..(n + m) /\ ~(j \in 1..(n - 1) \/ j = n)
      BY <1>10, <1>11, <2>2
    <3>1. PICK k \in 1..m : j = n + k
      BY <1>12, <3>0, Zenon
    <3>2. n \in 1..(j - 1)
      BY <1>11, <3>1
    <3>3. \A l \in (n + 1)..(j - 1) : \E h \in 1..m : l = n + h
      <4> TAKE l \in (n + 1)..(j - 1)
      <4>1. l - n \in 1..m /\ l = n + (l - n)
        BY <1>11, <3>1
      <4>. QED BY <4>1
    <3>4. stack'[j].id \in ToSet(After(s))
      BY <1>7, <1>10, <3>1 DEF m
    <3>5. Pushed(n, j)'
      BY <1>3, <1>10, <3>3, <3>4 DEF Pushed
    <3>. QED BY <3>2, <3>5
  <2>. QED BY <2>1, <2>2
<1>19. Searched'
  <2> SUFFICES ASSUME NEW i \in Exits', NEW d \in ToSet(After(stack[i].id))', d \notin Done'
               PROVE  \E j \in DOMAIN stack' : j > i /\ stack'[j].id = d
    BY DEF Searched
  <2>1. CASE i \in Exits
    <3>1. d \in ToSet(After(stack[i].id)) /\ d \notin Done
      BY <1>3, <1>14, <1>16, <2>1
    <3>2. PICK j \in DOMAIN stack : j > i /\ stack[j].id = d
      BY <2>1, <3>1 DEF SearchInv, Searched
    <3>3. j \in DOMAIN stack' /\ stack'[j].id = d
      BY <1>10, <1>11, <1>12, <3>2
    <3>. QED BY <3>2, <3>3
  <2>2. CASE i \notin Exits
    <3>1. i = n
      BY <1>13, <2>2
    <3>2. d \in ToSet(After(s))
      BY <1>3, <1>10, <3>1
    <3>3. d \notin onPath' /\ d \notin visited' /\ d \in Id
      BY <1>2, <1>5, <3>2 DEF Done
    <3>4. PICK k \in 1..m : unseen[k] = d
      BY <1>6, <1>7, <3>2, <3>3 DEF ToSet, m
    <3>5. n + k \in DOMAIN stack' /\ n + k > i
      BY <1>10, <1>11, <3>1
    <3>. QED BY <1>10, <3>4, <3>5
  <2>. QED BY <2>1, <2>2
<1>20. DoneIsClosed' /\ DoneIsAcyclic'
  BY <1>3, <1>16 DEF SearchInv, DoneIsClosed, DoneIsAcyclic
<1>. QED BY <1>3, <1>10, <1>15, <1>16, <1>17, <1>18, <1>19, <1>20 DEF SearchInv

\* A dependency on the path closes a cycle: from it up the path each step needs the next.
LEMMA CycleIsFound ==
  ASSUME SearchInv, ValidIds, EnterNode, phase' = "invalid", phase = "cycles" PROVE ~Acyclic
<1>0. PICK n, s : n = Len(stack) /\ s = stack[n].id
  OBVIOUS
<1>1. /\ stack # <<>> /\ Last(stack).enter
      /\ n \in Nat /\ n >= 1 /\ DOMAIN stack = 1..n /\ Last(stack) = stack[n] /\ stack[n] \in Frame
  <2>1. stack # <<>> /\ Last(stack).enter /\ stack \in Seq(Frame)
    BY DEF SearchInv, EnterNode
  <2>. QED BY <1>0, <2>1, TopOfStack
<1>2. PICK d \in ToSet(After(s)) : d \in onPath \cup {s}
  BY <1>0, <1>1 DEF EnterNode, Reject
<1>3. s \in Id /\ \A i \in 1..n : stack[i].id \in Id
  <2>1. \A i \in 1..n : stack[i] \in Frame
    BY <1>0, <1>1 DEF SearchInv
  <2>. QED BY <1>0, <1>1, <2>1 DEF Frame
<1>4. CASE d = s
  <2>1. {s} \in SUBSET Id /\ {s} # {} /\ ToSet(After(s)) \cap {s} # {}
    BY <1>2, <1>3, <1>4
  <2>. QED BY <2>1 DEF Acyclic
<1>5. CASE d # s
  <2>1. PICK q \in Exits : stack[q].id = d
    BY <1>2, <1>5 DEF SearchInv
  <2>2. q \in 1..n /\ q < n
    BY <1>1, <2>1 DEF Exits
  <2> DEFINE Path == {i \in q..n : i \in Exits \/ i = n}
             T == {stack[i].id : i \in Path}
  <2>3. T \subseteq Id /\ T # {}
    BY <1>3, <2>1, <2>2
  <2>4. ASSUME NEW t \in T PROVE ToSet(After(t)) \cap T # {}
    <3>1. PICK i \in Path : stack[i].id = t
      BY <2>4
    <3>2. CASE i = n
      <4>1. t = s /\ q \in Path
        <5>1. q \in q..n
          BY <1>1, <2>2
        <5>. QED BY <1>0, <2>1, <3>1, <3>2, <5>1
      <4>. QED BY <1>2, <2>1, <4>1
    <3>3. CASE i # n
      <4> DEFINE above == {j \in (i + 1)..n : j \in Exits \/ j = n}
      <4>1. i \in Exits /\ i \in 1..n /\ i < n
        <5>1. i \in q..n /\ (i \in Exits \/ i = n)
          OBVIOUS
        <5>. QED BY <1>1, <2>2, <3>3, <5>1
      <4>2. above \in SUBSET Nat /\ above # {}
        <5>1. n \in above /\ above \subseteq (i + 1)..n
          BY <1>1, <4>1
        <5>2. (i + 1)..n \subseteq Nat
          BY <1>1, <4>1
        <5>. QED BY <5>1, <5>2
      <4>3. PICK j \in above : \A k \in above : j <= k
        <5> HIDE DEF above
        <5>. QED BY <4>2, LeastNumber
      <4>4. j \in DOMAIN stack /\ j > 1 /\ j \in Path /\ j > i
        BY <1>1, <2>2, <4>1, <4>3
      <4>5. PICK p \in 1..(j - 1) : Pushed(p, j)
        BY <4>4 DEF SearchInv, PushedFromPath
      <4>6. p \in Exits /\ p <= n
        BY <1>1, <4>3, <4>4, <4>5 DEF Pushed, Exits
      <4>7. ~(p < i)
        <5>1. p < i => i \in (p + 1)..(j - 1)
          BY <4>1, <4>4
        <5>. QED BY <4>1, <4>5, <5>1 DEF Pushed, Exits
      <4>8. ~(p > i)
        <5>1. p > i => p \in above
          BY <4>1, <4>6
        <5>. QED BY <4>3, <4>5, <5>1
      <4>9. p = i
        BY <4>1, <4>7, <4>8
      <4>. QED BY <3>1, <4>4, <4>5, <4>9 DEF Pushed
    <3>. QED BY <3>2, <3>3
  <2> HIDE DEF T
  <2>. QED BY <2>3, <2>4 DEF Acyclic
<1>. QED BY <1>4, <1>5

LEMMA RootKeeps == ASSUME SearchInv, NextRoot PROVE SearchInv'
<1>1. PICK i \in DOMAIN nodes :
        /\ nodes' = nodes /\ visited' = visited /\ onPath' = {} /\ stack = <<>>
        /\ stack' = <<Enter(nodes[i].id)>>
  BY DEF NextRoot
<1>2. Id' = Id /\ Frame' = Frame /\ \A t : After(t)' = After(t)
  BY <1>1, NodesStay DEF Frame
<1>3. /\ Enter(nodes[i].id) \in Frame /\ Enter(nodes[i].id).enter
  BY DEF Enter, Frame, Id
<1>4. stack' \in Seq(Frame) /\ DOMAIN stack' = {1} /\ stack'[1].enter
  BY <1>1, <1>3
<1>5. Exits = {} /\ Exits' = {}
  BY <1>1, <1>4 DEF Exits
<1>6. onPath = {} /\ Done' = Done
  BY <1>1, <1>5 DEF SearchInv, Done
<1>7. PathIsSimple' /\ PushedFromPath' /\ Searched'
  BY <1>4, <1>5 DEF PathIsSimple, PushedFromPath, Searched
<1>8. DoneIsClosed' /\ DoneIsAcyclic'
  BY <1>2, <1>6 DEF SearchInv, DoneIsClosed, DoneIsAcyclic
<1>9. onPath' = {stack'[k].id : k \in Exits'} /\ onPath' \subseteq visited' /\ visited' \subseteq Id'
  BY <1>1, <1>2, <1>5 DEF SearchInv
<1>. QED BY <1>2, <1>4, <1>7, <1>8, <1>9 DEF SearchInv

\* Before the search: nothing is done.
LEMMA SearchBegins ==
  ASSUME stack = <<>>, visited = {}, onPath = {}
  PROVE  SearchInv
<1>1. Exits = {} /\ Done = {} /\ DOMAIN stack = {}
  BY DEF Exits, Done
<1>. QED BY <1>1 DEF SearchInv, PathIsSimple, PushedFromPath, Searched, DoneIsClosed, DoneIsAcyclic

\* After it: everything is.
LEMMA SearchEnds ==
  ASSUME SearchInv, stack = <<>>, Id \subseteq visited
  PROVE  Acyclic
<1>1. Exits = {} /\ onPath = {}
  BY DEF Exits, SearchInv
<1>2. Done = Id
  BY <1>1 DEF Done, SearchInv
<1>. QED BY <1>2 DEF SearchInv, DoneIsAcyclic, Acyclic

-------------------------------------------------------------------------------
\* The sort.

LEMMA SortBegins == ASSUME Lists, ValidIds, order = <<>>, StartOrder PROVE SortInv'
<1>1. /\ nodes' = nodes /\ order' = <<>> /\ indegree' = [s \in Id |-> Len(After(s))]
      /\ queue' = Only(IdsInOrder, {s \in Id : indegree'[s] = 0})
  BY DEF StartOrder
<1>2. Id' = Id /\ \A t : After(t)' = After(t)
  BY <1>1, NodesStay
<1>3. \A s \in Id : After(s) \in Seq(ToSet(After(s)))
  BY AfterIsList
<1>4. indegree' \in [Id -> Nat]
  BY <1>1, <1>3, LenProperties
<1>5. /\ queue' \in Seq(Id) /\ IsInjective(queue')
      /\ ToSet(queue') = {s \in Id : indegree'[s] = 0}
  <2>1. /\ IdsInOrder \in Seq(Id) /\ ToSet(IdsInOrder) = Id /\ IsInjective(IdsInOrder)
    BY IdsAreListed DEF ValidIds
  <2> DEFINE free == {s \in Id : indegree'[s] = 0}
  <2>2. free \subseteq Id
    OBVIOUS
  <2> HIDE DEF free
  <2>3. /\ Only(IdsInOrder, free) \in Seq(Id)
        /\ ToSet(Only(IdsInOrder, free)) = ToSet(IdsInOrder) \cap free
        /\ IsInjective(Only(IdsInOrder, free))
    BY <2>1, OnlyKeeps, ZenonT(20)
  <2>. QED BY <1>1, <2>1, <2>2, <2>3 DEF free
<1>6. ToSet(order') = {} /\ order' \in Seq(Id) /\ IsInjective(order') /\ InOrder'
  BY <1>1 DEF ToSet, IsInjective, InOrder
<1>7. \A c \in Id : Ahead(c)' = DOMAIN After(c)
  BY <1>2, <1>6 DEF Ahead
<1>8. \A c \in Id : indegree'[c] = Cardinality(Ahead(c)')
  <2> TAKE c \in Id
  <2>1. Ahead(c)' = 1..Len(After(c)) /\ Len(After(c)) \in Nat
    BY <1>3, <1>7, LenProperties
  <2>. QED BY <1>1, <2>1, Counting
<1>. QED BY <1>2, <1>4, <1>5, <1>6, <1>8 DEF SortInv

LEMMA AheadIsFinite ==
  ASSUME Lists, NEW c \in Id
  PROVE  /\ IsFiniteSet(DOMAIN After(c)) /\ IsFiniteSet(Ahead(c))
<1>1. After(c) \in Seq(ToSet(After(c)))
  BY AfterIsList
<1>2. Len(After(c)) \in Nat /\ DOMAIN After(c) = 1..Len(After(c))
  BY <1>1, LenProperties
<1>3. IsFiniteSet(DOMAIN After(c))
  BY <1>2, Counting
<1>. QED BY <1>3, FS_Subset DEF Ahead

\* What is appended, and the rest of a queue.
LEMMA OneMore ==
  ASSUME NEW S, NEW s \in Seq(S), NEW x \in S, IsInjective(s), x \notin ToSet(s)
  PROVE  /\ Append(s, x) \in Seq(S) /\ IsInjective(Append(s, x))
         /\ ToSet(Append(s, x)) = ToSet(s) \cup {x}
         /\ DOMAIN s = 1..Len(s) /\ Len(s) \in Nat
         /\ DOMAIN Append(s, x) = 1..(Len(s) + 1)
         /\ \A i \in 1..Len(s) : Append(s, x)[i] = s[i]
         /\ Append(s, x)[Len(s) + 1] = x
<1> DEFINE t == Append(s, x)
<1>1. /\ t \in Seq(S) /\ DOMAIN s = 1..Len(s) /\ Len(s) \in Nat
      /\ DOMAIN t = 1..(Len(s) + 1) /\ t[Len(s) + 1] = x
      /\ \A i \in 1..Len(s) : t[i] = s[i]
  OBVIOUS
<1> HIDE DEF t
<1>2. \A i \in DOMAIN t : (i \in DOMAIN s /\ t[i] = s[i]) \/ i = Len(s) + 1
  BY <1>1
<1>3. Len(s) + 1 \in DOMAIN t /\ \A i \in DOMAIN s : i \in DOMAIN t /\ t[i] = s[i]
  BY <1>1
<1>4. ToSet(t) = ToSet(s) \cup {x}
  BY <1>1, <1>2, <1>3 DEF ToSet
<1>5. IsInjective(t)
  BY <1>1, <1>2 DEF ToSet, IsInjective
<1>. QED BY <1>1, <1>4, <1>5 DEF t

LEMMA HeadLeaves ==
  ASSUME NEW S, NEW s \in Seq(S), s # <<>>, IsInjective(s)
  PROVE  /\ Head(s) \in S /\ Head(s) \in ToSet(s)
         /\ Tail(s) \in Seq(S) /\ IsInjective(Tail(s)) /\ ToSet(Tail(s)) = ToSet(s) \ {Head(s)}
<1>1. /\ Len(s) \in Nat /\ Len(s) >= 1 /\ DOMAIN s = 1..Len(s) /\ Head(s) = s[1]
      /\ \A i \in 1..Len(s) : s[i] \in S
  BY EmptySeq, LenProperties, ElementOfSeq
<1> DEFINE t == Tail(s)
<1>2. /\ t \in Seq(S) /\ DOMAIN t = 1..(Len(s) - 1)
      /\ \A i \in 1..(Len(s) - 1) : t[i] = s[i + 1]
  BY <1>1
<1> HIDE DEF t
<1>3. \A i \in DOMAIN t : i + 1 \in DOMAIN s /\ i + 1 # 1 /\ t[i] = s[i + 1] /\ i \in Int
  BY <1>1, <1>2
<1>4. \A i \in DOMAIN s : i = 1 \/ (i - 1 \in DOMAIN t /\ t[i - 1] = s[i])
  BY <1>1, <1>2
<1>5. 1 \in DOMAIN s
  BY <1>1
<1>6. IsInjective(t)
  <2> SUFFICES ASSUME NEW a \in DOMAIN t, NEW b \in DOMAIN t, t[a] = t[b] PROVE a = b
    BY DEF IsInjective
  <2>1. a + 1 = b + 1
    BY <1>3 DEF IsInjective
  <2>. QED BY <1>3, <2>1
<1>7. ToSet(t) = ToSet(s) \ {s[1]}
  <2>1. \A i \in DOMAIN s : s[i] = s[1] => i = 1
    BY <1>5 DEF IsInjective
  <2>2. \A i \in DOMAIN t : t[i] \in ToSet(s) \ {s[1]}
    BY <1>3, <2>1 DEF ToSet
  <2>3. \A i \in DOMAIN s : s[i] = s[1] \/ s[i] \in ToSet(t)
    BY <1>4 DEF ToSet
  <2>. QED BY <2>2, <2>3 DEF ToSet
<1>8. Head(s) \in S /\ Head(s) \in ToSet(s)
  BY <1>1, <1>5 DEF ToSet
<1>. QED BY <1>1, <1>2, <1>6, <1>7, <1>8 DEF t

LEMMA TwoQueues ==
  ASSUME NEW S, NEW s \in Seq(S), NEW t \in Seq(S), IsInjective(s), IsInjective(t),
         ToSet(s) \cap ToSet(t) = {}
  PROVE  s \o t \in Seq(S) /\ IsInjective(s \o t) /\ ToSet(s \o t) = ToSet(s) \cup ToSet(t)
<1> DEFINE u == s \o t
<1>1. /\ Len(s) \in Nat /\ Len(t) \in Nat /\ DOMAIN s = 1..Len(s) /\ DOMAIN t = 1..Len(t)
  BY LenProperties
<1>2. /\ u \in Seq(S) /\ Len(u) = Len(s) + Len(t)
      /\ \A i \in 1..(Len(s) + Len(t)) : u[i] = IF i <= Len(s) THEN s[i] ELSE t[i - Len(s)]
  BY ConcatProperties
<1>3. DOMAIN u = 1..(Len(s) + Len(t))
  BY <1>2, LenProperties
<1> HIDE DEF u
<1>4. \A i \in DOMAIN u :
        (i \in DOMAIN s /\ u[i] = s[i])
        \/ (i - Len(s) \in DOMAIN t /\ u[i] = t[i - Len(s)] /\ i \in Int)
  BY <1>1, <1>2, <1>3
<1>5. \A i \in DOMAIN s : i \in DOMAIN u /\ u[i] = s[i]
  BY <1>1, <1>2, <1>3
<1>6. \A i \in DOMAIN t : i + Len(s) \in DOMAIN u /\ u[i + Len(s)] = t[i]
  <2> TAKE i \in DOMAIN t
  <2>1. i + Len(s) \in 1..(Len(s) + Len(t)) /\ ~(i + Len(s) <= Len(s)) /\ (i + Len(s)) - Len(s) = i
    BY <1>1
  <2>. QED BY <1>2, <1>3, <2>1
<1>7. ToSet(u) = ToSet(s) \cup ToSet(t)
  <2>1. \A i \in DOMAIN u : u[i] \in ToSet(s) \cup ToSet(t)
    BY <1>4 DEF ToSet
  <2>2. \A i \in DOMAIN s : s[i] \in ToSet(u)
    BY <1>5 DEF ToSet
  <2>3. \A i \in DOMAIN t : t[i] \in ToSet(u)
    BY <1>6 DEF ToSet
  <2>. QED BY <2>1, <2>2, <2>3 DEF ToSet
<1>8. IsInjective(u)
  <2> SUFFICES ASSUME NEW a \in DOMAIN u, NEW b \in DOMAIN u, u[a] = u[b] PROVE a = b
    BY DEF IsInjective
  <2>1. \A i \in DOMAIN s, j \in DOMAIN t : s[i] # t[j]
    BY DEF ToSet
  <2>2. CASE a \in DOMAIN s /\ u[a] = s[a] /\ b \in DOMAIN s /\ u[b] = s[b]
    BY <2>2 DEF IsInjective
  <2>3. CASE /\ a - Len(s) \in DOMAIN t /\ u[a] = t[a - Len(s)] /\ a \in Int
             /\ b - Len(s) \in DOMAIN t /\ u[b] = t[b - Len(s)] /\ b \in Int
    <3>1. a - Len(s) = b - Len(s)
      BY <2>3 DEF IsInjective
    <3>. QED BY <1>1, <2>3, <3>1
  <2>. QED BY <1>4, <2>1, <2>2, <2>3
<1>. QED BY <1>2, <1>7, <1>8 DEF u

\* Taking s from the queue leaves of what is ahead of c all but s.
LEMMA OneLessAhead ==
  ASSUME Lists, NEW c \in Id, NEW s, s \notin ToSet(order),
         NEW ahead \in SUBSET DOMAIN After(c),
         \A i \in DOMAIN After(c) :
           i \in ahead <=> After(c)[i] \notin ToSet(order) /\ After(c)[i] # s
  PROVE  /\ Cardinality(ahead) = Cardinality(Ahead(c)) - Occurrences(c, s)
         /\ Cardinality(ahead) \in Nat /\ Occurrences(c, s) \in Nat
         /\ Cardinality(Ahead(c)) \in Nat
<1> DEFINE here == {i \in DOMAIN After(c) : After(c)[i] = s}
<1>1. ahead = Ahead(c) \ here /\ here = Ahead(c) \cap here
  BY DEF Ahead
<1>2. IsFiniteSet(Ahead(c)) /\ IsFiniteSet(DOMAIN After(c))
  BY AheadIsFinite
<1>3. IsFiniteSet(here)
  BY <1>2, FS_Subset
<1>4. Occurrences(c, s) = Cardinality(here)
  BY DEF Occurrences
<1> HIDE DEF here
<1>5. IsFiniteSet(ahead) /\ Cardinality(ahead) = Cardinality(Ahead(c)) - Cardinality(here)
  <2>1. /\ IsFiniteSet(Ahead(c) \ here)
        /\ Cardinality(Ahead(c) \ here) = Cardinality(Ahead(c)) - Cardinality(Ahead(c) \cap here)
    BY <1>2, FS_Difference, ZenonT(30)
  <2>. QED BY <1>1, <2>1, Zenon
<1>6. Cardinality(ahead) \in Nat /\ Cardinality(here) \in Nat /\ Cardinality(Ahead(c)) \in Nat
  BY <1>2, <1>3, <1>5, FS_CardinalityType
<1>. QED BY <1>4, <1>5, <1>6

LEMMA TakeKeeps == ASSUME SortInv, Lists, ValidIds, TakeFromQueue PROVE SortInv'
<1>0. PICK s : s = Head(queue)
  OBVIOUS
<1> DEFINE left == [c \in Id |-> indegree[c] - Occurrences(c, s)]
           free == {c \in Id : left[c] = 0 /\ Occurrences(c, s) > 0}
           freed == Only(IdsInOrder, free)
<1>1. /\ nodes' = nodes /\ queue # <<>> /\ order' = Append(order, s)
      /\ indegree' = left /\ queue' = Tail(queue) \o freed
  BY <1>0 DEF TakeFromQueue
<1>2. Id' = Id /\ \A t : After(t)' = After(t)
  BY <1>1, NodesStay
<1>3. /\ s \in Id /\ s \in ToSet(queue) /\ Tail(queue) \in Seq(Id) /\ IsInjective(Tail(queue))
      /\ ToSet(Tail(queue)) = ToSet(queue) \ {s}
  BY <1>0, <1>1, HeadLeaves DEF SortInv
<1>4. s \notin ToSet(order)
  BY <1>3 DEF SortInv
<1>5. /\ order' \in Seq(Id) /\ IsInjective(order') /\ ToSet(order') = ToSet(order) \cup {s}
      /\ DOMAIN order = 1..Len(order) /\ Len(order) \in Nat /\ DOMAIN order' = 1..(Len(order) + 1)
      /\ \A i \in 1..Len(order) : order'[i] = order[i]
      /\ order'[Len(order) + 1] = s
  BY <1>1, <1>3, <1>4, OneMore DEF SortInv
<1>6. ASSUME NEW c \in Id
      PROVE  /\ left[c] = Cardinality(Ahead(c)') /\ left[c] \in Nat
             /\ indegree[c] = left[c] + Occurrences(c, s) /\ Occurrences(c, s) \in Nat
  <2>1. PICK ahead : ahead = Ahead(c)'
    OBVIOUS
  <2>2. /\ ahead \in SUBSET DOMAIN After(c)
        /\ \A i \in DOMAIN After(c) :
             i \in ahead <=> After(c)[i] \notin ToSet(order) /\ After(c)[i] # s
    BY <1>2, <1>5, <2>1 DEF Ahead
  <2>3. /\ Cardinality(ahead) = Cardinality(Ahead(c)) - Occurrences(c, s)
        /\ Cardinality(ahead) \in Nat /\ Occurrences(c, s) \in Nat
        /\ Cardinality(Ahead(c)) \in Nat
    BY <1>4, <2>2, OneLessAhead
  <2>4. indegree[c] = Cardinality(Ahead(c))
    BY DEF SortInv
  <2>. QED BY <2>1, <2>3, <2>4
<1>7. /\ freed \in Seq(Id) /\ IsInjective(freed) /\ ToSet(freed) = free
  <2>1. /\ IdsInOrder \in Seq(Id) /\ ToSet(IdsInOrder) = Id /\ IsInjective(IdsInOrder)
    BY IdsAreListed DEF ValidIds
  <2>2. free \subseteq Id
    OBVIOUS
  <2> HIDE DEF free
  <2>3. /\ Only(IdsInOrder, free) \in Seq(Id)
        /\ ToSet(Only(IdsInOrder, free)) = ToSet(IdsInOrder) \cap free
        /\ IsInjective(Only(IdsInOrder, free))
    BY <2>1, OnlyKeeps, ZenonT(20)
  <2>. QED BY <2>1, <2>2, <2>3
<1> HIDE DEF freed
<1>8. \A c \in Id : c \in free => c \notin ToSet(queue) \cup ToSet(order)
  <2> TAKE c \in Id
  <2>1. c \in free => indegree[c] # 0
    BY <1>6
  <2>. QED BY <2>1 DEF SortInv
<1>9. /\ queue' \in Seq(Id) /\ IsInjective(queue')
      /\ ToSet(queue') = (ToSet(queue) \ {s}) \cup free
  <2>1. ToSet(Tail(queue)) \cap ToSet(freed) = {}
    BY <1>3, <1>7, <1>8
  <2> HIDE DEF free
  <2>0. PICK S, rest, new : S = Id /\ rest = Tail(queue) /\ new = freed
    OBVIOUS
  <2>2. /\ rest \in Seq(S) /\ new \in Seq(S) /\ IsInjective(rest) /\ IsInjective(new)
        /\ ToSet(rest) \cap ToSet(new) = {}
    BY <1>3, <1>7, <2>0, <2>1
  <2>3. queue' = rest \o new /\ ToSet(rest) = ToSet(queue) \ {s} /\ ToSet(new) = free
    BY <1>1, <1>3, <1>7, <2>0
  <2>4. /\ rest \o new \in Seq(S) /\ IsInjective(rest \o new)
        /\ ToSet(rest \o new) = ToSet(rest) \cup ToSet(new)
    BY <2>2, TwoQueues
  <2>. QED BY <2>0, <2>3, <2>4
<1>10. ToSet(queue') \cap ToSet(order') = {}
  BY <1>5, <1>8, <1>9, <1>3 DEF SortInv
<1>11. \A c \in Id : indegree'[c] = 0 <=> c \in ToSet(queue') \cup ToSet(order')
  <2> TAKE c \in Id
  <2>1. ToSet(queue') \cup ToSet(order') = ToSet(queue) \cup ToSet(order) \cup free
    BY <1>3, <1>5, <1>9
  <2>2. indegree'[c] = left[c]
    BY <1>1
  <2>3. left[c] = 0 <=> indegree[c] = 0 \/ c \in free
    <3>1. indegree[c] = 0 => left[c] = 0
      BY <1>6
    <3>2. left[c] = 0 => indegree[c] = 0 \/ c \in free
      BY <1>6
    <3>. QED BY <3>1, <3>2
  <2>. QED BY <2>1, <2>2, <2>3 DEF SortInv
<1>12. InOrder'
  <2> SUFFICES ASSUME NEW k \in DOMAIN order'
               PROVE  ToSet(After(order[k]))' \subseteq {order'[j] : j \in 1..(k - 1)}
    BY DEF InOrder
  <2>1. CASE k \in DOMAIN order
    <3>1. order'[k] = order[k] /\ ToSet(After(order[k])) \subseteq {order[j] : j \in 1..(k - 1)}
      BY <1>5, <2>1 DEF SortInv, InOrder
    <3>2. \A j \in 1..(k - 1) : order'[j] = order[j]
      BY <1>5, <2>1
    <3>. QED BY <1>2, <3>1, <3>2
  <2>2. CASE k \notin DOMAIN order
    <3>1. k = Len(order) + 1 /\ order'[k] = s
      BY <1>5, <2>2
    <3>2. indegree[s] = 0
      BY <1>3 DEF SortInv
    <3>3. Ahead(s) = {}
      <4>1. Cardinality(Ahead(s)) = 0 /\ IsFiniteSet(Ahead(s))
        BY <1>3, <3>2, AheadIsFinite DEF SortInv
      <4>. QED BY <4>1, FS_EmptySet
    <3>4. ToSet(After(s)) \subseteq ToSet(order)
      BY <3>3 DEF Ahead, ToSet
    <3>5. ToSet(order) \subseteq {order'[j] : j \in 1..(k - 1)}
      BY <1>5, <3>1 DEF ToSet
    <3>6. ToSet(After(order[k]))' = ToSet(After(s))
      BY <1>2, <3>1
    <3>. QED BY <3>4, <3>5, <3>6
  <2>. QED BY <2>1, <2>2
<1>13. indegree' \in [Id -> Nat] /\ \A c \in Id : indegree'[c] = Cardinality(Ahead(c)')
  BY <1>1, <1>6
<1>. QED BY <1>2, <1>5, <1>9, <1>10, <1>11, <1>12, <1>13 DEF SortInv

\* A queue that is empty has let every step pass.
LEMMA AllAreOrdered ==
  ASSUME SortInv, Lists, ValidIds, Acyclic, queue = <<>>
  PROVE  ToSet(order) = Id /\ Len(order) = Len(nodes)
<1>1. ToSet(order) \subseteq Id
  BY DEF SortInv, ToSet
<1>2. ToSet(order) = Id
  <2> SUFFICES ASSUME Id \ ToSet(order) # {} PROVE FALSE
    BY <1>1
  <2>1. PICK s \in Id \ ToSet(order) : ToSet(After(s)) \cap (Id \ ToSet(order)) = {}
    <3>1. Id \ ToSet(order) \in SUBSET Id
      OBVIOUS
    <3>. QED BY <3>1 DEF Acyclic
  <2>2. Ahead(s) = {}
    <3>1. ToSet(After(s)) \subseteq ToSet(order)
      BY <2>1 DEF ValidIds
    <3>. QED BY <3>1 DEF Ahead, ToSet
  <2>3. indegree[s] = 0
    BY <2>2, FS_EmptySet DEF SortInv
  <2>4. ToSet(queue) = {}
    BY DEF ToSet
  <2>. QED BY <2>1, <2>3, <2>4 DEF SortInv
<1>3. order \in Bijection(1..Len(order), Id)
  <2>1. order \in [1..Len(order) -> Id] /\ DOMAIN order = 1..Len(order)
    BY LenProperties DEF SortInv
  <2>2. order \in Injection(1..Len(order), Id)
    BY <2>1 DEF SortInv, IsInjective, Injection
  <2>3. order \in Surjection(1..Len(order), Id)
    BY <1>2, <2>1 DEF ToSet, Surjection
  <2>. QED BY <2>2, <2>3 DEF Bijection
<1>4. Cardinality(Id) = Len(order)
  <2>1. ExistsBijection(1..Len(order), Id)
    BY <1>3 DEF ExistsBijection
  <2>2. Len(order) \in Nat
    BY LenProperties DEF SortInv
  <2>. QED BY <2>1, <2>2, FS_CountingElements
<1>. QED BY <1>2, <1>4 DEF ValidIds

LEMMA SearchStays ==
  ASSUME SearchInv, nodes' = nodes, stack' = stack, visited' = visited, onPath' = onPath
  PROVE  SearchInv'
<1>1. Id' = Id /\ Frame' = Frame /\ Exits' = Exits /\ Done' = Done /\ \A s : After(s)' = After(s)
  BY NodesStay DEF Frame, Exits, Done
<1>2. PushedFromPath'
  BY <1>1 DEF SearchInv, PushedFromPath, Pushed
<1>3. PathIsSimple' /\ Searched'
  BY <1>1 DEF SearchInv, PathIsSimple, Searched
<1>4. DoneIsClosed' /\ DoneIsAcyclic'
  BY <1>1 DEF SearchInv, DoneIsClosed, DoneIsAcyclic
<1>. QED BY <1>1, <1>2, <1>3, <1>4 DEF SearchInv

LEMMA SortStays ==
  ASSUME SortInv, nodes' = nodes, indegree' = indegree, queue' = queue, order' = order
  PROVE  SortInv'
<1>1. Id' = Id /\ \A s : After(s)' = After(s)
  BY NodesStay
<1>2. \A c : Ahead(c)' = Ahead(c)
  BY <1>1 DEF Ahead
<1>3. InOrder'
  BY <1>1 DEF SortInv, InOrder
<1>. QED BY <1>1, <1>2, <1>3 DEF SortInv

LEMMA IdsAreCounted ==
  ASSUME Lists PROVE Cardinality(Id) \in Nat /\ Cardinality(Id) <= Len(nodes)
<1>1. Len(nodes) \in Nat /\ DOMAIN nodes = 1..Len(nodes)
  BY DEF Lists
<1>2. IsFiniteSet(1..Len(nodes)) /\ Cardinality(1..Len(nodes)) = Len(nodes)
  BY <1>1, Counting
<1>3. IdsInOrder \in Surjection(1..Len(nodes), Id)
  <2>1. IdsInOrder \in [1..Len(nodes) -> Id]
    BY <1>1 DEF IdsInOrder, Id
  <2>2. \A s \in Id : \E i \in 1..Len(nodes) : IdsInOrder[i] = s
    BY <1>1 DEF IdsInOrder, Id
  <2>. QED BY <2>1, <2>2 DEF Surjection
<1>4. IsFiniteSet(Id) /\ Cardinality(Id) <= Cardinality(1..Len(nodes))
  BY <1>2, <1>3, FS_Surjection
<1>. QED BY <1>2, <1>4, FS_CardinalityType

-------------------------------------------------------------------------------
\* The validation and the sort, one after the other.

LEMMA GraphBegins == ScheduleInit => GraphInv
<1> SUFFICES ASSUME ScheduleInit PROVE GraphInv
  OBVIOUS
<1>1. PICK call \in Calls : GraphInit({call.steps})
  BY DEF ScheduleInit
<1>2. /\ nodes = call.steps /\ phase = "ids" /\ reason = "none" /\ stack = <<>> /\ visited = {}
      /\ onPath = {} /\ order = <<>>
  BY <1>1 DEF GraphInit
<1>3. Lists
  BY <1>2, PlanScheduleAssumption DEF Lists
<1>. QED BY <1>2, <1>3 DEF GraphInv, VerdictIsRight

LEMMA GraphKeeps == ASSUME GraphInv, GraphNext PROVE GraphInv'
<1>1. /\ nodes' = nodes /\ Lists /\ Lists'
      /\ Id' = Id /\ (ValidIds <=> ValidIds') /\ (Acyclic <=> Acyclic')
      /\ \A s : After(s)' = After(s)
  <2>1. nodes' = nodes
    BY DEF GraphNext, CheckIds, NextRoot, LeaveNode, SkipNode, EnterNode, StartOrder,
           TakeFromQueue, FinishOrder
  <2>. QED BY <2>1, NodesStay DEF GraphInv
<1>2. CASE CheckIds
  <2>1. /\ phase = "ids" /\ reason = "none" /\ order = <<>> /\ order' = order
        /\ stack' = <<>> /\ visited' = {} /\ onPath' = {}
    BY <1>2 DEF CheckIds, GraphInv, search, sort
  <2>2. CASE Cardinality(Id) # Len(nodes)
    <3>1. phase' = "invalid" /\ reason' = "duplicate_id"
      BY <1>2, <2>2 DEF CheckIds, Reject
    <3>2. Cardinality(Id)' < Len(nodes)'
      <4>1. Len(nodes) \in Nat /\ IdsInOrder \in Seq(Id)
        BY <1>1, IdsAreListed DEF Lists
      <4>2. Cardinality(Id) <= Len(nodes) /\ Cardinality(Id) \in Nat
        BY <1>1, IdsAreCounted
      <4>. QED BY <1>1, <2>2, <4>1, <4>2
    <3>. QED BY <1>1, <2>1, <3>1, <3>2 DEF GraphInv, VerdictIsRight
  <2>3. CASE Cardinality(Id) = Len(nodes) /\ \E s \in Id : ~(ToSet(After(s)) \subseteq Id)
    <3>1. phase' = "invalid" /\ reason' = "missing_dependency"
      BY <1>2, <2>3 DEF CheckIds, Reject
    <3>. QED BY <1>1, <2>1, <2>3, <3>1 DEF GraphInv, VerdictIsRight
  <2>4. CASE Cardinality(Id) = Len(nodes) /\ ~ \E s \in Id : ~(ToSet(After(s)) \subseteq Id)
    <3>1. phase' = "cycles" /\ reason' = "none"
      BY <1>2, <2>1, <2>4 DEF CheckIds
    <3>2. ValidIds /\ ValidIds'
      BY <1>1, <2>4 DEF ValidIds
    <3>3. SearchInv
      BY <2>1, SearchBegins DEF GraphInv
    <3>4. SearchInv'
      <4>1. stack' = stack /\ visited' = visited /\ onPath' = onPath
        BY <1>2 DEF CheckIds, search
      <4>. QED BY <1>1, <3>3, <4>1, SearchStays
    <3>. QED BY <1>1, <2>1, <3>1, <3>2, <3>4 DEF GraphInv, VerdictIsRight
  <2>. QED BY <2>2, <2>3, <2>4
<1>3. CASE NextRoot \/ LeaveNode \/ SkipNode
  <2>1. /\ phase = "cycles" /\ reason = "none" /\ order = <<>>
        /\ phase' = phase /\ reason' = reason /\ order' = order
    BY <1>3 DEF NextRoot, LeaveNode, SkipNode, sort, GraphInv
  <2>2. SearchInv'
    BY <1>3, <2>1, RootKeeps, LeaveKeeps, SkipKeeps DEF GraphInv
  <2>. QED BY <1>1, <2>1, <2>2 DEF GraphInv, VerdictIsRight
<1>4. CASE EnterNode
  <2>1. /\ phase = "cycles" /\ reason = "none" /\ order = <<>> /\ order' = order
        /\ SearchInv /\ ValidIds
    BY <1>4 DEF EnterNode, sort, GraphInv
  <2>2. \/ phase' = "invalid" /\ reason' = "cycle"
        \/ phase' = phase /\ reason' = reason
    BY <1>4 DEF EnterNode, Reject
  <2>3. CASE phase' = "invalid" /\ reason' = "cycle"
    <3>1. ~Acyclic'
      BY <1>1, <1>4, <2>1, <2>3, CycleIsFound
    <3>. QED BY <1>1, <2>1, <2>3, <3>1 DEF GraphInv, VerdictIsRight
  <2>4. CASE phase' = phase /\ reason' = reason
    <3>1. SearchInv'
      BY <1>1, <1>4, <2>1, <2>4, EnterKeeps
    <3>. QED BY <1>1, <2>1, <2>4, <3>1 DEF GraphInv, VerdictIsRight
  <2>. QED BY <2>2, <2>3, <2>4
<1>5. CASE StartOrder
  <2>1. /\ phase = "cycles" /\ reason = "none" /\ order = <<>>
        /\ phase' = "order" /\ reason' = reason /\ ValidIds /\ SearchInv
        /\ stack = <<>> /\ Id \subseteq visited
    BY <1>5 DEF StartOrder, GraphInv
  <2>2. Acyclic /\ SortInv'
    BY <1>1, <1>5, <2>1, SearchEnds, SortBegins
  <2>. QED BY <1>1, <2>1, <2>2 DEF GraphInv, VerdictIsRight, ValidIds
<1>6. CASE TakeFromQueue
  <2>1. /\ phase = "order" /\ reason = "none" /\ phase' = "order" /\ reason' = reason
        /\ ValidIds /\ Acyclic /\ SortInv
    BY <1>6 DEF TakeFromQueue, GraphInv
  <2>2. SortInv'
    BY <1>1, <1>6, <2>1, TakeKeeps
  <2>. QED BY <1>1, <2>1, <2>2 DEF GraphInv, VerdictIsRight, ValidIds
<1>7. CASE FinishOrder
  <2>1. /\ phase = "order" /\ reason = "none" /\ queue = <<>> /\ queue' = queue /\ order' = order
        /\ indegree' = indegree /\ ValidIds /\ Acyclic /\ SortInv
    BY <1>7 DEF FinishOrder, GraphInv, sort
  <2>2. Len(order) = Len(nodes)
    BY <1>1, <2>1, AllAreOrdered
  <2>3. phase' = "ordered" /\ reason' = "none"
    BY <1>7, <2>1, <2>2 DEF FinishOrder
  <2>4. SortInv'
    BY <1>1, <2>1, SortStays
  <2>. QED BY <1>1, <2>1, <2>2, <2>3, <2>4 DEF GraphInv, VerdictIsRight, ValidIds
<1>. QED BY <1>2, <1>3, <1>4, <1>5, <1>6, <1>7 DEF GraphNext

LEMMA GraphStays == ASSUME GraphInv, UNCHANGED graphVars PROVE GraphInv'
<1>1. /\ nodes' = nodes /\ Lists' /\ Id' = Id /\ (ValidIds <=> ValidIds')
      /\ (Acyclic <=> Acyclic') /\ \A s : After(s)' = After(s)
  BY NodesStay DEF graphVars, GraphInv
<1>2. /\ phase' = phase /\ reason' = reason /\ stack' = stack /\ visited' = visited
      /\ onPath' = onPath /\ indegree' = indegree /\ queue' = queue /\ order' = order
  BY DEF graphVars
<1>3. SearchInv => SearchInv'
  BY <1>1, <1>2, SearchStays
<1>4. SortInv => SortInv'
  BY <1>1, <1>2, SortStays
<1>5. VerdictIsRight'
  BY <1>1, <1>2 DEF GraphInv, VerdictIsRight
<1>. QED BY <1>1, <1>2, <1>3, <1>4, <1>5 DEF GraphInv

LEMMA GraphIsSorted == GraphInv => VerdictIsRight /\ SortIsRight
<1> SUFFICES ASSUME GraphInv, phase = "ordered" PROVE SortIsRight
  BY DEF GraphInv, SortIsRight
<1>1. SortInv /\ Lists /\ ValidIds /\ Acyclic /\ queue = <<>>
  BY DEF GraphInv
<1>2. ToSet(order) = Id /\ Len(order) = Len(nodes)
  BY <1>1, AllAreOrdered
<1>. QED BY <1>1, <1>2 DEF SortIsRight, SortInv, InOrder

LEMMA ScheduleKeepsGraph == GraphInv /\ [ScheduleNext]_scheduleVars => GraphInv'
<1> SUFFICES ASSUME GraphInv, [ScheduleNext]_scheduleVars PROVE GraphInv'
  OBVIOUS
<1>1. GraphNext \/ UNCHANGED graphVars
  BY DEF ScheduleNext, Prepare, Place, Refuse, GiveUp, Finished, scheduleVars
<1>. QED BY <1>1, GraphKeeps, GraphStays

\* At every step of validatePlanGraph and topologicalOrder, and after them, the search
\* and the sort are where their invariants say.
THEOREM GraphInvHolds == ScheduleSpec => []GraphInv
BY GraphBegins, ScheduleKeepsGraph, PTL DEF ScheduleSpec

-------------------------------------------------------------------------------
\* What is measured along the order.

Ordered ==
  /\ Lists /\ ValidIds
  /\ order \in Seq(Id) /\ IsInjective(order) /\ InOrder
  /\ ToSet(order) = Id /\ Len(order) = Len(nodes)

LEMMA GreatestOfList ==
  ASSUME NEW n \in Nat, n > 0, NEW h, \A i \in 1..n : h[i] \in Nat
  PROVE  \E i \in 1..n : \A j \in 1..n : h[j] <= h[i]
<1> DEFINE Best(m) == \E i \in 1..(m + 1) : \A j \in 1..(m + 1) : h[j] <= h[i]
           T == {m \in Nat : m + 1 <= n => Best(m)}
<1>1. 0 \in T
  <2>1. 1 \in 1..1 /\ \A j \in 1..1 : j = 1
    OBVIOUS
  <2>2. h[1] <= h[1]
    <3>1. h[1] \in Nat
      OBVIOUS
    <3>. QED BY <3>1
  <2>. QED BY <2>1, <2>2
<1>2. ASSUME NEW m \in Nat, m \in T PROVE m + 1 \in T
  <2> SUFFICES ASSUME m + 2 <= n PROVE Best(m + 1)
    OBVIOUS
  <2>1. PICK i \in 1..(m + 1) : \A j \in 1..(m + 1) : h[j] <= h[i]
    BY <1>2
  <2>2. /\ h[i] \in Nat /\ h[m + 2] \in Nat /\ i \in 1..(m + 2) /\ m + 2 \in 1..(m + 2)
        /\ \A j \in 1..(m + 1) : h[j] \in Nat
        /\ \A j \in 1..(m + 2) : j \in 1..(m + 1) \/ j = m + 2
    OBVIOUS
  <2>3. CASE h[m + 2] <= h[i]
    BY <2>1, <2>2, <2>3
  <2>4. CASE ~(h[m + 2] <= h[i])
    <3>1. \A j \in 1..(m + 1) : h[j] <= h[m + 2]
      BY <2>1, <2>2, <2>4
    <3>. QED BY <2>2, <3>1
  <2>. QED BY <2>3, <2>4
<1>3. Nat \subseteq T
  <2> HIDE DEF T
  <2>. QED BY <1>1, <1>2, AllNumbers
<1>4. n - 1 \in Nat /\ (n - 1) + 1 = n
  OBVIOUS
<1>5. Best(n - 1)
  BY <1>3, <1>4
<1>. QED BY <1>4, <1>5

LEMMA MaxIs ==
  ASSUME NEW S \in SUBSET Nat, NEW v \in S, \A x \in S : x <= v PROVE Max(S) = v
<1>1. Max(S) \in S /\ \A y \in S : Max(S) >= y
  BY DEF Max
<1>2. Max(S) \in Nat /\ v \in Nat /\ Max(S) >= v /\ Max(S) <= v
  BY <1>1
<1>. QED BY <1>2

\* The latest of the dependencies of a step.
LEMMA LatestIs ==
  ASSUME Lists, NEW s \in Id, NEW g, \A d \in ToSet(After(s)) : g[d] \in Nat
  PROVE  /\ Latest(s, g) \in Nat
         /\ \A d \in ToSet(After(s)) : g[d] <= Latest(s, g)
         /\ After(s) # <<>> => \E d \in ToSet(After(s)) : g[d] = Latest(s, g)
         /\ After(s) = <<>> => Latest(s, g) = 0
<1>0. PICK a : a = After(s)
  OBVIOUS
<1>1. /\ Len(a) \in Nat /\ DOMAIN a = 1..Len(a) /\ (a = <<>> <=> Len(a) = 0)
      /\ ToSet(a) = {a[i] : i \in 1..Len(a)}
  BY <1>0, AfterIsList, EmptySeq, LenProperties DEF ToSet
<1> DEFINE S == {0} \cup {g[d] : d \in ToSet(a)}
<1>2. Latest(s, g) = Max(S)
  BY <1>0 DEF Latest
<1>3. S \in SUBSET Nat
  BY <1>0
<1>4. CASE a = <<>>
  <2>1. ToSet(a) = {} /\ S = {0}
    BY <1>1, <1>4
  <2>2. Max(S) = 0
    <3> HIDE DEF S
    <3>. QED BY <2>1, MaxIs
  <2>. QED BY <1>0, <1>2, <1>4, <2>1, <2>2
<1>5. CASE a # <<>>
  <2>1. PICK i \in 1..Len(a) : \A j \in 1..Len(a) : g[a[j]] <= g[a[i]]
    <3> DEFINE h == [j \in 1..Len(a) |-> g[a[j]]]
    <3>1. Len(a) > 0 /\ \A j \in 1..Len(a) : h[j] \in Nat /\ h[j] = g[a[j]]
      BY <1>0, <1>1, <1>5
    <3> HIDE DEF h
    <3>2. \E i \in 1..Len(a) : \A j \in 1..Len(a) : h[j] <= h[i]
      BY <1>1, <3>1, GreatestOfList
    <3>. QED BY <3>1, <3>2
  <2>2. a[i] \in ToSet(a) /\ \A d \in ToSet(a) : g[d] <= g[a[i]]
    BY <1>1, <2>1
  <2>3. g[a[i]] \in S /\ \A x \in S : x <= g[a[i]]
    BY <1>0, <2>2
  <2>4. Max(S) = g[a[i]]
    <3> HIDE DEF S
    <3>. QED BY <1>3, <2>3, MaxIs
  <2>. QED BY <1>0, <1>2, <1>5, <2>2, <2>4
<1>. QED BY <1>4, <1>5

LEMMA LatestOfSame ==
  ASSUME NEW s, NEW g, NEW h, \A d \in ToSet(After(s)) : g[d] = h[d]
  PROVE  Latest(s, g) = Latest(s, h)
<1>1. {g[d] : d \in ToSet(After(s))} = {h[d] : d \in ToSet(After(s))}
  OBVIOUS
<1>. QED BY <1>1 DEF Latest

AlongUpTo(w, n, f) ==
  f = [k \in 0..n |->
         IF k = 0 THEN [s \in {} |-> 0]
         ELSE LET before == f[k - 1]
                  s == order[k]
              IN  [x \in DOMAIN before \cup {s} |->
                     IF x = s THEN w[s] + Latest(s, before) ELSE before[x]]]

LEMMA SomeAlong ==
  ASSUME NEW w, NEW n \in Nat
  PROVE  \E f : AlongUpTo(w, n, f)
<1> DEFINE T == {m \in Nat : \E f : AlongUpTo(w, m, f)}
           More(before, s) == [x \in DOMAIN before \cup {s} |->
                                 IF x = s THEN w[s] + Latest(s, before) ELSE before[x]]
           Step(f, k) == IF k = 0 THEN [s \in {} |-> 0] ELSE More(f[k - 1], order[k])
<1>0. \A f, m : AlongUpTo(w, m, f) <=> f = [k \in 0..m |-> Step(f, k)]
  BY DEF AlongUpTo
<1> HIDE DEF More
<1>1. 0 \in T
  <2> DEFINE f == [k \in 0..0 |-> [s \in {} |-> 0]]
  <2>1. f = [k \in 0..0 |-> Step(f, k)]
    OBVIOUS
  <2>. QED BY <1>0, <2>1
<1>2. ASSUME NEW m \in Nat, m \in T PROVE m + 1 \in T
  <2>1. PICK f : f = [k \in 0..m |-> Step(f, k)]
    BY <1>0, <1>2
  <2> DEFINE more == [k \in 0..(m + 1) |-> IF k # m + 1 THEN f[k] ELSE More(f[m], order[m + 1])]
  <2>2. \A k \in 0..m : f[k] = Step(f, k)
    BY <2>1
  <2>3. \A k \in 0..(m + 1) : more[k] = Step(more, k)
    <3> TAKE k \in 0..(m + 1)
    <3>1. CASE k = m + 1
      BY <3>1
    <3>2. CASE k # m + 1
      <4>1. k \in 0..m /\ (k # 0 => k - 1 \in 0..(m + 1) /\ k - 1 # m + 1)
        BY <3>2
      <4>. QED BY <4>1, <2>2
    <3>. QED BY <3>1, <3>2
  <2>4. more = [k \in 0..(m + 1) |-> more[k]]
    OBVIOUS
  <2>5. more = [k \in 0..(m + 1) |-> Step(more, k)]
    <3> HIDE DEF more
    <3>. QED BY <2>3, <2>4
  <2>6. AlongUpTo(w, m + 1, more)
    <3> HIDE DEF more, Step
    <3>. QED BY <1>0, <2>5
  <2>. QED BY <2>6
<1>3. Nat \subseteq T
  <2> HIDE DEF T
  <2>. QED BY <1>1, <1>2, AllNumbers
<1>. QED BY <1>3

\* Each step has its weight, and the latest of its dependencies before it.
LEMMA AlongTheOrder ==
  ASSUME Ordered, NEW w, \A s \in Id : w[s] \in Nat
  PROVE  /\ AlongOrder(w) \in [Id -> Nat]
         /\ \A s \in Id : AlongOrder(w)[s] = w[s] + Latest(s, AlongOrder(w))
<1>1. PICK f : AlongUpTo(w, Len(order), f) /\ AlongOrder(w) = f[Len(order)]
  <2> DEFINE f == CHOOSE f : AlongUpTo(w, Len(order), f)
  <2>1. AlongUpTo(w, Len(order), f)
    <3>1. Len(order) \in Nat
      BY LenProperties DEF Ordered
    <3>. QED BY <3>1, SomeAlong
  <2>2. AlongOrder(w) = f[Len(order)]
    BY DEF AlongOrder, AlongUpTo
  <2>. QED BY <2>1, <2>2
<1>2. /\ Len(order) \in Nat /\ DOMAIN order = 1..Len(order)
      /\ \A k \in 1..Len(order) : order[k] \in Id
  BY DEF Ordered
<1> DEFINE Before(k) == {order[j] : j \in 1..k}
           Good(k) ==
             /\ f[k] \in [Before(k) -> Nat]
             /\ \A s \in Before(k) :
                  ToSet(After(s)) \subseteq Before(k) /\ f[k][s] = w[s] + Latest(s, f[k])
           T == {k \in Nat : k <= Len(order) => Good(k)}
           More(before, s) == [x \in DOMAIN before \cup {s} |->
                                 IF x = s THEN w[s] + Latest(s, before) ELSE before[x]]
<1>3. f[0] = [s \in {} |-> 0] /\ \A k \in 1..Len(order) : f[k] = More(f[k - 1], order[k])
  <2> DEFINE Step(k) == IF k = 0 THEN [s \in {} |-> 0] ELSE More(f[k - 1], order[k])
  <2>1. f = [k \in 0..Len(order) |-> Step(k)]
    BY <1>1 DEF AlongUpTo
  <2>2. 0 \in 0..Len(order) /\ \A k \in 1..Len(order) : k \in 0..Len(order) /\ k # 0
    BY <1>2
  <2> HIDE DEF More
  <2>. QED BY <2>1, <2>2
<1>4. 0 \in T
  <2>1. Before(0) = {}
    OBVIOUS
  <2>. QED BY <1>3, <2>1
<1>5. ASSUME NEW k \in Nat, k \in T PROVE k + 1 \in T
  <2> SUFFICES ASSUME k + 1 <= Len(order) PROVE Good(k + 1)
    OBVIOUS
  <2>0. PICK s, g, h : s = order[k + 1] /\ g = f[k] /\ h = f[k + 1]
    OBVIOUS
  <2>1. k + 1 \in 1..Len(order) /\ (k + 1) - 1 = k /\ k <= Len(order)
    BY <1>2
  <2>2. s \in Id /\ s \notin Before(k) /\ ToSet(After(s)) \subseteq Before(k)
    <3>1. s \in Id
      BY <1>2, <2>0, <2>1
    <3>2. s \notin Before(k)
      <4>1. \A j \in 1..k : j \in DOMAIN order /\ j # k + 1
        BY <1>2, <2>1
      <4>. QED BY <1>2, <2>0, <2>1, <4>1 DEF Ordered, IsInjective
    <3>3. ToSet(After(s)) \subseteq Before(k)
      BY <1>2, <2>0, <2>1 DEF Ordered, InOrder
    <3>. QED BY <3>1, <3>2, <3>3
  <2>3. Before(k + 1) = Before(k) \cup {s}
    <3>1. \A j \in 1..(k + 1) : j \in 1..k \/ j = k + 1
      OBVIOUS
    <3>2. k + 1 \in 1..(k + 1) /\ \A j \in 1..k : j \in 1..(k + 1)
      OBVIOUS
    <3>. QED BY <2>0, <3>1, <3>2
  <2>4. /\ g \in [Before(k) -> Nat]
        /\ \A x \in Before(k) : ToSet(After(x)) \subseteq Before(k) /\ g[x] = w[x] + Latest(x, g)
    BY <1>5, <2>0, <2>1
  <2> HIDE DEF Before, T
  <2>5. h = [x \in Before(k) \cup {s} |-> IF x = s THEN w[s] + Latest(s, g) ELSE g[x]]
    <3>1. h = More(g, s)
      <4> HIDE DEF More
      <4>. QED BY <1>3, <2>0, <2>1
    <3>2. DOMAIN g = Before(k)
      BY <2>4
    <3>. QED BY <3>1, <3>2
  <2>6. Latest(s, g) \in Nat
    <3>1. \A d \in ToSet(After(s)) : g[d] \in Nat
      BY <2>2, <2>4
    <3>. QED BY <2>2, <3>1, LatestIs DEF Ordered
  <2>7. w[s] + Latest(s, g) \in Nat
    BY <2>2, <2>6
  <2>8. h \in [Before(k) \cup {s} -> Nat]
    BY <2>4, <2>5, <2>7
  <2>9. \A x \in Before(k) : h[x] = g[x]
    BY <2>2, <2>5
  <2>10. \A x \in Before(k) \cup {s} : Latest(x, h) = Latest(x, g)
    <3> TAKE x \in Before(k) \cup {s}
    <3>1. \A d \in ToSet(After(x)) : h[d] = g[d]
      BY <2>2, <2>4, <2>9
    <3>. QED BY <3>1, LatestOfSame
  <2>11. \A x \in Before(k) \cup {s} : h[x] = w[x] + Latest(x, h)
    BY <2>2, <2>4, <2>5, <2>9, <2>10
  <2>. QED BY <2>0, <2>2, <2>3, <2>4, <2>8, <2>11
<1>6. Nat \subseteq T
  <2> HIDE DEF T
  <2>. QED BY <1>4, <1>5, AllNumbers
<1>7. Good(Len(order)) /\ Before(Len(order)) = Id
  <2>1. Before(Len(order)) = Id
    BY <1>2 DEF Ordered, ToSet
  <2>2. Good(Len(order))
    <3> HIDE DEF Good
    <3>. QED BY <1>2, <1>6
  <2>. QED BY <2>1, <2>2
<1>. QED BY <1>1, <1>7

-------------------------------------------------------------------------------
\* Paths and their weights.

IsPath(p) ==
  /\ p \in Seq(Id) /\ p # <<>>
  /\ \A i \in 2..Len(p) : p[i - 1] \in ToSet(After(p[i]))

LEMMA PathsArePaths ==
  ASSUME Lists
  PROVE  \A p : p \in Paths <=> IsPath(p) /\ Len(p) <= Len(nodes)
<1> TAKE p
<1>1. Len(nodes) \in Nat
  BY DEF Lists
<1>2. ASSUME p \in Paths PROVE IsPath(p) /\ Len(p) <= Len(nodes)
  <2>1. PICK n \in 1..Len(nodes) : p \in [1..n -> Id]
    BY <1>2 DEF Paths
  <2>2. p \in Seq(Id) /\ Len(p) = n /\ p # <<>>
    BY <1>1, <2>1
  <2>. QED BY <1>1, <1>2, <2>1, <2>2 DEF Paths, IsPath
<1>3. ASSUME IsPath(p), Len(p) <= Len(nodes) PROVE p \in Paths
  <2>1. Len(p) \in 1..Len(nodes) /\ p \in [1..Len(p) -> Id]
    BY <1>1, <1>3, EmptySeq DEF IsPath
  <2>. QED BY <1>3, <2>1 DEF Paths, IsPath
<1>. QED BY <1>2, <1>3

\* t[i] is the weight of the first i steps of p.
Sums(w, p, t) == t[0] = 0 /\ \A i \in 1..Len(p) : t[i] = t[i - 1] + w[p[i]]

LEMMA PathFacts ==
  ASSUME NEW p, IsPath(p)
  PROVE  /\ Len(p) \in Nat /\ Len(p) >= 1 /\ DOMAIN p = 1..Len(p) /\ Last(p) = p[Len(p)]
         /\ \A i \in 1..Len(p) : p[i] \in Id
BY EmptySeq DEF IsPath, Last

LEMMA SomeSums ==
  ASSUME NEW w, NEW p, Len(p) \in Nat
  PROVE  \E t : Sums(w, p, t)
<1> DEFINE Has(m, t) == t[0] = 0 /\ \A i \in 1..m : t[i] = t[i - 1] + w[p[i]]
           T == {m \in Nat : \E t : Has(m, t)}
<1>1. 0 \in T
  <2>1. Has(0, [i \in {0} |-> 0])
    OBVIOUS
  <2>. QED BY <2>1
<1>2. ASSUME NEW m \in Nat, m \in T PROVE m + 1 \in T
  <2>1. PICK t : Has(m, t)
    BY <1>2
  <2> DEFINE more == [i \in 0..(m + 1) |-> IF i = m + 1 THEN t[m] + w[p[i]] ELSE t[i]]
  <2>2. more[0] = 0
    BY <2>1
  <2>3. \A i \in 1..(m + 1) : more[i] = more[i - 1] + w[p[i]]
    <3> TAKE i \in 1..(m + 1)
    <3>1. CASE i = m + 1
      <4>1. i - 1 \in 0..(m + 1) /\ i - 1 # m + 1 /\ i - 1 = m
        BY <3>1
      <4>. QED BY <3>1, <4>1
    <3>2. CASE i # m + 1
      <4>1. i \in 1..m /\ i - 1 \in 0..(m + 1) /\ i - 1 # m + 1
        BY <3>2
      <4>. QED BY <2>1, <3>2, <4>1
    <3>. QED BY <3>1, <3>2
  <2>4. Has(m + 1, more)
    <3> HIDE DEF more
    <3>. QED BY <2>2, <2>3
  <2> HIDE DEF more, Has
  <2>. QED BY <2>4
<1>3. Nat \subseteq T
  <2> HIDE DEF T
  <2>. QED BY <1>1, <1>2, AllNumbers
<1>4. Len(p) \in T
  BY <1>3
<1>. QED BY <1>4 DEF Sums

\* Weights that g adds up along the graph.
Measures(g, w) ==
  /\ g \in [Id -> Nat] /\ \A s \in Id : w[s] \in Nat
  /\ \A s \in Id : g[s] = w[s] + Latest(s, g)

LEMMA LatestInGraph ==
  ASSUME Ordered, NEW g \in [Id -> Nat], NEW s \in Id
  PROVE  /\ ToSet(After(s)) \subseteq Id
         /\ Latest(s, g) \in Nat
         /\ \A d \in ToSet(After(s)) : g[d] <= Latest(s, g)
         /\ After(s) # <<>> => \E d \in ToSet(After(s)) : g[d] = Latest(s, g)
         /\ After(s) = <<>> => Latest(s, g) = 0
<1>1. ToSet(After(s)) \subseteq Id
  BY DEF Ordered, ValidIds
<1>2. \A d \in ToSet(After(s)) : g[d] \in Nat
  BY <1>1
<1>. QED BY <1>1, <1>2, LatestIs DEF Ordered

\* No path to a step weighs more than is measured.
LEMMA NoPathWeighsMore ==
  ASSUME Ordered, NEW w, NEW g, Measures(g, w), NEW p, IsPath(p), NEW t, Sums(w, p, t)
  PROVE  t[Len(p)] \in Nat /\ t[Len(p)] <= g[Last(p)]
<1> DEFINE Good(i) == t[i] \in Nat /\ t[i] <= g[p[i]]
           T == {m \in Nat : m + 1 <= Len(p) => Good(m + 1)}
<1>0. /\ Len(p) \in Nat /\ Len(p) >= 1 /\ Last(p) = p[Len(p)]
      /\ \A i \in 1..Len(p) : p[i] \in Id
  BY PathFacts
<1>1. \A i \in 1..Len(p) :
        /\ w[p[i]] \in Nat /\ g[p[i]] \in Nat /\ Latest(p[i], g) \in Nat
        /\ g[p[i]] = w[p[i]] + Latest(p[i], g)
  BY <1>0, LatestInGraph DEF Measures
<1>2. 0 \in T
  <2>1. 1 \in 1..Len(p) /\ t[1] = t[0] + w[p[1]] /\ t[0] = 0
    <3>1. 1 \in 1..Len(p) /\ 1 - 1 = 0
      BY <1>0
    <3>. QED BY <3>1 DEF Sums
  <2>. QED BY <1>1, <2>1
<1>3. ASSUME NEW m \in Nat, m \in T PROVE m + 1 \in T
  <2> SUFFICES ASSUME m + 2 <= Len(p) PROVE Good(m + 2)
    OBVIOUS
  <2>0. PICK i : i = m + 2
    OBVIOUS
  <2>1. i \in 1..Len(p) /\ i \in 2..Len(p) /\ i - 1 \in 1..Len(p) /\ i - 1 = m + 1
    BY <1>0, <2>0
  <2>2. Good(i - 1)
    BY <1>0, <1>3, <2>1
  <2>3. p[i - 1] \in ToSet(After(p[i])) /\ t[i] = t[i - 1] + w[p[i]]
    BY <2>1 DEF IsPath, Sums
  <2>4. g[p[i - 1]] <= Latest(p[i], g)
    BY <1>0, <2>1, <2>3, LatestInGraph DEF Measures
  <2>5. t[i - 1] \in Nat /\ t[i - 1] <= g[p[i - 1]] /\ g[p[i - 1]] \in Nat
    BY <1>1, <2>1, <2>2
  <2>6. PICK a, b, c, l : a = t[i - 1] /\ b = g[p[i - 1]] /\ c = w[p[i]] /\ l = Latest(p[i], g)
    OBVIOUS
  <2>7. a \in Nat /\ b \in Nat /\ c \in Nat /\ l \in Nat /\ a <= b /\ b <= l
    BY <1>1, <2>1, <2>4, <2>5, <2>6
  <2>8. t[i] = a + c /\ g[p[i]] = c + l
    BY <1>1, <2>1, <2>3, <2>6
  <2>9. a + c \in Nat /\ a + c <= c + l
    BY <2>7
  <2>. QED BY <2>0, <2>8, <2>9
<1>4. Nat \subseteq T
  <2> HIDE DEF T
  <2>. QED BY <1>2, <1>3, AllNumbers
<1>5. Len(p) - 1 \in Nat /\ (Len(p) - 1) + 1 = Len(p)
  BY <1>0
<1>. QED BY <1>0, <1>4, <1>5

\* One more step at the end of a path, or at its beginning.
LEMMA PathGoesOn ==
  ASSUME NEW p, IsPath(p), NEW s \in Id, Last(p) \in ToSet(After(s)), NEW w, NEW t, Sums(w, p, t)
  PROVE  /\ IsPath(Append(p, s)) /\ Last(Append(p, s)) = s /\ Len(Append(p, s)) = Len(p) + 1
         /\ \E u : Sums(w, Append(p, s), u) /\ u[Len(p) + 1] = t[Len(p)] + w[s]
<1>0. PICK q, n : q = Append(p, s) /\ n = Len(p)
  OBVIOUS
<1>1. n \in Nat /\ n >= 1 /\ Last(p) = p[n] /\ \A i \in 1..n : p[i] \in Id
  BY <1>0, PathFacts
<1>2. /\ q \in Seq(Id) /\ Len(q) = n + 1 /\ q[n + 1] = s /\ q # <<>>
      /\ \A i \in 1..n : q[i] = p[i]
  <2>1. p \in Seq(Id)
    BY DEF IsPath
  <2>. QED BY <1>0, <2>1
<1>3. IsPath(q)
  <2> SUFFICES ASSUME NEW i \in 2..Len(q) PROVE q[i - 1] \in ToSet(After(q[i]))
    BY <1>2 DEF IsPath
  <2>1. CASE i = n + 1
    <3>1. i - 1 = n /\ n \in 1..n
      BY <1>1, <2>1
    <3>. QED BY <1>1, <1>2, <2>1, <3>1
  <2>2. CASE i # n + 1
    <3>1. i \in 2..n /\ i \in 1..n /\ i - 1 \in 1..n
      BY <1>1, <1>2, <2>2
    <3>. QED BY <1>0, <1>2, <3>1 DEF IsPath
  <2>. QED BY <2>1, <2>2
<1>4. Last(q) = s
  BY <1>2 DEF Last
<1>5. \E u : Sums(w, q, u) /\ u[n + 1] = t[n] + w[s]
  <2> DEFINE u == [i \in 0..(n + 1) |-> IF i = n + 1 THEN t[n] + w[s] ELSE t[i]]
  <2>1. u[0] = 0 /\ u[n + 1] = t[n] + w[s]
    BY <1>1 DEF Sums
  <2>2. \A i \in 1..(n + 1) : u[i] = u[i - 1] + w[q[i]]
    <3> TAKE i \in 1..(n + 1)
    <3>1. CASE i = n + 1
      <4>1. i - 1 \in 0..(n + 1) /\ i - 1 # n + 1 /\ i - 1 = n
        BY <1>1, <3>1
      <4>. QED BY <1>2, <3>1, <4>1
    <3>2. CASE i # n + 1
      <4>1. i \in 1..n /\ i - 1 \in 0..(n + 1) /\ i - 1 # n + 1
        BY <1>1, <3>2
      <4>. QED BY <1>0, <1>2, <3>2, <4>1 DEF Sums
    <3>. QED BY <3>1, <3>2
  <2>3. Sums(w, q, u)
    <3> HIDE DEF u
    <3>. QED BY <1>2, <2>1, <2>2 DEF Sums
  <2> HIDE DEF u
  <2>. QED BY <2>1, <2>3
<1>. QED BY <1>0, <1>2, <1>3, <1>4, <1>5

LEMMA PathBeginsEarlier ==
  ASSUME NEW p, IsPath(p), NEW d \in Id, d \in ToSet(After(p[1])), NEW w, NEW t, Sums(w, p, t),
         \A i \in 0..Len(p) : t[i] \in Nat, w[d] \in Nat, \A i \in 1..Len(p) : w[p[i]] \in Nat
  PROVE  /\ IsPath(<<d>> \o p) /\ Len(<<d>> \o p) = Len(p) + 1
         /\ Head(<<d>> \o p) = d
         /\ \E u : /\ Sums(w, <<d>> \o p, u) /\ u[Len(p) + 1] = w[d] + t[Len(p)]
                   /\ \A i \in 0..(Len(p) + 1) : u[i] \in Nat
<1>0. PICK q, n : q = <<d>> \o p /\ n = Len(p)
  OBVIOUS
<1>1. n \in Nat /\ n >= 1 /\ \A i \in 1..n : p[i] \in Id
  BY <1>0, PathFacts
<1>2. /\ q \in Seq(Id) /\ Len(q) = n + 1 /\ q[1] = d /\ q # <<>>
      /\ \A i \in 2..(n + 1) : q[i] = p[i - 1]
  <2>1. p \in Seq(Id)
    BY DEF IsPath
  <2>2. /\ <<d>> \o p \in Seq(Id) /\ Len(<<d>> \o p) = 1 + n
        /\ \A i \in 1..(1 + n) : (<<d>> \o p)[i] = IF i <= 1 THEN <<d>>[i] ELSE p[i - 1]
    <3> DEFINE one == <<d>>
    <3>1. one \in Seq(Id) /\ Len(one) = 1
      OBVIOUS
    <3> HIDE DEF one
    <3>2. /\ one \o p \in Seq(Id) /\ Len(one \o p) = Len(one) + Len(p)
          /\ \A i \in 1..(Len(one) + Len(p)) :
               (one \o p)[i] = IF i <= Len(one) THEN one[i] ELSE p[i - Len(one)]
      BY <2>1, <3>1, ConcatProperties, ZenonT(20)
    <3>. QED BY <1>0, <3>1, <3>2 DEF one
  <2>3. 1 \in 1..(1 + n) /\ \A i \in 2..(n + 1) : i \in 1..(1 + n) /\ ~(i <= 1)
    BY <1>1
  <2>. QED BY <1>0, <1>1, <2>2, <2>3, EmptySeq
<1>3. IsPath(q)
  <2> SUFFICES ASSUME NEW i \in 2..Len(q) PROVE q[i - 1] \in ToSet(After(q[i]))
    BY <1>2 DEF IsPath
  <2>1. CASE i = 2
    <3>1. i - 1 = 1 /\ q[i] = p[1]
      BY <1>1, <1>2, <2>1
    <3>. QED BY <1>2, <3>1
  <2>2. CASE i # 2
    <3>1. i - 1 \in 2..n /\ i - 1 \in 2..(n + 1) /\ i \in 2..(n + 1)
      BY <1>1, <1>2, <2>2
    <3>. QED BY <1>0, <1>2, <3>1 DEF IsPath
  <2>. QED BY <2>1, <2>2
<1>4. Head(q) = d
  BY <1>2
<1>5. \E u : /\ Sums(w, q, u) /\ u[n + 1] = w[d] + t[n]
             /\ \A i \in 0..(n + 1) : u[i] \in Nat
  <2> DEFINE u == [i \in 0..(n + 1) |-> IF i = 0 THEN 0 ELSE w[d] + t[i - 1]]
  <2>1. u[0] = 0 /\ u[n + 1] = w[d] + t[n]
    <3>1. n + 1 \in 0..(n + 1) /\ n + 1 # 0 /\ (n + 1) - 1 = n /\ 0 \in 0..(n + 1)
      BY <1>1
    <3>. QED BY <3>1
  <2>2. \A i \in 1..(n + 1) : u[i] = u[i - 1] + w[q[i]]
    <3> TAKE i \in 1..(n + 1)
    <3>0. i \in 0..(n + 1) /\ i # 0
      OBVIOUS
    <3>1. CASE i = 1
      <4>1. u[i] = w[d] + t[0] /\ u[i - 1] = 0 /\ t[0] = 0
        BY <3>0, <3>1, <2>1 DEF Sums
      <4>. QED BY <1>2, <3>1, <4>1
    <3>2. CASE i # 1
      <4>1. i - 1 \in 0..(n + 1) /\ i - 1 # 0 /\ i - 1 \in 1..n /\ i \in 2..(n + 1)
            /\ (i - 1) - 1 \in 0..n
        BY <1>1, <3>2
      <4>2. u[i] = w[d] + t[i - 1] /\ u[i - 1] = w[d] + t[(i - 1) - 1]
        BY <3>0, <4>1
      <4>3. t[i - 1] = t[(i - 1) - 1] + w[p[i - 1]] /\ q[i] = p[i - 1]
        BY <1>0, <1>2, <4>1 DEF Sums
      <4>4. t[(i - 1) - 1] \in Nat /\ w[p[i - 1]] \in Nat
        BY <1>0, <4>1
      <4> HIDE DEF u
      <4>. QED BY <4>2, <4>3, <4>4
    <3>. QED BY <3>1, <3>2
  <2>3. \A i \in 0..(n + 1) : u[i] \in Nat
    <3> TAKE i \in 0..(n + 1)
    <3>1. i # 0 => i - 1 \in 0..n
      BY <1>1
    <3>2. i # 0 => t[i - 1] \in Nat
      BY <1>0, <3>1
    <3>. QED BY <3>2
  <2>4. Sums(w, q, u)
    <3> HIDE DEF u
    <3>. QED BY <1>2, <2>1, <2>2 DEF Sums
  <2> HIDE DEF u
  <2>. QED BY <2>1, <2>3, <2>4
<1>. QED BY <1>0, <1>2, <1>3, <1>4, <1>5

\* Some path to each step weighs what is measured, and has no more steps than come
\* before it in the order.
LEMMA SomePathWeighsIt ==
  ASSUME Ordered, NEW w, NEW g, Measures(g, w), NEW k \in 1..Len(order)
  PROVE  \E p, t : /\ IsPath(p) /\ Last(p) = order[k] /\ Len(p) <= k
                   /\ Sums(w, p, t) /\ t[Len(p)] = g[order[k]]
<1> DEFINE Has(j) == \E p, t : /\ IsPath(p) /\ Last(p) = order[j] /\ Len(p) <= j
                               /\ Sums(w, p, t) /\ t[Len(p)] = g[order[j]]
           T == {m \in Nat : \A j \in 1..m : j <= Len(order) => Has(j)}
<1>0. /\ Len(order) \in Nat /\ DOMAIN order = 1..Len(order)
      /\ \A j \in 1..Len(order) : order[j] \in Id
  BY DEF Ordered
<1>1. 0 \in T
  OBVIOUS
<1>2. ASSUME NEW m \in Nat, m \in T PROVE m + 1 \in T
  <2> SUFFICES ASSUME m + 1 <= Len(order) PROVE Has(m + 1)
    <3>1. \A j \in 1..(m + 1) : j \in 1..m \/ j = m + 1
      OBVIOUS
    <3> HIDE DEF Has
    <3>. QED BY <1>2, <3>1
  <2>0. PICK s, n : s = order[n] /\ n = m + 1
    OBVIOUS
  <2>1. n \in 1..Len(order) /\ s \in Id /\ n - 1 = m
    BY <1>0, <2>0
  <2>2. g[s] = w[s] + Latest(s, g) /\ w[s] \in Nat /\ g \in [Id -> Nat]
    BY <2>1 DEF Measures
  <2>3. CASE After(s) = <<>>
    <3>1. g[s] = w[s]
      BY <2>1, <2>2, <2>3, LatestInGraph
    <3>2. IsPath(<<s>>) /\ Last(<<s>>) = s /\ Len(<<s>>) = 1
      BY <2>1 DEF IsPath, Last
    <3> DEFINE t == [i \in 0..1 |-> IF i = 0 THEN 0 ELSE w[s]]
    <3>3. t[0] = 0 /\ t[1] = w[s] /\ 0 + w[s] = w[s]
      BY <2>2
    <3> HIDE DEF t
    <3>4. Sums(w, <<s>>, t)
      <4>1. \A i \in 1..1 : i = 1 /\ i - 1 = 0
        OBVIOUS
      <4>. QED BY <3>3, <4>1 DEF Sums
    <3>5. t[Len(<<s>>)] = g[s] /\ Len(<<s>>) <= n
      BY <2>1, <3>1, <3>2, <3>3
    <3>. QED BY <2>0, <3>2, <3>4, <3>5
  <2>4. CASE After(s) # <<>>
    <3>1. PICK d \in ToSet(After(s)) : g[d] = Latest(s, g)
      BY <2>1, <2>2, <2>4, LatestInGraph
    <3>2. PICK j \in 1..m : order[j] = d
      <4>1. ToSet(After(s)) \subseteq {order[i] : i \in 1..(n - 1)}
        BY <1>0, <2>0, <2>1 DEF Ordered, InOrder
      <4>. QED BY <2>1, <3>1, <4>1
    <3>3. j <= Len(order)
      BY <1>0, <2>0, <2>1
    <3>4. PICK p, t : /\ IsPath(p) /\ Last(p) = d /\ Len(p) <= j
                      /\ Sums(w, p, t) /\ t[Len(p)] = g[d]
      BY <1>2, <3>2, <3>3
    <3>5. PICK u : Sums(w, Append(p, s), u) /\ u[Len(p) + 1] = t[Len(p)] + w[s]
      BY <2>1, <3>1, <3>4, PathGoesOn
    <3>6. IsPath(Append(p, s)) /\ Last(Append(p, s)) = s /\ Len(Append(p, s)) = Len(p) + 1
      BY <2>1, <3>1, <3>4, PathGoesOn
    <3>7. Len(p) \in Nat /\ g[d] \in Nat
      <4>1. d \in Id
        BY <2>1, <2>2, LatestInGraph
      <4>. QED BY <2>2, <3>4, <4>1, PathFacts
    <3>8. u[Len(Append(p, s))] = g[s] /\ Len(Append(p, s)) <= n
      BY <2>0, <2>2, <3>1, <3>4, <3>5, <3>6, <3>7
    <3>. QED BY <2>0, <3>5, <3>6, <3>8
  <2>. QED BY <2>3, <2>4
<1>3. Nat \subseteq T
  <2> HIDE DEF T
  <2>. QED BY <1>1, <1>2, AllNumbers
<1>4. Len(order) \in T
  BY <1>0, <1>3
<1>5. Has(k)
  <2> HIDE DEF Has
  <2>. QED BY <1>0, <1>4
<1>. QED BY <1>5

LEMMA SumsAgree ==
  ASSUME NEW w, NEW p, Len(p) \in Nat, NEW t, Sums(w, p, t), NEW u, Sums(w, p, u)
  PROVE  t[Len(p)] = u[Len(p)]
<1> DEFINE T == {m \in Nat : m <= Len(p) => t[m] = u[m]}
<1>1. 0 \in T
  BY DEF Sums
<1>2. ASSUME NEW m \in Nat, m \in T PROVE m + 1 \in T
  <2> SUFFICES ASSUME m + 1 <= Len(p) PROVE t[m + 1] = u[m + 1]
    OBVIOUS
  <2>1. m + 1 \in 1..Len(p) /\ (m + 1) - 1 = m /\ m <= Len(p)
    OBVIOUS
  <2>. QED BY <1>2, <2>1 DEF Sums
<1>3. Nat \subseteq T
  <2> HIDE DEF T
  <2>. QED BY <1>1, <1>2, AllNumbers
<1>. QED BY <1>3

-------------------------------------------------------------------------------
\* Depths.

LEMMA DepthsMeasure ==
  ASSUME Ordered
  PROVE  /\ Depths \in [Id -> Nat]
         /\ \A s \in Id : Depths[s] = IF After(s) = <<>> THEN 0 ELSE 1 + Latest(s, Depths)
         /\ Measures([s \in Id |-> Depths[s] + 1], [s \in Id |-> 1])
<1>0. PICK D, w : D = Depths /\ w = [s \in Id |-> IF After(s) = <<>> THEN 0 ELSE 1]
  OBVIOUS
<1>1. D = AlongOrder(w)
  BY <1>0 DEF Depths
<1>2. \A s \in Id : w[s] \in Nat
  BY <1>0
<1>3. D \in [Id -> Nat] /\ \A s \in Id : D[s] = w[s] + Latest(s, D)
  BY <1>1, <1>2, AlongTheOrder
<1>4. ASSUME NEW s \in Id PROVE D[s] = IF After(s) = <<>> THEN 0 ELSE 1 + Latest(s, D)
  BY <1>0, <1>3, LatestInGraph
<1> DEFINE g == [s \in Id |-> D[s] + 1]
           ones == [s \in Id |-> 1]
<1>5. g \in [Id -> Nat] /\ \A s \in Id : g[s] = D[s] + 1 /\ ones[s] = 1
  BY <1>3
<1> HIDE DEF g, ones
<1>6. ASSUME NEW s \in Id PROVE g[s] = ones[s] + Latest(s, g)
  <2>1. ToSet(After(s)) \subseteq Id /\ Latest(s, D) \in Nat /\ Latest(s, g) \in Nat /\ D[s] \in Nat
    BY <1>3, <1>5, LatestInGraph
  <2>2. CASE After(s) = <<>>
    <3>1. Latest(s, g) = 0
      BY <1>5, <2>2, LatestInGraph
    <3>. QED BY <1>4, <1>5, <2>2, <3>1
  <2>3. CASE After(s) # <<>>
    <3>1. PICK d \in ToSet(After(s)) : D[d] = Latest(s, D)
      BY <1>3, <2>3, LatestInGraph
    <3>2. PICK e \in ToSet(After(s)) : g[e] = Latest(s, g)
      BY <1>5, <2>3, LatestInGraph
    <3>3. g[d] <= Latest(s, g) /\ D[e] <= Latest(s, D)
      BY <1>3, <1>5, LatestInGraph
    <3>4. D[d] \in Nat /\ D[e] \in Nat /\ g[d] = D[d] + 1 /\ g[e] = D[e] + 1
      BY <1>3, <1>5, <2>1
    <3>5. Latest(s, g) = Latest(s, D) + 1
      BY <2>1, <3>1, <3>2, <3>3, <3>4
    <3>. QED BY <1>4, <1>5, <2>1, <2>3, <3>5
  <2>. QED BY <2>2, <2>3
<1>7. Measures(g, ones)
  BY <1>5, <1>6 DEF Measures
<1>. QED BY <1>0, <1>3, <1>4, <1>7 DEF g, ones

LEMMA DepthIsLongest ==
  ASSUME Ordered, NEW s \in Id
  PROVE  Depths[s] + 1 = Max({Len(p) : p \in {q \in Paths : Last(q) = s}})
<1>0. PICK g, w : g = [x \in Id |-> Depths[x] + 1] /\ w = [x \in Id |-> 1]
  OBVIOUS
<1>1. Measures(g, w) /\ g[s] = Depths[s] + 1 /\ g[s] \in Nat
  <2>1. Measures(g, w) /\ Depths \in [Id -> Nat]
    BY <1>0, DepthsMeasure
  <2>. QED BY <1>0, <2>1
<1>2. ASSUME NEW p, IsPath(p) PROVE Sums(w, p, [i \in 0..Len(p) |-> i])
  <2> DEFINE t == [i \in 0..Len(p) |-> i]
  <2>1. Len(p) \in Nat /\ \A i \in 1..Len(p) : p[i] \in Id
    BY <1>2, PathFacts
  <2>2. t[0] = 0 /\ \A i \in 1..Len(p) : t[i] = i /\ t[i - 1] = i - 1
    BY <2>1
  <2>3. \A i \in 1..Len(p) : w[p[i]] = 1
    BY <1>0, <2>1
  <2> HIDE DEF t
  <2>4. Sums(w, p, t)
    BY <2>2, <2>3 DEF Sums
  <2>. QED BY <2>4 DEF t
<1>3. ASSUME NEW p, IsPath(p), NEW t, Sums(w, p, t) PROVE t[Len(p)] = Len(p)
  <2> DEFINE u == [i \in 0..Len(p) |-> i]
  <2>1. Len(p) \in Nat /\ Sums(w, p, u)
    BY <1>2, <1>3, PathFacts
  <2>2. u[Len(p)] = Len(p)
    BY <2>1
  <2> HIDE DEF u
  <2>. QED BY <1>3, <2>1, <2>2, SumsAgree
<1> DEFINE S == {Len(p) : p \in {q \in Paths : Last(q) = s}}
<1>4. Lists /\ Len(order) = Len(nodes) /\ Len(order) \in Nat
  BY LenProperties DEF Ordered
<1>5. g[s] \in S
  <2>1. PICK k \in 1..Len(order) : order[k] = s
    BY <1>4, LenProperties DEF Ordered, ToSet
  <2>2. PICK p, t : /\ IsPath(p) /\ Last(p) = s /\ Len(p) <= k
                    /\ Sums(w, p, t) /\ t[Len(p)] = g[s]
    BY <1>1, <2>1, SomePathWeighsIt
  <2>3. Len(p) <= Len(nodes) /\ Len(p) = g[s]
    BY <1>1, <1>3, <1>4, <2>1, <2>2
  <2>4. p \in Paths
    BY <1>4, <2>2, <2>3, PathsArePaths
  <2>. QED BY <2>2, <2>3, <2>4
<1>6. \A x \in S : x \in Nat /\ x <= g[s]
  <2> SUFFICES ASSUME NEW p \in Paths, Last(p) = s PROVE Len(p) \in Nat /\ Len(p) <= g[s]
    OBVIOUS
  <2>1. IsPath(p)
    BY <1>4, PathsArePaths
  <2> DEFINE t == [i \in 0..Len(p) |-> i]
  <2>2. Sums(w, p, t)
    BY <1>2, <2>1
  <2> HIDE DEF t
  <2>3. t[Len(p)] \in Nat /\ t[Len(p)] <= g[s]
    BY <1>1, <2>1, <2>2, NoPathWeighsMore
  <2>4. t[Len(p)] = Len(p)
    BY <1>3, <2>1, <2>2
  <2>. QED BY <2>3, <2>4
<1>7. S \in SUBSET Nat
  BY <1>6
<1> HIDE DEF S
<1>8. Max(S) = g[s]
  BY <1>5, <1>6, <1>7, MaxIs
<1>. QED BY <1>1, <1>8 DEF S

\* There is a greatest value among those of the steps.
LEMMA GreatestOfSteps ==
  ASSUME Ordered, NEW g \in [Id -> Nat]
  PROVE  /\ Id = {} <=> nodes = <<>>
         /\ Id # {} => \E e \in Id : (\A s \in Id : g[s] <= g[e]) /\ Max({0} \cup {g[s] : s \in Id}) = g[e]
         /\ Max({0} \cup {g[s] : s \in Id}) \in Nat
<1>0. /\ Len(order) \in Nat /\ DOMAIN order = 1..Len(order) /\ Len(order) = Len(nodes)
      /\ Id = {order[i] : i \in 1..Len(order)}
  BY DEF Ordered, ToSet
<1>1. nodes = <<>> <=> Len(nodes) = 0
  <2>1. nodes \in Seq(ToSet(nodes))
    BY DEF Ordered, Lists
  <2>2. \A S, q : q \in Seq(S) => (q = <<>> <=> Len(q) = 0)
    BY EmptySeq
  <2>. QED BY <2>1, <2>2, Zenon
<1>2. Id = {} <=> Len(order) = 0
  <2>1. Len(order) # 0 => 1 \in 1..Len(order)
    BY <1>0
  <2>2. Len(order) = 0 => 1..Len(order) = {}
    BY <1>0
  <2>. QED BY <1>0, <2>1, <2>2
<1> DEFINE S == {0} \cup {g[s] : s \in Id}
<1>3. S \in SUBSET Nat
  OBVIOUS
<1>4. ASSUME Id # {} PROVE \E e \in Id : (\A s \in Id : g[s] <= g[e]) /\ Max(S) = g[e]
  <2> DEFINE h == [i \in 1..Len(order) |-> g[order[i]]]
  <2>1. \A i \in 1..Len(order) : h[i] \in Nat /\ h[i] = g[order[i]]
    BY <1>0
  <2>2. Len(order) > 0
    BY <1>0, <1>2, <1>4
  <2> HIDE DEF h
  <2>3. PICK i \in 1..Len(order) : \A j \in 1..Len(order) : h[j] <= h[i]
    BY <1>0, <2>1, <2>2, GreatestOfList
  <2>4. order[i] \in Id /\ \A s \in Id : g[s] <= g[order[i]]
    BY <1>0, <2>1, <2>3
  <2>5. g[order[i]] \in S /\ \A x \in S : x <= g[order[i]]
    BY <2>4
  <2> HIDE DEF S
  <2>6. Max(S) = g[order[i]]
    BY <1>3, <2>5, MaxIs
  <2>. QED BY <2>4, <2>6
<1>5. Max(S) \in Nat
  <2>1. CASE Id = {}
    <3>1. S = {0}
      BY <2>1
    <3> HIDE DEF S
    <3>2. Max(S) = 0
      BY <3>1, MaxIs
    <3>. QED BY <3>2
  <2>2. CASE Id # {}
    <3> HIDE DEF S
    <3>. QED BY <1>4, <2>2
  <2>. QED BY <2>1, <2>2
<1>. QED BY <1>0, <1>1, <1>2, <1>4, <1>5

\* No depth is left out: below a step is one that is a level higher.
LEMMA EveryDepthIsTaken ==
  ASSUME Ordered, Id # {}, NEW d \in 0..Max({0} \cup {Depths[s] : s \in Id})
  PROVE  \E s \in Id : Depths[s] = d
<1>0. PICK D : D = Depths
  OBVIOUS
<1>1. /\ D \in [Id -> Nat]
      /\ \A s \in Id : D[s] = IF After(s) = <<>> THEN 0 ELSE 1 + Latest(s, D)
  BY <1>0, DepthsMeasure
<1>2. PICK e \in Id : Max({0} \cup {D[s] : s \in Id}) = D[e]
  BY <1>1, GreatestOfSteps
<1>3. D[e] \in Nat /\ d \in Nat /\ d <= D[e]
  BY <1>0, <1>1, <1>2
<1> DEFINE Taken(m) == \E s \in Id : D[s] = D[e] - m
           T == {m \in Nat : m <= D[e] => Taken(m)}
<1>4. 0 \in T
  BY <1>3
<1>5. ASSUME NEW m \in Nat, m \in T PROVE m + 1 \in T
  <2> SUFFICES ASSUME m + 1 <= D[e] PROVE Taken(m + 1)
    OBVIOUS
  <2>1. PICK s \in Id : D[s] = D[e] - m
    BY <1>3, <1>5
  <2>2. D[s] # 0
    BY <1>3, <2>1
  <2>3. After(s) # <<>> /\ D[s] = 1 + Latest(s, D) /\ Latest(s, D) \in Nat
    BY <1>1, <2>2, LatestInGraph
  <2>4. PICK x \in ToSet(After(s)) : D[x] = Latest(s, D)
    BY <1>1, <2>3, LatestInGraph
  <2>5. x \in Id
    BY <1>1, LatestInGraph
  <2>6. D[x] = D[e] - (m + 1)
    BY <1>3, <2>1, <2>3, <2>4
  <2>. QED BY <2>5, <2>6
<1>6. Nat \subseteq T
  <2> HIDE DEF T
  <2>. QED BY <1>4, <1>5, AllNumbers
<1>7. D[e] - d \in Nat /\ D[e] - d <= D[e] /\ D[e] - (D[e] - d) = d
  BY <1>3
<1>8. Taken(D[e] - d)
  <2> HIDE DEF Taken
  <2>. QED BY <1>6, <1>7
<1>. QED BY <1>0, <1>7, <1>8

LEMMA DepthsHold == ASSUME Ordered PROVE DepthsAreRight
<1>1. ASSUME NEW d \in DOMAIN Lanes, nodes # <<>> PROVE ToSet(Lanes[d]) # {}
  <2>1. d \in 0..Max({0} \cup {Depths[s] : s \in Id})
        /\ Lanes[d] = Only(IdsInOrder, {s \in Id : Depths[s] = d})
    BY DEF Lanes
  <2>2. Id # {}
    <3>1. Depths \in [Id -> Nat]
      BY DepthsMeasure
    <3>. QED BY <1>1, <3>1, GreatestOfSteps
  <2>3. PICK s \in Id : Depths[s] = d
    BY <2>1, <2>2, EveryDepthIsTaken
  <2> DEFINE keep == {x \in Id : Depths[x] = d}
  <2>4. s \in keep
    BY <2>3
  <2>5. IdsInOrder \in Seq(Id) /\ ToSet(IdsInOrder) = Id
    BY IdsAreListed DEF Ordered
  <2>6. Lanes[d] = Only(IdsInOrder, keep)
    BY <2>1
  <2> HIDE DEF keep
  <2>7. ToSet(Only(IdsInOrder, keep)) = ToSet(IdsInOrder) \cap keep
    BY <2>5, OnlyKeeps, ZenonT(20)
  <2>. QED BY <2>4, <2>5, <2>6, <2>7
<1>. QED BY <1>1, DepthIsLongest DEF DepthsAreRight

-------------------------------------------------------------------------------
\* The critical path.

Weights == [s \in Id |-> Node(s).duration]

LEMMA FinishMeasures == ASSUME Ordered PROVE Measures(Finish, Weights) /\ Finish \in [Id -> Nat]
<1>0. PICK w, g : w = Weights /\ g = Finish
  OBVIOUS
<1>1. \A s \in Id : w[s] \in Nat
  BY <1>0, AfterIsList DEF Weights, Ordered
<1>2. g = AlongOrder(w)
  BY <1>0 DEF Finish, Weights
<1>. QED BY <1>0, <1>1, <1>2, AlongTheOrder DEF Measures

\* The length of a path is its weight.
LEMMA LengthIs ==
  ASSUME NEW p, IsPath(p), NEW t, Sums(Weights, p, t)
  PROVE  Length(p) = t[Len(p)]
<1>1. Len(p) \in Nat /\ \A i \in 1..Len(p) : p[i] \in Id /\ Weights[p[i]] = Node(p[i]).duration
  BY PathFacts DEF Weights
<1> DEFINE IsSum(sum) ==
             sum = [i \in 0..Len(p) |-> IF i = 0 THEN 0 ELSE sum[i - 1] + Node(p[i]).duration]
           u == [i \in 0..Len(p) |-> t[i]]
           sum == CHOOSE sum : IsSum(sum)
<1>2. IsSum(u)
  <2> DEFINE Step(f, i) == IF i = 0 THEN 0 ELSE f[i - 1] + Node(p[i]).duration
  <2>1. \A i \in 0..Len(p) : u[i] = Step(u, i)
    <3> TAKE i \in 0..Len(p)
    <3>1. CASE i = 0
      BY <3>1 DEF Sums
    <3>2. CASE i # 0
      <4>1. i \in 1..Len(p) /\ i - 1 \in 0..Len(p)
        BY <1>1, <3>2
      <4>. QED BY <1>1, <3>2, <4>1 DEF Sums
    <3>. QED BY <3>1, <3>2
  <2>2. u = [i \in 0..Len(p) |-> u[i]]
    OBVIOUS
  <2> HIDE DEF u
  <2>. QED BY <2>1, <2>2
<1>3. IsSum(sum) /\ Length(p) = sum[Len(p)]
  <2>1. \E s : IsSum(s)
    BY <1>2
  <2>2. IsSum(sum)
    <3> HIDE DEF IsSum
    <3>. QED BY <2>1
  <2>3. Length(p) = sum[Len(p)]
    BY DEF Length
  <2>. QED BY <2>2, <2>3
<1> HIDE DEF sum, u
<1>4. Sums(Weights, p, sum)
  <2> DEFINE Step(i) == IF i = 0 THEN 0 ELSE sum[i - 1] + Node(p[i]).duration
  <2>1. \A i \in 0..Len(p) : sum[i] = Step(i)
    BY <1>3
  <2>2. 0 \in 0..Len(p) /\ \A i \in 1..Len(p) : i \in 0..Len(p) /\ i # 0
    BY <1>1
  <2>. QED BY <1>1, <2>1, <2>2 DEF Sums
<1>5. sum[Len(p)] = t[Len(p)]
  BY <1>1, <1>4, SumsAgree
<1>. QED BY <1>3, <1>5

LEMMA FirstLongestIs ==
  ASSUME Ordered, NEW ids \in Seq(Id), ids # <<>>
  PROVE  /\ FirstLongest(ids) \in ToSet(ids)
         /\ \A d \in ToSet(ids) : Finish[d] <= Finish[FirstLongest(ids)]
<1>1. /\ Len(ids) \in Nat /\ Len(ids) > 0 /\ DOMAIN ids = 1..Len(ids)
      /\ \A i \in 1..Len(ids) : ids[i] \in Id
  BY EmptySeq
<1>0. PICK g : g = Finish
  OBVIOUS
<1>2. g \in [Id -> Nat]
  BY <1>0, FinishMeasures
<1> DEFINE K == {k \in DOMAIN ids : \A j \in DOMAIN ids : g[ids[j]] <= g[ids[k]]}
<1>3. K # {} /\ K \in SUBSET Nat
  <2> DEFINE h == [i \in 1..Len(ids) |-> g[ids[i]]]
  <2>1. \A i \in 1..Len(ids) : h[i] \in Nat /\ h[i] = g[ids[i]]
    BY <1>1, <1>2
  <2> HIDE DEF h
  <2>2. \E i \in 1..Len(ids) : \A j \in 1..Len(ids) : h[j] <= h[i]
    BY <1>1, <2>1, GreatestOfList
  <2>3. K # {}
    BY <1>1, <2>1, <2>2
  <2>. QED BY <1>1, <2>3
<1>4. Min(K) \in K
  <2> HIDE DEF K
  <2>1. \E x \in K : \A y \in K : x <= y
    BY <1>3, LeastNumber
  <2>. QED BY <2>1 DEF Min
<1>5. FirstLongest(ids) = ids[Min(K)]
  BY <1>0 DEF FirstLongest
<1>6. PICK k : k = Min(K)
  OBVIOUS
<1>7. k \in 1..Len(ids) /\ \A j \in 1..Len(ids) : g[ids[j]] <= g[ids[k]]
  BY <1>1, <1>4, <1>6
<1>. QED BY <1>0, <1>1, <1>5, <1>6, <1>7 DEF ToSet

\* The estimate is the greatest finish, which is that of a longest path.
LEMMA EstimateIs ==
  ASSUME Ordered
  PROVE  /\ EstimateCriticalPathDuration \in Nat
         /\ EstimateCriticalPathDuration = Max({0} \cup {Length(p) : p \in Paths})
         /\ \A e \in Id : (\A s \in Id : Finish[s] <= Finish[e]) => EstimateCriticalPathDuration = Finish[e]
<1>0. PICK g, w : g = Finish /\ w = Weights
  OBVIOUS
<1>1. Measures(g, w) /\ g \in [Id -> Nat]
  BY <1>0, FinishMeasures
<1>2. EstimateCriticalPathDuration = Max({0} \cup {g[s] : s \in Id})
  BY <1>0 DEF EstimateCriticalPathDuration
<1>3. EstimateCriticalPathDuration \in Nat
  BY <1>1, <1>2, GreatestOfSteps
<1>4. Lists /\ Len(order) = Len(nodes) /\ Len(order) \in Nat /\ DOMAIN order = 1..Len(order)
  BY LenProperties DEF Ordered
<1> DEFINE S == {0} \cup {Length(p) : p \in Paths}
<1>5. ASSUME NEW p \in Paths PROVE Length(p) \in Nat /\ \E s \in Id : Length(p) <= g[s]
  <2>1. IsPath(p)
    BY <1>4, PathsArePaths
  <2>2. Len(p) \in Nat /\ Last(p) \in Id
    BY <2>1, PathFacts
  <2>3. PICK t : Sums(w, p, t)
    BY <2>2, SomeSums
  <2>4. t[Len(p)] \in Nat /\ t[Len(p)] <= g[Last(p)]
    BY <1>1, <2>1, <2>3, NoPathWeighsMore
  <2>5. Length(p) = t[Len(p)]
    BY <1>0, <2>1, <2>3, LengthIs
  <2>. QED BY <2>2, <2>4, <2>5
<1>6. CASE Id = {}
  <2>1. Paths = {}
    <3>1. ~ \E p : p \in Paths
      <4> SUFFICES ASSUME NEW p \in Paths PROVE FALSE
        OBVIOUS
      <4>1. IsPath(p)
        BY <1>4, PathsArePaths
      <4>2. p[1] \in Id
        BY <4>1, PathFacts
      <4>. QED BY <1>6, <4>2
    <3>. QED BY <3>1
  <2>2. EstimateCriticalPathDuration = Max(S)
    <3>1. {0} \cup {g[s] : s \in Id} = {0} /\ S = {0}
      BY <1>6, <2>1
    <3> HIDE DEF S
    <3>. QED BY <1>2, <3>1
  <2>. QED BY <1>3, <1>6, <2>2
<1>7. CASE Id # {}
  <2>1. PICK e \in Id : (\A s \in Id : g[s] <= g[e]) /\ Max({0} \cup {g[s] : s \in Id}) = g[e]
    BY <1>1, <1>7, GreatestOfSteps
  <2>2. S \in SUBSET Nat
    BY <1>5
  <2>3. g[e] \in S
    <3>1. PICK k \in 1..Len(order) : order[k] = e
      BY <1>4 DEF Ordered, ToSet
    <3>2. PICK p, t : /\ IsPath(p) /\ Last(p) = e /\ Len(p) <= k
                      /\ Sums(w, p, t) /\ t[Len(p)] = g[e]
      BY <1>1, <3>1, SomePathWeighsIt
    <3>3. Len(p) <= Len(nodes)
      <4>1. Len(p) \in Nat
        BY <3>2, PathFacts
      <4>. QED BY <1>4, <3>2, <4>1
    <3>4. p \in Paths
      BY <1>4, <3>2, <3>3, PathsArePaths
    <3>5. Length(p) = g[e]
      BY <1>0, <3>2, LengthIs
    <3>. QED BY <3>4, <3>5
  <2>4. \A x \in S : x <= g[e]
    <3> TAKE x \in S
    <3>1. g[e] \in Nat
      BY <1>1
    <3>2. CASE x = 0
      BY <3>1, <3>2
    <3>3. CASE x # 0
      <4>1. PICK p \in Paths : x = Length(p)
        BY <3>3
      <4>2. PICK s \in Id : x \in Nat /\ x <= g[s]
        BY <1>5, <4>1
      <4>3. g[s] \in Nat /\ g[s] <= g[e]
        BY <1>1, <2>1
      <4>. QED BY <3>1, <4>2, <4>3
    <3>. QED BY <3>2, <3>3
  <2>5. Max(S) = g[e]
    <3> HIDE DEF S
    <3>. QED BY <2>2, <2>3, <2>4, MaxIs
  <2>6. \A x \in Id : (\A s \in Id : g[s] <= g[x]) => g[x] = g[e]
    <3> TAKE x \in Id
    <3>1. g[x] \in Nat /\ g[e] \in Nat /\ g[x] <= g[e]
      BY <1>1, <2>1
    <3>. QED BY <3>1
  <2>. QED BY <1>0, <1>2, <1>3, <2>1, <2>5, <2>6
<1>. QED BY <1>6, <1>7

\* What holds of the path while it grows towards its beginning: its head came no later
\* than there is room for, and with the finish of its head it makes up the estimate.
Back(p) ==
  /\ IsPath(p)
  /\ \E j \in 1..Len(order) : order[j] = Head(p) /\ Len(p) + j <= Len(order) + 1
  /\ \E t : /\ Sums(Weights, p, t) /\ \A i \in 0..Len(p) : t[i] \in Nat
            /\ t[Len(p)] + Finish[Head(p)] = EstimateCriticalPathDuration + Weights[Head(p)]

LEMMA BackStarts ==
  ASSUME Ordered, nodes # <<>>
  PROVE  Back(<<FirstLongest(IdsInOrder)>>)
<1>0. PICK g, w, e, est : /\ g = Finish /\ w = Weights /\ e = FirstLongest(IdsInOrder)
                          /\ est = EstimateCriticalPathDuration
  OBVIOUS
<1>1. g \in [Id -> Nat] /\ \A s \in Id : w[s] \in Nat
  BY <1>0, FinishMeasures DEF Measures
<1>2. /\ Len(order) \in Nat /\ DOMAIN order = 1..Len(order) /\ Len(order) = Len(nodes)
      /\ Lists /\ ToSet(order) = Id
  BY DEF Ordered
<1>3. IdsInOrder \in Seq(Id) /\ ToSet(IdsInOrder) = Id /\ Len(IdsInOrder) = Len(nodes)
  BY <1>2, IdsAreListed
<1>4. IdsInOrder # <<>>
  <2>1. \A S, q : q \in Seq(S) => (q = <<>> <=> Len(q) = 0)
    BY EmptySeq
  <2>2. nodes \in Seq(ToSet(nodes))
    BY <1>2 DEF Lists
  <2>. QED BY <1>3, <2>1, <2>2
<1>5. e \in Id /\ \A s \in Id : g[s] <= g[e]
  BY <1>0, <1>3, <1>4, FirstLongestIs
<1>6. est = g[e]
  BY <1>0, <1>5, EstimateIs
<1>7. PICK j \in 1..Len(order) : order[j] = e
  BY <1>2, <1>5 DEF ToSet
<1>8. IsPath(<<e>>) /\ Len(<<e>>) = 1 /\ Head(<<e>>) = e
  BY <1>5 DEF IsPath
<1> DEFINE t == [i \in 0..1 |-> IF i = 0 THEN 0 ELSE w[e]]
<1>9. t[0] = 0 /\ t[1] = w[e] /\ 0 + w[e] = w[e] /\ \A i \in 0..1 : t[i] \in Nat
  BY <1>1, <1>5
<1> HIDE DEF t
<1>10. Sums(w, <<e>>, t)
  <2>1. \A i \in 1..1 : i = 1 /\ i - 1 = 0
    OBVIOUS
  <2>. QED BY <1>9, <2>1 DEF Sums
<1>11. t[1] + g[e] = est + w[e]
  BY <1>1, <1>5, <1>6, <1>9
<1>12. 1 + j <= Len(order) + 1
  BY <1>2
<1>. QED BY <1>0, <1>7, <1>8, <1>9, <1>10, <1>11, <1>12 DEF Back

LEMMA BackGoesOn ==
  ASSUME Ordered, NEW p, Back(p), After(Head(p)) # <<>>
  PROVE  Back(<<FirstLongest(After(Head(p)))>> \o p) /\ Len(<<FirstLongest(After(Head(p)))>> \o p) = Len(p) + 1
<1>0. PICK g, w, s, d, est : /\ g = Finish /\ w = Weights /\ s = Head(p)
                             /\ d = FirstLongest(After(s)) /\ est = EstimateCriticalPathDuration
  OBVIOUS
<1>1. g \in [Id -> Nat] /\ \A x \in Id : w[x] \in Nat /\ g[x] = w[x] + Latest(x, g)
  BY <1>0, FinishMeasures DEF Measures
<1>2. /\ Len(order) \in Nat /\ DOMAIN order = 1..Len(order) /\ Lists
      /\ \A j \in 1..Len(order) : order[j] \in Id
  BY DEF Ordered
<1>3. IsPath(p)
  BY DEF Back
<1>4. /\ Len(p) \in Nat /\ Len(p) >= 1 /\ s = p[1] /\ s \in Id /\ \A i \in 1..Len(p) : p[i] \in Id
  <2>1. Len(p) \in Nat /\ Len(p) >= 1 /\ \A i \in 1..Len(p) : p[i] \in Id
    BY <1>3, PathFacts
  <2>2. Head(p) = p[1]
    BY <1>3 DEF IsPath
  <2>. QED BY <1>0, <2>1, <2>2
<1>5. PICK j \in 1..Len(order) : order[j] = s /\ Len(p) + j <= Len(order) + 1
  BY <1>0 DEF Back
<1>6. PICK t : /\ Sums(w, p, t) /\ \A i \in 0..Len(p) : t[i] \in Nat
               /\ t[Len(p)] + g[s] = est + w[s]
  BY <1>0 DEF Back
<1>7. d \in ToSet(After(s)) /\ \A e \in ToSet(After(s)) : g[e] <= g[d]
  <2>0. PICK a : a = After(s)
    OBVIOUS
  <2>1. a \in Seq(ToSet(a)) /\ ToSet(a) \subseteq Id
    BY <1>1, <1>2, <1>4, <2>0, AfterIsList, LatestInGraph
  <2>2. a \in Seq(Id) /\ a # <<>>
    <3>1. \A i \in 1..Len(a) : a[i] \in Id
      BY <2>1
    <3>. QED BY <1>0, <2>0, <2>1, <3>1
  <2>3. FirstLongest(a) \in ToSet(a) /\ \A e \in ToSet(a) : Finish[e] <= Finish[FirstLongest(a)]
    BY <2>2, FirstLongestIs
  <2>. QED BY <1>0, <2>0, <2>3
<1>8. d \in Id /\ g[d] = Latest(s, g)
  <2>1. ToSet(After(s)) \subseteq Id /\ g[d] <= Latest(s, g) /\ Latest(s, g) \in Nat
    BY <1>1, <1>4, <1>7, LatestInGraph
  <2>2. PICK e \in ToSet(After(s)) : g[e] = Latest(s, g)
    BY <1>0, <1>1, <1>4, LatestInGraph
  <2>3. g[e] <= g[d] /\ g[d] \in Nat /\ g[e] \in Nat
    BY <1>1, <1>7, <2>1, <2>2
  <2>. QED BY <1>7, <2>1, <2>2, <2>3
<1>9. PICK k \in 1..(j - 1) : order[k] = d
  <2>1. ToSet(After(s)) \subseteq {order[i] : i \in 1..(j - 1)}
    BY <1>2, <1>5 DEF Ordered, InOrder
  <2>. QED BY <1>7, <2>1
<1>10. \A i \in 1..Len(p) : w[p[i]] \in Nat
  BY <1>1, <1>4
<1>11. /\ IsPath(<<d>> \o p) /\ Len(<<d>> \o p) = Len(p) + 1 /\ Head(<<d>> \o p) = d
       /\ \E u : /\ Sums(w, <<d>> \o p, u) /\ u[Len(p) + 1] = w[d] + t[Len(p)]
                 /\ \A i \in 0..(Len(p) + 1) : u[i] \in Nat
  <2>1. d \in Id /\ d \in ToSet(After(p[1])) /\ w[d] \in Nat
    BY <1>1, <1>4, <1>7, <1>8
  <2>2. Sums(w, p, t) /\ \A i \in 0..Len(p) : t[i] \in Nat
    BY <1>6
  <2>. QED BY <1>3, <1>10, <2>1, <2>2, PathBeginsEarlier
<1>12. PICK q, u : /\ q = <<d>> \o p /\ Sums(w, q, u) /\ u[Len(p) + 1] = w[d] + t[Len(p)]
                   /\ \A i \in 0..(Len(p) + 1) : u[i] \in Nat
  BY <1>11
<1>13. IsPath(q) /\ Len(q) = Len(p) + 1 /\ Head(q) = d
  BY <1>11, <1>12
<1>14. k \in 1..Len(order) /\ Len(q) + k <= Len(order) + 1
  BY <1>2, <1>4, <1>5, <1>9, <1>13
<1>15. u[Len(q)] + g[d] = est + w[d]
  <2>1. /\ t[Len(p)] \in Nat /\ w[d] \in Nat /\ w[s] \in Nat /\ g[d] \in Nat /\ g[s] = w[s] + g[d]
        /\ est \in Nat
    <3>1. Len(p) \in 0..Len(p)
      BY <1>4
    <3>2. t[Len(p)] \in Nat
      BY <1>6, <3>1
    <3>3. w[d] \in Nat /\ w[s] \in Nat /\ g[d] \in Nat /\ g[s] = w[s] + g[d]
      BY <1>1, <1>4, <1>8
    <3>4. est \in Nat
      BY <1>0, EstimateIs
    <3>. QED BY <3>2, <3>3, <3>4
  <2>2. t[Len(p)] + g[s] = est + w[s]
    BY <1>6
  <2>3. u[Len(q)] = w[d] + t[Len(p)]
    BY <1>12, <1>13, Zenon
  <2>4. PICK a, b, c, e : a = t[Len(p)] /\ b = w[s] /\ c = g[d] /\ e = w[d]
    OBVIOUS
  <2>5. a \in Nat /\ b \in Nat /\ c \in Nat /\ e \in Nat /\ est \in Nat /\ g[s] = b + c
    BY <2>1, <2>4
  <2>6. a + (b + c) = est + b
    BY <2>2, <2>4, <2>5
  <2>7. e + a + c = est + e
    BY <2>5, <2>6
  <2>. QED BY <2>3, <2>4, <2>7
<1>16. Back(q)
  BY <1>0, <1>9, <1>12, <1>13, <1>14, <1>15 DEF Back
<1>. QED BY <1>0, <1>12, <1>13, <1>16

\* A path that cannot begin earlier is a critical one.
LEMMA BackEnds ==
  ASSUME Ordered, NEW p, Back(p), After(Head(p)) = <<>>
  PROVE  p \in Paths /\ Length(p) = EstimateCriticalPathDuration
<1>0. PICK g, w, s, est : /\ g = Finish /\ w = Weights /\ s = Head(p)
                          /\ est = EstimateCriticalPathDuration
  OBVIOUS
<1>1. g \in [Id -> Nat] /\ \A x \in Id : w[x] \in Nat /\ g[x] = w[x] + Latest(x, g)
  BY <1>0, FinishMeasures DEF Measures
<1>2. IsPath(p) /\ Len(p) \in Nat /\ Len(order) \in Nat /\ Len(order) = Len(nodes) /\ Lists
  BY PathFacts DEF Back, Ordered
<1>3. s \in Id
  BY <1>0, <1>2, PathFacts DEF IsPath
<1>4. p \in Paths
  <2>1. Len(p) <= Len(nodes)
    BY <1>2 DEF Back
  <2>. QED BY <1>2, <2>1, PathsArePaths
<1>5. PICK t : /\ Sums(w, p, t) /\ \A i \in 0..Len(p) : t[i] \in Nat
               /\ t[Len(p)] + g[s] = est + w[s]
  BY <1>0 DEF Back
<1>6. g[s] = w[s] /\ w[s] \in Nat /\ t[Len(p)] \in Nat /\ est \in Nat
  BY <1>0, <1>1, <1>2, <1>3, <1>5, LatestInGraph, EstimateIs
<1>7. Length(p) = t[Len(p)]
  BY <1>0, <1>2, <1>5, LengthIs
<1>. QED BY <1>0, <1>4, <1>5, <1>6, <1>7

LEMMA CriticalPathHolds == ASSUME Ordered PROVE CriticalPathIsRight
<1>0. /\ Len(nodes) \in Nat /\ Len(order) = Len(nodes) /\ Lists
  BY LenProperties DEF Ordered
<1> DEFINE More(p) == IF After(Head(p)) = <<>> THEN p ELSE <<FirstLongest(After(Head(p)))>> \o p
           Start == <<FirstLongest(IdsInOrder)>>
           Step(f, k) == IF k = 0 THEN Start ELSE More(f[k - 1])
           IsTrail(n, f) == f = [k \in 0..n |-> Step(f, k)]
           T == {n \in Nat : \E f : IsTrail(n, f)}
<1> HIDE DEF More, Start
<1>1. 0 \in T
  <2>1. IsTrail(0, [k \in 0..0 |-> Start])
    OBVIOUS
  <2>. QED BY <2>1
<1>2. ASSUME NEW m \in Nat, m \in T PROVE m + 1 \in T
  <2>1. PICK f : IsTrail(m, f)
    BY <1>2
  <2> DEFINE more == [k \in 0..(m + 1) |-> IF k # m + 1 THEN f[k] ELSE More(f[m])]
  <2>2. \A k \in 0..m : f[k] = Step(f, k)
    BY <2>1
  <2>3. \A k \in 0..(m + 1) : more[k] = Step(more, k)
    <3> TAKE k \in 0..(m + 1)
    <3>1. CASE k = m + 1
      BY <3>1
    <3>2. CASE k # m + 1
      <4>1. k \in 0..m /\ (k # 0 => k - 1 \in 0..(m + 1) /\ k - 1 # m + 1)
        BY <3>2
      <4>. QED BY <4>1, <2>2
    <3>. QED BY <3>1, <3>2
  <2>4. more = [k \in 0..(m + 1) |-> more[k]]
    OBVIOUS
  <2>5. IsTrail(m + 1, more)
    <3> HIDE DEF more
    <3>. QED BY <2>3, <2>4
  <2> HIDE DEF more, IsTrail
  <2>. QED BY <2>5
<1>3. Nat \subseteq T
  <2> HIDE DEF T
  <2>. QED BY <1>1, <1>2, AllNumbers
<1> DEFINE trail == CHOOSE f : IsTrail(Len(nodes), f)
<1>4. IsTrail(Len(nodes), trail)
  <2>1. \E f : IsTrail(Len(nodes), f)
    BY <1>0, <1>3
  <2> HIDE DEF IsTrail
  <2>. QED BY <2>1
<1>5. nodes # <<>> => CriticalPathIds = trail[Len(nodes)]
  BY DEF CriticalPathIds, More, Start
<1>6. PICK f : f = trail
  OBVIOUS
<1>7. f[0] = Start /\ \A k \in 0..Len(nodes) : k + 1 <= Len(nodes) => f[k + 1] = More(f[k])
  <2>1. f = [k \in 0..Len(nodes) |-> Step(f, k)]
    BY <1>4, <1>6
  <2>2. 0 \in 0..Len(nodes)
    BY <1>0
  <2>3. \A k \in 0..Len(nodes) :
          k + 1 <= Len(nodes) => k + 1 \in 0..Len(nodes) /\ k + 1 # 0 /\ (k + 1) - 1 = k
    BY <1>0
  <2>. QED BY <2>1, <2>2, <2>3
<1> HIDE DEF T, trail
<1>8. ASSUME nodes # <<>>
      PROVE  Back(f[Len(nodes)]) /\ After(Head(f[Len(nodes)])) = <<>>
  <2> DEFINE Good(k) == Back(f[k]) /\ (After(Head(f[k])) = <<>> \/ Len(f[k]) = k + 1)
             G == {k \in Nat : k <= Len(nodes) => Good(k)}
  <2>1. 0 \in G
    <3>1. Back(Start) /\ Len(Start) = 1
      BY <1>8, BackStarts DEF Start
    <3>. QED BY <1>7, <3>1
  <2>2. ASSUME NEW k \in Nat, k \in G PROVE k + 1 \in G
    <3> SUFFICES ASSUME k + 1 <= Len(nodes) PROVE Good(k + 1)
      OBVIOUS
    <3>0. PICK p, q : p = f[k] /\ q = f[k + 1]
      OBVIOUS
    <3>1. q = More(p) /\ Back(p) /\ (After(Head(p)) = <<>> \/ Len(p) = k + 1)
      <4>1. k \in 0..Len(nodes) /\ k <= Len(nodes)
        BY <1>0
      <4>. QED BY <1>7, <2>2, <3>0, <4>1
    <3>2. CASE After(Head(p)) = <<>>
      <4>1. q = p
        BY <3>1, <3>2 DEF More
      <4>. QED BY <3>0, <3>1, <3>2, <4>1
    <3>3. CASE After(Head(p)) # <<>>
      <4>1. q = <<FirstLongest(After(Head(p)))>> \o p
        BY <3>1, <3>3 DEF More
      <4>2. Back(q) /\ Len(q) = Len(p) + 1
        BY <3>1, <3>3, <4>1, BackGoesOn
      <4>. QED BY <3>0, <3>1, <3>3, <4>2
    <3>. QED BY <3>2, <3>3
  <2>3. Nat \subseteq G
    <3> HIDE DEF G
    <3>. QED BY <2>1, <2>2, AllNumbers
  <2>4. Good(Len(nodes))
    <3> HIDE DEF Good
    <3>. QED BY <1>0, <2>3
  <2>5. Len(f[Len(nodes)]) # Len(nodes) + 1
    <3>0. PICK p : p = f[Len(nodes)]
      OBVIOUS
    <3>1. PICK j \in 1..Len(order) : Len(p) + j <= Len(order) + 1
      BY <2>4, <3>0 DEF Back
    <3>2. Len(p) \in Nat
      BY <2>4, <3>0, PathFacts DEF Back
    <3>. QED BY <1>0, <3>0, <3>1, <3>2
  <2>. QED BY <2>4, <2>5
<1>9. ASSUME nodes # <<>>
      PROVE  CriticalPathIds \in Paths /\ Length(CriticalPathIds) = EstimateCriticalPathDuration
  <2>0. PICK p : p = f[Len(nodes)]
    OBVIOUS
  <2>1. p \in Paths /\ Length(p) = EstimateCriticalPathDuration
    BY <1>8, <1>9, <2>0, BackEnds
  <2>. QED BY <1>5, <1>6, <1>9, <2>0, <2>1
<1>. QED BY <1>9, EstimateIs DEF CriticalPathIsRight

LEMMA GraphIsMeasured == GraphInv => GraphIsRight
<1> SUFFICES ASSUME GraphInv PROVE GraphIsRight
  OBVIOUS
<1>1. VerdictIsRight /\ SortIsRight
  BY GraphIsSorted
<1>2. CASE phase = "ordered"
  <2>1. Ordered
    <3>1. SortInv /\ Lists /\ ValidIds /\ Len(order) = Len(nodes)
      BY <1>2 DEF GraphInv
    <3>2. ToSet(order) = Id
      BY <1>1, <1>2 DEF SortIsRight
    <3>. QED BY <3>1, <3>2 DEF Ordered, SortInv
  <2>. QED BY <1>1, <2>1, DepthsHold, CriticalPathHolds DEF GraphIsRight
<1>3. CASE phase # "ordered"
  BY <1>1, <1>3 DEF GraphIsRight, DepthsAreRight, CriticalPathIsRight
<1>. QED BY <1>2, <1>3

\* For every plan: it is accepted exactly when its ids are distinct, its dependencies
\* exist and it has no cycle; the order has each step once, after its dependencies; the
\* depths are the lengths of the longest paths, and the critical path is a longest one.
THEOREM GraphAlwaysRight == ScheduleSpec => []GraphIsRight
BY GraphInvHolds, GraphIsMeasured, PTL

-------------------------------------------------------------------------------
\* Sums over finite sets.

\* g has the sums of f over the subsets of S, as a fold takes them.
SomeOf(T) == CHOOSE x \in T : TRUE
Folded(f, T, g) == IF T = {} THEN 0 ELSE f[SomeOf(T)] + g[T \ {SomeOf(T)}]
Folds(f, S, g) == g = [T \in SUBSET S |-> Folded(f, T, g)]

LEMMA SumIsFold ==
  ASSUME NEW f, NEW S
  PROVE  SumFunctionOnSet(f, S) = (CHOOSE g : Folds(f, S, g))[S]
BY DEF SumFunctionOnSet, FoldFunctionOnSet, MapThenFoldSet, Folds, Folded, SomeOf

LEMMA SizeOfPart ==
  ASSUME NEW S, IsFiniteSet(S), NEW T \in SUBSET S
  PROVE  /\ IsFiniteSet(T) /\ Cardinality(T) \in Nat
         /\ \A x \in T : Cardinality(T \ {x}) = Cardinality(T) - 1
         /\ T # {} => SomeOf(T) \in T /\ Cardinality(T) > 0
         /\ T = {} => Cardinality(T) = 0
<1>1. IsFiniteSet(T)
  BY FS_Subset
<1>2. T # {} => SomeOf(T) \in T
  BY DEF SomeOf
<1>. QED BY <1>1, <1>2, FS_CardinalityType, FS_RemoveElement, FS_EmptySet

LEMMA SomeFolds ==
  ASSUME NEW f, NEW S, IsFiniteSet(S)
  PROVE  \E g : Folds(f, S, g)
<1> DEFINE Good(n, g) == \A T \in SUBSET S : Cardinality(T) <= n => g[T] = Folded(f, T, g)
           Has == {n \in Nat : \E g : Good(n, g)}
<1>1. 0 \in Has
  <2>1. Good(0, [T \in SUBSET S |-> 0])
    BY SizeOfPart DEF Folded
  <2>. QED BY <2>1
<1>2. ASSUME NEW n \in Nat, n \in Has PROVE n + 1 \in Has
  <2>1. PICK g : Good(n, g)
    BY <1>2
  <2> DEFINE more == [T \in SUBSET S |-> IF Cardinality(T) <= n THEN g[T] ELSE Folded(f, T, g)]
  <2>2. Good(n + 1, more)
    <3> SUFFICES ASSUME NEW T \in SUBSET S, Cardinality(T) <= n + 1
                 PROVE  more[T] = Folded(f, T, more)
      OBVIOUS
    <3>1. CASE T = {}
      <4>1. Cardinality(T) <= n
        BY <3>1, SizeOfPart
      <4>. QED BY <2>1, <3>1, <4>1 DEF Folded
    <3>2. CASE T # {}
      <4>1. PICK rest : rest = T \ {SomeOf(T)}
        OBVIOUS
      <4>2. rest \in SUBSET S /\ Cardinality(rest) = Cardinality(T) - 1 /\ Cardinality(T) \in Nat
        BY <3>2, <4>1, SizeOfPart
      <4>3. more[rest] = g[rest]
        BY <4>2
      <4>4. more[T] = Folded(f, T, g)
        BY <2>1
      <4>. QED BY <3>2, <4>1, <4>3, <4>4 DEF Folded
    <3>. QED BY <3>1, <3>2
  <2> HIDE DEF more, Good
  <2>. QED BY <2>2
<1>3. Nat \subseteq Has
  <2> HIDE DEF Has
  <2>. QED BY <1>1, <1>2, AllNumbers
<1>4. PICK g : Good(Cardinality(S), g)
  <2>1. Cardinality(S) \in Nat
    BY FS_CardinalityType
  <2>. QED BY <1>3, <2>1
<1>5. PICK h : h = [T \in SUBSET S |-> g[T]]
  OBVIOUS
<1>6. \A T \in SUBSET S : Cardinality(T) <= Cardinality(S)
  BY FS_Subset
<1>7. \A T \in SUBSET S : h[T] = Folded(f, T, h)
  <2> SUFFICES ASSUME NEW T \in SUBSET S PROVE h[T] = Folded(f, T, h)
    OBVIOUS
  <2>1. g[T] = Folded(f, T, g)
    BY <1>4, <1>6
  <2>2. h[T] = g[T] /\ h[T \ {SomeOf(T)}] = g[T \ {SomeOf(T)}]
    BY <1>5
  <2>. QED BY <2>1, <2>2 DEF Folded
<1>8. Folds(f, S, h)
  <2>1. h = [T \in SUBSET S |-> h[T]]
    BY <1>5
  <2>. QED BY <1>7, <2>1 DEF Folds
<1>. QED BY <1>8

\* The sum over a set is that of one member and the rest.
LEMMA SumByFold ==
  ASSUME NEW f, NEW S, IsFiniteSet(S), NEW g, Folds(f, S, g)
  PROVE  \A T \in SUBSET S : SumFunctionOnSet(f, T) = g[T]
<1> DEFINE Has == {n \in Nat : \A T, U \in SUBSET S : \A h :
                     Folds(f, U, h) /\ T \subseteq U /\ Cardinality(T) = n => h[T] = g[T]}
<1>0. \A U \in SUBSET S : \A h : Folds(f, U, h) => \A T \in SUBSET U : h[T] = Folded(f, T, h)
  <2> SUFFICES ASSUME NEW U \in SUBSET S, NEW h, Folds(f, U, h), NEW T \in SUBSET U
               PROVE  h[T] = Folded(f, T, h)
    OBVIOUS
  <2>1. h = [V \in SUBSET U |-> Folded(f, V, h)]
    BY DEF Folds
  <2>. QED BY <2>1
<1>1. 0 \in Has
  <2> SUFFICES ASSUME NEW T \in SUBSET S, NEW U \in SUBSET S, NEW h, Folds(f, U, h), T \subseteq U,
                      Cardinality(T) = 0
               PROVE  h[T] = g[T]
    OBVIOUS
  <2>1. T = {}
    BY SizeOfPart
  <2>2. h[T] = Folded(f, T, h) /\ g[T] = Folded(f, T, g)
    BY <1>0
  <2>. QED BY <2>1, <2>2 DEF Folded
<1>2. ASSUME NEW n \in Nat, n \in Has PROVE n + 1 \in Has
  <2> SUFFICES ASSUME NEW T \in SUBSET S, NEW U \in SUBSET S, NEW h, Folds(f, U, h), T \subseteq U,
                      Cardinality(T) = n + 1
               PROVE  h[T] = g[T]
    OBVIOUS
  <2>1. PICK rest : rest = T \ {SomeOf(T)}
    OBVIOUS
  <2>2. T # {} /\ rest \in SUBSET S /\ rest \subseteq U /\ Cardinality(rest) = n
    BY <2>1, SizeOfPart
  <2>3. h[rest] = g[rest]
    BY <1>2, <2>2
  <2>4. h[T] = Folded(f, T, h) /\ g[T] = Folded(f, T, g)
    BY <1>0
  <2>. QED BY <2>1, <2>2, <2>3, <2>4 DEF Folded
<1>3. Nat \subseteq Has
  <2> HIDE DEF Has
  <2>. QED BY <1>1, <1>2, AllNumbers
<1> SUFFICES ASSUME NEW T \in SUBSET S PROVE SumFunctionOnSet(f, T) = g[T]
  OBVIOUS
<1>4. PICK h : h = CHOOSE k : Folds(f, T, k)
  OBVIOUS
<1>5. IsFiniteSet(T) /\ Cardinality(T) \in Nat
  BY SizeOfPart
<1>6. Folds(f, T, h)
  BY <1>4, <1>5, SomeFolds
<1>7. SumFunctionOnSet(f, T) = h[T]
  BY <1>4, SumIsFold
<1>. QED BY <1>3, <1>5, <1>6, <1>7

LEMMA SumOfSome ==
  ASSUME NEW f, NEW S, IsFiniteSet(S)
  PROVE  SumFunctionOnSet(f, S) =
           IF S = {} THEN 0 ELSE f[SomeOf(S)] + SumFunctionOnSet(f, S \ {SomeOf(S)})
<1>1. PICK g : Folds(f, S, g)
  BY SomeFolds
<1>2. g[S] = Folded(f, S, g)
  <2>1. g = [T \in SUBSET S |-> Folded(f, T, g)]
    BY <1>1 DEF Folds
  <2>2. S \in SUBSET S
    OBVIOUS
  <2>. QED BY <2>1, <2>2
<1>3. SumFunctionOnSet(f, S) = g[S] /\ SumFunctionOnSet(f, S \ {SomeOf(S)}) = g[S \ {SomeOf(S)}]
  BY <1>1, SumByFold
<1>. QED BY <1>2, <1>3 DEF Folded

\* The sum over a set is what any member has and the sum over the rest.
LEMMA SumOfOne ==
  ASSUME NEW f, NEW S, IsFiniteSet(S), \A x \in S : f[x] \in Int
  PROVE  /\ SumFunctionOnSet(f, S) \in Int
         /\ S = {} => SumFunctionOnSet(f, S) = 0
         /\ \A x \in S : SumFunctionOnSet(f, S) = f[x] + SumFunctionOnSet(f, S \ {x})
<1> DEFINE Sum(T) == SumFunctionOnSet(f, T)
           Good(T) == /\ Sum(T) \in Int
                      /\ \A x \in T : Sum(T) = f[x] + Sum(T \ {x})
           Has == {n \in Nat : \A T \in SUBSET S : Cardinality(T) <= n => Good(T)}
<1>0. \A T \in SUBSET S : Sum(T) = IF T = {} THEN 0 ELSE f[SomeOf(T)] + Sum(T \ {SomeOf(T)})
  BY SizeOfPart, SumOfSome
<1> HIDE DEF Sum
<1>1. 0 \in Has
  <2> SUFFICES ASSUME NEW T \in SUBSET S, Cardinality(T) <= 0 PROVE Good(T)
    OBVIOUS
  <2>1. T = {}
    BY SizeOfPart
  <2>2. Sum(T) = 0
    BY <1>0, <2>1
  <2>. QED BY <2>1, <2>2
<1>2. ASSUME NEW n \in Nat, n \in Has PROVE n + 1 \in Has
  <2>0. \A T \in SUBSET S : Cardinality(T) <= n => Good(T)
    BY <1>2
  <2> SUFFICES ASSUME NEW T \in SUBSET S, ~(Cardinality(T) <= n), Cardinality(T) <= n + 1
               PROVE  Good(T)
    <3> HIDE DEF Good
    <3>. QED BY <2>0
  <2>1. PICK c : c = SomeOf(T)
    OBVIOUS
  <2>2. /\ T # {} /\ c \in T /\ \A x \in T : T \ {x} \in SUBSET S /\ Cardinality(T \ {x}) = n
    <3>1. Cardinality(T) = n + 1
      BY SizeOfPart
    <3>. QED BY <2>1, <3>1, SizeOfPart
  <2>3. \A x \in T : Good(T \ {x})
    <3> HIDE DEF Good
    <3>. QED BY <2>0, <2>2
  <2>4. Sum(T) = f[c] + Sum(T \ {c})
    BY <1>0, <2>1, <2>2
  <2>5. Sum(T) \in Int
    BY <2>2, <2>3, <2>4
  <2>6. ASSUME NEW x \in T PROVE Sum(T) = f[x] + Sum(T \ {x})
    <3>1. CASE x = c
      BY <2>4, <3>1
    <3>2. CASE x # c
      <4>1. PICK U : U = (T \ {c}) \ {x}
        OBVIOUS
      <4>2. U = (T \ {x}) \ {c}
        BY <4>1
      <4>3. Sum(T \ {c}) = f[x] + Sum(U)
        BY <2>2, <2>3, <2>6, <3>2, <4>1
      <4>4. Sum(T \ {x}) = f[c] + Sum(U)
        BY <2>2, <2>3, <2>6, <3>2, <4>2
      <4>5. /\ f[x] \in Int /\ f[c] \in Int /\ Sum(T \ {c}) \in Int /\ Sum(T \ {x}) \in Int
        BY <2>2, <2>3, <2>6
      <4>6. Sum(U) \in Int
        <5>1. PICK V : V = T \ {c} /\ V \in SUBSET S /\ Cardinality(V) = n
          BY <2>2
        <5>2. x \in V /\ U = V \ {x}
          BY <2>6, <3>2, <4>1, <5>1
        <5>3. U \in SUBSET S /\ Cardinality(U) = n - 1
          BY <5>1, <5>2, SizeOfPart
        <5>. QED BY <2>0, <5>3
      <4>. QED BY <2>4, <4>3, <4>4, <4>5, <4>6
    <3>. QED BY <3>1, <3>2
  <2>. QED BY <2>5, <2>6
<1>3. Nat \subseteq Has
  <2> HIDE DEF Has
  <2>. QED BY <1>1, <1>2, AllNumbers
<1>4. Good(S)
  <2>1. Cardinality(S) \in Nat /\ S \in SUBSET S
    BY SizeOfPart
  <2>. QED BY <1>3, <2>1
<1>5. S = {} => Sum(S) = 0
  BY <1>0
<1>. QED BY <1>4, <1>5 DEF Sum

LEMMA SumIsInt ==
  ASSUME NEW f, NEW S, IsFiniteSet(S), \A x \in S : f[x] \in Int
  PROVE  /\ SumFunctionOnSet(f, S) \in Int
         /\ S = {} => SumFunctionOnSet(f, S) = 0
         /\ \A x \in S : /\ SumFunctionOnSet(f, S \ {x}) \in Int
                         /\ SumFunctionOnSet(f, S) = f[x] + SumFunctionOnSet(f, S \ {x})
<1>1. \A x \in S : IsFiniteSet(S \ {x})
  BY FS_Subset
<1>. QED BY <1>1, SumOfOne

\* A sum of more over more is more, if what is left out is not positive and what is
\* added not negative.
LEMMA SumIsNoMore ==
  ASSUME NEW S, IsFiniteSet(S), NEW T \in SUBSET S, NEW U \in SUBSET S, NEW f, NEW g,
         \A x \in T : f[x] \in Int, \A x \in U : g[x] \in Int,
         \A x \in T \cap U : f[x] <= g[x],
         \A x \in T \ U : f[x] <= 0,
         \A x \in U \ T : g[x] >= 0
  PROVE  SumFunctionOnSet(f, T) <= SumFunctionOnSet(g, U)
<1> DEFINE F(V) == SumFunctionOnSet(f, V)
           G(V) == SumFunctionOnSet(g, V)
           Good(R) == F(T \cap R) <= G(U \cap R)
           Has == {n \in Nat : \A R \in SUBSET S : Cardinality(R) = n => Good(R)}
<1>1. \A R \in SUBSET S : \A x \in R :
        /\ F(T \cap R) \in Int /\ G(U \cap R) \in Int
        /\ F(T \cap (R \ {x})) \in Int /\ G(U \cap (R \ {x})) \in Int
        /\ F(T \cap R) = IF x \in T THEN f[x] + F(T \cap (R \ {x})) ELSE F(T \cap (R \ {x}))
        /\ G(U \cap R) = IF x \in U THEN g[x] + G(U \cap (R \ {x})) ELSE G(U \cap (R \ {x}))
  <2> TAKE R \in SUBSET S
  <2> TAKE x \in R
  <2>1. /\ IsFiniteSet(T \cap R) /\ IsFiniteSet(U \cap R)
        /\ IsFiniteSet(T \cap (R \ {x})) /\ IsFiniteSet(U \cap (R \ {x}))
    BY FS_Subset
  <2>2. /\ F(T \cap R) \in Int /\ G(U \cap R) \in Int
        /\ F(T \cap (R \ {x})) \in Int /\ G(U \cap (R \ {x})) \in Int
    BY <2>1, SumIsInt
  <2>3. ASSUME x \in T PROVE F(T \cap R) = f[x] + F(T \cap (R \ {x}))
    <3>1. T \cap (R \ {x}) = (T \cap R) \ {x} /\ x \in T \cap R
      BY <2>3
    <3>. QED BY <2>1, <3>1, SumIsInt
  <2>4. x \notin T => T \cap (R \ {x}) = T \cap R
    OBVIOUS
  <2>5. ASSUME x \in U PROVE G(U \cap R) = g[x] + G(U \cap (R \ {x}))
    <3>1. U \cap (R \ {x}) = (U \cap R) \ {x} /\ x \in U \cap R
      BY <2>5
    <3>. QED BY <2>1, <3>1, SumIsInt
  <2>6. x \notin U => U \cap (R \ {x}) = U \cap R
    OBVIOUS
  <2> HIDE DEF F, G
  <2>7. F(T \cap R) = IF x \in T THEN f[x] + F(T \cap (R \ {x})) ELSE F(T \cap (R \ {x}))
    BY <2>3, <2>4
  <2>8. G(U \cap R) = IF x \in U THEN g[x] + G(U \cap (R \ {x})) ELSE G(U \cap (R \ {x}))
    BY <2>5, <2>6
  <2>. QED BY <2>2, <2>7, <2>8
<1>2. F({}) = 0 /\ G({}) = 0
  BY FS_EmptySet, SumIsInt
<1> HIDE DEF F, G
<1>3. 0 \in Has
  <2> SUFFICES ASSUME NEW R \in SUBSET S, Cardinality(R) = 0 PROVE Good(R)
    OBVIOUS
  <2>1. T \cap R = {} /\ U \cap R = {}
    BY SizeOfPart
  <2>2. F(T \cap R) = 0 /\ G(U \cap R) = 0
    BY <1>2, <2>1
  <2>. QED BY <2>2
<1>4. ASSUME NEW n \in Nat, n \in Has PROVE n + 1 \in Has
  <2> SUFFICES ASSUME NEW R \in SUBSET S, Cardinality(R) = n + 1 PROVE Good(R)
    OBVIOUS
  <2>1. PICK x \in R : TRUE
    BY SizeOfPart
  <2>2. R \ {x} \in SUBSET S /\ Cardinality(R \ {x}) = n
    BY SizeOfPart
  <2>3. F(T \cap (R \ {x})) <= G(U \cap (R \ {x}))
    BY <1>4, <2>2
  <2>4. PICK a, b, c, d : /\ a = F(T \cap R) /\ b = G(U \cap R)
                          /\ c = F(T \cap (R \ {x})) /\ d = G(U \cap (R \ {x}))
    OBVIOUS
  <2>5. /\ a \in Int /\ b \in Int /\ c \in Int /\ d \in Int /\ c <= d
        /\ a = IF x \in T THEN f[x] + c ELSE c
        /\ b = IF x \in U THEN g[x] + d ELSE d
    BY <1>1, <2>3, <2>4
  <2>6. x \in S
    OBVIOUS
  <2>7. a <= b
    BY <2>5, <2>6
  <2>. QED BY <2>4, <2>7
<1>5. Nat \subseteq Has
  <2> HIDE DEF Has
  <2>. QED BY <1>3, <1>4, AllNumbers
<1>6. Good(S)
  <2>1. Cardinality(S) \in Nat /\ S \in SUBSET S
    BY SizeOfPart
  <2>. QED BY <1>5, <2>1
<1>7. T \cap S = T /\ U \cap S = U
  OBVIOUS
<1>. QED BY <1>6, <1>7 DEF F, G

LEMMA SumIsNat ==
  ASSUME NEW f, NEW S, IsFiniteSet(S), \A x \in S : f[x] \in Nat
  PROVE  /\ SumFunctionOnSet(f, S) \in Nat
         /\ \A x \in S : f[x] <= SumFunctionOnSet(f, S)
<1>1. SumFunctionOnSet(f, S) \in Int /\ \A x \in S : f[x] \in Int
  BY SumIsInt
<1>2. SumFunctionOnSet(f, {}) = 0
  BY FS_EmptySet, SumIsInt
<1>3. SumFunctionOnSet(f, {}) <= SumFunctionOnSet(f, S)
  BY SumIsNoMore
<1>4. ASSUME NEW x \in S PROVE f[x] <= SumFunctionOnSet(f, S)
  <2>0. IsFiniteSet({x})
    BY FS_Singleton, Zenon
  <2>1. IsFiniteSet({x}) /\ {x} \ {x} = {} /\ \A y \in {x} : f[y] \in Int
    BY <1>1, <2>0
  <2>2. SumFunctionOnSet(f, {x}) = f[x] + SumFunctionOnSet(f, {})
    <3>1. x \in {x}
      OBVIOUS
    <3>2. SumFunctionOnSet(f, {x}) = f[x] + SumFunctionOnSet(f, {x} \ {x})
      BY <2>1, <3>1, SumOfOne
    <3>. QED BY <2>1, <3>2
  <2>3. SumFunctionOnSet(f, {x}) <= SumFunctionOnSet(f, S)
    BY SumIsNoMore
  <2>. QED BY <1>1, <1>2, <2>2, <2>3
<1>. QED BY <1>1, <1>2, <1>3, <1>4

LEMMA SumsAreSame ==
  ASSUME NEW S, IsFiniteSet(S), NEW f, NEW g, \A x \in S : f[x] \in Int /\ f[x] = g[x]
  PROVE  SumFunctionOnSet(f, S) = SumFunctionOnSet(g, S)
<1>1. SumFunctionOnSet(f, S) <= SumFunctionOnSet(g, S) /\ SumFunctionOnSet(g, S) <= SumFunctionOnSet(f, S)
  BY SumIsNoMore
<1>. QED BY <1>1, SumIsInt

\* The greatest of finitely many.
LEMMA GreatestOfFinite ==
  ASSUME NEW S, IsFiniteSet(S), S # {}, NEW f, \A x \in S : f[x] \in Int
  PROVE  \E x \in S : \A y \in S : f[y] <= f[x]
<1> DEFINE Best(T) == \E x \in T : \A y \in T : f[y] <= f[x]
           Has == {n \in Nat : \A T \in SUBSET S : Cardinality(T) = n + 1 => Best(T)}
<1>1. 0 \in Has
  <2> SUFFICES ASSUME NEW T \in SUBSET S, Cardinality(T) = 1 PROVE Best(T)
    OBVIOUS
  <2>1. PICK x : T = {x}
    BY SizeOfPart, FS_Singleton
  <2>2. f[x] \in Int
    BY <2>1
  <2>. QED BY <2>1, <2>2
<1>2. ASSUME NEW n \in Nat, n \in Has PROVE n + 1 \in Has
  <2> SUFFICES ASSUME NEW T \in SUBSET S, Cardinality(T) = n + 2 PROVE Best(T)
    OBVIOUS
  <2>1. PICK x \in T : TRUE
    BY SizeOfPart
  <2>2. T \ {x} \in SUBSET S /\ Cardinality(T \ {x}) = n + 1
    BY SizeOfPart
  <2>3. PICK z \in T \ {x} : \A y \in T \ {x} : f[y] <= f[z]
    BY <1>2, <2>2
  <2>4. f[x] \in Int /\ f[z] \in Int /\ \A y \in T : f[y] \in Int
    OBVIOUS
  <2>5. CASE f[x] <= f[z]
    BY <2>3, <2>5
  <2>6. CASE ~(f[x] <= f[z])
    <3>1. \A y \in T : f[y] <= f[x]
      BY <2>3, <2>4, <2>6
    <3>. QED BY <3>1
  <2>. QED BY <2>5, <2>6
<1>3. Nat \subseteq Has
  <2> HIDE DEF Has
  <2>. QED BY <1>1, <1>2, AllNumbers
<1>4. Cardinality(S) \in Nat /\ Cardinality(S) > 0 /\ S \in SUBSET S
  BY SizeOfPart
<1>5. Cardinality(S) - 1 \in Nat /\ (Cardinality(S) - 1) + 1 = Cardinality(S)
  BY <1>4
<1>6. Best(S)
  <2> HIDE DEF Best
  <2>. QED BY <1>3, <1>4, <1>5
<1>. QED BY <1>6

LEMMA MaxOfFinite ==
  ASSUME NEW S \in SUBSET Int, IsFiniteSet(S), S # {}
  PROVE  Max(S) \in S /\ \A y \in S : y <= Max(S)
<1>1. PICK f : f = [x \in S |-> x]
  OBVIOUS
<1>2. \E x \in S : \A y \in S : f[y] <= f[x]
  BY <1>1, GreatestOfFinite
<1>3. \E x \in S : \A y \in S : x >= y
  BY <1>1, <1>2
<1>4. Max(S) \in S /\ \A y \in S : Max(S) >= y
  BY <1>3 DEF Max
<1>. QED BY <1>4

LEMMA MinOfNumbers ==
  ASSUME NEW S \in SUBSET Nat, S # {}
  PROVE  Min(S) \in S /\ \A y \in S : Min(S) <= y
<1>1. \E x \in S : \A y \in S : x <= y
  BY LeastNumber
<1>. QED BY <1>1 DEF Min

LEMMA OfTwo ==
  ASSUME NEW a \in Int, NEW b \in Int
  PROVE  /\ Max({a, b}) = IF a >= b THEN a ELSE b
         /\ Min({a, b}) = IF a <= b THEN a ELSE b
BY DEF Max, Min

LEMMA ImageIsFinite ==
  ASSUME NEW S, IsFiniteSet(S), NEW f
  PROVE  IsFiniteSet({f[x] : x \in S})
<1>1. [x \in S |-> f[x]] \in Surjection(S, {f[x] : x \in S})
  BY DEF Surjection
<1>. QED BY <1>1, FS_Surjection

-------------------------------------------------------------------------------
\* What steps need, and when they use it.

Demands ==
  /\ \A i \in DOMAIN nodes :
       /\ nodes[i].quantities \in Seq([resourceId : {q.resourceId : q \in ToSet(nodes[i].quantities)},
                                       quantity : Nat])
       /\ nodes[i].requirements \in Seq(ToSet(nodes[i].requirements))
  /\ \A r \in DOMAIN capacity : capacity[r] \in Nat

\* Steps run for as long as their duration says.
Timed ==
  /\ Placed \subseteq Id
  /\ \A u \in Placed :
       timelines[u].start \in Nat /\ timelines[u].end = timelines[u].start + Node(u).duration

Basis == Ordered /\ Demands /\ Timed

LEMMA IdsAreFinite == ASSUME Ordered PROVE IsFiniteSet(Id)
<1>1. IsFiniteSet(DOMAIN nodes)
  <2>1. Len(nodes) \in Nat /\ DOMAIN nodes = 1..Len(nodes)
    BY DEF Ordered, Lists
  <2>. QED BY <2>1, Counting
<1>2. PICK f : f = [i \in DOMAIN nodes |-> nodes[i].id]
  OBVIOUS
<1>3. IsFiniteSet({f[i] : i \in DOMAIN nodes})
  BY <1>1, ImageIsFinite
<1>4. {f[i] : i \in DOMAIN nodes} = Id
  BY <1>2 DEF Id
<1>. QED BY <1>3, <1>4

LEMMA NeedsAreNumbers ==
  ASSUME Lists, Demands, NEW s \in Id
  PROVE  IsFiniteSet(DOMAIN Needs(s)) /\ \A r \in DOMAIN Needs(s) : Needs(s)[r] \in Nat
<1> DEFINE n == Node(s)
           listed == IF n.quantities # <<>> THEN n.quantities
                     ELSE [i \in DOMAIN n.requirements |->
                             [resourceId |-> n.requirements[i], quantity |-> Parts]]
<1>1. \E i \in DOMAIN nodes : Node(s) = nodes[i]
  <2>1. PICK I : I = {i \in DOMAIN nodes : nodes[i].id = s}
    OBVIOUS
  <2>2. Len(nodes) \in Nat /\ DOMAIN nodes = 1..Len(nodes)
    BY DEF Lists
  <2>3. I \in SUBSET (0..Len(nodes)) /\ I # {}
    BY <2>1, <2>2 DEF Id
  <2>4. \E x \in I : \A y \in I : x >= y
    BY <2>2, <2>3, GreatestNumber
  <2>5. Max(I) \in I
    BY <2>4 DEF Max
  <2>. QED BY <2>1, <2>5 DEF Node
<1>2. /\ \E k \in Nat : DOMAIN listed = 1..k
      /\ \A i \in DOMAIN listed : listed[i].quantity \in Nat
  <2>1. PICK i \in DOMAIN nodes : n = nodes[i]
    BY <1>1
  <2>2. CASE n.quantities # <<>>
    <3>1. n.quantities \in Seq([resourceId : {q.resourceId : q \in ToSet(n.quantities)}, quantity : Nat])
      BY <2>1 DEF Demands
    <3> HIDE DEF n
    <3>2. PICK Entry, q : q = n.quantities /\ q \in Seq(Entry) /\ \A e \in Entry : e.quantity \in Nat
      <4>1. \A e \in [resourceId : {x.resourceId : x \in ToSet(n.quantities)}, quantity : Nat] :
              e.quantity \in Nat
        OBVIOUS
      <4>. QED BY <3>1, <4>1, Zenon
    <3>3. q \in Seq(Entry)
      BY <3>2
    <3>4. Len(q) \in Nat /\ DOMAIN q = 1..Len(q) /\ \A j \in 1..Len(q) : q[j] \in Entry
      BY <3>3
    <3>. QED BY <2>2, <3>2, <3>4
  <2>3. CASE n.quantities = <<>>
    <3>1. n.requirements \in Seq(ToSet(n.requirements))
      BY <2>1 DEF Demands
    <3> HIDE DEF n
    <3>2. Len(n.requirements) \in Nat /\ DOMAIN n.requirements = 1..Len(n.requirements)
      BY <3>1
    <3>3. Parts \in Nat
      BY PlanScheduleAssumption
    <3>. QED BY <2>3, <3>2, <3>3
  <2>. QED BY <2>2, <2>3
<1>3. Needs(s) = [r \in {listed[i].resourceId : i \in DOMAIN listed} |-> Total(listed, r)]
  BY DEF Needs
<1> HIDE DEF listed
<1>4. IsFiniteSet(DOMAIN listed)
  BY <1>2, Counting
<1>5. IsFiniteSet({listed[i].resourceId : i \in DOMAIN listed})
  <2>1. PICK f : f = [i \in DOMAIN listed |-> listed[i].resourceId]
    OBVIOUS
  <2>2. IsFiniteSet({f[i] : i \in DOMAIN listed})
    BY <1>4, ImageIsFinite
  <2>3. {f[i] : i \in DOMAIN listed} = {listed[i].resourceId : i \in DOMAIN listed}
    BY <2>1
  <2>. QED BY <2>2, <2>3
<1>6. ASSUME NEW r PROVE Total(listed, r) \in Nat
  <2>1. PICK f : f = [i \in DOMAIN listed |-> IF listed[i].resourceId = r THEN listed[i].quantity ELSE 0]
    OBVIOUS
  <2>2. \A i \in DOMAIN listed : f[i] \in Nat
    BY <1>2, <2>1
  <2>3. SumFunctionOnSet(f, DOMAIN listed) \in Nat
    BY <1>4, <2>2, SumIsNat
  <2>4. DOMAIN f = DOMAIN listed
    BY <2>1
  <2>. QED BY <2>1, <2>3, <2>4 DEF Total, SumFunction
<1>. QED BY <1>3, <1>5, <1>6

LEMMA UsesAreNumbers ==
  ASSUME Basis, NEW r, NEW u \in Users(r)
  PROVE  /\ u \in Placed /\ u \in Id /\ Needs(u)[r] \in Nat
         /\ timelines[u].start \in Nat /\ timelines[u].end \in Nat
         /\ timelines[u].start <= timelines[u].end
<1>1. u \in Placed /\ u \in Id /\ r \in DOMAIN Needs(u)
  BY DEF Users, Basis, Timed
<1>2. Node(u).duration \in Nat
  BY <1>1, AfterIsList DEF Basis, Ordered
<1>3. Needs(u)[r] \in Nat
  BY <1>1, NeedsAreNumbers DEF Basis, Ordered
<1>4. timelines[u].start \in Nat /\ timelines[u].end = timelines[u].start + Node(u).duration
  BY <1>1 DEF Basis, Timed
<1>. QED BY <1>1, <1>2, <1>3, <1>4

LEMMA PlacedIsFinite == ASSUME Basis PROVE IsFiniteSet(Placed)
BY IdsAreFinite, FS_Subset DEF Basis, Timed

LEMMA LoadIs ==
  ASSUME Basis, NEW r, NEW t \in Int, NEW S \in SUBSET Placed
  PROVE  /\ IsFiniteSet(S)
         /\ Load(S, r, t) = SumFunctionOnSet([u \in S |-> IF Uses(u, r, t) THEN Needs(u)[r] ELSE 0], S)
         /\ \A u \in S : (IF Uses(u, r, t) THEN Needs(u)[r] ELSE 0) \in Nat
         /\ Load(S, r, t) \in Nat
<1>1. IsFiniteSet(S)
  BY PlacedIsFinite, FS_Subset
<1>2. PICK f : f = [u \in S |-> IF Uses(u, r, t) THEN Needs(u)[r] ELSE 0]
  OBVIOUS
<1>3. \A u \in S : (IF Uses(u, r, t) THEN Needs(u)[r] ELSE 0) \in Nat
  <2> TAKE u \in S
  <2>1. CASE Uses(u, r, t)
    <3>1. u \in Users(r)
      BY <2>1 DEF Uses, Users
    <3>. QED BY <2>1, <3>1, UsesAreNumbers
  <2>. QED BY <2>1
<1>4. DOMAIN f = S
  BY <1>2
<1>5. Load(S, r, t) = SumFunctionOnSet(f, S)
  BY <1>2, <1>4 DEF Load, SumFunction
<1>6. \A u \in S : f[u] \in Nat
  BY <1>2, <1>3
<1>. QED BY <1>1, <1>2, <1>3, <1>5, <1>6, SumIsNat

-------------------------------------------------------------------------------
\* The peak of the changes is the load of some moment.

LEMMA BeginAndEnd ==
  ASSUME Basis, NEW r, NEW u \in Users(r), NEW from \in Nat, NEW to \in Nat
  PROVE  /\ Begin(u, from) = IF timelines[u].start >= from THEN timelines[u].start ELSE from
         /\ End(u, to) = IF timelines[u].end <= to THEN timelines[u].end ELSE to
<1>1. timelines[u].start \in Int /\ timelines[u].end \in Int /\ from \in Int /\ to \in Int
  BY UsesAreNumbers
<1>. QED BY <1>1, OfTwo DEF Begin, End

\* What a use adds to the sum after a change.
Adds(u, c, r, from, to) ==
  (IF NoLater(Begin(u, from), Needs(u)[r], c) THEN Needs(u)[r] ELSE 0)
  - (IF NoLater(End(u, to), - Needs(u)[r], c) THEN Needs(u)[r] ELSE 0)

LEMMA UsageIs ==
  ASSUME Basis, NEW r, NEW from \in Nat, NEW to \in Nat, NEW c
  PROVE  LET W == UsersWithin(r, from, to) IN
         /\ W \subseteq Placed /\ IsFiniteSet(W) /\ W \subseteq Users(r)
         /\ UsageAfter(c, r, from, to) = SumFunctionOnSet([u \in W |-> Adds(u, c, r, from, to)], W)
         /\ \A u \in W : Adds(u, c, r, from, to) \in Int
         /\ UsageAfter(c, r, from, to) \in Int
<1> DEFINE W == UsersWithin(r, from, to)
           f == [u \in W |-> Adds(u, c, r, from, to)]
<1>1. W \subseteq Placed /\ W \subseteq Users(r) /\ IsFiniteSet(W)
  BY PlacedIsFinite, FS_Subset DEF UsersWithin, Users
<1>2. UsageAfter(c, r, from, to) = SumFunctionOnSet(f, W)
  BY DEF UsageAfter, SumFunction, Adds
<1>3. ASSUME NEW u \in W PROVE Adds(u, c, r, from, to) \in Int
  <2>1. Needs(u)[r] \in Nat
    BY <1>1, UsesAreNumbers
  <2>. QED BY <2>1 DEF Adds
<1>4. SumFunctionOnSet(f, W) \in Int
  <2>1. \A u \in W : f[u] \in Int
    BY <1>3
  <2> HIDE DEF f, W
  <2>. QED BY <1>1, <2>1, SumIsInt
<1>. QED BY <1>1, <1>2, <1>3, <1>4

\* At a moment of load there is a change after which as much is in use.
LEMMA LoadIsReached ==
  ASSUME Basis, NEW r, NEW from \in Nat, NEW to \in Nat, NEW t \in from..(to - 1),
         Load(Placed, r, t) > 0
  PROVE  \E c \in Changes(r, from, to) : UsageAfter(c, r, from, to) >= Load(Placed, r, t)
<1> DEFINE W == UsersWithin(r, from, to)
           V == {u \in W : Begin(u, from) <= t}
<1>0. t \in Int /\ t \in Nat /\ t >= from /\ t < to
  OBVIOUS
<1>1. /\ W \subseteq Placed /\ W \subseteq Users(r)
      /\ IsFiniteSet(W) /\ IsFiniteSet(V) /\ IsFiniteSet(Placed)
  <2>1. W \subseteq Placed /\ W \subseteq Users(r) /\ IsFiniteSet(W)
    BY UsageIs
  <2> HIDE DEF W
  <2>. QED BY <2>1, FS_Subset, PlacedIsFinite
<1>2. ASSUME NEW u \in W
      PROVE  /\ Begin(u, from) \in Nat /\ End(u, to) \in Nat /\ Needs(u)[r] \in Nat
             /\ Begin(u, from) <= End(u, to)
             /\ Uses(u, r, t) => Begin(u, from) <= t
             /\ Uses(u, r, t) <=> Begin(u, from) <= t /\ t < End(u, to)
  <2>1. u \in Users(r) /\ timelines[u].end > from /\ timelines[u].start < to /\ r \in DOMAIN Needs(u)
    BY <1>1 DEF UsersWithin, Users
  <2>2. PICK s, e, b, d : s = timelines[u].start /\ e = timelines[u].end /\ b = Begin(u, from) /\ d = End(u, to)
    OBVIOUS
  <2>3. s \in Nat /\ e \in Nat /\ s <= e /\ Needs(u)[r] \in Nat
    BY <2>1, <2>2, UsesAreNumbers
  <2>4. b = (IF s >= from THEN s ELSE from) /\ d = (IF e <= to THEN e ELSE to)
    BY <2>1, <2>2, BeginAndEnd
  <2>5. Uses(u, r, t) <=> s <= t /\ t < e
    BY <2>1, <2>2 DEF Uses
  <2>6. e > from /\ s < to
    BY <2>1, <2>2
  <2>. QED BY <1>0, <2>2, <2>3, <2>4, <2>5, <2>6
<1>3. \A u \in Placed : Uses(u, r, t) => u \in W
  <2> SUFFICES ASSUME NEW u \in Placed, Uses(u, r, t) PROVE u \in W
    OBVIOUS
  <2>1. u \in Users(r)
    BY DEF Uses, Users
  <2>2. timelines[u].start \in Nat /\ timelines[u].end \in Nat
    BY <2>1, UsesAreNumbers
  <2>. QED BY <1>0, <2>1, <2>2 DEF Uses, UsersWithin
<1>4. PICK load : load = [u \in Placed |-> IF Uses(u, r, t) THEN Needs(u)[r] ELSE 0]
  OBVIOUS
<1>5. /\ Load(Placed, r, t) = SumFunctionOnSet(load, Placed) /\ Load(Placed, r, t) \in Nat
      /\ \A u \in Placed : load[u] \in Nat
  BY <1>0, <1>4, LoadIs
<1> HIDE DEF W
<1>6. V # {}
  <2> SUFFICES ASSUME V = {} PROVE FALSE
    OBVIOUS
  <2>1. \A u \in Placed : load[u] = 0
    BY <1>2, <1>3, <1>4
  <2>2. PICK none : none = [u \in {} |-> 0]
    OBVIOUS
  <2>3. SumFunctionOnSet(none, {}) = 0
    BY FS_EmptySet, SumIsInt
  <2>4. SumFunctionOnSet(load, Placed) <= SumFunctionOnSet(none, {})
    BY <1>1, <1>5, <2>1, SumIsNoMore
  <2>. QED BY <1>5, <2>3, <2>4
\* The last of what has begun by t.
<1>7. PICK x \in V : \A u \in V : Begin(u, from) <= Begin(x, from)
  <2>1. PICK f : f = [u \in V |-> Begin(u, from)]
    OBVIOUS
  <2>2. \A u \in V : f[u] \in Int
    BY <1>2, <2>1
  <2>3. \E x \in V : \A u \in V : f[u] <= f[x]
    <3> HIDE DEF V
    <3>. QED BY <1>1, <1>6, <2>2, GreatestOfFinite
  <2> HIDE DEF V
  <2>. QED BY <2>1, <2>3
<1> DEFINE Latter == {u \in V : Begin(u, from) = Begin(x, from)}
<1>8. PICK z \in Latter : \A u \in Latter : Needs(u)[r] <= Needs(z)[r]
  <2>1. PICK f : f = [u \in Latter |-> Needs(u)[r]]
    OBVIOUS
  <2>2. \A u \in Latter : f[u] \in Int
    BY <1>2, <2>1
  <2>3. IsFiniteSet(Latter) /\ Latter # {}
    BY <1>1, <1>7, FS_Subset
  <2>4. \E x1 \in Latter : \A u \in Latter : f[u] <= f[x1]
    <3> HIDE DEF Latter
    <3>. QED BY <2>2, <2>3, GreatestOfFinite
  <2>. QED BY <2>1, <2>4
<1>9. PICK c : c = [t |-> Begin(z, from), delta |-> Needs(z)[r]]
  OBVIOUS
<1>10. c \in Changes(r, from, to)
  BY <1>9 DEF Changes, W
<1>11. ASSUME NEW u \in W
       PROVE  /\ Adds(u, c, r, from, to) >= 0
              /\ Uses(u, r, t) => Adds(u, c, r, from, to) = Needs(u)[r]
  <2>1. PICK b, d, q, bz, qz, a : /\ b = Begin(u, from) /\ d = End(u, to) /\ q = Needs(u)[r]
                                  /\ bz = Begin(z, from) /\ qz = Needs(z)[r]
                                  /\ a = Adds(u, c, r, from, to)
    OBVIOUS
  <2>2. /\ b \in Nat /\ d \in Nat /\ q \in Nat /\ b <= d /\ bz \in Nat /\ qz \in Nat /\ bz <= t
        /\ Uses(u, r, t) <=> b <= t /\ t < d
    BY <1>2, <2>1
  <2>3. b <= t => b <= bz /\ (b = bz => q <= qz)
    BY <1>7, <1>8, <2>1
  <2>4. a =
          (IF b < bz \/ (b = bz /\ q <= qz) THEN q ELSE 0)
          - (IF d < bz \/ (d = bz /\ -q <= qz) THEN q ELSE 0)
    BY <1>9, <2>1 DEF Adds, NoLater
  <2>5. a >= 0 /\ (b <= t /\ t < d => a = q)
    <3>1. CASE b <= t
      <4>1. b < bz \/ (b = bz /\ q <= qz)
        BY <2>2, <2>3, <3>1
      <4>. QED BY <1>0, <2>2, <2>4, <3>1, <4>1
    <3>2. CASE ~(b <= t)
      BY <1>0, <2>2, <2>4, <3>2
    <3>. QED BY <3>1, <3>2
  <2>. QED BY <2>1, <2>2, <2>5
<1>12. PICK adds : adds = [u \in W |-> Adds(u, c, r, from, to)]
  OBVIOUS
<1>13. /\ UsageAfter(c, r, from, to) = SumFunctionOnSet(adds, W)
       /\ UsageAfter(c, r, from, to) \in Int /\ \A u \in W : adds[u] \in Int
  BY <1>12, UsageIs DEF W
<1>14. SumFunctionOnSet(load, Placed) <= SumFunctionOnSet(adds, W)
  <2>1. \A u \in Placed : load[u] \in Int
    BY <1>5
  <2>2. \A u \in Placed \cap W : load[u] <= adds[u]
    BY <1>4, <1>11, <1>12, <1>13
  <2>3. \A u \in Placed \ W : load[u] <= 0
    BY <1>3, <1>4
  <2>4. W \ Placed = {}
    BY <1>1
  <2>. QED BY <1>1, <1>13, <2>1, <2>2, <2>3, <2>4, SumIsNoMore
<1>. QED BY <1>5, <1>10, <1>13, <1>14

\* After a change no more is in use than at some moment.
LEMMA UsageIsLoad ==
  ASSUME Basis, NEW r, NEW from \in Nat, NEW to \in Nat, from <= to,
         NEW c \in Changes(r, from, to), UsageAfter(c, r, from, to) > 0
  PROVE  \E t \in from..(to - 1) : Load(Placed, r, t) >= UsageAfter(c, r, from, to)
<1> DEFINE W == UsersWithin(r, from, to)
<1>1. W \subseteq Placed /\ W \subseteq Users(r) /\ IsFiniteSet(W) /\ IsFiniteSet(Placed)
  BY UsageIs, PlacedIsFinite
<1>2. ASSUME NEW u \in W
      PROVE  /\ Begin(u, from) \in Nat /\ End(u, to) \in Nat /\ Needs(u)[r] \in Nat
             /\ from <= Begin(u, from) /\ Begin(u, from) <= to
             /\ from <= End(u, to) /\ End(u, to) <= to
             /\ from < to => Begin(u, from) < to /\ from < End(u, to)
             /\ \A t \in from..(to - 1) : Uses(u, r, t) <=> Begin(u, from) <= t /\ t < End(u, to)
  <2>1. u \in Users(r) /\ timelines[u].end > from /\ timelines[u].start < to /\ r \in DOMAIN Needs(u)
    BY <1>1 DEF UsersWithin, Users
  <2>2. PICK s, e, b, d : s = timelines[u].start /\ e = timelines[u].end /\ b = Begin(u, from) /\ d = End(u, to)
    OBVIOUS
  <2>3. s \in Nat /\ e \in Nat /\ s <= e /\ Needs(u)[r] \in Nat
    BY <2>1, <2>2, UsesAreNumbers
  <2>4. b = (IF s >= from THEN s ELSE from) /\ d = (IF e <= to THEN e ELSE to)
    BY <2>1, <2>2, BeginAndEnd
  <2>5. \A t \in from..(to - 1) : Uses(u, r, t) <=> s <= t /\ t < e
    BY <2>1, <2>2 DEF Uses
  <2>6. e > from /\ s < to
    BY <2>1, <2>2
  <2>7. \A t \in from..(to - 1) : (s <= t /\ t < e) <=> (b <= t /\ t < d)
    BY <2>3, <2>4
  <2>. QED BY <2>2, <2>3, <2>4, <2>5, <2>6, <2>7
<1>3. PICK adds : adds = [u \in W |-> Adds(u, c, r, from, to)]
  OBVIOUS
<1>4. /\ UsageAfter(c, r, from, to) = SumFunctionOnSet(adds, W)
      /\ UsageAfter(c, r, from, to) \in Int /\ \A u \in W : adds[u] \in Int
  BY <1>3, UsageIs DEF W
<1>5. PICK z \in W : \/ c = [t |-> Begin(z, from), delta |-> Needs(z)[r]]
                     \/ c = [t |-> End(z, to), delta |-> - Needs(z)[r]]
  BY DEF Changes
<1> HIDE DEF W
<1>6. c.t \in Nat /\ c.delta \in Int /\ from <= c.t /\ c.t <= to
  BY <1>2, <1>5
<1>7. ASSUME NEW u \in W
      PROVE  /\ adds[u] = (IF NoLater(Begin(u, from), Needs(u)[r], c) THEN Needs(u)[r] ELSE 0)
                          - (IF NoLater(End(u, to), - Needs(u)[r], c) THEN Needs(u)[r] ELSE 0)
             /\ NoLater(Begin(u, from), Needs(u)[r], c) <=>
                  Begin(u, from) < c.t \/ (Begin(u, from) = c.t /\ Needs(u)[r] <= c.delta)
             /\ NoLater(End(u, to), - Needs(u)[r], c) <=>
                  End(u, to) < c.t \/ (End(u, to) = c.t /\ - Needs(u)[r] <= c.delta)
  BY <1>3 DEF Adds, NoLater
<1>8. from < to
  <2> SUFFICES ASSUME from = to PROVE FALSE
    OBVIOUS
  <2>1. ASSUME NEW u \in W PROVE adds[u] <= 0
    <3>1. PICK q : q = Needs(u)[r] /\ q \in Nat
      BY <1>2
    <3>2. Begin(u, from) = c.t /\ End(u, to) = c.t
      BY <1>2, <1>6
    <3>3. adds[u] = (IF q <= c.delta THEN q ELSE 0) - (IF - q <= c.delta THEN q ELSE 0)
      BY <1>6, <1>7, <3>1, <3>2
    <3>. QED BY <1>6, <3>1, <3>3
  <2>2. PICK none : none = [u \in {} |-> 0]
    OBVIOUS
  <2>3. SumFunctionOnSet(none, {}) = 0
    BY FS_EmptySet, SumIsInt
  <2>4. SumFunctionOnSet(adds, W) <= SumFunctionOnSet(none, {})
    BY <1>1, <1>4, <2>1, SumIsNoMore
  <2>. QED BY <1>4, <2>3, <2>4
\* The moment: that of the change, or just before what ends.
<1>9. PICK t \in from..(to - 1) :
        \A u \in W : adds[u] > 0 => Begin(u, from) <= t /\ t < End(u, to)
  <2>1. CASE c = [t |-> Begin(z, from), delta |-> Needs(z)[r]]
    <3>1. c.t \in from..(to - 1) /\ c.delta \in Nat
      BY <1>2, <1>6, <1>8, <2>1
    <3>2. ASSUME NEW u \in W, adds[u] > 0 PROVE Begin(u, from) <= c.t /\ c.t < End(u, to)
      <4>1. PICK q, b, d : q = Needs(u)[r] /\ b = Begin(u, from) /\ d = End(u, to)
        OBVIOUS
      <4>2. q \in Nat /\ b \in Nat /\ d \in Nat
        BY <1>2, <4>1
      <4>3. (IF b < c.t \/ (b = c.t /\ q <= c.delta) THEN q ELSE 0)
            - (IF d < c.t \/ (d = c.t /\ - q <= c.delta) THEN q ELSE 0) > 0
        BY <1>7, <3>2, <4>1
      <4>4. b <= c.t /\ c.t < d
        BY <1>6, <3>1, <4>2, <4>3
      <4>. QED BY <4>1, <4>4
    <3>. QED BY <3>1, <3>2
  <2>2. CASE c = [t |-> End(z, to), delta |-> - Needs(z)[r]]
    <3>1. c.t - 1 \in from..(to - 1) /\ c.delta \in Int /\ c.delta <= 0
      BY <1>2, <1>6, <1>8, <2>2
    <3>2. ASSUME NEW u \in W, adds[u] > 0 PROVE Begin(u, from) <= c.t - 1 /\ c.t - 1 < End(u, to)
      <4>1. PICK q, b, d : q = Needs(u)[r] /\ b = Begin(u, from) /\ d = End(u, to)
        OBVIOUS
      <4>2. q \in Nat /\ b \in Nat /\ d \in Nat
        BY <1>2, <4>1
      <4>3. (IF b < c.t \/ (b = c.t /\ q <= c.delta) THEN q ELSE 0)
            - (IF d < c.t \/ (d = c.t /\ - q <= c.delta) THEN q ELSE 0) > 0
        BY <1>7, <3>2, <4>1
      <4>4. b <= c.t - 1 /\ c.t - 1 < d
        BY <1>6, <3>1, <4>2, <4>3
      <4>. QED BY <4>1, <4>4
    <3>. QED BY <3>1, <3>2
  <2>. QED BY <1>5, <2>1, <2>2
<1>10. t \in Int
  OBVIOUS
<1>11. PICK load : load = [u \in Placed |-> IF Uses(u, r, t) THEN Needs(u)[r] ELSE 0]
  OBVIOUS
<1>12. /\ Load(Placed, r, t) = SumFunctionOnSet(load, Placed) /\ Load(Placed, r, t) \in Nat
       /\ \A u \in Placed : load[u] \in Nat
  BY <1>10, <1>11, LoadIs
<1>13. ASSUME NEW u \in W PROVE adds[u] <= load[u]
  <2>1. u \in Placed /\ adds[u] \in Int /\ load[u] \in Nat
    BY <1>1, <1>4, <1>12
  <2>2. CASE adds[u] > 0
    <3>1. Uses(u, r, t)
      BY <1>2, <1>9, <2>2
    <3>2. load[u] = Needs(u)[r]
      BY <1>11, <2>1, <3>1
    <3>3. adds[u] <= Needs(u)[r]
      BY <1>2, <1>7
    <3>. QED BY <3>2, <3>3
  <2>3. CASE ~(adds[u] > 0)
    BY <2>1, <2>3
  <2>. QED BY <2>2, <2>3
<1>14. SumFunctionOnSet(adds, W) <= SumFunctionOnSet(load, Placed)
  <2>1. \A u \in Placed : load[u] \in Int /\ load[u] >= 0
    BY <1>12
  <2>2. W \ Placed = {}
    BY <1>1
  <2>3. \A u \in W \cap Placed : adds[u] <= load[u]
    BY <1>13
  <2>. QED BY <1>1, <1>4, <2>1, <2>2, <2>3, SumIsNoMore
<1>. QED BY <1>4, <1>12, <1>14

LEMMA PeakIs ==
  ASSUME Basis, NEW r, NEW from \in Nat, NEW to \in Nat, from <= to
  PROVE  /\ PeakUsage(r, from, to) \in Nat
         /\ \A x \in Nat : x > 0 =>
              (PeakUsage(r, from, to) >= x <=> \E t \in from..(to - 1) : Load(Placed, r, t) >= x)
<1> DEFINE S == {UsageAfter(c, r, from, to) : c \in Changes(r, from, to)}
           P == PeakUsage(r, from, to)
<1>1. \A c : UsageAfter(c, r, from, to) \in Int
  BY UsageIs
<1>2. IsFiniteSet({0} \cup S)
  <2>1. IsFiniteSet(UsersWithin(r, from, to))
    BY UsageIs
  <2>2. IsFiniteSet({[t |-> Begin(u, from), delta |-> Needs(u)[r]] : u \in UsersWithin(r, from, to)})
    <3>1. PICK f : f = [u \in UsersWithin(r, from, to) |-> [t |-> Begin(u, from), delta |-> Needs(u)[r]]]
      OBVIOUS
    <3>2. IsFiniteSet({f[u] : u \in UsersWithin(r, from, to)})
      BY <2>1, ImageIsFinite
    <3>. QED BY <3>1, <3>2
  <2>3. IsFiniteSet({[t |-> End(u, to), delta |-> - Needs(u)[r]] : u \in UsersWithin(r, from, to)})
    <3>1. PICK f : f = [u \in UsersWithin(r, from, to) |-> [t |-> End(u, to), delta |-> - Needs(u)[r]]]
      OBVIOUS
    <3>2. IsFiniteSet({f[u] : u \in UsersWithin(r, from, to)})
      BY <2>1, ImageIsFinite
    <3>. QED BY <3>1, <3>2
  <2>4. IsFiniteSet(Changes(r, from, to))
    BY <2>2, <2>3, FS_Union DEF Changes
  <2>5. IsFiniteSet(S)
    <3>1. PICK f : f = [c \in Changes(r, from, to) |-> UsageAfter(c, r, from, to)]
      OBVIOUS
    <3>2. IsFiniteSet({f[c] : c \in Changes(r, from, to)})
      BY <2>4, ImageIsFinite
    <3>3. {f[c] : c \in Changes(r, from, to)} = S
      BY <3>1
    <3>. QED BY <3>2, <3>3
  <2> HIDE DEF S
  <2>. QED BY <2>5, FS_Union, FS_Singleton
<1>3. {0} \cup S \in SUBSET Int
  BY <1>1
<1>4. P = Max({0} \cup S)
  BY DEF PeakUsage
<1>5. P \in {0} \cup S /\ \A y \in {0} \cup S : y <= P
  <2> HIDE DEF S, P
  <2>. QED BY <1>2, <1>3, <1>4, MaxOfFinite
<1>6. P \in Nat
  BY <1>3, <1>5
<1>7. ASSUME NEW x \in Nat, x > 0, P >= x PROVE \E t \in from..(to - 1) : Load(Placed, r, t) >= x
  <2>1. PICK c \in Changes(r, from, to) : P = UsageAfter(c, r, from, to)
    BY <1>5, <1>7
  <2>2. PICK t \in from..(to - 1) : Load(Placed, r, t) >= UsageAfter(c, r, from, to)
    BY <1>6, <1>7, <2>1, UsageIsLoad
  <2>3. Load(Placed, r, t) \in Nat
    <3>1. t \in Int /\ Placed \in SUBSET Placed
      OBVIOUS
    <3>. QED BY <3>1, LoadIs
  <2>. QED BY <1>6, <1>7, <2>1, <2>2, <2>3
<1>8. ASSUME NEW x \in Nat, x > 0, NEW t \in from..(to - 1), Load(Placed, r, t) >= x PROVE P >= x
  <2>1. Load(Placed, r, t) \in Nat
    <3>1. t \in Int /\ Placed \in SUBSET Placed
      OBVIOUS
    <3>. QED BY <3>1, LoadIs
  <2>2. PICK c \in Changes(r, from, to) : UsageAfter(c, r, from, to) >= Load(Placed, r, t)
    BY <1>8, <2>1, LoadIsReached
  <2>3. UsageAfter(c, r, from, to) \in Int /\ UsageAfter(c, r, from, to) <= P
    BY <1>1, <1>5
  <2>. QED BY <1>6, <1>8, <2>1, <2>2, <2>3
<1>. QED BY <1>6, <1>7, <1>8

-------------------------------------------------------------------------------
\* Where a step fits, and the search for it.

LEMMA DurationIs == ASSUME Basis, NEW s \in Id PROVE Node(s).duration \in Nat
BY AfterIsList DEF Basis, Ordered

LEMMA CappedIs ==
  ASSUME Basis, NEW s \in Id, NEW r \in Capped(s)
  PROVE  Needs(s)[r] \in Nat /\ capacity[r] \in Nat
BY NeedsAreNumbers DEF Capped, Basis, Ordered, Demands

\* The moments of a step of s that starts at `start`.
Moments(s, start) == start..(start + Node(s).duration - 1)

LEMMA MomentsAre ==
  ASSUME Basis, NEW s \in Id, NEW start \in Nat
  PROVE  /\ Moments(s, start) = start..((start + Node(s).duration) - 1)
         /\ \A t \in Moments(s, start) : t \in Nat /\ start <= t /\ t < start + Node(s).duration
<1>1. PICK dur : dur = Node(s).duration
  OBVIOUS
<1>2. dur \in Nat
  BY <1>1, DurationIs
<1>3. start + (dur - 1) = (start + dur) - 1
  BY <1>2
<1>4. Moments(s, start) = start..((start + dur) - 1)
  BY <1>1, <1>3 DEF Moments
<1>5. \A t \in start..((start + dur) - 1) : t \in Nat /\ start <= t /\ t < start + dur
  BY <1>2
<1>. QED BY <1>1, <1>4, <1>5

LEMMA LoadsAreNumbers ==
  ASSUME Basis, NEW r PROVE \A t \in Nat : Load(Placed, r, t) \in Nat
<1> TAKE t \in Nat
<1>1. t \in Int /\ Placed \in SUBSET Placed
  OBVIOUS
<1>. QED BY <1>1, LoadIs

LEMMA OverloadIs ==
  ASSUME Basis, NEW s \in Id, NEW start \in Nat, NEW r \in Capped(s)
  PROVE  r \in Overloaded(s, start) <=>
           \/ Needs(s)[r] > capacity[r]
           \/ \E t \in Moments(s, start) : Load(Placed, r, t) + Needs(s)[r] > capacity[r]
<1>1. PICK q, cap, to, p : /\ q = Needs(s)[r] /\ cap = capacity[r] /\ to = start + Node(s).duration
                           /\ p = PeakUsage(r, start, to)
  OBVIOUS
<1>2. q \in Nat /\ cap \in Nat /\ to \in Nat /\ start <= to
  BY <1>1, CappedIs, DurationIs
<1>3. /\ p \in Nat
      /\ \A x \in Nat : x > 0 => (p >= x <=> \E t \in start..(to - 1) : Load(Placed, r, t) >= x)
  BY <1>1, <1>2, PeakIs
<1>4. r \in Overloaded(s, start) <=> p + q > cap
  BY <1>1 DEF Overloaded
<1>5. \A t \in start..(to - 1) : Load(Placed, r, t) \in Nat
  BY <1>2, LoadsAreNumbers
<1>6. Moments(s, start) = start..(to - 1)
  BY <1>1, MomentsAre
<1>7. p + q > cap <=> q > cap \/ \E t \in start..(to - 1) : Load(Placed, r, t) + q > cap
  <2>1. CASE q > cap
    BY <1>2, <1>3, <2>1
  <2>2. CASE ~(q > cap)
    <3>1. PICK x \in Nat : x = cap - q + 1 /\ x > 0
      BY <1>2, <2>2
    <3>2. p + q > cap <=> p >= x
      BY <1>2, <1>3, <3>1
    <3>3. \A t \in start..(to - 1) : Load(Placed, r, t) + q > cap <=> Load(Placed, r, t) >= x
      BY <1>2, <1>5, <3>1
    <3>4. p >= x <=> \E t \in start..(to - 1) : Load(Placed, r, t) >= x
      BY <1>3, <3>1
    <3>. QED BY <2>2, <3>2, <3>3, <3>4
  <2>. QED BY <2>1, <2>2
<1>. QED BY <1>1, <1>4, <1>6, <1>7

LEMMA FitsIs ==
  ASSUME Basis, NEW s \in Id, NEW start \in Nat
  PROVE  Fits(Placed, s, start) <=> Overloaded(s, start) = {}
<1>1. Overloaded(s, start) \subseteq Capped(s)
  BY DEF Overloaded
<1>2. ASSUME NEW r \in Capped(s)
      PROVE  (/\ Needs(s)[r] <= capacity[r]
              /\ \A t \in Moments(s, start) : Load(Placed, r, t) + Needs(s)[r] <= capacity[r])
             <=> r \notin Overloaded(s, start)
  <2>1. PICK q, cap : q = Needs(s)[r] /\ cap = capacity[r]
    OBVIOUS
  <2>2. q \in Nat /\ cap \in Nat
    BY <2>1, CappedIs
  <2>3. \A t \in Moments(s, start) : Load(Placed, r, t) \in Nat
    BY MomentsAre, LoadsAreNumbers
  <2>4. r \in Overloaded(s, start) <=>
          q > cap \/ \E t \in Moments(s, start) : Load(Placed, r, t) + q > cap
    BY <2>1, OverloadIs
  <2>5. q > cap <=> ~(q <= cap)
    BY <2>2
  <2>6. \A t \in Moments(s, start) : Load(Placed, r, t) + q > cap <=> ~(Load(Placed, r, t) + q <= cap)
    BY <2>2, <2>3
  <2>7. r \notin Overloaded(s, start) <=>
          q <= cap /\ \A t \in Moments(s, start) : Load(Placed, r, t) + q <= cap
    BY <2>4, <2>5, <2>6
  <2>. QED BY <2>1, <2>7
<1>. QED BY <1>1, <1>2 DEF Fits, Moments

NextAfter(s, start, r) ==
  LET n == Min({start + Node(s).duration} \cup {e \in {timelines[u].end : u \in Users(r)} : e > start})
  IN  IF n <= start THEN start + Parts ELSE n

\* The next attempt is as much later as the step is long, or where a step ends.
NextIsNear(s, start, next) ==
  next = start + Node(s).duration \/ \E u \in Placed : next = timelines[u].end

\* Until the first use of an overloaded resource ends, the step does not fit.
LEMMA NextSkips ==
  ASSUME Basis, NEW s \in Id, NEW start \in Nat, NEW r \in Overloaded(s, start),
         Needs(s)[r] <= capacity[r]
  PROVE  /\ NextAfter(s, start, r) \in Nat /\ NextAfter(s, start, r) > start
         /\ NextIsNear(s, start, NextAfter(s, start, r))
         /\ \A t \in start..(NextAfter(s, start, r) - 1) : ~Fits(Placed, s, t)
<1>1. r \in Capped(s)
  BY DEF Overloaded
<1>2. PICK q, cap, dur : q = Needs(s)[r] /\ cap = capacity[r] /\ dur = Node(s).duration
  OBVIOUS
<1>3. q \in Nat /\ cap \in Nat /\ dur \in Nat /\ q <= cap
  BY <1>1, <1>2, CappedIs, DurationIs
<1>4. \A t \in Nat : Load(Placed, r, t) \in Nat
  <2> TAKE t \in Nat
  <2>1. t \in Int /\ Placed \in SUBSET Placed
    OBVIOUS
  <2>. QED BY <2>1, LoadIs
<1>5. PICK m \in Moments(s, start) : Load(Placed, r, m) + q > cap
  <2>1. ~(q > cap)
    BY <1>3
  <2>2. q > cap \/ \E t \in Moments(s, start) : Load(Placed, r, t) + q > cap
    BY <1>1, <1>2, OverloadIs
  <2>. QED BY <2>1, <2>2
<1>6. m \in Nat /\ m >= start /\ m < start + dur /\ dur > 0
  <2>1. m \in Nat /\ start <= m /\ m < start + dur
    BY <1>2, <1>5, MomentsAre
  <2>. QED BY <1>3, <2>1
<1> DEFINE S == {start + dur} \cup {e \in {timelines[u].end : u \in Users(r)} : e > start}
<1>7. S \in SUBSET Nat /\ S # {}
  BY <1>3, UsesAreNumbers
<1>8. PICK n : n = Min(S)
  OBVIOUS
<1>9. n \in S /\ \A e \in S : n <= e
  <2> HIDE DEF S
  <2>. QED BY <1>7, <1>8, MinOfNumbers
<1>10. n \in Nat /\ n > start /\ n <= start + dur
  BY <1>3, <1>6, <1>7, <1>9
<1>11. NextAfter(s, start, r) = n
  BY <1>2, <1>8, <1>10 DEF NextAfter
<1>12. ASSUME NEW t \in start..(n - 1) PROVE ~Fits(Placed, s, t)
  <2>0. t \in Nat /\ t >= start /\ t < n
    BY <1>10
  <2>1. CASE t <= m
    <3>1. m \in t..(t + dur - 1)
      BY <1>3, <1>6, <2>0, <2>1
    <3>2. ~(Load(Placed, r, m) + q <= cap)
      BY <1>3, <1>4, <1>5, <1>6
    <3>. QED BY <1>1, <1>2, <3>1, <3>2 DEF Fits
  <2>2. CASE ~(t <= m)
    <3>1. t \in t..(t + dur - 1)
      BY <1>3, <1>6, <2>0
    <3>2. ASSUME NEW u \in Placed, Uses(u, r, m) PROVE Uses(u, r, t)
      <4>1. u \in Users(r) /\ timelines[u].start <= m /\ m < timelines[u].end
        BY <3>2 DEF Uses, Users
      <4>2. timelines[u].start \in Nat /\ timelines[u].end \in Nat
        BY <4>1, UsesAreNumbers
      <4>3. timelines[u].end \in S
        BY <1>6, <4>1, <4>2
      <4>4. n <= timelines[u].end
        BY <1>9, <4>3
      <4>. QED BY <1>6, <1>10, <2>0, <2>2, <3>2, <4>1, <4>2, <4>4 DEF Uses
    <3>3. PICK f, g : /\ f = [u \in Placed |-> IF Uses(u, r, m) THEN Needs(u)[r] ELSE 0]
                      /\ g = [u \in Placed |-> IF Uses(u, r, t) THEN Needs(u)[r] ELSE 0]
      OBVIOUS
    <3>4. /\ IsFiniteSet(Placed)
          /\ Load(Placed, r, m) = SumFunctionOnSet(f, Placed) /\ \A u \in Placed : f[u] \in Nat
          /\ Load(Placed, r, t) = SumFunctionOnSet(g, Placed) /\ \A u \in Placed : g[u] \in Nat
      <4>1. m \in Int /\ t \in Int /\ Placed \in SUBSET Placed
        BY <1>6, <2>0
      <4>. QED BY <3>3, <4>1, LoadIs
    <3>5. SumFunctionOnSet(f, Placed) <= SumFunctionOnSet(g, Placed)
      <4>1. \A u \in Placed : f[u] \in Int /\ g[u] \in Int /\ f[u] <= g[u]
        BY <3>2, <3>3, <3>4
      <4>. QED BY <3>4, <4>1, SumIsNoMore
    <3>6. ~(Load(Placed, r, t) + q <= cap)
      BY <1>3, <1>4, <1>5, <1>6, <2>0, <3>4, <3>5
    <3>. QED BY <1>1, <1>2, <3>1, <3>6 DEF Fits
  <2>. QED BY <2>1, <2>2
<1>13. NextIsNear(s, start, n)
  <2>1. n = start + dur \/ \E u \in Users(r) : n = timelines[u].end
    BY <1>9
  <2>. QED BY <1>2, <2>1 DEF NextIsNear, Users
<1>. QED BY <1>10, <1>11, <1>12, <1>13

LEMMA RetrySkips ==
  ASSUME Basis, NEW s \in Id, NEW start \in Nat, Infeasible(s) = {}, Overloaded(s, start) # {}
  PROVE  /\ Retry(s, start) \in Nat /\ Retry(s, start) > start
         /\ NextIsNear(s, start, Retry(s, start))
         /\ \A t \in start..(Retry(s, start) - 1) : ~Fits(Placed, s, t)
<1>1. \A r \in Overloaded(s, start) : r \in Capped(s) /\ Needs(s)[r] <= capacity[r]
  <2> TAKE r \in Overloaded(s, start)
  <2>1. r \in Capped(s)
    BY DEF Overloaded
  <2>. QED BY <2>1, CappedIs DEF Infeasible
<1>2. \A r \in Overloaded(s, start) :
        /\ NextAfter(s, start, r) \in Nat /\ NextAfter(s, start, r) > start
        /\ NextIsNear(s, start, NextAfter(s, start, r))
        /\ \A t \in start..(NextAfter(s, start, r) - 1) : ~Fits(Placed, s, t)
  BY <1>1, NextSkips
<1> DEFINE S == {start} \cup {NextAfter(s, start, r) : r \in Overloaded(s, start)}
<1>3. Retry(s, start) = Max(S)
  BY DEF Retry, NextAfter
<1>4. S \in SUBSET Int /\ S # {}
  BY <1>2
<1>5. IsFiniteSet(S)
  <2>1. IsFiniteSet(Overloaded(s, start))
    <3>1. IsFiniteSet(DOMAIN Needs(s))
      BY NeedsAreNumbers DEF Basis, Ordered
    <3>. QED BY <3>1, FS_Subset DEF Overloaded, Capped
  <2>2. PICK f : f = [r \in Overloaded(s, start) |-> NextAfter(s, start, r)]
    OBVIOUS
  <2>3. IsFiniteSet({f[r] : r \in Overloaded(s, start)})
    BY <2>1, ImageIsFinite
  <2>4. {f[r] : r \in Overloaded(s, start)} = {NextAfter(s, start, r) : r \in Overloaded(s, start)}
    BY <2>2
  <2>. QED BY <2>3, <2>4, FS_Union, FS_Singleton
<1>6. Max(S) \in S /\ \A y \in S : y <= Max(S)
  <2> HIDE DEF S
  <2>. QED BY <1>4, <1>5, MaxOfFinite
<1>7. PICK r \in Overloaded(s, start) : Max(S) = NextAfter(s, start, r)
  <2>1. PICK r0 \in Overloaded(s, start) : TRUE
    OBVIOUS
  <2>2. NextAfter(s, start, r0) \in S
    BY <2>1
  <2>3. Max(S) # start
    BY <1>2, <1>6, <2>2
  <2>. QED BY <1>6, <2>3
<1>. QED BY <1>2, <1>3, <1>7

TriesUpTo(s, earliest, n, f) ==
  f = [k \in 1..n |->
         IF k = 1 THEN earliest
         ELSE LET start == f[k - 1]
              IN  IF Overloaded(s, start) = {} THEN start ELSE Retry(s, start)]

LEMMA SomeTries ==
  ASSUME NEW s, NEW earliest, NEW n \in Nat
  PROVE  \E f : TriesUpTo(s, earliest, n, f)
<1> DEFINE T == {m \in Nat : \E f : TriesUpTo(s, earliest, m, f)}
           After1(start) == IF Overloaded(s, start) = {} THEN start ELSE Retry(s, start)
           Step(f, k) == IF k = 1 THEN earliest ELSE After1(f[k - 1])
<1>0. \A f, m : TriesUpTo(s, earliest, m, f) <=> f = [k \in 1..m |-> Step(f, k)]
  BY DEF TriesUpTo
<1> HIDE DEF After1
<1>1. 0 \in T
  <2> DEFINE f == [k \in 1..0 |-> earliest]
  <2>1. f = [k \in 1..0 |-> Step(f, k)]
    OBVIOUS
  <2>. QED BY <1>0, <2>1
<1>2. ASSUME NEW m \in Nat, m \in T PROVE m + 1 \in T
  <2>1. PICK f : f = [k \in 1..m |-> Step(f, k)]
    BY <1>0, <1>2
  <2> DEFINE more == [k \in 1..(m + 1) |-> IF k # m + 1 THEN f[k] ELSE Step(f, m + 1)]
  <2>2. \A k \in 1..m : f[k] = Step(f, k)
    BY <2>1
  <2>3. \A k \in 1..(m + 1) : more[k] = Step(more, k)
    <3> TAKE k \in 1..(m + 1)
    <3>1. CASE k = 1
      <4>1. k # m + 1 => k \in 1..m
        OBVIOUS
      <4>. QED BY <2>2, <3>1, <4>1
    <3>2. CASE k # 1
      <4>1. k - 1 \in 1..(m + 1) /\ k - 1 # m + 1
        BY <3>2
      <4>2. more[k - 1] = f[k - 1]
        BY <4>1
      <4>3. CASE k = m + 1
        BY <3>2, <4>2, <4>3
      <4>4. CASE k # m + 1
        <5>1. k \in 1..m
          BY <4>4
        <5>. QED BY <2>2, <3>2, <4>2, <4>4, <5>1
      <4>. QED BY <4>3, <4>4
    <3>. QED BY <3>1, <3>2
  <2>4. more = [k \in 1..(m + 1) |-> more[k]]
    OBVIOUS
  <2>5. more = [k \in 1..(m + 1) |-> Step(more, k)]
    <3> HIDE DEF more
    <3>. QED BY <2>3, <2>4
  <2>6. TriesUpTo(s, earliest, m + 1, more)
    <3> HIDE DEF more, Step
    <3>. QED BY <1>0, <2>5
  <2>. QED BY <2>6
<1>3. Nat \subseteq T
  <2> HIDE DEF T
  <2>. QED BY <1>1, <1>2, AllNumbers
<1>. QED BY <1>3

LEMMA MoreOf ==
  ASSUME NEW a \in Nat, NEW b \in Nat, NEW d \in Nat, a <= b
  PROVE  a * d \in Nat /\ a * d <= b * d /\ (a + 1) * d = a * d + d
<1>1. PICK m \in Nat : b = a + m
  <2>1. b - a \in Nat /\ b = a + (b - a)
    OBVIOUS
  <2>. QED BY <2>1
<1>2. a * d \in Nat /\ m * d \in Nat /\ b * d = a * d + m * d /\ (a + 1) * d = a * d + d
  BY <1>1
<1>. QED BY <1>2

\* How many steps have ended by a time.
EndedBy(x) == Cardinality({u \in Placed : timelines[u].end <= x})

LEMMA EndedByGrows ==
  ASSUME Basis, NEW x \in Nat, NEW y \in Nat, x < y
  PROVE  /\ EndedBy(x) \in Nat /\ EndedBy(y) \in Nat /\ EndedBy(x) <= EndedBy(y)
         /\ Cardinality(Placed) \in Nat /\ EndedBy(x) <= Cardinality(Placed)
         /\ (\E u \in Placed : y = timelines[u].end) => EndedBy(x) + 1 <= EndedBy(y)
<1>1. PICK X, Y : /\ X = {u \in Placed : timelines[u].end <= x}
                  /\ Y = {u \in Placed : timelines[u].end <= y}
  OBVIOUS
<1>2. \A u \in Placed : timelines[u].end \in Nat
  <2> TAKE u \in Placed
  <2>1. Node(u).duration \in Nat
    BY DurationIs DEF Basis, Timed
  <2>. QED BY <2>1 DEF Basis, Timed
<1>3. IsFiniteSet(Placed) /\ Y \subseteq Placed /\ X \subseteq Y
  BY <1>1, <1>2, PlacedIsFinite
<1>4. IsFiniteSet(Y) /\ IsFiniteSet(X)
  BY <1>3, FS_Subset
<1>5. /\ Cardinality(X) \in Nat /\ Cardinality(Y) \in Nat /\ Cardinality(Placed) \in Nat
      /\ Cardinality(X) <= Cardinality(Y) /\ Cardinality(Y) <= Cardinality(Placed)
  BY <1>3, <1>4, FS_Subset, FS_CardinalityType
<1>6. ASSUME NEW u \in Placed, y = timelines[u].end
      PROVE  Cardinality(X) + 1 <= Cardinality(Y)
  <2>1. u \in Y /\ u \notin X
    BY <1>1, <1>6
  <2>2. Cardinality(X \cup {u}) = Cardinality(X) + 1
    BY <1>4, <2>1, FS_AddElement
  <2>3. X \cup {u} \subseteq Y
    BY <1>3, <2>1
  <2>. QED BY <1>4, <2>2, <2>3, FS_Subset
<1>. QED BY <1>1, <1>5, <1>6 DEF EndedBy

\* Where an attempt is, if the ones before it have failed: as many times as long as the step
\* takes after `earliest` as there were attempts, but for those spent on the end of a step.
Late(s, earliest, x, k) ==
  x + EndedBy(x) * Node(s).duration >= earliest + k * Node(s).duration

LEMMA NextIsLate ==
  ASSUME Basis, NEW s \in Id, NEW earliest \in Nat, NEW k \in Nat, NEW x \in Nat, NEW y \in Nat,
         x < y, NextIsNear(s, x, y), Late(s, earliest, x, k)
  PROVE  Late(s, earliest, y, k + 1)
<1>1. PICK d, a, b : d = Node(s).duration /\ a = EndedBy(x) /\ b = EndedBy(y)
  OBVIOUS
<1>2. d \in Nat /\ a \in Nat /\ b \in Nat /\ a <= b
  BY <1>1, DurationIs, EndedByGrows
<1>3. PICK ad, bd, kd : ad = a * d /\ bd = b * d /\ kd = k * d
  OBVIOUS
<1>4. ad \in Nat /\ bd \in Nat /\ kd \in Nat /\ ad <= bd /\ (k + 1) * d = kd + d
  BY <1>2, <1>3, MoreOf
<1>5. x + ad >= earliest + kd
  BY <1>1, <1>3 DEF Late
<1>6. y + bd >= earliest + kd + d
  <2>1. CASE y = x + d
    BY <1>2, <1>4, <1>5, <2>1
  <2>2. CASE \E u \in Placed : y = timelines[u].end
    <3>1. a + 1 <= b
      BY <1>1, <2>2, EndedByGrows
    <3>2. ad + d <= bd
      <4>1. a + 1 \in Nat
        BY <1>2
      <4>2. (a + 1) * d <= b * d
        BY <1>2, <3>1, <4>1, MoreOf
      <4>3. (a + 1) * d = ad + d
        BY <1>2, <1>3, MoreOf
      <4>. QED BY <1>3, <4>2, <4>3
    <3>. QED BY <1>2, <1>4, <1>5, <3>2
  <2>. QED BY <1>1, <2>1, <2>2 DEF NextIsNear
<1>7. earliest + (kd + d) = earliest + kd + d
  BY <1>2, <1>4
<1>. QED BY <1>1, <1>3, <1>4, <1>6, <1>7 DEF Late

LEMMA LastIsLate ==
  ASSUME Basis, NEW s \in Id, NEW earliest \in Nat, NEW x \in Nat, Late(s, earliest, x, Attempts - 1)
  PROVE  Patience(s) \in Int /\ x >= earliest + Patience(s)
<1>1. PICK d, c, p, k : /\ d = Node(s).duration /\ c = EndedBy(x) /\ p = Cardinality(Placed)
                        /\ k = Attempts - 1
  OBVIOUS
<1>2. d \in Nat /\ c \in Nat /\ p \in Nat /\ c <= p /\ k \in Nat
  <2>1. x + 1 \in Nat /\ x < x + 1
    OBVIOUS
  <2>2. c \in Nat /\ p \in Nat /\ c <= p
    BY <1>1, <2>1, EndedByGrows
  <2>. QED BY <1>1, <2>2, DurationIs, PlanScheduleAssumption
<1>3. PICK cd, pd, kd : cd = c * d /\ pd = p * d /\ kd = k * d
  OBVIOUS
<1>4. cd \in Nat /\ pd \in Nat /\ kd \in Nat /\ cd <= pd
  BY <1>2, <1>3, MoreOf
<1>5. (k - p) * d = kd - pd
  BY <1>2, <1>3
<1>6. x + cd >= earliest + kd
  BY <1>1, <1>3 DEF Late
<1>7. Patience(s) = kd - pd
  BY <1>1, <1>5 DEF Patience
<1>. QED BY <1>4, <1>6, <1>7

\* Before the start that is found, or for as long as the attempts last, the step does not fit.
LEMMA EarliestIs ==
  ASSUME Basis, NEW s \in Id, NEW earliest \in Nat, Infeasible(s) = {}
  PROVE  /\ EarliestStart(s, earliest) \in Nat /\ EarliestStart(s, earliest) >= earliest
         /\ \A t \in earliest..(EarliestStart(s, earliest) - 1) : ~Fits(Placed, s, t)
         /\ Overloaded(s, EarliestStart(s, earliest)) # {} =>
              \A n \in 0..Patience(s) : ~Fits(Placed, s, earliest + n)
<1>1. Attempts \in Nat /\ Attempts >= 1
  BY PlanScheduleAssumption
<1>2. PICK f : TriesUpTo(s, earliest, Attempts, f) /\ EarliestStart(s, earliest) = f[Attempts]
  <2> DEFINE f == CHOOSE f : TriesUpTo(s, earliest, Attempts, f)
  <2>1. TriesUpTo(s, earliest, Attempts, f)
    BY <1>1, SomeTries
  <2>2. EarliestStart(s, earliest) = f[Attempts]
    BY DEF EarliestStart, TriesUpTo
  <2>. QED BY <2>1, <2>2
<1>3. /\ f[1] = earliest
      /\ \A k \in Nat : k >= 1 /\ k + 1 <= Attempts =>
           f[k + 1] = IF Overloaded(s, f[k]) = {} THEN f[k] ELSE Retry(s, f[k])
  <2> DEFINE After1(start) == IF Overloaded(s, start) = {} THEN start ELSE Retry(s, start)
             Step(k) == IF k = 1 THEN earliest ELSE After1(f[k - 1])
  <2>1. f = [k \in 1..Attempts |-> Step(k)]
    BY <1>2 DEF TriesUpTo
  <2> HIDE DEF After1
  <2>2. f[1] = earliest
    BY <1>1, <2>1
  <2>3. ASSUME NEW k \in Nat, k >= 1, k + 1 <= Attempts PROVE f[k + 1] = After1(f[k])
    <3>1. k + 1 \in 1..Attempts /\ k + 1 # 1 /\ (k + 1) - 1 = k
      BY <1>1, <2>3
    <3>. QED BY <2>1, <3>1
  <2>. QED BY <2>2, <2>3 DEF After1
<1> DEFINE Good(x, k) ==
             /\ x \in Nat /\ x >= earliest
             /\ \A t \in earliest..(x - 1) : ~Fits(Placed, s, t)
             /\ Overloaded(s, x) # {} => Late(s, earliest, x, k)
           T == {k \in Nat : k + 1 <= Attempts => Good(f[k + 1], k)}
<1>4. 0 \in T
  <2>1. Late(s, earliest, earliest, 0)
    <3>1. PICK d, c : d = Node(s).duration /\ c = EndedBy(earliest)
      OBVIOUS
    <3>2. d \in Nat /\ c \in Nat
      <4>1. earliest + 1 \in Nat /\ earliest < earliest + 1
        OBVIOUS
      <4>. QED BY <3>1, <4>1, DurationIs, EndedByGrows
    <3>3. c * d \in Nat /\ 0 * d = 0
      BY <3>2
    <3>4. earliest + c * d >= earliest + 0
      BY <3>3
    <3>. QED BY <3>1, <3>3, <3>4 DEF Late
  <2>2. Good(earliest, 0)
    BY <2>1
  <2> HIDE DEF Good
  <2>. QED BY <1>3, <2>2
<1>5. ASSUME NEW k \in Nat, k \in T PROVE k + 1 \in T
  <2> SUFFICES ASSUME k + 2 <= Attempts PROVE Good(f[k + 2], k + 1)
    OBVIOUS
  <2>1. PICK x, y : x = f[k + 1] /\ y = f[k + 2]
    OBVIOUS
  <2>2. Good(x, k)
    <3> HIDE DEF Good
    <3>. QED BY <1>1, <1>5, <2>1
  <2>3. y = IF Overloaded(s, x) = {} THEN x ELSE Retry(s, x)
    <3>1. k + 1 \in Nat /\ k + 1 >= 1 /\ (k + 1) + 1 <= Attempts /\ (k + 1) + 1 = k + 2
      BY <1>1
    <3>. QED BY <1>3, <2>1, <3>1
  <2>4. CASE Overloaded(s, x) = {}
    <3>1. y = x
      BY <2>3, <2>4
    <3>. QED BY <2>1, <2>2, <2>4, <3>1
  <2>5. CASE Overloaded(s, x) # {}
    <3>1. /\ y \in Nat /\ y > x /\ NextIsNear(s, x, y)
          /\ \A t \in x..(y - 1) : ~Fits(Placed, s, t)
      BY <2>2, <2>3, <2>5, RetrySkips
    <3>2. x \in Nat /\ Late(s, earliest, x, k)
      BY <2>2, <2>5
    <3>3. y \in Nat /\ y >= earliest /\ Late(s, earliest, y, k + 1)
      <4>1. x < y /\ y >= earliest
        BY <2>2, <3>1
      <4>. QED BY <3>1, <3>2, <4>1, NextIsLate
    <3>4. \A t \in earliest..(y - 1) : ~Fits(Placed, s, t)
      <4> TAKE t \in earliest..(y - 1)
      <4>1. t \in earliest..(x - 1) \/ t \in x..(y - 1)
        BY <3>1, <3>2
      <4>. QED BY <2>2, <3>1, <4>1
    <3>. QED BY <2>1, <3>3, <3>4
  <2>. QED BY <2>4, <2>5
<1>6. Nat \subseteq T
  <2> HIDE DEF T
  <2>. QED BY <1>4, <1>5, AllNumbers
<1>7. PICK e : e = f[Attempts]
  OBVIOUS
<1>8. Good(e, Attempts - 1)
  <2>1. Attempts - 1 \in Nat /\ (Attempts - 1) + 1 = Attempts
    BY <1>1
  <2>2. Attempts - 1 \in T
    <3> HIDE DEF T
    <3>. QED BY <1>6, <2>1
  <2> HIDE DEF Good
  <2>. QED BY <1>1, <1>7, <2>1, <2>2
<1>9. ASSUME Overloaded(s, e) # {}, NEW n \in 0..Patience(s) PROVE ~Fits(Placed, s, earliest + n)
  <2>1. e \in Nat /\ Patience(s) \in Int /\ e >= earliest + Patience(s)
    BY <1>8, <1>9, LastIsLate
  <2>2. earliest + n \in earliest..(e - 1) \/ earliest + n = e
    BY <2>1
  <2>3. ~Fits(Placed, s, e)
    BY <1>9, <2>1, FitsIs
  <2>. QED BY <1>8, <2>2, <2>3
<1>. QED BY <1>2, <1>7, <1>8, <1>9

-------------------------------------------------------------------------------
\* A schedule, from where its steps start.

\* The first k steps of the order.
FirstSteps(k) == {order[j] : j \in 1..k}

\* The steps of the order are placed one after the other.
InTurn ==
  /\ Ordered
  /\ Cardinality(Placed) \in 0..Len(order)
  /\ Placed = FirstSteps(Cardinality(Placed))

LEMMA StepsOfOrder ==
  ASSUME Ordered
  PROVE  /\ Len(order) \in Nat /\ DOMAIN order = 1..Len(order)
         /\ \A k \in 1..Len(order) : /\ order[k] \in Id /\ order[k] \notin FirstSteps(k - 1)
                                     /\ ToSet(After(order[k])) \subseteq FirstSteps(k - 1)
         /\ Id = FirstSteps(Len(order))
<1>1. Len(order) \in Nat /\ DOMAIN order = 1..Len(order) /\ \A k \in 1..Len(order) : order[k] \in Id
  BY SeqFacts DEF Ordered
<1>2. Id = FirstSteps(Len(order))
  BY <1>1 DEF Ordered, ToSet, FirstSteps
<1>3. ASSUME NEW k \in 1..Len(order) PROVE order[k] \notin FirstSteps(k - 1)
  <2>1. \A j \in 1..(k - 1) : j \in DOMAIN order /\ j # k
    BY <1>1
  <2>. QED BY <1>1, <2>1 DEF Ordered, IsInjective, FirstSteps
<1>4. \A k \in 1..Len(order) : ToSet(After(order[k])) \subseteq FirstSteps(k - 1)
  BY <1>1 DEF Ordered, InOrder, FirstSteps
<1>. QED BY <1>1, <1>2, <1>3, <1>4

LEMMA OneStepMore ==
  ASSUME NEW k \in Nat PROVE FirstSteps(k + 1) = FirstSteps(k) \cup {order[k + 1]} /\ FirstSteps(0) = {}
<1>1. \A j : j \in 1..(k + 1) <=> j \in 1..k \/ j = k + 1
  OBVIOUS
<1>. QED BY <1>1 DEF FirstSteps

LEMMA LoadGrows ==
  ASSUME Basis, NEW r, NEW t \in Int, NEW S \in SUBSET Placed, NEW s \in Placed, s \notin S
  PROVE  /\ Load(S \cup {s}, r, t) = Load(S, r, t) + (IF Uses(s, r, t) THEN Needs(s)[r] ELSE 0)
         /\ Load({}, r, t) = 0
<1>1. PICK f, g, T : /\ T = S \cup {s}
                     /\ f = [u \in S |-> IF Uses(u, r, t) THEN Needs(u)[r] ELSE 0]
                     /\ g = [u \in T |-> IF Uses(u, r, t) THEN Needs(u)[r] ELSE 0]
  OBVIOUS
<1>2. /\ IsFiniteSet(S) /\ Load(S, r, t) = SumFunctionOnSet(f, S) /\ \A u \in S : f[u] \in Nat
  BY <1>1, LoadIs
<1>3. /\ IsFiniteSet(T) /\ Load(T, r, t) = SumFunctionOnSet(g, T) /\ \A u \in T : g[u] \in Nat
  <2>1. T \in SUBSET Placed
    BY <1>1
  <2>. QED BY <1>1, <2>1, LoadIs
<1>4. SumFunctionOnSet(f, S) = SumFunctionOnSet(g, S)
  <2>1. \A u \in S : f[u] \in Int /\ f[u] = g[u]
    BY <1>1, <1>2
  <2>. QED BY <1>2, <2>1, SumsAreSame
<1>5. SumFunctionOnSet(g, T) = g[s] + SumFunctionOnSet(g, T \ {s})
  <2>1. \A u \in T : g[u] \in Int
    BY <1>3
  <2>. QED BY <1>1, <1>3, <2>1, SumIsInt
<1>6. T \ {s} = S
  BY <1>1
<1>7. SumFunctionOnSet(f, S) \in Nat /\ g[s] \in Nat
  BY <1>1, <1>2, <1>3, SumIsNat
<1>8. Load({}, r, t) = 0
  <2>1. PICK h : h = [u \in {} |-> IF Uses(u, r, t) THEN Needs(u)[r] ELSE 0]
    OBVIOUS
  <2>2. {} \in SUBSET Placed
    OBVIOUS
  <2>3. Load({}, r, t) = SumFunctionOnSet(h, {}) /\ IsFiniteSet({})
    BY <2>1, <2>2, LoadIs
  <2>4. \A x \in {} : h[x] \in Int
    OBVIOUS
  <2>. QED BY <2>3, <2>4, SumIsInt
<1>9. g[s] = IF Uses(s, r, t) THEN Needs(s)[r] ELSE 0
  BY <1>1
<1>10. Load(T, r, t) = Load(S, r, t) + g[s]
  <2>1. SumFunctionOnSet(g, T \ {s}) = Load(S, r, t)
    BY <1>2, <1>4, <1>6
  <2>2. Load(T, r, t) = g[s] + Load(S, r, t) /\ Load(S, r, t) \in Nat
    BY <1>2, <1>3, <1>5, <1>7, <2>1
  <2>. QED BY <1>7, <2>2
<1>. QED BY <1>1, <1>8, <1>9, <1>10

\* A step that waits for steps that are placed can start when the last of them ends.
LEMMA ReadyIs ==
  ASSUME Basis, NEW s \in Id, ToSet(After(s)) \subseteq Placed
  PROVE  /\ Ready(s) \in Nat /\ DependenciesEnd(s) = Ready(s)
         /\ \A g : (\A d \in ToSet(After(s)) : g[d] = timelines[d].end) => Ready(s) = Latest(s, g)
<1>1. \A d \in ToSet(After(s)) : timelines[d].end \in Nat
  <2> TAKE d \in ToSet(After(s))
  <2>1. d \in Placed /\ d \in Id
    BY DEF Basis, Timed
  <2>. QED BY <2>1, DurationIs DEF Basis, Timed
<1>2. ASSUME NEW g, \A d \in ToSet(After(s)) : g[d] = timelines[d].end PROVE Ready(s) = Latest(s, g)
  <2>1. {g[d] : d \in ToSet(After(s))} = {timelines[d].end : d \in ToSet(After(s))}
    BY <1>2
  <2>. QED BY <2>1 DEF Ready, Latest
<1>3. Ready(s) \in Nat
  <2>1. PICK g : g = [d \in ToSet(After(s)) |-> timelines[d].end]
    OBVIOUS
  <2>2. \A d \in ToSet(After(s)) : g[d] = timelines[d].end /\ g[d] \in Nat
    BY <1>1, <2>1
  <2>3. Latest(s, g) \in Nat
    BY <2>2, LatestIs DEF Basis, Ordered
  <2>. QED BY <1>2, <2>2, <2>3
<1>. QED BY <1>2, <1>3 DEF DependenciesEnd, Ready

\* No step ends before what its finish is in the graph.
LEMMA EndsAreFinishes ==
  ASSUME Basis, InTurn, StartsAreRight
  PROVE  \A s \in Placed : timelines[s].end >= Finish[s] /\ (~resolve => timelines[s].end = Finish[s])
<1>1. PICK n : n = Cardinality(Placed)
  OBVIOUS
<1>2. n \in Nat /\ n <= Len(order) /\ Placed = FirstSteps(n) /\ Ordered /\ Len(order) \in Nat
  BY <1>1, StepsOfOrder DEF InTurn
<1>3. Finish \in [Id -> Nat] /\ \A s \in Id : Finish[s] = Node(s).duration + Latest(s, Finish)
  BY <1>2, FinishMeasures DEF Measures, Weights
<1> DEFINE Good(s) == timelines[s].end >= Finish[s] /\ (~resolve => timelines[s].end = Finish[s])
           T == {k \in Nat : k <= n => \A s \in FirstSteps(k) : Good(s)}
<1>4. 0 \in T
  BY OneStepMore
<1>5. ASSUME NEW k \in Nat, k \in T PROVE k + 1 \in T
  <2> SUFFICES ASSUME k + 1 <= n PROVE \A s \in FirstSteps(k + 1) : Good(s)
    OBVIOUS
  <2>1. \A s \in FirstSteps(k) : Good(s)
    BY <1>2, <1>5
  <2>2. PICK s : s = order[k + 1]
    OBVIOUS
  <2>3. k + 1 \in 1..n /\ k + 1 \in 1..Len(order) /\ (k + 1) - 1 = k
    BY <1>2
  <2>4. s \in Id /\ ToSet(After(s)) \subseteq FirstSteps(k)
    BY <1>2, <2>2, <2>3, StepsOfOrder
  <2>5. /\ s \in Placed /\ timelines[s].start >= Ready(s)
        /\ ~resolve => timelines[s].start = Ready(s)
    BY <1>1, <2>2, <2>3 DEF StartsAreRight
  <2>6. FirstSteps(k) \subseteq Placed
    <3>1. 1..k \subseteq 1..n
      BY <1>2
    <3>. QED BY <1>2, <3>1 DEF FirstSteps
  <2>7. PICK g : g = [d \in Placed |-> timelines[d].end]
    OBVIOUS
  <2>8. \A d \in ToSet(After(s)) : g[d] = timelines[d].end /\ g[d] \in Nat /\ d \in Placed /\ d \in Id
    <3> TAKE d \in ToSet(After(s))
    <3>1. d \in Placed /\ d \in Id
      BY <2>4, <2>6 DEF Basis, Timed
    <3>. QED BY <2>7, <3>1, DurationIs DEF Basis, Timed
  <2>9. Ready(s) \in Nat /\ Ready(s) = Latest(s, g)
    BY <2>4, <2>8, ReadyIs
  <2>10. /\ Latest(s, g) \in Nat /\ \A d \in ToSet(After(s)) : g[d] <= Latest(s, g)
         /\ After(s) # <<>> => \E d \in ToSet(After(s)) : g[d] = Latest(s, g)
         /\ After(s) = <<>> => Latest(s, g) = 0
    BY <2>4, <2>8, LatestIs DEF Basis, Ordered
  <2>11. /\ Latest(s, Finish) \in Nat /\ \A d \in ToSet(After(s)) : Finish[d] <= Latest(s, Finish)
         /\ After(s) # <<>> => \E d \in ToSet(After(s)) : Finish[d] = Latest(s, Finish)
         /\ After(s) = <<>> => Latest(s, Finish) = 0
    BY <1>2, <1>3, <2>4, LatestInGraph
  <2>12. \A d \in ToSet(After(s)) : g[d] >= Finish[d] /\ (~resolve => g[d] = Finish[d])
    BY <2>1, <2>4, <2>8
  <2>13. PICK a, b : a = Latest(s, g) /\ b = Latest(s, Finish)
    OBVIOUS
  <2>14. a >= b
    <3>1. CASE After(s) = <<>>
      BY <2>10, <2>11, <2>13, <3>1
    <3>2. CASE After(s) # <<>>
      <4>1. PICK d \in ToSet(After(s)) : Finish[d] = b
        BY <2>11, <2>13, <3>2
      <4>2. g[d] >= b /\ g[d] <= a /\ g[d] \in Nat
        BY <2>8, <2>10, <2>12, <2>13, <4>1
      <4>. QED BY <2>10, <2>11, <2>13, <4>2
    <3>. QED BY <3>1, <3>2
  <2>15. ~resolve => a = b
    <3> SUFFICES ASSUME ~resolve PROVE a = b
      OBVIOUS
    <3>1. \A d \in ToSet(After(s)) : g[d] = Finish[d]
      BY <2>12
    <3>. QED BY <2>13, <3>1, LatestOfSame
  <2>16. PICK e, st, dur : e = timelines[s].end /\ st = timelines[s].start /\ dur = Node(s).duration
    OBVIOUS
  <2>17. e = st + dur /\ st \in Nat /\ dur \in Nat
    BY <2>4, <2>5, <2>16, DurationIs DEF Basis, Timed
  <2>18. Finish[s] = dur + b
    BY <1>3, <2>4, <2>13, <2>16
  <2>19. e >= dur + b /\ (~resolve => e = dur + b)
    <3>1. st >= a /\ (~resolve => st = a) /\ a \in Nat /\ b \in Nat
      BY <2>5, <2>9, <2>10, <2>11, <2>13, <2>16
    <3>. QED BY <2>14, <2>15, <2>17, <3>1
  <2>20. Good(s)
    BY <2>16, <2>18, <2>19
  <2> HIDE DEF Good
  <2>. QED BY <2>1, <2>2, <2>20, OneStepMore
<1>6. Nat \subseteq T
  <2> HIDE DEF T
  <2>. QED BY <1>4, <1>5, AllNumbers
<1>7. \A s \in FirstSteps(n) : Good(s)
  <2> HIDE DEF Good
  <2>. QED BY <1>2, <1>6
<1>. QED BY <1>2, <1>7

\* A schedule of all steps is as long as the critical path, or longer.
LEMMA MakespanHolds ==
  ASSUME Basis, InTurn, StartsAreRight, Placed = Id
  PROVE  /\ Makespan >= EstimateCriticalPathDuration
         /\ ~resolve => Makespan = EstimateCriticalPathDuration
<1>1. PICK g, f : g = [s \in Id |-> timelines[s].end] /\ f = Finish
  OBVIOUS
<1>2. \A s \in Id : g[s] = timelines[s].end /\ g[s] \in Nat
  BY <1>1, DurationIs DEF Basis, Timed
<1>3. g \in [Id -> Nat] /\ f \in [Id -> Nat] /\ Ordered
  BY <1>1, <1>2, FinishMeasures DEF Basis
<1>4. \A s \in Id : g[s] >= f[s] /\ (~resolve => g[s] = f[s])
  BY <1>1, <1>2, EndsAreFinishes
<1>5. Makespan = Max({0} \cup {g[s] : s \in Id})
  <2>1. {g[s] : s \in Id} = {timelines[s].end : s \in Placed}
    BY <1>2
  <2>. QED BY <2>1 DEF Makespan
<1>6. EstimateCriticalPathDuration = Max({0} \cup {f[s] : s \in Id})
  BY <1>1 DEF EstimateCriticalPathDuration
<1>7. ~resolve => Makespan = EstimateCriticalPathDuration
  <2> SUFFICES ASSUME ~resolve PROVE Makespan = EstimateCriticalPathDuration
    OBVIOUS
  <2>1. {g[s] : s \in Id} = {f[s] : s \in Id}
    BY <1>4
  <2>. QED BY <1>5, <1>6, <2>1
<1>8. PICK a, b : a = Makespan /\ b = EstimateCriticalPathDuration
  OBVIOUS
<1>9. a >= b
  <2>0. a \in Nat /\ b \in Nat
    BY <1>3, <1>5, <1>6, <1>8, GreatestOfSteps
  <2>1. CASE Id = {}
    <3>1. {g[s] : s \in Id} = {} /\ {f[s] : s \in Id} = {}
      BY <2>1
    <3>2. a = b
      BY <1>5, <1>6, <1>8, <3>1
    <3>. QED BY <2>0, <3>2
  <2>2. CASE Id # {}
    <3>1. PICK x \in Id : a = g[x] /\ \A s \in Id : g[s] <= g[x]
      BY <1>3, <1>5, <1>8, <2>2, GreatestOfSteps
    <3>2. PICK y \in Id : b = f[y]
      BY <1>3, <1>6, <1>8, <2>2, GreatestOfSteps
    <3>3. g[y] <= g[x] /\ g[y] >= f[y] /\ g[y] \in Nat
      BY <1>2, <1>4, <3>1
    <3>. QED BY <2>0, <3>1, <3>2, <3>3
  <2>. QED BY <2>1, <2>2
<1>. QED BY <1>7, <1>8, <1>9

\* Steps that each fit beside the ones before them overbook nothing together.
LEMMA NotOverbooked ==
  ASSUME Basis, InTurn, NEW r \in DOMAIN capacity, NEW t \in Nat,
         \A k \in 1..Cardinality(Placed) : Fits(FirstSteps(k - 1), order[k], timelines[order[k]].start)
  PROVE  Load(Placed, r, t) <= capacity[r]
<1>1. PICK n, cap : n = Cardinality(Placed) /\ cap = capacity[r]
  OBVIOUS
<1>2. n \in Nat /\ n <= Len(order) /\ Placed = FirstSteps(n) /\ Ordered /\ Len(order) \in Nat /\ cap \in Nat
  BY <1>1, StepsOfOrder DEF InTurn, Basis, Demands
<1> DEFINE T == {k \in Nat : k <= n => Load(FirstSteps(k), r, t) <= cap}
<1>3. 0 \in T
  <2>1. {} \in SUBSET Placed /\ t \in Int
    OBVIOUS
  <2>2. PICK h : h = [u \in {} |-> IF Uses(u, r, t) THEN Needs(u)[r] ELSE 0]
    OBVIOUS
  <2>3. Load({}, r, t) = SumFunctionOnSet(h, {}) /\ IsFiniteSet({})
    BY <2>1, <2>2, LoadIs
  <2>4. \A x \in {} : h[x] \in Int
    OBVIOUS
  <2>5. Load({}, r, t) = 0
    BY <2>3, <2>4, SumIsInt
  <2>6. FirstSteps(0) = {}
    BY OneStepMore
  <2>7. Load(FirstSteps(0), r, t) <= cap
    <3>1. Load(FirstSteps(0), r, t) = 0
      BY <2>5, <2>6
    <3>2. 0 <= cap
      BY <1>2
    <3>. QED BY <3>1, <3>2
  <2>. QED BY <2>7
<1>4. ASSUME NEW k \in Nat, k \in T PROVE k + 1 \in T
  <2> SUFFICES ASSUME k + 1 <= n PROVE Load(FirstSteps(k + 1), r, t) <= cap
    OBVIOUS
  <2>1. PICK s, B, st : s = order[k + 1] /\ B = FirstSteps(k) /\ st = timelines[s].start
    OBVIOUS
  <2>2. k + 1 \in 1..n /\ k + 1 \in 1..Len(order) /\ (k + 1) - 1 = k /\ k <= n
    BY <1>2
  <2>3. Load(B, r, t) <= cap
    BY <1>4, <2>1, <2>2
  <2>4. s \in Id /\ s \notin B /\ FirstSteps(k + 1) = B \cup {s}
    BY <1>2, <2>1, <2>2, StepsOfOrder, OneStepMore
  <2>5. B \in SUBSET Placed /\ s \in Placed
    <3>1. 1..k \subseteq 1..n
      BY <1>2
    <3>. QED BY <1>2, <2>1, <2>2, <3>1 DEF FirstSteps
  <2>6. Load(B, r, t) \in Nat /\ Load(B \cup {s}, r, t) = Load(B, r, t) + (IF Uses(s, r, t) THEN Needs(s)[r] ELSE 0)
    <3>1. t \in Int
      OBVIOUS
    <3>2. Load(B, r, t) \in Nat
      BY <2>5, <3>1, LoadIs
    <3>. QED BY <2>4, <2>5, <3>1, <3>2, LoadGrows
  <2>7. CASE ~Uses(s, r, t)
    BY <2>3, <2>4, <2>6, <2>7
  <2>8. CASE Uses(s, r, t)
    <3>1. Fits(B, s, st)
      BY <1>1, <2>1, <2>2
    <3>2. r \in Capped(s) /\ st <= t /\ t < timelines[s].end
      BY <2>1, <2>8 DEF Uses, Capped
    <3>3. st \in Nat /\ timelines[s].end = st + Node(s).duration
      BY <2>1, <2>5 DEF Basis, Timed
    <3>4. t \in Moments(s, st)
      <4>1. PICK e : e = timelines[s].end
        OBVIOUS
      <4>0. PICK dur : dur = Node(s).duration /\ dur \in Nat
        BY <2>4, DurationIs
      <4>2. e \in Nat /\ e = st + dur
        BY <3>3, <4>0, <4>1
      <4>3. Moments(s, st) = st..(e - 1)
        BY <2>4, <3>3, <4>0, <4>2, MomentsAre
      <4>. QED BY <3>2, <3>3, <4>1, <4>2, <4>3
    <3>5. Load(B, r, t) + Needs(s)[r] <= cap
      BY <1>1, <3>1, <3>2, <3>4 DEF Fits, Moments
    <3>. QED BY <2>4, <2>6, <2>8, <3>5
  <2>. QED BY <2>7, <2>8
<1>5. Nat \subseteq T
  <2> HIDE DEF T
  <2>. QED BY <1>3, <1>4, AllNumbers
<1>. QED BY <1>1, <1>2, <1>5

LEMMA NothingOverbooked ==
  ASSUME Basis, InTurn, StartsAreRight PROVE NothingIsOverbooked
<1> SUFFICES ASSUME resolve \/ conflicts = {}, NEW s \in Placed, NEW r \in Capped(s), NEW t \in Within(s)
             PROVE  Load(Placed, r, t) <= capacity[r]
  BY DEF NothingIsOverbooked
<1>1. t \in Nat
  <2>1. timelines[s].start \in Nat
    BY DEF Basis, Timed
  <2>2. PICK a, b : a = timelines[s].start /\ b = timelines[s].end - 1
    OBVIOUS
  <2>3. t \in a..b /\ a \in Nat
    BY <2>1, <2>2 DEF Within
  <2>. QED BY <2>3
<1>2. ASSUME NEW k \in 1..Cardinality(Placed)
      PROVE  Fits(FirstSteps(k - 1), order[k], timelines[order[k]].start)
  BY DEF StartsAreRight, FirstSteps
<1>3. r \in DOMAIN capacity
  BY DEF Capped
<1>. QED BY <1>1, <1>2, <1>3, NotOverbooked

-------------------------------------------------------------------------------
\* What a call that goes on leaves as it was.

LEMMA NeedsStay ==
  ASSUME nodes' = nodes, capacity' = capacity
  PROVE  \A s : /\ Node(s)' = Node(s) /\ After(s)' = After(s)
                /\ Needs(s)' = Needs(s) /\ Capped(s)' = Capped(s)
<1> TAKE s
<1>1. Node(s)' = Node(s) /\ After(s)' = After(s)
  BY NodesStay
<1>2. Needs(s)' = Needs(s)
  BY <1>1 DEF Needs
<1>. QED BY <1>1, <1>2 DEF Capped

LEMMA LoadStays ==
  ASSUME nodes' = nodes, capacity' = capacity, NEW S, \A u \in S : timelines'[u] = timelines[u],
         NEW r, NEW t
  PROVE  Load(S, r, t)' = Load(S, r, t)
<1>1. \A u \in S : (Uses(u, r, t)' <=> Uses(u, r, t)) /\ Needs(u)' = Needs(u)
  BY NeedsStay DEF Uses
<1> DEFINE f == [u \in S |-> IF Uses(u, r, t) THEN Needs(u)[r] ELSE 0]
<1>2. f' = f
  BY <1>1
<1>. QED BY <1>2 DEF Load

LEMMA FitsStay ==
  ASSUME nodes' = nodes, capacity' = capacity, NEW S, \A u \in S : timelines'[u] = timelines[u],
         NEW s, NEW start
  PROVE  Fits(S, s, start)' <=> Fits(S, s, start)
<1>1. \A r, t : Load(S, r, t)' = Load(S, r, t)
  BY LoadStays
<1>2. Needs(s)' = Needs(s) /\ Capped(s)' = Capped(s) /\ Node(s)' = Node(s)
  BY NeedsStay
<1>. QED BY <1>1, <1>2 DEF Fits

LEMMA ReadyStays ==
  ASSUME nodes' = nodes, NEW s, \A d \in ToSet(After(s)) : timelines'[d] = timelines[d]
  PROVE  Ready(s)' = Ready(s)
<1>1. After(s)' = After(s)
  BY NodesStay
<1>2. {timelines'[d].end : d \in ToSet(After(s))} = {timelines[d].end : d \in ToSet(After(s))}
  OBVIOUS
<1>. QED BY <1>1, <1>2 DEF Ready

-------------------------------------------------------------------------------
\* The schedule as schedulePlan keeps it.

Schedule ==
  /\ Demands /\ Timed
  /\ phase # "ordered" => Placed = {} /\ outcome # "scheduled"
  /\ phase = "ordered" => InTurn
  /\ \A c \in conflicts : c.stepId \in Placed
  /\ StartsAreRight /\ RefusalIsDue
  /\ outcome = "scheduled" => Placed = Id

ScheduleInv == GraphInv /\ Schedule

LEMMA OrderedNow == ASSUME GraphInv, phase = "ordered" PROVE Ordered
<1>1. VerdictIsRight /\ SortIsRight
  BY GraphIsSorted
<1>2. SortInv /\ Lists /\ ValidIds /\ Len(order) = Len(nodes)
  BY DEF GraphInv
<1>3. ToSet(order) = Id
  BY <1>1 DEF SortIsRight
<1>. QED BY <1>2, <1>3 DEF Ordered, SortInv

\* Before any step is placed nothing is said of the steps.
LEMMA NothingPlaced == ASSUME Placed = {} PROVE Timed /\ StartsAreRight
<1>1. Cardinality(Placed) = 0 /\ 1..0 = {}
  BY FS_EmptySet
<1>. QED BY <1>1 DEF Timed, StartsAreRight

LEMMA ScheduleBegins == ScheduleInit => ScheduleInv
<1> SUFFICES ASSUME ScheduleInit PROVE Schedule
  BY GraphBegins DEF ScheduleInv
<1>1. PICK call \in Calls :
        /\ GraphInit({call.steps})
        /\ capacity = [r \in DOMAIN call.capacities |->
                         IF call.capacities[r].mode = "exclusive" THEN Parts
                         ELSE call.capacities[r].capacity]
        /\ timelines = [s \in {} |-> 0] /\ conflicts = {} /\ outcome = "none"
  BY DEF ScheduleInit
<1>2. nodes = call.steps /\ phase = "ids"
  BY <1>1 DEF GraphInit
<1>3. Demands
  <2>1. \A i \in DOMAIN nodes :
          /\ nodes[i].quantities \in Seq([resourceId : {q.resourceId : q \in ToSet(nodes[i].quantities)},
                                          quantity : Nat])
          /\ nodes[i].requirements \in Seq(ToSet(nodes[i].requirements))
    BY <1>2, PlanScheduleAssumption
  <2>2. \A r \in DOMAIN capacity : capacity[r] \in Nat
    BY <1>1, PlanScheduleAssumption
  <2>. QED BY <2>1, <2>2 DEF Demands
<1>4. Placed = {}
  BY <1>1 DEF Placed
<1>. QED BY <1>1, <1>2, <1>3, <1>4, NothingPlaced DEF Schedule, RefusalIsDue

\* While the graph is validated and sorted nothing is placed.
LEMMA PrepareKeepsSchedule == ASSUME ScheduleInv, Prepare PROVE Schedule'
<1>1. /\ GraphNext /\ outcome = "none" /\ capacity' = capacity /\ timelines' = timelines
      /\ conflicts' = conflicts
      /\ outcome' = IF phase' = "invalid" THEN "error" ELSE "none"
  BY DEF Prepare
<1>2. phase # "ordered" /\ nodes' = nodes
  BY <1>1 DEF GraphNext, CheckIds, NextRoot, LeaveNode, SkipNode, EnterNode, StartOrder,
              TakeFromQueue, FinishOrder
<1>3. Placed = {} /\ Placed' = {}
  BY <1>1, <1>2 DEF ScheduleInv, Schedule, Placed
<1>4. Demands' /\ \A c \in conflicts' : c.stepId \in Placed'
  BY <1>1, <1>2, <1>3 DEF ScheduleInv, Schedule, Demands
<1>5. Cardinality(Placed)' = 0 /\ 1..0 = {}
  BY <1>3, FS_EmptySet
<1>6. Timed' /\ StartsAreRight'
  BY <1>3, <1>5 DEF Timed, StartsAreRight
<1>7. RefusalIsDue'
  BY <1>1 DEF RefusalIsDue
<1>8. phase' = "ordered" => InTurn'
  <2> SUFFICES ASSUME phase' = "ordered" PROVE InTurn'
    OBVIOUS
  <2>1. GraphInv'
    BY <1>1, GraphKeeps DEF ScheduleInv
  <2>2. Ordered'
    <3>1. FinishOrder
      BY <1>1, <1>2 DEF GraphNext, CheckIds, NextRoot, LeaveNode, SkipNode, EnterNode, StartOrder,
                        TakeFromQueue, Reject
    <3>2. /\ phase = "order" /\ queue = <<>> /\ order' = order
          /\ Lists /\ ValidIds /\ Acyclic /\ SortInv
      BY <3>1 DEF FinishOrder, sort, ScheduleInv, GraphInv
    <3>3. ToSet(order) = Id
      BY <3>2, AllAreOrdered
    <3>4. ToSet(order)' = Id'
      BY <1>2, <3>2, <3>3 DEF Id
    <3>5. Lists' /\ ValidIds' /\ SortInv' /\ Len(order)' = Len(nodes)'
      BY <2>1 DEF GraphInv
    <3>. QED BY <3>4, <3>5 DEF Ordered, SortInv
  <2>3. Len(order') \in Nat
    BY <2>2, LenProperties DEF Ordered
  <2>4. FirstSteps(0)' = {}
    BY <1>5 DEF FirstSteps
  <2>. QED BY <1>3, <1>5, <2>2, <2>3, <2>4 DEF InTurn
<1>. QED BY <1>1, <1>3, <1>4, <1>6, <1>7, <1>8 DEF Schedule

\* What StartsAreRight says of a step and the ones before it.
StartIsRight(s, before) ==
  /\ s \in Placed /\ ToSet(After(s)) \subseteq before
  /\ timelines[s].start >= Ready(s)
  /\ resolve =>
       /\ Fits(before, s, timelines[s].start)
       /\ \A sooner \in Ready(s)..(timelines[s].start - 1) : ~Fits(before, s, sooner)
  /\ ~resolve =>
       /\ timelines[s].start = Ready(s)
       /\ Fits(before, s, Ready(s)) <=> \A c \in conflicts : c.stepId # s

LEMMA StartsAre ==
  StartsAreRight <=> \A k \in 1..Cardinality(Placed) : StartIsRight(order[k], FirstSteps(k - 1))
BY DEF StartsAreRight, StartIsRight, FirstSteps

\* What is known when a step is to be placed.
LEMMA NextStep ==
  ASSUME ScheduleInv, Waiting
  PROVE  /\ Basis /\ InTurn /\ Cardinality(Placed) \in Nat /\ Cardinality(Placed) + 1 <= Len(order)
         /\ Current \in Id /\ Current \notin Placed /\ ToSet(After(Current)) \subseteq Placed
         /\ Ready(Current) \in Nat /\ DependenciesEnd(Current) = Ready(Current)
<1>1. InTurn /\ Basis
  BY DEF Waiting, ScheduleInv, Schedule, InTurn, Basis
<1>2. PICK n, s : n = Cardinality(Placed) /\ s = Current
  OBVIOUS
<1>3. Ordered /\ n \in Nat /\ n < Len(order) /\ Len(order) \in Nat /\ Placed = FirstSteps(n) /\ s = order[n + 1]
  BY <1>1, <1>2, StepsOfOrder DEF Waiting, InTurn, Current
<1>4. n + 1 \in 1..Len(order) /\ (n + 1) - 1 = n /\ n + 1 <= Len(order)
  BY <1>3
<1>5. s \in Id /\ s \notin Placed /\ ToSet(After(s)) \subseteq Placed
  BY <1>3, <1>4, StepsOfOrder
<1>6. Ready(s) \in Nat /\ DependenciesEnd(s) = Ready(s)
  BY <1>1, <1>5, ReadyIs
<1>. QED BY <1>1, <1>2, <1>3, <1>4, <1>5, <1>6

\* A step starts where it fits and no sooner, or is in conflict.
LEMMA PlaceStarts ==
  ASSUME ScheduleInv, Place
  PROVE  \E st \in Nat :
           /\ PlaceAt(Current, st) /\ st >= Ready(Current)
           /\ \A c \in conflicts : c \in conflicts'
           /\ \A c \in conflicts' : c \in conflicts \/ c.stepId = Current
           /\ resolve =>
                /\ Fits(Placed, Current, st)
                /\ \A sooner \in Ready(Current)..(st - 1) : ~Fits(Placed, Current, sooner)
           /\ ~resolve =>
                /\ st = Ready(Current)
                /\ Fits(Placed, Current, st) <=> \A c \in conflicts' : c.stepId # Current
<1>1. Waiting
  BY DEF Place
<1>2. PICK s, e : s = Current /\ e = Ready(s)
  OBVIOUS
<1>3. Basis /\ s \in Id /\ s \notin Placed /\ e \in Nat /\ DependenciesEnd(s) = e
  BY <1>1, <1>2, NextStep
<1>4. CASE resolve
  <2>1. PICK st : st = EarliestStart(s, e)
    OBVIOUS
  <2>2. /\ Infeasible(s) = {} /\ Overloaded(s, st) = {} /\ PlaceAt(s, st) /\ conflicts' = conflicts
    BY <1>2, <1>3, <1>4, <2>1 DEF Place
  <2>3. st \in Nat /\ st >= e /\ \A t \in e..(st - 1) : ~Fits(Placed, s, t)
    BY <1>3, <2>1, <2>2, EarliestIs
  <2>4. Fits(Placed, s, st)
    BY <1>3, <2>2, <2>3, FitsIs
  <2>. QED BY <1>2, <1>4, <2>2, <2>3, <2>4
<1>5. CASE ~resolve
  <2>1. PlaceAt(s, e) /\ conflicts' = conflicts \cup ConflictsOf(s, e)
    BY <1>2, <1>3, <1>5 DEF Place
  <2>2. \A c \in conflicts : c.stepId # s
    BY <1>3 DEF ScheduleInv, Schedule
  <2>3. \A c \in ConflictsOf(s, e) : c.stepId = s
    <3> TAKE c \in ConflictsOf(s, e)
    <3>1. \E r, n, av : c = [stepId |-> s, resourceId |-> r, atOffsetSeconds |-> e, needed |-> n, available |-> av]
      BY DEF ConflictsOf
    <3>. QED BY <3>1
  <2>4. ConflictsOf(s, e) = {} <=> Overloaded(s, e) = {}
    BY DEF ConflictsOf
  <2>5. Fits(Placed, s, e) <=> Overloaded(s, e) = {}
    BY <1>3, FitsIs
  <2>6. Fits(Placed, s, e) <=> \A c \in conflicts' : c.stepId # s
    BY <2>1, <2>2, <2>3, <2>4, <2>5
  <2>. QED BY <1>2, <1>3, <1>5, <2>1, <2>3, <2>6
<1>. QED BY <1>4, <1>5

LEMMA PlaceKeepsSchedule == ASSUME ScheduleInv, Place PROVE Schedule'
<1>1. /\ Waiting /\ phase = "ordered" /\ phase' = phase /\ nodes' = nodes /\ order' = order
      /\ capacity' = capacity /\ resolve' = resolve /\ outcome = "none" /\ outcome' = outcome
  BY DEF Place, Waiting, graphVars
<1>2. PICK n, s, P, e : n = Cardinality(Placed) /\ s = Current /\ P = Placed /\ e = Ready(s)
  OBVIOUS
<1>3. /\ Basis /\ InTurn /\ n \in Nat /\ n + 1 <= Len(order) /\ s = order[n + 1]
      /\ s \in Id /\ s \notin P /\ ToSet(After(s)) \subseteq P /\ e \in Nat
      /\ P = FirstSteps(n) /\ Ordered /\ Len(order) \in Nat
  BY <1>1, <1>2, NextStep, StepsOfOrder DEF Current, InTurn
<1>4. PICK st \in Nat :
        /\ PlaceAt(s, st) /\ st >= e
        /\ \A c \in conflicts : c \in conflicts'
        /\ \A c \in conflicts' : c \in conflicts \/ c.stepId = s
        /\ resolve => Fits(P, s, st) /\ \A sooner \in e..(st - 1) : ~Fits(P, s, sooner)
        /\ ~resolve => /\ st = e
                       /\ Fits(P, s, st) <=> \A c \in conflicts' : c.stepId # s
  BY <1>2, PlaceStarts
<1>5. PICK dur : dur = Node(s).duration /\ dur \in Nat
  BY <1>3, DurationIs
<1>6. /\ DOMAIN timelines' = P \cup {s}
      /\ timelines'[s].start = st /\ timelines'[s].end = st + dur
      /\ \A u \in P : timelines'[u] = timelines[u]
  <2>1. timelines' = [x \in P \cup {s} |-> IF x = s THEN [start |-> st, end |-> st + dur] ELSE timelines[x]]
    BY <1>2, <1>4, <1>5 DEF PlaceAt
  <2>. QED BY <1>3, <2>1
<1>7. Placed' = P \cup {s} /\ Cardinality(Placed)' = n + 1
  <2>1. Placed' = P \cup {s}
    BY <1>6 DEF Placed
  <2>2. IsFiniteSet(P)
    BY <1>2, <1>3, PlacedIsFinite
  <2>3. Cardinality(P \cup {s}) = n + 1
    BY <1>2, <1>3, <2>2, FS_AddElement
  <2>. QED BY <2>1, <2>3
<1>8. Id' = Id /\ \A x : Node(x)' = Node(x) /\ After(x)' = After(x)
  BY <1>1, NodesStay
<1>9. InTurn'
  <2>1. Ordered'
    <3>1. Lists' /\ ValidIds'
      BY <1>1, <1>3, NodesStay DEF Ordered
    <3>2. InOrder'
      BY <1>1, <1>3, <1>8 DEF Ordered, InOrder
    <3>. QED BY <1>1, <1>3, <1>8, <3>1, <3>2 DEF Ordered
  <2>2. FirstSteps(n + 1) = P \cup {s}
    BY <1>3, OneStepMore
  <2>3. FirstSteps(Cardinality(Placed))' = P \cup {s}
    BY <1>1, <1>7, <2>2 DEF FirstSteps
  <2>4. Cardinality(Placed)' \in 0..Len(order)'
    BY <1>1, <1>3, <1>7
  <2>5. Placed' = FirstSteps(Cardinality(Placed))'
    BY <1>7, <2>3
  <2>. QED BY <2>1, <2>4, <2>5 DEF InTurn
<1>10. Demands' /\ Timed'
  <2>1. Demands'
    BY <1>1 DEF ScheduleInv, Schedule, Demands
  <2>2. Timed
    BY DEF ScheduleInv, Schedule
  <2>3. ASSUME NEW u \in P \cup {s}
        PROVE  timelines'[u].start \in Nat /\ timelines'[u].end = timelines'[u].start + Node(u).duration
    BY <1>2, <1>5, <1>6, <2>2, <2>3 DEF Timed
  <2>4. P \cup {s} \subseteq Id
    BY <1>2, <1>3, <2>2 DEF Timed
  <2>. QED BY <1>7, <1>8, <2>1, <2>3, <2>4 DEF Timed
<1>11. \A c \in conflicts' : c.stepId \in Placed'
  BY <1>2, <1>4, <1>7 DEF ScheduleInv, Schedule
<1>12. \A k \in 1..n : StartIsRight(order[k], FirstSteps(k - 1))
  BY <1>2, StartsAre DEF ScheduleInv, Schedule
<1>13. ASSUME NEW k \in 1..(n + 1) PROVE StartIsRight(order[k], FirstSteps(k - 1))'
  <2>1. PICK x, B : x = order[k] /\ B = FirstSteps(k - 1)
    OBVIOUS
  <2>2. k \in 1..n \/ k = n + 1
    BY <1>3
  <2>3. B \subseteq P /\ ToSet(After(x)) \subseteq B
    <3>1. 1..(k - 1) \subseteq 1..n /\ k \in 1..Len(order)
      BY <1>3
    <3>2. B \subseteq P
      BY <1>3, <2>1, <3>1 DEF FirstSteps
    <3>. QED BY <1>3, <2>1, <3>1, <3>2, StepsOfOrder
  <2>4. /\ Ready(x)' = Ready(x)
        /\ \A t : Fits(B, x, t)' <=> Fits(B, x, t)
    <3>1. \A u \in B : timelines'[u] = timelines[u]
      BY <1>6, <2>3
    <3>2. \A d \in ToSet(After(x)) : timelines'[d] = timelines[d]
      BY <1>6, <2>3
    <3>. QED BY <1>1, <3>1, <3>2, FitsStay, ReadyStays
  <2>5. StartIsRight(x, B)'
    <3>1. CASE k \in 1..n
      <4>1. StartIsRight(x, B)
        BY <1>12, <2>1, <3>1
      <4>2. x \in P /\ x # s /\ timelines'[x] = timelines[x]
        BY <1>2, <1>3, <1>6, <4>1 DEF StartIsRight
      <4>3. (\A c \in conflicts : c.stepId # x) <=> (\A c \in conflicts' : c.stepId # x)
        BY <1>4, <4>2
      <4>. QED BY <1>1, <1>7, <1>8, <2>3, <2>4, <4>1, <4>2, <4>3 DEF StartIsRight
    <3>2. CASE k = n + 1
      <4>1. x = s /\ B = P
        <5>1. (n + 1) - 1 = n
          BY <1>3
        <5>. QED BY <1>3, <2>1, <3>2, <5>1
      <4>2. Ready(s)' = e
        BY <1>2, <2>4, <4>1
      <4>. QED BY <1>1, <1>4, <1>6, <1>7, <1>8, <2>3, <2>4, <4>1, <4>2 DEF StartIsRight
    <3>. QED BY <2>2, <3>1, <3>2
  <2>6. (order[k])' = x /\ FirstSteps(k - 1)' = B
    BY <1>1, <2>1 DEF FirstSteps
  <2>. QED BY <2>5, <2>6 DEF StartIsRight
<1>14. StartsAreRight'
  BY <1>7, <1>13 DEF StartsAreRight, StartIsRight, FirstSteps
<1>. QED BY <1>1, <1>9, <1>10, <1>11, <1>14 DEF Schedule, RefusalIsDue

\* A call that refuses, or has finished, leaves the schedule as it was.
LEMMA ScheduleStays ==
  ASSUME ScheduleInv,
         nodes' = nodes, order' = order, phase' = phase, capacity' = capacity, resolve' = resolve,
         timelines' = timelines, conflicts' = conflicts
  PROVE  /\ (Demands /\ Timed)'
         /\ phase' = "ordered" => InTurn'
         /\ \A c \in conflicts' : c.stepId \in Placed'
         /\ StartsAreRight' /\ Placed' = Placed /\ Id' = Id
<1>1. Placed' = Placed /\ Id' = Id /\ \A x : Node(x)' = Node(x) /\ After(x)' = After(x)
  BY NodesStay DEF Placed
<1>2. Demands' /\ Timed'
  BY <1>1 DEF ScheduleInv, Schedule, Demands, Timed
<1>3. phase' = "ordered" => InTurn'
  <2> SUFFICES ASSUME phase = "ordered" PROVE InTurn'
    OBVIOUS
  <2>1. InTurn
    BY DEF ScheduleInv, Schedule
  <2>2. Ordered'
    <3>1. Lists' /\ ValidIds'
      BY <2>1, NodesStay DEF InTurn, Ordered
    <3>2. InOrder'
      BY <1>1, <2>1 DEF InTurn, Ordered, InOrder
    <3>. QED BY <1>1, <2>1, <3>1, <3>2 DEF InTurn, Ordered
  <2>. QED BY <1>1, <2>1, <2>2 DEF InTurn, FirstSteps
<1>4. \A c \in conflicts' : c.stepId \in Placed'
  BY <1>1 DEF ScheduleInv, Schedule
<1>5. ASSUME NEW k \in 1..Cardinality(Placed) PROVE StartIsRight(order[k], FirstSteps(k - 1))'
  <2>1. PICK x, B : x = order[k] /\ B = FirstSteps(k - 1)
    OBVIOUS
  <2>2. StartIsRight(x, B)
    BY <2>1, StartsAre DEF ScheduleInv, Schedule
  <2>3. Ready(x)' = Ready(x) /\ \A t : Fits(B, x, t)' <=> Fits(B, x, t)
    BY FitsStay, ReadyStays
  <2>4. StartIsRight(x, B)'
    BY <1>1, <2>2, <2>3 DEF StartIsRight
  <2>5. (order[k])' = x /\ FirstSteps(k - 1)' = B
    BY <2>1 DEF FirstSteps
  <2>. QED BY <2>4, <2>5 DEF StartIsRight
<1>6. StartsAreRight'
  BY <1>1, <1>5 DEF StartsAreRight, StartIsRight, FirstSteps
<1>. QED BY <1>1, <1>2, <1>3, <1>4, <1>6

\* Why a call may refuse.
MayRefuse ==
  /\ resolve
  /\ \/ \E s \in Id : ~Fits({}, s, 0)
     \/ \A n \in 0..Patience(Current) : ~Fits(Placed, Current, Ready(Current) + n)

LEMMA MayStillRefuse ==
  ASSUME nodes' = nodes, order' = order, capacity' = capacity, resolve' = resolve,
         timelines' = timelines, MayRefuse
  PROVE  MayRefuse'
<1>1. Placed' = Placed /\ Id' = Id
  BY NodesStay DEF Placed
<1>2. CASE \E s \in Id : ~Fits({}, s, 0)
  <2>1. PICK s \in Id : ~Fits({}, s, 0)
    BY <1>2
  <2>2. ~Fits({}, s, 0)'
    <3>1. \A u \in {} : timelines'[u] = timelines[u]
      OBVIOUS
    <3>. QED BY <2>1, <3>1, FitsStay
  <2>. QED BY <1>1, <2>1, <2>2 DEF MayRefuse
<1>3. CASE \A n \in 0..Patience(Current) : ~Fits(Placed, Current, Ready(Current) + n)
  <2>1. PICK P, s, e, p : P = Placed /\ s = Current /\ e = Ready(s) /\ p = Patience(s)
    OBVIOUS
  <2>2. \A n \in 0..p : ~Fits(P, s, e + n)
    BY <1>3, <2>1
  <2>3. \A n \in 0..p : ~Fits(P, s, e + n)'
    BY <2>2, FitsStay
  <2>4. Placed' = P /\ Current' = s /\ Ready(s)' = e /\ Patience(Current)' = p
    <3>1. Ready(s)' = Ready(s)
      BY ReadyStays
    <3>2. Node(s)' = Node(s)
      BY NodesStay
    <3>. QED BY <1>1, <2>1, <3>1, <3>2 DEF Current, Patience
  <2>5. \A n \in 0..Patience(Current)' : ~Fits(Placed, Current, Ready(Current) + n)'
    BY <2>3, <2>4 DEF Fits, Load, Ready
  <2>. QED BY <2>5 DEF MayRefuse
<1>. QED BY <1>2, <1>3 DEF MayRefuse

LEMMA RefuseIsDue == ASSUME ScheduleInv, Refuse \/ GiveUp PROVE MayRefuse
<1>1. Waiting /\ resolve
  BY DEF Refuse, GiveUp
<1>2. PICK s, e : s = Current /\ e = Ready(s)
  OBVIOUS
<1>3. Basis /\ s \in Id /\ e \in Nat /\ DependenciesEnd(s) = e
  BY <1>1, <1>2, NextStep
<1>4. CASE Infeasible(s) # {}
  <2>1. PICK r \in Capped(s) : Needs(s)[r] > capacity[r]
    BY <1>4 DEF Infeasible
  <2>2. ~(Needs(s)[r] <= capacity[r])
    BY <1>3, <2>1, CappedIs
  <2>3. ~Fits({}, s, 0)
    BY <2>2 DEF Fits
  <2>. QED BY <1>1, <1>3, <2>3 DEF MayRefuse
<1>5. CASE Infeasible(s) = {}
  <2>1. Overloaded(s, EarliestStart(s, e)) # {}
    BY <1>2, <1>3, <1>5 DEF Refuse, GiveUp
  <2>2. \A n \in 0..Patience(s) : ~Fits(Placed, s, e + n)
    BY <1>3, <1>5, <2>1, EarliestIs
  <2>. QED BY <1>1, <1>2, <2>2 DEF MayRefuse
<1>. QED BY <1>4, <1>5

LEMMA RestKeepsSchedule ==
  ASSUME ScheduleInv, Refuse \/ GiveUp \/ Finished \/ UNCHANGED scheduleVars
  PROVE  Schedule'
<1>1. /\ nodes' = nodes /\ order' = order /\ phase' = phase /\ capacity' = capacity
      /\ resolve' = resolve /\ timelines' = timelines /\ conflicts' = conflicts
  BY DEF Refuse, GiveUp, Finished, scheduleVars, graphVars
<1>2. /\ (Demands /\ Timed)'
      /\ phase' = "ordered" => InTurn'
      /\ \A c \in conflicts' : c.stepId \in Placed'
      /\ StartsAreRight' /\ Placed' = Placed /\ Id' = Id
  BY <1>1, ScheduleStays
<1>3. outcome' = "scheduled" => (phase' = "ordered" /\ Placed' = Id')
  BY <1>1, <1>2 DEF Refuse, GiveUp, Finished, scheduleVars, ScheduleInv, Schedule
<1>4. outcome' = "error" /\ phase' = "ordered" => MayRefuse
  <2>1. CASE Refuse \/ GiveUp
    BY <2>1, RefuseIsDue
  <2>2. CASE Finished
    BY <2>2 DEF Finished
  <2>3. CASE UNCHANGED scheduleVars
    BY <1>1, <2>3 DEF scheduleVars, ScheduleInv, Schedule, RefusalIsDue, MayRefuse
  <2>. QED BY <2>1, <2>2, <2>3
<1>5. RefusalIsDue'
  <2>1. MayRefuse => MayRefuse'
    BY <1>1, MayStillRefuse
  <2>. QED BY <1>4, <2>1 DEF RefusalIsDue, MayRefuse
<1>6. phase' # "ordered" => Placed' = {} /\ outcome' # "scheduled"
  BY <1>1, <1>2, <1>3 DEF ScheduleInv, Schedule
<1>. QED BY <1>2, <1>3, <1>5, <1>6 DEF Schedule

LEMMA ScheduleKeeps == ScheduleInv /\ [ScheduleNext]_scheduleVars => ScheduleInv'
<1> SUFFICES ASSUME ScheduleInv, [ScheduleNext]_scheduleVars PROVE ScheduleInv'
  OBVIOUS
<1>1. GraphInv'
  BY ScheduleKeepsGraph DEF ScheduleInv
<1>2. Schedule'
  BY PrepareKeepsSchedule, PlaceKeepsSchedule, RestKeepsSchedule DEF ScheduleNext
<1>. QED BY <1>1, <1>2 DEF ScheduleInv

LEMMA ScheduleIsDue == ScheduleInv => ScheduleIsRight
<1> SUFFICES ASSUME ScheduleInv PROVE ScheduleIsRight
  OBVIOUS
<1>1. StartsAreRight /\ RefusalIsDue
  BY DEF ScheduleInv, Schedule
<1>2. CASE phase = "ordered"
  <2>1. Basis /\ InTurn
    BY <1>2 DEF ScheduleInv, Schedule, InTurn, Basis
  <2>2. NothingIsOverbooked
    BY <1>1, <2>1, NothingOverbooked
  <2>3. MakespanIsRight
    <3> SUFFICES ASSUME outcome = "scheduled" PROVE MakespanIsRight
      BY DEF MakespanIsRight
    <3>1. Placed = Id
      BY DEF ScheduleInv, Schedule
    <3>. QED BY <1>1, <2>1, <3>1, MakespanHolds DEF MakespanIsRight
  <2>. QED BY <1>1, <2>2, <2>3 DEF ScheduleIsRight
<1>3. CASE phase # "ordered"
  <2>1. Placed = {} /\ outcome # "scheduled"
    BY <1>3 DEF ScheduleInv, Schedule
  <2>. QED BY <1>1, <2>1 DEF ScheduleIsRight, NothingIsOverbooked, MakespanIsRight
<1>. QED BY <1>2, <1>3

\* For every plan, every list of resources and both ways of calling: steps are placed in the
\* order of the graph, none before what it waits for; with resources resolved each starts
\* at the first moment it fits and nothing is ever overbooked, without them a conflict is
\* reported exactly where one does not fit; the schedule is no shorter than the critical
\* path; and a call is refused only if a step needs more than there is of something, or
\* fits at no moment of as many times its duration as there are attempts more than steps
\* placed before it. Fractions are covered: times and amounts are counted in parts of any size.
THEOREM ScheduleAlwaysRight == ScheduleSpec => []ScheduleIsRight
BY ScheduleBegins, ScheduleKeeps, ScheduleIsDue, PTL DEF ScheduleSpec

-------------------------------------------------------------------------------
\* A timer that was never started has neither run nor an error.
Fresh ==
  \A t \in Timer :
    timers[t].status = "none" => ran[t] = 0 /\ error[t].down = 0 /\ error[t].up = 0

TimersIInv == TimersTypeOK /\ Fresh /\ TimersKeepTime

\* Rounding up to whole seconds.
LEMMA CeilBounds ==
  ASSUME NEW x \in Int
  PROVE  /\ WholeSeconds(x) \in Nat
         /\ WholeSeconds(x) * 1000 >= x
         /\ WholeSeconds(x) * 1000 <= AtLeastZero(x + 999)
PROOF
<1> DEFINE q == (x + 999) \div 1000
<1>1. q \in Int /\ q * 1000 <= x + 999 /\ x + 999 < q * 1000 + 1000
  BY SMT
<1>2. WholeSeconds(x) = AtLeastZero(q)
  BY DEF WholeSeconds
<1> HIDE DEF q
<1> QED
  BY <1>1, <1>2, SMT DEF AtLeastZero

LEMMA OffsetsNear ==
  ASSUME NEW off \in Offsets, now \in Nat
  PROVE  now + off \in Int /\ now - Skew <= now + off /\ now + off <= now + Skew
BY TimersAssumption

LEMMA LeftIsNat ==
  ASSUME TimersTypeOK, NEW t \in Timer
  PROVE  Left(t) \in Nat /\ (ran[t] > timers[t].duration * 1000 => Left(t) = 0)
BY DEF TimersTypeOK, Left, AtLeastZero

LEMMA TimersInitIInv == TimersInit => TimersIInv
BY DEF TimersInit, TimersIInv, TimersTypeOK, TimerStatus, Fresh, TimersKeepTime, Unknown, Left,
       AtLeastZero

LEMMA StartKeeps ==
  ASSUME TimersIInv, NEW t \in Timer, NEW duration \in Durations, NEW off \in Offsets,
         TimerStarted(t, duration, now + off)
  PROVE  TimersIInv'
PROOF
<1>1. /\ duration \in Nat /\ Skew \in Nat
      /\ now + off \in Int /\ now - Skew <= now + off /\ now + off <= now + Skew
  BY TimersAssumption, OffsetsNear DEF TimersIInv, TimersTypeOK
<1>2. /\ timers' = [timers EXCEPT ![t] =
            [status |-> "running", duration |-> duration, remaining |-> duration,
             endsAt |-> now + off + duration * 1000]]
      /\ now' = now /\ ran' = ran /\ error' = error /\ live' = live
      /\ timers[t].status = "none"
  BY DEF TimerStarted
<1>3. TimersTypeOK'
  BY <1>1, <1>2, SMT DEF TimersIInv, TimersTypeOK, TimerStatus
<1>4. /\ timers \in [Timer -> [status : TimerStatus \cup {"none"}, duration : Nat,
                               remaining : Nat, endsAt : Int]]
      /\ \A u \in Timer \ {t} : timers'[u] = timers[u]
      /\ timers'[t].status = "running" /\ timers'[t].duration = duration
      /\ timers'[t].endsAt = now + off + duration * 1000
  BY <1>2 DEF TimersIInv, TimersTypeOK
<1>5. Fresh'
  BY <1>2, <1>4 DEF TimersIInv, Fresh
<1>6. ASSUME NEW u \in Timer
      PROVE  /\ timers'[u].status \in {"paused", "cancelled"} =>
                  /\ timers'[u].remaining * 1000 >= Left(u)' - error'[u].down
                  /\ timers'[u].remaining * 1000 <= Left(u)' + error'[u].up
             /\ timers'[u].status = "running" =>
                  /\ timers'[u].endsAt - now' >= Left(u)' - error'[u].down - Skew
                       \/ ran'[u] > timers'[u].duration * 1000
                  /\ timers'[u].endsAt - now' <= Left(u)' + error'[u].up + Skew
  <2>1. CASE u = t
    <3>1. ran[t] = 0 /\ error[t].down = 0 /\ error[t].up = 0 /\ now \in Nat
      BY <1>2 DEF TimersIInv, Fresh, TimersTypeOK
    <3>2. Left(t)' = duration * 1000
      BY <1>1, <1>2, <1>4, <3>1, SMT DEF Left, AtLeastZero
    <3> QED
      BY <1>1, <1>2, <1>4, <2>1, <3>1, <3>2, SMT
  <2>2. CASE u # t
    <3>1. Left(u)' = Left(u)
      BY <1>2, <1>4, <2>2 DEF Left
    <3> QED
      BY <1>2, <1>4, <2>2, <3>1 DEF TimersIInv, TimersKeepTime
  <2> QED
    BY <2>1, <2>2
<1>7. TimersKeepTime'
  BY <1>6 DEF TimersKeepTime
<1> QED
  BY <1>3, <1>5, <1>7 DEF TimersIInv

LEMMA ResumeKeeps ==
  ASSUME TimersIInv, NEW t \in Timer, NEW off \in Offsets, TimerResumed(t, now + off)
  PROVE  TimersIInv'
PROOF
<1> DEFINE T == timers[t]
<1>1. /\ Skew \in Nat /\ now \in Nat
      /\ now + off \in Int /\ now - Skew <= now + off /\ now + off <= now + Skew
  BY TimersAssumption, OffsetsNear DEF TimersIInv, TimersTypeOK
<1>2. /\ timers' = [timers EXCEPT ![t] =
            [status |-> "running", duration |-> timers[t].duration,
             remaining |-> T.remaining, endsAt |-> now + off + T.remaining * 1000]]
      /\ now' = now /\ ran' = ran /\ error' = error /\ live' = live
      /\ T.status = "paused"
  BY DEF TimerResumed, SetTimer
<1>3. /\ timers \in [Timer -> [status : TimerStatus \cup {"none"}, duration : Nat,
                               remaining : Nat, endsAt : Int]]
      /\ T.duration \in Nat /\ T.remaining \in Nat /\ ran[t] \in Nat
      /\ error[t].down \in Nat /\ error[t].up \in Nat
  BY DEF TimersIInv, TimersTypeOK
<1>4. /\ \A u \in Timer \ {t} : timers'[u] = timers[u]
      /\ timers'[t].status = "running" /\ timers'[t].duration = T.duration
      /\ timers'[t].endsAt = now + off + T.remaining * 1000
  BY <1>2, <1>3
<1>5. TimersTypeOK'
  BY <1>1, <1>2, <1>3, SMT DEF TimersIInv, TimersTypeOK, TimerStatus
<1>6. Fresh'
  BY <1>2, <1>4 DEF TimersIInv, Fresh
<1>7. \A u \in Timer : Left(u)' = Left(u)
  BY <1>2, <1>3, <1>4 DEF Left
<1>8. TimersKeepTime'
  <2> SUFFICES ASSUME NEW u \in Timer
               PROVE  /\ timers'[u].status \in {"paused", "cancelled"} =>
                           /\ timers'[u].remaining * 1000 >= Left(u)' - error'[u].down
                           /\ timers'[u].remaining * 1000 <= Left(u)' + error'[u].up
                      /\ timers'[u].status = "running" =>
                           /\ timers'[u].endsAt - now' >= Left(u)' - error'[u].down - Skew
                                \/ ran'[u] > timers'[u].duration * 1000
                           /\ timers'[u].endsAt - now' <= Left(u)' + error'[u].up + Skew
    BY DEF TimersKeepTime
  <2>1. CASE u = t
    <3>1. /\ T.remaining * 1000 >= Left(t) - error[t].down
          /\ T.remaining * 1000 <= Left(t) + error[t].up
          /\ Left(t) \in Nat
      BY <1>2, LeftIsNat DEF TimersIInv, TimersKeepTime
    <3> HIDE DEF T
    <3> QED
      BY <1>1, <1>2, <1>3, <1>4, <1>7, <2>1, <3>1, SMT
  <2>2. CASE u # t
    BY <1>2, <1>4, <1>7, <2>2 DEF TimersIInv, TimersKeepTime
  <2> QED
    BY <2>1, <2>2
<1> QED
  BY <1>5, <1>6, <1>8 DEF TimersIInv

\* A running timer is measured: it is paused or cancelled.
LEMMA MeasureKeeps ==
  ASSUME TimersIInv, NEW t \in Timer, NEW off \in Offsets, NEW next \in {"paused", "cancelled"},
         timers[t].status = "running",
         SetTimer(t, next, RestAt(t, now + off), timers[t].endsAt),
         Charge(t), UNCHANGED <<live, now, ran>>
  PROVE  TimersIInv'
PROOF
<1> DEFINE rest == RestAt(t, now + off)
<1>1. /\ Skew \in Nat /\ now \in Nat
      /\ now + off \in Int /\ now - Skew <= now + off /\ now + off <= now + Skew
  BY TimersAssumption, OffsetsNear DEF TimersIInv, TimersTypeOK
<1>2. /\ timers \in [Timer -> [status : TimerStatus \cup {"none"}, duration : Nat,
                               remaining : Nat, endsAt : Int]]
      /\ error \in [Timer -> [down : Nat, up : Nat]]
      /\ timers[t].endsAt \in Int /\ ran[t] \in Nat /\ timers[t].duration \in Nat
      /\ error[t].down \in Nat /\ error[t].up \in Nat
  BY DEF TimersIInv, TimersTypeOK
<1>3. Left(t) \in Nat /\ (ran[t] > timers[t].duration * 1000 => Left(t) = 0)
  BY LeftIsNat DEF TimersIInv
<1>4. /\ rest \in Nat
      /\ rest * 1000 >= Left(t) - (error[t].down + 2 * Skew)
      /\ rest * 1000 <= Left(t) + (error[t].up + 2 * Skew + 999)
  <2>1. /\ Left(t) = 0 \/ timers[t].endsAt - now >= Left(t) - error[t].down - Skew
        /\ timers[t].endsAt - now <= Left(t) + error[t].up + Skew
    BY <1>3 DEF TimersIInv, TimersKeepTime
  <2>2. rest = WholeSeconds(timers[t].endsAt - (now + off))
    BY DEF RestAt
  <2> HIDE DEF rest
  <2> DEFINE ends == timers[t].endsAt
             left == Left(t)
             down == error[t].down
             up == error[t].up
             at == now + off
  <2>3. /\ ends \in Int /\ at \in Int /\ left \in Nat /\ down \in Nat /\ up \in Nat
        /\ now - Skew <= at /\ at <= now + Skew
        /\ left = 0 \/ ends - now >= left - down - Skew
        /\ ends - now <= left + up + Skew
    BY <1>1, <1>2, <1>3, <2>1
  <2>4. rest = WholeSeconds(ends - at)
    BY <2>2
  <2> HIDE DEF ends, left, down, up, at
  <2>5. /\ rest \in Nat
        /\ rest * 1000 >= left - (down + 2 * Skew)
        /\ rest * 1000 <= left + (up + 2 * Skew + 999)
    <3>1. /\ WholeSeconds(ends - at) \in Nat
          /\ WholeSeconds(ends - at) * 1000 >= ends - at
          /\ WholeSeconds(ends - at) * 1000 <= AtLeastZero(ends - at + 999)
      BY <2>3, CeilBounds
    <3>2. rest \in Nat /\ rest * 1000 >= ends - at /\ rest * 1000 <= AtLeastZero(ends - at + 999)
      BY <2>4, <3>1
    <3>3. AtLeastZero(ends - at + 999) <= left + (up + 2 * Skew + 999)
      BY <1>1, <2>3, SMT DEF AtLeastZero
    <3>4. rest * 1000 >= left - (down + 2 * Skew)
      BY <1>1, <2>3, <3>2, SMT
    <3> QED
      BY <1>1, <2>3, <3>2, <3>3, <3>4, SMT DEF AtLeastZero
  <2> QED
    BY <2>5 DEF left, down, up
<1>5. /\ \A u \in Timer \ {t} : timers'[u] = timers[u] /\ error'[u] = error[u]
      /\ timers'[t].status = next /\ timers'[t].remaining = rest
      /\ timers'[t].duration = timers[t].duration
      /\ error'[t].down = error[t].down + 2 * Skew
      /\ error'[t].up = error[t].up + 2 * Skew + 999
      /\ now' = now /\ ran' = ran
  BY <1>2 DEF Charge, SetTimer
<1>6. TimersTypeOK'
  <2>1. timers' \in [Timer -> [status : TimerStatus \cup {"none"}, duration : Nat,
                               remaining : Nat, endsAt : Int]]
    <3>1. timers' = [timers EXCEPT ![t] =
            [status |-> next, duration |-> timers[t].duration,
             remaining |-> rest, endsAt |-> timers[t].endsAt]]
      BY DEF SetTimer
    <3> HIDE DEF rest
    <3> QED
      BY <3>1, <1>2, <1>4 DEF TimerStatus
  <2>2. error' \in [Timer -> [down : Nat, up : Nat]]
    BY <1>1, <1>2 DEF Charge
  <2> QED
    BY <2>1, <2>2 DEF TimersIInv, TimersTypeOK
<1>7. Fresh'
  BY <1>5 DEF TimersIInv, Fresh
<1>8. \A u \in Timer : Left(u)' = Left(u)
  BY <1>5 DEF Left
<1> HIDE DEF rest
<1>9. TimersKeepTime'
  <2> SUFFICES ASSUME NEW u \in Timer
               PROVE  /\ timers'[u].status \in {"paused", "cancelled"} =>
                           /\ timers'[u].remaining * 1000 >= Left(u)' - error'[u].down
                           /\ timers'[u].remaining * 1000 <= Left(u)' + error'[u].up
                      /\ timers'[u].status = "running" =>
                           /\ timers'[u].endsAt - now' >= Left(u)' - error'[u].down - Skew
                                \/ ran'[u] > timers'[u].duration * 1000
                           /\ timers'[u].endsAt - now' <= Left(u)' + error'[u].up + Skew
    BY DEF TimersKeepTime
  <2>1. CASE u = t
    BY <1>4, <1>5, <1>8, <2>1
  <2>2. CASE u # t
    BY <1>5, <1>8, <2>2 DEF TimersIInv, TimersKeepTime
  <2> QED
    BY <2>1, <2>2
<1> QED
  BY <1>6, <1>7, <1>9 DEF TimersIInv

LEMMA CompleteKeeps ==
  ASSUME TimersIInv, NEW t \in Timer, NEW off \in Offsets, TimerCompleted(t, now + off)
  PROVE  TimersIInv'
PROOF
<1>1. now + off \in Int
  BY OffsetsNear DEF TimersIInv, TimersTypeOK
<1>2. /\ timers' = [timers EXCEPT ![t] =
            [status |-> "completed", duration |-> timers[t].duration,
             remaining |-> 0, endsAt |-> now + off]]
      /\ now' = now /\ ran' = ran /\ error' = error /\ live' = live
  BY DEF TimerCompleted, SetTimer
<1>3. timers \in [Timer -> [status : TimerStatus \cup {"none"}, duration : Nat,
                            remaining : Nat, endsAt : Int]]
  BY DEF TimersIInv, TimersTypeOK
<1>4. /\ \A u \in Timer \ {t} : timers'[u] = timers[u]
      /\ timers'[t].status = "completed" /\ timers'[t].duration = timers[t].duration
  BY <1>2, <1>3
<1>5. TimersTypeOK'
  BY <1>1, <1>2, <1>3 DEF TimersIInv, TimersTypeOK, TimerStatus
<1>6. Fresh'
  BY <1>2, <1>4 DEF TimersIInv, Fresh
<1>7. \A u \in Timer : Left(u)' = Left(u)
  BY <1>2, <1>4 DEF Left
<1>8. TimersKeepTime'
  BY <1>2, <1>4, <1>7 DEF TimersIInv, TimersKeepTime
<1> QED
  BY <1>5, <1>6, <1>8 DEF TimersIInv

LEMMA CancelPausedKeeps ==
  ASSUME TimersIInv, NEW t \in Timer, timers[t].status = "paused",
         SetTimer(t, "cancelled", timers[t].remaining, timers[t].endsAt),
         UNCHANGED <<live, now, ran, error>>
  PROVE  TimersIInv'
PROOF
<1>1. timers \in [Timer -> [status : TimerStatus \cup {"none"}, duration : Nat,
                            remaining : Nat, endsAt : Int]]
  BY DEF TimersIInv, TimersTypeOK
<1>2. /\ \A u \in Timer \ {t} : timers'[u] = timers[u]
      /\ timers'[t].status = "cancelled" /\ timers'[t].duration = timers[t].duration
      /\ timers'[t].remaining = timers[t].remaining
  BY <1>1 DEF SetTimer
<1>3. TimersTypeOK'
  BY <1>1 DEF TimersIInv, TimersTypeOK, TimerStatus, SetTimer
<1>4. Fresh'
  BY <1>2 DEF TimersIInv, Fresh
<1>5. \A u \in Timer : Left(u)' = Left(u)
  BY <1>2 DEF Left
<1>6. TimersKeepTime'
  BY <1>2, <1>5 DEF TimersIInv, TimersKeepTime
<1> QED
  BY <1>3, <1>4, <1>6 DEF TimersIInv

\* Time passes: what is left of a running timer and the time to its end shrink alike,
\* until nothing is left.
LEMMA PassKeeps ==
  ASSUME TimersIInv, NEW d \in Elapse, Pass(d)
  PROVE  TimersIInv'
PROOF
<1>1. /\ d \in Nat /\ now \in Nat /\ now' = now + d /\ Skew \in Nat
      /\ timers' = timers /\ error' = error /\ live' = live
      /\ ran' = [t \in Timer |-> IF timers[t].status = "running" THEN ran[t] + d ELSE ran[t]]
  BY TimersAssumption DEF Pass, TimersIInv, TimersTypeOK
<1>2. TimersTypeOK'
  BY <1>1 DEF TimersIInv, TimersTypeOK
<1>3. Fresh'
  BY <1>1 DEF TimersIInv, Fresh
<1>4. TimersKeepTime'
  <2> SUFFICES ASSUME NEW u \in Timer
               PROVE  /\ timers'[u].status \in {"paused", "cancelled"} =>
                           /\ timers'[u].remaining * 1000 >= Left(u)' - error'[u].down
                           /\ timers'[u].remaining * 1000 <= Left(u)' + error'[u].up
                      /\ timers'[u].status = "running" =>
                           /\ timers'[u].endsAt - now' >= Left(u)' - error'[u].down - Skew
                                \/ ran'[u] > timers'[u].duration * 1000
                           /\ timers'[u].endsAt - now' <= Left(u)' + error'[u].up + Skew
    BY DEF TimersKeepTime
  <2>1. /\ timers[u].duration \in Nat /\ timers[u].endsAt \in Int /\ ran[u] \in Nat
        /\ error[u].down \in Nat /\ error[u].up \in Nat
    BY DEF TimersIInv, TimersTypeOK
  <2>2. CASE timers[u].status = "running"
    <3>1. ran'[u] = ran[u] + d
      BY <1>1, <2>2
    <3>2. /\ Left(u)' = AtLeastZero(timers[u].duration * 1000 - (ran[u] + d))
          /\ Left(u) = AtLeastZero(timers[u].duration * 1000 - ran[u])
      BY <1>1, <3>1 DEF Left
    <3>3. Left(u)' >= Left(u) - d /\ Left(u) \in Nat /\ Left(u)' \in Nat
      BY <1>1, <2>1, <3>2, SMT DEF AtLeastZero
    <3>4. ran'[u] > timers[u].duration * 1000 \/ Left(u)' = Left(u) - d
      BY <1>1, <2>1, <3>1, <3>2, SMT DEF AtLeastZero
    <3>5. /\ timers[u].endsAt - now >= Left(u) - error[u].down - Skew
               \/ ran[u] > timers[u].duration * 1000
          /\ timers[u].endsAt - now <= Left(u) + error[u].up + Skew
      BY <2>2 DEF TimersIInv, TimersKeepTime
    <3>6. ran[u] > timers[u].duration * 1000 => ran'[u] > timers[u].duration * 1000
      BY <1>1, <2>1, <3>1, SMT
    <3>7. timers[u].endsAt - now' <= Left(u)' + error[u].up + Skew
      BY <1>1, <2>1, <3>3, <3>5, SMT
    <3>8. timers[u].endsAt - now' >= Left(u)' - error[u].down - Skew
            \/ ran'[u] > timers[u].duration * 1000
      BY <1>1, <2>1, <3>3, <3>4, <3>5, <3>6, SMT
    <3> QED
      BY <1>1, <2>2, <3>7, <3>8
  <2>3. CASE timers[u].status # "running"
    <3>1. Left(u)' = Left(u)
      BY <1>1, <2>3 DEF Left
    <3> QED
      BY <1>1, <2>3, <3>1 DEF TimersIInv, TimersKeepTime
  <2> QED
    BY <2>2, <2>3
<1> QED
  BY <1>2, <1>3, <1>4 DEF TimersIInv

LEMMA TimersNextIInv == TimersIInv /\ [TimersNext]_timerVars => TimersIInv'
PROOF
<1> SUFFICES ASSUME TimersIInv, [TimersNext]_timerVars PROVE TimersIInv'
  OBVIOUS
<1>1. CASE \E t \in Timer, duration \in Durations, off \in Offsets :
             TimerStarted(t, duration, now + off)
  BY <1>1, StartKeeps
<1>2. CASE \E t \in Timer, off \in Offsets : TimerResumed(t, now + off)
  BY <1>2, ResumeKeeps
<1>3. CASE \E t \in Timer, off \in Offsets : TimerPaused(t, now + off)
  <2>1. PICK t \in Timer, off \in Offsets : TimerPaused(t, now + off)
    BY <1>3
  <2> QED
    BY <2>1, MeasureKeeps DEF TimerPaused
<1>4. CASE \E t \in Timer, off \in Offsets : TimerCompleted(t, now + off)
  BY <1>4, CompleteKeeps
<1>5. CASE \E t \in Timer, off \in Offsets : TimerCancelled(t, now + off)
  <2>1. PICK t \in Timer, off \in Offsets : TimerCancelled(t, now + off)
    BY <1>5
  <2>2. CASE timers[t].status = "paused"
    BY <2>1, <2>2, CancelPausedKeeps DEF TimerCancelled
  <2>3. CASE timers[t].status # "paused"
    BY <2>1, <2>3, MeasureKeeps DEF TimerCancelled
  <2> QED
    BY <2>2, <2>3
<1>6. CASE SessionEnds
  <2>1. live' \in BOOLEAN /\ UNCHANGED <<now, timers, ran, error>>
    BY <1>6 DEF SessionEnds
  <2>2. TimersTypeOK' /\ Fresh'
    BY <2>1 DEF TimersIInv, TimersTypeOK, Fresh
  <2>3. TimersKeepTime'
    BY <2>1 DEF TimersIInv, TimersKeepTime, Left
  <2> QED
    BY <2>2, <2>3 DEF TimersIInv
<1>7. CASE \E d \in Elapse : Pass(d)
  BY <1>7, PassKeeps
<1>8. CASE UNCHANGED timerVars
  BY <1>8 DEF timerVars, TimersIInv, TimersTypeOK, Fresh, TimersKeepTime, Left
<1> QED
  BY <1>1, <1>2, <1>3, <1>4, <1>5, <1>6, <1>7, <1>8 DEF TimersNext

\* The types of the timers' records, for every set of timers, clocks and durations.
THEOREM TimersTypeCorrect == TimersSpec => []TimersTypeOK
PROOF
<1>1. TimersIInv => TimersTypeOK
  BY DEF TimersIInv
<1> QED
  BY <1>1, TimersInitIInv, TimersNextIInv, PTL DEF TimersSpec

\* timer_paused and timer_started of applyRuntimeEvent: however often a timer is
\* paused and resumed, its rest is what is left of its duration up to a second for
\* each pause and the difference of the clocks for each run.
THEOREM TimeIsKept == TimersSpec => []TimersKeepTime
PROOF
<1>1. TimersIInv => TimersKeepTime
  BY DEF TimersIInv
<1> QED
  BY <1>1, TimersInitIInv, TimersNextIInv, PTL DEF TimersSpec

-------------------------------------------------------------------------------
\* Ids of steps, and what renaming them leaves as it is.

Repeats(steps) == \E i, j \in DOMAIN steps : steps[i].id = steps[j].id /\ i # j

LEMMA OnePerId ==
  ASSUME NEW S, NEW steps \in Seq(S)
  PROVE  Cardinality(Named(steps)) = Len(steps) <=> ~Repeats(steps)
<1> DEFINE f == [i \in 1..Len(steps) |-> steps[i].id]
<1>1. Len(steps) \in Nat /\ DOMAIN steps = 1..Len(steps)
  OBVIOUS
<1>2. f \in Surjection(1..Len(steps), Named(steps))
  BY <1>1 DEF Surjection, Named
<1>3. IsFiniteSet(1..Len(steps)) /\ Cardinality(1..Len(steps)) = Len(steps)
  BY <1>1, Counting
<1>4. Cardinality(Named(steps)) = Len(steps) <=> f \in Injection(1..Len(steps), Named(steps))
  BY <1>2, <1>3, FS_Surjection
<1>5. f \in [1..Len(steps) -> Named(steps)]
  BY <1>1 DEF Named
<1>6. f \in Injection(1..Len(steps), Named(steps)) <=> ~Repeats(steps)
  BY <1>1, <1>5 DEF Injection, IsInjective, Repeats
<1>. QED BY <1>4, <1>6

\* The steps of r are those of s by other ids.
Alike(s, r) ==
  /\ DOMAIN r = DOMAIN s
  /\ \A i, j \in DOMAIN s :
       /\ r[i].id = r[j].id <=> s[i].id = s[j].id
       /\ r[i].id \in r[j].after <=> s[i].id \in s[j].after

LEMMA AlikeNoCycle ==
  ASSUME NEW s, NEW r, Alike(s, r), NoCycle(s)
  PROVE  NoCycle(r)
<1> SUFFICES ASSUME NEW S \in (SUBSET Named(r)) \ {{}}
             PROVE  \E i \in DOMAIN r : r[i].id \in S /\ r[i].after \cap S = {}
  BY DEF NoCycle
<1> DEFINE T == {s[i].id : i \in {j \in DOMAIN s : r[j].id \in S}}
<1>1. T \in (SUBSET Named(s)) \ {{}}
  <2>1. PICK i \in DOMAIN r : r[i].id \in S
    BY DEF Named
  <2>2. T # {}
    BY <2>1 DEF Alike
  <2>. QED BY <2>2 DEF Named
<1>2. PICK i \in DOMAIN s : s[i].id \in T /\ s[i].after \cap T = {}
  BY <1>1, Zenon DEF NoCycle
<1>3. r[i].id \in S
  BY <1>2 DEF Alike
<1>4. ASSUME NEW y \in r[i].after \cap S PROVE FALSE
  <2>1. PICK j \in DOMAIN r : y = r[j].id
    BY <1>4 DEF Named
  <2>2. s[j].id \in s[i].after
    BY <2>1 DEF Alike
  <2>3. s[j].id \in T
    BY <2>1 DEF Alike
  <2>. QED BY <1>2, <2>2, <2>3
<1>. QED BY <1>3, <1>4 DEF Alike

LEMMA AlikeIsMutual == ASSUME NEW s, NEW r, Alike(s, r) PROVE Alike(r, s)
BY DEF Alike

\* Names for new steps: numbers, or what they were called.
Renames(names) ==
  /\ DOMAIN names \subseteq Names
  /\ \A x \in DOMAIN names : names[x] \in Nat \/ names[x] = x
  /\ IsInjective(names)

LEMMA RenamedIsInjective ==
  ASSUME NEW names, Renames(names), NEW x \in Names, NEW y \in Names
  PROVE  Renamed(names, x) = Renamed(names, y) <=> x = y
BY PlanIdentityAssumption DEF Renames, Renamed, IsInjective

\* r is s with the steps renamed.
IsRenamed(s, r, names) ==
  /\ r \in Seq(ToSet(r)) /\ Len(r) = Len(s)
  /\ \A i \in DOMAIN s :
       /\ r[i].id = Renamed(names, s[i].id)
       /\ r[i].after = RenamedAll(names, s[i].after)

LEMMA WrittenFacts ==
  ASSUME NEW s \in Seq(WrittenStep)
  PROVE  /\ Len(s) \in Nat /\ DOMAIN s = 1..Len(s)
         /\ \A i \in DOMAIN s :
              /\ s[i] \in WrittenStep /\ s[i].id \in Names /\ s[i].after \subseteq Names
              /\ DOMAIN s[i].timers = 1..Len(s[i].timers)
              /\ \A t \in DOMAIN s[i].timers :
                   s[i].timers[t].id \in Names /\ s[i].timers[t].linked \in Names
<1>1. Len(s) \in Nat /\ DOMAIN s = 1..Len(s) /\ \A i \in 1..Len(s) : s[i] \in WrittenStep
  BY SeqFacts
<1>2. ASSUME NEW step \in WrittenStep
      PROVE  /\ step.id \in Names /\ step.after \subseteq Names
             /\ DOMAIN step.timers = 1..Len(step.timers)
             /\ \A t \in DOMAIN step.timers :
                  step.timers[t].id \in Names /\ step.timers[t].linked \in Names
  <2>1. /\ step.id \in Names /\ step.after \subseteq Names
        /\ step.timers \in Seq([id : Names, linked : Names])
    BY DEF WrittenStep
  <2>2. /\ DOMAIN step.timers = 1..Len(step.timers)
        /\ \A t \in 1..Len(step.timers) : step.timers[t] \in [id : Names, linked : Names]
    BY <2>1, SeqFacts
  <2>. QED BY <2>1, <2>2
<1>. QED BY <1>1, <1>2

LEMMA RenamedIsAlike ==
  ASSUME NEW s \in Seq(WrittenStep), NEW r, NEW names, Renames(names), IsRenamed(s, r, names)
  PROVE  /\ Alike(s, r)
         /\ \A i \in DOMAIN s : r[i].after \subseteq Named(r) <=> s[i].after \subseteq Named(s)
<1>1. DOMAIN s = 1..Len(s) /\ Len(s) \in Nat
      /\ \A i \in DOMAIN s : s[i].id \in Names /\ s[i].after \subseteq Names
  BY WrittenFacts
<1>2. DOMAIN r = DOMAIN s
  BY <1>1 DEF IsRenamed
<1>3. \A i \in DOMAIN s : r[i].id = Renamed(names, s[i].id)
                          /\ r[i].after = {Renamed(names, x) : x \in s[i].after}
  BY DEF IsRenamed, RenamedAll
<1>4. \A x, y \in Names : Renamed(names, x) = Renamed(names, y) <=> x = y
  BY RenamedIsInjective
<1>5. ASSUME NEW i \in DOMAIN s, NEW j \in DOMAIN s
      PROVE  /\ r[i].id = r[j].id <=> s[i].id = s[j].id
             /\ r[i].id \in r[j].after <=> s[i].id \in s[j].after
  <2>1. s[i].id \in Names /\ s[j].id \in Names /\ s[j].after \subseteq Names
    BY <1>1
  <2>2. r[i].id = Renamed(names, s[i].id) /\ r[j].id = Renamed(names, s[j].id)
        /\ r[j].after = {Renamed(names, x) : x \in s[j].after}
    BY <1>3
  <2>. QED BY <1>4, <2>1, <2>2
<1>6. ASSUME NEW i \in DOMAIN s
      PROVE  r[i].after \subseteq Named(r) <=> s[i].after \subseteq Named(s)
  <2>1. r[i].after = {Renamed(names, x) : x \in s[i].after} /\ s[i].after \subseteq Names
    BY <1>1, <1>3
  <2>2. \A x \in s[i].after : Renamed(names, x) \in Named(r) <=> x \in Named(s)
    <3> TAKE x \in s[i].after
    <3>1. \A j \in DOMAIN s : Renamed(names, x) = r[j].id <=> x = s[j].id
      BY <1>1, <1>3, <1>4, <2>1
    <3>. QED BY <1>2, <3>1 DEF Named
  <2>. QED BY <2>1, <2>2
<1>. QED BY <1>2, <1>5, <1>6 DEF Alike

TimersDiffer(s) ==
  \A i, j \in DOMAIN s : \A t \in DOMAIN s[i].timers, u \in DOMAIN s[j].timers :
    s[i].timers[t].id = s[j].timers[u].id => i = j /\ t = u
AllLinked(s, ids) == \A i \in DOMAIN s : \A t \in DOMAIN s[i].timers : s[i].timers[t].linked \in ids

LEMMA PlacesAre ==
  ASSUME NEW s
  PROVE  /\ \A i \in DOMAIN s : \A t \in DOMAIN s[i].timers :
              <<i, t>> \in TimerPlaces(s) /\ TimerAt(s, <<i, t>>) = s[i].timers[t]
         /\ \A p \in TimerPlaces(s) :
              \E i \in DOMAIN s : \E t \in DOMAIN s[i].timers : p = <<i, t>>
BY DEF TimerPlaces, TimerAt

LEMMA TimersAreApart == ASSUME NEW s PROVE IsInjective(TimerIds(s)) <=> TimersDiffer(s)
<1>1. DOMAIN TimerIds(s) = TimerPlaces(s)
      /\ \A p \in TimerPlaces(s) : TimerIds(s)[p] = TimerAt(s, p).id
  BY DEF TimerIds
<1>2. IsInjective(TimerIds(s)) <=>
        \A p, q \in TimerPlaces(s) : TimerAt(s, p).id = TimerAt(s, q).id => p = q
  BY <1>1 DEF IsInjective
<1>3. ASSUME \A p, q \in TimerPlaces(s) : TimerAt(s, p).id = TimerAt(s, q).id => p = q
      PROVE  TimersDiffer(s)
  <2> SUFFICES ASSUME NEW i \in DOMAIN s, NEW j \in DOMAIN s, NEW t \in DOMAIN s[i].timers,
                      NEW u \in DOMAIN s[j].timers, s[i].timers[t].id = s[j].timers[u].id
               PROVE  i = j /\ t = u
    BY DEF TimersDiffer
  <2>1. /\ <<i, t>> \in TimerPlaces(s) /\ TimerAt(s, <<i, t>>).id = s[i].timers[t].id
        /\ <<j, u>> \in TimerPlaces(s) /\ TimerAt(s, <<j, u>>).id = s[j].timers[u].id
    BY PlacesAre
  <2>2. <<i, t>> = <<j, u>>
    BY <1>3, <2>1
  <2>. QED BY <2>2
<1>4. ASSUME TimersDiffer(s), NEW p \in TimerPlaces(s), NEW q \in TimerPlaces(s),
             TimerAt(s, p).id = TimerAt(s, q).id
      PROVE  p = q
  <2>1. PICK i \in DOMAIN s : \E t \in DOMAIN s[i].timers : p = <<i, t>>
    BY PlacesAre
  <2>2. PICK t \in DOMAIN s[i].timers : p = <<i, t>>
    BY <2>1
  <2>3. PICK j \in DOMAIN s : \E u \in DOMAIN s[j].timers : q = <<j, u>>
    BY PlacesAre
  <2>4. PICK u \in DOMAIN s[j].timers : q = <<j, u>>
    BY <2>3
  <2>5. TimerAt(s, p) = s[i].timers[t] /\ TimerAt(s, q) = s[j].timers[u]
    BY <2>2, <2>4, PlacesAre, Zenon
  <2>6. s[i].timers[t].id = s[j].timers[u].id
    BY <1>4, <2>5
  <2>7. i = j /\ t = u
    BY <1>4, <2>6 DEF TimersDiffer
  <2>. QED BY <2>2, <2>4, <2>7
<1>. QED BY <1>2, <1>3, <1>4

LEMMA LinksOfPlaces ==
  ASSUME NEW s, NEW ids
  PROVE  (\A p \in TimerPlaces(s) : TimerAt(s, p).linked \in ids) <=> AllLinked(s, ids)
<1>1. ASSUME AllLinked(s, ids), NEW p \in TimerPlaces(s) PROVE TimerAt(s, p).linked \in ids
  <2>1. PICK i \in DOMAIN s : \E t \in DOMAIN s[i].timers : p = <<i, t>>
    BY PlacesAre
  <2>2. PICK t \in DOMAIN s[i].timers : p = <<i, t>>
    BY <2>1
  <2>3. TimerAt(s, p) = s[i].timers[t]
    BY <2>2, PlacesAre, Zenon
  <2>. QED BY <1>1, <2>3 DEF AllLinked
<1>2. ASSUME \A p \in TimerPlaces(s) : TimerAt(s, p).linked \in ids PROVE AllLinked(s, ids)
  <2> SUFFICES ASSUME NEW i \in DOMAIN s, NEW t \in DOMAIN s[i].timers
               PROVE  s[i].timers[t].linked \in ids
    BY DEF AllLinked
  <2>1. <<i, t>> \in TimerPlaces(s) /\ TimerAt(s, <<i, t>>) = s[i].timers[t]
    BY PlacesAre
  <2>2. TimerAt(s, <<i, t>>).linked \in ids
    BY <1>2, <2>1, Zenon
  <2>. QED BY <2>1, <2>2
<1>. QED BY <1>1, <1>2, Zenon

LEMMA SchemaIs ==
  ASSUME NEW S, NEW s \in Seq(S)
  PROVE  FitsPlanSchema(s) <=>
           /\ ~Repeats(s) /\ \A i \in DOMAIN s : s[i].after \subseteq Named(s)
           /\ NoCycle(s) /\ TimersDiffer(s) /\ AllLinked(s, Named(s))
BY OnePerId, TimersAreApart, LinksOfPlaces DEF FitsPlanSchema

\* What renaming leaves of a plan's shape.
LEMMA ShapeIsKept ==
  ASSUME NEW s \in Seq(WrittenStep), NEW r, NEW names, Renames(names), IsRenamed(s, r, names)
  PROVE  /\ Repeats(r) <=> Repeats(s)
         /\ (\A i \in DOMAIN r : r[i].after \subseteq Named(r)) <=>
              \A i \in DOMAIN s : s[i].after \subseteq Named(s)
         /\ NoCycle(r) <=> NoCycle(s)
<1>1. Alike(s, r) /\ \A i \in DOMAIN s : r[i].after \subseteq Named(r) <=> s[i].after \subseteq Named(s)
  BY RenamedIsAlike
<1>2. DOMAIN r = DOMAIN s
  BY <1>1 DEF Alike
<1>3. Repeats(r) <=> Repeats(s)
  BY <1>1 DEF Alike, Repeats
<1>4. NoCycle(r) <=> NoCycle(s)
  BY <1>1, AlikeNoCycle, AlikeIsMutual
<1>. QED BY <1>1, <1>2, <1>3, <1>4

\* The ids that the renaming keeps.
Keeps(s, names, kept) ==
  /\ kept \subseteq Names
  /\ \A x \in Named(s) : Renamed(names, x) = x <=> x \in kept

\* With the timers as they were, the plan fits just if they are linked to steps that keep their ids.
LEMMA FitsWithTimersKept ==
  ASSUME NEW s \in Seq(WrittenStep), NEW r, NEW names, NEW kept, Renames(names),
         IsRenamed(s, r, names), Keeps(s, names, kept), \A i \in DOMAIN s : r[i].timers = s[i].timers
  PROVE  FitsPlanSchema(r) <=> FitsPlanSchema(s) /\ AllLinked(s, kept)
<1>1. DOMAIN s = 1..Len(s) /\ Len(s) \in Nat
      /\ \A i \in DOMAIN s : s[i].id \in Names
                             /\ \A t \in DOMAIN s[i].timers : s[i].timers[t].linked \in Names
  BY WrittenFacts
<1>2. r \in Seq(ToSet(r)) /\ DOMAIN r = DOMAIN s
      /\ \A i \in DOMAIN s : r[i].id = Renamed(names, s[i].id)
  BY <1>1 DEF IsRenamed
<1>3. TimersDiffer(r) <=> TimersDiffer(s)
  BY <1>2 DEF TimersDiffer
<1>4. ASSUME NEW l \in Names
      PROVE  l \in Named(r) <=> l \in Named(s) \cap kept
  <2>1. \A x \in Names : Renamed(names, x) \in Nat \/ Renamed(names, x) = x
    BY DEF Renames, Renamed
  <2>2. \A x \in Names : x \notin Nat
    BY PlanIdentityAssumption
  <2>3. \A i \in DOMAIN s : r[i].id = l <=> s[i].id = l /\ Renamed(names, l) = l
    BY <1>1, <1>2, <2>1, <2>2
  <2>. QED BY <1>2, <2>3 DEF Named, Keeps
<1>5. AllLinked(r, Named(r)) <=> AllLinked(s, Named(s)) /\ AllLinked(s, kept)
  <2>1. \A i \in DOMAIN s : \A t \in DOMAIN s[i].timers :
          s[i].timers[t].linked \in Named(r) <=> s[i].timers[t].linked \in Named(s) \cap kept
    BY <1>1, <1>4
  <2>2. AllLinked(r, Named(r)) <=> AllLinked(s, Named(r))
    BY <1>2 DEF AllLinked
  <2>. QED BY <2>1, <2>2 DEF AllLinked
<1>. QED BY <1>2, <1>3, <1>5, SchemaIs, ShapeIsKept

\* With the timers renamed too, it fits as before.
LEMMA FitsWithTimersRenamed ==
  ASSUME NEW s \in Seq(WrittenStep), NEW r, NEW names, NEW alarms, Renames(names),
         IsRenamed(s, r, names), FitsPlanSchema(s),
         \A i \in DOMAIN s :
           /\ DOMAIN r[i].timers = DOMAIN s[i].timers
           /\ \A t \in DOMAIN s[i].timers :
                /\ r[i].timers[t].id = alarms[s[i].timers[t].id]
                /\ r[i].timers[t].linked = Renamed(names, s[i].timers[t].linked),
         \A i, j \in DOMAIN s : \A t \in DOMAIN s[i].timers, u \in DOMAIN s[j].timers :
           alarms[s[i].timers[t].id] = alarms[s[j].timers[u].id] => s[i].timers[t].id = s[j].timers[u].id
  PROVE  FitsPlanSchema(r)
<1>1. DOMAIN s = 1..Len(s) /\ Len(s) \in Nat
  BY WrittenFacts
<1>2. r \in Seq(ToSet(r)) /\ DOMAIN r = DOMAIN s
      /\ \A i \in DOMAIN s : r[i].id = Renamed(names, s[i].id)
  BY <1>1 DEF IsRenamed
<1>3. TimersDiffer(s) /\ AllLinked(s, Named(s))
  BY SchemaIs
<1>4. TimersDiffer(r)
  <2> SUFFICES ASSUME NEW i \in DOMAIN s, NEW j \in DOMAIN s, NEW t \in DOMAIN s[i].timers,
                      NEW u \in DOMAIN s[j].timers, r[i].timers[t].id = r[j].timers[u].id
               PROVE  i = j /\ t = u
    BY <1>2 DEF TimersDiffer
  <2>1. s[i].timers[t].id = s[j].timers[u].id
    OBVIOUS
  <2>. QED BY <1>3, <2>1 DEF TimersDiffer
<1>5. AllLinked(r, Named(r))
  <2> SUFFICES ASSUME NEW i \in DOMAIN s, NEW t \in DOMAIN s[i].timers
               PROVE  Renamed(names, s[i].timers[t].linked) \in Named(r)
    BY <1>2 DEF AllLinked
  <2>1. PICK j \in DOMAIN s : s[i].timers[t].linked = s[j].id
    BY <1>3 DEF AllLinked, Named
  <2>2. r[j].id = Renamed(names, s[i].timers[t].linked)
    BY <1>2, <2>1
  <2>. QED BY <1>2, <2>2 DEF Named
<1>. QED BY <1>2, <1>4, <1>5, SchemaIs, ShapeIsKept

\* r, by its ids, is the plan s means, where the steps in kept keep theirs.
ReadAs(s, r, kept) ==
  /\ Len(r) = Len(s) /\ Cardinality(Named(r)) = Len(r)
  /\ \A i \in DOMAIN r :
       /\ IF s[i].id \in kept THEN r[i].id = s[i].id ELSE r[i].id \notin kept \cup Named(s)
       /\ \A j \in DOMAIN r :
            /\ r[i].id \in r[j].after <=> s[i].id \in s[j].after
            /\ \A t \in DOMAIN r[j].timers :
                 r[i].id = r[j].timers[t].linked <=> s[i].id = s[j].timers[t].linked

LEMMA RenamedIsReadAs ==
  ASSUME NEW s \in Seq(WrittenStep), NEW r, NEW names, NEW kept, Renames(names),
         IsRenamed(s, r, names), Keeps(s, names, kept), FitsPlanSchema(r),
         \A i \in DOMAIN s :
           /\ DOMAIN r[i].timers = DOMAIN s[i].timers
           /\ \A t \in DOMAIN s[i].timers :
                r[i].timers[t].linked = Renamed(names, s[i].timers[t].linked)
  PROVE  ReadAs(s, r, kept)
<1>1. DOMAIN s = 1..Len(s) /\ Len(s) \in Nat
      /\ \A i \in DOMAIN s : s[i].id \in Names
                             /\ \A t \in DOMAIN s[i].timers : s[i].timers[t].linked \in Names
  BY WrittenFacts
<1>2. DOMAIN r = DOMAIN s /\ Len(r) = Len(s)
      /\ \A i \in DOMAIN s : r[i].id = Renamed(names, s[i].id)
  BY <1>1 DEF IsRenamed
<1>3. Cardinality(Named(r)) = Len(r)
  BY DEF FitsPlanSchema
<1>4. ASSUME NEW i \in DOMAIN s
      PROVE  IF s[i].id \in kept THEN r[i].id = s[i].id ELSE r[i].id \notin kept \cup Named(s)
  <2>1. s[i].id \in Names /\ s[i].id \in Named(s) /\ r[i].id = Renamed(names, s[i].id)
    BY <1>1, <1>2 DEF Named
  <2>2. CASE s[i].id \in kept
    BY <2>1, <2>2 DEF Keeps
  <2>3. CASE s[i].id \notin kept
    <3>1. r[i].id \in Nat
      BY <2>1, <2>3 DEF Keeps, Renames, Renamed
    <3>2. kept \cup Named(s) \subseteq Names
      BY <1>1 DEF Keeps, Named
    <3>. QED BY <2>3, <3>1, <3>2, PlanIdentityAssumption
  <2>. QED BY <2>2, <2>3
<1>5. \A i, j \in DOMAIN s : r[i].id \in r[j].after <=> s[i].id \in s[j].after
  BY RenamedIsAlike DEF Alike
<1>6. ASSUME NEW i \in DOMAIN s, NEW j \in DOMAIN s, NEW t \in DOMAIN s[j].timers
      PROVE  r[i].id = r[j].timers[t].linked <=> s[i].id = s[j].timers[t].linked
  <2>1. s[i].id \in Names /\ s[j].timers[t].linked \in Names
    BY <1>1
  <2>2. r[i].id = Renamed(names, s[i].id) /\ r[j].timers[t].linked = Renamed(names, s[j].timers[t].linked)
    BY <1>2
  <2>. QED BY <2>1, <2>2, RenamedIsInjective
<1>. QED BY <1>2, <1>3, <1>4, <1>5, <1>6 DEF ReadAs

\* The numbers given to new steps are numbers, and differ.
LEMMA MintedAreNew ==
  ASSUME NEW s \in Seq(WrittenStep)
  PROVE  /\ DOMAIN MintedSteps(s) = Named(s) /\ IsInjective(MintedSteps(s))
         /\ \A id \in Named(s) : MintedSteps(s)[id] \in Nat
<1>1. DOMAIN s = 1..Len(s) /\ Len(s) \in Nat
  BY WrittenFacts
<1>2. ASSUME NEW id \in Named(s)
      PROVE  MintedSteps(s)[id] \in Nat /\ s[MintedSteps(s)[id]].id = id
  <2> DEFINE I == {i \in DOMAIN s : s[i].id = id}
  <2>1. I \in SUBSET (0..Len(s)) /\ I # {}
    BY <1>1 DEF Named
  <2>2. \E x \in I : \A y \in I : x >= y
    <3> HIDE DEF I
    <3>. QED BY <1>1, <2>1, GreatestNumber
  <2>3. Max(I) \in I
    <3> HIDE DEF I
    <3>. QED BY <2>2 DEF Max
  <2>4. MintedSteps(s)[id] = Max(I)
    BY DEF MintedSteps
  <2>. QED BY <1>1, <2>3, <2>4
<1>3. DOMAIN MintedSteps(s) = Named(s)
  BY DEF MintedSteps
<1>4. IsInjective(MintedSteps(s))
  BY <1>2, <1>3 DEF IsInjective
<1>. QED BY <1>2, <1>3, <1>4

LEMMA NamedAreNames == ASSUME NEW s \in Seq(WrittenStep) PROVE Named(s) \subseteq Names
BY WrittenFacts DEF Named

LEMMA TimersAreMinted ==
  ASSUME NEW s \in Seq(WrittenStep)
  PROVE  \A i, j \in DOMAIN s : \A t \in DOMAIN s[i].timers, u \in DOMAIN s[j].timers :
           MintedTimers(s)[s[i].timers[t].id] = MintedTimers(s)[s[j].timers[u].id]
             => s[i].timers[t].id = s[j].timers[u].id
<1> DEFINE ids == TimerIds(s)
           places == TimerPlaces(s)
<1>1. DOMAIN ids = places /\ \A p \in places : ids[p] = TimerAt(s, p).id
  BY DEF TimerIds
<1>2. ASSUME NEW i \in DOMAIN s, NEW t \in DOMAIN s[i].timers
      PROVE  ids[MintedTimers(s)[s[i].timers[t].id]] = s[i].timers[t].id
  <2> DEFINE id == s[i].timers[t].id
  <2>1. <<i, t>> \in places /\ TimerAt(s, <<i, t>>).id = id
    BY PlacesAre
  <2>2. ids[<<i, t>>] = id
    BY <1>1, <2>1, Zenon
  <2> HIDE DEF ids, places, id
  <2>3. id \in Range(ids)
    BY <1>1, <2>1, <2>2 DEF Range
  <2>4. MintedTimers(s)[id] = CHOOSE p \in places : ids[p] = id
    BY <2>3 DEF MintedTimers, ids, places
  <2>5. ids[MintedTimers(s)[id]] = id
    BY <2>1, <2>2, <2>4
  <2>. QED BY <2>5 DEF ids, id
<1> HIDE DEF ids
<1> SUFFICES ASSUME NEW i \in DOMAIN s, NEW j \in DOMAIN s, NEW t \in DOMAIN s[i].timers,
                    NEW u \in DOMAIN s[j].timers,
                    MintedTimers(s)[s[i].timers[t].id] = MintedTimers(s)[s[j].timers[u].id]
             PROVE  s[i].timers[t].id = s[j].timers[u].id
  OBVIOUS
<1>3. /\ ids[MintedTimers(s)[s[i].timers[t].id]] = s[i].timers[t].id
      /\ ids[MintedTimers(s)[s[j].timers[u].id]] = s[j].timers[u].id
  BY <1>2
<1>. QED BY <1>3

\* A created plan that fits is accepted by the second check too, and read as it was meant.
LEMMA CreatedIsRead ==
  ASSUME NEW s \in Seq(WrittenStep), FitsPlanSchema(s)
  PROVE  FitsPlanSchema(RewriteCreated(s)) /\ ReadAs(s, RewriteCreated(s), {})
<1> DEFINE names == MintedSteps(s)
           alarms == MintedTimers(s)
           r == RewriteCreated(s)
<1>1. DOMAIN s = 1..Len(s) /\ Len(s) \in Nat /\ \A i \in DOMAIN s : s[i] \in WrittenStep
  BY WrittenFacts
<1>2. Named(s) \subseteq Names /\ DOMAIN names = Named(s) /\ IsInjective(names)
      /\ \A id \in Named(s) : names[id] \in Nat
  BY MintedAreNew, NamedAreNames
<1>3. Renames(names)
  BY <1>2 DEF Renames
<1>4. r = [i \in 1..Len(s) |->
             [s[i] EXCEPT
                !.id = names[@], !.after = RenamedAll(names, @),
                !.timers = [t \in DOMAIN @ |-> RewriteTimer(@[t], names, alarms)]]]
  BY <1>1 DEF RewriteCreated
<1>5. ASSUME NEW i \in DOMAIN s
      PROVE  /\ r[i].id = names[s[i].id] /\ r[i].after = RenamedAll(names, s[i].after)
             /\ r[i].timers = [t \in DOMAIN s[i].timers |-> RewriteTimer(s[i].timers[t], names, alarms)]
  <2>1. s[i] \in WrittenStep
    BY <1>1
  <2> HIDE DEF names, alarms, r
  <2>. QED BY <1>1, <1>4, <2>1 DEF WrittenStep
<1> HIDE DEF names, alarms, r
<1>6. r \in Seq(ToSet(r)) /\ Len(r) = Len(s) /\ DOMAIN r = DOMAIN s
  <2>1. r = [i \in 1..Len(s) |-> r[i]] /\ \A i \in 1..Len(s) : r[i] \in ToSet(r)
    BY <1>4 DEF ToSet
  <2>. QED BY <1>1, <2>1
<1>7. IsRenamed(s, r, names)
  <2>1. \A i \in DOMAIN s : Renamed(names, s[i].id) = names[s[i].id]
    BY <1>2 DEF Named, Renamed
  <2>. QED BY <1>5, <1>6, <2>1 DEF IsRenamed
<1>8. Keeps(s, names, {})
  <2>1. \A x \in Named(s) : Renamed(names, x) # x
    BY <1>2, PlanIdentityAssumption DEF Renamed
  <2>. QED BY <2>1 DEF Keeps
<1>9. ASSUME NEW i \in DOMAIN s
      PROVE  /\ DOMAIN r[i].timers = DOMAIN s[i].timers
             /\ \A t \in DOMAIN s[i].timers :
                  /\ r[i].timers[t].id = alarms[s[i].timers[t].id]
                  /\ r[i].timers[t].linked = Renamed(names, s[i].timers[t].linked)
  <2>1. r[i].timers = [t \in DOMAIN s[i].timers |-> RewriteTimer(s[i].timers[t], names, alarms)]
    BY <1>5
  <2>2. ASSUME NEW t \in DOMAIN s[i].timers
        PROVE  /\ r[i].timers[t].id = alarms[s[i].timers[t].id]
               /\ r[i].timers[t].linked = Renamed(names, s[i].timers[t].linked)
    <3>1. r[i].timers[t] = [id |-> alarms[s[i].timers[t].id],
                            linked |-> Renamed(names, s[i].timers[t].linked)]
      BY <2>1 DEF RewriteTimer
    <3>. QED BY <3>1
  <2>. QED BY <2>1, <2>2
<1>10. FitsPlanSchema(r)
  <2>1. \A i, j \in DOMAIN s : \A t \in DOMAIN s[i].timers, u \in DOMAIN s[j].timers :
          alarms[s[i].timers[t].id] = alarms[s[j].timers[u].id] => s[i].timers[t].id = s[j].timers[u].id
    BY TimersAreMinted DEF alarms
  <2>. QED BY <1>3, <1>7, <1>9, <2>1, FitsWithTimersRenamed
<1>11. ReadAs(s, r, {})
  BY <1>3, <1>7, <1>8, <1>9, <1>10, RenamedIsReadAs
<1>. QED BY <1>10, <1>11 DEF r

\* A plan whose timers are kept: it fits just if its timers are linked to kept steps.
LEMMA KeptIsRead ==
  ASSUME NEW s \in Seq(WrittenStep), NEW r, NEW names, NEW kept, Renames(names),
         IsRenamed(s, r, names), Keeps(s, names, kept), \A i \in DOMAIN s : r[i].timers = s[i].timers
  PROVE  /\ FitsPlanSchema(r) <=> FitsPlanSchema(s) /\ AllLinked(s, kept)
         /\ FitsPlanSchema(r) => ReadAs(s, r, kept)
<1>1. FitsPlanSchema(r) <=> FitsPlanSchema(s) /\ AllLinked(s, kept)
  BY FitsWithTimersKept
<1>2. ASSUME FitsPlanSchema(r) PROVE ReadAs(s, r, kept)
  <2>1. AllLinked(s, kept) /\ AllLinked(s, Named(s))
    BY <1>1, <1>2, SchemaIs
  <2>2. \A i \in DOMAIN s : \A t \in DOMAIN s[i].timers :
          Renamed(names, s[i].timers[t].linked) = s[i].timers[t].linked
    BY <2>1 DEF AllLinked, Keeps
  <2>3. \A i \in DOMAIN s :
           /\ DOMAIN r[i].timers = DOMAIN s[i].timers
           /\ \A t \in DOMAIN s[i].timers :
                r[i].timers[t].linked = Renamed(names, s[i].timers[t].linked)
    BY <2>2
  <2>. QED BY <1>2, <2>3, RenamedIsReadAs
<1>. QED BY <1>1, <1>2

LEMMA RewrittenIs ==
  ASSUME NEW step \in WrittenStep, NEW id, NEW names
  PROVE  /\ Rewritten(step, id, names).id = id
         /\ Rewritten(step, id, names).after = RenamedAll(names, step.after)
         /\ Rewritten(step, id, names).timers = step.timers
BY DEF WrittenStep, Rewritten

LEMMA EditedIsRead ==
  ASSUME NEW s \in Seq(WrittenStep), NEW base \in Seq(WrittenStep)
  PROVE  /\ FitsPlanSchema(RewriteEdited(s, base)) <=> FitsPlanSchema(s) /\ AllLinked(s, Named(base))
         /\ FitsPlanSchema(RewriteEdited(s, base)) => ReadAs(s, RewriteEdited(s, base), Named(base))
<1> DEFINE minted == MintedSteps(s)
           names == [id \in Named(s) |-> IF id \in Named(base) THEN id ELSE minted[id]]
           r == RewriteEdited(s, base)
<1>1. DOMAIN s = 1..Len(s) /\ Len(s) \in Nat /\ \A i \in DOMAIN s : s[i] \in WrittenStep
  BY WrittenFacts
<1>2. Named(s) \subseteq Names /\ Named(base) \subseteq Names /\ IsInjective(minted)
      /\ DOMAIN minted = Named(s) /\ \A id \in Named(s) : minted[id] \in Nat
  BY MintedAreNew, NamedAreNames
<1>3. r = [i \in 1..Len(s) |-> Rewritten(s[i], names[s[i].id], names)]
  BY <1>1 DEF RewriteEdited
<1> HIDE DEF minted
<1>4. /\ DOMAIN names = Named(s)
      /\ \A x \in Named(s) : names[x] = IF x \in Named(base) THEN x ELSE minted[x]
  OBVIOUS
<1> HIDE DEF names, r
<1>5. Renames(names)
  <2>1. \A x \in Named(s) : names[x] \in Nat \/ names[x] = x
    BY <1>2, <1>4
  <2>2. ASSUME NEW x \in Named(s), NEW y \in Named(s), names[x] = names[y] PROVE x = y
    <3>1. x \notin Nat /\ y \notin Nat
      BY <1>2, PlanIdentityAssumption
    <3>. QED BY <1>2, <1>4, <2>2, <3>1 DEF IsInjective
  <2>. QED BY <1>2, <1>4, <2>1, <2>2 DEF Renames, IsInjective
<1>6. ASSUME NEW i \in DOMAIN s
      PROVE  /\ r[i].id = names[s[i].id] /\ r[i].after = RenamedAll(names, s[i].after)
             /\ r[i].timers = s[i].timers
  <2>1. s[i] \in WrittenStep
    BY <1>1
  <2>. QED BY <1>1, <1>3, <2>1, RewrittenIs
<1>7. r \in Seq(ToSet(r)) /\ Len(r) = Len(s) /\ DOMAIN r = DOMAIN s
  <2>1. r = [i \in 1..Len(s) |-> r[i]] /\ \A i \in 1..Len(s) : r[i] \in ToSet(r)
    BY <1>3 DEF ToSet
  <2>. QED BY <1>1, <2>1
<1>8. IsRenamed(s, r, names)
  <2>1. \A i \in DOMAIN s : Renamed(names, s[i].id) = names[s[i].id]
    BY <1>4 DEF Named, Renamed
  <2>. QED BY <1>6, <1>7, <2>1 DEF IsRenamed
<1>9. Keeps(s, names, Named(base))
  <2>1. \A x \in Named(s) : Renamed(names, x) = x <=> x \in Named(base)
    BY <1>2, <1>4, PlanIdentityAssumption DEF Renamed
  <2>. QED BY <1>2, <2>1 DEF Keeps
<1>. QED BY <1>5, <1>6, <1>8, <1>9, KeptIsRead DEF r

-------------------------------------------------------------------------------
\* A patch, as the model wrote it and as the runtime rewrites it.

LEMMA AscendingIs ==
  ASSUME NEW n \in Nat, NEW P \in SUBSET (1..n)
  PROVE  Cardinality(P) \in Nat /\ Ascending(P) \in [1..Cardinality(P) -> P]
<1> DEFINE Grows(f) == \A i, j \in DOMAIN f : i < j => f[i] < f[j]
           Some(Q) == /\ IsFiniteSet(Q) /\ Cardinality(Q) \in Nat
                      /\ \E f \in [1..Cardinality(Q) -> Q] : Grows(f)
           Has == {m \in Nat : \A Q \in SUBSET (1..m) : Some(Q)}
<1>1. 0 \in Has
  <2>1. IsFiniteSet({}) /\ Cardinality({}) = 0
    BY FS_EmptySet
  <2>2. \E f \in [1..0 -> {}] : Grows(f)
    <3>1. [i \in 1..0 |-> 0] \in [1..0 -> {}] /\ Grows([i \in 1..0 |-> 0])
      OBVIOUS
    <3>. QED BY <3>1
  <2>3. Some({})
    <3>1. PICK c : c = Cardinality({})
      OBVIOUS
    <3>2. c = 0
      BY <2>1, <3>1
    <3>3. \E f \in [1..c -> {}] : Grows(f)
      BY <2>2, <3>2
    <3>. QED BY <2>1, <3>1, <3>2, <3>3
  <2>4. \A Q \in SUBSET (1..0) : Q = {}
    OBVIOUS
  <2>. QED BY <2>3, <2>4
<1>2. ASSUME NEW m \in Nat, m \in Has PROVE m + 1 \in Has
  <2> SUFFICES ASSUME NEW Q \in SUBSET (1..(m + 1)) PROVE Some(Q)
    OBVIOUS
  <2>1. Q \ {m + 1} \in SUBSET (1..m)
    OBVIOUS
  <2>2. Some(Q \ {m + 1})
    BY <1>2, <2>1
  <2>3. CASE m + 1 \notin Q
    <3>1. Q \ {m + 1} = Q
      BY <2>3
    <3>. QED BY <2>2, <3>1
  <2>4. CASE m + 1 \in Q
    <3> DEFINE c == Cardinality(Q \ {m + 1})
    <3>1. PICK f \in [1..c -> Q \ {m + 1}] : Grows(f)
      BY <2>2
    <3>2. IsFiniteSet(Q) /\ Cardinality(Q) = c + 1 /\ c \in Nat
      <4>1. (Q \ {m + 1}) \cup {m + 1} = Q
        BY <2>4
      <4>2. IsFiniteSet(Q \ {m + 1}) /\ c \in Nat
        BY <2>2
      <4> HIDE DEF c
      <4>. QED BY <4>1, <4>2, FS_AddElement DEF c
    <3> HIDE DEF c
    <3> DEFINE g == [i \in 1..(c + 1) |-> IF i = c + 1 THEN m + 1 ELSE f[i]]
    <3>3. \A i \in 1..(c + 1) : i = c + 1 \/ (i # c + 1 /\ i \in 1..c)
      BY <3>2
    <3>4. g \in [1..(c + 1) -> Q]
      BY <2>4, <3>1, <3>3
    <3>5. Grows(g)
      <4> SUFFICES ASSUME NEW i \in 1..(c + 1), NEW j \in 1..(c + 1), i < j PROVE g[i] < g[j]
        OBVIOUS
      <4>1. i \in 1..c /\ i # c + 1
        BY <3>2
      <4>2. g[i] = f[i] /\ f[i] \in 1..m
        <5>1. f[i] \in Q /\ f[i] # m + 1
          BY <3>1, <4>1
        <5>2. g[i] = f[i]
          BY <4>1
        <5>3. f[i] \in 1..(m + 1)
          BY <5>1
        <5>4. f[i] \in 1..m
          BY <5>1, <5>3
        <5>. QED BY <5>2, <5>4
      <4>3. CASE j = c + 1
        BY <4>2, <4>3
      <4>4. CASE j # c + 1
        BY <3>1, <3>3, <4>1, <4>2, <4>4
      <4>. QED BY <4>3, <4>4
    <3> HIDE DEF g
    <3>. QED BY <3>2, <3>4, <3>5
  <2>. QED BY <2>3, <2>4
<1>3. Nat \subseteq Has
  <2> HIDE DEF Has
  <2>. QED BY <1>1, <1>2, AllNumbers
<1>4. Some(P)
  <2> HIDE DEF Some
  <2>. QED BY <1>3
<1>. QED BY <1>4 DEF Ascending

LEMMA SeqOfItsOwn == ASSUME NEW S, NEW s \in Seq(S) PROVE s \in Seq(ToSet(s))
<1>1. Len(s) \in Nat /\ DOMAIN s = 1..Len(s)
  OBVIOUS
<1>2. \A i \in 1..Len(s) : s[i] \in ToSet(s)
  BY <1>1 DEF ToSet
<1>. QED BY <1>1, <1>2

IsJoined(w, u, v) ==
  /\ w \in Seq(ToSet(w)) /\ Len(w) = Len(u) + Len(v)
  /\ \A i \in 1..Len(u) : w[i] = u[i]
  /\ \A i \in 1..Len(v) : w[Len(u) + i] = v[i]

LEMMA Joined ==
  ASSUME NEW S, NEW u \in Seq(S), NEW v \in Seq(S)
  PROVE  IsJoined(u \o v, u, v)
<1> DEFINE w == u \o v
<1>1. PICK m \in Nat, n \in Nat : Len(u) = m /\ Len(v) = n
  OBVIOUS
<1>2. /\ w \in Seq(S) /\ Len(w) = m + n /\ DOMAIN w = 1..(m + n)
      /\ \A i \in 1..(m + n) : w[i] = IF i <= m THEN u[i] ELSE v[i - m]
  BY <1>1
<1>3. \A i \in 1..m : w[i] = u[i]
  BY <1>2
<1>4. \A i \in 1..n : w[m + i] = v[i]
  <2> TAKE i \in 1..n
  <2>1. m + i \in 1..(m + n) /\ ~(m + i <= m) /\ (m + i) - m = i
    OBVIOUS
  <2>. QED BY <1>2, <2>1
<1>5. w \in Seq(ToSet(w))
  <2> HIDE DEF w
  <2>. QED BY <1>2, SeqOfItsOwn
<1>. QED BY <1>1, <1>2, <1>3, <1>4, <1>5 DEF IsJoined

\* Two patches of the same operations on old steps make plans of the same steps.
SameChanges(a, b) ==
  /\ DOMAIN a = DOMAIN b
  /\ \A k \in DOMAIN a :
       a[k].type = b[k].type /\ (a[k].type # "add_step" => a[k].stepId = b[k].stepId)
\* A step of the one, and the step at its place in the other.
Counterparts(base, a, b, step, other) ==
  \/ \E j \in DOMAIN base : step = base[j] /\ other = base[j]
  \/ \E k \in DOMAIN a : /\ a[k].type = "update_step" /\ a[k].stepId \in Named(base)
                         /\ step = a[k].step /\ other = b[k].step
  \/ \E k \in AddsOf(a) : step = a[k].step /\ other = b[k].step

LEMMA OnAlike ==
  ASSUME NEW a, NEW b, SameChanges(a, b), NEW id, NEW type, type # "add_step"
  PROVE  On(a, id, type) = On(b, id, type)
BY DEF SameChanges, On, Target

LEMMA UpdatedAlike ==
  ASSUME NEW base, NEW a, NEW b, SameChanges(a, b), NEW j \in DOMAIN base
  PROVE  Counterparts(base, a, b, Updated(base[j], a), Updated(base[j], b))
<1>1. PICK U : U = On(a, base[j].id, "update_step")
  OBVIOUS
<1>2. U = On(b, base[j].id, "update_step")
  BY <1>1, OnAlike
<1>3. CASE U = {}
  <2>1. Updated(base[j], a) = base[j] /\ Updated(base[j], b) = base[j]
    BY <1>1, <1>2, <1>3 DEF Updated
  <2>. QED BY <2>1 DEF Counterparts
<1>4. CASE U # {}
  <2>1. PICK k : k = CHOOSE x \in U : TRUE
    OBVIOUS
  <2>2. k \in U
    BY <1>4, <2>1
  <2>3. Updated(base[j], a) = a[k].step
    BY <1>1, <1>4, <2>1, Zenon DEF Updated
  <2>4. Updated(base[j], b) = b[k].step
    BY <1>2, <1>4, <2>1, Zenon DEF Updated
  <2>5. k \in DOMAIN a /\ a[k].type = "update_step" /\ a[k].stepId = base[j].id
    BY <1>1, <2>2 DEF On, Target
  <2>6. a[k].stepId \in Named(base)
    BY <2>5 DEF Named
  <2>. QED BY <2>3, <2>4, <2>5, <2>6 DEF Counterparts
<1>. QED BY <1>3, <1>4

LEMMA PatchedAlike ==
  ASSUME NEW S, NEW base \in Seq(S), NEW T, NEW a \in Seq(T), NEW b, SameChanges(a, b)
  PROVE  /\ Patched(base, a) \in Seq(ToSet(Patched(base, a)))
         /\ Patched(base, b) \in Seq(ToSet(Patched(base, b)))
         /\ Len(Patched(base, a)) = Len(Patched(base, b))
         /\ \A i \in DOMAIN Patched(base, a) :
              Counterparts(base, a, b, Patched(base, a)[i], Patched(base, b)[i])
<1>1. Len(base) \in Nat /\ DOMAIN base = 1..Len(base) /\ Len(a) \in Nat /\ DOMAIN a = 1..Len(a)
  OBVIOUS
<1>2. \A i \in DOMAIN base : On(a, base[i].id, "remove_step") = On(b, base[i].id, "remove_step")
  BY OnAlike
<1>3. AddsOf(a) = AddsOf(b)
  BY DEF SameChanges, AddsOf
<1> DEFINE L == {i \in DOMAIN base : On(a, base[i].id, "remove_step") = {}}
           left == Ascending(L)
           adds == Ascending(AddsOf(a))
           Rest(x) == [i \in DOMAIN left |-> Updated(base[left[i]], x)]
           New(x) == [k \in DOMAIN adds |-> x[adds[k]].step]
<1>4. L = {i \in DOMAIN base : On(b, base[i].id, "remove_step") = {}}
  BY <1>2
<1>5. Patched(base, a) = Rest(a) \o New(a)
  BY DEF Patched
<1>6. Patched(base, b) = Rest(b) \o New(b)
  <2> HIDE DEF L
  <2>. QED BY <1>3, <1>4 DEF Patched
<1>7. PICK m \in Nat : left \in [1..m -> L]
  <2>1. L \in SUBSET (1..Len(base))
    BY <1>1
  <2> HIDE DEF L
  <2>. QED BY <1>1, <2>1, AscendingIs
<1>8. PICK n \in Nat : adds \in [1..n -> AddsOf(a)]
  <2>1. AddsOf(a) \in SUBSET (1..Len(a))
    BY <1>1 DEF AddsOf
  <2>. QED BY <1>1, <2>1, AscendingIs
<1> HIDE DEF L, left, adds
<1>9. ASSUME NEW x
      PROVE  /\ Rest(x) \in [1..m -> {Rest(x)[i] : i \in 1..m}]
             /\ New(x) \in [1..n -> {New(x)[i] : i \in 1..n}]
  BY <1>7, <1>8
<1>10. ASSUME NEW i \in 1..m PROVE Counterparts(base, a, b, Rest(a)[i], Rest(b)[i])
  <2>1. left[i] \in DOMAIN base
    BY <1>7 DEF L
  <2>2. Counterparts(base, a, b, Updated(base[left[i]], a), Updated(base[left[i]], b))
    BY <2>1, UpdatedAlike
  <2>. QED BY <1>7, <2>2
<1>11. ASSUME NEW i \in 1..n PROVE Counterparts(base, a, b, New(a)[i], New(b)[i])
  <2>1. adds[i] \in AddsOf(a) /\ New(a)[i] = a[adds[i]].step /\ New(b)[i] = b[adds[i]].step
    BY <1>8
  <2>. QED BY <2>1 DEF Counterparts
<1> HIDE DEF Rest, New
<1> DEFINE p == Rest(a) \o New(a)
           q == Rest(b) \o New(b)
<1>12. /\ p \in Seq(ToSet(p)) /\ Len(p) = m + n
       /\ \A i \in 1..m : p[i] = Rest(a)[i]
       /\ \A i \in 1..n : p[m + i] = New(a)[i]
  <2>1. PICK u, v : u = Rest(a) /\ v = New(a)
    OBVIOUS
  <2>2. PICK U : u \in Seq(U) /\ v \in Seq(U) /\ Len(u) = m /\ Len(v) = n
    <3>1. PICK V, W : u \in [1..m -> V] /\ v \in [1..n -> W]
      BY <1>9, <2>1
    <3>2. u \in Seq(V \cup W) /\ v \in Seq(V \cup W) /\ Len(u) = m /\ Len(v) = n
      BY <3>1
    <3>. QED BY <3>2
  <2>3. IsJoined(u \o v, u, v)
    BY <2>2, Joined
  <2>4. p = u \o v
    BY <2>1
  <2> HIDE DEF p
  <2>. QED BY <2>1, <2>2, <2>3, <2>4, Zenon DEF IsJoined
<1>13. /\ q \in Seq(ToSet(q)) /\ Len(q) = m + n
       /\ \A i \in 1..m : q[i] = Rest(b)[i]
       /\ \A i \in 1..n : q[m + i] = New(b)[i]
  <2>1. PICK u, v : u = Rest(b) /\ v = New(b)
    OBVIOUS
  <2>2. PICK U : u \in Seq(U) /\ v \in Seq(U) /\ Len(u) = m /\ Len(v) = n
    <3>1. PICK V, W : u \in [1..m -> V] /\ v \in [1..n -> W]
      BY <1>9, <2>1
    <3>2. u \in Seq(V \cup W) /\ v \in Seq(V \cup W) /\ Len(u) = m /\ Len(v) = n
      BY <3>1
    <3>. QED BY <3>2
  <2>3. IsJoined(u \o v, u, v)
    BY <2>2, Joined
  <2>4. q = u \o v
    BY <2>1
  <2> HIDE DEF q
  <2>. QED BY <2>1, <2>2, <2>3, <2>4, Zenon DEF IsJoined
<1> HIDE DEF p, q
<1>14. ASSUME NEW i \in DOMAIN p PROVE Counterparts(base, a, b, p[i], q[i])
  <2>1. i \in 1..(m + n)
    BY <1>12
  <2>2. CASE i \in 1..m
    BY <1>10, <1>12, <1>13, <2>2
  <2>3. CASE i \notin 1..m
    <3>1. i - m \in 1..n /\ m + (i - m) = i
      BY <2>1, <2>3
    <3>2. p[i] = New(a)[i - m] /\ q[i] = New(b)[i - m]
      BY <1>12, <1>13, <3>1
    <3>. QED BY <1>11, <3>1, <3>2
  <2>. QED BY <2>2, <2>3
<1>. QED BY <1>5, <1>6, <1>12, <1>13, <1>14 DEF p, q

LEMMA OperationFacts ==
  ASSUME NEW op \in WrittenOperation
  PROVE  \/ op.type = "add_step" /\ op.step \in WrittenStep /\ op = [type |-> "add_step", step |-> op.step]
         \/ /\ op.type = "update_step" /\ op.stepId \in Names /\ op.step \in WrittenStep
            /\ op = [type |-> "update_step", stepId |-> op.stepId, step |-> op.step]
         \/ op.type = "remove_step" /\ op.stepId \in Names
BY DEF WrittenOperation

LEMMA AddedAreNew ==
  ASSUME NEW ops \in Seq(WrittenOperation)
  PROVE  /\ DOMAIN AddedIds(ops) = Added(ops) /\ Added(ops) \subseteq Names
         /\ IsInjective(AddedIds(ops)) /\ \A id \in Added(ops) : AddedIds(ops)[id] \in Nat
<1>1. DOMAIN ops = 1..Len(ops) /\ Len(ops) \in Nat /\ \A k \in 1..Len(ops) : ops[k] \in WrittenOperation
  BY SeqFacts
<1>2. ASSUME NEW id \in Added(ops)
      PROVE  /\ AddedIds(ops)[id] \in AddsOf(ops) /\ ops[AddedIds(ops)[id]].step.id = id
  <2> DEFINE I == {k \in AddsOf(ops) : ops[k].step.id = id}
  <2>1. I \in SUBSET (0..Len(ops)) /\ I # {}
    BY <1>1 DEF Added, AddsOf
  <2>2. \E x \in I : \A y \in I : x >= y
    <3> HIDE DEF I
    <3>. QED BY <1>1, <2>1, GreatestNumber
  <2>3. Max(I) \in I
    <3> HIDE DEF I
    <3>. QED BY <2>2 DEF Max
  <2>4. AddedIds(ops)[id] = Max(I)
    BY DEF AddedIds
  <2>. QED BY <2>3, <2>4
<1>3. DOMAIN AddedIds(ops) = Added(ops)
  BY DEF AddedIds
<1>4. IsInjective(AddedIds(ops))
  BY <1>2, <1>3 DEF IsInjective
<1>5. \A id \in Added(ops) : AddedIds(ops)[id] \in Nat
  BY <1>1, <1>2 DEF AddsOf
<1>6. Added(ops) \subseteq Names
  <2>1. \A k \in AddsOf(ops) : ops[k].step \in WrittenStep
    <3> TAKE k \in AddsOf(ops)
    <3>1. ops[k] \in WrittenOperation /\ ops[k].type = "add_step"
      BY <1>1 DEF AddsOf
    <3>. QED BY <3>1, OperationFacts
  <2>2. \A k \in AddsOf(ops) : ops[k].step.id \in Names
    BY <2>1 DEF WrittenStep
  <2>. QED BY <2>2 DEF Added
<1>. QED BY <1>3, <1>4, <1>5, <1>6

\* What the runtime makes of an operation.
LEMMA RewrittenFacts ==
  ASSUME NEW ops \in Seq(WrittenOperation), NEW k \in DOMAIN ops
  PROVE  LET names == AddedIds(ops)
             op == RewritePatch(ops)[k]
         IN  /\ op.type = ops[k].type
             /\ op.type # "add_step" => op.stepId = ops[k].stepId
             /\ op.type # "remove_step" =>
                  /\ op.step.id = IF op.type = "add_step" THEN names[ops[k].step.id] ELSE ops[k].stepId
                  /\ op.step.after = RenamedAll(names, ops[k].step.after)
                  /\ op.step.timers = ops[k].step.timers
<1> DEFINE names == AddedIds(ops)
<1>1. ops[k] \in WrittenOperation
  BY SeqFacts
<1>2. /\ ops[k].type = "add_step" =>
           RewritePatch(ops)[k] = [ops[k] EXCEPT !.step = Rewritten(@, names[@.id], names)]
      /\ ops[k].type = "update_step" =>
           RewritePatch(ops)[k] = [ops[k] EXCEPT !.step = Rewritten(@, ops[k].stepId, names)]
      /\ ops[k].type = "remove_step" => RewritePatch(ops)[k] = ops[k]
  BY DEF RewritePatch
<1> HIDE DEF names
<1>3. CASE ops[k].type = "add_step"
  <2>1. PICK step \in WrittenStep : ops[k] = [type |-> "add_step", step |-> step]
    BY <1>1, <1>3, OperationFacts
  <2>2. RewritePatch(ops)[k] = [type |-> "add_step", step |-> Rewritten(step, names[step.id], names)]
    BY <1>2, <2>1
  <2>. QED BY <2>1, <2>2, RewrittenIs DEF names
<1>4. CASE ops[k].type = "update_step"
  <2>1. PICK step \in WrittenStep, id \in Names :
          ops[k] = [type |-> "update_step", stepId |-> id, step |-> step]
    BY <1>1, <1>4, OperationFacts
  <2>2. RewritePatch(ops)[k] = [type |-> "update_step", stepId |-> id,
                                step |-> Rewritten(step, id, names)]
    BY <1>2, <2>1
  <2>. QED BY <2>1, <2>2, RewrittenIs DEF names
<1>5. CASE ops[k].type = "remove_step"
  BY <1>2, <1>5
<1>. QED BY <1>1, <1>3, <1>4, <1>5, OperationFacts

\* The operations as the model meant them.
MeantBy(ops) ==
  [k \in DOMAIN ops |->
     IF ops[k].type = "update_step" THEN [ops[k] EXCEPT !.step.id = ops[k].stepId] ELSE ops[k]]

LEMMA MeantFacts ==
  ASSUME NEW ops \in Seq(WrittenOperation), NEW k \in DOMAIN ops
  PROVE  LET op == MeantBy(ops)[k]
         IN  /\ op \in WrittenOperation /\ op.type = ops[k].type
             /\ op.type # "add_step" => op.stepId = ops[k].stepId
             /\ op.type # "remove_step" =>
                  /\ op.step \in WrittenStep
                  /\ op.step.id = IF op.type = "add_step" THEN ops[k].step.id ELSE ops[k].stepId
                  /\ op.step.after = ops[k].step.after /\ op.step.timers = ops[k].step.timers
<1>1. ops[k] \in WrittenOperation
  BY SeqFacts
<1>2. MeantBy(ops)[k] =
        IF ops[k].type = "update_step" THEN [ops[k] EXCEPT !.step.id = ops[k].stepId] ELSE ops[k]
  BY DEF MeantBy
<1>3. CASE ops[k].type = "update_step"
  <2>1. PICK step \in WrittenStep, id \in Names :
          ops[k] = [type |-> "update_step", stepId |-> id, step |-> step]
    BY <1>1, <1>3, OperationFacts
  <2>2. MeantBy(ops)[k] = [type |-> "update_step", stepId |-> id, step |-> [step EXCEPT !.id = id]]
    BY <1>2, <2>1
  <2>3. [step EXCEPT !.id = id] \in WrittenStep
    BY <2>1 DEF WrittenStep
  <2>4. [step EXCEPT !.id = id].id = id /\ [step EXCEPT !.id = id].after = step.after
        /\ [step EXCEPT !.id = id].timers = step.timers
    BY DEF WrittenStep
  <2> DEFINE new == [step EXCEPT !.id = id]
  <2> HIDE DEF new
  <2>5. MeantBy(ops)[k] \in WrittenOperation
    BY <2>1, <2>2, <2>3 DEF WrittenOperation, new
  <2>6. MeantBy(ops)[k] = [type |-> "update_step", stepId |-> id, step |-> new]
        /\ new.id = id /\ new.after = step.after /\ new.timers = step.timers /\ new \in WrittenStep
    BY <2>2, <2>3, <2>4 DEF new
  <2>. QED BY <2>1, <2>5, <2>6
<1>4. CASE ops[k].type # "update_step"
  BY <1>1, <1>2, <1>4, OperationFacts
<1>. QED BY <1>3, <1>4

LEMMA MeantIsWritten ==
  ASSUME NEW ops \in Seq(WrittenOperation)
  PROVE  /\ MeantBy(ops) \in Seq(WrittenOperation) /\ SameChanges(MeantBy(ops), RewritePatch(ops))
         /\ DOMAIN MeantBy(ops) = DOMAIN ops
<1>1. DOMAIN ops = 1..Len(ops) /\ Len(ops) \in Nat
  OBVIOUS
<1>2. DOMAIN MeantBy(ops) = DOMAIN ops /\ DOMAIN RewritePatch(ops) = DOMAIN ops
  BY DEF MeantBy, RewritePatch
<1>3. MeantBy(ops) \in Seq(WrittenOperation)
  <2>1. \A k \in 1..Len(ops) : MeantBy(ops)[k] \in WrittenOperation
    BY <1>1, MeantFacts
  <2>2. MeantBy(ops) = [k \in 1..Len(ops) |-> MeantBy(ops)[k]]
    BY <1>1 DEF MeantBy
  <2>. QED BY <1>1, <2>1, <2>2
<1>4. \A k \in DOMAIN ops :
        /\ MeantBy(ops)[k].type = RewritePatch(ops)[k].type
        /\ MeantBy(ops)[k].type # "add_step" => MeantBy(ops)[k].stepId = RewritePatch(ops)[k].stepId
  BY MeantFacts, RewrittenFacts
<1>. QED BY <1>2, <1>3, <1>4 DEF SameChanges

\* The patched plan is the one that was meant, with the new steps renamed.
LEMMA PatchIsRead ==
  ASSUME NEW base \in Seq(WrittenStep), FitsPlanSchema(base), NEW ops \in Seq(WrittenOperation),
         Added(ops) \cap Named(base) = {}
  PROVE  LET meant == Patched(base, MeantBy(ops))
             r == Patched(base, RewritePatch(ops))
         IN  /\ meant \in Seq(WrittenStep)
             /\ FitsPlanSchema(r) <=> FitsPlanSchema(meant) /\ AllLinked(meant, Named(base))
             /\ FitsPlanSchema(r) => ReadAs(meant, r, Named(base))
<1> DEFINE names == AddedIds(ops)
           mops == MeantBy(ops)
           rops == RewritePatch(ops)
           meant == Patched(base, mops)
           r == Patched(base, rops)
<1>1. DOMAIN names = Added(ops) /\ Added(ops) \subseteq Names /\ Named(base) \subseteq Names
      /\ IsInjective(names) /\ \A id \in Added(ops) : names[id] \in Nat
  BY AddedAreNew, NamedAreNames
<1>2. /\ mops \in Seq(WrittenOperation) /\ DOMAIN mops = DOMAIN ops
      /\ SameChanges(mops, rops)
  BY MeantIsWritten
<1>3. /\ meant \in Seq(ToSet(meant)) /\ r \in Seq(ToSet(r)) /\ Len(meant) = Len(r)
      /\ \A i \in DOMAIN meant : Counterparts(base, mops, rops, meant[i], r[i])
  BY <1>2, PatchedAlike
<1>4. \A j \in DOMAIN base : base[j] \in WrittenStep /\ base[j].after \subseteq Named(base)
  BY WrittenFacts, SchemaIs
<1>5. ASSUME NEW k \in DOMAIN ops
      PROVE  /\ mops[k].type # "remove_step" => mops[k].step \in WrittenStep
             /\ mops[k].type = "update_step" =>
                  /\ mops[k].step.id = mops[k].stepId /\ rops[k].step.id = mops[k].stepId
             /\ mops[k].type = "add_step" =>
                  /\ mops[k].step.id \in Added(ops) /\ rops[k].step.id = names[mops[k].step.id]
             /\ mops[k].type # "remove_step" =>
                  /\ rops[k].step.after = RenamedAll(names, mops[k].step.after)
                  /\ rops[k].step.timers = mops[k].step.timers
  <2>1. /\ mops[k].type = ops[k].type /\ rops[k].type = ops[k].type
        /\ mops[k].type # "add_step" => mops[k].stepId = ops[k].stepId
        /\ mops[k].type # "remove_step" =>
             /\ mops[k].step \in WrittenStep
             /\ mops[k].step.id = IF mops[k].type = "add_step" THEN ops[k].step.id ELSE ops[k].stepId
             /\ mops[k].step.after = ops[k].step.after /\ mops[k].step.timers = ops[k].step.timers
    BY MeantFacts, RewrittenFacts
  <2>2. rops[k].type # "remove_step" =>
             /\ rops[k].step.id = IF rops[k].type = "add_step" THEN names[ops[k].step.id] ELSE ops[k].stepId
             /\ rops[k].step.after = RenamedAll(names, ops[k].step.after)
             /\ rops[k].step.timers = ops[k].step.timers
    BY RewrittenFacts
  <2>3. ops[k].type = "add_step" => ops[k].step.id \in Added(ops)
    BY DEF Added, AddsOf
  <2> HIDE DEF names, mops, rops
  <2>. QED BY <2>1, <2>2, <2>3
<1> HIDE DEF names, mops, rops, meant, r
<1>6. \A id \in Named(base) : Renamed(names, id) = id
  BY <1>1 DEF Renamed
<1>7. ASSUME NEW i \in DOMAIN meant
      PROVE  /\ meant[i] \in WrittenStep
             /\ r[i].id = Renamed(names, meant[i].id)
             /\ r[i].after = RenamedAll(names, meant[i].after)
             /\ r[i].timers = meant[i].timers
             /\ meant[i].id \in Named(base) \cup Added(ops)
  <2>1. CASE \E j \in DOMAIN base : meant[i] = base[j] /\ r[i] = base[j]
    <3>1. PICK j \in DOMAIN base : meant[i] = base[j] /\ r[i] = base[j]
      BY <2>1
    <3>2. base[j].id \in Named(base) /\ base[j].after \subseteq Named(base) /\ base[j] \in WrittenStep
      BY <1>4 DEF Named
    <3>3. RenamedAll(names, base[j].after) = base[j].after
      BY <1>6, <3>2 DEF RenamedAll
    <3>. QED BY <1>6, <3>1, <3>2, <3>3
  <2>2. CASE \E k \in DOMAIN mops :
               /\ mops[k].type = "update_step" /\ mops[k].stepId \in Named(base)
               /\ meant[i] = mops[k].step /\ r[i] = rops[k].step
    BY <1>2, <1>5, <1>6, <2>2
  <2>3. CASE \E k \in AddsOf(mops) : meant[i] = mops[k].step /\ r[i] = rops[k].step
    <3>1. PICK k \in DOMAIN ops : mops[k].type = "add_step" /\ meant[i] = mops[k].step /\ r[i] = rops[k].step
      BY <1>2, <2>3 DEF AddsOf
    <3>2. mops[k].step.id \in Added(ops) /\ Renamed(names, mops[k].step.id) = names[mops[k].step.id]
      BY <1>1, <1>5, <3>1 DEF Renamed
    <3>. QED BY <1>5, <3>1, <3>2
  <2>. QED BY <1>3, <2>1, <2>2, <2>3 DEF Counterparts
<1>8. Len(meant) \in Nat /\ DOMAIN meant = 1..Len(meant)
  BY <1>3
<1>9. meant \in Seq(WrittenStep)
  <2>1. meant = [i \in 1..Len(meant) |-> meant[i]]
    BY <1>3, <1>8
  <2>2. \A i \in 1..Len(meant) : meant[i] \in WrittenStep
    BY <1>7, <1>8
  <2>. QED BY <1>8, <2>1, <2>2
<1>10. Renames(names)
  BY <1>1 DEF Renames
<1>11. IsRenamed(meant, r, names)
  BY <1>3, <1>7 DEF IsRenamed
<1>12. Keeps(meant, names, Named(base))
  <2>1. \A x \in Named(meant) : x \in Named(base) \cup Added(ops)
    BY <1>7 DEF Named
  <2>2. \A x \in Added(ops) : Renamed(names, x) # x /\ x \notin Named(base)
    BY <1>1, PlanIdentityAssumption DEF Renamed
  <2>. QED BY <1>1, <1>6, <2>1, <2>2 DEF Keeps
<1>13. /\ FitsPlanSchema(r) <=> FitsPlanSchema(meant) /\ AllLinked(meant, Named(base))
       /\ FitsPlanSchema(r) => ReadAs(meant, r, Named(base))
  BY <1>7, <1>9, <1>10, <1>11, <1>12, KeptIsRead
<1>. QED BY <1>9, <1>13 DEF meant, r, mops, rops

\* Operations may be had together: each on a step of its own, the old ones open to change.
MayChange(ops, open) ==
  \A k \in DOMAIN ops :
    /\ \A j \in DOMAIN ops \ {k} : Target(ops[j]) # Target(ops[k])
    /\ ops[k].type # "add_step" => Target(ops[k]) \in open

\* The runtime applies just those, since it adds what the patch adds to the steps affected.
LEMMA PatchApplies ==
  ASSUME NEW base \in Seq(WrittenStep), NEW ops \in Seq(WrittenOperation),
         Added(ops) \cap Named(base) = {}, NEW roots, NEW finished
  PROVE  LET down == Downstream(base, roots)
             affected == RewriteAffected(down, ops)
         IN  /\ Approved(base, down, affected, RewritePatch(ops))
             /\ OperationsApply(base, finished, affected, RewritePatch(ops))
                  <=> MayChange(ops, down \ finished)
<1> DEFINE names == AddedIds(ops)
           rops == RewritePatch(ops)
           down == Downstream(base, roots)
           affected == RewriteAffected(down, ops)
<1>1. DOMAIN names = Added(ops) /\ Added(ops) \subseteq Names /\ Named(base) \subseteq Names
      /\ IsInjective(names) /\ \A id \in Added(ops) : names[id] \in Nat
  BY AddedAreNew, NamedAreNames
<1>2. down \subseteq Named(base)
  BY DEF Downstream
<1>3. Len(ops) \in Nat /\ DOMAIN ops = 1..Len(ops) /\ DOMAIN rops = DOMAIN ops
      /\ \A k \in DOMAIN ops : ops[k] \in WrittenOperation
  <2>1. DOMAIN rops = DOMAIN ops
    BY DEF RewritePatch
  <2> HIDE DEF rops
  <2>. QED BY <2>1, SeqFacts
<1>4. ASSUME NEW k \in DOMAIN ops
      PROVE  /\ rops[k].type = ops[k].type
             /\ ops[k].type = "add_step" =>
                  /\ Target(ops[k]) \in Added(ops)
                  /\ Target(rops[k]) = names[Target(ops[k])] /\ Target(rops[k]) = rops[k].step.id
             /\ ops[k].type # "add_step" =>
                  /\ Target(ops[k]) \in Names /\ Target(rops[k]) = Target(ops[k])
             /\ ops[k].type = "update_step" => rops[k].step.id = Target(rops[k])
  <2>1. ops[k] \in WrittenOperation
    BY <1>3
  <2>2. /\ rops[k].type = ops[k].type
        /\ rops[k].type # "add_step" => rops[k].stepId = ops[k].stepId
        /\ rops[k].type # "remove_step" =>
             rops[k].step.id = IF rops[k].type = "add_step" THEN names[ops[k].step.id] ELSE ops[k].stepId
    BY RewrittenFacts
  <2>3. /\ ops[k].type = "add_step" => ops[k].step.id \in Added(ops)
        /\ ops[k].type # "add_step" => ops[k].stepId \in Names
    BY <2>1, OperationFacts DEF Added, AddsOf
  <2> HIDE DEF rops, names
  <2>. QED BY <2>2, <2>3 DEF Target
<1> HIDE DEF names, rops
<1>5. Added(rops) = {names[id] : id \in Added(ops)}
  <2>1. \A k \in DOMAIN ops : k \in AddsOf(ops) <=> k \in AddsOf(rops)
    BY <1>3, <1>4 DEF AddsOf
  <2>2. \A k \in AddsOf(ops) : rops[k].step.id = names[ops[k].step.id]
    BY <1>4 DEF AddsOf, Target
  <2>3. AddsOf(rops) = AddsOf(ops)
    BY <1>3, <2>1 DEF AddsOf
  <2>. QED BY <2>2, <2>3 DEF Added
<1>6. Added(rops) \subseteq Nat /\ Added(rops) \cap Named(base) = {}
  BY <1>1, <1>5, PlanIdentityAssumption
<1>7. affected = down \cup Added(rops)
  <2>1. \A id \in down : Renamed(names, id) = id
    BY <1>1, <1>2 DEF Renamed
  <2>2. RenamedAll(names, down) = down
    BY <2>1 DEF RenamedAll
  <2>. QED BY <2>2 DEF RewriteAffected, names, rops
<1> HIDE DEF affected
<1>8. Approved(base, down, affected, rops)
  BY <1>2, <1>6, <1>7 DEF Approved
<1> HIDE DEF down
<1>9. ASSUME MayChange(ops, down \ finished) PROVE OperationsApply(base, finished, affected, rops)
  <2> SUFFICES ASSUME NEW k \in DOMAIN ops
               PROVE  /\ Target(rops[k]) \in affected
                      /\ \A j \in 1..(k - 1) : Target(rops[j]) # Target(rops[k])
                      /\ IF rops[k].type = "add_step" THEN Target(rops[k]) \notin Named(base)
                         ELSE Target(rops[k]) \in Named(base) \ finished
                      /\ rops[k].type = "update_step" => rops[k].step.id = Target(rops[k])
    BY <1>3, Zenon DEF OperationsApply
  <2>1. ops[k].type # "add_step" => Target(ops[k]) \in down \ finished
    BY <1>9 DEF MayChange
  <2>2. ASSUME NEW j \in 1..(k - 1) PROVE Target(rops[j]) # Target(rops[k])
    <3>1. j \in DOMAIN ops /\ j # k
      BY <1>3
    <3>2. Target(ops[j]) # Target(ops[k])
      BY <1>9, <3>1 DEF MayChange
    <3>3. /\ Target(rops[j]) = IF ops[j].type = "add_step" THEN names[Target(ops[j])] ELSE Target(ops[j])
          /\ ops[j].type = "add_step" => Target(ops[j]) \in Added(ops)
          /\ ops[j].type # "add_step" => Target(ops[j]) \in Names
      BY <1>4, <3>1
    <3>4. /\ Target(rops[k]) = IF ops[k].type = "add_step" THEN names[Target(ops[k])] ELSE Target(ops[k])
          /\ ops[k].type = "add_step" => Target(ops[k]) \in Added(ops)
          /\ ops[k].type # "add_step" => Target(ops[k]) \in Names
      BY <1>4
    <3>. QED BY <1>1, <3>2, <3>3, <3>4, PlanIdentityAssumption DEF IsInjective
  <2>3. CASE ops[k].type = "add_step"
    <3>1. Target(rops[k]) \in Added(rops)
      BY <1>4, <1>5, <2>3
    <3>. QED BY <1>4, <1>6, <1>7, <2>2, <2>3, <3>1
  <2>4. CASE ops[k].type # "add_step"
    BY <1>2, <1>4, <1>7, <2>1, <2>2, <2>4
  <2>. QED BY <2>3, <2>4
<1>10. ASSUME OperationsApply(base, finished, affected, rops) PROVE MayChange(ops, down \ finished)
  <2>1. ASSUME NEW k \in DOMAIN ops, ops[k].type # "add_step"
        PROVE  Target(ops[k]) \in down \ finished
    <3>1. /\ Target(rops[k]) \in affected
          /\ rops[k].type # "add_step" => Target(rops[k]) \in Named(base) \ finished
      BY <1>3, <1>10, Zenon DEF OperationsApply
    <3>. QED BY <1>4, <1>6, <1>7, <2>1, <3>1
  <2>2. ASSUME NEW k \in DOMAIN ops, NEW j \in DOMAIN ops, j < k
        PROVE  Target(ops[j]) # Target(ops[k])
    <3>1. Target(rops[j]) # Target(rops[k])
      <4>1. j \in 1..(k - 1)
        BY <1>3, <2>2
      <4>. QED BY <1>3, <1>10, <4>1, Zenon DEF OperationsApply
    <3>2. /\ ops[j].type = "add_step" =>
               Target(ops[j]) \in Added(ops) /\ Target(rops[j]) = names[Target(ops[j])]
          /\ ops[j].type # "add_step" =>
               Target(ops[j]) \in Named(base) /\ Target(rops[j]) = Target(ops[j])
      BY <1>2, <1>4, <2>1
    <3>3. /\ ops[k].type = "add_step" =>
               Target(ops[k]) \in Added(ops) /\ Target(rops[k]) = names[Target(ops[k])]
          /\ ops[k].type # "add_step" =>
               Target(ops[k]) \in Named(base) /\ Target(rops[k]) = Target(ops[k])
      BY <1>2, <1>4, <2>1
    <3>. QED BY <3>1, <3>2, <3>3
  <2>3. \A k \in DOMAIN ops : \A j \in DOMAIN ops \ {k} : Target(ops[j]) # Target(ops[k])
    <3> TAKE k \in DOMAIN ops
    <3> TAKE j \in DOMAIN ops \ {k}
    <3>1. j < k \/ k < j
      BY <1>3
    <3>. QED BY <2>2, <3>1
  <2>. QED BY <2>1, <2>3 DEF MayChange
<1>. QED BY <1>8, <1>9, <1>10 DEF names, rops, down, affected

-------------------------------------------------------------------------------
\* An answer, once given, is what the checks of its path made of it.
CreatedAnswer ==
  /\ written \in WrittenPlans /\ FitsPlanSchema(written)
  /\ verdict = "accepted" <=>
       CitesKnown(written, question.sources, TRUE) /\ FitsPlanSchema(RewriteCreated(written))
  /\ verdict = "accepted" => result = RewriteCreated(written)
EditedAnswer ==
  /\ written \in WrittenPlans /\ FitsPlanSchema(written)
  /\ verdict = "accepted" <=>
       /\ CitesKnown(written, question.sources, question.sources # {})
       /\ FitsPlanSchema(RewriteEdited(written, question.base))
  /\ verdict = "accepted" => result = RewriteEdited(written, question.base)
PatchAnswer ==
  LET affected == RewriteAffected(Downstream(question.base, question.roots), written) IN
  /\ written \in WrittenPatches
  /\ verdict = "accepted" <=> CitesForReplan(written) /\ Applies(affected, RewritePatch(written))
  /\ verdict = "accepted" => result = Patched(question.base, RewritePatch(written))

IdentityInv ==
  /\ question \in Questions /\ (verdict = "asking" => written = <<>>)
  /\ written # <<>> =>
       /\ question.path = "create" => CreatedAnswer
       /\ question.path = "edit" => EditedAnswer
       /\ question.path = "replan" => PatchAnswer

LEMMA IdentityBegins == IdentityInit => IdentityInv
BY DEF IdentityInit, IdentityInv

LEMMA IdentityKeeps == IdentityInv /\ [IdentityNext]_identityVars => IdentityInv'
<1> SUFFICES ASSUME IdentityInv, [IdentityNext]_identityVars PROVE IdentityInv'
  OBVIOUS
<1>1. ASSUME CallInVain \/ CallAborted PROVE IdentityInv'
  BY <1>1 DEF CallInVain, CallAborted, Asking, IdentityInv
<1>2. CASE CreatePlan
  <2>1. question.path = "create" /\ question' = question /\ verdict' # "asking"
    BY <1>2 DEF CreatePlan, Settle
  <2>2. CreatedAnswer'
    BY <1>2 DEF CreatePlan, Settle, CreatedAnswer
  <2>. QED BY <2>1, <2>2 DEF IdentityInv
<1>3. CASE EditPlan
  <2>1. question.path = "edit" /\ question' = question /\ verdict' # "asking"
    BY <1>3 DEF EditPlan, Settle
  <2>2. EditedAnswer'
    BY <1>3 DEF EditPlan, Settle, EditedAnswer
  <2>. QED BY <2>1, <2>2 DEF IdentityInv
<1>4. CASE PatchPlan
  <2>1. question.path = "replan" /\ question' = question /\ verdict' # "asking"
    BY <1>4 DEF PatchPlan, Settle
  <2>2. PatchAnswer'
    BY <1>4 DEF PatchPlan, Settle, PatchAnswer, CitesForReplan, Applies
  <2>. QED BY <2>1, <2>2 DEF IdentityInv
<1>5. CASE UNCHANGED identityVars
  BY <1>5 DEF identityVars, IdentityInv, CreatedAnswer, EditedAnswer, PatchAnswer, CitesForReplan, Applies
<1>. QED BY <1>1, <1>2, <1>3, <1>4, <1>5 DEF IdentityNext

LEMMA IdentityIsDue == IdentityInv => IdentityIsRight
<1> SUFFICES ASSUME IdentityInv, written # <<>>, ~Shadows
             PROVE  /\ verdict = "accepted" <=> MayBeHad /\ ~LinkedToNew
                    /\ verdict = "accepted" => ReadAs(Meant, result, Kept)
  BY DEF IdentityIsRight, ReadAs
<1>1. /\ question \in Questions /\ question.path \in {"create", "edit", "replan"}
      /\ question.base \in Seq(WrittenStep) /\ FitsPlanSchema(question.base)
  BY PlanIdentityAssumption DEF IdentityInv
<1>2. LinkedToNew <=> question.path # "create" /\ ~AllLinked(Meant, Kept)
  BY LinksOfPlaces DEF LinkedToNew
<1>3. CASE question.path = "create"
  <2>1. CreatedAnswer /\ written \in Seq(WrittenStep)
    BY <1>3, PlanIdentityAssumption DEF IdentityInv, CreatedAnswer
  <2>2. FitsPlanSchema(RewriteCreated(written)) /\ ReadAs(written, RewriteCreated(written), {})
    BY <2>1, CreatedIsRead DEF CreatedAnswer
  <2>3. Meant = written /\ Kept = {} /\ (MayBeHad <=> CitesKnown(written, question.sources, TRUE))
    BY <1>3 DEF Meant, Kept, MayBeHad
  <2>. QED BY <1>2, <1>3, <2>1, <2>2, <2>3 DEF CreatedAnswer
<1>4. CASE question.path = "edit"
  <2>1. EditedAnswer /\ written \in Seq(WrittenStep)
    BY <1>4, PlanIdentityAssumption DEF IdentityInv, EditedAnswer
  <2> DEFINE r == RewriteEdited(written, question.base)
             base == Named(question.base)
  <2>2. /\ FitsPlanSchema(r) <=> FitsPlanSchema(written) /\ AllLinked(written, base)
        /\ FitsPlanSchema(r) => ReadAs(written, r, base)
    BY <1>1, <2>1, EditedIsRead
  <2>3. /\ Meant = written /\ Kept = base
        /\ MayBeHad <=> CitesKnown(written, question.sources, question.sources # {})
    BY <1>4 DEF Meant, Kept, MayBeHad
  <2>. QED BY <1>2, <1>4, <2>1, <2>2, <2>3 DEF EditedAnswer
<1>5. CASE question.path = "replan"
  <2>1. PatchAnswer /\ written \in Seq(WrittenOperation)
    BY <1>5, PlanIdentityAssumption DEF IdentityInv, PatchAnswer
  <2> DEFINE r == Patched(question.base, RewritePatch(written))
             base == Named(question.base)
             down == Downstream(question.base, question.roots)
             affected == RewriteAffected(down, written)
  <2>2. Added(written) \cap base = {}
    BY <1>5 DEF Shadows
  <2>3. Meant = Patched(question.base, MeantBy(written)) /\ Kept = base
    BY <1>5 DEF Meant, MeantBy, Kept
  <2>4. /\ FitsPlanSchema(r) <=> FitsPlanSchema(Meant) /\ AllLinked(Meant, base)
        /\ FitsPlanSchema(r) => ReadAs(Meant, r, base)
    BY <1>1, <2>1, <2>2, <2>3, PatchIsRead
  <2>5. /\ Approved(question.base, down, affected, RewritePatch(written))
        /\ OperationsApply(question.base, question.finished, affected, RewritePatch(written))
             <=> MayChange(written, down \ question.finished)
    BY <1>1, <2>1, <2>2, PatchApplies
  <2>6. MayBeHad <=> /\ CitesForReplan(written) /\ MayChange(written, down \ question.finished)
                     /\ FitsPlanSchema(Meant)
    BY <1>5 DEF MayBeHad, MayChange
  <2>7. Applies(affected, RewritePatch(written))
          <=> MayChange(written, down \ question.finished) /\ FitsPlanSchema(r)
    BY <2>5 DEF Applies
  <2>8. verdict = "accepted" <=> CitesForReplan(written) /\ Applies(affected, RewritePatch(written))
    BY <2>1 DEF PatchAnswer
  <2>9. verdict = "accepted" => result = r
    BY <2>1 DEF PatchAnswer
  <2> HIDE DEF r, base, down, affected
  <2>10. LinkedToNew <=> ~AllLinked(Meant, base)
    BY <1>2, <1>5, <2>3
  <2>11. verdict = "accepted" <=> MayBeHad /\ ~LinkedToNew
    BY <2>4, <2>6, <2>7, <2>8, <2>10
  <2>12. verdict = "accepted" => ReadAs(Meant, result, Kept)
    BY <2>3, <2>4, <2>7, <2>8, <2>9
  <2>. QED BY <2>11, <2>12
<1>. QED BY <1>1, <1>3, <1>4, <1>5

\* Whatever a model writes, and whatever names it takes: the ids of the runtime take nothing
\* from its answer. Every accepted plan is the one that was meant, with new ids for just the new
\* steps, and an answer is accepted just if it may be had.
THEOREM IdentityAlwaysRight == IdentitySpec => []IdentityIsRight
BY IdentityBegins, IdentityKeeps, IdentityIsDue, PTL DEF IdentitySpec
================================================================================
