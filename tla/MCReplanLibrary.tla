----------------------------- MODULE MCReplanLibrary -----------------------------
(* What requests of clients may meet each other in: the replans of one session, *)
(* with two requests for one and the questions they leave, and the library's    *)
(* artifact, with two compile jobs and two other requests. A behaviour runs one *)
(* of the two and leaves the other alone. Requests and jobs are interchangeable.*)
EXTENDS MCReplan, PlanLibrary, TLC

VARIABLE part  \* the one that runs

BothInit ==
  /\ part \in {"replan", "library"}
  /\ Init /\ LibraryInit
  /\ part # "library" => ~durable /\ objects = {} /\ \A p \in Proposal : proposals[p].status = "none"
  /\ part # "replan" => plan = CHOOSE p \in Plans : TRUE

BothNext ==
  \/ part = "replan" /\ Next /\ UNCHANGED <<part, libraryVars>>
  \/ part = "library" /\ LibraryNext /\ UNCHANGED <<part, vars>>

BothSpec == BothInit /\ [][BothNext]_<<part, vars, libraryVars>>

Symmetry == Permutations(Request) \cup Permutations(Job) \cup Permutations(Edit)
===============================================================================
