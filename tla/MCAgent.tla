-------------------------------- MODULE MCAgent --------------------------------
(* The Execution Session agent, method by method: its log of events with the     *)
(* three calls of MCSessionAgent, and its continuations with two clients, two    *)
(* continuations and two resume attempts, enough for a claim that is recovered,  *)
(* claimed again by another client, and completed late by the first, and for a   *)
(* second suspend after a first. The continuations take a method as atomic but   *)
(* for its steps beyond D1, the log takes it apart; a behaviour runs one of the  *)
(* two and leaves the other alone.                                               *)
EXTENDS MCSessionAgent, Continuation

VARIABLE part  \* the one that runs

AgentInit ==
  /\ part \in {"log", "continuation"}
  /\ Init /\ ContinuationInit
  /\ part # "log" => ~exists /\ revision = 0

AgentNext ==
  \/ part = "log" /\ Next /\ UNCHANGED <<part, continuationVars>>
  \/ part = "continuation" /\ ContinuationNext /\ UNCHANGED <<part, vars>>

\* Each part's fairness is asked of its own actions, none of which the other part enables.
AgentSpec ==
  /\ AgentInit /\ [][AgentNext]_<<part, vars, continuationVars>>
  /\ AgentFairness /\ ContinuationFairness
===============================================================================
