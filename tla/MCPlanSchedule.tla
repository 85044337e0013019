----------------------------- MODULE MCPlanSchedule -----------------------------
(* PlanSchedule on two independent steps that need the one stove there is: a    *)
(* long one, and a short one that spends an attempt on each of its own lengths  *)
(* until the long one ends. Three attempts and five seconds stand for ten       *)
(* thousand and three hours.                                                    *)
EXTENDS PlanSchedule, TLC

CONSTANTS s1, s2, stove

Cook(id, duration) ==
  [id |-> id, after |-> <<>>, duration |-> duration,
   quantities |-> <<[resourceId |-> stove, quantity |-> 1]>>, requirements |-> <<>>]

TwoCooks ==
  {[steps |-> <<Cook(s1, d1), Cook(s2, d2)>>,
    capacities |-> stove :> [capacity |-> 1, mode |-> "exclusive"], resolve |-> TRUE] :
     d1 \in 1..5, d2 \in 1..5}
===============================================================================
