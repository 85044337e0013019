----------------------------- MODULE MCContinuation -----------------------------
(* Continuation by itself, for the suspend that an eviction leaves unscheduled.  *)
EXTENDS Continuation
===============================================================================
