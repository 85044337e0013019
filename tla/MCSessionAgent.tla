----------------------------- MODULE MCSessionAgent -----------------------------
(* SessionAgent with three calls over four events: a step that starts, the same *)
(* key sent again under another id, an event that ends the session and needs    *)
(* the step started, and one whose id another session has.                      *)
EXTENDS SessionAgent

CONSTANTS k1, k2, k3, started, ended, i1, i2, i3, iForeign

Started == [id |-> i1, key |-> k1, type |-> started]
StartedAgain == [id |-> i2, key |-> k1, type |-> started]
Ended == [id |-> i3, key |-> k2, type |-> ended]
ForeignEvent == [id |-> iForeign, key |-> k3, type |-> started]

MCEvent == {Started, StartedAgain, Ended, ForeignEvent}
MCForeignId == {iForeign}
MCClosing == {ended}
MCNeeds ==
  [t \in {e.type : e \in Entry} |-> IF t = ended THEN {started} ELSE {}]
===============================================================================
