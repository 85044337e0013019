-------------------------------- MODULE Timers --------------------------------
(***************************************************************************)
(* The timers of a session: the part of applyRuntimeEvent that handles     *)
(* timer_started, timer_paused, timer_completed and timer_cancelled. A     *)
(* timer that runs has an end, one that is paused a rest. Both come from   *)
(* occurredAt, the time on the clock of whoever sent the event: clients    *)
(* and the voice tools of the server, whose clocks differ. Nothing in the  *)
(* reducer ends a timer that has run out; a client sends the event.        *)
(*                                                                         *)
(* Times are milliseconds, durations and rests whole seconds. What the     *)
(* plan says of its timers is not consulted by the reducer.                *)
(***************************************************************************)
EXTENDS Integers

CONSTANTS
  Timer,      \* timer ids
  Durations,  \* durationSeconds of the events
  Skew,       \* no clock is further than this from the true time
  Offsets,    \* by how much the clocks of the senders are off
  Elapse,     \* how far time goes on between events
  MaxNow,     \* bound on the time
  MaxError    \* bound on the error of a timer that is resumed

ASSUME TimersAssumption ==
  /\ Durations \subseteq Nat
  /\ Skew \in Nat
  /\ Offsets \subseteq -Skew..Skew
  /\ Elapse \subseteq Nat
  /\ MaxNow \in Nat /\ MaxError \in Nat

TimerStatus == {"running", "paused", "completed", "cancelled"}

VARIABLES
  live,    \* the session is neither completed nor cancelled
  now,     \* the true time
  timers,  \* by id: "none", or the status, durationSeconds, remainingSeconds and endsAt
  ran,     \* history: for how long each timer was running
  error    \* history: by how much its rest may be off, downwards and upwards

timerVars == <<live, now, timers, ran, error>>

-------------------------------------------------------------------------------
Unknown == [status |-> "none", duration |-> 0, remaining |-> 0, endsAt |-> 0]

AtLeastZero(x) == IF x < 0 THEN 0 ELSE x

WholeSeconds(x) == AtLeastZero((x + 999) \div 1000)

\* Mutant of RestAt: cut to whole seconds instead of rounded up.
MutantRestCut(t, at) == AtLeastZero((timers[t].endsAt - at) \div 1000)

\* Math.max(0, Math.ceil((endsAt - occurredAt) / 1000)).
RestAt(t, at) == WholeSeconds(timers[t].endsAt - at)

TimersInit ==
  /\ live = TRUE
  /\ now = 0
  /\ timers = [t \in Timer |-> Unknown]
  /\ ran = [t \in Timer |-> 0]
  /\ error = [t \in Timer |-> [down |-> 0, up |-> 0]]

\* Started for the first time, with a duration.
TimerStarted(t, duration, at) ==
  /\ live /\ timers[t].status = "none"
  /\ timers' = [timers EXCEPT ![t] =
       [status |-> "running", duration |-> duration, remaining |-> duration,
        endsAt |-> at + duration * 1000]]
  /\ UNCHANGED <<live, now, ran, error>>

\* A timer that is known goes on with its duration.
SetTimer(t, status, remaining, endsAt) ==
  timers' = [timers EXCEPT ![t] =
    [status |-> status, duration |-> timers[t].duration,
     remaining |-> remaining, endsAt |-> endsAt]]

\* Mutant of TimerResumed: with the duration once more.
MutantResumeAnew(t, at) ==
  /\ live /\ timers[t].status = "paused"
  /\ error[t].up <= MaxError
  /\ SetTimer(t, "running", timers[t].remaining, at + timers[t].duration * 1000)
  /\ UNCHANGED <<live, now, ran, error>>

\* Started after a pause: any duration in the event is ignored.
TimerResumed(t, at) ==
  /\ live /\ timers[t].status = "paused"
  /\ error[t].up <= MaxError
  /\ SetTimer(t, "running", timers[t].remaining, at + timers[t].remaining * 1000)
  /\ UNCHANGED <<live, now, ran, error>>

\* Rounding up adds less than a second; the clocks of start and pause are each off
\* by up to Skew.
Charge(t) ==
  error' = [error EXCEPT ![t] =
    [down |-> error[t].down + 2 * Skew, up |-> error[t].up + 2 * Skew + 999]]

TimerPaused(t, at) ==
  /\ live /\ timers[t].status = "running"
  /\ SetTimer(t, "paused", RestAt(t, at), timers[t].endsAt)
  /\ Charge(t)
  /\ UNCHANGED <<live, now, ran>>

TimerCompleted(t, at) ==
  /\ live /\ timers[t].status \in {"running", "paused"}
  /\ SetTimer(t, "completed", 0, at)
  /\ UNCHANGED <<live, now, ran, error>>

\* A paused timer keeps its rest, a running one is measured.
TimerCancelled(t, at) ==
  /\ live /\ timers[t].status \in {"running", "paused"}
  /\ IF timers[t].status = "paused"
     THEN /\ SetTimer(t, "cancelled", timers[t].remaining, timers[t].endsAt)
          /\ UNCHANGED error
     ELSE /\ SetTimer(t, "cancelled", RestAt(t, at), timers[t].endsAt)
          /\ Charge(t)
  /\ UNCHANGED <<live, now, ran>>

\* The session is completed or cancelled: its timers stay as they are.
SessionEnds ==
  /\ live
  /\ live' = FALSE
  /\ UNCHANGED <<now, timers, ran, error>>

Pass(d) ==
  /\ now + d <= MaxNow
  /\ now' = now + d
  /\ ran' = [t \in Timer |-> IF timers[t].status = "running" THEN ran[t] + d ELSE ran[t]]
  /\ UNCHANGED <<live, timers, error>>

TimersNext ==
  \/ \E t \in Timer, duration \in Durations, off \in Offsets : TimerStarted(t, duration, now + off)
  \/ \E t \in Timer, off \in Offsets : TimerResumed(t, now + off)
  \/ \E t \in Timer, off \in Offsets : TimerPaused(t, now + off)
  \/ \E t \in Timer, off \in Offsets : TimerCompleted(t, now + off)
  \/ \E t \in Timer, off \in Offsets : TimerCancelled(t, now + off)
  \/ SessionEnds
  \/ \E d \in Elapse : Pass(d)

TimersSpec == TimersInit /\ [][TimersNext]_timerVars

-------------------------------------------------------------------------------
TimersTypeOK ==
  /\ live \in BOOLEAN
  /\ now \in Nat
  /\ timers \in [Timer -> [status : TimerStatus \cup {"none"}, duration : Nat,
                           remaining : Nat, endsAt : Int]]
  /\ ran \in [Timer -> Nat]
  /\ error \in [Timer -> [down : Nat, up : Nat]]

\* What is left of a timer that has run for ran[t].
Left(t) == AtLeastZero(timers[t].duration * 1000 - ran[t])

\* However often a timer is paused and resumed, from however many clocks: its rest
\* is what is left of its duration, off by at most a second (upwards) for every
\* pause and the clocks' difference for every run. While it runs and is not
\* overdue, so is the time until its end.
TimersKeepTime ==
  \A t \in Timer :
    /\ timers[t].status \in {"paused", "cancelled"} =>
         /\ timers[t].remaining * 1000 >= Left(t) - error[t].down
         /\ timers[t].remaining * 1000 <= Left(t) + error[t].up
    /\ timers[t].status = "running" =>
         /\ timers[t].endsAt - now >= Left(t) - error[t].down - Skew
              \/ ran[t] > timers[t].duration * 1000
         /\ timers[t].endsAt - now <= Left(t) + error[t].up + Skew
===============================================================================
