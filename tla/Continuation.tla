----------------------------- MODULE Continuation -----------------------------
(***************************************************************************)
(* Suspending an Execution Session and resuming it in a new Voice Session: *)
(* D1ContinuationStore and the continuation methods, alarms and event      *)
(* delivery of ExecutionSessionAgent.                                      *)
(*                                                                         *)
(* The agent runs one method at a time (SessionAgent proves what that      *)
(* gives), but a method is several steps: the D1 batch, then the Agents    *)
(* Scheduler, then the pulse.  The isolate may be evicted between them,    *)
(* and the scheduler may refuse.                                           *)
(***************************************************************************)
EXTENDS Integers, FiniteSets

CONSTANTS
  Actor,            \* clients that may claim a resume
  MaxContinuations, \* bound on continuations of the session
  MaxAttempts,      \* bound on resume attempts
  MaxEvictions,     \* bound on evictions of the isolate
  MaxFaults,        \* bound on failing calls of a method once its batch is committed
  NoActor, NoTimer

Continuations == 1..MaxContinuations
Attempts == 1..MaxAttempts
NoAttempt == 0

ASSUME ContinuationBounds ==
  /\ MaxContinuations \in Nat /\ MaxAttempts \in Nat
  /\ MaxEvictions \in Nat /\ MaxFaults \in Nat
  /\ NoActor \notin Actor

\* What a client appends: an event some continuation may wait for, one that ends
\* the session, which a continuation may wait for too, or any other.
EventType == {"awaited", "ending", "other"}
WakeCondition == {"manual", "time", "awaited", "ending"}
ActiveStatus == {"suspended", "wake_pending", "resuming"}
Status == ActiveStatus \cup {"none", "completed", "expired"}

\* Scheduled callbacks: wakeContinuation and recoverStaleContinuationResume.
WakeTimer(c) == [callback |-> "wake", continuation |-> c, attempt |-> NoAttempt]
RecoverTimer(c, n) == [callback |-> "recover", continuation |-> c, attempt |-> n]
Timer == {WakeTimer(c) : c \in Continuations}
           \cup {RecoverTimer(c, n) : c \in Continuations, n \in Attempts}

ASSUME NoTimerAssumption == NoTimer \notin Timer

VARIABLES
  over,       \* the session is completed or cancelled: the reducer throws
  status, wake, holder, attempt, \* by continuation, columns of its row
  attempts,   \* resume attempts made so far; the next gets the next number
  timers,     \* callbacks the scheduler still has to complete
  at,         \* where the agent's running method is, "idle" if there is none
  on,         \* the continuation that method works on
  delivering, \* the type of the event that method delivers
  firing,     \* the timer whose callback that method is
  announced,  \* history: the pulse advanced since D1 last changed
  latest,     \* history, by continuation: the last claim granted, actor and attempt
  completedBy,\* history, by continuation: the claim that completed it
  evictions, faults

NoClaim == [actor |-> NoActor, attempt |-> NoAttempt]

row == <<status, wake, holder, attempt>>
method == <<at, on, delivering, firing>>
history == <<latest, completedBy>>
continuationVars ==
  <<over, status, wake, holder, attempt, attempts, timers, at, on, delivering, firing,
    announced, latest, completedBy, evictions, faults>>

ContinuationInit ==
  /\ over = FALSE
  /\ status = [c \in Continuations |-> "none"]
  /\ wake = [c \in Continuations |-> "manual"]
  /\ holder = [c \in Continuations |-> NoActor]
  /\ attempt = [c \in Continuations |-> NoAttempt]
  /\ attempts = 0
  /\ timers = {}
  /\ at = "idle" /\ on = 1 /\ delivering = "other" /\ firing = NoTimer
  /\ announced = TRUE
  /\ latest = [c \in Continuations |-> NoClaim]
  /\ completedBy = [c \in Continuations |-> NoClaim]
  /\ evictions = 0 /\ faults = 0

-------------------------------------------------------------------------------
\* The store.

Active(c) == status[c] \in ActiveStatus

\* transitionWithEvent, one batch: the row changes if its status is one of `from`,
\* and only then is the event logged and the state written. The attempt and its
\* actor are kept with a claim and cleared by every other transition.
Transition(c, from, to, actor, n) ==
  /\ status[c] \in from
  /\ ~over
  /\ status' = [status EXCEPT ![c] = to]
  /\ holder' = [holder EXCEPT ![c] = actor]
  /\ attempt' = [attempt EXCEPT ![c] = n]
  /\ announced' = FALSE
  /\ UNCHANGED wake

ClearedTransition(c, from, to) == Transition(c, from, to, NoActor, NoAttempt)

\* failResume: the attempt is the one the row has, and the caller its actor or the
\* system.
MayFail(c, n) == status[c] = "resuming" /\ attempt[c] = n

\* The method goes on to `label`.
Proceed(label, c, timer) ==
  /\ at' = label
  /\ on' = c
  /\ firing' = timer
  /\ delivering' = "other"

\* The method resolves or throws.
Return ==
  /\ at' = "idle"
  /\ on' = 1
  /\ firing' = NoTimer
  /\ delivering' = "other"

-------------------------------------------------------------------------------
\* Mutant of Suspend: nobody looks for another active continuation.
MutantSuspendUnchecked(c, condition) ==
  /\ at = "idle"
  /\ ~over
  /\ status[c] = "none" /\ \A d \in 1..(c - 1) : status[d] # "none"
  /\ status' = [status EXCEPT ![c] = "suspended"]
  /\ wake' = [wake EXCEPT ![c] = condition]
  /\ announced' = FALSE
  /\ Proceed(IF condition = "time" THEN "scheduleWake" ELSE "bump", c, NoTimer)
  /\ UNCHANGED <<over, holder, attempt, attempts, timers, history, evictions, faults>>

\* suspendContinuation: no other continuation of the session is active, and the
\* row, the event and the state are one batch. Its first free id stands for any.
Suspend(c, condition) ==
  /\ at = "idle"
  /\ ~over
  /\ \A d \in Continuations : ~Active(d)
  /\ status[c] = "none" /\ \A d \in 1..(c - 1) : status[d] # "none"
  /\ status' = [status EXCEPT ![c] = "suspended"]
  /\ wake' = [wake EXCEPT ![c] = condition]
  /\ announced' = FALSE
  /\ Proceed(IF condition = "time" THEN "scheduleWake" ELSE "bump", c, NoTimer)
  /\ UNCHANGED <<over, holder, attempt, attempts, timers, history, evictions, faults>>

\* The second step of a timed suspend.
ScheduleWake ==
  /\ at = "scheduleWake"
  /\ timers' = timers \cup {WakeTimer(on)}
  /\ Proceed("bump", on, NoTimer)
  /\ UNCHANGED <<over, row, attempts, announced, history, evictions, faults>>

\* The scheduler refused, or its id could not be stored: the continuation expires,
\* and the caller gets the error.
ScheduleWakeFails ==
  /\ at = "scheduleWake"
  /\ faults < MaxFaults
  /\ faults' = faults + 1
  /\ ClearedTransition(on, ActiveStatus, "expired")
  /\ timers' \in {timers, timers \cup {WakeTimer(on)}}
  /\ Proceed("bump", on, NoTimer)
  /\ UNCHANGED <<over, attempts, history, evictions>>

\* claimContinuationResume.
Claim(c, a) ==
  /\ at = "idle"
  /\ attempts < MaxAttempts
  /\ Transition(c, {"suspended", "wake_pending"}, "resuming", a, attempts + 1)
  /\ attempts' = attempts + 1
  /\ latest' = [latest EXCEPT ![c] = [actor |-> a, attempt |-> attempts + 1]]
  /\ Proceed("scheduleRecovery", c, NoTimer)
  /\ UNCHANGED <<over, timers, completedBy, evictions, faults>>

\* Mutant of ScheduleRecovery: the payload has no attempt, so that an idempotent
\* schedule finds the timer of an attempt before and adds none.
MutantOneRecoveryPerContinuation ==
  /\ at = "scheduleRecovery"
  /\ timers' = IF \E n \in Attempts : RecoverTimer(on, n) \in timers
               THEN timers ELSE timers \cup {RecoverTimer(on, attempt[on])}
  /\ Proceed("bump", on, NoTimer)
  /\ UNCHANGED <<over, row, attempts, announced, history, evictions, faults>>

\* The second step of a claim.
ScheduleRecovery ==
  /\ at = "scheduleRecovery"
  /\ timers' = timers \cup {RecoverTimer(on, attempt[on])}
  /\ Proceed("bump", on, NoTimer)
  /\ UNCHANGED <<over, row, attempts, announced, history, evictions, faults>>

\* The scheduler refused: the claim is undone and the method throws, without a
\* pulse.
ScheduleRecoveryFails ==
  /\ at = "scheduleRecovery"
  /\ faults < MaxFaults
  /\ faults' = faults + 1
  /\ ClearedTransition(on, {"resuming"}, "wake_pending")
  /\ Return
  /\ UNCHANGED <<over, attempts, timers, history, evictions>>

\* Mutant of Complete: any attempt of the actor will do.
MutantCompleteByAnyAttempt(c, a, n) ==
  /\ at = "idle"
  /\ n <= attempts
  /\ holder[c] = a
  /\ ClearedTransition(c, {"resuming"}, "completed")
  /\ completedBy' = [completedBy EXCEPT ![c] = [actor |-> a, attempt |-> n]]
  /\ Proceed("bump", c, NoTimer)
  /\ UNCHANGED <<over, attempts, timers, latest, evictions, faults>>

\* completeContinuation. Every client may know every attempt id, from the pulse or
\* a snapshot, and may call however long after.
Complete(c, a, n) ==
  /\ at = "idle"
  /\ n <= attempts
  /\ holder[c] = a /\ attempt[c] = n
  /\ ClearedTransition(c, {"resuming"}, "completed")
  /\ completedBy' = [completedBy EXCEPT ![c] = [actor |-> a, attempt |-> n]]
  /\ Proceed("bump", c, NoTimer)
  /\ UNCHANGED <<over, attempts, timers, latest, evictions, faults>>

\* failContinuationResume, likewise.
FailResume(c, a, n) ==
  /\ at = "idle"
  /\ n <= attempts
  /\ holder[c] = a /\ MayFail(c, n)
  /\ ClearedTransition(c, {"resuming"}, "wake_pending")
  /\ Proceed("bump", c, NoTimer)
  /\ UNCHANGED <<over, attempts, timers, history, evictions, faults>>

-------------------------------------------------------------------------------
\* The scheduler calls back once the time of a timer has come and deletes it when
\* the callback has ended, so a callback an eviction cut off is made again.

\* Mutant of FireWake: the row is looked for in another status, and left.
MutantWakeMisses(c) ==
  /\ at = "idle" /\ WakeTimer(c) \in timers
  /\ timers' = timers \ {WakeTimer(c)}
  /\ UNCHANGED <<over, row, attempts, method, announced, history, evictions, faults>>

\* Mutant of FireRecover: the system is not exempt from the check of the actor.
MutantSystemMayNotRecover(c, n) ==
  /\ at = "idle" /\ RecoverTimer(c, n) \in timers
  /\ timers' = timers \ {RecoverTimer(c, n)}
  /\ UNCHANGED <<over, row, attempts, method, announced, history, evictions, faults>>

\* Mutant of FireRecover: no pulse.
MutantRecoverSilently(c, n) ==
  /\ at = "idle" /\ RecoverTimer(c, n) \in timers
  /\ MayFail(c, n)
  /\ ClearedTransition(c, {"resuming"}, "wake_pending")
  /\ timers' = timers \ {RecoverTimer(c, n)}
  /\ UNCHANGED <<over, attempts, method, history, evictions, faults>>

FireWake(c) ==
  /\ at = "idle" /\ WakeTimer(c) \in timers
  /\ ClearedTransition(c, {"suspended"}, "wake_pending")
  /\ Proceed("bump", c, WakeTimer(c))
  /\ UNCHANGED <<over, attempts, timers, history, evictions, faults>>

FireRecover(c, n) ==
  /\ at = "idle" /\ RecoverTimer(c, n) \in timers
  /\ MayFail(c, n)
  /\ ClearedTransition(c, {"resuming"}, "wake_pending")
  /\ Proceed("bump", c, RecoverTimer(c, n))
  /\ UNCHANGED <<over, attempts, timers, history, evictions, faults>>

\* The callback finds nothing to do, or the reducer throws because the session is
\* over.
FireInVain(t) ==
  LET c == t.continuation
  IN  /\ at = "idle" /\ t \in timers
      /\ \/ over
         \/ t.callback = "wake" /\ status[c] # "suspended"
         \/ t.callback = "recover" /\ ~MayFail(c, t.attempt)
      /\ timers' = timers \ {t}
      /\ UNCHANGED <<over, row, attempts, method, announced, history, evictions, faults>>

-------------------------------------------------------------------------------
\* appendEvent of a client.
AppendEvent(type) ==
  /\ at = "idle"
  /\ ~over
  /\ over' = (type = "ending")
  /\ announced' = FALSE
  /\ at' = "deliver" /\ delivering' = type
  /\ UNCHANGED <<row, attempts, timers, on, firing, history, evictions, faults>>

\* publishAfterMutation, wakeForEvent: the event wakes the continuation waiting for
\* its type, unless it has just ended the session: then the reducer throws.
DeliverEvent ==
  /\ at = "deliver"
  /\ LET waiting == {c \in Continuations : status[c] = "suspended" /\ wake[c] = delivering}
     IN  \/ /\ waiting = {}
            /\ Proceed("bump", on, NoTimer)
            /\ UNCHANGED <<row, announced>>
         \/ \E c \in waiting :
              /\ ClearedTransition(c, {"suspended"}, "wake_pending")
              /\ Proceed("bump", c, NoTimer)
         \/ /\ waiting # {} /\ over
            /\ Return
            /\ UNCHANGED <<row, announced>>
  /\ UNCHANGED <<over, attempts, timers, history, evictions, faults>>

\* bumpPulse; the method ends, and the timer it was the callback of is done.
Announce ==
  /\ at = "bump"
  /\ announced' = TRUE
  /\ timers' = timers \ {firing}
  /\ Return
  /\ UNCHANGED <<over, row, attempts, history, evictions, faults>>

\* The isolate is evicted in the middle of a method.
Evict ==
  /\ at # "idle"
  /\ evictions < MaxEvictions
  /\ evictions' = evictions + 1
  /\ Return
  /\ UNCHANGED <<over, row, attempts, timers, announced, history, faults>>

MethodStep ==
  \/ ScheduleWake
  \/ ScheduleWakeFails
  \/ ScheduleRecovery
  \/ ScheduleRecoveryFails
  \/ DeliverEvent
  \/ Announce

Fire(t) ==
  \/ \E c \in Continuations : t = WakeTimer(c) /\ FireWake(c)
  \/ \E c \in Continuations, n \in Attempts : t = RecoverTimer(c, n) /\ FireRecover(c, n)
  \/ FireInVain(t)

ContinuationNext ==
  \/ \E c \in Continuations, w \in WakeCondition : Suspend(c, w)
  \/ \E c \in Continuations, a \in Actor : Claim(c, a)
  \/ \E c \in Continuations, a \in Actor, n \in Attempts : Complete(c, a, n)
  \/ \E c \in Continuations, a \in Actor, n \in Attempts : FailResume(c, a, n)
  \/ \E type \in EventType : AppendEvent(type)
  \/ MethodStep
  \/ \E t \in Timer : Fire(t)
  \/ Evict

ContinuationSpec == ContinuationInit /\ [][ContinuationNext]_continuationVars

\* A method that runs ends. Due callbacks get turns between the clients' calls,
\* however many come, because the write chain is first come first served: hence strong
\* fairness. The platform owes it to each timer; less is enough, as attempts are bounded.
ContinuationFairness ==
  /\ WF_continuationVars(MethodStep)
  /\ SF_continuationVars(\E t \in Timer : Fire(t))

FairContinuation == ContinuationSpec /\ ContinuationFairness

-------------------------------------------------------------------------------
Labels == {"idle", "scheduleWake", "scheduleRecovery", "deliver", "bump"}

\* Type invariant.
ContinuationTypeOK ==
  /\ over \in BOOLEAN
  /\ status \in [Continuations -> Status]
  /\ wake \in [Continuations -> WakeCondition]
  /\ holder \in [Continuations -> Actor \cup {NoActor}]
  /\ attempt \in [Continuations -> Attempts \cup {NoAttempt}]
  /\ attempts \in 0..MaxAttempts
  /\ timers \subseteq Timer
  /\ at \in Labels
  /\ on \in Nat
  /\ delivering \in EventType
  /\ firing \in Timer \cup {NoTimer}
  /\ announced \in BOOLEAN
  /\ latest \in [Continuations -> [actor : Actor, attempt : Attempts] \cup {NoClaim}]
  /\ completedBy \in [Continuations -> [actor : Actor, attempt : Attempts] \cup {NoClaim}]
  /\ evictions \in 0..MaxEvictions
  /\ faults \in 0..MaxFaults

\* A session waits at one place only: it has at most one active continuation.
AtMostOneActive ==
  \A c, d \in Continuations : Active(c) /\ Active(d) => c = d

\* A resume ends by the client that holds it: whoever completes a continuation has
\* the attempt granted last for it, however late the answers of attempts before,
\* failed or recovered, come in.
CompletedByLatestClaim ==
  \A c \in Continuations :
    status[c] = "completed" => completedBy[c] = latest[c] /\ latest[c] # NoClaim

\* A client that vanishes after its claim is recovered from: as long as no eviction
\* hit the claim, a resume under way has its recovery scheduled.
ResumeIsRecoverable ==
  \A c \in Continuations :
    status[c] = "resuming" /\ at = "idle" /\ ~over /\ evictions = 0 =>
      RecoverTimer(c, attempt[c]) \in timers

\* Clients learn of every change: when no method runs, the pulse has advanced since
\* D1 last changed, if no eviction, no fault of the scheduler and no end of the
\* session came in between (each of which may leave a change unannounced).
ChangesAreAnnounced ==
  at = "idle" /\ evictions = 0 /\ faults = 0 /\ ~over => announced

\* A timed continuation whose wake is scheduled does not stay suspended, even if
\* the callback is cut off and made again.
TimedWakeHappens ==
  \A c \in Continuations :
    status[c] = "suspended" /\ WakeTimer(c) \in timers ~> status[c] # "suspended" \/ over

\* A resume whose recovery is scheduled does not stay `resuming` under that attempt.
StaleResumeEnds ==
  \A c \in Continuations, n \in Attempts :
    MayFail(c, n) /\ RecoverTimer(c, n) \in timers ~> ~MayFail(c, n) \/ over

\* What docs/resume-protocol.md says of a suspend: saving the continuation and
\* scheduling its wake are one transaction. So, when no method runs, a continuation
\* suspended until a time has its wake scheduled.
TimedSuspendIsScheduled ==
  \A c \in Continuations :
    status[c] = "suspended" /\ wake[c] = "time" /\ at = "idle" /\ ~over =>
      WakeTimer(c) \in timers
===============================================================================
