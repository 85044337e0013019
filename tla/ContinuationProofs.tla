-------------------------- MODULE ContinuationProofs --------------------------
(***************************************************************************)
(* Theorems about Continuation, for any number of continuations, clients,  *)
(* attempts, evictions and faults.                                         *)
(***************************************************************************)
EXTENDS Continuation, TLAPS

\* A row that is `resuming` holds the claim granted last for it.
HoldsLatest ==
  \A c \in Continuations :
    status[c] = "resuming" => latest[c] = [actor |-> holder[c], attempt |-> attempt[c]]
                              /\ holder[c] \in Actor /\ attempt[c] \in Attempts

\* The two methods that commit and then schedule find the row as they left it.
Scheduling ==
  /\ at \in {"scheduleWake", "scheduleRecovery"} => on \in Continuations
  /\ at = "scheduleRecovery" => status[on] = "resuming"

\* A callback that is under way has already moved its continuation on.
FiringIsPast ==
  firing # NoTimer =>
    /\ at = "bump"
    /\ firing.continuation \in Continuations
    /\ status[firing.continuation] = "wake_pending"

\* ResumeIsRecoverable while the method that will schedule the recovery still runs.
RecoveryUnderWay ==
  \A c \in Continuations :
    status[c] = "resuming" /\ ~over /\ evictions = 0 =>
      RecoverTimer(c, attempt[c]) \in timers \/ (at = "scheduleRecovery" /\ on = c)

Inv ==
  /\ ContinuationTypeOK
  /\ AtMostOneActive
  /\ HoldsLatest
  /\ CompletedByLatestClaim
  /\ Scheduling
  /\ FiringIsPast
  /\ RecoveryUnderWay

-------------------------------------------------------------------------------
LEMMA TimerFields ==
  \A c \in Continuations, n \in Attempts :
    /\ WakeTimer(c) \in Timer /\ WakeTimer(c).continuation = c /\ WakeTimer(c).callback = "wake"
    /\ RecoverTimer(c, n) \in Timer /\ RecoverTimer(c, n).continuation = c
    /\ RecoverTimer(c, n).callback = "recover" /\ RecoverTimer(c, n).attempt = n
<1> SUFFICES ASSUME NEW c \in Continuations, NEW n \in Attempts
             PROVE  /\ WakeTimer(c) \in Timer /\ WakeTimer(c).continuation = c
                    /\ WakeTimer(c).callback = "wake"
                    /\ RecoverTimer(c, n) \in Timer /\ RecoverTimer(c, n).continuation = c
                    /\ RecoverTimer(c, n).callback = "recover" /\ RecoverTimer(c, n).attempt = n
  OBVIOUS
<1>1. WakeTimer(c) \in Timer /\ RecoverTimer(c, n) \in Timer
  BY DEF Timer
<1>2. /\ WakeTimer(c).continuation = c /\ WakeTimer(c).callback = "wake"
      /\ RecoverTimer(c, n).continuation = c
      /\ RecoverTimer(c, n).callback = "recover" /\ RecoverTimer(c, n).attempt = n
  BY DEF WakeTimer, RecoverTimer
<1> QED
  BY <1>1, <1>2

LEMMA ContinuationsAreNat == Continuations \subseteq Nat
BY DEF Continuations

LEMMA InitInv == ContinuationInit => Inv
<1> SUFFICES ASSUME ContinuationInit PROVE Inv
  OBVIOUS
<1> USE DEF ContinuationInit
<1>1. ContinuationTypeOK
  <2>1. /\ attempts \in 0..MaxAttempts /\ evictions \in 0..MaxEvictions /\ faults \in 0..MaxFaults
        /\ on \in Nat
    BY ContinuationBounds
  <2>2. /\ latest \in [Continuations -> [actor : Actor, attempt : Attempts] \cup {NoClaim}]
        /\ completedBy \in [Continuations -> [actor : Actor, attempt : Attempts] \cup {NoClaim}]
    OBVIOUS
  <2> QED
    BY <2>1, <2>2 DEF ContinuationTypeOK, Status, WakeCondition, Labels, EventType
<1>2. AtMostOneActive /\ HoldsLatest /\ CompletedByLatestClaim /\ RecoveryUnderWay
  BY DEF AtMostOneActive, Active, ActiveStatus, HoldsLatest, CompletedByLatestClaim, RecoveryUnderWay
<1>3. Scheduling /\ FiringIsPast
  BY DEF Scheduling, FiringIsPast
<1> QED
  BY <1>1, <1>2, <1>3 DEF Inv

\* What a transition does to one row, and to no other.
LEMMA TransitionRow ==
  ASSUME ContinuationTypeOK, NEW c \in Continuations, NEW from, NEW to \in Status,
         NEW a \in Actor \cup {NoActor}, NEW n \in Attempts \cup {NoAttempt},
         Transition(c, from, to, a, n)
  PROVE  /\ status' \in [Continuations -> Status]
         /\ wake' \in [Continuations -> WakeCondition]
         /\ holder' \in [Continuations -> Actor \cup {NoActor}]
         /\ attempt' \in [Continuations -> Attempts \cup {NoAttempt}]
         /\ announced' \in BOOLEAN
         /\ status'[c] = to /\ holder'[c] = a /\ attempt'[c] = n
         /\ \A d \in Continuations : d # c =>
              status'[d] = status[d] /\ holder'[d] = holder[d] /\ attempt'[d] = attempt[d]
BY DEF Transition, ContinuationTypeOK

\* A step that takes a row out of an active status and starts no resume.
LEMMA ClearedTransitionInv ==
  ASSUME Inv, NEW c \in Continuations, NEW from \in SUBSET ActiveStatus,
         NEW to \in {"wake_pending", "expired", "completed"}, ClearedTransition(c, from, to),
         at' \in {"bump", "idle"}, on' \in Nat, delivering' \in EventType,
         \/ firing' = NoTimer
         \/ /\ firing' \in Timer /\ firing'.continuation = c
            /\ to = "wake_pending" /\ at' = "bump",
         timers' \subseteq Timer, timers \subseteq timers',
         UNCHANGED <<over, attempts, latest, evictions>>,
         faults' \in 0..MaxFaults,
         completedBy' \in [Continuations -> [actor : Actor, attempt : Attempts] \cup {NoClaim}],
         \A d \in Continuations : d # c => completedBy'[d] = completedBy[d],
         to = "completed" => completedBy'[c] = latest[c] /\ latest[c] # NoClaim
  PROVE  Inv'
<1>1. /\ status' \in [Continuations -> Status]
      /\ wake' \in [Continuations -> WakeCondition]
      /\ holder' \in [Continuations -> Actor \cup {NoActor}]
      /\ attempt' \in [Continuations -> Attempts \cup {NoAttempt}]
      /\ announced' \in BOOLEAN
      /\ status'[c] = to
      /\ \A d \in Continuations : d # c =>
           status'[d] = status[d] /\ holder'[d] = holder[d] /\ attempt'[d] = attempt[d]
  <2>1. Transition(c, from, to, NoActor, NoAttempt) /\ to \in Status
    BY DEF ClearedTransition, Status, ActiveStatus
  <2>2. /\ ContinuationTypeOK
        /\ NoActor \in Actor \cup {NoActor} /\ NoAttempt \in Attempts \cup {NoAttempt}
    BY DEF Inv
  <2> HIDE DEF Inv
  <2> QED
    BY <2>1, <2>2, TransitionRow, SMTT(30)
<1>2. Active(c)
  BY DEF ClearedTransition, Transition, Active
<1>3. \A d \in Continuations : d # c => ~Active(d) /\ status'[d] # "resuming"
  BY <1>1, <1>2 DEF Inv, AtMostOneActive, Active, ActiveStatus
<1>4. ContinuationTypeOK'
  BY <1>1 DEF Inv, ContinuationTypeOK, Labels
<1>5. AtMostOneActive'
  BY <1>1, <1>3 DEF AtMostOneActive, Active
<1>6. HoldsLatest' /\ RecoveryUnderWay'
  BY <1>1, <1>3 DEF HoldsLatest, RecoveryUnderWay
<1>7. CompletedByLatestClaim'
  BY <1>1 DEF Inv, CompletedByLatestClaim
<1>8. Scheduling' /\ FiringIsPast'
  BY <1>1 DEF Scheduling, FiringIsPast
<1> QED
  BY <1>4, <1>5, <1>6, <1>7, <1>8 DEF Inv

LEMMA SuspendInv ==
  ASSUME Inv, NEW c \in Continuations, NEW w \in WakeCondition, Suspend(c, w)
  PROVE  Inv'
<1> USE DEF Inv
<1>1. /\ at' \in {"scheduleWake", "bump"} /\ on' = c /\ firing' = NoTimer /\ delivering' = "other"
      /\ UNCHANGED <<over, holder, attempt, attempts, timers, history, evictions, faults>>
  BY DEF Suspend, Proceed
<1>2. /\ status' = [status EXCEPT ![c] = "suspended"]
      /\ wake' = [wake EXCEPT ![c] = w] /\ announced' = FALSE
      /\ \A d \in Continuations : ~Active(d)
  BY DEF Suspend
<1>3. status' \in [Continuations -> Status] /\ status'[c] = "suspended"
      /\ \A d \in Continuations : d # c => status'[d] = status[d]
  BY <1>2 DEF ContinuationTypeOK, Status, ActiveStatus
<1>4. ContinuationTypeOK'
  <2>1. wake' \in [Continuations -> WakeCondition] /\ on' \in Nat /\ announced' \in BOOLEAN
    BY <1>1, <1>2, ContinuationsAreNat DEF ContinuationTypeOK
  <2> QED
    BY <1>1, <1>3, <2>1 DEF ContinuationTypeOK, Labels, EventType, history
<1>5. AtMostOneActive'
  BY <1>2, <1>3 DEF AtMostOneActive, Active
<1>6. HoldsLatest' /\ CompletedByLatestClaim'
  BY <1>1, <1>3 DEF HoldsLatest, CompletedByLatestClaim, history
<1>7. Scheduling' /\ FiringIsPast'
  BY <1>1 DEF Scheduling, FiringIsPast
<1>8. RecoveryUnderWay'
  BY <1>1, <1>2, <1>3 DEF RecoveryUnderWay, Active, ActiveStatus
<1> QED
  BY <1>4, <1>5, <1>6, <1>7, <1>8

LEMMA ScheduleInv ==
  ASSUME Inv, ScheduleWake \/ ScheduleRecovery
  PROVE  Inv'
<1> USE DEF Inv
<1>1. /\ at' = "bump" /\ on' = on /\ firing' = NoTimer /\ delivering' = "other"
      /\ UNCHANGED <<over, row, attempts, announced, history, evictions, faults>>
  BY DEF ScheduleWake, ScheduleRecovery, Proceed
<1>2. /\ timers' \subseteq Timer /\ timers \subseteq timers'
      /\ at = "scheduleRecovery" => RecoverTimer(on, attempt[on]) \in timers'
  <2>1. CASE ScheduleWake
    <3>1. on \in Continuations /\ timers' = timers \cup {WakeTimer(on)} /\ at = "scheduleWake"
      BY <2>1 DEF ScheduleWake, Scheduling
    <3> QED
      BY <3>1 DEF ContinuationTypeOK, Timer
  <2>2. CASE ScheduleRecovery
    <3>1. /\ on \in Continuations /\ attempt[on] \in Attempts
          /\ timers' = timers \cup {RecoverTimer(on, attempt[on])}
      BY <2>2 DEF ScheduleRecovery, Scheduling, HoldsLatest
    <3> QED
      BY <3>1 DEF ContinuationTypeOK, Timer
  <2> QED
    BY <2>1, <2>2
<1>3. ContinuationTypeOK'
  BY <1>1, <1>2 DEF ContinuationTypeOK, Labels, EventType, row, history
<1>4. AtMostOneActive' /\ HoldsLatest' /\ CompletedByLatestClaim'
  BY <1>1 DEF AtMostOneActive, Active, HoldsLatest, CompletedByLatestClaim, row, history
<1>5. Scheduling' /\ FiringIsPast'
  BY <1>1 DEF Scheduling, FiringIsPast
<1>6. RecoveryUnderWay'
  BY <1>1, <1>2 DEF RecoveryUnderWay, row
<1> QED
  BY <1>3, <1>4, <1>5, <1>6

LEMMA ScheduleFailsInv ==
  ASSUME Inv, ScheduleWakeFails \/ ScheduleRecoveryFails
  PROVE  Inv'
<1>1. /\ at' \in {"bump", "idle"} /\ on' \in Nat /\ delivering' = "other" /\ firing' = NoTimer
      /\ UNCHANGED <<over, attempts, history, evictions>>
      /\ faults' \in 0..MaxFaults /\ on \in Continuations
  BY ContinuationsAreNat, ContinuationBounds
  DEF ScheduleWakeFails, ScheduleRecoveryFails, Proceed, Return, Inv, ContinuationTypeOK, Scheduling
<1>2. timers' \subseteq Timer /\ timers \subseteq timers'
  BY <1>1 DEF ScheduleWakeFails, ScheduleRecoveryFails, Inv, ContinuationTypeOK, Timer
<1>3. \/ ClearedTransition(on, ActiveStatus, "expired")
      \/ ClearedTransition(on, {"resuming"}, "wake_pending")
  BY DEF ScheduleWakeFails, ScheduleRecoveryFails
<1> QED
  BY <1>1, <1>2, <1>3, ClearedTransitionInv DEF Inv, ContinuationTypeOK, EventType, history, ActiveStatus

LEMMA CompleteInv ==
  ASSUME Inv, NEW c \in Continuations, NEW a \in Actor, NEW n \in Attempts, Complete(c, a, n)
  PROVE  Inv'
<1>1. /\ at' = "bump" /\ on' \in Nat /\ delivering' = "other" /\ firing' = NoTimer
      /\ UNCHANGED <<over, attempts, timers, latest, evictions, faults>>
      /\ ClearedTransition(c, {"resuming"}, "completed")
      /\ holder[c] = a /\ attempt[c] = n
      /\ completedBy' = [completedBy EXCEPT ![c] = [actor |-> a, attempt |-> n]]
  BY ContinuationsAreNat DEF Complete, Proceed
<1>2. status[c] = "resuming"
  BY <1>1 DEF ClearedTransition, Transition
<1>3. latest[c] = [actor |-> a, attempt |-> n]
  BY <1>1, <1>2 DEF Inv, HoldsLatest
<1>4. /\ completedBy' \in [Continuations -> [actor : Actor, attempt : Attempts] \cup {NoClaim}]
      /\ completedBy'[c] = latest[c]
      /\ \A d \in Continuations : d # c => completedBy'[d] = completedBy[d]
  BY <1>1, <1>3 DEF Inv, ContinuationTypeOK
<1>5. latest[c] # NoClaim
  BY <1>3, ContinuationBounds DEF NoClaim
<1>6. timers' \subseteq Timer /\ faults' \in 0..MaxFaults
  BY <1>1 DEF Inv, ContinuationTypeOK
<1> QED
  BY <1>1, <1>4, <1>5, <1>6, ClearedTransitionInv DEF EventType, ActiveStatus

\* The other three ways out of `suspended` or `resuming`.
LEMMA WakePendingInv ==
  ASSUME Inv, NEW c \in Continuations, NEW from \in {{"suspended"}, {"resuming"}},
         ClearedTransition(c, from, "wake_pending"),
         NEW t \in {NoTimer} \cup {u \in Timer : u.continuation = c}, Proceed("bump", c, t),
         UNCHANGED <<over, attempts, timers, history, evictions, faults>>
  PROVE  Inv'
<1>1. /\ at' = "bump" /\ on' \in Nat /\ delivering' = "other" /\ firing' = t
  BY ContinuationsAreNat DEF Proceed
<1>2. /\ timers' \subseteq Timer /\ faults' \in 0..MaxFaults
      /\ completedBy' \in [Continuations -> [actor : Actor, attempt : Attempts] \cup {NoClaim}]
      /\ UNCHANGED completedBy
  BY DEF Inv, ContinuationTypeOK, history
<1> QED
  BY <1>1, <1>2, ClearedTransitionInv DEF EventType, ActiveStatus, history

LEMMA ClaimInv ==
  ASSUME Inv, NEW c \in Continuations, NEW a \in Actor, Claim(c, a)
  PROVE  Inv'
<1>1. /\ at' = "scheduleRecovery" /\ on' = c /\ firing' = NoTimer /\ delivering' = "other"
      /\ UNCHANGED <<over, timers, completedBy, evictions, faults>>
      /\ attempts' = attempts + 1 /\ attempts < MaxAttempts
      /\ latest' = [latest EXCEPT ![c] = [actor |-> a, attempt |-> attempts + 1]]
      /\ Transition(c, {"suspended", "wake_pending"}, "resuming", a, attempts + 1)
  BY DEF Claim, Proceed
<1>2. attempts + 1 \in Attempts /\ attempts' \in 0..MaxAttempts
  BY <1>1, ContinuationBounds DEF Inv, ContinuationTypeOK, Attempts
<1>3. /\ status' \in [Continuations -> Status]
      /\ wake' \in [Continuations -> WakeCondition]
      /\ holder' \in [Continuations -> Actor \cup {NoActor}]
      /\ attempt' \in [Continuations -> Attempts \cup {NoAttempt}]
      /\ announced' \in BOOLEAN
      /\ status'[c] = "resuming" /\ holder'[c] = a /\ attempt'[c] = attempts + 1
      /\ \A d \in Continuations : d # c =>
           status'[d] = status[d] /\ holder'[d] = holder[d] /\ attempt'[d] = attempt[d]
  <2>1. "resuming" \in Status
    BY DEF Status, ActiveStatus
  <2> QED
    BY <1>1, <1>2, <2>1, TransitionRow DEF Inv
<1>4. Active(c) /\ status[c] # "completed"
  BY <1>1 DEF Transition, Active, ActiveStatus
<1>5. \A d \in Continuations : d # c => ~Active(d)
  BY <1>4 DEF Inv, AtMostOneActive
<1>6. /\ latest' \in [Continuations -> [actor : Actor, attempt : Attempts] \cup {NoClaim}]
      /\ latest'[c] = [actor |-> a, attempt |-> attempts + 1]
      /\ \A d \in Continuations : d # c => latest'[d] = latest[d]
  BY <1>1, <1>2 DEF Inv, ContinuationTypeOK
<1>7. ContinuationTypeOK'
  BY <1>1, <1>2, <1>3, <1>6, ContinuationsAreNat DEF Inv, ContinuationTypeOK, Labels, EventType
<1>8. AtMostOneActive'
  BY <1>3, <1>5 DEF AtMostOneActive, Active
<1>9. HoldsLatest' /\ CompletedByLatestClaim'
  BY <1>1, <1>2, <1>3, <1>6 DEF Inv, HoldsLatest, CompletedByLatestClaim
<1>10. Scheduling' /\ FiringIsPast'
  BY <1>1, <1>3 DEF Scheduling, FiringIsPast
<1>11. RecoveryUnderWay'
  BY <1>1, <1>3, <1>5 DEF RecoveryUnderWay, Active, ActiveStatus
<1> QED
  BY <1>7, <1>8, <1>9, <1>10, <1>11 DEF Inv

LEMMA AppendEventInv ==
  ASSUME Inv, NEW type \in EventType, AppendEvent(type)
  PROVE  Inv'
<1> USE DEF Inv
<1>1. /\ at = "idle" /\ at' = "deliver" /\ delivering' = type /\ announced' = FALSE
      /\ over' \in BOOLEAN /\ ~over
      /\ UNCHANGED <<row, attempts, timers, on, firing, history, evictions, faults>>
  BY DEF AppendEvent
<1>2. ContinuationTypeOK'
  BY <1>1 DEF ContinuationTypeOK, Labels, row, history
<1>3. AtMostOneActive' /\ HoldsLatest' /\ CompletedByLatestClaim'
  BY <1>1 DEF AtMostOneActive, Active, HoldsLatest, CompletedByLatestClaim, row, history
<1>4. Scheduling' /\ FiringIsPast'
  BY <1>1 DEF Scheduling, FiringIsPast, row
<1>5. RecoveryUnderWay'
  BY <1>1 DEF RecoveryUnderWay, row
<1> QED
  BY <1>2, <1>3, <1>4, <1>5

\* A method that ends, or goes on to its pulse, with the rows as they are.
LEMMA RowsKeptInv ==
  ASSUME Inv, at' \in {"idle", "bump"}, on' \in Nat, delivering' \in EventType, firing' = NoTimer,
         announced' \in BOOLEAN, timers' \subseteq Timer, at # "scheduleRecovery" \/ evictions' # 0,
         \A c \in Continuations :
           status[c] = "resuming" /\ ~over /\ RecoverTimer(c, attempt[c]) \in timers
             => RecoverTimer(c, attempt[c]) \in timers',
         evictions' \in 0..MaxEvictions, evictions' = 0 => evictions = 0,
         UNCHANGED <<over, row, attempts, history, faults>>
  PROVE  Inv'
<1> USE DEF Inv
<1>1. ContinuationTypeOK'
  BY DEF ContinuationTypeOK, Labels, row, history
<1>2. AtMostOneActive' /\ HoldsLatest' /\ CompletedByLatestClaim'
  BY DEF AtMostOneActive, Active, HoldsLatest, CompletedByLatestClaim, row, history
<1>3. Scheduling' /\ FiringIsPast'
  BY DEF Scheduling, FiringIsPast
<1>4. RecoveryUnderWay'
  BY DEF RecoveryUnderWay, row
<1> QED
  BY <1>1, <1>2, <1>3, <1>4

LEMMA BumpInv ==
  ASSUME Inv, Announce
  PROVE  Inv'
<1>1. /\ at = "bump" /\ at' = "idle" /\ on' = 1 /\ delivering' = "other" /\ firing' = NoTimer
      /\ announced' = TRUE /\ timers' = timers \ {firing}
      /\ UNCHANGED <<over, row, attempts, history, evictions, faults>>
  BY DEF Announce, Return
<1>2. ASSUME NEW c \in Continuations, status[c] = "resuming"
      PROVE  RecoverTimer(c, attempt[c]) # firing
  <2>1. attempt[c] \in Attempts
    BY <1>2 DEF Inv, HoldsLatest
  <2>2. RecoverTimer(c, attempt[c]) # NoTimer /\ RecoverTimer(c, attempt[c]).continuation = c
    BY <2>1, TimerFields, NoTimerAssumption
  <2> QED
    BY <1>2, <2>2 DEF Inv, FiringIsPast
<1> QED
  BY <1>1, <1>2, RowsKeptInv DEF Inv, ContinuationTypeOK, EventType

LEMMA EvictInv ==
  ASSUME Inv, Evict
  PROVE  Inv'
<1>1. /\ at' = "idle" /\ on' = 1 /\ delivering' = "other" /\ firing' = NoTimer
      /\ evictions' = evictions + 1 /\ evictions < MaxEvictions
      /\ UNCHANGED <<over, row, attempts, timers, announced, history, faults>>
  BY DEF Evict, Return
<1>2. evictions' \in 0..MaxEvictions /\ evictions' # 0
  BY <1>1, ContinuationBounds DEF Inv, ContinuationTypeOK
<1> QED
  BY <1>1, <1>2, RowsKeptInv DEF Inv, ContinuationTypeOK, EventType

LEMMA DeliverEventInv ==
  ASSUME Inv, DeliverEvent
  PROVE  Inv'
<1>1. /\ at = "deliver"
      /\ UNCHANGED <<over, attempts, timers, history, evictions, faults>>
  BY DEF DeliverEvent
<1>2. CASE UNCHANGED <<row, announced>> /\ (Proceed("bump", on, NoTimer) \/ Return)
  <2>1. at' \in {"idle", "bump"} /\ on' \in Nat /\ delivering' = "other" /\ firing' = NoTimer
    BY <1>2 DEF Proceed, Return, Inv, ContinuationTypeOK
  <2> QED
    BY <1>1, <1>2, <2>1, RowsKeptInv DEF Inv, ContinuationTypeOK, EventType
<1>3. CASE \E c \in Continuations :
             ClearedTransition(c, {"suspended"}, "wake_pending") /\ Proceed("bump", c, NoTimer)
  BY <1>1, <1>3, WakePendingInv
<1> QED
  BY <1>2, <1>3 DEF DeliverEvent

LEMMA FireInv ==
  ASSUME Inv, NEW t \in Timer, Fire(t)
  PROVE  Inv'
<1>1. ASSUME NEW c \in Continuations, FireWake(c)
      PROVE  Inv'
  <2>1. WakeTimer(c) \in {NoTimer} \cup {u \in Timer : u.continuation = c}
    BY <1>1, TimerFields DEF FireWake, Inv, ContinuationTypeOK, WakeTimer
  <2> QED
    BY <1>1, <2>1, WakePendingInv DEF FireWake
<1>2. ASSUME NEW c \in Continuations, NEW n \in Attempts, FireRecover(c, n)
      PROVE  Inv'
  <2>1. RecoverTimer(c, n) \in {NoTimer} \cup {u \in Timer : u.continuation = c}
    BY TimerFields
  <2> QED
    BY <1>2, <2>1, WakePendingInv DEF FireRecover
<1>3. CASE FireInVain(t)
  <2>1. /\ at = "idle" /\ timers' = timers \ {t}
        /\ UNCHANGED <<over, row, attempts, method, announced, history, evictions, faults>>
    BY <1>3 DEF FireInVain
  <2>2. firing = NoTimer
    BY <2>1 DEF Inv, FiringIsPast
  <2>3. ASSUME NEW c \in Continuations, status[c] = "resuming", ~over
        PROVE  RecoverTimer(c, attempt[c]) # t
    <3>1. attempt[c] \in Attempts
      BY <2>3 DEF Inv, HoldsLatest
    <3>2. /\ RecoverTimer(c, attempt[c]).continuation = c
          /\ RecoverTimer(c, attempt[c]).callback = "recover"
          /\ RecoverTimer(c, attempt[c]).attempt = attempt[c]
      BY <3>1, TimerFields
    <3> QED
      BY <1>3, <2>3, <3>2 DEF FireInVain, MayFail
  <2> QED
    BY <2>1, <2>2, <2>3, RowsKeptInv DEF Inv, ContinuationTypeOK, method
<1> QED
  BY <1>1, <1>2, <1>3 DEF Fire

LEMMA FailResumeInv ==
  ASSUME Inv, NEW c \in Continuations, NEW a \in Actor, NEW n \in Attempts, FailResume(c, a, n)
  PROVE  Inv'
BY WakePendingInv DEF FailResume

LEMMA NextInv == Inv /\ [ContinuationNext]_continuationVars => Inv'
<1> SUFFICES ASSUME Inv, [ContinuationNext]_continuationVars PROVE Inv'
  OBVIOUS
<1>1. CASE UNCHANGED continuationVars
  BY <1>1 DEF continuationVars, Inv, ContinuationTypeOK, AtMostOneActive, Active, HoldsLatest, CompletedByLatestClaim,
     Scheduling, FiringIsPast, RecoveryUnderWay
<1>2. ASSUME NEW c \in Continuations, NEW w \in WakeCondition, Suspend(c, w) PROVE Inv'
  BY <1>2, SuspendInv
<1>3. ASSUME NEW c \in Continuations, NEW a \in Actor, Claim(c, a) PROVE Inv'
  BY <1>3, ClaimInv
<1>4. ASSUME NEW c \in Continuations, NEW a \in Actor, NEW n \in Attempts,
             Complete(c, a, n) \/ FailResume(c, a, n)
      PROVE  Inv'
  BY <1>4, CompleteInv, FailResumeInv
<1>5. ASSUME NEW type \in EventType, AppendEvent(type) PROVE Inv'
  BY <1>5, AppendEventInv
<1>6. CASE MethodStep
  BY <1>6, ScheduleInv, ScheduleFailsInv, DeliverEventInv, BumpInv DEF MethodStep
<1>7. ASSUME NEW t \in Timer, Fire(t) PROVE Inv'
  BY <1>7, FireInv
<1>8. CASE Evict
  BY <1>8, EvictInv
<1> QED
  BY <1>1, <1>2, <1>3, <1>4, <1>5, <1>6, <1>7, <1>8 DEF ContinuationNext

LEMMA InvHolds == ContinuationSpec => []Inv
BY InitInv, NextInv, PTL DEF ContinuationSpec

-------------------------------------------------------------------------------
\* Type correctness of the rows, the timers and the running method.
THEOREM TypeCorrect == ContinuationSpec => []ContinuationTypeOK
<1>1. Inv => ContinuationTypeOK
  BY DEF Inv
<1> QED
  BY <1>1, InvHolds, PTL

\* A session never has two active continuations.
THEOREM OneActive == ContinuationSpec => []AtMostOneActive
<1>1. Inv => AtMostOneActive
  BY DEF Inv
<1> QED
  BY <1>1, InvHolds, PTL

\* Only the holder of the last claim granted completes a continuation, however many
\* attempts before it failed, were recovered, or answer late.
THEOREM CompletedByItsHolder == ContinuationSpec => []CompletedByLatestClaim
<1>1. Inv => CompletedByLatestClaim
  BY DEF Inv
<1> QED
  BY <1>1, InvHolds, PTL

\* Without an eviction, a resume under way always has its recovery scheduled.
THEOREM ResumeAlwaysRecoverable == ContinuationSpec => []ResumeIsRecoverable
<1>1. Inv => ResumeIsRecoverable
  BY DEF Inv, RecoveryUnderWay, ResumeIsRecoverable
<1> QED
  BY <1>1, InvHolds, PTL

-------------------------------------------------------------------------------
\* A method that returns has sent its pulse, unless a fault, an eviction or the end
\* of the session cut it short; every change leaves a method running.
LEMMA NextAnnounces ==
  ContinuationTypeOK /\ ChangesAreAnnounced /\ [ContinuationNext]_continuationVars
    => ChangesAreAnnounced'
<1> SUFFICES ASSUME ContinuationTypeOK, ChangesAreAnnounced, [ContinuationNext]_continuationVars,
                    at' = "idle", evictions' = 0, faults' = 0, ~over'
             PROVE  announced'
  BY DEF ChangesAreAnnounced
<1>1. CASE UNCHANGED continuationVars
  BY <1>1 DEF continuationVars, ChangesAreAnnounced
<1>2. ASSUME NEW c \in Continuations, NEW w \in WakeCondition, Suspend(c, w)
      PROVE  announced'
  BY <1>2 DEF Suspend, Proceed
<1>3. ASSUME NEW c \in Continuations, NEW a \in Actor, Claim(c, a)
      PROVE  announced'
  BY <1>3 DEF Claim, Proceed
<1>4. ASSUME NEW c \in Continuations, NEW a \in Actor, NEW n \in Attempts,
             Complete(c, a, n) \/ FailResume(c, a, n)
      PROVE  announced'
  BY <1>4 DEF Complete, FailResume, Proceed
<1>5. ASSUME NEW type \in EventType, AppendEvent(type)
      PROVE  announced'
  BY <1>5 DEF AppendEvent
<1>6. CASE MethodStep
  <2>1. CASE ScheduleWake \/ ScheduleRecovery
    BY <2>1 DEF ScheduleWake, ScheduleRecovery, Proceed
  <2>2. CASE ScheduleWakeFails \/ ScheduleRecoveryFails
    BY <2>2 DEF ScheduleWakeFails, ScheduleRecoveryFails, ContinuationTypeOK
  <2>3. CASE DeliverEvent
    BY <2>3 DEF DeliverEvent, Proceed
  <2>4. CASE Announce
    BY <2>4 DEF Announce
  <2> QED
    BY <1>6, <2>1, <2>2, <2>3, <2>4 DEF MethodStep
<1>7. ASSUME NEW t \in Timer, Fire(t)
      PROVE  announced'
  <2>1. CASE FireInVain(t)
    BY <2>1 DEF FireInVain, ChangesAreAnnounced
  <2>2. ASSUME NEW c \in Continuations, FireWake(c)
        PROVE  announced'
    BY <2>2 DEF FireWake, Proceed
  <2>3. ASSUME NEW c \in Continuations, NEW n \in Attempts, FireRecover(c, n)
        PROVE  announced'
    BY <2>3 DEF FireRecover, Proceed
  <2> QED
    BY <1>7, <2>1, <2>2, <2>3 DEF Fire
<1>8. CASE Evict
  BY <1>8 DEF Evict, ContinuationTypeOK
<1> QED
  BY <1>1, <1>2, <1>3, <1>4, <1>5, <1>6, <1>7, <1>8 DEF ContinuationNext

\* When no method runs, clients have been told of every change of a continuation or
\* of the log: each method that commits goes on to bumpPulse, whichever of its
\* paths it takes.
THEOREM AllChangesAnnounced == ContinuationSpec => []ChangesAreAnnounced
<1>1. ContinuationInit => ChangesAreAnnounced
  BY DEF ContinuationInit, ChangesAreAnnounced
<1> QED
  BY <1>1, NextAnnounces, TypeCorrect, PTL DEF ContinuationSpec

===============================================================================
