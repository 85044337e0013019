--------------------------------- MODULE Replan ---------------------------------
(***************************************************************************)
(* Replanning of a running session. A request takes a snapshot, has a      *)
(* language model assess it and write a patch, and only then calls the     *)
(* agent, which checks the patch against the state of that moment: it      *)
(* records a failure, applies the patch, or keeps it until a human         *)
(* confirms it. Work goes on meanwhile, in the log of events.              *)
(*                                                                         *)
(* The session itself is ExecutionState. Methods of the agent are atomic   *)
(* here (SessionAgent shows why they may be), requests are not. The model  *)
(* may answer anything: a patch is any change of the assessed plan, given  *)
(* by the plan it leads to. That the affected steps it names are closed    *)
(* under dependents restricts nothing then, and an operation that replaces *)
(* a step by itself is left out.                                           *)
(***************************************************************************)
EXTENDS Integers, Sequences, FiniteSets

CONSTANTS
  Step, Body, Criterion, Plans,  \* as in ExecutionState
  Request,      \* POST replans under way at the same time
  Confirmation, \* POST confirm under way at the same time
  Asked,        \* the modes requests ask for
  Window,       \* DEFAULT_RECENT_EVENT_LIMIT, the events a snapshot carries
  MaxEvents,    \* bound on the events of the session
  MaxTimers,    \* bound on timers that run or are paused
  MaxRequests,  \* bound on requests
  MaxDeploys,   \* bound on changes of the configured domain version
  MaxInputs     \* bound on changes of the normalized input

ASSUME BoundsAssumption ==
  /\ Asked \subseteq {"automatic", "confirm", "suggest"}
  /\ Window \in Nat \ {0}
  /\ {MaxEvents, MaxTimers, MaxRequests, MaxDeploys, MaxInputs} \subseteq Nat

VARIABLES
  session, plan, stepStates, criterionEvaluations, \* as in ExecutionState
  timers,        \* how many timers of the session are running, and how many paused
  log,           \* runtime_events, in the order of their rowid
  failures,      \* attempt ids of the failures recorded by appendReplanFailure
  patches,       \* plan_patches, in the order of their rowid
  input,         \* normalized_inputs.revision
  configured,    \* domainVersion of the host's configuration
  requests,      \* the requests under way
  confirmations, \* the confirmations under way
  asked          \* number of requests made

E == INSTANCE ExecutionState

ASSUME PlansAssumption == \A p \in Plans : E!IsPlan(p)

work == <<session, plan, stepStates, criterionEvaluations>>
calls == <<requests, confirmations, asked>>
vars == <<session, plan, stepStates, criterionEvaluations, timers, log, failures, patches,
          input, configured, requests, confirmations, asked>>

-------------------------------------------------------------------------------
\* Events, by what a replan makes of their type: `audit` is replan_proposed,
\* replan_failed or an event of a continuation, `pause` is session_paused,
\* timer_paused or timer_cancelled, `news` is every type without one of its own.
AuditType == {"audit", "plan_updated"}
EventType == AuditType \cup {"pause", "step_paused", "news"}
NoStep == "no step"
Event(type, s) == [type |-> type, step |-> s]

\* lastOperationalEventId over the events of the given positions: 0 for null.
LastOperational(positions) ==
  LET operational == {i \in positions : log[i].type \notin AuditType}
  IN  IF operational = {} THEN 0
      ELSE CHOOSE i \in operational : \A j \in operational : j <= i

\* currentReplanBaseEventId: over the whole log.
Cursor == LastOperational(DOMAIN log)

\* The events of a snapshot.
Recent == {i \in DOMAIN log : i > Len(log) - Window}

\* Mutant of OnlyInterruptionsSince: any step may have been paused, and started before.
MutantStepsMayMove(base, active) ==
  \A i \in DOMAIN log : i > base => log[i].type # "plan_updated"

\* hasOnlyInterruptionEventsSinceBase.
OnlyInterruptionsSince(base, active) ==
  \A i \in DOMAIN log : i > base =>
    \/ log[i].type \in {"audit", "pause"}
    \/ log[i].type = "step_paused" /\ log[i].step \in active

-------------------------------------------------------------------------------
\* Patches.
Mode == {"automatic", "confirm", "suggest"}
\* The modes a capability policy may turn a mode into: never a weaker one.
AtLeast(mode) ==
  CASE mode = "automatic" -> Mode
    [] mode = "confirm"   -> {"confirm", "suggest"}
    [] mode = "suggest"   -> {"suggest"}

SuccessStatus == {"suggested", "pending_confirmation", "applied"}

\* The plans patches of p lead to: the next version, for the same goal.
Candidates(p) ==
  {q \in Plans : /\ q.id = p.id /\ q.version = p.version + 1
                 /\ q.goalId = p.goalId /\ q.criteria = p.criteria
                 /\ q.completionPolicy = p.completionPolicy}

\* The steps with an operation in the patch that leads from p to q.
Touched(p, q) ==
  {s \in p.steps \cup q.steps :
     s \in p.steps /\ s \in q.steps => ~E!StructurallyEqual(p, q, s)}

\* inspectPatchSteps.
TouchedIn(p, q, states, statuses) ==
  {s \in Touched(p, q) \cap DOMAIN states : states[s] \in statuses}

\* The domain version sessions are created with; a session keeps its own.
SessionDomain == 1

SameCause(row, r) ==
  row.domain = r.domain /\ row.input = r.input /\ row.cause = r.cause
SameAttempt(row, r) ==
  SameCause(row, r) /\ row.plan.version = r.plan.version /\ row.base = r.base

\* Mutant of Prior: only a patch of the same cause that went through counts.
MutantPriorOfCause(r) ==
  {i \in DOMAIN patches : SameCause(patches[i], r) /\ patches[i].status \in SuccessStatus}

\* The rows that answer a patch before it is looked at.
Prior(r) ==
  {i \in DOMAIN patches :
     \/ SameCause(patches[i], r) /\ patches[i].status \in SuccessStatus
     \/ SameAttempt(patches[i], r)}

\* Mutant of PatchApplies: steps are taken as they were when the patch was written.
MutantDoneStepsUnchecked(q, base, cursor) ==
  q.version = plan.version + 1 /\ base = cursor

\* applyPlanPatch of the agent: the patch was written for this plan and this point of
\* the log, and leaves what is done alone.
PatchApplies(q, base, cursor) ==
  /\ q.version = plan.version + 1
  /\ base = cursor
  /\ TouchedIn(plan, q, stepStates, {"completed", "skipped"}) = {}

-------------------------------------------------------------------------------
Idle == [phase |-> "idle"]

Init ==
  /\ E!Init
  /\ timers = [running |-> 0, paused |-> 0]
  /\ log = <<>>
  /\ failures = {}
  /\ patches = <<>>
  /\ input = 0
  /\ configured = SessionDomain
  /\ requests = [r \in Request |-> Idle]
  /\ confirmations = [c \in Confirmation |-> Idle]
  /\ asked = 0

Record(type, s) ==
  /\ Len(log) < MaxEvents
  /\ log' = Append(log, Event(type, s))

\* appendEvent: the session and its steps. SessionCancelled stands for every event that
\* ends the session.
WorkEvent ==
  /\ \/ E!SessionStarted /\ Record("news", NoStep)
     \/ E!SessionPaused /\ Record("pause", NoStep)
     \/ E!SessionCancelled /\ Record("news", NoStep)
     \/ \E s \in Step : E!StepPaused(s) /\ Record("step_paused", s)
     \/ \E s \in Step :
          /\ E!StepStarted(s) \/ E!StepCompleted(s) \/ E!StepFailed(s) \/ E!StepSkipped(s)
          /\ Record("news", NoStep)
  /\ UNCHANGED <<timers, failures, patches, input, configured, calls>>

\* The timer events; a paused timer starts again, completes or is cancelled as well.
TimerEvent ==
  /\ E!NotTerminal
  /\ \/ /\ timers.running + timers.paused < MaxTimers
        /\ timers' = [timers EXCEPT !.running = @ + 1]
        /\ Record("news", NoStep)
     \/ /\ timers.paused > 0
        /\ timers' = [running |-> timers.running + 1, paused |-> timers.paused - 1]
        /\ Record("news", NoStep)
     \/ /\ timers.running > 0
        /\ timers' = [running |-> timers.running - 1, paused |-> timers.paused + 1]
        /\ Record("pause", NoStep)
     \/ \E type \in {"news", "pause"}, kind \in {"running", "paused"} :
          /\ timers[kind] > 0
          /\ timers' = [timers EXCEPT ![kind] = @ - 1]
          /\ Record(type, NoStep)
  /\ UNCHANGED <<work, failures, patches, input, configured, calls>>

\* Other news (an observation, a change of the world state, an evaluation that leaves
\* the session open), or an event of a continuation.
OtherEvent(type) ==
  /\ E!NotTerminal
  /\ Record(type, NoStep)
  /\ UNCHANGED <<work, timers, failures, patches, input, configured, calls>>

\* putNormalizedInput.
PutNormalizedInput ==
  /\ input < MaxInputs
  /\ input' = input + 1
  /\ UNCHANGED <<work, timers, log, failures, patches, configured, calls>>

\* The host is deployed with another version of the domain.
Deploy ==
  /\ configured < SessionDomain + MaxDeploys
  /\ configured' = configured + 1
  /\ UNCHANGED <<work, timers, log, failures, patches, input, calls>>

-------------------------------------------------------------------------------
\* POST replans, to the snapshot. A session that is over is refused.
TakeSnapshot(r, mode) ==
  /\ requests[r] = Idle
  /\ asked < MaxRequests
  /\ asked' = asked + 1
  /\ E!NotTerminal
  /\ requests' = [requests EXCEPT ![r] =
       [phase |-> "read", mode |-> mode, domain |-> configured, plan |-> plan,
        states |-> stepStates, recent |-> Recent, base |-> LastOperational(Recent),
        input |-> 0, seen |-> Len(log)]]
  /\ UNCHANGED <<work, timers, log, failures, patches, input, configured, confirmations>>

\* getNormalizedInputRecord, a call of its own. Then a configuration for another
\* version of the domain is refused.
ReadInput(r) ==
  /\ requests[r].phase = "read"
  /\ LET phase == IF requests[r].domain = SessionDomain THEN "assessing" ELSE "failing"
     IN  requests' = [requests EXCEPT ![r].phase = phase, ![r].input = input]
  /\ UNCHANGED <<work, timers, log, failures, patches, input, configured, confirmations,
                 asked>>

\* The model sees no need to replan.
NotNeeded(r) ==
  /\ requests[r].phase = "assessing"
  /\ requests' = [requests EXCEPT ![r] = Idle]
  /\ UNCHANGED <<work, timers, log, failures, patches, input, configured, confirmations,
                 asked>>

\* The model fails, or what it wrote is refused before the agent is called.
Refuse(r) ==
  /\ requests[r].phase = "assessing"
  /\ requests' = [requests EXCEPT ![r].phase = "failing"]
  /\ UNCHANGED <<work, timers, log, failures, patches, input, configured, confirmations,
                 asked>>

\* stableAttemptId.
AttemptId(r) ==
  <<requests[r].plan.version, requests[r].domain, requests[r].input, requests[r].mode,
    requests[r].base>>

\* appendReplanFailure: recorded once for an attempt id, and refused by a session
\* that is over.
AppendFailure(r) ==
  /\ requests[r].phase = "failing"
  /\ requests' = [requests EXCEPT ![r] = Idle]
  /\ IF AttemptId(r) \in failures \/ ~E!NotTerminal
     THEN UNCHANGED <<failures, log>>
     ELSE failures' = failures \cup {AttemptId(r)} /\ Record("audit", NoStep)
  /\ UNCHANGED <<work, timers, patches, input, configured, confirmations, asked>>

-------------------------------------------------------------------------------
\* What the agent does with a patch. `seen`, `at` and `confirmed` are history: how
\* many events the assessment knew of, which event made the patch the plan, and
\* whether a human confirmed it.
Fail(rows) ==
  /\ patches' = rows
  /\ Record("audit", NoStep)
  /\ UNCHANGED work

\* activatePlanPatch. No other writer of the plan, its domain version or its input
\* comes in between, so the conditions of its statements hold again.
Activate(rows, q) ==
  /\ patches' = rows
  /\ Record("plan_updated", NoStep)
  /\ E!PlanUpdated(q)

Keep(rows) ==
  /\ patches' = rows
  /\ Record("audit", NoStep)
  /\ UNCHANGED work

Ignore == UNCHANGED <<work, log, patches>>

\* Mutant of NeedsNobody: only the mode decides.
MutantModeDecides(row) == row.mode = "automatic"

\* An automatic patch that touches nobody's work.
NeedsNobody(row) ==
  /\ row.mode = "automatic"
  /\ TouchedIn(plan, row.candidate, stepStates, {"active", "paused", "failed"}) = {}

\* proposeReplan with the patch r's model wrote: it leads to q because of the event
\* `cause`. Rows that were there answer, a session that is over refuses.
Propose(r, cause, q, mode) ==
  /\ requests[r].phase = "assessing"
  /\ q \in Candidates(requests[r].plan) /\ Touched(requests[r].plan, q) # {}
  /\ TouchedIn(requests[r].plan, q, requests[r].states, {"completed", "skipped"}) = {}
  /\ cause \in requests[r].recent
  /\ mode \in AtLeast(requests[r].mode)
  /\ requests' = [requests EXCEPT ![r] = Idle]
  /\ LET row == [domain |-> requests[r].domain, input |-> requests[r].input, cause |-> cause,
                 plan |-> requests[r].plan, base |-> requests[r].base, candidate |-> q,
                 mode |-> mode, active |-> {}, status |-> "failed",
                 seen |-> requests[r].seen, at |-> 0, confirmed |-> FALSE]
         applies == input = row.input /\ PatchApplies(q, row.base, Cursor)
     IN  \/ /\ Prior(row) # {} \/ ~E!NotTerminal
            /\ Ignore
         \/ /\ Prior(row) = {} /\ E!NotTerminal
            /\ ~applies
            /\ Fail(Append(patches, row))
         \/ /\ Prior(row) = {} /\ E!NotTerminal
            /\ applies /\ NeedsNobody(row)
            /\ Activate(Append(patches, [row EXCEPT !.status = "applied", !.at = Len(log) + 1]), q)
         \/ /\ Prior(row) = {} /\ E!NotTerminal
            /\ applies /\ ~NeedsNobody(row)
            /\ Keep(Append(patches, [row EXCEPT
                      !.status = IF mode = "suggest" THEN "suggested" ELSE "pending_confirmation",
                      !.active = TouchedIn(plan, q, stepStates, {"active"})]))
  /\ UNCHANGED <<timers, failures, input, configured, confirmations, asked>>

\* POST confirm, to the call of the agent. The domain version it passes on is the one
\* configured now, unless the patch is settled already.
ReadPatch(c, i) ==
  /\ confirmations[c] = Idle
  /\ patches[i].status # "suggested"
  /\ patches[i].status = "pending_confirmation" => E!NotTerminal
  /\ confirmations' = [confirmations EXCEPT ![c] =
       [phase |-> "confirming", patch |-> i,
        domain |-> IF patches[i].status = "pending_confirmation"
                   THEN configured ELSE patches[i].domain]]
  /\ UNCHANGED <<work, timers, log, failures, patches, input, configured, requests, asked>>

\* Work the patch changes has not been interrupted yet.
StillUnderWay(row) ==
  /\ row.active # {}
  /\ \/ session # "paused"
     \/ timers.running > 0
     \/ ~ row.active \subseteq {s \in DOMAIN stepStates : stepStates[s] = "paused"}

\* The point of the log a confirmed patch is checked against.
CursorFor(row) ==
  IF row.active # {} /\ OnlyInterruptionsSince(row.base, row.active) THEN row.base ELSE Cursor

\* applyPlanPatch in the phase "activation".
Confirmable(row) ==
  /\ PatchApplies(row.candidate, row.base, CursorFor(row))
  /\ TouchedIn(plan, row.candidate, stepStates, {"active"}) = {}

\* activatePending. A patch settled meanwhile answers; a session that is over takes no
\* event, so nothing happens to the patch.
Confirm(c) ==
  /\ confirmations[c].phase = "confirming"
  /\ confirmations' = [confirmations EXCEPT ![c] = Idle]
  /\ LET i     == confirmations[c].patch
         row   == patches[i]
         same  == confirmations[c].domain = row.domain /\ input = row.input
         open  == row.status = "pending_confirmation" /\ E!NotTerminal
     IN  \/ /\ open => same /\ StillUnderWay(row)
            /\ Ignore
         \/ /\ open /\ ~(same /\ StillUnderWay(row))
            /\ same /\ Confirmable(row)
            /\ Activate([patches EXCEPT ![i] = [@ EXCEPT !.status = "applied", !.at = Len(log) + 1,
                                                         !.confirmed = TRUE]],
                        row.candidate)
         \/ /\ open /\ ~(same /\ StillUnderWay(row))
            /\ ~(same /\ Confirmable(row))
            /\ Fail([patches EXCEPT ![i].status = "failed"])
  /\ UNCHANGED <<timers, failures, input, configured, requests, asked>>

Next ==
  \/ WorkEvent
  \/ TimerEvent
  \/ \E type \in {"news", "audit"} : OtherEvent(type)
  \/ PutNormalizedInput
  \/ Deploy
  \/ \E r \in Request, mode \in Asked : TakeSnapshot(r, mode)
  \/ \E r \in Request : ReadInput(r) \/ NotNeeded(r) \/ Refuse(r) \/ AppendFailure(r)
  \/ \E r \in Request, cause \in DOMAIN log, q \in Plans, mode \in Mode : Propose(r, cause, q, mode)
  \/ \E c \in Confirmation, i \in DOMAIN patches : ReadPatch(c, i)
  \/ \E c \in Confirmation : Confirm(c)

Spec == Init /\ [][Next]_vars

-------------------------------------------------------------------------------
EventRecord == [type : EventType, step : Step \cup {NoStep}]

PatchRow ==
  [domain : Nat, input : Nat, cause : Nat, plan : Plans, base : Nat, candidate : Plans,
   mode : Mode, active : SUBSET Step, status : SuccessStatus \cup {"failed"},
   seen : Nat, at : Nat, confirmed : BOOLEAN]

StepStates == UNION {[p.steps -> E!StepStatus] : p \in Plans}

Requests ==
  {Idle} \cup
  [phase : {"read", "assessing", "failing"}, mode : Mode, domain : Nat, plan : Plans,
   states : StepStates, recent : SUBSET (DOMAIN log), base : 0..Len(log), input : 0..input,
   seen : 0..Len(log)]

Confirmations == {Idle} \cup [phase : {"confirming"}, patch : DOMAIN patches, domain : Nat]

\* Type invariant.
TypeOK ==
  /\ E!TypeOK
  /\ timers \in [running : 0..MaxTimers, paused : 0..MaxTimers]
  /\ log \in Seq(EventRecord)
  /\ patches \in Seq(PatchRow)
  /\ \A i \in DOMAIN patches :
       /\ patches[i].active \subseteq patches[i].plan.steps
       /\ patches[i].cause \in 1..patches[i].seen /\ patches[i].seen <= Len(log)
       /\ patches[i].at <= Len(log)
  /\ input \in Nat /\ configured \in Nat
  /\ requests \in [Request -> Requests]
  /\ confirmations \in [Confirmation -> Confirmations]

\* The unique indexes on plan_patches are never run into: one row for an attempt, and
\* one that went through for a cause, whatever requests and confirmations overlap.
KeysStayUnique ==
  \A i, j \in DOMAIN patches : i # j =>
    /\ ~SameAttempt(patches[i], patches[j])
    /\ SameCause(patches[i], patches[j]) =>
         ~ {patches[i].status, patches[j].status} \subseteq SuccessStatus

\* Nobody's work is replanned behind their back: a patch that no human confirmed becomes
\* the plan only if it was proposed as automatic, and then leaves every step that is
\* active, paused or failed as it was. One of the mode `suggest` never becomes the plan.
NothingSilent ==
  [][\A i \in DOMAIN patches' :
       patches'[i].at = Len(log') /\ log' # log =>
         /\ patches'[i].mode # "suggest"
         /\ patches'[i].confirmed \/ patches'[i].mode = "automatic"
         /\ patches'[i].confirmed \/
              \A s \in DOMAIN stepStates : stepStates[s] \in {"active", "paused", "failed"} =>
                s \in plan'.steps /\ E!StructurallyEqual(plan, plan', s)]_vars

\* A patch becomes the plan only if its assessment still stands: after the events the
\* assessment knew of came nothing but audit events of a failed or pending replan,
\* events of continuations, and the pauses the patch has asked for.
AppliedAsAssessed ==
  \A i \in DOMAIN patches : patches[i].status = "applied" =>
    \A k \in patches[i].seen + 1 .. patches[i].at - 1 :
      \/ log[k].type = "audit"
      \/ /\ patches[i].active # {}
         /\ \/ log[k].type = "pause"
            \/ log[k].type = "step_paused" /\ log[k].step \in patches[i].active

\* Audit events leave the point of the log at which a patch must be based alone, in the
\* snapshot that requests and their model see: "Event types that do not advance the
\* replan operational cursor" (replan-apply.ts). It is computed there from the events of
\* the snapshot, whose window audit events may fill.
AuditKeepsCursor ==
  [][log' # log /\ log'[Len(log')].type = "audit" =>
       LastOperational(Recent)' = LastOperational(Recent)]_vars

\* What the agent accepts as a patch of the current plan, the reducer accepts as the
\* next plan: the two protect the same work, so no activation throws half way.
ValidPatchIsAccepted ==
  \A q \in Candidates(plan) :
    PatchApplies(q, Cursor, Cursor) /\ TouchedIn(plan, q, stepStates, {"active"}) = {} =>
      E!RespectsProtectedSteps(q)

=============================================================================
