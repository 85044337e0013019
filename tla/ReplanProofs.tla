------------------------------ MODULE ReplanProofs ------------------------------
(***************************************************************************)
(* Theorems of Replan, for every set of plans, any number of requests and  *)
(* confirmations and a snapshot window of any size. The invariant says of  *)
(* a request, and of a row of plan_patches, how the plan and the log have  *)
(* moved since its snapshot: a plan_updated after it left a later plan.    *)
(* The version of a patch and its base then tell whether it is still of    *)
(* the state it was written for.                                           *)
(***************************************************************************)
EXTENDS Replan, WellFoundedInduction, TLAPS

-------------------------------------------------------------------------------
\* Of a set of positions of the log, LastOperational is the last one that holds an
\* operational event, and 0 if there is none.
LEMMA LastOperationalIsLast ==
  ASSUME log \in Seq(EventRecord), NEW P \in SUBSET (DOMAIN log)
  PROVE  /\ LastOperational(P) \in 0..Len(log)
         /\ \A i \in P : log[i].type \notin AuditType => i <= LastOperational(P)
<1> DEFINE op == {i \in P : log[i].type \notin AuditType}
<1> DEFINE back == {n \in Nat : \E i \in op : n = Len(log) - i}
<1> DEFINE less == {ss \in Nat \X Nat : ss[1] < ss[2]}
<1>1. Len(log) \in Nat /\ DOMAIN log = 1..Len(log)
  OBVIOUS
<1>2. CASE op = {}
  BY <1>1, <1>2 DEF LastOperational
<1>3. CASE op # {}
  <2>1. back \subseteq Nat /\ back # {}
    <3>1. PICK i \in op : TRUE
      BY <1>3
    <3>2. Len(log) - i \in back
      BY <1>1, <3>1
    <3>. QED BY <3>2
  <2>2. IsWellFoundedOn(less, Nat)
    BY NatLessThanWellFounded, Zenon DEF OpToRel
  <2>3. PICK x \in back : \A y \in back : ~ (y < x)
    <3>1. PICK x \in back : \A y \in back : <<y, x>> \notin less
      BY <2>1, <2>2, WFMin
    <3>2. \A y \in back : <<y, x>> \in less <=> y < x
      BY <2>1
    <3>. QED BY <3>1, <3>2
  <2>4. PICK i \in op : x = Len(log) - i
    BY <2>3
  <2>5. \A j \in op : j <= i
    <3> SUFFICES ASSUME NEW j \in op PROVE j <= i
      OBVIOUS
    <3>1. i \in 1..Len(log) /\ j \in 1..Len(log)
      BY <1>1
    <3>2. Len(log) - j \in back
      BY <1>1, <3>1
    <3>. QED BY <1>1, <2>3, <2>4, <3>1, <3>2
  <2>6. LastOperational(P) = CHOOSE k \in op : \A j \in op : j <= k
    BY <1>3 DEF LastOperational
  <2>7. LastOperational(P) \in op /\ \A j \in op : j <= LastOperational(P)
    BY <2>5, <2>6
  <2>. QED BY <1>1, <2>7
<1>. QED BY <1>2, <1>3

-------------------------------------------------------------------------------
\* The log of events and the plan, with what the rows and the requests owe to them.

\* One step of the session: at most one event, and only plan_updated replaces the
\* plan, by a later one.
Grows(lg, p, lg2, p2) ==
  \/ lg2 = lg /\ p2 = p
  \/ \E e \in EventRecord :
       /\ lg2 = Append(lg, e)
       /\ p.version <= p2.version
       /\ e.type = "plan_updated" => p.version < p2.version

\* The plan q was current when the log had `seen` events.
WasCurrent(q, seen, lg, p) ==
  /\ q.version <= p.version
  /\ \A k \in seen + 1 .. Len(lg) : lg[k].type = "plan_updated" => q.version < p.version

\* AppliedAsAssessed of one row.
AsAssessed(row, lg) ==
  row.status = "applied" =>
    \A k \in row.seen + 1 .. row.at - 1 :
      \/ lg[k].type = "audit"
      \/ /\ row.active # {}
         /\ \/ lg[k].type = "pause"
            \/ lg[k].type = "step_paused" /\ lg[k].step \in row.active

RowOK(row, lg, p) ==
  /\ row \in PatchRow
  /\ row.base <= row.seen /\ row.seen <= Len(lg) /\ row.at <= Len(lg)
  /\ row.candidate.version = row.plan.version + 1
  /\ row.status = "pending_confirmation" => row.mode # "suggest"
  /\ WasCurrent(row.plan, row.seen, lg, p)
  /\ AsAssessed(row, lg)

RequestOK(q, lg, p) ==
  \/ q = Idle
  \/ /\ \E st : q \in
          [phase : {"read", "assessing", "failing"}, mode : Mode, domain : Nat, plan : Plans,
           states : {st}, recent : SUBSET Nat, base : Nat, input : Nat, seen : Nat]
     /\ q.base <= q.seen /\ q.seen <= Len(lg)
     /\ WasCurrent(q.plan, q.seen, lg, p)

Typed ==
  /\ plan \in Plans
  /\ log \in Seq(EventRecord)
  /\ input \in Nat /\ configured \in Nat

RequestsOK ==
  /\ DOMAIN requests = Request
  /\ requests = [r \in Request |-> requests[r]]
  /\ \A r \in Request : RequestOK(requests[r], log, plan)

ConfirmationsOK == confirmations \in [Confirmation -> Confirmations]

RowsOK ==
  /\ patches \in Seq(PatchRow)
  /\ \A i \in DOMAIN patches : RowOK(patches[i], log, plan)

Inv == Typed /\ RequestsOK /\ ConfirmationsOK /\ RowsOK /\ KeysStayUnique

-------------------------------------------------------------------------------
\* Positions of the log keep their event, and a plan that was current stays one.
LEMMA WasCurrentKept ==
  ASSUME NEW lg \in Seq(EventRecord), NEW lg2, NEW p \in Plans, NEW p2 \in Plans,
         Grows(lg, p, lg2, p2),
         NEW q \in Plans, NEW seen \in Nat, WasCurrent(q, seen, lg, p)
  PROVE  WasCurrent(q, seen, lg2, p2)
<1>1. \A v \in Plans : v.version \in Nat
  BY PlansAssumption DEF E!IsPlan
<1>2. CASE lg2 = lg /\ p2 = p
  BY <1>2
<1>3. ASSUME NEW e \in EventRecord, lg2 = Append(lg, e), p.version <= p2.version,
             e.type = "plan_updated" => p.version < p2.version
      PROVE  WasCurrent(q, seen, lg2, p2)
  <2>1. Len(lg2) = Len(lg) + 1 /\ lg2[Len(lg) + 1] = e /\ \A k \in 1..Len(lg) : lg2[k] = lg[k]
    BY <1>3
  <2>2. q.version <= p2.version
    BY <1>1, <1>3 DEF WasCurrent
  <2>3. ASSUME NEW k \in seen + 1 .. Len(lg2), lg2[k].type = "plan_updated"
        PROVE  q.version < p2.version
    <3>1. CASE k = Len(lg) + 1
      BY <1>1, <1>3, <2>1, <2>3, <3>1 DEF WasCurrent
    <3>2. CASE k # Len(lg) + 1
      <4>1. k \in seen + 1 .. Len(lg) /\ lg2[k] = lg[k]
        BY <2>1, <2>3, <3>2
      <4>. QED BY <1>1, <1>3, <2>3, <4>1 DEF WasCurrent
    <3>. QED BY <3>1, <3>2
  <2>. QED BY <2>2, <2>3 DEF WasCurrent
<1>. QED BY <1>2, <1>3 DEF Grows

LEMMA RowKept ==
  ASSUME NEW lg \in Seq(EventRecord), NEW lg2, NEW p \in Plans, NEW p2 \in Plans,
         Grows(lg, p, lg2, p2), NEW row, RowOK(row, lg, p)
  PROVE  RowOK(row, lg2, p2)
<1>1. row \in PatchRow /\ row.plan \in Plans /\ row.seen \in Nat /\ row.at \in Nat
  BY DEF RowOK, PatchRow
<1>2. WasCurrent(row.plan, row.seen, lg2, p2)
  BY <1>1, WasCurrentKept DEF RowOK
<1>3. Len(lg) <= Len(lg2) /\ \A k \in 1..Len(lg) : lg2[k] = lg[k]
  BY DEF Grows
<1>4. AsAssessed(row, lg2)
  <2>1. \A k \in row.seen + 1 .. row.at - 1 : lg2[k] = lg[k]
    BY <1>1, <1>3 DEF RowOK
  <2>. QED BY <2>1 DEF RowOK, AsAssessed
<1>5. Len(lg) \in Nat /\ Len(lg2) \in Nat
  BY DEF Grows
<1>. QED BY <1>1, <1>2, <1>3, <1>4, <1>5 DEF RowOK, PatchRow

LEMMA RequestKept ==
  ASSUME NEW lg \in Seq(EventRecord), NEW lg2, NEW p \in Plans, NEW p2 \in Plans,
         Grows(lg, p, lg2, p2), NEW q, RequestOK(q, lg, p)
  PROVE  RequestOK(q, lg2, p2)
<1>1. CASE q = Idle
  BY <1>1 DEF RequestOK
<1>2. CASE q # Idle
  <2>1. PICK st : q \in
          [phase : {"read", "assessing", "failing"}, mode : Mode, domain : Nat, plan : Plans,
           states : {st}, recent : SUBSET Nat, base : Nat, input : Nat, seen : Nat]
    BY <1>2 DEF RequestOK
  <2>2. q.plan \in Plans /\ q.seen \in Nat
    BY <2>1
  <2>3. WasCurrent(q.plan, q.seen, lg2, p2)
    BY <1>2, <2>2, WasCurrentKept DEF RequestOK
  <2>4. Len(lg) \in Nat /\ Len(lg2) \in Nat /\ Len(lg) <= Len(lg2)
    BY DEF Grows
  <2>5. q.seen <= Len(lg2) /\ q.base <= q.seen
    BY <1>2, <2>2, <2>4 DEF RequestOK
  <2>. QED BY <2>1, <2>3, <2>5 DEF RequestOK
<1>. QED BY <1>1, <1>2

-------------------------------------------------------------------------------
\* What the actions have in common.

Moves == Typed' /\ Grows(log, plan, log', plan')

LEMMA RecordMoves ==
  ASSUME Typed, NEW type \in EventType, NEW s \in Step \cup {NoStep}, Record(type, s),
         plan' \in Plans, plan.version <= plan'.version,
         type = "plan_updated" => plan.version < plan'.version,
         input' \in Nat, configured' \in Nat
  PROVE  Moves
<1>1. Event(type, s) \in EventRecord /\ Event(type, s).type = type
  BY DEF Event, EventRecord
<1>2. log' = Append(log, Event(type, s))
  BY DEF Record
<1>3. log' \in Seq(EventRecord)
  BY <1>1, <1>2 DEF Typed
<1>. QED BY <1>1, <1>2, <1>3 DEF Moves, Typed, Grows

LEMMA SameMoves ==
  ASSUME Typed, UNCHANGED <<log, plan>>, input' \in Nat, configured' \in Nat
  PROVE  Moves
BY DEF Typed, Moves, Grows

LEMMA RowsKept ==
  ASSUME Typed, RowsOK, KeysStayUnique, Moves, UNCHANGED patches
  PROVE  RowsOK' /\ KeysStayUnique'
<1>1. \A i \in DOMAIN patches : RowOK(patches[i], log', plan')
  BY RowKept DEF RowsOK, Moves, Typed
<1>. QED BY <1>1 DEF RowsOK, KeysStayUnique

LEMMA RequestsKept ==
  ASSUME Typed, RequestsOK, Moves,
         \/ UNCHANGED requests
         \/ \E r \in Request : \E q : /\ requests' = [requests EXCEPT ![r] = q]
                                      /\ RequestOK(q, log', plan')
  PROVE  RequestsOK'
<1>1. \A r \in Request : RequestOK(requests[r], log', plan')
  BY RequestKept DEF RequestsOK, Moves, Typed
<1>2. CASE UNCHANGED requests
  BY <1>1, <1>2 DEF RequestsOK
<1>3. ASSUME NEW r \in Request, NEW q, requests' = [requests EXCEPT ![r] = q],
             RequestOK(q, log', plan')
      PROVE  RequestsOK'
  <2>1. DOMAIN requests' = Request /\ requests' = [x \in Request |-> requests'[x]]
    BY <1>3 DEF RequestsOK
  <2>2. \A x \in Request : requests'[x] = IF x = r THEN q ELSE requests[x]
    BY <1>3 DEF RequestsOK
  <2>. QED BY <1>1, <1>3, <2>1, <2>2 DEF RequestsOK
<1>. QED BY <1>2, <1>3

LEMMA ConfirmationsKept ==
  ASSUME ConfirmationsOK, UNCHANGED confirmations, DOMAIN patches \subseteq DOMAIN patches'
  PROVE  ConfirmationsOK'
BY DEF ConfirmationsOK, Confirmations

\* A new row: its attempt is unknown, and nothing went through for its cause.
LEMMA RowAdded ==
  ASSUME Inv, Moves, NEW row, RowOK(row, log', plan'), Prior(row) = {},
         patches' = Append(patches, row)
  PROVE  RowsOK' /\ KeysStayUnique' /\ DOMAIN patches \subseteq DOMAIN patches'
<1>1. patches \in Seq(PatchRow) /\ row \in PatchRow
  BY DEF Inv, RowsOK, RowOK
<1>2. /\ patches' \in Seq(PatchRow)
      /\ DOMAIN patches = 1..Len(patches) /\ DOMAIN patches' = 1..Len(patches) + 1
      /\ patches'[Len(patches) + 1] = row
      /\ \A i \in DOMAIN patches : patches'[i] = patches[i]
  BY <1>1
<1>3. \A i \in DOMAIN patches : RowOK(patches[i], log', plan')
  BY RowKept DEF Inv, RowsOK, Moves, Typed
<1>4. RowsOK'
  BY <1>2, <1>3 DEF RowsOK
<1>5. \A i \in DOMAIN patches :
        ~ SameAttempt(patches[i], row)
        /\ (SameCause(patches[i], row) => patches[i].status \notin SuccessStatus)
  BY DEF Prior
<1>6. KeysStayUnique'
  <2> SUFFICES ASSUME NEW i \in DOMAIN patches', NEW j \in DOMAIN patches', i # j
               PROVE  /\ ~SameAttempt(patches'[i], patches'[j])
                      /\ SameCause(patches'[i], patches'[j]) =>
                           ~ {patches'[i].status, patches'[j].status} \subseteq SuccessStatus
    BY DEF KeysStayUnique, SameAttempt, SameCause
  <2>1. CASE i \in DOMAIN patches /\ j \in DOMAIN patches
    BY <1>2, <2>1 DEF Inv, KeysStayUnique
  <2>2. CASE i = Len(patches) + 1
    <3>1. j \in DOMAIN patches /\ patches'[i] = row /\ patches'[j] = patches[j]
      BY <1>1, <1>2, <2>2
    <3>. QED BY <1>5, <3>1 DEF SameAttempt, SameCause
  <2>3. CASE j = Len(patches) + 1
    <3>1. i \in DOMAIN patches /\ patches'[j] = row /\ patches'[i] = patches[i]
      BY <1>1, <1>2, <2>3
    <3>. QED BY <1>5, <3>1
  <2>. QED BY <1>1, <1>2, <2>1, <2>2, <2>3
<1>. QED BY <1>1, <1>2, <1>4, <1>6

\* A waiting row is settled: its keys stay, and it had gone through already.
LEMMA RowSettled ==
  ASSUME Inv, Moves, NEW i \in DOMAIN patches, NEW row, RowOK(row, log', plan'),
         patches[i].status = "pending_confirmation",
         SameAttempt(row, patches[i]),
         patches' = [patches EXCEPT ![i] = row]
  PROVE  RowsOK' /\ KeysStayUnique' /\ DOMAIN patches \subseteq DOMAIN patches'
<1>1. patches \in Seq(PatchRow) /\ row \in PatchRow
  BY DEF Inv, RowsOK, RowOK
<1>2. /\ patches' \in Seq(PatchRow) /\ DOMAIN patches' = DOMAIN patches
      /\ \A j \in DOMAIN patches : patches'[j] = IF j = i THEN row ELSE patches[j]
  BY <1>1
<1>3. \A j \in DOMAIN patches : RowOK(patches[j], log', plan')
  BY RowKept DEF Inv, RowsOK, Moves, Typed
<1>4. RowsOK'
  BY <1>2, <1>3 DEF RowsOK
<1>5. KeysStayUnique'
  <2> SUFFICES ASSUME NEW j \in DOMAIN patches, NEW k \in DOMAIN patches, j # k
               PROVE  /\ ~SameAttempt(patches'[j], patches'[k])
                      /\ SameCause(patches'[j], patches'[k]) =>
                           ~ {patches'[j].status, patches'[k].status} \subseteq SuccessStatus
    BY <1>2 DEF KeysStayUnique, SameAttempt, SameCause
  <2>1. /\ ~SameAttempt(patches[j], patches[k])
        /\ SameCause(patches[j], patches[k]) =>
             ~ {patches[j].status, patches[k].status} \subseteq SuccessStatus
    BY DEF Inv, KeysStayUnique
  <2>2. "pending_confirmation" \in SuccessStatus
    BY DEF SuccessStatus
  <2>. QED BY <1>2, <2>1, <2>2 DEF SameAttempt, SameCause
<1>. QED BY <1>2, <1>4, <1>5

-------------------------------------------------------------------------------
\* A patch whose base is the cursor of now, of the version of now: since its snapshot
\* there were only audit events.
LEMMA OnlyAuditSince ==
  ASSUME Typed, NEW p \in Plans, NEW seen \in Nat, NEW base \in Nat, base <= seen,
         WasCurrent(p, seen, log, plan), plan.version = p.version, base = Cursor
  PROVE  \A k \in seen + 1 .. Len(log) : log[k].type = "audit"
<1> SUFFICES ASSUME NEW k \in seen + 1 .. Len(log) PROVE log[k].type = "audit"
  OBVIOUS
<1>1. k \in DOMAIN log /\ DOMAIN log \in SUBSET (DOMAIN log) /\ k > base
  BY DEF Typed
<1>2. Cursor \in 0..Len(log)
      /\ \A i \in DOMAIN log : log[i].type \notin AuditType => i <= Cursor
  BY <1>1, LastOperationalIsLast DEF Cursor, Typed
<1>3. log[k].type \in AuditType
  BY <1>1, <1>2
<1>4. log[k].type # "plan_updated"
  BY PlansAssumption DEF WasCurrent, E!IsPlan
<1>. QED BY <1>3, <1>4 DEF AuditType

LEMMA TouchedIsStep ==
  ASSUME NEW p \in Plans, NEW q \in Plans, NEW states, NEW statuses
  PROVE  TouchedIn(p, q, states, statuses) \subseteq Step
BY PlansAssumption DEF TouchedIn, Touched, E!IsPlan

-------------------------------------------------------------------------------
\* Fields of a row, and a row with one field replaced.
LEMMA RowFields ==
  ASSUME NEW row \in PatchRow
  PROVE  /\ row.plan \in Plans /\ row.candidate \in Plans /\ row.active \subseteq Step
         /\ row.seen \in Nat /\ row.base \in Nat /\ row.at \in Nat
BY DEF PatchRow

Others(row, new, fields) ==
  \A f \in {"domain", "input", "cause", "plan", "base", "candidate", "mode", "active", "status",
            "seen", "at", "confirmed"} \ fields : new[f] = row[f]

LEMMA WithStatus ==
  ASSUME NEW row \in PatchRow, NEW status \in SuccessStatus \cup {"failed"}
  PROVE  LET new == [row EXCEPT !.status = status]
         IN  new \in PatchRow /\ new.status = status /\ Others(row, new, {"status"})
BY DEF PatchRow, Others

LEMMA WithAt ==
  ASSUME NEW row \in PatchRow, NEW at \in Nat
  PROVE  LET new == [row EXCEPT !.at = at]
         IN  new \in PatchRow /\ new.at = at /\ Others(row, new, {"at"})
BY DEF PatchRow, Others

LEMMA WithActive ==
  ASSUME NEW row \in PatchRow, NEW active \in SUBSET Step
  PROVE  LET new == [row EXCEPT !.active = active]
         IN  new \in PatchRow /\ new.active = active /\ Others(row, new, {"active"})
BY DEF PatchRow, Others

LEMMA WithConfirmed ==
  ASSUME NEW row \in PatchRow
  PROVE  LET new == [row EXCEPT !.confirmed = TRUE]
         IN  new \in PatchRow /\ Others(row, new, {"confirmed"})
BY DEF PatchRow, Others

-------------------------------------------------------------------------------
\* One lemma for an action, or for the actions that move the same part of the state.

LEMMA InitInv == Init => Inv
<1> SUFFICES ASSUME Init PROVE Inv
  OBVIOUS
<1>1. Typed
  BY DEF Init, E!Init, Typed, SessionDomain
<1>2. RequestsOK
  BY DEF Init, RequestsOK, RequestOK
<1>3. ConfirmationsOK
  BY DEF Init, ConfirmationsOK, Confirmations
<1>4. RowsOK /\ KeysStayUnique
  BY DEF Init, RowsOK, KeysStayUnique
<1>. QED BY <1>1, <1>2, <1>3, <1>4 DEF Inv

\* Steps that leave the patches, the requests and the confirmations alone.
LEMMA SessionInv ==
  ASSUME Inv, \/ WorkEvent \/ TimerEvent \/ \E type \in {"news", "audit"} : OtherEvent(type)
              \/ PutNormalizedInput \/ Deploy
  PROVE  Inv'
<1>1. Typed
  BY DEF Inv
<1>2. UNCHANGED <<patches, requests, confirmations>>
  BY DEF WorkEvent, TimerEvent, OtherEvent, PutNormalizedInput, Deploy, calls
<1>3. UNCHANGED plan
  BY DEF WorkEvent, TimerEvent, OtherEvent, PutNormalizedInput, Deploy, work, E!SessionStarted,
         E!SessionPaused, E!SessionCancelled, E!StepStarted, E!StepPaused, E!StepCompleted,
         E!StepFailed, E!StepSkipped, E!StepEvent
<1>4. input' \in Nat /\ configured' \in Nat
  BY <1>1 DEF WorkEvent, TimerEvent, OtherEvent, PutNormalizedInput, Deploy, Typed
<1>5. \/ UNCHANGED log
      \/ \E type \in EventType \ {"plan_updated"}, s \in Step \cup {NoStep} : Record(type, s)
  BY DEF WorkEvent, TimerEvent, OtherEvent, PutNormalizedInput, Deploy, EventType, AuditType
<1>6. plan.version <= plan'.version
  BY <1>1, <1>3, PlansAssumption DEF Typed, E!IsPlan
<1>7. Moves
  <2>1. CASE UNCHANGED log
    BY <1>1, <1>3, <1>4, <2>1, SameMoves
  <2>2. ASSUME NEW type \in EventType \ {"plan_updated"}, NEW s \in Step \cup {NoStep},
               Record(type, s)
        PROVE  Moves
    BY <1>1, <1>3, <1>4, <1>6, <2>2, RecordMoves DEF Typed
  <2>. QED BY <1>5, <2>1, <2>2
<1>. QED BY <1>1, <1>2, <1>7, RowsKept, RequestsKept, ConfirmationsKept DEF Inv, Moves

LEMMA TakeSnapshotInv ==
  ASSUME Inv, NEW r \in Request, NEW mode \in Asked, TakeSnapshot(r, mode)
  PROVE  Inv'
<1> DEFINE q == [phase |-> "read", mode |-> mode, domain |-> configured, plan |-> plan,
                 states |-> stepStates, recent |-> Recent, base |-> LastOperational(Recent),
                 input |-> 0, seen |-> Len(log)]
<1>1. Typed
  BY DEF Inv
<1>2. Moves
  BY <1>1, SameMoves DEF TakeSnapshot, work, Typed
<1>3. Recent \in SUBSET (DOMAIN log) /\ Recent \in SUBSET Nat /\ Len(log) \in Nat
  BY <1>1 DEF Typed, Recent
<1>4. LastOperational(Recent) \in 0..Len(log)
  BY <1>1, <1>3, LastOperationalIsLast DEF Typed
<1>5. mode \in Mode
  BY BoundsAssumption DEF Mode
<1>6. WasCurrent(plan, Len(log), log, plan)
  BY <1>1, <1>3, PlansAssumption DEF WasCurrent, Typed, E!IsPlan
<1>7. RequestOK(q, log, plan)
  <2>1. q \in [phase : {"read", "assessing", "failing"}, mode : Mode, domain : Nat, plan : Plans,
               states : {stepStates}, recent : SUBSET Nat, base : Nat, input : Nat, seen : Nat]
    BY <1>1, <1>3, <1>4, <1>5 DEF Typed
  <2>2. q.base <= q.seen /\ q.seen <= Len(log) /\ WasCurrent(q.plan, q.seen, log, plan)
    BY <1>3, <1>4, <1>6
  <2>. QED BY <2>1, <2>2 DEF RequestOK
<1>8. RequestOK(q, log', plan') /\ requests' = [requests EXCEPT ![r] = q]
  BY <1>7 DEF TakeSnapshot, work
<1>9. UNCHANGED <<patches, confirmations>>
  BY DEF TakeSnapshot
<1>. QED BY <1>1, <1>2, <1>8, <1>9, RowsKept, RequestsKept, ConfirmationsKept DEF Inv, Moves

\* A request that changes its phase, or ends.
LEMMA PhaseInv ==
  ASSUME Inv, NEW r \in Request, ReadInput(r) \/ NotNeeded(r) \/ Refuse(r) \/ AppendFailure(r)
  PROVE  Inv'
<1>1. Typed /\ RequestOK(requests[r], log, plan)
  BY DEF Inv, RequestsOK
<1>2. UNCHANGED <<plan, patches, confirmations, input, configured>>
  BY DEF ReadInput, NotNeeded, Refuse, AppendFailure, work
<1>3. Moves
  <2>1. CASE UNCHANGED log
    BY <1>1, <1>2, <2>1, SameMoves DEF Typed
  <2>2. CASE Record("audit", NoStep)
    <3>1. plan.version <= plan'.version
      BY <1>1, <1>2, PlansAssumption DEF Typed, E!IsPlan
    <3>. QED BY <1>1, <1>2, <2>2, <3>1, RecordMoves DEF Typed, EventType, AuditType
  <2>. QED BY <2>1, <2>2 DEF ReadInput, NotNeeded, Refuse, AppendFailure
<1>4. CASE requests' = [requests EXCEPT ![r] = Idle]
  BY <1>1, <1>2, <1>3, <1>4, RowsKept, RequestsKept, ConfirmationsKept DEF Inv, Moves, RequestOK
<1>5. CASE ReadInput(r) \/ Refuse(r)
  <2>1. requests[r] # Idle /\ UNCHANGED log
    BY <1>5 DEF ReadInput, Refuse, Idle
  <2>2. PICK st : requests[r] \in
          [phase : {"read", "assessing", "failing"}, mode : Mode, domain : Nat, plan : Plans,
           states : {st}, recent : SUBSET Nat, base : Nat, input : Nat, seen : Nat]
    BY <1>1, <2>1 DEF RequestOK
  <2>3. PICK phase \in {"assessing", "failing"}, n \in Nat :
          requests' = [requests EXCEPT ![r] = [requests[r] EXCEPT !.phase = phase, !.input = n]]
    <3>1. CASE Refuse(r)
      <4>1. requests[r] = [requests[r] EXCEPT !.input = requests[r].input]
        BY <2>2
      <4>2. requests' = [requests EXCEPT
                           ![r] = [requests[r] EXCEPT !.phase = "failing",
                                                      !.input = requests[r].input]]
        BY <2>2, <3>1 DEF Refuse
      <4>. QED BY <2>2, <4>2
    <3>2. CASE ReadInput(r)
      BY <1>1, <2>2, <3>2 DEF ReadInput, Typed
    <3>. QED BY <1>5, <3>1, <3>2
  <2> DEFINE q == [requests[r] EXCEPT !.phase = phase, !.input = n]
  <2>4. q \in [phase : {"read", "assessing", "failing"}, mode : Mode, domain : Nat, plan : Plans,
               states : {st}, recent : SUBSET Nat, base : Nat, input : Nat, seen : Nat]
        /\ q.plan = requests[r].plan /\ q.base = requests[r].base /\ q.seen = requests[r].seen
    BY <2>2
  <2>5. RequestOK(q, log', plan')
    BY <1>1, <1>2, <2>1, <2>4 DEF RequestOK
  <2>. QED BY <1>1, <1>2, <1>3, <2>3, <2>5, RowsKept, RequestsKept, ConfirmationsKept
           DEF Inv, Moves
<1>. QED BY <1>4, <1>5 DEF NotNeeded, AppendFailure

LEMMA ReadPatchInv ==
  ASSUME Inv, NEW c \in Confirmation, NEW i \in DOMAIN patches, ReadPatch(c, i)
  PROVE  Inv'
<1>1. Typed /\ patches[i] \in PatchRow
  BY DEF Inv, RowsOK, RowOK
<1>2. UNCHANGED <<plan, log, patches, requests, input, configured>>
  BY DEF ReadPatch, work
<1>3. Moves
  BY <1>1, <1>2, SameMoves DEF Typed
<1>4. ConfirmationsOK'
  <2>1. PICK d \in Nat : confirmations' = [confirmations EXCEPT ![c] =
                           [phase |-> "confirming", patch |-> i, domain |-> d]]
    BY <1>1 DEF ReadPatch, Typed, PatchRow
  <2>2. [phase |-> "confirming", patch |-> i, domain |-> d] \in Confirmations
    BY DEF Confirmations
  <2>. QED BY <1>2, <2>1, <2>2 DEF Inv, ConfirmationsOK, Confirmations
<1>. QED BY <1>1, <1>2, <1>3, <1>4, RowsKept, RequestsKept DEF Inv, Moves

\* The three things the agent does with a patch, one event each.
LEMMA AgentMoves ==
  ASSUME Typed, UNCHANGED <<input, configured>>,
         NEW rows,
         \/ Fail(rows) \/ Keep(rows) \/ (\E q \in Plans : Activate(rows, q)) \/ Ignore
  PROVE  Moves
<1>1. \A v \in Plans : v.version \in Nat
  BY PlansAssumption DEF E!IsPlan
<1>2. {"audit", "plan_updated"} \subseteq EventType
  BY DEF EventType, AuditType
<1>3. CASE Ignore
  BY <1>3, SameMoves DEF Ignore, work, Typed
<1>4. CASE Fail(rows) \/ Keep(rows)
  BY <1>1, <1>2, <1>4, RecordMoves DEF Fail, Keep, work, Typed
<1>5. ASSUME NEW q \in Plans, Activate(rows, q) PROVE Moves
  <2>1. plan' = q /\ plan.version < plan'.version
    BY <1>1, <1>5 DEF Activate, E!PlanUpdated, Typed
  <2>. QED BY <1>1, <1>2, <1>5, <2>1, RecordMoves DEF Activate, Typed
<1>. QED BY <1>3, <1>4, <1>5

LEMMA ProposeInv ==
  ASSUME Inv, NEW r \in Request, NEW cause \in DOMAIN log, NEW q \in Plans, NEW mode \in Mode,
         Propose(r, cause, q, mode)
  PROVE  Inv'
<1> DEFINE ask == requests[r]
<1> DEFINE row == [domain |-> ask.domain, input |-> ask.input, cause |-> cause,
                   plan |-> ask.plan, base |-> ask.base, candidate |-> q,
                   mode |-> mode, active |-> {}, status |-> "failed",
                   seen |-> ask.seen, at |-> 0, confirmed |-> FALSE]
<1> DEFINE applied == [row EXCEPT !.status = "applied", !.at = Len(log) + 1]
<1> DEFINE kept == [row EXCEPT
                      !.status = IF mode = "suggest" THEN "suggested" ELSE "pending_confirmation",
                      !.active = TouchedIn(plan, q, stepStates, {"active"})]
<1> DEFINE applies == input = row.input /\ PatchApplies(q, row.base, Cursor)
<1>1. Typed /\ RequestOK(ask, log, plan) /\ ask # Idle
  BY DEF Inv, RequestsOK, Propose, Idle
<1>2. PICK st : ask \in
        [phase : {"read", "assessing", "failing"}, mode : Mode, domain : Nat, plan : Plans,
         states : {st}, recent : SUBSET Nat, base : Nat, input : Nat, seen : Nat]
  BY <1>1 DEF RequestOK
<1>3. /\ ask.base <= ask.seen /\ ask.seen <= Len(log) /\ Len(log) \in Nat
      /\ WasCurrent(ask.plan, ask.seen, log, plan)
      /\ q.version = ask.plan.version + 1
      /\ cause \in Nat
  BY <1>1 DEF RequestOK, Propose, Candidates, Typed
<1>4. UNCHANGED <<input, configured, confirmations>>
      /\ requests' = [requests EXCEPT ![r] = Idle]
  BY DEF Propose
<1>5. TouchedIn(plan, q, stepStates, {"active"}) \subseteq Step
  BY <1>1, TouchedIsStep DEF Typed
<1>6. \/ Ignore
      \/ Prior(row) = {} /\ Fail(Append(patches, row))
      \/ Prior(row) = {} /\ applies /\ Activate(Append(patches, applied), q)
      \/ Prior(row) = {} /\ Keep(Append(patches, kept))
  BY DEF Propose
<1>7. Moves
  BY <1>1, <1>4, <1>6, AgentMoves
<1>8. row \in PatchRow /\ applied \in PatchRow /\ kept \in PatchRow
  <2> DEFINE status == IF mode = "suggest" THEN "suggested" ELSE "pending_confirmation"
  <2>1. row \in PatchRow
    BY <1>2, <1>3 DEF PatchRow
  <2>2. {"applied", status} \subseteq SuccessStatus /\ Len(log) + 1 \in Nat
    BY <1>3 DEF SuccessStatus
  <2>3. [row EXCEPT !.status = "applied"] \in PatchRow
    BY <2>1, <2>2, WithStatus
  <2>4. applied \in PatchRow
    BY <2>2, <2>3, WithAt
  <2>5. [row EXCEPT !.status = status] \in PatchRow
    BY <2>1, <2>2, WithStatus
  <2>6. kept \in PatchRow
    BY <1>5, <2>5, WithActive
  <2>. QED BY <2>1, <2>4, <2>6
<1>9. RowOK(row, log, plan) /\ RowOK(kept, log, plan)
  BY <1>3, <1>8 DEF RowOK, AsAssessed
<1>10. Prior(kept) = Prior(row) /\ Prior(applied) = Prior(row)
  BY DEF Prior, SameCause, SameAttempt
<1>11. RowsOK' /\ KeysStayUnique' /\ DOMAIN patches \subseteq DOMAIN patches'
  <2>1. CASE Ignore
    BY <1>1, <1>7, <2>1, RowsKept DEF Inv, Ignore
  <2>2. CASE Prior(row) = {} /\ Fail(Append(patches, row))
    <3>1. RowOK(row, log', plan')
      BY <1>1, <1>7, <1>9, RowKept DEF Moves, Typed
    <3>. QED BY <1>7, <2>2, <3>1, RowAdded DEF Fail
  <2>3. CASE Prior(row) = {} /\ Keep(Append(patches, kept))
    <3>1. RowOK(kept, log', plan')
      BY <1>1, <1>7, <1>9, RowKept DEF Moves, Typed
    <3>. QED BY <1>7, <1>10, <2>3, <3>1, RowAdded DEF Keep
  <2>4. CASE Prior(row) = {} /\ applies /\ Activate(Append(patches, applied), q)
    <3>1. plan.version = ask.plan.version /\ ask.base = Cursor
      BY <1>1, <1>2, <1>3, <2>4, PlansAssumption DEF PatchApplies, Typed, E!IsPlan
    <3>2. \A k \in ask.seen + 1 .. Len(log) : log[k].type = "audit"
      BY <1>1, <1>2, <1>3, <3>1, OnlyAuditSince
    <3>3. log' = Append(log, Event("plan_updated", NoStep))
      BY <2>4 DEF Activate, Record
    <3>4. Len(log') = Len(log) + 1 /\ \A k \in 1..Len(log) : log'[k] = log[k]
      BY <1>1, <3>3 DEF Typed
    <3>5. AsAssessed(applied, log')
      BY <1>2, <1>3, <3>2, <3>4 DEF AsAssessed
    <3>6. WasCurrent(ask.plan, ask.seen, log', plan')
      BY <1>1, <1>2, <1>3, <1>7, WasCurrentKept DEF Moves, Typed
    <3>7. RowOK(applied, log', plan')
      BY <1>2, <1>3, <1>8, <3>4, <3>5, <3>6 DEF RowOK
    <3>. QED BY <1>7, <1>10, <2>4, <3>7, RowAdded DEF Activate
  <2>. QED BY <1>6, <2>1, <2>2, <2>3, <2>4
<1>12. RequestsOK'
  BY <1>1, <1>4, <1>7, RequestsKept DEF Inv, RequestOK
<1>13. ConfirmationsOK'
  BY <1>4, <1>11, ConfirmationsKept DEF Inv
<1>. QED BY <1>7, <1>11, <1>12, <1>13 DEF Inv, Moves

LEMMA ConfirmInv ==
  ASSUME Inv, NEW c \in Confirmation, Confirm(c)
  PROVE  Inv'
<1> DEFINE i == confirmations[c].patch
<1> DEFINE row == patches[i]
<1> DEFINE applied == [row EXCEPT !.status = "applied", !.at = Len(log) + 1, !.confirmed = TRUE]
<1> DEFINE failed == [row EXCEPT !.status = "failed"]
<1>1. Typed /\ i \in DOMAIN patches /\ RowOK(row, log, plan) /\ patches \in Seq(PatchRow)
  BY DEF Inv, ConfirmationsOK, Confirmations, Confirm, Idle, RowsOK
<1>2. row \in PatchRow /\ Len(log) \in Nat /\ row.plan \in Plans /\ row.candidate \in Plans
      /\ row.seen \in Nat /\ row.base \in Nat
  BY <1>1, RowFields DEF RowOK, Typed
<1>3. UNCHANGED <<input, configured, requests>>
      /\ confirmations' = [confirmations EXCEPT ![c] = Idle]
  BY DEF Confirm
<1>4. \/ Ignore
      \/ /\ row.status = "pending_confirmation" /\ Confirmable(row)
         /\ Activate([patches EXCEPT ![i] = applied], row.candidate)
      \/ /\ row.status = "pending_confirmation"
         /\ Fail([patches EXCEPT ![i] = failed])
  BY DEF Confirm
<1>5. Moves
  BY <1>1, <1>2, <1>3, <1>4, AgentMoves
<1>6. applied \in PatchRow /\ failed \in PatchRow
      /\ SameAttempt(applied, row) /\ SameAttempt(failed, row)
  <2> DEFINE one == [row EXCEPT !.status = "applied"]
  <2> DEFINE two == [one EXCEPT !.at = Len(log) + 1]
  <2>1. "applied" \in SuccessStatus /\ Len(log) + 1 \in Nat
    BY <1>2 DEF SuccessStatus
  <2>2. one \in PatchRow /\ Others(row, one, {"status"})
    BY <1>2, <2>1, WithStatus
  <2>3. two \in PatchRow /\ Others(one, two, {"at"})
    BY <2>1, <2>2, WithAt
  <2>4. applied \in PatchRow /\ Others(two, applied, {"confirmed"})
    BY <2>3, WithConfirmed
  <2>5. failed \in PatchRow /\ Others(row, failed, {"status"})
    BY <1>2, WithStatus
  <2> HIDE DEF one, two, applied, failed
  <2>. QED BY <2>2, <2>3, <2>4, <2>5 DEF Others, SameAttempt, SameCause
<1>7. RowsOK' /\ KeysStayUnique' /\ DOMAIN patches \subseteq DOMAIN patches'
  <2>1. CASE Ignore
    BY <1>1, <1>5, <2>1, RowsKept DEF Inv, Ignore
  <2>2. CASE /\ row.status = "pending_confirmation"
             /\ Fail([patches EXCEPT ![i] = failed])
    <3>1. RowOK(failed, log, plan)
      BY <1>1, <1>2, <1>6 DEF RowOK, AsAssessed, PatchRow
    <3>2. RowOK(failed, log', plan')
      BY <1>1, <1>5, <3>1, RowKept DEF Moves, Typed
    <3>. QED BY <1>1, <1>5, <1>6, <2>2, <3>2, RowSettled DEF Fail
  <2>3. CASE /\ row.status = "pending_confirmation" /\ Confirmable(row)
             /\ Activate([patches EXCEPT ![i] = applied], row.candidate)
    <3>1. plan.version = row.plan.version /\ row.base = CursorFor(row)
      BY <1>1, <1>2, <2>3, PlansAssumption DEF Confirmable, PatchApplies, RowOK, Typed, E!IsPlan
    <3>2. \A k \in row.seen + 1 .. Len(log) :
            \/ log[k].type = "audit"
            \/ /\ row.active # {}
               /\ \/ log[k].type = "pause"
                  \/ log[k].type = "step_paused" /\ log[k].step \in row.active
      <4>1. CASE row.active # {} /\ OnlyInterruptionsSince(row.base, row.active)
        <5> SUFFICES ASSUME NEW k \in row.seen + 1 .. Len(log)
                     PROVE  \/ log[k].type \in {"audit", "pause"}
                            \/ log[k].type = "step_paused" /\ log[k].step \in row.active
          BY <4>1
        <5>1. k \in DOMAIN log /\ k > row.base
          BY <1>1, <1>2 DEF RowOK, Typed
        <5>. QED BY <4>1, <5>1 DEF OnlyInterruptionsSince
      <4>2. CASE ~(row.active # {} /\ OnlyInterruptionsSince(row.base, row.active))
        <5>1. row.base = Cursor
          BY <3>1, <4>2 DEF CursorFor
        <5>2. \A k \in row.seen + 1 .. Len(log) : log[k].type = "audit"
          BY <1>1, <1>2, <3>1, <5>1, OnlyAuditSince DEF RowOK
        <5>. QED BY <5>2
      <4>. QED BY <4>1, <4>2
    <3>3. log' = Append(log, Event("plan_updated", NoStep))
      BY <2>3 DEF Activate, Record
    <3>4. Len(log') = Len(log) + 1 /\ \A k \in 1..Len(log) : log'[k] = log[k]
      BY <1>1, <3>3 DEF Typed
    <3>5. /\ applied.seen = row.seen /\ applied.at = Len(log) + 1 /\ applied.active = row.active
          /\ applied.plan = row.plan /\ applied.candidate = row.candidate
          /\ applied.base = row.base
      BY <1>2 DEF PatchRow
    <3>6. AsAssessed(applied, log')
      BY <1>1, <1>2, <3>2, <3>4, <3>5 DEF AsAssessed, RowOK
    <3>7. WasCurrent(row.plan, row.seen, log', plan')
      BY <1>1, <1>2, <1>5, WasCurrentKept DEF Moves, Typed, RowOK
    <3>8. RowOK(applied, log', plan')
      BY <1>1, <1>2, <1>6, <3>4, <3>5, <3>6, <3>7 DEF RowOK
    <3>. QED BY <1>1, <1>5, <1>6, <2>3, <3>8, RowSettled DEF Activate
  <2>. QED BY <1>4, <2>1, <2>2, <2>3
<1>8. RequestsOK'
  BY <1>1, <1>3, <1>5, RequestsKept DEF Inv
<1>9. ConfirmationsOK'
  BY <1>3, <1>7 DEF Inv, ConfirmationsOK, Confirmations
<1>. QED BY <1>5, <1>7, <1>8, <1>9 DEF Inv, Moves

-------------------------------------------------------------------------------
LEMMA NextInv == Inv /\ [Next]_vars => Inv'
<1> SUFFICES ASSUME Inv, [Next]_vars PROVE Inv'
  OBVIOUS
<1>1. CASE UNCHANGED vars
  <2>1. Moves
    BY <1>1, SameMoves DEF vars, Inv, Typed
  <2>. QED BY <1>1, <2>1, RowsKept, RequestsKept, ConfirmationsKept DEF vars, Inv, Moves
<1>2. CASE \/ WorkEvent \/ TimerEvent \/ \E type \in {"news", "audit"} : OtherEvent(type)
           \/ PutNormalizedInput \/ Deploy
  BY <1>2, SessionInv
<1>3. ASSUME NEW r \in Request, NEW mode \in Asked, TakeSnapshot(r, mode) PROVE Inv'
  BY <1>3, TakeSnapshotInv
<1>4. ASSUME NEW r \in Request, ReadInput(r) \/ NotNeeded(r) \/ Refuse(r) \/ AppendFailure(r)
      PROVE Inv'
  BY <1>4, PhaseInv
<1>5. ASSUME NEW r \in Request, NEW cause \in DOMAIN log, NEW q \in Plans, NEW mode \in Mode,
             Propose(r, cause, q, mode)
      PROVE Inv'
  BY <1>5, ProposeInv
<1>6. ASSUME NEW c \in Confirmation, NEW i \in DOMAIN patches, ReadPatch(c, i) PROVE Inv'
  BY <1>6, ReadPatchInv
<1>7. ASSUME NEW c \in Confirmation, Confirm(c) PROVE Inv'
  BY <1>7, ConfirmInv
<1>. QED BY <1>1, <1>2, <1>3, <1>4, <1>5, <1>6, <1>7 DEF Next

LEMMA InvHolds == Spec => []Inv
BY InitInv, NextInv, PTL DEF Spec

\* The unique indexes of plan_patches are never run into: the lookups of proposeReplan
\* find every row that the new one could collide with, and settling a row keeps its keys.
THEOREM KeysAlwaysUnique == Spec => []KeysStayUnique
<1>1. Inv => KeysStayUnique
  BY DEF Inv
<1>. QED BY <1>1, InvHolds, PTL

\* However long the model took, and however long a patch waited for its confirmation: the
\* cursor and the version of the plan tell the agent that its assessment still stands.
THEOREM AlwaysAppliedAsAssessed == Spec => []AppliedAsAssessed
<1>1. Inv => AppliedAsAssessed
  BY DEF Inv, RowsOK, RowOK, AsAssessed, AppliedAsAssessed
<1>. QED BY <1>1, InvHolds, PTL

-------------------------------------------------------------------------------
\* Every step of a replanned session is one of the reducer, or leaves the session alone:
\* what is proved of ExecutionState holds of it.
THEOREM SessionIsReduced == Spec => E!Spec
<1>1. Init => E!Init
  BY DEF Init
<1>2. Inv /\ [Next]_vars => [E!Next]_(E!vars)
  <2> SUFFICES ASSUME Inv, [Next]_vars PROVE E!Next \/ UNCHANGED work
    BY DEF E!vars, work
  <2>1. CASE WorkEvent
    BY <2>1 DEF WorkEvent, E!Next
  <2>2. CASE \E r \in Request, cause \in DOMAIN log, q \in Plans, mode \in Mode :
               Propose(r, cause, q, mode)
    BY <2>2 DEF Propose, Fail, Keep, Activate, Ignore, E!Next
  <2>3. ASSUME NEW c \in Confirmation, Confirm(c) PROVE E!Next \/ UNCHANGED work
    <3>1. patches[confirmations[c].patch].candidate \in Plans
      BY <2>3, RowFields DEF Inv, ConfirmationsOK, Confirmations, Confirm, Idle, RowsOK, RowOK
    <3>. QED BY <2>3, <3>1 DEF Confirm, Fail, Activate, Ignore, E!Next
  <2>4. CASE UNCHANGED vars
    BY <2>4 DEF vars, work
  <2>. QED BY <2>1, <2>2, <2>3, <2>4
           DEF Next, TimerEvent, OtherEvent, PutNormalizedInput, Deploy, TakeSnapshot, ReadInput,
               NotNeeded, Refuse, AppendFailure, ReadPatch
<1>. QED BY <1>1, <1>2, InvHolds, PTL DEF Spec, E!Spec

-------------------------------------------------------------------------------
\* The state has exactly the steps of the plan.
StatesOfPlan == DOMAIN stepStates = plan.steps

LEMMA StatesOfPlanHolds == Spec => []StatesOfPlan
<1>1. E!Init => StatesOfPlan
  BY DEF E!Init, StatesOfPlan, E!DeriveStepStatuses
<1>2. StatesOfPlan /\ [E!Next]_(E!vars) => StatesOfPlan'
  <2> SUFFICES ASSUME StatesOfPlan, [E!Next]_(E!vars) PROVE StatesOfPlan'
    OBVIOUS
  <2>1. ASSUME NEW s, NEW next, E!StepEvent(s, next) PROVE StatesOfPlan'
    BY <2>1 DEF E!StepEvent, E!Overlay, E!DeriveStepStatuses, StatesOfPlan
  <2>2. ASSUME NEW p \in Plans, E!PlanUpdated(p) PROVE StatesOfPlan'
    <3>1. DOMAIN E!RetainedStates(p) \subseteq p.steps
      BY DEF E!RetainedStates
    <3>2. DOMAIN E!DeriveStepStatuses(p, E!RetainedStates(p)) = p.steps
      BY DEF E!DeriveStepStatuses
    <3>. QED BY <2>2, <3>1, <3>2 DEF E!PlanUpdated, E!Overlay, StatesOfPlan
  <2>3. CASE UNCHANGED <<plan, stepStates>>
    BY <2>3 DEF StatesOfPlan
  <2>. QED BY <2>1, <2>2, <2>3
           DEF E!Next, E!vars, E!StepStarted, E!StepPaused, E!StepCompleted, E!StepFailed,
               E!StepSkipped, E!SessionStarted, E!SessionPaused, E!SessionCancelled,
               E!GoalEvaluated, E!GoalCompletionConfirmed
<1>. QED BY <1>1, <1>2, SessionIsReduced, PTL DEF E!Spec

-------------------------------------------------------------------------------
\* What NothingSilent says of one step.
Announced ==
  \A i \in DOMAIN patches' :
    patches'[i].at = Len(log') /\ log' # log =>
      /\ patches'[i].mode # "suggest"
      /\ patches'[i].confirmed \/ patches'[i].mode = "automatic"
      /\ patches'[i].confirmed \/
           \A s \in DOMAIN stepStates : stepStates[s] \in {"active", "paused", "failed"} =>
             s \in plan'.steps /\ E!StructurallyEqual(plan, plan', s)

LEMMA OldRowsAreOlder ==
  ASSUME Inv, NEW i \in DOMAIN patches, NEW e, log' = Append(log, e)
  PROVE  patches[i].at # Len(log')
<1>1. Len(log) \in Nat /\ Len(log') = Len(log) + 1
  BY DEF Inv, Typed
<1>2. patches[i].at \in Nat /\ patches[i].at <= Len(log)
  BY RowFields DEF Inv, RowsOK, RowOK
<1>. QED BY <1>1, <1>2

LEMMA UntouchedSteps ==
  ASSUME StatesOfPlan, NEW q, NEW statuses, TouchedIn(plan, q, stepStates, statuses) = {}
  PROVE  \A s \in DOMAIN stepStates : stepStates[s] \in statuses =>
           s \in q.steps /\ E!StructurallyEqual(plan, q, s)
BY DEF TouchedIn, Touched, StatesOfPlan

LEMMA ProposeAnnounced ==
  ASSUME Inv, StatesOfPlan, NEW r \in Request, NEW cause \in DOMAIN log, NEW q \in Plans,
         NEW mode \in Mode, Propose(r, cause, q, mode)
  PROVE  Announced
<1> DEFINE ask == requests[r]
<1> DEFINE row == [domain |-> ask.domain, input |-> ask.input, cause |-> cause,
                   plan |-> ask.plan, base |-> ask.base, candidate |-> q,
                   mode |-> mode, active |-> {}, status |-> "failed",
                   seen |-> ask.seen, at |-> 0, confirmed |-> FALSE]
<1> DEFINE applied == [row EXCEPT !.status = "applied", !.at = Len(log) + 1]
<1> DEFINE kept == [row EXCEPT
                      !.status = IF mode = "suggest" THEN "suggested" ELSE "pending_confirmation",
                      !.active = TouchedIn(plan, q, stepStates, {"active"})]
<1>1. \/ Ignore
      \/ NeedsNobody(row) /\ Activate(Append(patches, applied), q)
      \/ patches' = Append(patches, row) /\ log' # log
      \/ patches' = Append(patches, kept) /\ log' # log
  BY DEF Propose, Fail, Keep, Record, Inv, Typed
<1>2. patches \in Seq(PatchRow) /\ Len(log) \in Nat
  BY DEF Inv, RowsOK, Typed
<1>3. Moves
  <2>1. UNCHANGED <<input, configured>> /\ Typed
    BY DEF Propose, Inv
  <2>2. \/ Ignore \/ Fail(Append(patches, row)) \/ Activate(Append(patches, applied), q)
        \/ Keep(Append(patches, kept))
    BY DEF Propose
  <2>. QED BY <2>1, <2>2, AgentMoves
<1> SUFFICES ASSUME NEW i \in DOMAIN patches', patches'[i].at = Len(log'), log' # log
             PROVE  /\ patches'[i].mode # "suggest"
                    /\ patches'[i].confirmed \/ patches'[i].mode = "automatic"
                    /\ patches'[i].confirmed \/
                         \A s \in DOMAIN stepStates :
                           stepStates[s] \in {"active", "paused", "failed"} =>
                             s \in plan'.steps /\ E!StructurallyEqual(plan, plan', s)
  BY DEF Announced
<1>4. ASSUME NEW new, patches' = Append(patches, new) PROVE patches'[i] = new
  <2>1. \A j \in DOMAIN patches : patches'[j] = patches[j]
    BY <1>2, <1>4
  <2>2. i \notin DOMAIN patches
    BY <1>3, <2>1, OldRowsAreOlder DEF Moves, Grows
  <2>. QED BY <1>2, <1>4, <2>2
<1>5. Len(log') > 0
  BY <1>2, <1>3 DEF Moves, Grows
<1>6. CASE Ignore
  BY <1>6 DEF Ignore
<1>7. CASE patches' = Append(patches, row)
  BY <1>4, <1>5, <1>7
<1>8. CASE patches' = Append(patches, kept)
  <2>1. kept.at = 0
    OBVIOUS
  <2> HIDE DEF kept
  <2>. QED BY <1>4, <1>5, <1>8, <2>1
<1>9. CASE NeedsNobody(row) /\ Activate(Append(patches, applied), q)
  <2>1. patches'[i] = applied /\ plan' = q
    BY <1>4, <1>9 DEF Activate, E!PlanUpdated
  <2>2. applied.mode = row.mode /\ row.mode = "automatic"
    BY <1>9 DEF NeedsNobody
  <2>3. TouchedIn(plan, q, stepStates, {"active", "paused", "failed"}) = {}
    BY <1>9 DEF NeedsNobody
  <2>. QED BY <2>1, <2>2, <2>3, UntouchedSteps
<1>. QED BY <1>1, <1>6, <1>7, <1>8, <1>9

LEMMA ConfirmAnnounced ==
  ASSUME Inv, NEW c \in Confirmation, Confirm(c)
  PROVE  Announced
<1> DEFINE i == confirmations[c].patch
<1> DEFINE row == patches[i]
<1> DEFINE one == [row EXCEPT !.status = "applied"]
<1> DEFINE two == [one EXCEPT !.at = Len(log) + 1]
<1> DEFINE applied == [two EXCEPT !.confirmed = TRUE]
<1> DEFINE failed == [row EXCEPT !.status = "failed"]
<1>1. i \in DOMAIN patches /\ RowOK(row, log, plan) /\ patches \in Seq(PatchRow)
      /\ row \in PatchRow /\ Len(log) \in Nat
  BY DEF Inv, ConfirmationsOK, Confirmations, Confirm, Idle, RowsOK, RowOK, Typed
<1>2. \/ Ignore
      \/ row.status = "pending_confirmation" /\ patches' = [patches EXCEPT ![i] = applied]
      \/ patches' = [patches EXCEPT ![i] = failed]
  BY DEF Confirm, Fail, Activate
<1>3. Moves
  <2>1. UNCHANGED <<input, configured>> /\ Typed /\ row.candidate \in Plans
    BY <1>1, RowFields DEF Confirm, Inv
  <2>2. \/ Ignore \/ Fail([patches EXCEPT ![i] = failed])
        \/ Activate([patches EXCEPT ![i] = applied], row.candidate)
    BY DEF Confirm
  <2>. QED BY <2>1, <2>2, AgentMoves
<1>4. /\ applied.mode = row.mode /\ applied.confirmed = TRUE
      /\ failed.at = row.at
  BY <1>1 DEF PatchRow
<1> HIDE DEF applied, failed
<1> SUFFICES ASSUME NEW j \in DOMAIN patches', patches'[j].at = Len(log'), log' # log
             PROVE  patches'[j].mode # "suggest" /\ patches'[j].confirmed
  BY DEF Announced
<1>5. CASE Ignore
  BY <1>5 DEF Ignore
<1>6. CASE j # i \/ patches' = [patches EXCEPT ![i] = failed]
  <2>1. j \in DOMAIN patches /\ patches'[j].at = patches[j].at
    BY <1>1, <1>2, <1>4, <1>6 DEF Ignore
  <2>. QED BY <1>3, <2>1, OldRowsAreOlder DEF Moves, Grows
<1>7. CASE /\ j = i /\ row.status = "pending_confirmation"
           /\ patches' = [patches EXCEPT ![i] = applied]
  <2>1. patches'[j] = applied
    BY <1>1, <1>7
  <2>. QED BY <1>1, <1>4, <1>7, <2>1 DEF RowOK
<1>. QED BY <1>2, <1>5, <1>6, <1>7

\* Nobody's work is replanned behind their back: in every step that makes a patch the
\* plan, proposeReplan has looked at the steps of that moment, or a human has confirmed.
THEOREM NeverSilent == Spec => NothingSilent
<1>1. Inv /\ StatesOfPlan /\ [Next]_vars => [Announced]_vars
  <2> SUFFICES ASSUME Inv, StatesOfPlan, Next PROVE Announced
    OBVIOUS
  <2>1. ASSUME NEW r \in Request, NEW cause \in DOMAIN log, NEW q \in Plans, NEW mode \in Mode,
               Propose(r, cause, q, mode)
        PROVE  Announced
    BY <2>1, ProposeAnnounced
  <2>2. ASSUME NEW c \in Confirmation, Confirm(c) PROVE Announced
    BY <2>2, ConfirmAnnounced
  <2>3. CASE UNCHANGED patches /\ (UNCHANGED log \/ \E type, s : Record(type, s))
    BY <2>3, OldRowsAreOlder DEF Announced, Record
  <2>. QED BY <2>1, <2>2, <2>3
           DEF Next, WorkEvent, TimerEvent, OtherEvent, PutNormalizedInput, Deploy, TakeSnapshot,
               ReadInput, NotNeeded, Refuse, AppendFailure, ReadPatch
<1>. QED BY <1>1, InvHolds, StatesOfPlanHolds, PTL DEF Spec, NothingSilent, Announced
-------------------------------------------------------------------------------
\* The types of ExecutionState: its own theorem, of the same specification.
X == INSTANCE ExecutionStateProofs

LEMMA SameInit == E!Init <=> X!Init
BY DEF E!Init, X!Init, E!DeriveStepStatuses, X!DeriveStepStatuses, E!TerminalStepStatus,
         X!TerminalStepStatus, E!NoEvaluation, X!NoEvaluation

LEMMA SameNext == [E!Next]_(E!vars) <=> [X!Next]_(X!vars)
BY DEF E!StepStatus, X!StepStatus, E!TerminalStepStatus, X!TerminalStepStatus,
         E!ProtectedStepStatus, X!ProtectedStepStatus, E!SessionStatus, X!SessionStatus,
         E!TerminalSessionStatus, X!TerminalSessionStatus, E!EvaluationStatus,
         X!EvaluationStatus, E!NoEvaluation, X!NoEvaluation, E!vars, X!vars, E!Overlay,
         X!Overlay, E!AllowedTransitions, X!AllowedTransitions, E!DeriveStepStatuses,
         X!DeriveStepStatuses, E!GoalSatisfied, X!GoalSatisfied, E!AutomaticallyComplete,
         X!AutomaticallyComplete, E!StructurallyEqual, X!StructurallyEqual, E!NotTerminal,
         X!NotTerminal, E!StepEvent, X!StepEvent, E!StepStarted, X!StepStarted,
         E!StepPaused, X!StepPaused, E!StepCompleted, X!StepCompleted, E!StepFailed,
         X!StepFailed, E!StepSkipped, X!StepSkipped, E!SessionStarted, X!SessionStarted,
         E!SessionPaused, X!SessionPaused, E!SessionCancelled, X!SessionCancelled,
         E!GoalEvaluated, X!GoalEvaluated, E!GoalCompletionConfirmed,
         X!GoalCompletionConfirmed, E!RespectsProtectedSteps, X!RespectsProtectedSteps,
         E!RetainedStates, X!RetainedStates, E!PlanUpdated, X!PlanUpdated, E!Next, X!Next

LEMMA SameType == E!TypeOK <=> X!TypeOK
BY DEF E!TypeOK, X!TypeOK, E!IsPlan, X!IsPlan, E!IsDag, X!IsDag, E!StepStatus,
         X!StepStatus, E!SessionStatus, X!SessionStatus, E!EvaluationStatus,
         X!EvaluationStatus, E!NoEvaluation, X!NoEvaluation

LEMMA SessionTyped == Spec => []E!TypeOK
<1>1. X!Spec => []X!TypeOK
  BY X!TypeCorrect, PlansAssumption DEF E!IsPlan, E!IsDag, X!IsPlan, X!IsDag
<1>. QED BY <1>1, SameInit, SameNext, SameType, SessionIsReduced, PTL DEF E!Spec, X!Spec

\* What the agent accepts as a patch of the current plan, the reducer accepts as the next
\* plan: both look for completed, skipped and active steps that the patch touches.
THEOREM PatchesAreValid == Spec => []ValidPatchIsAccepted
<1>1. StatesOfPlan => ValidPatchIsAccepted
  <2> SUFFICES ASSUME StatesOfPlan, NEW q,
                      TouchedIn(plan, q, stepStates, {"completed", "skipped"}) = {},
                      TouchedIn(plan, q, stepStates, {"active"}) = {}
               PROVE  E!RespectsProtectedSteps(q)
    BY DEF ValidPatchIsAccepted, PatchApplies
  <2>1. \A s \in DOMAIN stepStates :
          stepStates[s] \in {"completed", "skipped"} \/ stepStates[s] \in {"active"} =>
            s \in q.steps /\ E!StructurallyEqual(plan, q, s)
    BY UntouchedSteps
  <2>. QED BY <2>1 DEF E!RespectsProtectedSteps, E!ProtectedStepStatus
<1>. QED BY <1>1, StatesOfPlanHolds, PTL

-------------------------------------------------------------------------------
\* Types. A request knows of events of the log only, and if no plan came after the one it
\* assessed, that is the plan of now: the active steps of a row are steps of its plan.
AskOK(q, lg, in, p) ==
  \/ q = Idle
  \/ /\ q \in [phase : {"read", "assessing", "failing"}, mode : Mode, domain : Nat, plan : Plans,
               states : StepStates, recent : SUBSET Nat, base : Nat, input : 0..in, seen : Nat]
     /\ q.base <= q.seen /\ q.seen <= Len(lg) /\ q.recent \subseteq 1..q.seen
     /\ q.plan.version <= p.version
     /\ q.plan.version = p.version => q.plan = p

CauseOK(row) == row.active \subseteq row.plan.steps /\ row.cause \in 1..row.seen

TimersOK == timers \in [running : 0..MaxTimers, paused : 0..MaxTimers]
               /\ timers.running + timers.paused <= MaxTimers
AsksOK == \A r \in Request : AskOK(requests[r], log, input, plan)
CausesOK == \A i \in DOMAIN patches : CauseOK(patches[i])
Types == TimersOK /\ AsksOK /\ CausesOK

LEMMA AskKept ==
  ASSUME NEW lg \in Seq(EventRecord), NEW lg2, NEW p \in Plans, NEW p2 \in Plans,
         Len(lg) <= Len(lg2), Len(lg2) \in Nat, p2 = p \/ p.version < p2.version,
         NEW in \in Nat, NEW in2 \in Nat, in <= in2, NEW q, AskOK(q, lg, in, p)
  PROVE  AskOK(q, lg2, in2, p2)
<1>1. \A v \in Plans : v.version \in Nat
  BY PlansAssumption DEF E!IsPlan
<1>2. CASE q = Idle
  BY <1>2 DEF AskOK
<1>3. CASE q # Idle
  <2>1. q.plan \in Plans /\ q.seen \in Nat /\ q.input \in 0..in /\ Len(lg) \in Nat
    BY <1>3 DEF AskOK
  <2>2. q.input \in 0..in2
    BY <2>1
  <2>3. q \in [phase : {"read", "assessing", "failing"}, mode : Mode, domain : Nat, plan : Plans,
               states : StepStates, recent : SUBSET Nat, base : Nat, input : 0..in2, seen : Nat]
    BY <1>3, <2>2 DEF AskOK
  <2>4. q.seen <= Len(lg2)
    BY <1>3, <2>1 DEF AskOK
  <2>5. q.plan.version <= p2.version /\ (q.plan.version = p2.version => q.plan = p2)
    BY <1>1, <1>3, <2>1 DEF AskOK
  <2>. QED BY <1>3, <2>3, <2>4, <2>5 DEF AskOK
<1>. QED BY <1>2, <1>3

\* Every step keeps the log, the inputs and the plan, or adds to them.
LEMMA StepGrows ==
  ASSUME Inv, Inv', [Next]_vars
  PROVE  /\ Len(log) <= Len(log') /\ Len(log') \in Nat
         /\ plan' = plan \/ plan.version < plan'.version
         /\ input <= input'
<1> DEFINE Adds == \/ UNCHANGED log
                   \/ \E type, s : Record(type, s)
<1>1. Len(log) \in Nat /\ Len(log') \in Nat /\ input \in Nat
  BY DEF Inv, Typed
<1>2. Adds => Len(log) <= Len(log')
  BY <1>1 DEF Inv, Typed, Record
<1>3. input' = input + 1 \/ UNCHANGED input => input <= input'
  BY <1>1
<1>4. ASSUME NEW q \in Plans, E!PlanUpdated(q) PROVE plan.version < plan'.version
  <2>1. \A v \in Plans : v.version \in Nat
    BY PlansAssumption DEF E!IsPlan
  <2>. QED BY <1>4, <2>1 DEF E!PlanUpdated, Inv, Typed
<1>5. CASE WorkEvent
  <2>1. UNCHANGED plan
    BY <1>5 DEF WorkEvent, E!SessionStarted, E!SessionPaused, E!SessionCancelled,
           E!StepStarted, E!StepPaused, E!StepCompleted, E!StepFailed, E!StepSkipped, E!StepEvent
  <2>2. Adds /\ UNCHANGED input
    BY <1>5 DEF WorkEvent
  <2>. QED BY <1>1, <1>2, <1>3, <2>1, <2>2
<1>6. CASE \/ TimerEvent \/ \E type \in {"news", "audit"} : OtherEvent(type)
           \/ PutNormalizedInput \/ Deploy
  <2>1. Adds
    BY <1>6 DEF TimerEvent, OtherEvent, PutNormalizedInput, Deploy
  <2>2. UNCHANGED plan /\ (input' = input + 1 \/ UNCHANGED input)
    BY <1>6 DEF TimerEvent, OtherEvent, PutNormalizedInput, Deploy, work
  <2>. QED BY <1>1, <1>2, <1>3, <2>1, <2>2
<1>7. CASE \/ \E r \in Request, mode \in Asked : TakeSnapshot(r, mode)
           \/ \E r \in Request : ReadInput(r) \/ NotNeeded(r) \/ Refuse(r) \/ AppendFailure(r)
           \/ \E c \in Confirmation, i \in DOMAIN patches : ReadPatch(c, i)
           \/ UNCHANGED vars
  <2>1. Adds
    BY <1>7 DEF TakeSnapshot, ReadInput, NotNeeded, Refuse, AppendFailure, ReadPatch, vars
  <2>2. UNCHANGED <<plan, input>>
    BY <1>7 DEF TakeSnapshot, ReadInput, NotNeeded, Refuse, AppendFailure, ReadPatch, vars, work
  <2>. QED BY <1>1, <1>2, <1>3, <2>1, <2>2
<1>8. CASE \/ \E r \in Request, cause \in DOMAIN log, q \in Plans, mode \in Mode :
                Propose(r, cause, q, mode)
           \/ \E c \in Confirmation : Confirm(c)
  <2>1. CASE \E c \in Confirmation : Confirm(c)
    <3>1. PICK c \in Confirmation : Confirm(c)
      BY <2>1
    <3>2. patches[confirmations[c].patch].candidate \in Plans
      BY <3>1, RowFields DEF Inv, ConfirmationsOK, Confirmations, Confirm, Idle, RowsOK, RowOK
    <3>3. Adds /\ (UNCHANGED plan \/ E!PlanUpdated(patches[confirmations[c].patch].candidate))
      BY <3>1 DEF Confirm, Ignore, Fail, Activate, work
    <3>4. UNCHANGED input
      BY <3>1 DEF Confirm
    <3>. QED BY <1>1, <1>2, <1>3, <1>4, <3>2, <3>3, <3>4
  <2>2. CASE \E r \in Request, cause \in DOMAIN log, q \in Plans, mode \in Mode :
               Propose(r, cause, q, mode)
    <3>1. PICK r \in Request, cause \in DOMAIN log, q \in Plans, mode \in Mode :
                 Propose(r, cause, q, mode)
      BY <2>2
    <3>2. Adds /\ (UNCHANGED plan \/ E!PlanUpdated(q))
      BY <3>1 DEF Propose, Ignore, Fail, Keep, Activate, work
    <3>3. UNCHANGED input
      BY <3>1 DEF Propose
    <3>. QED BY <1>1, <1>2, <1>3, <1>4, <3>2, <3>3
  <2>. QED BY <1>8, <2>1, <2>2
<1>. QED BY <1>5, <1>6, <1>7, <1>8 DEF Next

LEMMA AsksKept ==
  ASSUME Inv, Inv', [Next]_vars, AsksOK, E!TypeOK
  PROVE  AsksOK'
<1>1. \A r \in Request : AskOK(requests[r], log', input', plan')
  BY StepGrows, AskKept DEF Inv, Typed, AsksOK
<1>2. CASE UNCHANGED requests
  BY <1>1, <1>2 DEF AsksOK
<1>3. ASSUME NEW r \in Request, NEW q, requests' = [requests EXCEPT ![r] = q],
             AskOK(q, log', input', plan')
      PROVE  AsksOK'
  <2>1. \A x \in Request : requests'[x] = IF x = r THEN q ELSE requests[x]
    BY <1>3 DEF Inv, RequestsOK
  <2>. QED BY <1>1, <1>3, <2>1 DEF AsksOK
<1>4. ASSUME NEW r \in Request, NEW mode \in Asked, TakeSnapshot(r, mode) PROVE AsksOK'
  <2> DEFINE q == [phase |-> "read", mode |-> mode, domain |-> configured, plan |-> plan,
                   states |-> stepStates, recent |-> Recent, base |-> LastOperational(Recent),
                   input |-> 0, seen |-> Len(log)]
  <2>1. Typed
    BY DEF Inv
  <2>2. Recent \in SUBSET (DOMAIN log) /\ Recent \subseteq 1..Len(log) /\ Len(log) \in Nat
    BY <2>1 DEF Typed, Recent
  <2>3. LastOperational(Recent) \in 0..Len(log)
    BY <2>1, <2>2, LastOperationalIsLast DEF Typed
  <2>4. mode \in Mode /\ stepStates \in StepStates /\ plan.version \in Nat
    BY <2>1, BoundsAssumption, PlansAssumption DEF Mode, StepStates, E!TypeOK, E!IsPlan, Typed
  <2>5. q \in [phase : {"read", "assessing", "failing"}, mode : Mode, domain : Nat, plan : Plans,
               states : StepStates, recent : SUBSET Nat, base : Nat, input : 0..input, seen : Nat]
    BY <2>1, <2>2, <2>3, <2>4 DEF Typed
  <2>6. AskOK(q, log, input, plan)
    BY <2>2, <2>3, <2>4, <2>5 DEF AskOK
  <2>7. UNCHANGED <<log, plan, input>> /\ requests' = [requests EXCEPT ![r] = q]
    BY <1>4 DEF TakeSnapshot, work
  <2>8. AskOK(q, log', input', plan')
    BY <2>6, <2>7
  <2>. QED BY <1>3, <2>7, <2>8
<1>5. ASSUME NEW r \in Request, ReadInput(r) \/ Refuse(r) PROVE AsksOK'
  <2>1. requests[r] # Idle /\ AskOK(requests[r], log, input, plan) /\ UNCHANGED <<log, plan, input>>
    BY <1>5 DEF ReadInput, Refuse, Idle, work, AsksOK
  <2>2. requests[r] \in [phase : {"read", "assessing", "failing"}, mode : Mode, domain : Nat,
          plan : Plans, states : StepStates, recent : SUBSET Nat, base : Nat, input : 0..input,
          seen : Nat] /\ input \in 0..input
    BY <2>1 DEF AskOK, Inv, Typed
  <2>3. PICK phase \in {"assessing", "failing"}, n \in 0..input :
          requests' = [requests EXCEPT ![r] = [requests[r] EXCEPT !.phase = phase, !.input = n]]
    <3>1. CASE Refuse(r)
      <4>1. requests[r] = [requests[r] EXCEPT !.input = requests[r].input]
        BY <2>2
      <4>2. requests' = [requests EXCEPT
                           ![r] = [requests[r] EXCEPT !.phase = "failing",
                                                      !.input = requests[r].input]]
        BY <2>2, <3>1 DEF Refuse
      <4>3. requests[r].input \in 0..input
        BY <2>2
      <4>. QED BY <4>2, <4>3
    <3>2. CASE ReadInput(r)
      BY <2>2, <3>2 DEF ReadInput
    <3>. QED BY <1>5, <3>1, <3>2
  <2> DEFINE q == [requests[r] EXCEPT !.phase = phase, !.input = n]
  <2>4. /\ q \in [phase : {"read", "assessing", "failing"}, mode : Mode, domain : Nat, plan : Plans,
                  states : StepStates, recent : SUBSET Nat, base : Nat, input : 0..input,
                  seen : Nat]
        /\ q.plan = requests[r].plan /\ q.base = requests[r].base /\ q.seen = requests[r].seen
        /\ q.recent = requests[r].recent
    BY <2>2
  <2>5. AskOK(q, log, input, plan)
    <3>1. requests[r] # Idle
      BY <2>1
    <3> HIDE DEF q
    <3>. QED BY <2>1, <2>4, <3>1 DEF AskOK
  <2>6. AskOK(q, log', input', plan')
    BY <2>1, <2>5
  <2>. QED BY <1>3, <2>3, <2>6
<1>6. ASSUME NEW r \in Request, requests' = [requests EXCEPT ![r] = Idle] PROVE AsksOK'
  <2>1. AskOK(Idle, log', input', plan')
    BY DEF AskOK
  <2>. QED BY <1>3, <1>6, <2>1
<1>7. ASSUME NEW r \in Request, NEW cause \in DOMAIN log, NEW q \in Plans, NEW mode \in Mode,
             Propose(r, cause, q, mode)
      PROVE  AsksOK'
  <2>1. requests' = [requests EXCEPT ![r] = Idle]
    BY <1>7 DEF Propose
  <2>. QED BY <1>6, <2>1
<1>8. ASSUME NEW c \in Confirmation, Confirm(c) PROVE AsksOK'
  <2>1. UNCHANGED requests
    BY <1>8 DEF Confirm
  <2>. QED BY <1>2, <2>1
<1>. QED BY <1>2, <1>4, <1>5, <1>6, <1>7, <1>8
         DEF Next, vars, WorkEvent, TimerEvent, OtherEvent, PutNormalizedInput, Deploy, NotNeeded,
             AppendFailure, ReadPatch, calls

LEMMA CausesKept ==
  ASSUME Inv, [Next]_vars, AsksOK, CausesOK, StatesOfPlan
  PROVE  CausesOK'
<1>1. patches \in Seq(PatchRow)
  BY DEF Inv, RowsOK
<1>2. CASE UNCHANGED patches
  BY <1>2 DEF CausesOK
<1>3. ASSUME NEW row \in PatchRow, CauseOK(row), patches' = Append(patches, row) PROVE CausesOK'
  BY <1>1, <1>3 DEF CausesOK
<1>4. ASSUME NEW r \in Request, NEW cause \in DOMAIN log, NEW q \in Plans, NEW mode \in Mode,
             Propose(r, cause, q, mode)
      PROVE  CausesOK'
  <2> DEFINE ask == requests[r]
  <2> DEFINE row == [domain |-> ask.domain, input |-> ask.input, cause |-> cause,
                     plan |-> ask.plan, base |-> ask.base, candidate |-> q,
                     mode |-> mode, active |-> {}, status |-> "failed",
                     seen |-> ask.seen, at |-> 0, confirmed |-> FALSE]
  <2> DEFINE active == TouchedIn(plan, q, stepStates, {"active"})
  <2>1. ask # Idle /\ AskOK(ask, log, input, plan)
    BY <1>4 DEF Propose, Idle, AsksOK
  <2>2. cause \in 1..ask.seen /\ ask.plan \in Plans
    BY <1>4, <2>1 DEF AskOK, Propose
  <2>3. PatchApplies(q, row.base, Cursor) => active \subseteq ask.plan.steps
    <3>1. SUFFICES ASSUME PatchApplies(q, row.base, Cursor) PROVE active \subseteq ask.plan.steps
      OBVIOUS
    <3>2. plan = ask.plan
      BY <1>4, <2>1, <2>2, <3>1, PlansAssumption
         DEF AskOK, PatchApplies, Propose, Candidates, E!IsPlan, Inv, Typed
    <3>. QED BY <3>2 DEF TouchedIn, StatesOfPlan
  <2>4. \/ patches' = patches
        \/ \E new : /\ patches' = Append(patches, new)
                    /\ new.active = {} \/ (new.active = active /\ PatchApplies(q, row.base, Cursor))
                    /\ new.plan = ask.plan /\ new.cause = cause /\ new.seen = ask.seen
    <3> DEFINE applied == [row EXCEPT !.status = "applied", !.at = Len(log) + 1]
    <3> DEFINE kept == [row EXCEPT
                          !.status = IF mode = "suggest" THEN "suggested"
                                     ELSE "pending_confirmation",
                          !.active = active]
    <3>1. \/ patches' = patches
          \/ patches' = Append(patches, row)
          \/ patches' = Append(patches, applied)
          \/ patches' = Append(patches, kept) /\ PatchApplies(q, row.base, Cursor)
      BY <1>4 DEF Propose, Ignore, Fail, Keep, Activate
    <3>2. /\ row.active = {} /\ applied.active = {} /\ kept.active = active
          /\ \A new \in {row, applied, kept} :
               new.plan = ask.plan /\ new.cause = cause /\ new.seen = ask.seen
      OBVIOUS
    <3> HIDE DEF row, applied, kept
    <3>. QED BY <3>1, <3>2
  <2>. QED BY <1>1, <1>2, <2>2, <2>3, <2>4 DEF CauseOK, CausesOK
<1>5. ASSUME NEW c \in Confirmation, Confirm(c) PROVE CausesOK'
  <2> DEFINE i == confirmations[c].patch
  <2>1. i \in DOMAIN patches /\ patches[i] \in PatchRow
    BY <1>5 DEF Inv, ConfirmationsOK, Confirmations, Confirm, Idle, RowsOK, RowOK
  <2>2. \/ patches' = patches
        \/ \E new : /\ patches' = [patches EXCEPT ![i] = new]
                    /\ new.active = patches[i].active /\ new.plan = patches[i].plan
                    /\ new.cause = patches[i].cause /\ new.seen = patches[i].seen
    <3> DEFINE one == [patches[i] EXCEPT !.status = "applied"]
    <3> DEFINE two == [one EXCEPT !.at = Len(log) + 1]
    <3> DEFINE applied == [two EXCEPT !.confirmed = TRUE]
    <3> DEFINE failed == [patches[i] EXCEPT !.status = "failed"]
    <3>1. \A row \in {applied, failed} :
             /\ row.active = patches[i].active /\ row.plan = patches[i].plan
             /\ row.cause = patches[i].cause /\ row.seen = patches[i].seen
      BY <2>1 DEF PatchRow
    <3>2. \/ patches' = patches
          \/ patches' = [patches EXCEPT ![i] = applied]
          \/ patches' = [patches EXCEPT ![i] = failed]
      BY <1>5 DEF Confirm, Ignore, Fail, Activate
    <3> HIDE DEF applied, failed
    <3>. QED BY <3>1, <3>2
  <2>. QED BY <1>1, <1>2, <2>1, <2>2 DEF CauseOK, CausesOK
<1>. QED BY <1>2, <1>4, <1>5
         DEF Next, vars, WorkEvent, TimerEvent, OtherEvent, PutNormalizedInput, Deploy,
             TakeSnapshot, ReadInput, NotNeeded, Refuse, AppendFailure, ReadPatch

LEMMA TimersKept ==
  ASSUME TimersOK, [Next]_vars
  PROVE  TimersOK'
<1>1. MaxTimers \in Nat
  BY BoundsAssumption
<1>2. CASE UNCHANGED timers
  BY <1>2 DEF TimersOK
<1>3. CASE TimerEvent
  <2>1. PICK n, m \in Int : timers' = [running |-> n, paused |-> m] /\ n >= 0 /\ m >= 0
                              /\ n + m <= MaxTimers
    BY <1>1, <1>3 DEF TimerEvent, TimersOK
  <2>. QED BY <1>1, <2>1 DEF TimersOK
<1>4. CASE \E r \in Request, cause \in DOMAIN log, q \in Plans, mode \in Mode :
             Propose(r, cause, q, mode)
  BY <1>2, <1>4 DEF Propose
<1>5. CASE \E c \in Confirmation : Confirm(c)
  BY <1>2, <1>5 DEF Confirm
<1>. QED BY <1>2, <1>3, <1>4, <1>5
         DEF Next, vars, WorkEvent, OtherEvent, PutNormalizedInput, Deploy, TakeSnapshot,
             ReadInput, NotNeeded, Refuse, AppendFailure, ReadPatch

\* Types, for any number of requests, confirmations, plans and events: a row knows of the
\* events of its cause, and the steps it waits for are steps of the plan it changes.
THEOREM TypeCorrect == Spec => []TypeOK
<1>1. Init => Types
  BY BoundsAssumption DEF Init, Types, TimersOK, AsksOK, AskOK, CausesOK
<1>2. /\ Types /\ Inv /\ StatesOfPlan /\ E!TypeOK /\ Inv'
      /\ [Next]_vars
      => Types'
  BY TimersKept, AsksKept, CausesKept DEF Types
<1>3. Types /\ Inv /\ E!TypeOK => TypeOK
  <2> SUFFICES ASSUME Types, Inv, E!TypeOK PROVE TypeOK
    OBVIOUS
  <2>1. Typed /\ patches \in Seq(PatchRow) /\ Len(log) \in Nat /\ DOMAIN log = 1..Len(log)
    BY DEF Inv, RowsOK, Typed
  <2>2. \A i \in DOMAIN patches :
          /\ patches[i].active \subseteq patches[i].plan.steps
          /\ patches[i].cause \in 1..patches[i].seen /\ patches[i].seen <= Len(log)
          /\ patches[i].at <= Len(log)
    BY DEF Types, CausesOK, CauseOK, Inv, RowsOK, RowOK
  <2>3. \A r \in Request : requests[r] \in Requests
    <3> SUFFICES ASSUME NEW r \in Request, requests[r] # Idle PROVE requests[r] \in Requests
      BY DEF Requests
    <3>1. AskOK(requests[r], log, input, plan)
      BY DEF Types, AsksOK
    <3>2. requests[r].seen \in 0..Len(log) /\ requests[r].base \in 0..Len(log)
          /\ requests[r].recent \subseteq DOMAIN log
      BY <2>1, <3>1 DEF AskOK
    <3>. QED BY <3>1, <3>2 DEF AskOK, Requests
  <2>4. requests \in [Request -> Requests]
    BY <2>3 DEF Inv, RequestsOK
  <2>. QED BY <2>1, <2>2, <2>4 DEF TypeOK, Types, TimersOK, Inv, Typed, ConfirmationsOK
<1>. QED BY <1>1, <1>2, <1>3, InvHolds, StatesOfPlanHolds, SessionTyped, PTL DEF Spec
===============================================================================
