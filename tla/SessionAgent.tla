----------------------------- MODULE SessionAgent -----------------------------
(***************************************************************************)
(* ExecutionSessionAgent, the Durable Object of one Execution Session,     *)
(* with D1ExecutionStateRepository behind it.                              *)
(*                                                                         *)
(* RPC calls of many clients interleave at every await of a method.  Each  *)
(* method body runs as a link of the promise chain `writeChain`; what it   *)
(* reads from D1 it keeps in a local across the next await.  The isolate   *)
(* may be evicted at any await: its calls are lost, D1 and the pulse in    *)
(* the Agent's own SQLite stay.                                            *)
(*                                                                         *)
(* The reducer is reduced to what matters for the log: the types after     *)
(* which a session is over and the types an event needs before it          *)
(* (ExecutionState has the whole of it).  Of a continuation it has the     *)
(* first leg, suspended until an event wakes it; the rest is in            *)
(* Continuation.                                                           *)
(***************************************************************************)
EXTENDS Integers, Sequences, FiniteSets

CONSTANTS
  MaxCalls,   \* bound on RPC calls
  Event,      \* the events clients may send: records with id, key and type
  NoEvent,    \* in place of the event of a call that has none
  ForeignId,  \* event ids that other sessions have in the table runtime_events
  Closing,    \* types after which the session is completed or cancelled
  Needs,      \* by type, the types the reducer wants to have seen before
  MaxCrashes  \* bound on evictions of the isolate

\* RPC calls, in the order they are made; a retry is a call of its own with the
\* same event.
Call == 1..MaxCalls

\* The events a continuation writes; their ids derive from the continuation's.
Suspended == [id |-> "suspended", key |-> "suspended", type |-> "continuation_suspended"]
WakePending ==
  [id |-> "wake_pending", key |-> "wake_pending", type |-> "continuation_wake_pending"]

Entry == Event \cup {Suspended, WakePending}
Kind == {"create", "append", "suspend", "snapshot", "connect"}

ASSUME EventAssumption ==
  /\ NoEvent \notin Event
  /\ \A e \in Event :
       /\ e = [id |-> e.id, key |-> e.key, type |-> e.type]
       /\ e.id \notin {Suspended.id, WakePending.id}
       /\ e.key \notin {Suspended.key, WakePending.key}
  /\ {Suspended.id, WakePending.id} \cap ForeignId = {}
  /\ Needs \in [{e.type : e \in Entry} -> SUBSET {e.type : e \in Entry}]
  /\ \A e \in {Suspended, WakePending} : Needs[e.type] = {} /\ e.type \notin Closing

ASSUME BoundsAssumption == MaxCalls \in Nat /\ MaxCrashes \in Nat

VARIABLES
  exists,        \* the session has its rows in D1
  log,           \* runtime_events of the session, in rowid order
  materialized,  \* the events materialized_states.state_json has applied, in order
  continuation,  \* the latest row of execution_continuations
  revision,      \* of the pulse, in the Agent's SQLite
  published,     \* history: Len(log) when the revision last advanced
  writeChain,    \* calls whose turn has not ended, the head holding the turn
  pc, kind, event, \* of a call: where it is, its method and its event
  read,          \* of a call: the events of the state it read
  outcome,       \* of a call: what it answered
  snapshot,      \* of a call: the state and the event rows it returned
  crashes

d1 == <<exists, log, materialized, continuation>>
pulse == <<revision, published>>
request == <<kind, event>>
vars == <<exists, log, materialized, continuation, revision, published,
          writeChain, pc, kind, event, read, outcome, snapshot, crashes>>

Acked == {event[c] : c \in {d \in Call : outcome[d] \in {"applied", "duplicate"}}}

L == INSTANCE EventLog WITH acked <- Acked

NoContinuation == [status |-> "none", wakesOn |-> "none", checkpoint |-> 0]
NoSnapshot == [state |-> <<>>, events |-> <<>>]

-------------------------------------------------------------------------------
\* A session another call created before, with its first pulse sent or (the
\* isolate was evicted between the two) not sent; or none yet.
Init ==
  /\ exists \in BOOLEAN
  /\ revision \in IF exists THEN {0, 1} ELSE {0}
  /\ log = <<>>
  /\ materialized = <<>>
  /\ continuation = NoContinuation
  /\ published = 0
  /\ writeChain = <<>>
  /\ pc = [c \in Call |-> "unsent"]
  /\ kind = [c \in Call |-> "append"]
  /\ event = [c \in Call |-> NoEvent]
  /\ read = [c \in Call |-> <<>>]
  /\ outcome = [c \in Call |-> "none"]
  /\ snapshot = [c \in Call |-> NoSnapshot]
  /\ crashes = 0

\* A suspend waits for a type of events, for which one of them stands.
OfType(type) == CHOOSE e \in Event : e.type = type

\* A client calls: runExclusive appends the method to the chain.
Send(c, k, e) ==
  /\ pc[c] = "unsent" /\ \A d \in 1..(c - 1) : pc[d] # "unsent"
  /\ (e = NoEvent) <=> (k \notin {"append", "suspend"})
  /\ k = "suspend" => e = OfType(e.type)
  /\ pc' = [pc EXCEPT ![c] = "begin"]
  /\ kind' = [kind EXCEPT ![c] = k]
  /\ event' = [event EXCEPT ![c] = e]
  /\ writeChain' = Append(writeChain, c)
  /\ UNCHANGED <<d1, pulse, read, outcome, snapshot, crashes>>

\* Mutant of HasTurn: methods are not chained (no runExclusive).
MutantNoTurn(c) == c \in Call

\* A link of the chain runs after the one before it settled.
HasTurn(c) == writeChain # <<>> /\ Head(writeChain) = c

At(c, label) == pc[c] = label /\ HasTurn(c)

Goto(c, label) ==
  /\ pc' = [pc EXCEPT ![c] = label]
  /\ UNCHANGED <<writeChain, outcome>>

\* Mutant of Finish: a method that throws keeps the chain (`then(fn)` alone).
MutantFailureBlocksChain(c, result) ==
  /\ pc' = [pc EXCEPT ![c] = "done"]
  /\ outcome' = [outcome EXCEPT ![c] = result]
  /\ writeChain' = IF result \in {"applied", "duplicate", "created", "suspended", "snapshot"}
                   THEN Tail(writeChain) ELSE writeChain

\* The method resolves or throws; either way the next link of the chain runs.
Finish(c, result) ==
  /\ pc' = [pc EXCEPT ![c] = "done"]
  /\ outcome' = [outcome EXCEPT ![c] = result]
  /\ writeChain' = Tail(writeChain)

\* setState of the next pulse.
BumpPulse ==
  /\ revision' = revision + 1
  /\ published' = Len(log)

-------------------------------------------------------------------------------
\* D1. A batch commits as a whole or not at all.

\* INSERT INTO runtime_events would break a unique index: ids are unique over
\* all sessions, keys within one.
Clashes(e) ==
  \/ e.id \in ForeignId
  \/ L!Known(L!Entries(log), e)

\* The batch of an event: its row, and the state it was applied to plus the
\* event, overwriting whatever materialized_states holds.
Commit(c, e) ==
  /\ log' = Append(log, e)
  /\ materialized' = Append(read[c], e)

-------------------------------------------------------------------------------
\* createSession.
Create(c) ==
  /\ At(c, "begin") /\ kind[c] = "create"
  /\ IF exists
     THEN Finish(c, "conflict") /\ UNCHANGED exists
     ELSE exists' = TRUE /\ Goto(c, "bump")
  /\ UNCHANGED <<log, materialized, continuation, pulse, request, read, snapshot, crashes>>

\* appendEvent of the repository, first await: the state is read, then looked up
\* for the identity of the event, then reduced.
AppendRead(c) ==
  /\ At(c, "begin") /\ kind[c] = "append"
  /\ LET applied == L!Entries(materialized)
     IN  \/ /\ ~exists
            /\ Finish(c, "not_found")
            /\ UNCHANGED read
         \/ /\ exists /\ L!Known(applied, event[c])
            /\ Goto(c, "deliverDuplicate")
            /\ read' = [read EXCEPT ![c] = materialized]
         \/ /\ exists /\ ~L!Known(applied, event[c]) /\ L!Accepts(applied, event[c])
            /\ Goto(c, "commit")
            /\ read' = [read EXCEPT ![c] = materialized]
         \/ /\ exists /\ ~L!Known(applied, event[c]) /\ ~L!Accepts(applied, event[c])
            /\ Finish(c, "rejected")
            /\ UNCHANGED read
  /\ UNCHANGED <<d1, pulse, request, snapshot, crashes>>

\* appendEvent, second await: the batch; on a broken index the state is read
\* again to tell a duplicate from an identity another session has.
AppendCommit(c) ==
  /\ At(c, "commit") /\ kind[c] = "append"
  /\ \/ /\ ~Clashes(event[c])
        /\ Commit(c, event[c])
        /\ Goto(c, "deliver")
     \/ /\ Clashes(event[c]) /\ L!Known(L!Entries(materialized), event[c])
        /\ Goto(c, "deliverDuplicate")
        /\ UNCHANGED <<log, materialized>>
     \/ /\ Clashes(event[c]) /\ ~L!Known(L!Entries(materialized), event[c])
        /\ Finish(c, "conflict")
        /\ UNCHANGED <<log, materialized>>
  /\ UNCHANGED <<exists, continuation, pulse, request, read, snapshot, crashes>>

\* Mutant of Wakes: the checkpoint is not looked at.
MutantWakesOnAnyRow(e) ==
  /\ continuation.status = "suspended"
  /\ \E i \in DOMAIN log :
       /\ log[i].id = e.id /\ log[i].key = e.key
       /\ log[i].type = continuation.wakesOn

\* wakeForEvent has a suspended continuation to wake: the event in the row with
\* this id and key is of the type it waits for and lies after the checkpoint.
Wakes(e) ==
  /\ continuation.status = "suspended"
  /\ \E i \in DOMAIN log :
       /\ log[i].id = e.id /\ log[i].key = e.key
       /\ log[i].type = continuation.wakesOn
       /\ i > continuation.checkpoint

\* Mutant of Deliver: a duplicate is not delivered again.
MutantDuplicateNotDelivered(c) ==
  /\ pc[c] \in {"deliver", "deliverDuplicate"} /\ HasTurn(c)
  /\ \/ /\ ~Wakes(event[c]) \/ pc[c] = "deliverDuplicate"
        /\ Goto(c, IF pc[c] = "deliver" THEN "bump" ELSE "bumpDuplicate")
        /\ UNCHANGED <<log, materialized, continuation>>
     \/ /\ Wakes(event[c]) /\ pc[c] = "deliver" /\ ~L!Over(L!Entries(materialized))
        /\ log' = Append(log, WakePending)
        /\ materialized' = Append(materialized, WakePending)
        /\ continuation' = [continuation EXCEPT !.status = "wake_pending"]
        /\ Goto(c, "bump")
     \/ /\ Wakes(event[c]) /\ pc[c] = "deliver" /\ L!Over(L!Entries(materialized))
        /\ Finish(c, "failed")
        /\ UNCHANGED <<log, materialized, continuation>>
  /\ UNCHANGED <<exists, pulse, request, read, snapshot, crashes>>

\* publishAfterMutation up to the pulse. The event of a duplicate is looked up in
\* the log and delivered again, if a row has both its id and its key. Waking reduces an event of
\* its own, for which the reducer throws if the session is over.
Deliver(c) ==
  /\ pc[c] \in {"deliver", "deliverDuplicate"} /\ HasTurn(c)
  /\ \/ /\ ~Wakes(event[c])
        /\ Goto(c, IF pc[c] = "deliver" THEN "bump" ELSE "bumpDuplicate")
        /\ UNCHANGED <<log, materialized, continuation>>
     \/ /\ Wakes(event[c]) /\ ~L!Over(L!Entries(materialized))
        /\ log' = Append(log, WakePending)
        /\ materialized' = Append(materialized, WakePending)
        /\ continuation' = [continuation EXCEPT !.status = "wake_pending"]
        /\ Goto(c, IF pc[c] = "deliver" THEN "bump" ELSE "bumpDuplicate")
     \/ /\ Wakes(event[c]) /\ L!Over(L!Entries(materialized))
        /\ Finish(c, "failed")
        /\ UNCHANGED <<log, materialized, continuation>>
  /\ UNCHANGED <<exists, pulse, request, read, snapshot, crashes>>

\* suspendContinuation for an event, its reads.
SuspendRead(c) ==
  /\ At(c, "begin") /\ kind[c] = "suspend"
  /\ \/ /\ continuation.status # "none"
        /\ Finish(c, "conflict")
        /\ UNCHANGED read
     \/ /\ continuation.status = "none" /\ ~exists
        /\ Finish(c, "not_found")
        /\ UNCHANGED read
     \/ /\ continuation.status = "none" /\ exists /\ L!Over(L!Entries(materialized))
        /\ Finish(c, "rejected")
        /\ UNCHANGED read
     \/ /\ continuation.status = "none" /\ exists /\ ~L!Over(L!Entries(materialized))
        /\ Goto(c, "commit")
        /\ read' = [read EXCEPT ![c] = materialized]
  /\ UNCHANGED <<d1, pulse, request, snapshot, crashes>>

\* suspendContinuation, its batch: continuation, event and state. The checkpoint
\* is the last event of the snapshot it read.
SuspendCommit(c) ==
  /\ At(c, "commit") /\ kind[c] = "suspend"
  /\ continuation' = [status |-> "suspended", wakesOn |-> event[c].type,
                      checkpoint |-> Len(read[c])]
  /\ Commit(c, Suspended)
  /\ Goto(c, "bump")
  /\ UNCHANGED <<exists, pulse, request, read, snapshot, crashes>>

\* D1 fails the batch of an event or a suspend for another reason: the error is thrown on.
BatchFails(c) ==
  /\ At(c, "commit")
  /\ Finish(c, "failed")
  /\ UNCHANGED <<d1, pulse, request, read, snapshot, crashes>>

\* What a method answers after its pulse.
OutcomeAt(c) ==
  CASE pc[c] = "bumpDuplicate" -> "duplicate"
    [] kind[c] = "append"      -> "applied"
    [] kind[c] = "create"      -> "created"
    [] OTHER                   -> "suspended"

\* Mutant of Bump: a duplicate announces nothing.
MutantDuplicateIsSilent(c) ==
  /\ pc[c] \in {"bump", "bumpDuplicate"} /\ HasTurn(c)
  /\ IF pc[c] = "bump" THEN BumpPulse ELSE UNCHANGED pulse
  /\ Finish(c, OutcomeAt(c))
  /\ UNCHANGED <<d1, request, read, snapshot, crashes>>

\* bumpPulse, and the method resolves.
Bump(c) ==
  /\ pc[c] \in {"bump", "bumpDuplicate"} /\ HasTurn(c)
  /\ BumpPulse
  /\ Finish(c, OutcomeAt(c))
  /\ UNCHANGED <<d1, request, read, snapshot, crashes>>

\* getSnapshot: one query for the state, the next for the event rows.
SnapshotState(c) ==
  /\ At(c, "begin") /\ kind[c] = "snapshot"
  /\ IF exists
     THEN Goto(c, "rows") /\ read' = [read EXCEPT ![c] = materialized]
     ELSE Finish(c, "not_found") /\ UNCHANGED read
  /\ UNCHANGED <<d1, pulse, request, snapshot, crashes>>

SnapshotRows(c) ==
  /\ At(c, "rows")
  /\ snapshot' = [snapshot EXCEPT ![c] = [state |-> read[c], events |-> log]]
  /\ Finish(c, "snapshot")
  /\ UNCHANGED <<d1, pulse, request, read, crashes>>

\* onConnect: ensureSyncPulse seeds the first pulse of a session that has none.
Connect(c) ==
  /\ At(c, "begin") /\ kind[c] = "connect"
  /\ IF exists /\ revision = 0
     THEN revision' = 1 /\ published' = Len(log)
     ELSE UNCHANGED pulse
  /\ Finish(c, "connected")
  /\ UNCHANGED <<d1, request, read, snapshot, crashes>>

\* The isolate is evicted: what was called and not answered is lost.
Crash ==
  /\ crashes < MaxCrashes
  /\ writeChain # <<>>
  /\ crashes' = crashes + 1
  /\ writeChain' = <<>>
  /\ LET live == {c \in Call : pc[c] \notin {"unsent", "done"}}
     IN  /\ pc' = [c \in Call |-> IF c \in live THEN "done" ELSE pc[c]]
         /\ outcome' = [c \in Call |-> IF c \in live THEN "lost" ELSE outcome[c]]
  /\ UNCHANGED <<d1, pulse, request, read, snapshot>>

\* A step of the isolate.
Step(c) ==
  \/ Create(c)
  \/ AppendRead(c)
  \/ AppendCommit(c)
  \/ Deliver(c)
  \/ SuspendRead(c)
  \/ SuspendCommit(c)
  \/ BatchFails(c)
  \/ Bump(c)
  \/ SnapshotState(c)
  \/ SnapshotRows(c)
  \/ Connect(c)

Next ==
  \/ \E c \in Call, k \in Kind, e \in Event \cup {NoEvent} : Send(c, k, e)
  \/ \E c \in Call : Step(c)
  \/ Crash

Spec == Init /\ [][Next]_vars

\* Every await of the isolate ends: D1 answers, and the event loop is fair. Only the
\* call that has its turn has a step to take.
AgentFairness == WF_vars(\E c \in Call : Step(c))

FairSpec == Spec /\ AgentFairness

-------------------------------------------------------------------------------
PcLabels == {"unsent", "begin", "commit", "deliver", "deliverDuplicate", "bump",
             "bumpDuplicate", "rows", "done"}

Outcomes == {"none", "created", "conflict", "not_found", "applied", "duplicate", "rejected",
             "failed", "suspended", "snapshot", "connected", "lost"}

\* Type invariant.
TypeOK ==
  /\ exists \in BOOLEAN
  /\ log \in Seq(Entry)
  /\ materialized \in Seq(Entry)
  /\ continuation \in [status : {"none", "suspended", "wake_pending"},
                       wakesOn : {e.type : e \in Event} \cup {"none"}, checkpoint : Nat]
  /\ revision \in Nat
  /\ published \in Nat
  /\ writeChain \in Seq(Call)
  /\ pc \in [Call -> PcLabels]
  /\ kind \in [Call -> Kind]
  /\ event \in [Call -> Event \cup {NoEvent}]
  /\ read \in [Call -> Seq(Entry)]
  /\ outcome \in [Call -> Outcomes]
  /\ snapshot \in [Call -> [state : Seq(Entry), events : Seq(Entry)]]
  /\ crashes \in 0..MaxCrashes

\* No lost update: whatever calls interleave or are cut off by a crash, the state
\* in D1 has applied exactly the events of the log, in order.
StateMatchesLog == materialized = log

\* A snapshot is not torn: its state has applied exactly the event rows it comes
\* with, though two queries with an await between them fetch them.
SnapshotNotTorn ==
  \A c \in Call : snapshot[c].state = snapshot[c].events

\* A client that was told its event is recorded, now or before, can re-fetch: a
\* pulse has announced a log with that event, even if the call that recorded it
\* died before its own pulse.
AcknowledgedIsPublished ==
  \A c \in Call :
    outcome[c] \in {"applied", "duplicate"} =>
      \E i \in 1..published : log[i].id = event[c].id \/ log[i].key = event[c].key

\* A continuation is woken by news only: of a type it waits for, and logged after
\* it was suspended, however often older events are sent again.
WokenByNews ==
  continuation.status = "wake_pending" =>
    \E i, j \in DOMAIN log :
      i < j /\ log[i] = Suspended /\ log[j].type = continuation.wakesOn

\* No wake is missed: a client that was told its event is recorded, perhaps only
\* on the retry after a crash, has woken the continuation that waited for it.
AcknowledgedEventHasWoken ==
  \A c \in Call, i, j \in DOMAIN log :
    /\ outcome[c] \in {"applied", "duplicate"}
    /\ i < j /\ log[i] = Suspended
    /\ log[j].id = event[c].id /\ log[j].key = event[c].key
    /\ log[j].type = continuation.wakesOn
    => continuation.status # "suspended"

\* SessionAgent implements the promise of EventLog: events are recorded one after
\* the other, each accepted by the reducer after all before it, none twice, and
\* acknowledged only once published.
ImplementsEventLog == L!Spec

\* No call waits for ever, however the calls before it ended.
EveryCallEnds ==
  \A c \in Call : pc[c] = "begin" ~> pc[c] = "done"

\* What the comment on publishAfterMutation promises: once an event is committed
\* the pulse is bumped. Checked without crashes, when no call is under way.
EveryCommitIsPublished ==
  writeChain = <<>> => published = Len(log)
===============================================================================
