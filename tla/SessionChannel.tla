----------------------------- MODULE SessionChannel -----------------------------
(***************************************************************************)
(* SessionChannel of the React package: one client's view of an Execution  *)
(* Session. The view is fetched over HTTP; a WebSocket to the agent carries *)
(* pulses, and a pulse of a higher revision makes the channel fetch again. *)
(*                                                                         *)
(* Fetches overlap: they are served and answered in any order, or fail.    *)
(* The socket closes and opens again, and loses what it carried.           *)
(*                                                                         *)
(* The agent is what SessionAgent proves it to be: a method commits a      *)
(* change, then bumps the pulse; a snapshot is taken between methods; an   *)
(* eviction may come between a commit and its pulse. The number of changes *)
(* committed stands for the durable state, the number of the last change   *)
(* of the continuation for the continuation.                               *)
(***************************************************************************)
EXTENDS Integers, Sequences, FiniteSets

CONSTANTS
  MaxChanges,   \* bound on changes committed
  MaxAsks,      \* bound on openings of the socket and calls of refetch
  MaxFaults     \* bound on failing fetches and evictions of the agent before a pulse

ASSUME BoundsAssumption == MaxChanges \in Nat /\ MaxAsks \in Nat /\ MaxFaults \in Nat

\* A RuntimeSnapshot: the changes it has seen, and its continuation.
Snapshot == [version : Nat, continuation : Nat]

\* A pulse. `version` is history: what a view that follows it must show.
SyncState == [revision : Nat, continuation : Nat, version : Nat]

\* In place of the answer of a fetch that was not served yet.
Unserved == [version |-> -1, continuation |-> -1]

\* No snapshot was fetched yet.
NoSnapshot == [version |-> -1, continuation |-> 0]

VARIABLES
  durable,      \* the durable state
  committing,   \* the method between its commit and its pulse: "none" if there is none
  pulse,        \* Agent state
  socket,       \* "closed", or "open" with
  inbox,        \* the pulses it carries to the client
  fetches,      \* HTTP fetches under way
  generation,   \* hydrateGeneration
  lastRevision, \* lastRevision
  shown,        \* state.snapshot
  continuation, \* state.continuation
  status,       \* state.status
  error,        \* state.error is set
  disposed,     \* disposed
  lastVersion,  \* history: `version` of the last pulse applied
  failed,       \* history: the last generation whose fetch failed
  asks, failures, evictions

agent == <<durable, committing, pulse>>
wire == <<socket, inbox>>
display == <<shown, continuation>>
bounds == <<asks, failures, evictions>>
vars == <<durable, committing, pulse, socket, inbox, fetches, generation, lastRevision,
          shown, continuation, status, error, disposed, lastVersion, failed,
          asks, failures, evictions>>

Fetch(g) == [generation |-> g, answer |-> Unserved]

\* The constructor has called hydrateHttp. The session was created; its first pulse
\* went out, or an eviction came in between.
Init ==
  /\ durable = [version |-> 0, continuation |-> 0]
  /\ committing = "none"
  /\ \E r \in {0, 1} : pulse = [revision |-> r, continuation |-> 0, version |-> 0]
  /\ socket = "closed"
  /\ inbox = <<>>
  /\ fetches = {Fetch(1)}
  /\ generation = 1
  /\ lastRevision = 0
  /\ shown = NoSnapshot
  /\ continuation = 0
  /\ status = "loading"
  /\ error = FALSE
  /\ disposed = FALSE
  /\ lastVersion = 0
  /\ failed = 0
  /\ asks = 0 /\ failures = 0 /\ evictions = 0

-------------------------------------------------------------------------------
\* The agent.

\* A method commits a change, of the continuation or of something else.
Commit(what) ==
  /\ committing = "none"
  /\ durable.version < MaxChanges
  /\ LET v == durable.version + 1
     IN  durable' = [version |-> v,
                     continuation |-> IF what = "continuation" THEN v ELSE durable.continuation]
  /\ committing' = what
  /\ UNCHANGED <<pulse, wire, fetches, generation, lastRevision, display, status, error,
                 disposed, lastVersion, failed, bounds>>

\* setState of the agent goes to every open socket.
Broadcast(p) ==
  /\ pulse' = p
  /\ inbox' = IF socket = "open" THEN Append(inbox, p) ELSE inbox

\* bumpPulse: the pulse keeps the continuation it had, unless the method changed it.
Bump ==
  /\ committing # "none"
  /\ Broadcast([revision |-> pulse.revision + 1,
                continuation |-> IF committing = "continuation"
                                 THEN durable.continuation ELSE pulse.continuation,
                version |-> durable.version])
  /\ committing' = "none"
  /\ UNCHANGED <<durable, socket, fetches, generation, lastRevision, display, status, error,
                 disposed, lastVersion, failed, bounds>>

\* The agent is evicted between the commit and the pulse.
Evict ==
  /\ committing # "none"
  /\ failures + evictions < MaxFaults
  /\ evictions' = evictions + 1
  /\ committing' = "none"
  /\ UNCHANGED <<durable, pulse, wire, fetches, generation, lastRevision, display, status, error,
                 disposed, lastVersion, failed, asks, failures>>

\* ensureSyncPulse, after a client has connected.
Seed ==
  /\ committing = "none"
  /\ socket = "open"
  /\ pulse.revision = 0
  /\ Broadcast([revision |-> 1, continuation |-> durable.continuation, version |-> durable.version])
  /\ UNCHANGED <<durable, committing, socket, fetches, generation, lastRevision, display, status,
                 error, disposed, lastVersion, failed, bounds>>

\* GET snapshot is served, between methods.
Serve(f) ==
  /\ committing = "none"
  /\ f \in fetches /\ f.answer = Unserved
  /\ fetches' = (fetches \ {f}) \cup {[f EXCEPT !.answer = durable]}
  /\ UNCHANGED <<agent, wire, generation, lastRevision, display, status, error, disposed,
                 lastVersion, failed, bounds>>

-------------------------------------------------------------------------------
\* The channel.

\* hydrateHttp from the status s and error e the caller has set.
Hydrate(s, e) ==
  /\ generation' = generation + 1
  /\ fetches' = fetches \cup {Fetch(generation + 1)}
  /\ IF s \in {"connected", "reconnecting"}
     THEN status' = s /\ error' = e
     ELSE status' = "loading" /\ error' = FALSE

NoHydrate(s, e) ==
  /\ status' = s
  /\ error' = e
  /\ UNCHANGED <<generation, fetches>>

\* Mutant of Takes: an answer is taken whatever was sent after it.
MutantTakesAny(f) == ~disposed /\ f.generation <= generation

\* The answer to a fetch is taken by a channel in use, if no later fetch was sent.
Takes(f) == ~disposed /\ f.generation = generation

\* A fetch is answered.
Answer(f) ==
  /\ f \in fetches /\ f.answer # Unserved
  /\ fetches' = fetches \ {f}
  /\ IF Takes(f)
     THEN /\ shown' = f.answer
          /\ continuation' = f.answer.continuation
          /\ status' = "connected"
          /\ error' = FALSE
     ELSE UNCHANGED <<shown, continuation, status, error>>
  /\ UNCHANGED <<agent, wire, generation, lastRevision, disposed, lastVersion, failed, bounds>>

\* A fetch fails, before it reaches the agent or after.
Fail(f) ==
  /\ f \in fetches
  /\ failures + evictions < MaxFaults
  /\ failures' = failures + 1
  /\ fetches' = fetches \ {f}
  /\ IF Takes(f)
     THEN status' = "error" /\ error' = TRUE /\ failed' = generation
     ELSE UNCHANGED <<status, error, failed>>
  /\ UNCHANGED <<agent, wire, generation, lastRevision, display, disposed, lastVersion,
                 asks, evictions>>

\* The status a pulse leaves: while the first fetch runs, the channel is loading.
StatusAfterPulse == IF status = "loading" THEN "loading" ELSE "connected"

\* Mutant of Receive: no fetch while one is under way already.
MutantOneFetchAtATime ==
  /\ socket = "open" /\ inbox # <<>>
  /\ inbox' = Tail(inbox)
  /\ LET p == Head(inbox)
     IN  \/ /\ disposed \/ p.revision < lastRevision
            /\ UNCHANGED <<lastRevision, lastVersion, continuation>>
            /\ NoHydrate(status, error)
         \/ /\ ~disposed /\ p.revision >= lastRevision
            /\ lastRevision' = p.revision
            /\ lastVersion' = p.version
            /\ continuation' = p.continuation
            /\ IF p.revision > lastRevision /\ fetches = {}
               THEN Hydrate(StatusAfterPulse, FALSE)
               ELSE NoHydrate(StatusAfterPulse, FALSE)
  /\ UNCHANGED <<agent, socket, shown, disposed, failed, bounds>>

\* applyPulse.
Receive ==
  /\ socket = "open" /\ inbox # <<>>
  /\ inbox' = Tail(inbox)
  /\ LET p == Head(inbox)
     IN  \/ /\ disposed \/ p.revision < lastRevision
            /\ UNCHANGED <<lastRevision, lastVersion, continuation>>
            /\ NoHydrate(status, error)
         \/ /\ ~disposed /\ p.revision >= lastRevision
            /\ lastRevision' = p.revision
            /\ lastVersion' = p.version
            /\ continuation' = p.continuation
            /\ IF p.revision > lastRevision
               THEN Hydrate(StatusAfterPulse, FALSE)
               ELSE NoHydrate(StatusAfterPulse, FALSE)
  /\ UNCHANGED <<agent, socket, shown, disposed, failed, bounds>>

\* onOpen. The agent sends its state to a socket that opens.
Open ==
  /\ ~disposed
  /\ socket = "closed"
  /\ asks < MaxAsks
  /\ asks' = asks + 1
  /\ socket' = "open"
  /\ inbox' = <<pulse>>
  /\ Hydrate("connected", error)
  /\ UNCHANGED <<agent, lastRevision, display, disposed, lastVersion, failed,
                 failures, evictions>>

\* onClose or onError, of an open socket or of an attempt to open one again: the pulses
\* under way are lost.
Close ==
  /\ socket' = "closed"
  /\ inbox' = <<>>
  /\ status' = IF disposed THEN status ELSE "reconnecting"
  /\ UNCHANGED <<agent, fetches, generation, lastRevision, display, error, disposed,
                 lastVersion, failed, bounds>>

\* onConnectionError, or agents/client cannot be loaded.
ConnectionError ==
  /\ ~disposed
  /\ socket = "closed"
  /\ status' = "error"
  /\ error' = TRUE
  /\ UNCHANGED <<agent, wire, fetches, generation, lastRevision, display, disposed,
                 lastVersion, failed, bounds>>

\* refetch.
Refetch ==
  /\ ~disposed
  /\ asks < MaxAsks
  /\ asks' = asks + 1
  /\ Hydrate(status, error)
  /\ UNCHANGED <<agent, wire, lastRevision, display, disposed, lastVersion, failed,
                 failures, evictions>>

\* dispose, when the last consumer has released the channel: the socket is closed,
\* and no answer to a fetch will be looked at.
Dispose ==
  /\ ~disposed
  /\ disposed' = TRUE
  /\ socket' = "closed"
  /\ inbox' = <<>>
  /\ fetches' = {}
  /\ UNCHANGED <<agent, generation, lastRevision, display, status, error,
                 lastVersion, failed, bounds>>

Next ==
  \/ \E what \in {"continuation", "other"} : Commit(what)
  \/ Bump
  \/ Evict
  \/ Seed
  \/ \E f \in fetches : Serve(f)
  \/ \E f \in fetches : Answer(f)
  \/ \E f \in fetches : Fail(f)
  \/ Receive
  \/ Open
  \/ Close
  \/ ConnectionError
  \/ Refetch
  \/ Dispose

Spec == Init /\ [][Next]_vars

-------------------------------------------------------------------------------
\* Type invariant.
TypeOK ==
  /\ durable \in Snapshot
  /\ committing \in {"none", "continuation", "other"}
  /\ pulse \in SyncState
  /\ socket \in {"closed", "open"}
  /\ inbox \in Seq(SyncState)
  /\ fetches \subseteq [generation : 1..generation, answer : Snapshot \cup {Unserved}]
  /\ generation \in Nat
  /\ lastRevision \in Nat
  /\ shown \in Snapshot \cup {NoSnapshot}
  /\ continuation \in Nat
  /\ status \in {"loading", "connected", "reconnecting", "error"}
  /\ error \in BOOLEAN
  /\ disposed \in BOOLEAN
  /\ lastVersion \in Nat
  /\ failed \in 0..generation
  /\ asks \in 0..MaxAsks
  /\ failures \in 0..MaxFaults
  /\ evictions \in 0..MaxFaults

\* The fetch whose answer counts is under way.
Fetching == \E f \in fetches : f.generation = generation

\* Nothing is under way at either end, and the last fetch sent was answered.
Settled ==
  /\ socket = "open" /\ inbox = <<>> /\ committing = "none" /\ pulse.revision > 0
  /\ ~Fetching /\ failed # generation

\* The view never goes back in time: a snapshot is never replaced by an older one,
\* in whatever order fetches are served and answered.
ViewNeverRegresses ==
  [][shown'.version >= shown.version]_vars

\* A pulse is not lost on the view: unless the last fetch failed, a channel that
\* waits for no fetch shows all that the last pulse it saw announced.
ViewCoversPulse ==
  ~Fetching /\ failed # generation /\ ~disposed => shown.version >= lastVersion

\* Sockets may close in the middle of everything: once all is quiet the client
\* shows the durable state, and its continuation, if every change was announced.
SettledViewIsCurrent ==
  Settled /\ evictions = 0 => shown = durable /\ continuation = durable.continuation

\* The view is behind a pulse, although no fetch has failed since.
PulseUnsettled == lastVersion > shown.version /\ failed # generation /\ ~disposed

\* What the comment on useRuntimeSnapshot promises, that the client converges to
\* the latest durable snapshot on an advance or a reconnect. So a channel that
\* reports it is connected, has no error to report and waits for no fetch shows at
\* least what the last pulse it saw announced.
ConnectedIsCurrent ==
  status = "connected" /\ ~error /\ ~Fetching /\ ~disposed => shown.version >= lastVersion
===============================================================================
