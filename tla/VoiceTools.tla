------------------------------- MODULE VoiceTools -------------------------------
(***************************************************************************)
(* Tool calls of the voice model. The provider asks for them over a        *)
(* connection, the hook of the React package queues them by batches and    *)
(* posts one after the other, the route checks the Voice Lease and the     *)
(* agent records an event for each that changes the session. The answers   *)
(* of a batch go back together.                                            *)
(*                                                                         *)
(* One session is followed. How a connect gets its lease and its           *)
(* connection is the subject of VoiceSession; here it is one step.         *)
(***************************************************************************)
EXTENDS Integers, Sequences, FiniteSets, SequencesExt

CONSTANTS
  Fresh,        \* the kinds of the new calls that come in one batch
  MaxCalls,     \* bound on the calls the model makes
  MaxConnects,  \* bound on connections
  MaxMishaps    \* bound on answers lost, sends that throw, and takeovers of the lease

\* What a tool does to the session: read it, or record an event of a step.
Kind == {"read", "start", "complete"}

ASSUME VoiceToolsAssumption ==
  /\ Fresh \subseteq Seq(Kind)
  /\ {MaxCalls, MaxConnects, MaxMishaps} \subseteq Nat

VARIABLES
  epoch,      \* epochRef
  made,       \* the epoch each connection was made in; a connection is its index
  open,       \* connections whose session at the provider is open
  listening,  \* connectionRef and its listeners, 0 if there are none
  leaving,    \* the connection a disconnect is about to close, 0 if there is none
  kind,       \* the kind of each call; a call is its index
  asked,      \* history: what was asked, in order, over which connection
  toolQueue,  \* toolQueueRef: the batches; the first one runs
  running,    \* handleVoiceToolCalls has looked at the epoch and runs the first batch
  responses,  \* its responses so far
  requests,   \* requests under way, `waited` for by the batch or given up
  lease,      \* who holds the lease: "me", "other" or "none"
  log,        \* the calls whose events were recorded, in order
  told,       \* answers the provider has received
  mishaps

connection == <<epoch, made, open, listening, leaving>>
provider == <<kind, asked, told>>
batches == <<toolQueue, running, responses>>
server == <<requests, lease, log>>
toolVars == <<epoch, made, open, listening, leaving, kind, asked, toolQueue, running,
              responses, requests, lease, log, told, mishaps>>

ToolsInit ==
  /\ epoch = 0 /\ made = <<>> /\ open = {} /\ listening = 0 /\ leaving = 0
  /\ kind = <<>> /\ asked = <<>> /\ told = {}
  /\ toolQueue = <<>> /\ running = FALSE /\ responses = <<>>
  /\ requests = {} /\ lease = "none" /\ log = <<>>
  /\ mishaps = 0

Mishap == mishaps < MaxMishaps /\ mishaps' = mishaps + 1

-------------------------------------------------------------------------------
\* The connection.

\* A connect while one is open is not refused: the new connection gets the listeners,
\* the old one is left open.
ConnectVoice ==
  /\ Len(made) < MaxConnects
  /\ leaving = 0
  /\ lease \in {"none", "me"}
  /\ lease' = "me"
  /\ made' = Append(made, epoch)
  /\ open' = open \cup {Len(made')}
  /\ listening' = Len(made')
  /\ UNCHANGED <<epoch, leaving, provider, batches, requests, log, mishaps>>

\* disconnect, up to its first await. The epoch stays: what was queued is still run.
LeaveVoice ==
  /\ listening # 0 /\ leaving = 0
  /\ leaving' = listening
  /\ listening' = 0
  /\ UNCHANGED <<epoch, made, open, provider, batches, server, mishaps>>

\* The rest of disconnect.
LeftVoice ==
  /\ leaving # 0
  /\ open' = open \ {leaving}
  /\ lease' = IF lease = "me" THEN "none" ELSE lease
  /\ leaving' = 0
  /\ UNCHANGED <<epoch, made, listening, provider, batches, requests, log, mishaps>>

\* The cleanup of the effect when the user turns to another session: a disconnect in a
\* new epoch.
TurnAway ==
  /\ listening # 0 /\ leaving = 0
  /\ epoch' = epoch + 1
  /\ leaving' = listening
  /\ listening' = 0
  /\ UNCHANGED <<made, open, provider, batches, server, mishaps>>

\* The provider ends a session. The listeners and the lease stay.
ProviderCloses ==
  /\ \E n \in open : open' = open \ {n}
  /\ UNCHANGED <<epoch, made, listening, leaving, provider, batches, server, mishaps>>

-------------------------------------------------------------------------------
\* The model's side.

AskedOver(n) == {asked[i].call : i \in {j \in DOMAIN asked : asked[j].conn = n}}
ToldOver(n) == {t.call : t \in {u \in told : u.conn = n}}

\* A call whose answer got lost with its connection is asked again, under the same id,
\* by a model that resumes.
Unanswered == {c \in DOMAIN kind : \A t \in told : t.call # c}
AskedAgain == {c \in Unanswered : \A n \in open : c \notin AskedOver(n)}

\* onToolCall: the batch is queued behind the batches of every connection.
Ask(again, fresh) ==
  /\ listening \in open
  /\ again \in {<<>>} \cup {<<c>> : c \in AskedAgain}
  /\ Len(kind) + Len(fresh) <= MaxCalls
  /\ Len(again) + Len(fresh) \in 1..2
  /\ kind' = kind \o fresh
  /\ LET calls == again \o [i \in DOMAIN fresh |-> Len(kind) + i]
     IN  /\ asked' = asked \o [i \in DOMAIN calls |-> [conn |-> listening, call |-> calls[i]]]
         /\ toolQueue' = Append(toolQueue, [conn |-> listening, calls |-> calls])
  /\ UNCHANGED <<connection, running, responses, server, told, mishaps>>

-------------------------------------------------------------------------------
\* The queue of batches.

Batch == Head(toolQueue)
Current(n) == made[n] = epoch

\* The first batch is begun if its epoch is current, and passed over if it is not.
BeginBatch ==
  /\ toolQueue # <<>> /\ ~running
  /\ running' = Current(Batch.conn)
  /\ toolQueue' = IF Current(Batch.conn) THEN toolQueue ELSE Tail(toolQueue)
  /\ UNCHANGED <<connection, provider, responses, server, mishaps>>

Waiting == \E r \in requests : r.waited

\* The next call is posted when the one before was answered.
PostCall ==
  /\ running /\ ~Waiting /\ Len(responses) < Len(Batch.calls)
  /\ requests' = requests \cup
       {[call |-> Batch.calls[Len(responses) + 1], at |-> "route", ok |-> FALSE, waited |-> TRUE]}
  /\ UNCHANGED <<connection, provider, batches, lease, log, mishaps>>

Responded(r, ok) == responses' = Append(responses, [call |-> r.call, ok |-> ok])

ReceiveAnswer ==
  /\ \E r \in requests :
       /\ r.waited /\ r.at = "answer"
       /\ requests' = requests \ {r}
       /\ Responded(r, r.ok)
  /\ UNCHANGED <<connection, provider, toolQueue, running, lease, log, mishaps>>

\* The client sees the request fail, whatever becomes of it at the server.
LoseAnswer ==
  /\ Mishap
  /\ \E r \in requests :
       /\ r.waited
       /\ requests' = (requests \ {r}) \cup
            (IF r.at = "answer" THEN {} ELSE {[r EXCEPT !.waited = FALSE]})
       /\ Responded(r, FALSE)
  /\ UNCHANGED <<connection, provider, toolQueue, running, lease, log>>

\* The batch is over and the next one may begin.
PopBatch ==
  /\ toolQueue' = Tail(toolQueue)
  /\ running' = FALSE
  /\ responses' = <<>>

\* Mutant of FinishBatch: a send over a connection that is gone throws, nothing catches
\* it, and no batch runs after it.
MutantThrowPoisons ==
  /\ running /\ Len(responses) = Len(Batch.calls)
  /\ LET n == Batch.conn IN
       \/ /\ Current(n) /\ n \in open
          /\ told' = told \cup {[conn |-> n, call |-> responses[i].call, ok |-> responses[i].ok] :
                                  i \in DOMAIN responses}
          /\ PopBatch
          /\ UNCHANGED <<open, mishaps>>
       \/ /\ Current(n) /\ n \in open
          /\ Mishap
          /\ open' = open \ {n}
          /\ UNCHANGED <<told, batches>>
       \/ /\ ~Current(n)
          /\ PopBatch
          /\ UNCHANGED <<told, open, mishaps>>
  /\ UNCHANGED <<epoch, made, listening, leaving, kind, asked, server>>

\* The answers are sent, unless the epoch has passed. Sending does nothing over a
\* connection that is closed, and throws over one that breaks.
FinishBatch ==
  /\ running /\ Len(responses) = Len(Batch.calls)
  /\ PopBatch
  /\ LET n == Batch.conn IN
       \/ /\ Current(n) /\ n \in open
          /\ told' = told \cup {[conn |-> n, call |-> responses[i].call, ok |-> responses[i].ok] :
                                  i \in DOMAIN responses}
          /\ UNCHANGED <<open, mishaps>>
       \/ /\ Current(n) /\ n \in open
          /\ Mishap
          /\ open' = open \ {n}
          /\ UNCHANGED told
       \/ /\ ~Current(n) \/ n \notin open
          /\ UNCHANGED <<told, open, mishaps>>
  /\ UNCHANGED <<epoch, made, listening, leaving, kind, asked, server>>

-------------------------------------------------------------------------------
\* The server.

\* A call that appends no event of its own is a "read", request_replan too: what that
\* does to the session is in Replan, and it fails if replanning is not configured.
Writes(c) == kind[c] # "read"

\* Nobody looks at the answer to a request that was given up.
Answered(r, ok) ==
  requests' = (requests \ {r}) \cup
    (IF r.waited THEN {[r EXCEPT !.at = "answer", !.ok = ok]} ELSE {})

\* The route: the lease is read once, before anything is done, and a call that writes
\* must come with enough confidence.
RouteCall ==
  /\ \E r \in requests, sure \in BOOLEAN :
       /\ r.at = "route"
       /\ \/ lease # "me" /\ Answered(r, FALSE)
          \/ lease = "me" /\ kind[r.call] = "read" /\ \E ok \in BOOLEAN : Answered(r, ok)
          \/ lease = "me" /\ Writes(r.call) /\ ~sure /\ Answered(r, FALSE)
          \/ /\ lease = "me" /\ Writes(r.call) /\ sure
             /\ requests' = (requests \ {r}) \cup {[r EXCEPT !.at = "append"]}
  /\ UNCHANGED <<connection, provider, batches, lease, log, mishaps>>

\* Mutant of Recorded: every request makes an event id of its own.
MutantFreshId(c) == FALSE

\* The event of a call has an id made from the call's.
Recorded(c) == c \in ToSet(log)

\* The reducer takes an event once per step and kind, and a completion after a start.
Acceptable(c) ==
  /\ kind[c] = "start" => \A d \in ToSet(log) : kind[d] # "start"
  /\ kind[c] = "complete" =>
       /\ \E d \in ToSet(log) : kind[d] = "start"
       /\ \A d \in ToSet(log) : kind[d] # "complete"

\* appendEvent of the agent. An error becomes an answer.
AppendCall ==
  /\ \E r \in requests :
       /\ r.at = "append"
       /\ \/ Recorded(r.call) /\ Answered(r, TRUE) /\ UNCHANGED log
          \/ /\ ~Recorded(r.call) /\ Acceptable(r.call)
             /\ log' = Append(log, r.call)
             /\ Answered(r, TRUE)
          \/ /\ ~Recorded(r.call) /\ ~Acceptable(r.call)
             /\ Answered(r, FALSE)
             /\ UNCHANGED log
  /\ UNCHANGED <<connection, provider, batches, lease, mishaps>>

\* Another actor takes the lease, which was released or has expired, or gives it back.
OtherActor ==
  /\ \/ lease # "other" /\ Mishap /\ lease' = "other"
     \/ lease = "other" /\ lease' = "none" /\ UNCHANGED mishaps
  /\ UNCHANGED <<connection, provider, batches, requests, log>>

ToolsNext ==
  \/ ConnectVoice \/ LeaveVoice \/ LeftVoice \/ TurnAway \/ ProviderCloses
  \/ \E again \in {<<>>} \cup {<<c>> : c \in DOMAIN kind},
        fresh \in {<<>>} \cup Fresh : Ask(again, fresh)
  \/ BeginBatch \/ PostCall \/ ReceiveAnswer \/ LoseAnswer \/ FinishBatch
  \/ RouteCall \/ AppendCall
  \/ OtherActor

\* Promises settle, requests are served, and the client's callbacks run.
ToolsFairness ==
  /\ WF_toolVars(LeftVoice)
  /\ WF_toolVars(BeginBatch)
  /\ WF_toolVars(PostCall)
  /\ WF_toolVars(ReceiveAnswer)
  /\ WF_toolVars(FinishBatch)
  /\ WF_toolVars(RouteCall)
  /\ WF_toolVars(AppendCall)

ToolsSpec == ToolsInit /\ [][ToolsNext]_toolVars /\ ToolsFairness

-------------------------------------------------------------------------------
AskedOnce(c) == Cardinality({i \in DOMAIN asked : asked[i].call = c}) = 1
Place(c) == CHOOSE i \in DOMAIN log : log[i] = c

\* What the model is told is what the session has: however calls are asked again over
\* later connections, given up, or run for a connection that is gone, no call is recorded
\* twice, a call the model was told has succeeded is recorded, and two such calls, asked
\* once each, are recorded in the order they were asked.
ToolCallsAreKept ==
  /\ IsInjective(log)
  /\ \A t \in told : t.ok /\ Writes(t.call) => Recorded(t.call)
  /\ \A t, u \in told :
       LET c == t.call
           d == u.call
       IN  /\ t.ok /\ u.ok /\ Writes(c) /\ Writes(d) /\ AskedOnce(c) /\ AskedOnce(d) /\ c < d
           => Place(c) < Place(d)

\* An answer is owed over a connection that is open and of the current epoch.
AnswerOwed ==
  \E n \in open : Current(n) /\ \E c \in AskedOver(n) : c \notin ToldOver(n)
===============================================================================
