----------------------------- MODULE MCReactClient -----------------------------
(* The parts of the React client whose states are their own: the channel of a    *)
(* session, the tool calls and the sound of the voice model, and the hook that   *)
(* compiles plans. They share nothing but the client, so a behaviour runs one of *)
(* them and leaves the others alone.                                             *)
EXTENDS SessionChannel, VoiceTools, VoiceMedia, CompileHook

VARIABLE part  \* the one that runs

\* Two writes in one batch; the others come in batches of one.
MCFresh ==
  {<<k>> : k \in Kind} \cup {<<"start", "complete">>, <<"complete", "start">>}

ClientInit ==
  /\ part \in {"channel", "tools", "media", "compile"}
  /\ Init /\ ToolsInit /\ MediaInit /\ HookInit
  /\ part # "channel" => pulse.revision = 0
  /\ part # "compile" => plan = CHOOSE p \in Plan : TRUE

ClientNext ==
  \/ part = "channel" /\ Next /\ UNCHANGED <<part, toolVars, mediaVars, hookVars>>
  \/ part = "tools" /\ ToolsNext /\ UNCHANGED <<part, vars, mediaVars, hookVars>>
  \/ part = "media" /\ MediaNext /\ UNCHANGED <<part, vars, toolVars, hookVars>>
  \/ part = "compile" /\ HookNext /\ UNCHANGED <<part, vars, toolVars, mediaVars>>

\* A fetch is answered or fails, methods of the agent end, and a socket that stays open
\* delivers. The fairness of the other parts is stated with them.
ClientFairness ==
  /\ WF_vars(part = "channel" /\ Bump)
  /\ WF_vars(part = "channel" /\ Receive)
  /\ WF_vars(part = "channel" /\ \E f \in fetches : Serve(f))
  /\ WF_vars(part = "channel" /\ \E f \in fetches : Answer(f))
  /\ ToolsFairness
  /\ HookFairness

ClientSpec ==
  ClientInit /\ [][ClientNext]_<<part, vars, toolVars, mediaVars, hookVars>> /\ ClientFairness

Unsettled == (part = "channel" /\ PulseUnsettled) \/ AnswerOwed \/ CallUnderWay

\* Nothing holds the client up. However many pulses overtake its fetches, the channel
\* comes to show what a pulse announced, unless the last fetch failed. However batches of
\* tool calls fail or are passed over, those behind them are answered, if their connection
\* is still of use. A compile is over some day, and if its job never settles.
ClientSettles == Unsettled ~> ~Unsettled
===============================================================================
