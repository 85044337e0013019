------------------------------- MODULE VoiceMedia -------------------------------
(***************************************************************************)
(* The sound of a voice session in the browser. Blocks of samples come     *)
(* from the microphone, are gathered and sent; chunks of the model's voice *)
(* come over the connection and are scheduled one after the other, until   *)
(* the user speaks up. To attach the microphone takes some awaits, and the *)
(* user may leave or turn to another session during each.                  *)
(*                                                                         *)
(* One attach is followed. A sample is what one callback of the capture    *)
(* brings; sound is told apart by its place only.                          *)
(***************************************************************************)
EXTENDS Integers, Sequences, FiniteSets, SequencesExt

CONSTANTS
  Lengths,     \* how long a chunk of the voice takes
  Lookahead,   \* PLAYBACK_LOOKAHEAD_SEC
  Enough,      \* blocks that are sent together, TARGET_INPUT_CHUNK_MS of them
  MaxBlocks,   \* bound on blocks captured
  MaxChunks,   \* bound on chunks received
  MaxClock,    \* bound on time
  MaxSwitches  \* bound on muting, unmuting and errors of the connection

ASSUME VoiceMediaAssumption ==
  /\ Lengths \subseteq Nat \ {0} /\ Enough \in Nat \ {0}
  /\ {Lookahead, MaxBlocks, MaxChunks, MaxClock, MaxSwitches} \subseteq Nat

VARIABLES
  micPhase,     \* the await of attachBrowserVoiceMedia, "on" or how it ended
  held,         \* what was opened and not released
  turnedAway,   \* the connect that attaches has been superseded
  disconnecting, \* disconnect: "no", "flushing" (it awaits the resume handle), "done"
  overlooked,   \* history: turned away from while a disconnect was under way
  lineStatus,   \* status of the connection
  muted,        \* muted of the connection
  erred,        \* history: the line has reported an error
  mutes,        \* history: how often the user has muted
  pending,      \* pendingCapture: the blocks gathered
  sent,         \* history: the blocks sent
  blocks,       \* blocks captured so far
  unheard,      \* history: [block, mute] of each block captured while the user was muted,
                \* mute 0 of those captured over a closed line
  clock,        \* currentTime of the playback context
  nextPlayTime,
  playing,      \* activeSources: [chunk, from, to], with the history [came, behind] of each
  chunks,       \* chunks received so far
  switches

leave == <<turnedAway, disconnecting, overlooked>>
line == <<lineStatus, muted, erred, mutes>>
capture == <<pending, sent, blocks, unheard>>
playback == <<nextPlayTime, playing, chunks>>
mediaVars == <<micPhase, held, leave, line, capture, clock, playback, switches>>

MediaInit ==
  /\ micPhase = "idle" /\ held = {} 
  /\ turnedAway = FALSE /\ disconnecting = "no" /\ overlooked = FALSE
  /\ lineStatus = "connected" /\ muted = FALSE /\ erred = FALSE /\ mutes = 0
  /\ pending = <<>> /\ sent = <<>> /\ blocks = 0 /\ unheard = {}
  /\ clock = 0 /\ nextPlayTime = 0 /\ playing = {} /\ chunks = 0
  /\ switches = 0

Attaching == micPhase \in {"asking", "resuming", "loading", "tuning"}
Closed == lineStatus = "disconnected"

\* Mutant of SendAudio: it does not look whether the user is muted.
MutantSendAudio(s) == IF Closed THEN sent ELSE sent \o s

\* sendAudio, over a line that is open and not muted.
SendAudio(s) == IF muted \/ Closed THEN sent ELSE sent \o s

\* flushCapture drops what it has while the status of the line says so.
Drops == lineStatus \in {"disconnected", "muted"}

\* stop: nothing is held, played or waiting to be sent any more.
ReleaseAll ==
  /\ held' = {} /\ playing' = {} /\ pending' = <<>>
  /\ nextPlayTime' = clock
  /\ UNCHANGED <<blocks, unheard, chunks>>

\* stop of the handle: what is gathered is sent first.
StopMedia ==
  /\ micPhase' = "stopped"
  /\ sent' = IF Drops THEN sent ELSE SendAudio(pending)
  /\ ReleaseAll

-------------------------------------------------------------------------------
\* Attaching. An await that the browser has no need of is a step all the same.

\* A browser without a microphone gets a handle that does nothing.
AttachMedia ==
  /\ micPhase = "idle" /\ ~Closed
  /\ micPhase' \in {"asking", "on"}
  /\ UNCHANGED <<held, leave, line, capture, clock, playback, switches>>

MicGranted ==
  /\ micPhase = "asking"
  /\ micPhase' = "resuming"
  /\ held' = {"stream", "captureCtx"}
  /\ UNCHANGED <<leave, line, capture, clock, playback, switches>>

CaptureResumed ==
  /\ micPhase = "resuming"
  /\ micPhase' = "loading"
  /\ UNCHANGED <<held, leave, line, capture, clock, playback, switches>>

\* The worklet is loaded, or the script processor takes its place.
CaptureAttached ==
  /\ micPhase = "loading"
  /\ micPhase' = "tuning"
  /\ held' = held \cup {"source", "playCtx"}
  /\ UNCHANGED <<leave, line, capture, clock, playback, switches>>

\* The handle is returned, and the connect looks whether it is still wanted.
PlaybackResumed ==
  /\ micPhase = "tuning"
  /\ \/ /\ ~turnedAway
        /\ micPhase' = "on"
        /\ held' = held \cup {"listeners"}
        /\ nextPlayTime' = clock
        /\ UNCHANGED <<capture, playing, chunks, line>>
     \/ /\ turnedAway
        /\ StopMedia
        /\ lineStatus' = "disconnected"
        /\ UNCHANGED <<muted, erred, mutes>>
  /\ UNCHANGED <<leave, clock, switches>>

\* The microphone is refused or a call throws: all is released and the connect gives up.
AttachFails ==
  /\ Attaching
  /\ micPhase' = "failed"
  /\ ReleaseAll
  /\ lineStatus' = "disconnected"
  /\ UNCHANGED <<leave, muted, erred, mutes, sent, clock, switches>>

\* disconnect, and the cleanup of the effect when the user turns to another session: what
\* is attached stops, and mute and unmute have no connection any more. What is being
\* attached is not known yet and cannot be stopped.
LeaveMedia ==
  /\ Attaching \/ micPhase = "on"
  /\ disconnecting # "flushing"
  /\ turnedAway' \in {turnedAway, TRUE}
  /\ disconnecting' = "flushing"
  /\ IF micPhase = "on" THEN StopMedia ELSE UNCHANGED <<micPhase, held, capture, playback>>
  /\ UNCHANGED <<overlooked, line, clock, switches>>

\* The resume handle is stored, or that has failed: the connection is closed.
LeaveLine ==
  /\ disconnecting = "flushing"
  /\ disconnecting' = "done"
  /\ lineStatus' = "disconnected"
  /\ UNCHANGED <<turnedAway, overlooked, muted, erred, mutes, micPhase, held, capture, clock, playback,
                 switches>>

\* The cleanup while a disconnect is under way: it returns at once.
TurnAwayMeanwhile ==
  /\ disconnecting = "flushing" /\ ~turnedAway
  /\ turnedAway' = TRUE /\ overlooked' = TRUE
  /\ UNCHANGED <<disconnecting, line, micPhase, held, capture, clock, playback, switches>>

-------------------------------------------------------------------------------
\* The microphone.

Switch == switches < MaxSwitches /\ switches' = switches + 1

Mute ==
  /\ Switch /\ disconnecting = "no"
  /\ muted' = TRUE
  /\ lineStatus' = IF lineStatus = "connected" THEN "muted" ELSE lineStatus
  /\ mutes' = IF muted THEN mutes ELSE mutes + 1
  /\ UNCHANGED <<erred, micPhase, held, leave, capture, clock, playback>>

Unmute ==
  /\ Switch /\ disconnecting = "no" /\ muted
  /\ muted' = FALSE
  /\ lineStatus' = IF lineStatus = "muted" THEN "connected" ELSE lineStatus
  /\ UNCHANGED <<erred, mutes, micPhase, held, leave, capture, clock, playback>>

\* onerror: the session stays. onclose: it is gone, and the microphone stays on.
LineBreaks ==
  /\ Switch /\ ~Closed
  /\ \/ lineStatus' = "error" /\ erred' = TRUE
     \/ lineStatus' = "disconnected" /\ erred' = erred
  /\ UNCHANGED <<muted, mutes, micPhase, held, leave, capture, clock, playback>>

\* A block is dropped with those before it if the line is closed or says that it is muted,
\* and sent with them when there are enough. A line that has reported an error does not
\* say so: what is gathered then waits for the user to unmute, or is lost.
CaptureBlock ==
  /\ "source" \in held /\ blocks < MaxBlocks
  /\ blocks' = blocks + 1
  /\ LET gathered == Append(pending, blocks') IN
       IF Drops THEN pending' = <<>> /\ sent' = sent
       ELSE IF Len(gathered) < Enough THEN pending' = gathered /\ sent' = sent
       ELSE pending' = <<>> /\ sent' = SendAudio(gathered)
  /\ unheard' = unheard \cup {u \in [block : {blocks'}, mute : {0, mutes}] :
                                IF u.mute = 0 THEN Closed ELSE muted}
  /\ UNCHANGED <<micPhase, held, leave, line, clock, playback, switches>>

-------------------------------------------------------------------------------
\* The voice.

Later(a, b) == IF a < b THEN b ELSE a

\* nextPlaybackStartTime: after the chunk before it, and not too soon for the audio thread.
NextStart(now) == Later(now + Lookahead, nextPlayTime)

PlayChunk ==
  /\ "listeners" \in held /\ chunks < MaxChunks /\ ~Closed
  /\ chunks' = chunks + 1
  /\ \E length \in Lengths :
       /\ playing' = playing \cup {[chunk |-> chunks', from |-> NextStart(clock),
                                    to |-> NextStart(clock) + length, came |-> clock,
                                    behind |-> Max({0} \cup {p.to : p \in playing})]}
       /\ nextPlayTime' = NextStart(clock) + length
  /\ UNCHANGED <<micPhase, held, leave, line, capture, clock, switches>>

\* The user speaks up: what is playing stops, and what was to be played is dropped.
Interrupted ==
  /\ "listeners" \in held /\ ~Closed
  /\ playing' = {}
  /\ nextPlayTime' = clock
  /\ UNCHANGED <<micPhase, held, leave, line, capture, clock, chunks, switches>>

\* onended of a chunk.
Ended ==
  /\ \E p \in playing : p.to <= clock /\ playing' = playing \ {p}
  /\ UNCHANGED <<micPhase, held, leave, line, capture, clock, nextPlayTime, chunks, switches>>

Elapses ==
  /\ "listeners" \in held /\ clock < MaxClock
  /\ clock' = clock + 1
  /\ UNCHANGED <<micPhase, held, leave, line, capture, playback, switches>>

MediaNext ==
  \/ AttachMedia \/ MicGranted \/ CaptureResumed \/ CaptureAttached \/ PlaybackResumed
  \/ AttachFails \/ LeaveMedia \/ LeaveLine \/ TurnAwayMeanwhile
  \/ Mute \/ Unmute \/ LineBreaks \/ CaptureBlock
  \/ PlayChunk \/ Interrupted \/ Ended \/ Elapses

MediaSpec == MediaInit /\ [][MediaNext]_mediaVars

-------------------------------------------------------------------------------
\* Chunks play in the order they came in, never two at a time, and each starts as soon
\* as those before it and the audio thread allow.
PlaysInTurn ==
  \A p \in playing :
    /\ p.from = Later(p.came + Lookahead, p.behind)
    /\ \A q \in playing : p.chunk < q.chunk => p.to <= q.from

\* The blocks of S captured during a mute; during mute 0, while the line was closed.
During(m, S) == {b \in S : [block |-> b, mute |-> m] \in unheard}

\* What the user says is sent once and in order. What was said to a closed line never is, nor,
\* as long as the line has reported no error, what was said while muted. After an error some
\* of it is, but of each mute less than is sent together: what had not filled a message
\* when the user unmuted.
HeardInTurn ==
  /\ \A i, j \in DOMAIN sent : i < j => sent[i] < sent[j]
  /\ During(0, ToSet(sent)) = {}
  /\ \A m \in 1..mutes :
       /\ ~erred => During(m, ToSet(sent)) = {}
       /\ Cardinality(During(m, ToSet(sent))) < Enough

\* A microphone that could not be attached, or that belongs to a session that was left, is
\* off. So is that of a session turned away from, at whatever await it was being attached,
\* unless the user left first and turned away while that was under way.
ReleasedWhenOver ==
  /\ micPhase \in {"stopped", "failed"} => held = {} /\ playing = {} /\ pending = <<>>
  /\ turnedAway /\ ~overlooked => micPhase # "on"

\* The sound of a session stays in turn, both ways, through mutes, interruptions and broken
\* lines, and ends with the session.
SoundIsRight == PlaysInTurn /\ HeardInTurn /\ ReleasedWhenOver
================================================================================
