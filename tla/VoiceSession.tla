----------------------------- MODULE VoiceSession -----------------------------
(***************************************************************************)
(* useVoiceSession of the React package, with its calls to the server and    *)
(* the lease they are about. The user connects, disconnects, suspends and    *)
(* turns to other sessions at any time; each of these is an async function   *)
(* that other events interleave with at its awaits. Another actor competes   *)
(* for the lease.                                                           *)
(*                                                                         *)
(* Left out: what is displayed (status, error, transcript), audio, tool      *)
(* calls, which leave no state here, and the text of a continuation that a   *)
(* connect resumes; its claim is part of the call for the token.             *)
(***************************************************************************)
EXTENDS VoiceLease, ResumeHandles

CONSTANTS
  Me, Other,    \* the actor of this client, and another
  Connect,      \* calls of connect; each is made once
  None,         \* no session, no connect
  MaxHandles,   \* bound on the handles the provider gives out
  MaxEvents     \* bound on what comes from outside: the user's calls, the page, handles, time,
                \* the other actor, and calls that fail

ASSUME VoiceAssumption ==
  /\ {MaxHandles, MaxEvents} \subseteq Nat
  /\ None \notin Session \cup Connect \cup Actor
  /\ {Me, Other} \subseteq Actor /\ Me # Other

VARIABLES
  session,     \* the prop; None before and after a session, and once unmounted
  bound,       \* boundSessionIdRef
  connecting,  \* connectingRef
  current,     \* resumeSyncRef: the connect whose sync it is
  listening,   \* the connect whose connection is open and has listeners
  connects,    \* the calls of connect
  syncs,       \* the sync each connect has made
  newest,      \* the newest handle of each sync; Unset once refetchLease has told it another
  calls,       \* the calls of disconnect and suspend under way
  refetch,     \* the call of refetchLease
  lost,        \* sessions of which a call that was to acquire or release the lease has failed
  handles, events

client == <<session, bound, connecting, current, listening>>
bounds == <<handles, events>>
vars == <<leases, client, connects, syncs, newest, calls, refetch, lost, bounds>>

Call == {"disconnect", "suspend"}

\* `live` is isCurrent(epoch), `id` and `known` are what acquire has answered, `target` is
\* the session that the catch clause releases.
NoConnect == [at |-> "idle", sid |-> None, live |-> FALSE, id |-> 0, known |-> Null,
              target |-> None]
NoCall == [at |-> "off", sid |-> None, sync |-> None]
NoRefetch == [at |-> "off", sid |-> None, live |-> FALSE, handle |-> Null]

Init ==
  /\ leases = [s \in Session |-> NoLease(None)]
  /\ session \in Session
  /\ bound = None /\ connecting = FALSE
  /\ current = None /\ listening = None
  /\ connects = [c \in Connect |-> NoConnect]
  /\ syncs = [c \in Connect |-> NewSync]
  /\ newest = [c \in Connect |-> Null]
  /\ calls = [f \in Call |-> NoCall]
  /\ refetch = NoRefetch
  /\ lost = {}
  /\ handles = 0 /\ events = 0

Event == events < MaxEvents /\ events' = events + 1

At(c) == connects[c].at
Goes(c, at) == connects' = [connects EXCEPT ![c].at = at]

\* epochRef moves on: no call under way is current any more.
Superseded == [c \in Connect |-> [connects[c] EXCEPT !.live = FALSE]]
RefetchSuperseded == refetch' = [refetch EXCEPT !.live = FALSE]

\* A call of the server that fails: it has changed the leases, or not.
FailedCall(s, change) ==
  /\ Event
  /\ lost' = lost \cup {s}
  /\ change \/ UNCHANGED leases

\* Some call under way is going to release the lease of s, or has yet to bind it.
InHand(s) ==
  \/ \E c \in Connect : connects[c].sid = s /\ At(c) \in {"acquired", "drop"}
  \/ \E c \in Connect : connects[c].target = s /\ At(c) = "release"
  \/ calls["disconnect"].sid = s /\ calls["disconnect"].at \notin {"off", "released"}

\* The answer to a release resets the binding, even if the lease was acquired again since.
Unbind(s) == bound' = IF bound = s THEN None ELSE bound

DisposeCurrent(of) == IF current = None THEN of ELSE [of EXCEPT ![current] = Dispose(@)]

-------------------------------------------------------------------------------
\* disconnect, until it waits. `now` and `others` are the connects and calls as its caller
\* leaves them.

Returns == calls["disconnect"].at # "off"

\* flush of the current sync, from one await to the next.
StartFlush ==
  [NoCall EXCEPT !.sync = current,
                 !.at = IF current = None THEN "last"
                        ELSE IF syncs[current].pending = Unset THEN "chain" ELSE "pending"]

FlushStarted(f) ==
  IF current = None THEN syncs
  ELSE [syncs EXCEPT ![current] =
          IF @.pending = Unset THEN Await(FlushPending(@, f), f) ELSE FlushPending(@, f)]

Flush(f) ==
  LET call == calls[f]
      sync == syncs[call.sync]
      Step(at, result) ==
        /\ calls' = [calls EXCEPT ![f].at = at]
        /\ syncs' = [syncs EXCEPT ![call.sync] = result]
  IN
  /\ call.sync # None
  /\ ~Waits(sync, f)
  /\ \/ /\ call.at = "pending"
        /\ Step("chain", Await(sync, f))
     \/ /\ call.at = "chain" /\ sync.writes = {}
        /\ Step("last", Await(FlushRetry(sync, f), f))
  /\ UNCHANGED <<leases, client, connects, newest, refetch, lost, bounds>>

Flushed(f) ==
  /\ calls[f].at = "last"
  /\ calls[f].sync # None => ~Waits(syncs[calls[f].sync], f)

StartDisconnect(now, others) ==
  /\ connects' = now
  /\ \/ /\ Returns
        /\ calls' = others
        /\ UNCHANGED <<syncs, current, listening>>
     \/ /\ ~Returns /\ bound = None
        /\ calls' = others
        /\ syncs' = DisposeCurrent(syncs)
        /\ current' = None /\ listening' = None
     \/ /\ ~Returns /\ bound # None
        /\ calls' = [others EXCEPT !["disconnect"] = [StartFlush EXCEPT !.sid = bound]]
        /\ syncs' = FlushStarted("disconnect")
        /\ listening' = None
        /\ UNCHANGED current

\* connectingRef after it: disconnect resets it when it is done.
ConnectingAfter == connecting /\ (Returns \/ bound # None)

\* The user's call.
Disconnect ==
  /\ Event
  /\ StartDisconnect(connects, calls)
  /\ connecting' = ConnectingAfter
  /\ UNCHANGED <<leases, session, bound, newest, refetch, lost, handles>>

\* The prop changes, or the component goes: the cleanup of the effect.
Switch(s) ==
  /\ Event
  /\ s # session
  /\ session' = s
  /\ StartDisconnect(Superseded, calls)
  /\ RefetchSuperseded
  /\ connecting' = FALSE
  /\ UNCHANGED <<leases, bound, newest, lost, handles>>

\* All is flushed: the sync and the connection go, and the lease is to be released.
DisconnectClose ==
  LET call == calls["disconnect"] IN
  /\ Flushed("disconnect")
  /\ calls' = [calls EXCEPT !["disconnect"].at = "release"]
  /\ syncs' = IF call.sync = None THEN syncs ELSE [syncs EXCEPT ![call.sync] = Dispose(@)]
  /\ current' = IF current = call.sync THEN None ELSE current
  /\ UNCHANGED <<leases, session, bound, connecting, listening, connects, newest, refetch, lost,
                 bounds>>

DisconnectRelease ==
  LET call == calls["disconnect"] IN
  /\ call.at = "release"
  /\ \/ Release(call.sid, Me, None) /\ UNCHANGED <<lost, events>>
     \/ FailedCall(call.sid, Release(call.sid, Me, None))
  /\ calls' = [calls EXCEPT !["disconnect"].at = "released"]
  /\ UNCHANGED <<client, connects, syncs, newest, refetch, handles>>

\* The rest of disconnect, and of the connect that has waited for it.
DisconnectDone ==
  /\ calls["disconnect"].at = "released"
  /\ calls' = [calls EXCEPT !["disconnect"] = NoCall]
  /\ Unbind(calls["disconnect"].sid)
  /\ connecting' = \E c \in Connect : At(c) = "retarget"
  /\ connects' = [c \in Connect |->
                    IF At(c) = "retarget" THEN [connects[c] EXCEPT !.at = "acquire", !.live = TRUE]
                    ELSE connects[c]]
  /\ UNCHANGED <<leases, session, current, listening, syncs, newest, refetch, lost, bounds>>

-------------------------------------------------------------------------------
\* connect.

Asks(of, c) ==
  [of EXCEPT ![c] = [NoConnect EXCEPT !.at = "acquire", !.sid = session, !.live = TRUE]]

\* Nothing is in the way.
ConnectBegin(c) ==
  /\ At(c) = "idle" /\ Event
  /\ session # None
  /\ ~connecting /\ bound \in {None, session}
  /\ connects' = Asks(connects, c)
  /\ connecting' = TRUE
  /\ UNCHANGED <<leases, session, bound, current, listening, syncs, newest,
                 calls, refetch, lost, handles>>

\* Another session is connecting or bound: disconnect first, and wait unless it returns at
\* once.
ConnectRetarget(c) ==
  LET now == IF connecting THEN Superseded ELSE connects
      waits == bound # None /\ ~Returns
  IN
  /\ At(c) = "idle" /\ Event
  /\ session # None /\ bound # session
  /\ connecting \/ bound # None
  /\ StartDisconnect(IF waits
                     THEN [now EXCEPT ![c] = [NoConnect EXCEPT !.at = "retarget", !.sid = session]]
                     ELSE Asks(now, c), calls)
  /\ connecting' = ~waits
  /\ IF connecting THEN RefetchSuperseded ELSE UNCHANGED refetch
  /\ UNCHANGED <<leases, session, bound, newest, lost, handles>>

ConnectAcquire(c) ==
  LET s == connects[c].sid IN
  /\ At(c) = "acquire"
  /\ \/ /\ MayAcquire(s, Me, None)
        /\ Acquire(s, Me)
        /\ connects' = [connects EXCEPT ![c].at = "acquired", ![c].id = leases'[s].id,
                                        ![c].known = leases'[s].handle]
        /\ UNCHANGED <<lost, events>>
     \/ /\ ~MayAcquire(s, Me, None)
        /\ Goes(c, "catch")
        /\ UNCHANGED <<leases, lost, events>>
     \/ /\ MayAcquire(s, Me, None)
        /\ FailedCall(s, Acquire(s, Me))
        /\ Goes(c, "catch")
  /\ UNCHANGED <<client, syncs, newest, calls, refetch, handles>>

\* Mutant of AcquiredGoesTo: a superseded connect just returns.
MutantKeepsLease(c) == IF connects[c].live THEN "token" ELSE "done"

\* A superseded connect gives up the lease it has acquired.
AcquiredGoesTo(c) == IF connects[c].live THEN "token" ELSE "drop"

\* The lease is there: it is bound, and ensureResumeSync makes its sync.
ConnectAcquired(c) ==
  /\ At(c) = "acquired"
  /\ Goes(c, AcquiredGoesTo(c))
  /\ IF connects[c].live
     THEN /\ bound' = connects[c].sid
          /\ syncs' = [DisposeCurrent(syncs) EXCEPT ![c] = NoteKnown(NewSync, connects[c].known)]
          /\ current' = c
     ELSE UNCHANGED <<bound, syncs, current>>
  /\ UNCHANGED <<leases, session, connecting, listening, newest, calls, refetch, lost, bounds>>

ConnectDrop(c) ==
  LET s == connects[c].sid IN
  /\ At(c) = "drop"
  /\ \/ Release(s, Me, None) /\ UNCHANGED <<lost, events>>
     \/ FailedCall(s, Release(s, Me, None))
  /\ Goes(c, "done")
  /\ UNCHANGED <<client, syncs, newest, calls, refetch, handles>>

\* The claim of a continuation and the token; the server wants the lease. The second token,
\* after the handle was cleared, is not checked for being superseded.
ConnectToken(c) ==
  /\ At(c) \in {"token", "retoken"}
  /\ \/ /\ Holds(connects[c].sid, Me)
        /\ At(c) = "token" => connects[c].live
        /\ Goes(c, IF At(c) = "token" THEN "open" ELSE "reopen")
        /\ UNCHANGED events
     \/ /\ ~Holds(connects[c].sid, Me) \/ (At(c) = "token" /\ ~connects[c].live)
        /\ Goes(c, "catch")
        /\ UNCHANGED events
     \/ /\ Event
        /\ Goes(c, "catch")
  /\ UNCHANGED <<leases, client, syncs, newest, calls, refetch, lost, handles>>

\* The provider connects: bindConnection, unless superseded. With a handle it may refuse:
\* the handle is cleared and it is tried once more.
ConnectOpen(c) ==
  /\ At(c) \in {"open", "reopen"}
  /\ \/ /\ connects[c].live
        /\ connects' = [connects EXCEPT ![c].at = "media", ![c].known = Null]
        /\ listening' = c /\ bound' = connects[c].sid
        /\ UNCHANGED <<syncs, newest, events>>
     \/ /\ ~connects[c].live
        /\ Goes(c, "catch")
        /\ UNCHANGED <<listening, bound, syncs, newest, events>>
     \/ /\ Event
        /\ IF At(c) = "open" /\ connects[c].known # Null
           THEN /\ syncs' = [syncs EXCEPT ![c] = ClearRemote(@, c)]
                /\ newest' = [newest EXCEPT ![c] = IF @ = Unset THEN Unset ELSE Null]
                /\ Goes(c, "clear")
           ELSE /\ UNCHANGED <<syncs, newest>>
                /\ Goes(c, "catch")
        /\ UNCHANGED <<listening, bound>>
  /\ UNCHANGED <<leases, session, connecting, current, calls, refetch, lost, handles>>

ConnectCleared(c) ==
  /\ At(c) = "clear" /\ ~Waits(syncs[c], c)
  /\ Goes(c, "retoken")
  /\ UNCHANGED <<leases, client, syncs, newest, calls, refetch, lost, bounds>>

\* The microphone, and then completeContinuation, which nothing is checked after.
ConnectMedia(c) ==
  /\ At(c) \in {"media", "complete"}
  /\ \/ /\ At(c) = "media" => connects[c].live
        /\ \/ Goes(c, "done") /\ connecting' = (connecting /\ ~connects[c].live)
           \/ At(c) = "media" /\ Goes(c, "complete") /\ UNCHANGED connecting
        /\ UNCHANGED <<listening, events>>
     \/ /\ Event \/ (At(c) = "media" /\ ~connects[c].live /\ UNCHANGED events)
        /\ Goes(c, "catch")
        /\ listening' = IF listening = c THEN None ELSE listening
        /\ UNCHANGED connecting
  /\ UNCHANGED <<leases, session, bound, current, syncs, newest,
                 calls, refetch, lost, handles>>

\* The catch clause: whatever session is bound by now is released.
ConnectCatch(c) ==
  /\ At(c) = "catch"
  /\ \/ /\ bound # None
        /\ connects' = [connects EXCEPT ![c].at = "release", ![c].target = bound]
        /\ UNCHANGED connecting
     \/ /\ bound = None
        /\ Goes(c, "done")
        /\ connecting' = (connecting /\ ~connects[c].live)
  /\ UNCHANGED <<leases, session, bound, current, listening, syncs, newest,
                 calls, refetch, lost, bounds>>

ConnectRelease(c) ==
  LET s == connects[c].target IN
  /\ At(c) = "release"
  /\ \/ Release(s, Me, None) /\ UNCHANGED <<lost, events>>
     \/ FailedCall(s, Release(s, Me, None))
  /\ Goes(c, "released")
  /\ UNCHANGED <<client, syncs, newest, calls, refetch, handles>>

ConnectReleased(c) ==
  /\ At(c) = "released"
  /\ Unbind(connects[c].target)
  /\ connects' = [connects EXCEPT ![c].at = "done", ![c].target = None]
  /\ connecting' = (connecting /\ ~connects[c].live)
  /\ UNCHANGED <<leases, session, current, listening, syncs, newest, calls,
                 refetch, lost, bounds>>

-------------------------------------------------------------------------------
\* Handles.

Scheduling(c) == connects[c].live /\ bound = connects[c].sid

\* A new handle of the provider reaches the listener, and the sync if it is current.
Announce ==
  /\ Event
  /\ listening # None
  /\ handles < MaxHandles /\ handles' = handles + 1
  /\ IF Scheduling(listening) /\ current # None /\ Scheduling(current)
     THEN /\ syncs' = [syncs EXCEPT ![current] = Schedule(@, handles')]
          /\ newest' = [newest EXCEPT ![current] = IF @ = Unset THEN Unset ELSE handles']
     ELSE UNCHANGED <<syncs, newest>>
  /\ UNCHANGED <<leases, client, connects, calls, refetch, lost>>

\* The provider repeats the handle that the sync has heard of last.
AnnounceAgain ==
  /\ Event
  /\ listening # None /\ current # None
  /\ Scheduling(listening) /\ Scheduling(current)
  /\ syncs[current].latest \notin {Unset, Null}
  /\ syncs' = [syncs EXCEPT ![current] = Schedule(@, @.latest)]
  /\ UNCHANGED <<leases, client, connects, newest, calls, refetch, lost, handles>>

\* pagehide, or visibilitychange to hidden.
PageHides ==
  /\ Event
  /\ current # None
  /\ syncs' = [syncs EXCEPT ![current] = FlushForLifecycle(@)]
  /\ UNCHANGED <<leases, client, connects, newest, calls, refetch, lost, handles>>

TimerFires(c) ==
  /\ syncs[c].timer # "off"
  /\ syncs' = [syncs EXCEPT ![c] = Fire(@)]
  /\ UNCHANGED <<leases, client, connects, newest, calls, refetch, lost, bounds>>

\* setVoiceResumeHandle at the server; `told` is what comes back, Unset an exception.
Puts(c, expected, handle, told) ==
  LET s == connects[c].sid IN
  \/ /\ SetResumeHandle(s, Me, connects[c].id, expected, handle)
     /\ told = IF Holds(s, Me) THEN leases'[s].handle ELSE Unset
     /\ UNCHANGED events
  \/ /\ Event
     /\ SetResumeHandle(s, Me, connects[c].id, expected, handle) \/ UNCHANGED leases
     /\ told = Unset

PutArrives(c) ==
  /\ syncs[c].put.at = "sent"
  /\ \E told \in {Unset} \cup 0..handles :
       /\ Puts(c, syncs[c].put.expected, Head(syncs[c].queue).handle, told)
       /\ syncs' = [syncs EXCEPT ![c].put = [@ EXCEPT !.at = "told", !.answer = told]]
  /\ UNCHANGED <<client, connects, newest, calls, refetch, lost, handles>>

PutReturns(c) ==
  /\ syncs[c].put.at = "told"
  /\ syncs' = [syncs EXCEPT ![c] = IF @.put.answer = Unset THEN PutFailed(@) ELSE PutAnswered(@)]
  /\ UNCHANGED <<leases, client, connects, newest, calls, refetch, lost, bounds>>

\* The same for a lifecycle write.
WriteArrives(c, write) ==
  /\ write.at = "sent"
  /\ \E told \in {Unset} \cup 0..handles :
       /\ Puts(c, write.expected, write.handle, told)
       /\ syncs' = [syncs EXCEPT ![c].writes =
                      (@ \ {write}) \cup {[write EXCEPT !.at = "told", !.answer = told]}]
  /\ UNCHANGED <<client, connects, newest, calls, refetch, lost, handles>>

WriteReturns(c, write) ==
  /\ write.at = "told"
  /\ syncs' = [syncs EXCEPT ![c] = IF write.answer = Unset THEN LifecycleFailed(@, write)
                                   ELSE LifecycleAnswered(@, write)]
  /\ UNCHANGED <<leases, client, connects, newest, calls, refetch, lost, bounds>>

-------------------------------------------------------------------------------
\* suspend and refetchLease.

Suspend ==
  /\ Event
  /\ session # None
  /\ calls["suspend"].at = "off"
  /\ calls' = [calls EXCEPT !["suspend"] = StartFlush]
  /\ syncs' = FlushStarted("suspend")
  /\ UNCHANGED <<leases, client, connects, newest, refetch, lost, handles>>

\* suspendContinuation, and disconnect once it is stored.
SuspendStored ==
  LET over == [calls EXCEPT !["suspend"] = NoCall] IN
  /\ Flushed("suspend")
  /\ \/ /\ StartDisconnect(connects, over)
        /\ connecting' = ConnectingAfter
        /\ UNCHANGED events
     \/ /\ Event
        /\ calls' = over
        /\ UNCHANGED <<connects, syncs, current, listening, connecting>>
  /\ UNCHANGED <<leases, session, bound, newest, refetch, lost, handles>>

Refetch ==
  /\ Event
  /\ refetch.at = "off"
  /\ session # None
  /\ refetch' = [NoRefetch EXCEPT !.at = "sent", !.sid = session, !.live = TRUE]
  /\ UNCHANGED <<leases, client, connects, syncs, newest, calls, lost, handles>>

\* getVoiceLease.
RefetchRead ==
  /\ refetch.at = "sent"
  /\ refetch' = IF leases[refetch.sid].holder # None
                THEN [refetch EXCEPT !.at = "read", !.handle = leases[refetch.sid].handle]
                ELSE NoRefetch
  /\ UNCHANGED <<leases, client, connects, syncs, newest, calls, lost, bounds>>

RefetchAnswered ==
  /\ refetch.at = "read"
  /\ refetch' = NoRefetch
  /\ IF refetch.live /\ current # None
     THEN /\ syncs' = [syncs EXCEPT ![current] = NoteKnown(@, refetch.handle)]
          /\ newest' = [newest EXCEPT ![current] =
                          IF syncs[current].latest = refetch.handle THEN @ ELSE Unset]
     ELSE UNCHANGED <<syncs, newest>>
  /\ UNCHANGED <<leases, client, connects, calls, lost, bounds>>

-------------------------------------------------------------------------------
\* The time of a lease is up, or the other actor releases it.
LeaseEnds(s) ==
  /\ Event
  /\ leases[s].holder # None
  /\ Ends(s, None)
  /\ UNCHANGED <<client, connects, syncs, newest, calls, refetch, lost, handles>>

OtherAcquires(s) ==
  /\ Event
  /\ MayAcquire(s, Other, None) /\ ~Holds(s, Other)
  /\ Acquire(s, Other)
  /\ UNCHANGED <<client, connects, syncs, newest, calls, refetch, lost, handles>>

-------------------------------------------------------------------------------
Next ==
  \/ Disconnect \/ DisconnectClose \/ DisconnectRelease \/ DisconnectDone
  \/ \E f \in Call : Flush(f)
  \/ Suspend \/ SuspendStored
  \/ Refetch \/ RefetchRead \/ RefetchAnswered
  \/ Announce \/ AnnounceAgain \/ PageHides
  \/ \E s \in Session \cup {None} : Switch(s)
  \/ \E s \in Session : LeaseEnds(s) \/ OtherAcquires(s)
  \/ \E c \in Connect :
       \/ ConnectBegin(c) \/ ConnectRetarget(c)
       \/ ConnectAcquire(c) \/ ConnectAcquired(c) \/ ConnectDrop(c)
       \/ ConnectToken(c) \/ ConnectOpen(c) \/ ConnectCleared(c) \/ ConnectMedia(c)
       \/ ConnectCatch(c) \/ ConnectRelease(c) \/ ConnectReleased(c)
       \/ TimerFires(c)
       \/ PutArrives(c) \/ PutReturns(c)
       \/ \E write \in syncs[c].writes : WriteArrives(c, write) \/ WriteReturns(c, write)

Spec == Init /\ [][Next]_vars

-------------------------------------------------------------------------------
HandleOrUnset == Unset..MaxHandles
Handle == 0..MaxHandles

Entry == [handle: Handle, stale: BOOLEAN, waiters: SUBSET (Call \cup Connect)]
Put == [at: {"idle", "sent", "told"}, expected: SUBSET Handle, attempt: 0..2,
        answer: HandleOrUnset]
Write == [at: {"sent", "told"}, handle: Handle, expected: SUBSET Handle, answer: HandleOrUnset]
Sync == [last: HandleOrUnset, pending: HandleOrUnset, latest: HandleOrUnset,
         timer: {"off", "write", "retry"}, queue: Seq(Entry), put: Put, writes: SUBSET Write,
         retry: HandleOrUnset]

SyncOK(sync) == sync \in Sync /\ (sync.put.at # "idle" => sync.queue # <<>>)

ConnectCall ==
  [at: {"idle", "retarget", "acquire", "acquired", "drop", "token", "open", "clear", "retoken",
        "reopen", "media", "complete", "catch", "release", "released", "done"},
   sid: Session \cup {None}, live: BOOLEAN, id: Nat, known: Handle, target: Session \cup {None}]
FlushingCall ==
  [at: {"off", "pending", "chain", "last", "release", "released"}, sid: Session \cup {None},
   sync: Connect \cup {None}]
RefetchCall ==
  [at: {"off", "sent", "read"}, sid: Session \cup {None}, live: BOOLEAN, handle: Handle]

\* The variables of the hook, of its calls and of the leases have their types.
TypeOK ==
  /\ leases \in [Session -> [id: Nat, holder: Actor \cup {None}, handle: Handle]]
  /\ session \in Session \cup {None} /\ bound \in Session \cup {None}
  /\ connecting \in BOOLEAN
  /\ current \in Connect \cup {None} /\ listening \in Connect \cup {None}
  /\ connects \in [Connect -> ConnectCall]
  /\ syncs \in [Connect -> Sync] /\ \A c \in Connect : SyncOK(syncs[c])
  /\ newest \in [Connect -> HandleOrUnset]
  /\ calls \in [Call -> FlushingCall] /\ refetch \in RefetchCall
  /\ lost \subseteq Session
  /\ handles \in 0..MaxHandles /\ events \in 0..MaxEvents

\* Where a handle of a sync still is, other than in the lease.
Kept(sync) ==
  {sync.pending, sync.retry}
    \cup {sync.queue[i].handle : i \in {j \in DOMAIN sync.queue : ~sync.queue[j].stale}}
    \cup {write.handle : write \in sync.writes}

\* No other connect has a sync of the same lease.
Alone(c) ==
  \A d \in Connect \ {c} : <<connects[d].sid, connects[d].id>> # <<connects[c].sid, connects[c].id>>

\* The newest handle that the provider has given to the current sync is stored, or the sync
\* still has it to store: no order of normal writes, writes of a hidden page, retries, stale
\* answers and failures forgets it (resume-handle-sync.ts).
NewestHandleKept ==
  current # None /\ Alone(current) /\ newest[current] \notin {Null, Unset} =>
    newest[current] \in Kept(syncs[current]) \cup {leases[connects[current].sid].handle}

\* As long as one sync writes a lease, its handle is only ever replaced by a newer one, or
\* cleared: a late write of an older handle changes nothing, however the two transports
\* reorder the writes (setResumeHandle of lease-store.ts with the predecessors of
\* resume-handle-sync.ts).
HandlesMoveForward ==
  [][\A s \in Session :
       (\A c \in Connect :
          connects[c].sid = s /\ connects[c].id = leases[s].id => Alone(c) /\ newest[c] # Unset) =>
         leases'[s].handle = Null \/ leases'[s].handle >= leases[s].handle]_vars

\* A lease that this client holds is bound, so that cleanup can release it, or a call under
\* way is to bind or release it, or a call to acquire or release it has failed.
Accounted(s) == Holds(s, Me) => s \in {bound} \cup lost \/ InHand(s)

\* A lease in the hands of a call, superseded or not, ends up bound, released or taken by
\* another actor: it is only ever forgotten by what the binding itself goes through, never by
\* a call under way, in any order of the calls and their answers (use-voice-session.ts).
OnlyRebindingLosesLease ==
  [][\A s \in Session : Accounted(s) /\ ~ (bound = s /\ bound' # s) => Accounted(s)']_vars

\* Nor does the binding forget a lease: "cleanup must release the bound session", "Pin lease
\* owner before WS open so cleanup can release on failure paths" (use-voice-session.ts:109, 393).
LeaseIsAccountedFor == \A s \in Session : Accounted(s)

===============================================================================
