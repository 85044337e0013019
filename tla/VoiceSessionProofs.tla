-------------------------- MODULE VoiceSessionProofs --------------------------
(***************************************************************************)
(* Proofs about VoiceSession, in three parts: its types; that only the       *)
(* binding forgets a lease; and where its handles are. The last part first shows what  *)
(* each method of a sync keeps, whatever the lease has stored, and then that *)
(* every step of the hook either is quiet (it runs such methods and writes   *)
(* no lease) or is one of the few that bind, write or read a lease.          *)
(***************************************************************************)
EXTENDS VoiceSession, SequenceTheorems, WellFoundedInduction, TLAPS

\* A handle is one, or Unset.
LEMMA Handles ==
  /\ Handle \subseteq Int /\ HandleOrUnset = Handle \cup {Unset} /\ Unset \notin Handle
  /\ Null \in Handle /\ 0 \in Handle /\ 0..handles \subseteq Int
BY VoiceAssumption DEF Handle, HandleOrUnset, Unset, Null

LEMMA SetOfNaturalsHasMinimum ==
  ASSUME NEW T \in SUBSET Nat, T # {}
  PROVE  \E x \in T : \A y \in T : x <= y
<1> DEFINE R == {ss \in Nat \X Nat : ss[1] < ss[2]}
<1>1. IsWellFoundedOn(R, Nat)
  BY NatLessThanWellFounded, Zenon DEF OpToRel
<1>2. \E x \in T : \A y \in T : ~ (<<y, x>> \in R)
  <2> HIDE DEF R
  <2> QED
    BY <1>1, WFMin, Zenon
<1>3. \A x, y \in Nat : ~ (<<y, x>> \in R) => x <= y
  OBVIOUS
<1> QED
  BY <1>2, <1>3

-------------------------------------------------------------------------------
\* The methods of a sync keep its type.

LEMMA NewSyncOK == SyncOK(NewSync)
<1>1. NewSync.queue \in Seq(Entry)
  BY DEF NewSync
<1>2. NoPut \in Put
  BY Handles DEF NoPut, Put
<1> QED
  BY <1>1, <1>2, Handles DEF SyncOK, Sync, NewSync, NoPut

LEMMA AttemptOK ==
  ASSUME NEW sync \in Sync, NEW n \in 1..2, sync.queue # <<>>
  PROVE  SyncOK(Attempt(sync, n)) /\ Attempt(sync, n).queue = sync.queue
<1>1. NullIfUnset(sync.last) \in Handle
  BY Handles DEF NullIfUnset, Sync
<1>2. [at |-> "sent", expected |-> {NullIfUnset(sync.last)}, attempt |-> n, answer |-> Unset] \in Put
  BY <1>1, Handles DEF Put
<1>3. Attempt(sync, n) \in Sync /\ Attempt(sync, n).queue = sync.queue
  BY <1>2 DEF Attempt, Sync
<1> QED
  BY <1>3 DEF SyncOK

LEMMA StartOK == ASSUME NEW sync \in Sync, sync.put.at # "idle" => sync.queue # <<>>
                 PROVE  SyncOK(Start(sync))
<1> DEFINE writes == {i \in DOMAIN sync.queue :
                        ~sync.queue[i].stale /\ sync.queue[i].handle # sync.last}
           first == CHOOSE i \in writes : \A j \in writes : i <= j
           rest == [sync EXCEPT !.queue = SubSeq(@, first, Len(@))]
<1>q. sync.queue \in Seq(Entry)
  BY DEF Sync
<1>1. CASE sync.put.at # "idle"
  <2>1. Start(sync) = sync
    BY <1>1 DEF Start
  <2> QED
    BY <1>1, <2>1 DEF SyncOK
<1>2. CASE sync.put.at = "idle" /\ writes = {}
  <2>1. Start(sync) = [sync EXCEPT !.queue = <<>>]
    BY <1>2 DEF Start
  <2>2. <<>> \in Seq(Entry)
    OBVIOUS
  <2> QED
    BY <1>2, <2>1, <2>2 DEF SyncOK, Sync
<1>3. CASE sync.put.at = "idle" /\ writes # {}
  <2>1. writes \subseteq 1..Len(sync.queue) /\ writes \subseteq Nat
    BY <1>q
  <2>2. PICK i \in writes : \A j \in writes : i <= j
    <3> HIDE DEF writes
    <3> QED
      BY <1>3, <2>1, SetOfNaturalsHasMinimum
  <2>3. first \in writes
    <3> HIDE DEF writes
    <3> QED BY <2>2
  <2>4. first \in 1..Len(sync.queue)
    BY <2>1, <2>3
  <2> HIDE DEF first
  <2>5. SubSeq(sync.queue, first, Len(sync.queue)) \in Seq(Entry)
    BY <1>q, <2>4, SubSeqProperties
  <2>6. SubSeq(sync.queue, first, Len(sync.queue)) # <<>>
    <3>1. /\ Len(sync.queue) \in Nat /\ first \in Int /\ first <= Len(sync.queue)
          /\ \A k \in first..Len(sync.queue) : sync.queue[k] \in Entry
      BY <1>q, <2>4
    <3>2. Len(SubSeq(sync.queue, first, Len(sync.queue))) = Len(sync.queue) - first + 1
      BY <3>1, SubSeqProperties
    <3>3. \A q \in Seq(Entry) : Len(q) # 0 => q # <<>>
      OBVIOUS
    <3> DEFINE q == SubSeq(sync.queue, first, Len(sync.queue))
    <3>4. q \in Seq(Entry) /\ Len(q) # 0
      BY <2>5, <3>1, <3>2
    <3> HIDE DEF q
    <3>5. q # <<>>
      BY <3>3, <3>4
    <3> QED
      BY <3>5 DEF q
  <2>7. rest \in Sync /\ rest.queue # <<>>
    BY <2>5, <2>6 DEF Sync
  <2>8. Start(sync) = Attempt(rest, 1)
    BY <1>3 DEF Start, first
  <2> HIDE DEF rest
  <2> QED
    BY <2>7, <2>8, AttemptOK
<1> QED
  BY <1>1, <1>2, <1>3

LEMMA PersistOK ==
  ASSUME NEW sync, SyncOK(sync), NEW handle \in Handle, NEW waiter \in SUBSET (Call \cup Connect)
  PROVE  SyncOK(Persist(sync, handle, waiter))
<1> DEFINE entry == [handle |-> handle, stale |-> FALSE, waiters |-> waiter]
           longer == [sync EXCEPT !.queue = Append(@, entry)]
<1>1. entry \in Entry
  BY DEF Entry
<1>2. sync.queue \in Seq(Entry)
  BY DEF SyncOK, Sync
<1>3. Append(sync.queue, entry) \in Seq(Entry) /\ Append(sync.queue, entry) # <<>>
  BY <1>1, <1>2, AppendProperties
<1>4. longer \in Sync /\ longer.queue # <<>>
  BY <1>3 DEF SyncOK, Sync
<1>5. Persist(sync, handle, waiter) = Start(longer)
  BY DEF Persist
<1> QED
  BY <1>4, <1>5, StartOK

LEMMA AwaitOK ==
  ASSUME NEW sync, SyncOK(sync), NEW waiter \in Call \cup Connect
  PROVE  SyncOK(Await(sync, waiter))
<1>1. CASE sync.queue = <<>>
  BY <1>1 DEF Await
<1>2. CASE sync.queue # <<>>
  <2> DEFINE n == Len(sync.queue)
             entry == [sync.queue[n] EXCEPT !.waiters = @ \cup {waiter}]
             longer == [sync.queue EXCEPT ![n] = entry]
  <2>1. sync.queue \in Seq(Entry)
    BY DEF SyncOK, Sync
  <2>2. n \in 1..Len(sync.queue)
    BY <1>2, <2>1
  <2>3. entry \in Entry
    <3>1. sync.queue[n] \in Entry
      BY <2>1, <2>2
    <3> QED
      BY <3>1 DEF Entry
  <2>4. longer \in Seq(Entry) /\ Len(longer) = Len(sync.queue)
    BY <2>1, <2>2, <2>3, ExceptSeq
  <2>5. longer # <<>>
    BY <2>2, <2>4
  <2>6. Await(sync, waiter) = [sync EXCEPT !.queue = longer]
    BY <1>2 DEF Await
  <2> HIDE DEF longer
  <2> QED
    BY <2>4, <2>5, <2>6 DEF SyncOK, Sync
<1> QED
  BY <1>1, <1>2

LEMMA SettleOK ==
  ASSUME NEW sync, SyncOK(sync), sync.put.at # "idle"
  PROVE  SyncOK(Settle(sync))
<1> DEFINE settled == [sync EXCEPT !.queue = Tail(@), !.put = NoPut]
<1>1. sync.queue \in Seq(Entry) /\ sync.queue # <<>>
  BY DEF SyncOK, Sync
<1>2. Tail(sync.queue) \in Seq(Entry)
  BY <1>1, HeadTailProperties
<1>3. NoPut \in Put
  BY Handles DEF NoPut, Put
<1>4. settled \in Sync /\ settled.put.at = "idle"
  BY <1>2, <1>3 DEF SyncOK, Sync, NoPut
<1> QED
  BY <1>4, StartOK DEF Settle

LEMMA NoteKnownOK ==
  ASSUME NEW sync, SyncOK(sync), NEW handle \in Handle
  PROVE  SyncOK(NoteKnown(sync, handle))
BY Handles DEF NoteKnown, SyncOK, Sync

LEMMA ScheduleOK ==
  ASSUME NEW sync, SyncOK(sync), NEW handle \in Handle
  PROVE  SyncOK(Schedule(sync, handle))
BY Handles DEF Schedule, SyncOK, Sync

LEMMA FireOK ==
  ASSUME NEW sync, SyncOK(sync)
  PROVE  SyncOK(Fire(sync))
<1> DEFINE off == [sync EXCEPT !.timer = "off"]
<1>1. SyncOK(off) /\ SyncOK([off EXCEPT !.pending = Unset]) /\ SyncOK([off EXCEPT !.retry = Unset])
  BY Handles DEF SyncOK, Sync
<1>2. /\ sync.pending # Unset => sync.pending \in Handle
      /\ sync.retry # Unset => sync.retry \in Handle
  BY Handles DEF SyncOK, Sync
<1>3. {} \in SUBSET (Call \cup Connect)
  OBVIOUS
<1>4. CASE sync.timer = "write" /\ sync.pending # Unset
  <2>1. Fire(sync) = Persist([off EXCEPT !.pending = Unset], sync.pending, {})
    BY <1>4 DEF Fire
  <2> QED
    BY <1>1, <1>2, <1>3, <1>4, <2>1, PersistOK
<1>5. CASE sync.timer = "retry" /\ sync.retry # Unset /\ sync.retry = sync.latest
  <2>1. Fire(sync) = Persist([off EXCEPT !.retry = Unset], sync.retry, {})
    BY <1>5 DEF Fire
  <2> QED
    BY <1>1, <1>2, <1>3, <1>5, <2>1, PersistOK
<1>6. CASE ~(sync.timer = "write" /\ sync.pending # Unset)
           /\ ~(sync.timer = "retry" /\ sync.retry # Unset /\ sync.retry = sync.latest)
  <2>1. Fire(sync) = off
    BY <1>6 DEF Fire
  <2> QED
    BY <1>1, <2>1
<1> QED
  BY <1>4, <1>5, <1>6

LEMMA HeadOK ==
  ASSUME NEW sync, SyncOK(sync), sync.put.at # "idle"
  PROVE  Head(sync.queue) \in Entry /\ Head(sync.queue).handle \in Handle
<1>1. sync.queue \in Seq(Entry) /\ sync.queue # <<>>
  BY DEF SyncOK, Sync
<1>2. Head(sync.queue) \in Entry
  BY <1>1, HeadTailProperties
<1> QED
  BY <1>2 DEF Entry

LEMMA PutAnsweredOK ==
  ASSUME NEW sync, SyncOK(sync), sync.put.at # "idle", sync.put.answer # Unset
  PROVE  SyncOK(PutAnswered(sync))
<1> DEFINE head == Head(sync.queue)
           told == [sync EXCEPT !.last = sync.put.answer]
           kept == [told EXCEPT !.pending = IF @ = Unset THEN head.handle ELSE @]
<1>1. head.handle \in Handle
  BY HeadOK
<1>2. sync.put.answer \in HandleOrUnset
  BY DEF SyncOK, Sync, Put
<1>3. SyncOK(told) /\ told.put.at # "idle" /\ told.queue # <<>>
  BY <1>2 DEF SyncOK, Sync
<1>4. SyncOK(kept) /\ kept.put.at # "idle"
  <2> HIDE DEF head
  <2> QED BY <1>1, <1>2, Handles DEF SyncOK, Sync
<1>5. SyncOK(Settle(told)) /\ SyncOK(Settle(kept)) /\ SyncOK(Attempt(told, 2))
  <2> HIDE DEF told, kept
  <2>1. told \in Sync
    BY <1>3 DEF SyncOK
  <2> QED BY <1>3, <1>4, <2>1, SettleOK, AttemptOK
<1>6. PutAnswered(sync) \in {Settle(told), Settle(kept), Attempt(told, 2)}
  BY DEF PutAnswered
<1> QED
  BY <1>5, <1>6

LEMMA PutFailedOK ==
  ASSUME NEW sync, SyncOK(sync), sync.put.at # "idle"
  PROVE  SyncOK(PutFailed(sync))
<1> DEFINE again == [sync EXCEPT !.pending = Head(sync.queue).handle, !.timer = "write"]
<1>1. SyncOK(again) /\ again.put.at # "idle"
  BY HeadOK, Handles DEF SyncOK, Sync
<1>2. PutFailed(sync) \in {Settle(again), Settle(sync)}
  BY DEF PutFailed
<1> QED
  BY <1>1, <1>2, SettleOK

LEMMA FlushForLifecycleOK ==
  ASSUME NEW sync, SyncOK(sync)
  PROVE  SyncOK(FlushForLifecycle(sync))
<1> DEFINE handle == LifecycleHandle(sync)
           write == [handle |-> handle, at |-> "sent", expected |-> Predecessors(sync),
                     answer |-> Unset]
           old == [i \in DOMAIN sync.queue |-> [sync.queue[i] EXCEPT !.stale = TRUE]]
<1>1. SyncOK(Hidden(sync)) /\ Hidden(sync).writes = sync.writes /\ Hidden(sync).queue = sync.queue
      /\ Hidden(sync).put = sync.put
  BY Handles DEF Hidden, SyncOK, Sync
<1>2. CASE ~WritesLifecycle(sync)
  BY <1>1, <1>2 DEF FlushForLifecycle
<1>3. CASE WritesLifecycle(sync)
  <2>1. handle \in Handle
    BY <1>3, Handles DEF WritesLifecycle, LifecycleHandle, SyncOK, Sync
  <2>2. NullIfUnset(sync.last) \in Handle
    BY Handles DEF NullIfUnset, SyncOK, Sync
  <2>3. InFlight(sync) \subseteq Handle
    BY HeadOK DEF InFlight, SyncOK, Sync, Write
  <2>4. write \in Write
    BY <2>1, <2>2, <2>3, Handles DEF Write, Predecessors
  <2>5. sync.queue \in Seq(Entry)
    BY DEF SyncOK, Sync
  <2>6. old \in Seq(Entry) /\ Len(old) = Len(sync.queue)
    <3>1. \A e \in Entry : [e EXCEPT !.stale = TRUE] \in Entry
      BY DEF Entry
    <3>2. DOMAIN sync.queue = 1..Len(sync.queue) /\ Len(sync.queue) \in Nat
      BY <2>5
    <3>3. \A i \in 1..Len(sync.queue) : [sync.queue[i] EXCEPT !.stale = TRUE] \in Entry
      BY <2>5, <3>1
    <3>4. old = [i \in 1..Len(sync.queue) |-> [sync.queue[i] EXCEPT !.stale = TRUE]]
      BY <3>2
    <3> HIDE DEF old
    <3> QED
      BY <3>2, <3>3, <3>4
  <2>7. old = <<>> => sync.queue = <<>>
    BY <2>5, <2>6
  <2>8. FlushForLifecycle(sync) =
          [Hidden(sync) EXCEPT !.writes = sync.writes \cup {write}, !.queue = old]
    BY <1>1, <1>3 DEF FlushForLifecycle
  <2> HIDE DEF old, write
  <2>9. Hidden(sync) \in Sync /\ sync.writes \cup {write} \in SUBSET Write
    BY <1>1, <2>4 DEF SyncOK, Sync
  <2>10. FlushForLifecycle(sync) \in Sync
    BY <2>6, <2>8, <2>9 DEF Sync
  <2>11. /\ FlushForLifecycle(sync).put = sync.put
         /\ FlushForLifecycle(sync).queue = old
    BY <1>1, <2>8, <2>9 DEF Sync
  <2> QED
    BY <2>7, <2>10, <2>11 DEF SyncOK
<1> QED
  BY <1>2, <1>3

LEMMA LifecycleReturnedOK ==
  ASSUME NEW sync, SyncOK(sync), NEW write \in sync.writes
  PROVE  /\ SyncOK(LifecycleFailed(sync, write))
         /\ SyncOK(LifecycleAnswered(sync, write))
<1>1. write.handle \in Handle /\ write.answer \in HandleOrUnset
  BY DEF SyncOK, Sync, Write
<1>2. \A some : SyncOK(some) => SyncOK(QueueRetry(some, write.handle))
  BY <1>1, Handles, ZenonT(30) DEF SyncOK, Sync, QueueRetry
<1>3. SyncOK([sync EXCEPT !.writes = @ \ {write}])
  BY DEF SyncOK, Sync
<1>4. SyncOK([sync EXCEPT !.last = write.answer, !.writes = @ \ {write}])
  BY <1>1 DEF SyncOK, Sync
<1>5. SyncOK([[sync EXCEPT !.last = write.answer, !.writes = @ \ {write}] EXCEPT !.retry = Unset])
  BY <1>4, Handles DEF SyncOK, Sync
<1>6. SyncOK(LifecycleFailed(sync, write))
  BY <1>2, <1>3 DEF LifecycleFailed
<1>7. SyncOK(LifecycleAnswered(sync, write))
  BY <1>2, <1>4, <1>5 DEF LifecycleAnswered
<1> QED
  BY <1>6, <1>7

LEMMA FlushPartsOK ==
  ASSUME NEW sync, SyncOK(sync), NEW waiter \in Call \cup Connect
  PROVE  /\ SyncOK(FlushPending(sync, waiter))
         /\ SyncOK(FlushRetry(sync, waiter))
         /\ SyncOK(ClearRemote(sync, waiter))
         /\ SyncOK(Dispose(sync))
<1>1. {waiter} \in SUBSET (Call \cup Connect)
  OBVIOUS
<1>2. SyncOK([sync EXCEPT !.timer = "off", !.pending = Unset])
  BY Handles DEF SyncOK, Sync
<1>3. SyncOK([sync EXCEPT !.timer = "off", !.retry = Unset])
  BY Handles DEF SyncOK, Sync
<1>4. SyncOK([sync EXCEPT !.timer = "off", !.pending = Unset, !.latest = 0])
  BY Handles DEF SyncOK, Sync
<1>5. /\ sync.pending # Unset => sync.pending \in Handle
      /\ sync.retry # Unset => sync.retry \in Handle
  BY Handles DEF SyncOK, Sync
<1>6. SyncOK(FlushPending(sync, waiter))
  BY <1>1, <1>2, <1>5, PersistOK DEF FlushPending
<1>7. SyncOK(FlushRetry(sync, waiter))
  BY <1>1, <1>3, <1>5, PersistOK DEF FlushRetry
<1>8. SyncOK(ClearRemote(sync, waiter))
  BY <1>1, <1>4, Handles, PersistOK DEF ClearRemote
<1>9. SyncOK(Dispose(sync))
  BY Handles DEF Dispose, SyncOK, Sync
<1> QED
  BY <1>6, <1>7, <1>8, <1>9

LEMMA PutToldOK ==
  ASSUME NEW sync, SyncOK(sync), sync.put.at # "idle", NEW told \in HandleOrUnset
  PROVE  SyncOK([sync EXCEPT !.put = [@ EXCEPT !.at = "told", !.answer = told]])
BY DEF SyncOK, Sync, Put

LEMMA WriteToldOK ==
  ASSUME NEW sync, SyncOK(sync), NEW write \in sync.writes, NEW told \in HandleOrUnset
  PROVE  SyncOK([sync EXCEPT !.writes =
                   (@ \ {write}) \cup {[write EXCEPT !.at = "told", !.answer = told]}])
BY DEF SyncOK, Sync, Write

-------------------------------------------------------------------------------
\* Types.

\* The calls that ask the server about a session know it.
CallsKnowSession ==
  /\ \A c \in Connect : At(c) # "idle" => connects[c].sid \in Session
  /\ \A c \in Connect : At(c) = "release" => connects[c].target \in Session
  /\ calls["disconnect"].at # "off" => calls["disconnect"].sid \in Session
  /\ refetch.at # "off" => refetch.sid \in Session

TypeInv == TypeOK /\ CallsKnowSession

LEMMA NothingInNone == None \notin Session /\ None \notin Connect /\ None \notin Actor
                       /\ Me \in Actor /\ Other \in Actor
BY VoiceAssumption

LEMMA InitTypeInv == Init => TypeInv
<1> SUFFICES ASSUME Init PROVE TypeInv
  OBVIOUS
<1>1. leases \in [Session -> [id: Nat, holder: Actor \cup {None}, handle: Handle]]
  BY Handles DEF Init, NoLease
<1>2. connects \in [Connect -> ConnectCall] /\ \A c \in Connect : At(c) = "idle"
  BY Handles DEF Init, NoConnect, ConnectCall, At
<1>3. syncs \in [Connect -> Sync] /\ \A c \in Connect : SyncOK(syncs[c])
  BY NewSyncOK DEF Init, SyncOK
<1>4. calls \in [Call -> FlushingCall] /\ refetch \in RefetchCall
  BY Handles DEF Init, NoCall, NoRefetch, FlushingCall, RefetchCall
<1>5. newest \in [Connect -> HandleOrUnset]
  BY Handles DEF Init
<1>6. TypeOK
  <2>1. handles \in 0..MaxHandles /\ events \in 0..MaxEvents
    BY VoiceAssumption DEF Init
  <2>2. connecting \in BOOLEAN
    BY DEF Init
  <2>3. /\ session \in Session \cup {None} /\ bound \in Session \cup {None}
        /\ current \in Connect \cup {None} /\ listening \in Connect \cup {None}
        /\ lost \subseteq Session
    BY DEF Init
  <2> QED
    BY <1>1, <1>2, <1>3, <1>4, <1>5, <2>1, <2>2, <2>3 DEF TypeOK
<1>7. CallsKnowSession
  BY <1>2 DEF CallsKnowSession, Init, NoCall, NoRefetch, Call
<1> QED
  BY <1>6, <1>7 DEF TypeInv

LEMMA EventType == ASSUME TypeOK, Event PROVE events' \in 0..MaxEvents
BY VoiceAssumption DEF Event, TypeOK

LEMMA UnbindType == ASSUME TypeOK, NEW s, Unbind(s) PROVE bound' \in Session \cup {None}
BY DEF TypeOK, Unbind

\* What the calls of the server do to the leases.
LEMMA LeaseType ==
  ASSUME TypeOK, NEW s, NEW a \in Actor, NEW id, NEW expected, NEW handle \in Handle,
         \/ Acquire(s, a) \/ Release(s, a, None) \/ Ends(s, None)
         \/ SetResumeHandle(s, a, id, expected, handle)
         \/ UNCHANGED leases
  PROVE  leases' \in [Session -> [id: Nat, holder: Actor \cup {None}, handle: Handle]]
BY NothingInNone
   DEF TypeOK, Acquire, Release, Ends, SetResumeHandle

LEMMA FailedCallType ==
  ASSUME TypeOK, NEW s \in Session,
         FailedCall(s, Release(s, Me, None)) \/ FailedCall(s, Acquire(s, Me))
  PROVE  /\ events' \in 0..MaxEvents /\ lost' \subseteq Session
         /\ leases' \in [Session -> [id: Nat, holder: Actor \cup {None}, handle: Handle]]
<1>1. Event /\ lost' = lost \cup {s}
  BY DEF FailedCall
<1>2. Release(s, Me, None) \/ Acquire(s, Me) \/ UNCHANGED leases
  BY DEF FailedCall
<1>3. leases' \in [Session -> [id: Nat, holder: Actor \cup {None}, handle: Handle]]
  BY <1>2, LeaseType, NothingInNone, Handles
<1> QED
  BY <1>1, <1>3, EventType DEF TypeOK

\* Only the place where a connect is changes.
LEMMA GoesType ==
  ASSUME TypeInv, NEW c \in Connect, At(c) # "idle", Goes(c, "open") \/ Goes(c, "reopen")
           \/ Goes(c, "token") \/ Goes(c, "retoken") \/ Goes(c, "drop") \/ Goes(c, "done")
           \/ Goes(c, "catch") \/ Goes(c, "clear") \/ Goes(c, "media") \/ Goes(c, "complete")
           \/ Goes(c, "released")
  PROVE  /\ connects' \in [Connect -> ConnectCall]
         /\ \A d \in Connect : connects'[d].at # "idle" => connects'[d].sid \in Session
         /\ \A d \in Connect : connects'[d].at = "release" => connects'[d].target \in Session
<1>1. connects \in [Connect -> ConnectCall]
  BY DEF TypeInv, TypeOK
<1>2. PICK at \in {"open", "reopen", "token", "retoken", "drop", "done", "catch", "clear",
                   "media", "complete", "released"} : Goes(c, at)
  OBVIOUS
<1>3. connects' = [connects EXCEPT ![c] = [connects[c] EXCEPT !.at = at]]
  BY <1>2 DEF Goes
<1>4. [connects[c] EXCEPT !.at = at] \in ConnectCall
  BY <1>1, <1>2 DEF ConnectCall
<1>5. connects' \in [Connect -> ConnectCall]
  BY <1>1, <1>3, <1>4
<1>6. connects'[c] = [connects[c] EXCEPT !.at = at]
  BY <1>1, <1>3
<1>7. connects'[c].at = at /\ connects'[c].sid = connects[c].sid
  BY <1>1, <1>6 DEF ConnectCall
<1>8. \A d \in Connect \ {c} : connects'[d] = connects[d]
  BY <1>1, <1>3
<1> QED
  BY <1>2, <1>5, <1>7, <1>8 DEF TypeInv, CallsKnowSession, At

\* Only one sync changes.
LEMMA SyncsType ==
  ASSUME TypeOK, NEW c, NEW sync, c \in Connect => SyncOK(sync),
         syncs' = [syncs EXCEPT ![c] = sync]
  PROVE  syncs' \in [Connect -> Sync] /\ \A d \in Connect : SyncOK(syncs'[d])
BY DEF TypeOK, SyncOK

LEMMA SyncsAre == ASSUME TypeOK, NEW c \in Connect PROVE SyncOK(syncs[c])
BY DEF TypeOK

-------------------------------------------------------------------------------
\* The steps of disconnect and suspend.

ConnectsKnow(now) ==
  /\ now \in [Connect -> ConnectCall]
  /\ \A d \in Connect : now[d].at # "idle" => now[d].sid \in Session
  /\ \A d \in Connect : now[d].at = "release" => now[d].target \in Session

LEMMA ConnectsDoKnow == ASSUME TypeInv PROVE ConnectsKnow(connects) /\ ConnectsKnow(Superseded)
<1>1. ConnectsKnow(connects)
  BY DEF TypeInv, TypeOK, CallsKnowSession, ConnectsKnow, At
<1>2. \A d \in Connect : [connects[d] EXCEPT !.live = FALSE] \in ConnectCall
  BY ZenonT(30) DEF TypeInv, TypeOK, ConnectCall
<1>3. \A d \in Connect : /\ Superseded[d].at = connects[d].at
                         /\ Superseded[d].sid = connects[d].sid
                         /\ Superseded[d].target = connects[d].target
  BY DEF TypeInv, TypeOK, ConnectCall, Superseded
<1>4. Superseded \in [Connect -> ConnectCall]
  BY <1>2 DEF Superseded
<1> QED
  BY <1>1, <1>3, <1>4 DEF ConnectsKnow

LEMMA FlushStartedType ==
  ASSUME TypeOK, NEW f \in Call
  PROVE  /\ FlushStarted(f) \in [Connect -> Sync]
         /\ \A d \in Connect : SyncOK(FlushStarted(f)[d])
         /\ StartFlush \in FlushingCall
<1>1. \A d \in Connect : SyncOK(FlushPending(syncs[d], f)) /\ SyncOK(Await(FlushPending(syncs[d], f), f))
  BY SyncsAre, FlushPartsOK, AwaitOK
<1>2. \A d \in Connect : SyncOK(syncs[d]) /\ syncs[d] \in Sync
  BY SyncsAre DEF SyncOK
<1>3. /\ FlushStarted(f) \in [Connect -> Sync]
      /\ \A d \in Connect : SyncOK(FlushStarted(f)[d])
  BY <1>1, <1>2 DEF FlushStarted, TypeOK, SyncOK
<1>4. StartFlush \in FlushingCall
  BY DEF StartFlush, NoCall, FlushingCall, TypeOK
<1> QED
  BY <1>3, <1>4

LEMMA StartDisconnectType ==
  ASSUME TypeInv, NEW now, ConnectsKnow(now), NEW others \in [Call -> FlushingCall],
         others["disconnect"] = calls["disconnect"],
         StartDisconnect(now, others)
  PROVE  /\ connects' = now
         /\ calls' \in [Call -> FlushingCall]
         /\ calls'["disconnect"].at # "off" => calls'["disconnect"].sid \in Session
         /\ syncs' \in [Connect -> Sync] /\ \A d \in Connect : SyncOK(syncs'[d])
         /\ current' \in Connect \cup {None} /\ listening' \in Connect \cup {None}
<1>1. "disconnect" \in Call
  BY DEF Call
<1>2. \A d \in Connect : SyncOK(Dispose(syncs[d])) /\ SyncOK(syncs[d])
  BY <1>1, SyncsAre, FlushPartsOK DEF TypeInv
<1>3. CASE Returns
  BY <1>3, <1>2 DEF StartDisconnect, Returns, TypeInv, TypeOK, CallsKnowSession
<1>4. CASE ~Returns /\ bound = None
  <2>1. DisposeCurrent(syncs) \in [Connect -> Sync]
        /\ \A d \in Connect : SyncOK(DisposeCurrent(syncs)[d])
    BY <1>2 DEF DisposeCurrent, TypeInv, TypeOK, SyncOK
  <2> QED
    BY <1>4, <2>1 DEF StartDisconnect, Returns, TypeInv, TypeOK, CallsKnowSession
<1>5. CASE ~Returns /\ bound # None
  <2> DEFINE call == [StartFlush EXCEPT !.sid = bound]
  <2>1. FlushStarted("disconnect") \in [Connect -> Sync]
        /\ (\A d \in Connect : SyncOK(FlushStarted("disconnect")[d]))
        /\ StartFlush \in FlushingCall
    BY <1>1, FlushStartedType DEF TypeInv
  <2>2. bound \in Session
    BY <1>5 DEF TypeInv, TypeOK
  <2>3. call \in FlushingCall /\ call.sid = bound
    <3>1. \A x \in FlushingCall : /\ [x EXCEPT !.sid = bound] \in FlushingCall
                                  /\ [x EXCEPT !.sid = bound].sid = bound
      BY <2>2 DEF FlushingCall
    <3> QED
      BY <2>1, <3>1
  <2>4. /\ connects' = now /\ calls' = [others EXCEPT !["disconnect"] = call]
        /\ syncs' = FlushStarted("disconnect") /\ listening' = None /\ UNCHANGED current
    BY <1>5 DEF StartDisconnect
  <2> HIDE DEF call
  <2>5. calls' \in [Call -> FlushingCall] /\ calls'["disconnect"] = call
    BY <1>1, <2>3, <2>4
  <2> QED
    BY <2>1, <2>2, <2>3, <2>4, <2>5 DEF TypeInv, TypeOK
<1> QED
  BY <1>3, <1>4, <1>5 DEF StartDisconnect

LEMMA DisconnectType == ASSUME TypeInv, Disconnect PROVE TypeInv'
<1>1. /\ connects' = connects
      /\ calls' \in [Call -> FlushingCall]
      /\ calls'["disconnect"].at # "off" => calls'["disconnect"].sid \in Session
      /\ syncs' \in [Connect -> Sync] /\ \A d \in Connect : SyncOK(syncs'[d])
      /\ current' \in Connect \cup {None} /\ listening' \in Connect \cup {None}
  BY ConnectsDoKnow, StartDisconnectType DEF Disconnect, TypeInv, TypeOK
<1>2. events' \in 0..MaxEvents
  BY EventType DEF Disconnect, TypeInv
<1>3. connecting' \in BOOLEAN
  BY DEF Disconnect, ConnectingAfter
<1> QED
  BY <1>1, <1>2, <1>3 DEF Disconnect, TypeInv, TypeOK, CallsKnowSession, At

LEMMA RefetchSupersededType ==
  ASSUME TypeInv, RefetchSuperseded
  PROVE  refetch' \in RefetchCall /\ (refetch'.at # "off" => refetch'.sid \in Session)
BY DEF TypeInv, TypeOK, CallsKnowSession, RefetchSuperseded, RefetchCall

LEMMA SwitchType == ASSUME TypeInv, NEW s \in Session \cup {None}, Switch(s) PROVE TypeInv'
<1>1. /\ connects' = Superseded
      /\ calls' \in [Call -> FlushingCall]
      /\ calls'["disconnect"].at # "off" => calls'["disconnect"].sid \in Session
      /\ syncs' \in [Connect -> Sync] /\ \A d \in Connect : SyncOK(syncs'[d])
      /\ current' \in Connect \cup {None} /\ listening' \in Connect \cup {None}
  BY ConnectsDoKnow, StartDisconnectType DEF Switch, TypeInv, TypeOK
<1>2. events' \in 0..MaxEvents
  BY EventType DEF Switch, TypeInv
<1>3. refetch' \in RefetchCall /\ (refetch'.at # "off" => refetch'.sid \in Session)
  BY RefetchSupersededType DEF Switch
<1>4. ConnectsKnow(connects')
  BY <1>1, ConnectsDoKnow
<1>5. session' \in Session \cup {None} /\ connecting' = FALSE
      /\ UNCHANGED <<leases, bound, newest, lost, handles>>
  BY DEF Switch
<1> QED
  BY <1>1, <1>2, <1>3, <1>4, <1>5 DEF TypeInv, TypeOK, CallsKnowSession, ConnectsKnow, At

LEMMA FlushType == ASSUME TypeInv, NEW f \in Call, Flush(f) PROVE TypeInv'
<1>1. calls[f].sync \in Connect /\ calls[f] \in FlushingCall
  BY NothingInNone DEF Flush, TypeInv, TypeOK, FlushingCall
<1>2. SyncOK(syncs[calls[f].sync])
  BY <1>1, SyncsAre DEF TypeInv
<1>3. PICK at, result :
        /\ at \in {"chain", "last"} /\ SyncOK(result)
        /\ calls' = [calls EXCEPT ![f] = [calls[f] EXCEPT !.at = at]]
        /\ syncs' = [syncs EXCEPT ![calls[f].sync] = result]
        /\ calls[f].at # "off"
  <2>1. SyncOK(Await(syncs[calls[f].sync], f))
    BY <1>2, AwaitOK
  <2>2. SyncOK(Await(FlushRetry(syncs[calls[f].sync], f), f))
    BY <1>2, AwaitOK, FlushPartsOK
  <2> QED
    BY <2>1, <2>2 DEF Flush
<1>4. syncs' \in [Connect -> Sync] /\ \A d \in Connect : SyncOK(syncs'[d])
  BY <1>3, SyncsType DEF TypeInv
<1>5. [calls[f] EXCEPT !.at = at] \in FlushingCall /\ [calls[f] EXCEPT !.at = at].sid = calls[f].sid
  BY <1>1, <1>3 DEF FlushingCall
<1>6. calls' \in [Call -> FlushingCall]
  BY <1>3, <1>5 DEF TypeInv, TypeOK
<1>7. calls'["disconnect"].at # "off" => calls'["disconnect"].sid \in Session
  BY <1>3, <1>5 DEF TypeInv, TypeOK, CallsKnowSession, Call
<1>8. UNCHANGED <<leases, session, bound, connecting, current, listening, connects, newest,
                  refetch, lost, handles, events>>
  BY DEF Flush, client, bounds
<1> QED
  BY <1>4, <1>6, <1>7, <1>8 DEF TypeInv, TypeOK, CallsKnowSession, At

\* Only the place where the disconnect is changes.
LEMMA DisconnectGoes ==
  ASSUME TypeInv, NEW at \in {"release", "released"}, calls["disconnect"].at # "off",
         calls' = [calls EXCEPT !["disconnect"].at = at]
  PROVE  /\ calls' \in [Call -> FlushingCall]
         /\ calls'["disconnect"].sid \in Session
<1>1. calls["disconnect"] \in FlushingCall /\ "disconnect" \in Call
  BY DEF TypeInv, TypeOK, Call
<1>2. /\ [calls["disconnect"] EXCEPT !.at = at] \in FlushingCall
      /\ [calls["disconnect"] EXCEPT !.at = at].sid = calls["disconnect"].sid
  BY <1>1 DEF FlushingCall
<1>3. calls["disconnect"].sid \in Session
  BY DEF TypeInv, CallsKnowSession
<1> QED
  BY <1>1, <1>2, <1>3 DEF TypeInv, TypeOK

LEMMA DisconnectCloseType == ASSUME TypeInv, DisconnectClose PROVE TypeInv'
<1>1. calls["disconnect"] \in FlushingCall /\ "disconnect" \in Call
  BY DEF TypeInv, TypeOK, Call
<1>2. calls["disconnect"].at = "last"
  BY DEF DisconnectClose, Flushed
<1>3. calls' \in [Call -> FlushingCall] /\ calls'["disconnect"].sid \in Session
  BY <1>2, DisconnectGoes DEF DisconnectClose
<1>4. calls["disconnect"].sync # None => calls["disconnect"].sync \in Connect
  BY <1>1 DEF FlushingCall
<1>5. \A d \in Connect : SyncOK(Dispose(syncs[d]))
  BY <1>1, SyncsAre, FlushPartsOK DEF TypeInv
<1>6. syncs' \in [Connect -> Sync] /\ \A d \in Connect : SyncOK(syncs'[d])
  <2>1. CASE calls["disconnect"].sync = None
    BY <2>1 DEF DisconnectClose, TypeInv, TypeOK
  <2>2. CASE calls["disconnect"].sync # None
    BY <2>2, <1>4, <1>5, SyncsType DEF DisconnectClose, TypeInv
  <2> QED
    BY <2>1, <2>2
<1>7. current' \in Connect \cup {None}
  BY DEF DisconnectClose, TypeInv, TypeOK
<1> QED
  BY <1>3, <1>6, <1>7
     DEF DisconnectClose, TypeInv, TypeOK, CallsKnowSession, At, client, bounds

LEMMA DisconnectReleaseType == ASSUME TypeInv, DisconnectRelease PROVE TypeInv'
<1>1. calls["disconnect"].at = "release" /\ calls["disconnect"].sid \in Session
  BY DEF DisconnectRelease, TypeInv, CallsKnowSession
<1>2. calls' \in [Call -> FlushingCall] /\ calls'["disconnect"].sid \in Session
  BY <1>1, DisconnectGoes DEF DisconnectRelease
<1>3. /\ events' \in 0..MaxEvents /\ lost' \subseteq Session
      /\ leases' \in [Session -> [id: Nat, holder: Actor \cup {None}, handle: Handle]]
  <2>1. CASE Release(calls["disconnect"].sid, Me, None) /\ UNCHANGED <<lost, events>>
    BY <2>1, LeaseType, NothingInNone, Handles DEF TypeInv, TypeOK
  <2>2. CASE FailedCall(calls["disconnect"].sid, Release(calls["disconnect"].sid, Me, None))
    BY <1>1, <2>2, FailedCallType DEF TypeInv
  <2> QED
    BY <2>1, <2>2 DEF DisconnectRelease
<1> QED
  BY <1>2, <1>3
     DEF DisconnectRelease, TypeInv, TypeOK, CallsKnowSession, At, client, bounds

LEMMA DisconnectDoneType == ASSUME TypeInv, DisconnectDone PROVE TypeInv'
<1>1. calls["disconnect"].at = "released" /\ calls["disconnect"].sid \in Session
  BY DEF DisconnectDone, TypeInv, CallsKnowSession
<1>2. NoCall \in FlushingCall /\ NoCall.at = "off" /\ "disconnect" \in Call
  BY DEF NoCall, FlushingCall, Call
<1>3. calls' \in [Call -> FlushingCall] /\ calls'["disconnect"].at = "off"
  BY <1>2 DEF DisconnectDone, TypeInv, TypeOK
<1>4. bound' \in Session \cup {None} /\ lost' \subseteq Session
  BY <1>1, UnbindType DEF DisconnectDone, TypeInv, TypeOK
<1>5. connecting' \in BOOLEAN
  BY DEF DisconnectDone
<1>6. ConnectsKnow(connects')
  <2>1. \A d \in Connect :
          /\ connects[d] \in ConnectCall
          /\ [connects[d] EXCEPT !.at = "acquire", !.live = TRUE] \in ConnectCall
          /\ [connects[d] EXCEPT !.at = "acquire", !.live = TRUE].sid = connects[d].sid
          /\ [connects[d] EXCEPT !.at = "acquire", !.live = TRUE].at = "acquire"
    BY ZenonT(30) DEF TypeInv, TypeOK, ConnectCall
  <2>2. \A d \in Connect :
          connects'[d] = IF At(d) = "retarget"
                         THEN [connects[d] EXCEPT !.at = "acquire", !.live = TRUE]
                         ELSE connects[d]
    BY DEF DisconnectDone
  <2>3. connects' \in [Connect -> ConnectCall]
    BY <2>1 DEF DisconnectDone
  <2>4. \A d \in Connect : At(d) # "idle" => connects[d].sid \in Session
    BY DEF TypeInv, CallsKnowSession
  <2>5. \A d \in Connect : At(d) = "release" => connects[d].target \in Session
    BY DEF TypeInv, CallsKnowSession
  <2> QED
    BY <2>1, <2>2, <2>3, <2>4, <2>5 DEF ConnectsKnow, At
<1>7. UNCHANGED <<leases, session, current, listening, syncs, newest, refetch, handles, events>>
  BY DEF DisconnectDone, bounds
<1> QED
  BY <1>3, <1>4, <1>5, <1>6, <1>7 DEF TypeInv, TypeOK, CallsKnowSession, ConnectsKnow, At

LEMMA SuspendType == ASSUME TypeInv, Suspend PROVE TypeInv'
<1>1. "suspend" \in Call /\ "suspend" # "disconnect"
  BY DEF Call
<1>2. FlushStarted("suspend") \in [Connect -> Sync]
      /\ (\A d \in Connect : SyncOK(FlushStarted("suspend")[d])) /\ StartFlush \in FlushingCall
  BY <1>1, FlushStartedType DEF TypeInv
<1>3. calls' \in [Call -> FlushingCall] /\ calls'["disconnect"] = calls["disconnect"]
  BY <1>1, <1>2 DEF Suspend, TypeInv, TypeOK, Call
<1>4. events' \in 0..MaxEvents
  BY EventType DEF Suspend, TypeInv
<1>5. syncs' = FlushStarted("suspend")
      /\ UNCHANGED <<leases, session, bound, connecting, current, listening, connects, newest,
                     refetch, lost, handles>>
  BY DEF Suspend, client
<1> QED
  BY <1>2, <1>3, <1>4, <1>5 DEF TypeInv, TypeOK, CallsKnowSession, At

LEMMA SuspendStoredType == ASSUME TypeInv, SuspendStored PROVE TypeInv'
<1> DEFINE over == [calls EXCEPT !["suspend"] = NoCall]
<1>1. over \in [Call -> FlushingCall] /\ over["disconnect"] = calls["disconnect"]
  BY DEF TypeInv, TypeOK, Call, NoCall, FlushingCall
<1>2. CASE StartDisconnect(connects, over) /\ connecting' = ConnectingAfter /\ UNCHANGED events
  <2>1. /\ connects' = connects
        /\ calls' \in [Call -> FlushingCall]
        /\ calls'["disconnect"].at # "off" => calls'["disconnect"].sid \in Session
        /\ syncs' \in [Connect -> Sync] /\ \A d \in Connect : SyncOK(syncs'[d])
        /\ current' \in Connect \cup {None} /\ listening' \in Connect \cup {None}
    <3> HIDE DEF over
    <3> QED
      BY <1>1, <1>2, ConnectsDoKnow, StartDisconnectType
  <2>2. connecting' \in BOOLEAN
    BY <1>2 DEF ConnectingAfter
  <2> QED
    BY <1>2, <2>1, <2>2 DEF SuspendStored, TypeInv, TypeOK, CallsKnowSession, At
<1>3. CASE Event /\ calls' = over /\ UNCHANGED <<connects, syncs, current, listening, connecting>>
  <2>1. events' \in 0..MaxEvents
    BY <1>3, EventType DEF TypeInv
  <2> HIDE DEF over
  <2> QED
    BY <1>1, <1>3, <2>1 DEF SuspendStored, TypeInv, TypeOK, CallsKnowSession, At
<1> QED
  BY <1>2, <1>3 DEF SuspendStored

-------------------------------------------------------------------------------
\* The steps of connect.

LEMMA AsksKnows ==
  ASSUME TypeInv, NEW c \in Connect, session # None, NEW of, ConnectsKnow(of)
  PROVE  /\ ConnectsKnow(Asks(of, c))
         /\ ConnectsKnow([of EXCEPT ![c] = [NoConnect EXCEPT !.at = "retarget", !.sid = session]])
<1>1. session \in Session
  BY DEF TypeInv, TypeOK
<1>2. NoConnect \in ConnectCall
  BY Handles DEF NoConnect, ConnectCall
<1>3. \A x \in ConnectCall : \A at \in {"acquire", "retarget"} :
        /\ [x EXCEPT !.at = at, !.sid = session] \in ConnectCall
        /\ [x EXCEPT !.at = at, !.sid = session].at = at
        /\ [x EXCEPT !.at = at, !.sid = session].sid = session
        /\ [x EXCEPT !.at = at, !.sid = session, !.live = TRUE] \in ConnectCall
        /\ [x EXCEPT !.at = at, !.sid = session, !.live = TRUE].at = at
        /\ [x EXCEPT !.at = at, !.sid = session, !.live = TRUE].sid = session
  BY <1>1, ZenonT(30) DEF ConnectCall
<1>4. \A x \in ConnectCall : x.at \in {"acquire", "retarget"} /\ x.sid = session =>
        ConnectsKnow([of EXCEPT ![c] = x])
  BY <1>1 DEF ConnectsKnow
<1>5. ConnectsKnow([of EXCEPT ![c] = [NoConnect EXCEPT !.at = "retarget", !.sid = session]])
  <2> HIDE DEF NoConnect, ConnectsKnow
  <2> QED BY <1>2, <1>3, <1>4
<1>6. ConnectsKnow([of EXCEPT ![c] = [NoConnect EXCEPT !.at = "acquire", !.sid = session,
                                                       !.live = TRUE]])
  BY <1>2, <1>3, <1>4
<1> QED
  BY <1>5, <1>6 DEF Asks

\* A step of connect c that goes on with a record that knows its session.
LEMMA ConnectBecomes ==
  ASSUME TypeInv, NEW c \in Connect, NEW x \in ConnectCall,
         x.at # "idle" => x.sid \in Session, x.at = "release" => x.target \in Session,
         connects' = [connects EXCEPT ![c] = x]
  PROVE  ConnectsKnow(connects')
BY ConnectsDoKnow DEF ConnectsKnow

LEMMA ConnectGoes ==
  ASSUME TypeInv, NEW c \in Connect, At(c) # "idle",
         NEW at \in {"open", "reopen", "token", "retoken", "drop", "done", "catch", "clear",
                     "media", "complete", "released"},
         Goes(c, at)
  PROVE  ConnectsKnow(connects')
BY GoesType DEF ConnectsKnow

LEMMA ConnectSid == ASSUME TypeInv, NEW c \in Connect, At(c) # "idle"
                    PROVE  connects[c].sid \in Session /\ connects[c] \in ConnectCall
BY DEF TypeInv, TypeOK, CallsKnowSession

LEMMA ConnectBeginType == ASSUME TypeInv, NEW c \in Connect, ConnectBegin(c) PROVE TypeInv'
<1>1. ConnectsKnow(connects')
  BY ConnectsDoKnow, AsksKnows DEF ConnectBegin
<1>2. events' \in 0..MaxEvents
  BY EventType DEF ConnectBegin, TypeInv
<1> QED
  BY <1>1, <1>2 DEF ConnectBegin, TypeInv, TypeOK, CallsKnowSession, ConnectsKnow, At

LEMMA ConnectRetargetType == ASSUME TypeInv, NEW c \in Connect, ConnectRetarget(c) PROVE TypeInv'
<1> DEFINE now == IF connecting THEN Superseded ELSE connects
           after == IF bound # None /\ ~Returns
                    THEN [now EXCEPT ![c] = [NoConnect EXCEPT !.at = "retarget", !.sid = session]]
                    ELSE Asks(now, c)
<1>1. ConnectsKnow(now)
  BY ConnectsDoKnow
<1>2. ConnectsKnow(after)
  <2> HIDE DEF now
  <2> QED BY <1>1, AsksKnows DEF ConnectRetarget
<1>3. StartDisconnect(after, calls)
  BY DEF ConnectRetarget
<1> HIDE DEF after
<1>4. /\ connects' = after
      /\ calls' \in [Call -> FlushingCall]
      /\ calls'["disconnect"].at # "off" => calls'["disconnect"].sid \in Session
      /\ syncs' \in [Connect -> Sync] /\ \A d \in Connect : SyncOK(syncs'[d])
      /\ current' \in Connect \cup {None} /\ listening' \in Connect \cup {None}
  BY <1>2, <1>3, StartDisconnectType DEF TypeInv, TypeOK
<1>5. events' \in 0..MaxEvents
  BY EventType DEF ConnectRetarget, TypeInv
<1>6. refetch' \in RefetchCall /\ (refetch'.at # "off" => refetch'.sid \in Session)
  BY RefetchSupersededType DEF ConnectRetarget, TypeInv, TypeOK, CallsKnowSession
<1>7. connecting' \in BOOLEAN /\ UNCHANGED <<leases, session, bound, newest, lost, handles>>
  BY DEF ConnectRetarget
<1> QED
  BY <1>2, <1>4, <1>5, <1>6, <1>7 DEF TypeInv, TypeOK, CallsKnowSession, ConnectsKnow, At

LEMMA ConnectAcquireType == ASSUME TypeInv, NEW c \in Connect, ConnectAcquire(c) PROVE TypeInv'
<1>1. connects[c].sid \in Session /\ connects[c] \in ConnectCall
  BY ConnectSid DEF ConnectAcquire
<1>2. /\ events' \in 0..MaxEvents /\ lost' \subseteq Session
      /\ leases' \in [Session -> [id: Nat, holder: Actor \cup {None}, handle: Handle]]
  <2>1. CASE Acquire(connects[c].sid, Me) /\ UNCHANGED <<lost, events>>
    BY <2>1, LeaseType, NothingInNone, Handles DEF TypeInv, TypeOK
  <2>2. CASE UNCHANGED <<leases, lost, events>>
    BY <2>2 DEF TypeInv, TypeOK
  <2>3. CASE FailedCall(connects[c].sid, Acquire(connects[c].sid, Me))
    BY <1>1, <2>3, FailedCallType DEF TypeInv
  <2> QED
    BY <2>1, <2>2, <2>3 DEF ConnectAcquire
<1>3. ConnectsKnow(connects')
  <2>1. CASE Goes(c, "catch")
    BY <2>1, ConnectGoes DEF ConnectAcquire
  <2>2. CASE connects' = [connects EXCEPT ![c].at = "acquired",
                             ![c].id = leases'[connects[c].sid].id,
                             ![c].known = leases'[connects[c].sid].handle]
    <3> DEFINE id == leases'[connects[c].sid].id
               known == leases'[connects[c].sid].handle
               x == [connects[c] EXCEPT !.at = "acquired", !.id = id, !.known = known]
    <3>1. id \in Nat /\ known \in Handle
      BY <1>1, <1>2
    <3>2. connects' = [connects EXCEPT ![c] = x]
      BY <2>2 DEF TypeInv, TypeOK
    <3> HIDE DEF id, known
    <3>3. x \in ConnectCall /\ x.at = "acquired" /\ x.sid \in Session
      BY <1>1, <3>1 DEF ConnectCall
    <3> HIDE DEF x
    <3> QED
      BY <3>2, <3>3, ConnectBecomes
  <2> QED
    BY <2>1, <2>2 DEF ConnectAcquire
<1>4. UNCHANGED <<session, bound, connecting, current, listening, syncs, newest, calls, refetch,
                  handles>>
  BY DEF ConnectAcquire, client
<1> QED
  BY <1>2, <1>3, <1>4 DEF TypeInv, TypeOK, CallsKnowSession, ConnectsKnow, At

LEMMA ConnectAcquiredType == ASSUME TypeInv, NEW c \in Connect, ConnectAcquired(c) PROVE TypeInv'
<1>1. connects[c].sid \in Session /\ connects[c] \in ConnectCall
  BY ConnectSid DEF ConnectAcquired
<1>2. ConnectsKnow(connects')
  BY ConnectGoes DEF ConnectAcquired, AcquiredGoesTo
<1>3. bound' \in Session \cup {None} /\ lost' \subseteq Session
  BY <1>1 DEF ConnectAcquired, TypeInv, TypeOK
<1>4. syncs' \in [Connect -> Sync] /\ \A d \in Connect : SyncOK(syncs'[d])
  <2>1. SyncOK(NoteKnown(NewSync, connects[c].known))
    BY <1>1, NewSyncOK, NoteKnownOK DEF ConnectCall
  <2>2. \A d \in Connect : SyncOK(Dispose(syncs[d])) /\ SyncOK(syncs[d])
    BY SyncsAre, FlushPartsOK DEF TypeInv, Call
  <2>3. DisposeCurrent(syncs) \in [Connect -> Sync]
        /\ \A d \in Connect : SyncOK(DisposeCurrent(syncs)[d])
    BY <2>2 DEF DisposeCurrent, TypeInv, TypeOK, SyncOK
  <2>4. \A x : SyncOK(x) => /\ [DisposeCurrent(syncs) EXCEPT ![c] = x] \in [Connect -> Sync]
                            /\ \A d \in Connect : SyncOK([DisposeCurrent(syncs) EXCEPT ![c] = x][d])
    BY <2>3 DEF SyncOK
  <2> HIDE DEF SyncOK
  <2>5. CASE connects[c].live
    BY <2>1, <2>4, <2>5 DEF ConnectAcquired
  <2>6. CASE ~connects[c].live
    BY <2>6 DEF ConnectAcquired, TypeInv, TypeOK
  <2> QED
    BY <2>5, <2>6
<1>5. current' \in Connect \cup {None}
  BY DEF ConnectAcquired, TypeInv, TypeOK
<1>6. UNCHANGED <<leases, session, connecting, listening, newest, calls, refetch, handles, events>>
  BY DEF ConnectAcquired, bounds
<1> QED
  BY <1>2, <1>3, <1>4, <1>5, <1>6 DEF TypeInv, TypeOK, CallsKnowSession, ConnectsKnow, At

LEMMA ConnectDropType == ASSUME TypeInv, NEW c \in Connect, ConnectDrop(c) PROVE TypeInv'
<1>1. connects[c].sid \in Session
  BY ConnectSid DEF ConnectDrop
<1>2. /\ events' \in 0..MaxEvents /\ lost' \subseteq Session
      /\ leases' \in [Session -> [id: Nat, holder: Actor \cup {None}, handle: Handle]]
  <2>1. CASE Release(connects[c].sid, Me, None) /\ UNCHANGED <<lost, events>>
    BY <2>1, LeaseType, NothingInNone, Handles DEF TypeInv, TypeOK
  <2>2. CASE FailedCall(connects[c].sid, Release(connects[c].sid, Me, None))
    BY <1>1, <2>2, FailedCallType DEF TypeInv
  <2> QED
    BY <2>1, <2>2 DEF ConnectDrop
<1>3. ConnectsKnow(connects')
  BY ConnectGoes DEF ConnectDrop
<1>4. UNCHANGED <<session, bound, connecting, current, listening, syncs, newest, calls, refetch,
                  handles>>
  BY DEF ConnectDrop, client
<1> QED
  BY <1>2, <1>3, <1>4 DEF TypeInv, TypeOK, CallsKnowSession, ConnectsKnow, At

LEMMA ConnectTokenType == ASSUME TypeInv, NEW c \in Connect, ConnectToken(c) PROVE TypeInv'
<1>1. ConnectsKnow(connects')
  BY ConnectGoes DEF ConnectToken
<1>2. events' \in 0..MaxEvents
  BY EventType DEF ConnectToken, TypeInv, TypeOK
<1>3. UNCHANGED <<leases, session, bound, connecting, current, listening, syncs, newest, calls,
                  refetch, lost, handles>>
  BY DEF ConnectToken, client
<1> QED
  BY <1>1, <1>2, <1>3 DEF TypeInv, TypeOK, CallsKnowSession, ConnectsKnow, At

LEMMA ConnectOpenType == ASSUME TypeInv, NEW c \in Connect, ConnectOpen(c) PROVE TypeInv'
<1>1. connects[c].sid \in Session /\ connects[c] \in ConnectCall
  BY ConnectSid DEF ConnectOpen
<1>2. UNCHANGED <<leases, session, connecting, current, calls, refetch, lost, handles>>
  BY DEF ConnectOpen
<1>3. CASE /\ connects' = [connects EXCEPT ![c].at = "media", ![c].known = Null]
           /\ listening' = c /\ bound' = connects[c].sid /\ UNCHANGED <<syncs, newest, events>>
  <2> DEFINE x == [connects[c] EXCEPT !.at = "media", !.known = Null]
  <2>1. connects' = [connects EXCEPT ![c] = x]
    BY <1>3 DEF TypeInv, TypeOK
  <2>2. x \in ConnectCall /\ x.at = "media" /\ x.sid \in Session
    BY <1>1, Handles DEF ConnectCall
  <2> HIDE DEF x
  <2>3. ConnectsKnow(connects')
    BY <2>1, <2>2, ConnectBecomes
  <2>4. bound' \in Session \cup {None} /\ lost' \subseteq Session
    BY <1>1, <1>2, <1>3 DEF TypeInv, TypeOK
  <2> QED
    BY <1>2, <1>3, <2>3, <2>4 DEF TypeInv, TypeOK, CallsKnowSession, ConnectsKnow, At
<1>4. CASE Goes(c, "catch") /\ UNCHANGED <<listening, bound, lost, syncs, newest>>
           /\ (Event \/ UNCHANGED events)
  <2>1. ConnectsKnow(connects')
    BY <1>4, ConnectGoes DEF ConnectOpen
  <2>2. events' \in 0..MaxEvents
    BY <1>4, EventType DEF TypeInv, TypeOK
  <2> QED
    BY <1>2, <1>4, <2>1, <2>2 DEF TypeInv, TypeOK, CallsKnowSession, ConnectsKnow, At
<1>5. CASE /\ Event /\ syncs' = [syncs EXCEPT ![c] = ClearRemote(@, c)]
           /\ newest' = [newest EXCEPT ![c] = IF @ = Unset THEN Unset ELSE Null]
           /\ Goes(c, "clear") /\ UNCHANGED <<listening, bound, lost>>
  <2>1. ConnectsKnow(connects')
    BY <1>5, ConnectGoes DEF ConnectOpen
  <2>2. events' \in 0..MaxEvents
    BY <1>5, EventType DEF TypeInv, TypeOK
  <2>3. SyncOK(ClearRemote(syncs[c], c))
    BY SyncsAre, FlushPartsOK DEF TypeInv
  <2>4. syncs' \in [Connect -> Sync] /\ \A d \in Connect : SyncOK(syncs'[d])
    BY <1>5, <2>3, SyncsType DEF TypeInv
  <2>5. newest' \in [Connect -> HandleOrUnset]
    BY <1>5, Handles DEF TypeInv, TypeOK
  <2> QED
    BY <1>2, <1>5, <2>1, <2>2, <2>4, <2>5 DEF TypeInv, TypeOK, CallsKnowSession, ConnectsKnow, At
<1> QED
  BY <1>3, <1>4, <1>5 DEF ConnectOpen

LEMMA ConnectClearedType == ASSUME TypeInv, NEW c \in Connect, ConnectCleared(c) PROVE TypeInv'
<1>1. ConnectsKnow(connects')
  BY ConnectGoes DEF ConnectCleared
<1> QED
  BY <1>1 DEF ConnectCleared, TypeInv, TypeOK, CallsKnowSession, ConnectsKnow, At, client, bounds

LEMMA ConnectMediaType == ASSUME TypeInv, NEW c \in Connect, ConnectMedia(c) PROVE TypeInv'
<1>1. ConnectsKnow(connects')
  BY ConnectGoes DEF ConnectMedia
<1>2. events' \in 0..MaxEvents
  BY EventType DEF ConnectMedia, TypeInv, TypeOK
<1>3. connecting' \in BOOLEAN
  BY DEF ConnectMedia, TypeInv, TypeOK
<1>4. listening' \in Connect \cup {None}
  BY DEF ConnectMedia, TypeInv, TypeOK
<1>5. UNCHANGED <<leases, session, bound, current, syncs, newest, calls, refetch, lost, handles>>
  BY DEF ConnectMedia
<1> QED
  BY <1>1, <1>2, <1>3, <1>4, <1>5 DEF TypeInv, TypeOK, CallsKnowSession, ConnectsKnow, At

LEMMA ConnectCatchType == ASSUME TypeInv, NEW c \in Connect, ConnectCatch(c) PROVE TypeInv'
<1>1. connects[c].sid \in Session /\ connects[c] \in ConnectCall
  BY ConnectSid DEF ConnectCatch
<1>2. UNCHANGED <<leases, session, bound, current, listening, syncs, newest, calls, refetch, lost,
                  handles, events>>
  BY DEF ConnectCatch, bounds
<1>3. ConnectsKnow(connects') /\ connecting' \in BOOLEAN
  <2>1. CASE /\ bound # None /\ UNCHANGED connecting
             /\ connects' = [connects EXCEPT ![c].at = "release", ![c].target = bound]
    <3> DEFINE x == [connects[c] EXCEPT !.at = "release", !.target = bound]
    <3>1. connects' = [connects EXCEPT ![c] = x]
      BY <2>1 DEF TypeInv, TypeOK
    <3>2. bound \in Session
      BY <2>1 DEF TypeInv, TypeOK
    <3>3. x \in ConnectCall /\ x.at = "release" /\ x.sid \in Session /\ x.target \in Session
      BY <1>1, <3>2 DEF ConnectCall
    <3> HIDE DEF x
    <3> QED
      BY <2>1, <3>1, <3>3, ConnectBecomes DEF TypeInv, TypeOK
  <2>2. CASE Goes(c, "done") /\ connecting' = (connecting /\ ~connects[c].live)
    BY <2>2, ConnectGoes DEF ConnectCatch, TypeInv, TypeOK
  <2> QED
    BY <2>1, <2>2 DEF ConnectCatch
<1> QED
  BY <1>2, <1>3 DEF TypeInv, TypeOK, CallsKnowSession, ConnectsKnow, At

LEMMA ConnectReleaseType == ASSUME TypeInv, NEW c \in Connect, ConnectRelease(c) PROVE TypeInv'
<1>1. connects[c].target \in Session
  BY DEF ConnectRelease, TypeInv, CallsKnowSession
<1>2. /\ events' \in 0..MaxEvents /\ lost' \subseteq Session
      /\ leases' \in [Session -> [id: Nat, holder: Actor \cup {None}, handle: Handle]]
  <2>1. CASE Release(connects[c].target, Me, None) /\ UNCHANGED <<lost, events>>
    BY <2>1, LeaseType, NothingInNone, Handles DEF TypeInv, TypeOK
  <2>2. CASE FailedCall(connects[c].target, Release(connects[c].target, Me, None))
    BY <1>1, <2>2, FailedCallType DEF TypeInv
  <2> QED
    BY <2>1, <2>2 DEF ConnectRelease
<1>3. ConnectsKnow(connects')
  BY ConnectGoes DEF ConnectRelease
<1>4. UNCHANGED <<session, bound, connecting, current, listening, syncs, newest, calls, refetch,
                  handles>>
  BY DEF ConnectRelease, client
<1> QED
  BY <1>2, <1>3, <1>4 DEF TypeInv, TypeOK, CallsKnowSession, ConnectsKnow, At

LEMMA ConnectReleasedType == ASSUME TypeInv, NEW c \in Connect, ConnectReleased(c) PROVE TypeInv'
<1>1. connects[c].sid \in Session /\ connects[c] \in ConnectCall
  BY ConnectSid DEF ConnectReleased
<1>2. bound' \in Session \cup {None} /\ lost' \subseteq Session
  BY <1>1, UnbindType DEF ConnectReleased, TypeInv, TypeOK, ConnectCall
<1>3. ConnectsKnow(connects')
  <2> DEFINE x == [connects[c] EXCEPT !.at = "done", !.target = None]
  <2>1. connects' = [connects EXCEPT ![c] = x]
    BY DEF ConnectReleased, TypeInv, TypeOK
  <2>2. x \in ConnectCall /\ x.at = "done" /\ x.sid \in Session
    BY <1>1 DEF ConnectCall
  <2> HIDE DEF x
  <2> QED
    BY <2>1, <2>2, ConnectBecomes
<1>4. connecting' \in BOOLEAN
  BY DEF ConnectReleased, TypeInv, TypeOK
<1>5. UNCHANGED <<leases, session, current, listening, syncs, newest, calls, refetch, handles,
                  events>>
  BY DEF ConnectReleased, bounds
<1> QED
  BY <1>2, <1>3, <1>4, <1>5 DEF TypeInv, TypeOK, CallsKnowSession, ConnectsKnow, At

-------------------------------------------------------------------------------
\* The steps of the handles, and of the world.

LEMMA AnnounceType == ASSUME TypeInv, Announce PROVE TypeInv'
<1>1. handles' \in Handle /\ handles' \in 0..MaxHandles
  BY VoiceAssumption DEF Announce, TypeInv, TypeOK, Handle
<1>2. events' \in 0..MaxEvents
  BY EventType DEF Announce, TypeInv
<1>3. /\ syncs' \in [Connect -> Sync] /\ \A d \in Connect : SyncOK(syncs'[d])
      /\ newest' \in [Connect -> HandleOrUnset]
  <2>1. CASE UNCHANGED <<syncs, newest>>
    BY <2>1 DEF TypeInv, TypeOK
  <2>2. CASE /\ current # None
             /\ syncs' = [syncs EXCEPT ![current] = Schedule(@, handles')]
             /\ newest' = [newest EXCEPT ![current] = IF @ = Unset THEN Unset ELSE handles']
    <3>1. current \in Connect
      BY <2>2 DEF TypeInv, TypeOK
    <3>2. SyncOK(Schedule(syncs[current], handles'))
      BY <1>1, <3>1, SyncsAre, ScheduleOK DEF TypeInv
    <3>3. newest' \in [Connect -> HandleOrUnset]
      BY <1>1, <2>2, <3>1, Handles DEF TypeInv, TypeOK
    <3>4. syncs' \in [Connect -> Sync] /\ \A d \in Connect : SyncOK(syncs'[d])
      BY <2>2, <3>2, SyncsType DEF TypeInv
    <3> QED
      BY <3>3, <3>4
  <2> QED
    BY <2>1, <2>2 DEF Announce
<1>4. UNCHANGED <<leases, session, bound, connecting, current, listening, connects, calls, refetch,
                  lost>>
  BY DEF Announce, client
<1> QED
  BY <1>1, <1>2, <1>3, <1>4 DEF TypeInv, TypeOK, CallsKnowSession, At

\* A step that only changes the sync of one connect.
LEMMA OneSyncType ==
  ASSUME TypeInv, NEW c, NEW sync, c \in Connect => SyncOK(sync),
         syncs' = [syncs EXCEPT ![c] = sync],
         events' \in 0..MaxEvents,
         leases' \in [Session -> [id: Nat, holder: Actor \cup {None}, handle: Handle]],
         UNCHANGED <<session, bound, connecting, current, listening, connects, newest, calls,
                     refetch, lost, handles>>
  PROVE  TypeInv'
<1>1. syncs' \in [Connect -> Sync] /\ \A d \in Connect : SyncOK(syncs'[d])
  BY SyncsType DEF TypeInv
<1> QED
  BY <1>1 DEF TypeInv, TypeOK, CallsKnowSession, At

LEMMA AnnounceAgainType == ASSUME TypeInv, AnnounceAgain PROVE TypeInv'
<1>1. current \in Connect
  BY DEF AnnounceAgain, TypeInv, TypeOK
<1>2. SyncOK(syncs[current]) /\ syncs[current].latest \in HandleOrUnset \ {Unset}
  BY <1>1, SyncsAre DEF AnnounceAgain, TypeInv, SyncOK, Sync
<1>3. syncs[current].latest \in Handle
  BY <1>2, VoiceAssumption DEF Handle, HandleOrUnset, Unset
<1>4. SyncOK(Schedule(syncs[current], syncs[current].latest))
  BY <1>2, <1>3, ScheduleOK
<1>5. events' \in 0..MaxEvents
  BY EventType DEF AnnounceAgain, TypeInv
<1> QED
  BY <1>4, <1>5, OneSyncType DEF AnnounceAgain, client, TypeInv, TypeOK

LEMMA PageHidesType == ASSUME TypeInv, PageHides PROVE TypeInv'
<1>1. current \in Connect => SyncOK(FlushForLifecycle(syncs[current]))
  BY SyncsAre, FlushForLifecycleOK DEF TypeInv
<1>2. events' \in 0..MaxEvents
  BY EventType DEF PageHides, TypeInv
<1> QED
  BY <1>1, <1>2, OneSyncType DEF PageHides, client, TypeInv, TypeOK

LEMMA TimerFiresType == ASSUME TypeInv, NEW c \in Connect, TimerFires(c) PROVE TypeInv'
<1>1. SyncOK(Fire(syncs[c]))
  BY SyncsAre, FireOK DEF TypeInv
<1> QED
  BY <1>1, OneSyncType DEF TimerFires, client, bounds, TypeInv, TypeOK

LEMMA PutsType ==
  ASSUME TypeInv, NEW c, NEW expected, NEW handle \in Handle, NEW told,
         Puts(c, expected, handle, told)
  PROVE  /\ events' \in 0..MaxEvents
         /\ leases' \in [Session -> [id: Nat, holder: Actor \cup {None}, handle: Handle]]
<1>1. SetResumeHandle(connects[c].sid, Me, connects[c].id, expected, handle) \/ UNCHANGED leases
  BY DEF Puts
<1>2. leases' \in [Session -> [id: Nat, holder: Actor \cup {None}, handle: Handle]]
  BY <1>1, LeaseType, NothingInNone DEF TypeInv
<1>3. events' \in 0..MaxEvents
  BY EventType DEF Puts, TypeInv, TypeOK
<1> QED
  BY <1>2, <1>3

LEMMA ToldType == ASSUME TypeInv, NEW told \in {Unset} \cup 0..handles PROVE told \in HandleOrUnset
BY VoiceAssumption DEF TypeInv, TypeOK, HandleOrUnset, Unset

LEMMA PutArrivesType == ASSUME TypeInv, NEW c \in Connect, PutArrives(c) PROVE TypeInv'
<1>1. SyncOK(syncs[c]) /\ syncs[c].put.at # "idle"
  BY SyncsAre DEF PutArrives, TypeInv
<1>2. PICK told \in {Unset} \cup 0..handles :
        /\ Puts(c, syncs[c].put.expected, Head(syncs[c].queue).handle, told)
        /\ syncs' = [syncs EXCEPT ![c].put = [@ EXCEPT !.at = "told", !.answer = told]]
  BY DEF PutArrives
<1> DEFINE sync == [syncs[c] EXCEPT !.put = [@ EXCEPT !.at = "told", !.answer = told]]
<1>3. SyncOK(sync)
  BY <1>1, ToldType, PutToldOK
<1>4. syncs' = [syncs EXCEPT ![c] = sync]
  BY <1>2 DEF TypeInv, TypeOK
<1>5. /\ events' \in 0..MaxEvents
      /\ leases' \in [Session -> [id: Nat, holder: Actor \cup {None}, handle: Handle]]
  BY <1>1, <1>2, HeadOK, PutsType
<1>6. UNCHANGED <<session, bound, connecting, current, listening, connects, newest, calls,
                  refetch, lost, handles>>
  BY DEF PutArrives, client
<1> HIDE DEF sync
<1> QED
  BY <1>3, <1>4, <1>5, <1>6, OneSyncType

LEMMA PutReturnsType == ASSUME TypeInv, NEW c \in Connect, PutReturns(c) PROVE TypeInv'
<1>1. SyncOK(syncs[c]) /\ syncs[c].put.at # "idle"
  BY SyncsAre DEF PutReturns, TypeInv
<1> DEFINE sync == IF syncs[c].put.answer = Unset THEN PutFailed(syncs[c]) ELSE PutAnswered(syncs[c])
<1>2. SyncOK(sync)
  BY <1>1, PutFailedOK, PutAnsweredOK
<1>3. syncs' = [syncs EXCEPT ![c] = sync]
  BY DEF PutReturns
<1>4. UNCHANGED <<leases, session, bound, connecting, current, listening, connects, newest, calls,
                  refetch, lost, handles, events>>
  BY DEF PutReturns, client, bounds
<1> HIDE DEF sync
<1> QED
  BY <1>2, <1>3, <1>4, OneSyncType DEF TypeInv, TypeOK

LEMMA WriteArrivesType ==
  ASSUME TypeInv, NEW c \in Connect, NEW write \in syncs[c].writes, WriteArrives(c, write)
  PROVE  TypeInv'
<1>1. SyncOK(syncs[c])
  BY SyncsAre DEF TypeInv
<1>2. PICK told \in {Unset} \cup 0..handles :
        /\ Puts(c, write.expected, write.handle, told)
        /\ syncs' = [syncs EXCEPT ![c].writes =
                       (@ \ {write}) \cup {[write EXCEPT !.at = "told", !.answer = told]}]
  BY DEF WriteArrives
<1> DEFINE sync == [syncs[c] EXCEPT !.writes =
                      (@ \ {write}) \cup {[write EXCEPT !.at = "told", !.answer = told]}]
<1>3. SyncOK(sync)
  BY <1>1, ToldType, WriteToldOK
<1>4. syncs' = [syncs EXCEPT ![c] = sync]
  BY <1>2 DEF TypeInv, TypeOK
<1>5. write.handle \in Handle
  BY <1>1 DEF SyncOK, Sync, Write
<1>6. /\ events' \in 0..MaxEvents
      /\ leases' \in [Session -> [id: Nat, holder: Actor \cup {None}, handle: Handle]]
  BY <1>2, <1>5, PutsType
<1>7. UNCHANGED <<session, bound, connecting, current, listening, connects, newest, calls,
                  refetch, lost, handles>>
  BY DEF WriteArrives, client
<1> HIDE DEF sync
<1> QED
  BY <1>3, <1>4, <1>6, <1>7, OneSyncType

LEMMA WriteReturnsType ==
  ASSUME TypeInv, NEW c \in Connect, NEW write \in syncs[c].writes, WriteReturns(c, write)
  PROVE  TypeInv'
<1> DEFINE sync == IF write.answer = Unset THEN LifecycleFailed(syncs[c], write)
                   ELSE LifecycleAnswered(syncs[c], write)
<1>1. SyncOK(sync)
  BY SyncsAre, LifecycleReturnedOK DEF TypeInv
<1>2. syncs' = [syncs EXCEPT ![c] = sync]
  BY DEF WriteReturns
<1>3. UNCHANGED <<leases, session, bound, connecting, current, listening, connects, newest, calls,
                  refetch, lost, handles, events>>
  BY DEF WriteReturns, client, bounds
<1> HIDE DEF sync
<1> QED
  BY <1>1, <1>2, <1>3, OneSyncType DEF TypeInv, TypeOK

\* A step of refetchLease that leaves the syncs alone.
LEMMA RefetchStarts == ASSUME TypeInv, Refetch \/ RefetchRead PROVE TypeInv'
<1>1. refetch' \in RefetchCall /\ (refetch'.at # "off" => refetch'.sid \in Session)
  <2>1. \A x \in RefetchCall : \A s \in Session, h \in Handle :
          /\ [x EXCEPT !.at = "sent", !.sid = s, !.live = TRUE] \in RefetchCall
          /\ [x EXCEPT !.at = "sent", !.sid = s, !.live = TRUE].sid = s
          /\ [x EXCEPT !.at = "read", !.handle = h] \in RefetchCall
          /\ [x EXCEPT !.at = "read", !.handle = h].sid = x.sid
    BY DEF RefetchCall
  <2>2. NoRefetch \in RefetchCall /\ NoRefetch.at = "off"
    BY Handles DEF NoRefetch, RefetchCall
  <2>3. refetch \in RefetchCall /\ (refetch.at # "off" => refetch.sid \in Session)
    BY DEF TypeInv, TypeOK, CallsKnowSession
  <2>4. CASE Refetch
    <3>1. session \in Session
      BY <2>4 DEF Refetch, TypeInv, TypeOK
    <3>2. refetch' = [NoRefetch EXCEPT !.at = "sent", !.sid = session, !.live = TRUE]
      BY <2>4 DEF Refetch
    <3>3. 0 \in Handle
      BY Handles
    <3> HIDE DEF NoRefetch
    <3> QED
      BY <2>1, <2>2, <3>1, <3>2, <3>3
  <2>5. CASE RefetchRead
    <3>1. refetch.sid \in Session
      BY <2>3, <2>5 DEF RefetchRead
    <3>2. leases[refetch.sid].handle \in Handle
      BY <3>1 DEF TypeInv, TypeOK
    <3>3. \/ refetch' = [refetch EXCEPT !.at = "read", !.handle = leases[refetch.sid].handle]
          \/ refetch' = NoRefetch
      BY <2>5 DEF RefetchRead
    <3>4. CASE refetch' = [refetch EXCEPT !.at = "read", !.handle = leases[refetch.sid].handle]
      BY <2>1, <2>3, <3>1, <3>2, <3>4
    <3>5. CASE refetch' = NoRefetch
      BY <2>2, <3>5
    <3> QED
      BY <3>3, <3>4, <3>5
  <2> QED
    BY <2>4, <2>5
<1>2. events' \in 0..MaxEvents
  BY EventType DEF Refetch, RefetchRead, TypeInv, TypeOK, bounds
<1>3. UNCHANGED <<leases, session, bound, connecting, current, listening, connects, syncs, newest,
                  calls, lost, handles>>
  BY DEF Refetch, RefetchRead, client, bounds
<1> QED
  BY <1>1, <1>2, <1>3 DEF TypeInv, TypeOK, CallsKnowSession, At

LEMMA RefetchAnsweredType == ASSUME TypeInv, RefetchAnswered PROVE TypeInv'
<1>1. NoRefetch \in RefetchCall /\ NoRefetch.at = "off"
  BY Handles DEF NoRefetch, RefetchCall
<1>2. /\ syncs' \in [Connect -> Sync] /\ \A d \in Connect : SyncOK(syncs'[d])
      /\ newest' \in [Connect -> HandleOrUnset]
  <2>1. CASE UNCHANGED <<syncs, newest>>
    BY <2>1 DEF TypeInv, TypeOK
  <2>2. CASE /\ current # None
             /\ syncs' = [syncs EXCEPT ![current] = NoteKnown(@, refetch.handle)]
             /\ newest' = [newest EXCEPT ![current] =
                             IF syncs[current].latest = refetch.handle THEN @ ELSE Unset]
    <3>1. current \in Connect /\ refetch.handle \in Handle
      BY <2>2 DEF TypeInv, TypeOK, RefetchCall
    <3>2. SyncOK(NoteKnown(syncs[current], refetch.handle))
      BY <3>1, SyncsAre, NoteKnownOK DEF TypeInv
    <3>3. newest' \in [Connect -> HandleOrUnset]
      BY <2>2, <3>1, Handles DEF TypeInv, TypeOK
    <3>4. syncs' \in [Connect -> Sync] /\ \A d \in Connect : SyncOK(syncs'[d])
      BY <2>2, <3>2, SyncsType DEF TypeInv
    <3> QED
      BY <3>3, <3>4
  <2> QED
    BY <2>1, <2>2 DEF RefetchAnswered
<1>3. UNCHANGED <<leases, session, bound, connecting, current, listening, connects, calls, lost,
                  handles, events>> /\ refetch' = NoRefetch
  BY DEF RefetchAnswered, client, bounds
<1> QED
  BY <1>1, <1>2, <1>3 DEF TypeInv, TypeOK, CallsKnowSession, At

LEMMA WorldType ==
  ASSUME TypeInv, NEW s \in Session, LeaseEnds(s) \/ OtherAcquires(s) PROVE TypeInv'
<1>1. Ends(s, None) \/ Acquire(s, Other)
  BY DEF LeaseEnds, OtherAcquires
<1>2. leases' \in [Session -> [id: Nat, holder: Actor \cup {None}, handle: Handle]]
  BY <1>1, LeaseType, NothingInNone, Handles DEF TypeInv
<1>3. events' \in 0..MaxEvents
  BY EventType DEF LeaseEnds, OtherAcquires, TypeInv
<1>4. UNCHANGED <<session, bound, connecting, current, listening, connects, syncs, newest, calls,
                  refetch, lost, handles>>
  BY DEF LeaseEnds, OtherAcquires, client
<1> QED
  BY <1>2, <1>3, <1>4 DEF TypeInv, TypeOK, CallsKnowSession, At

LEMMA NextTypeInv == ASSUME TypeInv, [Next]_vars PROVE TypeInv'
<1>1. CASE UNCHANGED vars
  BY <1>1 DEF TypeInv, TypeOK, CallsKnowSession, At, vars, client, bounds
<1>2. CASE Next
  BY <1>2, DisconnectType, SwitchType, FlushType, DisconnectCloseType, DisconnectReleaseType,
     DisconnectDoneType, SuspendType, SuspendStoredType, RefetchStarts, RefetchAnsweredType,
     AnnounceType, AnnounceAgainType, PageHidesType, WorldType, ConnectBeginType, ConnectRetargetType,
     ConnectAcquireType, ConnectAcquiredType, ConnectDropType, ConnectTokenType, ConnectOpenType,
     ConnectClearedType, ConnectMediaType, ConnectCatchType, ConnectReleaseType,
     ConnectReleasedType, TimerFiresType, PutArrivesType, PutReturnsType, WriteArrivesType,
     WriteReturnsType DEF Next
<1> QED
  BY <1>1, <1>2

\* The variables of the hook, of its calls and of the leases have their types, for any number
\* of sessions, actors, calls and handles (use-voice-session.ts, resume-handle-sync.ts,
\* lease-store.ts).
THEOREM TypeCorrect == Spec => []TypeOK
<1>1. TypeInv => TypeOK
  BY DEF TypeInv
<1> QED
  BY <1>1, InitTypeInv, NextTypeInv, PTL DEF Spec

-------------------------------------------------------------------------------
\* No lease of this client is lost sight of.

\* A session whose lease is bound, lost or in the hands of a call.
Known(s) == s \in {bound} \cup lost \/ InHand(s)

\* A lease is only forgotten by a change of the binding.
NothingForgotten ==
  \A s \in Session : Accounted(s) /\ ~ (bound = s /\ bound' # s) => Accounted(s)'

\* StartDisconnect takes nothing out of a hand.
LEMMA StartDisconnectKeeps ==
  ASSUME TypeInv, NEW now, NEW others \in [Call -> FlushingCall], NEW s \in Session,
         others["disconnect"] = calls["disconnect"], InHand(s),
         \A c \in Connect : connects[c].at # "idle" =>
           /\ now[c].at = connects[c].at /\ now[c].sid = connects[c].sid
           /\ now[c].target = connects[c].target,
         StartDisconnect(now, others)
  PROVE  InHand(s)'
<1>1. connects' = now
  BY DEF StartDisconnect
<1>2. CASE \E c \in Connect : connects[c].sid = s /\ At(c) \in {"acquired", "drop"}
  BY <1>1, <1>2 DEF InHand, At
<1>3. CASE \E c \in Connect : connects[c].target = s /\ At(c) = "release"
  BY <1>1, <1>3 DEF InHand, At
<1>4. CASE calls["disconnect"].sid = s /\ calls["disconnect"].at \notin {"off", "released"}
  <2>1. Returns
    BY <1>4 DEF Returns
  <2>2. calls' = others
    BY <2>1 DEF StartDisconnect
  <2> QED
    BY <1>4, <2>2 DEF InHand
<1> QED
  BY <1>2, <1>3, <1>4 DEF InHand

\* Binding another session keeps the others known.
LEMMA BindKeeps ==
  ASSUME NEW s \in Session, Known(s), ~ (bound = s /\ bound' # s), lost \subseteq lost'
  PROVE  s \in {bound'} \cup lost' \/ InHand(s)
BY DEF Known

\* What happened to one connect, unless it had the lease of s in hand.
LEMMA OneConnectKeeps ==
  ASSUME TypeInv, NEW c \in Connect, NEW x, NEW s \in Session, InHand(s),
         connects' = [connects EXCEPT ![c] = x],
         \/ x.sid = s /\ x.at \in {"acquired", "drop"}
         \/ x.target = s /\ x.at = "release"
         \/ /\ ~ (connects[c].sid = s /\ At(c) \in {"acquired", "drop"})
            /\ ~ (connects[c].target = s /\ At(c) = "release"),
         calls'["disconnect"] = calls["disconnect"]
  PROVE  InHand(s)'
<1>1. connects'[c] = x /\ \A d \in Connect \ {c} : connects'[d] = connects[d]
  BY DEF TypeInv, TypeOK
<1>2. CASE \E d \in Connect : connects[d].sid = s /\ At(d) \in {"acquired", "drop"}
  BY <1>1, <1>2 DEF InHand, At
<1>3. CASE \E d \in Connect : connects[d].target = s /\ At(d) = "release"
  BY <1>1, <1>3 DEF InHand, At
<1>4. CASE calls["disconnect"].sid = s /\ calls["disconnect"].at \notin {"off", "released"}
  BY <1>4 DEF InHand
<1> QED
  BY <1>2, <1>3, <1>4 DEF InHand
\* Who holds which lease after a call of the server.
LEMMA HoldersAfter ==
  ASSUME TypeInv, NEW s, NEW t \in Session, leases'[t].holder = Me
  PROVE  /\ Release(s, Me, None) /\ s \in Session => Holds(t, Me) /\ t # s
         /\ Acquire(s, Me) => Holds(t, Me) \/ t = s
         /\ Acquire(s, Other) => Holds(t, Me)
         /\ Ends(s, None) => Holds(t, Me)
         /\ UNCHANGED leases => Holds(t, Me)
         /\ \A id, expected, handle :
              SetResumeHandle(s, Me, id, expected, handle) => Holds(t, Me)
<1>1. leases \in [Session -> [id: Nat, holder: Actor \cup {None}, handle: Handle]]
  BY DEF TypeInv, TypeOK
<1>2. None # Me /\ Me # Other
  BY VoiceAssumption
<1>3. Ends(s, None) => Holds(t, Me) /\ (s \in Session => t # s)
  BY <1>1, <1>2 DEF Ends, Holds
<1>4. Release(s, Me, None) /\ s \in Session => Holds(t, Me) /\ t # s
  BY <1>3 DEF Release, Holds
<1>5. Acquire(s, Me) => Holds(t, Me) \/ t = s
  BY <1>1 DEF Acquire, Holds
<1>6. Acquire(s, Other) => Holds(t, Me)
  BY <1>1, <1>2 DEF Acquire, Holds
<1>7. \A id, expected, handle : SetResumeHandle(s, Me, id, expected, handle) => Holds(t, Me)
  BY <1>1 DEF SetResumeHandle, Holds
<1> QED
  BY <1>3, <1>4, <1>5, <1>6, <1>7 DEF Holds

\* The invariant, for one session after a step.
LEMMA AccountedForSession ==
  ASSUME \A s \in Session :
           leases'[s].holder = Me /\ Accounted(s) /\ ~ (bound = s /\ bound' # s) => Known(s)'
  PROVE  NothingForgotten
BY DEF NothingForgotten, Accounted, Known, Holds, InHand, At

LEMMA KnownBefore ==
  ASSUME NEW s \in Session, Accounted(s), Holds(s, Me)
  PROVE  Known(s)
BY DEF Accounted, Known

LEMMA KnownAfter ==
  ASSUME NEW s, s \in {bound'} \cup lost' \/ InHand(s)'
  PROVE  Known(s)'
BY DEF Known

\* The call for a lease, and the answer.
LEMMA ConnectAcquireAccounts ==
  ASSUME TypeInv, NEW c \in Connect, ConnectAcquire(c)
  PROVE  NothingForgotten
<1> SUFFICES ASSUME NEW s \in Session, leases'[s].holder = Me, Accounted(s),
                    ~ (bound = s /\ bound' # s)
             PROVE  Known(s)'
  BY AccountedForSession
<1>1. connects[c].sid \in Session /\ connects[c] \in ConnectCall
  BY ConnectSid DEF ConnectAcquire
<1>2. ~ (At(c) \in {"acquired", "drop"}) /\ ~ (At(c) = "release")
  BY DEF ConnectAcquire
<1>3. calls' = calls /\ bound' = bound
  BY DEF ConnectAcquire, client
<1>4. CASE Goes(c, "catch")
  <2> DEFINE x == [connects[c] EXCEPT !.at = "catch"]
  <2>1. connects' = [connects EXCEPT ![c] = x]
    BY <1>4 DEF Goes
  <2>2. lost \subseteq lost' /\ (Holds(s, Me) \/ s \in lost')
    <3>1. CASE UNCHANGED <<leases, lost>>
      BY <3>1 DEF Holds
    <3>2. CASE FailedCall(connects[c].sid, Acquire(connects[c].sid, Me))
      BY <3>2, HoldersAfter DEF FailedCall
    <3>3. CASE Acquire(connects[c].sid, Me) /\ connects' = [connects EXCEPT ![c].at = "acquired",
                 ![c].id = leases'[connects[c].sid].id,
                 ![c].known = leases'[connects[c].sid].handle] /\ UNCHANGED lost
      <4>1. connects'[c].at = "acquired"
        BY <1>1, <3>3 DEF TypeInv, TypeOK, ConnectCall
      <4>2. connects'[c].at = "catch"
        BY <1>1, <2>1 DEF TypeInv, TypeOK, ConnectCall
      <4> QED
        BY <4>1, <4>2
    <3> QED
      BY <3>1, <3>2, <3>3 DEF ConnectAcquire
  <2> HIDE DEF x
  <2>3. CASE Holds(s, Me) /\ InHand(s)
    <3>1. InHand(s)'
      BY <1>2, <1>3, <2>1, <2>3, OneConnectKeeps
    <3> QED
      BY <3>1, KnownAfter
  <2>4. CASE Holds(s, Me) /\ ~InHand(s)
    BY <1>3, <2>2, <2>4, KnownBefore DEF Known
  <2> QED
    BY <2>2, <2>3, <2>4, KnownAfter
<1>5. CASE /\ Acquire(connects[c].sid, Me) /\ UNCHANGED lost
           /\ connects' = [connects EXCEPT ![c].at = "acquired",
                ![c].id = leases'[connects[c].sid].id,
                ![c].known = leases'[connects[c].sid].handle]
  <2> DEFINE x == [connects[c] EXCEPT !.at = "acquired", !.id = leases'[connects[c].sid].id,
                                      !.known = leases'[connects[c].sid].handle]
  <2>1. connects' = [connects EXCEPT ![c] = x]
    BY <1>5 DEF TypeInv, TypeOK
  <2>2. x.at = "acquired" /\ x.sid = connects[c].sid
    BY <1>1 DEF ConnectCall
  <2> HIDE DEF x
  <2>3. connects'[c] = x
    BY <2>1 DEF TypeInv, TypeOK
  <2>4. CASE s = connects[c].sid
    <3>1. InHand(s)'
      BY <2>2, <2>3, <2>4 DEF InHand, At
    <3> QED
      BY <3>1, KnownAfter
  <2>5. CASE s # connects[c].sid
    <3>1. Holds(s, Me)
      BY <1>5, <2>5, HoldersAfter
    <3>2. CASE InHand(s)
      <4>1. InHand(s)'
        BY <1>2, <1>3, <2>1, <3>2, OneConnectKeeps
      <4> QED
        BY <4>1, KnownAfter
    <3>3. CASE ~InHand(s)
      BY <1>3, <1>5, <3>1, <3>3, KnownBefore DEF Known
    <3> QED
      BY <3>2, <3>3
  <2> QED
    BY <2>4, <2>5
<1> QED
  BY <1>4, <1>5 DEF ConnectAcquire

\* A step of connect c that changes the leases of no one, and gives away no lease.
LEMMA ConnectStepAccounts ==
  ASSUME TypeInv, NEW c \in Connect, NEW x,
         connects' = [connects EXCEPT ![c] = x],
         \A s \in Session :
           \/ x.sid = s /\ x.at \in {"acquired", "drop"}
           \/ x.target = s /\ x.at = "release"
           \/ /\ ~ (connects[c].sid = s /\ At(c) \in {"acquired", "drop"})
              /\ ~ (connects[c].target = s /\ At(c) = "release")
           \/ s = bound',
         UNCHANGED <<leases, calls, lost>>
  PROVE  NothingForgotten
<1> SUFFICES ASSUME NEW s \in Session, leases'[s].holder = Me, Accounted(s),
                    ~ (bound = s /\ bound' # s)
             PROVE  Known(s)'
  BY AccountedForSession
<1>1. Holds(s, Me) /\ Known(s)
  BY KnownBefore DEF Holds
<1>2. s \in {bound'} \cup lost' \/ InHand(s)
  BY <1>1, BindKeeps
<1>3. CASE s = bound'
  BY <1>3, KnownAfter
<1>4. CASE InHand(s) /\ s # bound'
  <2>1. InHand(s)'
    BY <1>4, OneConnectKeeps
  <2> QED
    BY <2>1, KnownAfter
<1> QED
  BY <1>2, <1>3, <1>4, KnownAfter

LEMMA ConnectAcquiredAccounts ==
  ASSUME TypeInv, NEW c \in Connect, ConnectAcquired(c)
  PROVE  NothingForgotten
<1> DEFINE x == [connects[c] EXCEPT !.at = AcquiredGoesTo(c)]
<1>1. connects[c] \in ConnectCall /\ At(c) = "acquired" /\ UNCHANGED <<leases, calls, lost>>
  BY ConnectSid DEF ConnectAcquired
<1>2. connects' = [connects EXCEPT ![c] = x]
  BY DEF ConnectAcquired, Goes
<1>3. x.at = AcquiredGoesTo(c) /\ x.sid = connects[c].sid
  BY <1>1 DEF ConnectCall
<1> HIDE DEF x
<1>4. CASE connects[c].live
  <2>1. bound' = connects[c].sid
    BY <1>4 DEF ConnectAcquired
  <2> QED
    BY <1>1, <1>2, <2>1, ConnectStepAccounts
<1>5. CASE ~connects[c].live
  <2>1. x.at = "drop" /\ UNCHANGED <<bound, lost>>
    BY <1>3, <1>5 DEF ConnectAcquired, AcquiredGoesTo
  <2> QED
    BY <1>1, <1>2, <1>3, <2>1, ConnectStepAccounts
<1> QED
  BY <1>4, <1>5

\* A step of connect c that has no lease in hand.
LEMMA ConnectGoesAccounts ==
  ASSUME TypeInv, NEW c \in Connect, NEW at, Goes(c, at),
         At(c) \notin {"acquired", "drop", "release"},
         UNCHANGED <<leases, calls, bound, lost>>
  PROVE  NothingForgotten
BY ConnectStepAccounts DEF Goes

LEMMA ConnectOpenAccounts ==
  ASSUME TypeInv, NEW c \in Connect, ConnectOpen(c)
  PROVE  NothingForgotten
<1>1. At(c) \notin {"acquired", "drop", "release"} /\ UNCHANGED <<leases, calls, lost>>
  BY DEF ConnectOpen
<1>2. CASE (Goes(c, "catch") \/ Goes(c, "clear")) /\ UNCHANGED <<bound, lost>>
  BY <1>1, <1>2, ConnectGoesAccounts
<1>3. CASE connects' = [connects EXCEPT ![c].at = "media", ![c].known = Null] /\ bound' = connects[c].sid
  <2> DEFINE x == [connects[c] EXCEPT !.at = "media", !.known = Null]
  <2>1. connects' = [connects EXCEPT ![c] = x]
    BY <1>3 DEF TypeInv, TypeOK
  <2> HIDE DEF x
  <2> QED
    BY <1>1, <1>3, <2>1, ConnectStepAccounts
<1> QED
  BY <1>2, <1>3 DEF ConnectOpen

LEMMA ConnectCatchAccounts ==
  ASSUME TypeInv, NEW c \in Connect, ConnectCatch(c)
  PROVE  NothingForgotten
<1>1. At(c) \notin {"acquired", "drop", "release"} /\ UNCHANGED <<leases, calls, bound, lost>>
  BY DEF ConnectCatch
<1>2. CASE Goes(c, "done")
  BY <1>1, <1>2, ConnectGoesAccounts
<1>3. CASE connects' = [connects EXCEPT ![c].at = "release", ![c].target = bound]
  <2> DEFINE x == [connects[c] EXCEPT !.at = "release", !.target = bound]
  <2>1. connects' = [connects EXCEPT ![c] = x]
    BY <1>3 DEF TypeInv, TypeOK
  <2> HIDE DEF x
  <2> QED
    BY <1>1, <2>1, ConnectStepAccounts
<1> QED
  BY <1>2, <1>3 DEF ConnectCatch

LEMMA ConnectReleasedAccounts ==
  ASSUME TypeInv, NEW c \in Connect, ConnectReleased(c)
  PROVE  NothingForgotten
<1> DEFINE x == [connects[c] EXCEPT !.at = "done", !.target = None]
<1>1. connects' = [connects EXCEPT ![c] = x]
  BY DEF ConnectReleased, TypeInv, TypeOK
<1>2. /\ At(c) \notin {"acquired", "drop", "release"} /\ UNCHANGED <<leases, calls, lost>>
  BY DEF ConnectReleased
<1> HIDE DEF x
<1> QED
  BY <1>1, <1>2, ConnectStepAccounts

\* A connect that releases s, or drops it.
LEMMA ConnectReleasesAccounts ==
  ASSUME TypeInv, NEW c \in Connect, ConnectDrop(c) \/ ConnectRelease(c)
  PROVE  NothingForgotten
<1> SUFFICES ASSUME NEW s \in Session, leases'[s].holder = Me, Accounted(s),
                    ~ (bound = s /\ bound' # s)
             PROVE  Known(s)'
  BY AccountedForSession
<1> DEFINE t == IF At(c) = "drop" THEN connects[c].sid ELSE connects[c].target
<1>1. t \in Session
  BY DEF ConnectDrop, ConnectRelease, TypeInv, CallsKnowSession
<1>2. /\ bound' = bound /\ calls' = calls /\ lost \subseteq lost'
      /\ s = t => s \in lost'
      /\ s # t => Holds(s, Me)
  <2>1. \/ Release(t, Me, None) /\ UNCHANGED lost
        \/ FailedCall(t, Release(t, Me, None))
    BY DEF ConnectDrop, ConnectRelease
  <2>2. CASE Release(t, Me, None) /\ UNCHANGED lost
    BY <1>1, <2>2, HoldersAfter DEF ConnectDrop, ConnectRelease, client
  <2>3. CASE FailedCall(t, Release(t, Me, None))
    BY <1>1, <2>3, HoldersAfter DEF FailedCall, ConnectDrop, ConnectRelease, client
  <2> QED
    BY <2>1, <2>2, <2>3
<1>3. CASE s = t
  BY <1>2, <1>3, KnownAfter
<1>4. CASE s # t /\ InHand(s)
  <2>1. PICK at : connects' = [connects EXCEPT ![c] = [connects[c] EXCEPT !.at = at]]
    BY DEF ConnectDrop, ConnectRelease, Goes
  <2>2. /\ ~ (connects[c].sid = s /\ At(c) \in {"acquired", "drop"})
        /\ ~ (connects[c].target = s /\ At(c) = "release")
    BY <1>4 DEF ConnectDrop, ConnectRelease
  <2>3. InHand(s)'
    BY <1>2, <1>4, <2>1, <2>2, OneConnectKeeps
  <2> QED
    BY <2>3, KnownAfter
<1>5. CASE s # t /\ ~InHand(s)
  BY <1>2, <1>5, KnownBefore DEF Known
<1> QED
  BY <1>3, <1>4, <1>5

\* StartDisconnect, with connects that are superseded, or new.
LEMMA StartDisconnectAccounts ==
  ASSUME TypeInv, NEW now, NEW others \in [Call -> FlushingCall],
         others["disconnect"] = calls["disconnect"],
         \A c \in Connect : connects[c].at # "idle" =>
           /\ now[c].at = connects[c].at /\ now[c].sid = connects[c].sid
           /\ now[c].target = connects[c].target,
         StartDisconnect(now, others),
         UNCHANGED <<leases, bound, lost>>
  PROVE  NothingForgotten
<1> SUFFICES ASSUME NEW s \in Session, leases'[s].holder = Me, Accounted(s),
                    ~ (bound = s /\ bound' # s)
             PROVE  Known(s)'
  BY AccountedForSession
<1>1. Holds(s, Me)
  BY DEF Holds
<1>2. CASE InHand(s)
  BY <1>2, StartDisconnectKeeps, KnownAfter
<1>3. CASE ~InHand(s)
  BY <1>1, <1>3, KnownBefore DEF Known
<1> QED
  BY <1>2, <1>3

LEMMA SupersededSame ==
  ASSUME TypeInv, NEW c \in Connect
  PROVE  /\ Superseded[c].at = connects[c].at /\ Superseded[c].sid = connects[c].sid
         /\ Superseded[c].target = connects[c].target
BY DEF TypeInv, TypeOK, ConnectCall, Superseded

LEMMA DisconnectAccounts ==
  ASSUME TypeInv, Disconnect \/ SuspendStored \/ (\E s : Switch(s))
  PROVE  NothingForgotten
<1>1. CASE Disconnect
  BY <1>1, StartDisconnectAccounts DEF Disconnect, TypeInv, TypeOK
<1>2. CASE \E s : Switch(s)
  BY <1>2, StartDisconnectAccounts, SupersededSame DEF Switch, TypeInv, TypeOK
<1>3. CASE SuspendStored
  <2> DEFINE over == [calls EXCEPT !["suspend"] = NoCall]
  <2>1. over \in [Call -> FlushingCall] /\ over["disconnect"] = calls["disconnect"]
    BY DEF TypeInv, TypeOK, Call, NoCall, FlushingCall
  <2>2. UNCHANGED <<leases, bound, lost>>
    BY <1>3 DEF SuspendStored
  <2>3. StartDisconnect(connects, over) \/ (calls' = over /\ connects' = connects)
    BY <1>3 DEF SuspendStored
  <2> HIDE DEF over
  <2>4. CASE StartDisconnect(connects, over)
    BY <2>1, <2>2, <2>4, StartDisconnectAccounts
  <2>5. CASE calls' = over /\ connects' = connects
    BY <2>1, <2>2, <2>5 DEF NothingForgotten, Accounted, Holds, InHand, At
  <2> QED
    BY <2>3, <2>4, <2>5
<1> QED
  BY <1>1, <1>2, <1>3

LEMMA ConnectBeginAccounts ==
  ASSUME TypeInv, NEW c \in Connect, ConnectBegin(c)
  PROVE  NothingForgotten
<1> DEFINE x == [NoConnect EXCEPT !.at = "acquire", !.sid = session, !.live = TRUE]
<1>1. connects' = [connects EXCEPT ![c] = x] /\ At(c) = "idle"
      /\ UNCHANGED <<leases, calls, bound, lost>>
  BY DEF ConnectBegin, Asks
<1> HIDE DEF x
<1> QED
  BY <1>1, ConnectStepAccounts

LEMMA ConnectRetargetAccounts ==
  ASSUME TypeInv, NEW c \in Connect, ConnectRetarget(c)
  PROVE  NothingForgotten
<1> DEFINE now == IF connecting THEN Superseded ELSE connects
           x == IF bound # None /\ ~Returns
                THEN [NoConnect EXCEPT !.at = "retarget", !.sid = session]
                ELSE [NoConnect EXCEPT !.at = "acquire", !.sid = session, !.live = TRUE]
<1>1. StartDisconnect([now EXCEPT ![c] = x], calls)
  BY DEF ConnectRetarget, Asks
<1>2. connects[c].at = "idle" /\ UNCHANGED <<leases, bound, lost>>
  BY DEF ConnectRetarget, At
<1> HIDE DEF x
<1>3. \A d \in Connect : connects[d].at # "idle" =>
        /\ [now EXCEPT ![c] = x][d].at = connects[d].at
        /\ [now EXCEPT ![c] = x][d].sid = connects[d].sid
        /\ [now EXCEPT ![c] = x][d].target = connects[d].target
  <2> SUFFICES ASSUME NEW d \in Connect, connects[d].at # "idle"
               PROVE  /\ [now EXCEPT ![c] = x][d].at = connects[d].at
                      /\ [now EXCEPT ![c] = x][d].sid = connects[d].sid
                      /\ [now EXCEPT ![c] = x][d].target = connects[d].target
    OBVIOUS
  <2>1. d # c /\ now \in [Connect -> ConnectCall]
    BY <1>2, ConnectsDoKnow DEF ConnectsKnow
  <2> HIDE DEF now
  <2>2. [now EXCEPT ![c] = x][d] = now[d]
    BY <2>1
  <2> USE DEF now
  <2> QED
    BY <2>2, SupersededSame
<1> HIDE DEF now
<1> QED
  BY <1>1, <1>2, <1>3, StartDisconnectAccounts DEF TypeInv, TypeOK

LEMMA DisconnectReleaseAccounts ==
  ASSUME TypeInv, DisconnectRelease
  PROVE  NothingForgotten
<1> SUFFICES ASSUME NEW s \in Session, leases'[s].holder = Me, Accounted(s),
                    ~ (bound = s /\ bound' # s)
             PROVE  Known(s)'
  BY AccountedForSession
<1> DEFINE t == calls["disconnect"].sid
<1>1. t \in Session /\ UNCHANGED <<bound, connects>>
  BY DEF DisconnectRelease, TypeInv, CallsKnowSession, client
<1>2. lost \subseteq lost' /\ (s = t => s \in lost') /\ (s # t => Holds(s, Me))
  <2>1. CASE Release(t, Me, None) /\ UNCHANGED lost
    BY <1>1, <2>1, HoldersAfter
  <2>2. CASE FailedCall(t, Release(t, Me, None))
    BY <1>1, <2>2, HoldersAfter DEF FailedCall
  <2> QED
    BY <2>1, <2>2 DEF DisconnectRelease
<1>3. CASE s = t
  BY <1>2, <1>3, KnownAfter
<1>4. CASE s # t
  BY <1>1, <1>2, <1>4, KnownBefore DEF Known, InHand, At
<1> QED
  BY <1>3, <1>4

LEMMA DisconnectDoneAccounts ==
  ASSUME TypeInv, DisconnectDone
  PROVE  NothingForgotten
<1> SUFFICES ASSUME NEW s \in Session, leases'[s].holder = Me, Accounted(s),
                    ~ (bound = s /\ bound' # s)
             PROVE  Known(s)'
  BY AccountedForSession
<1>1. Holds(s, Me) /\ Known(s)
  BY KnownBefore DEF DisconnectDone, Holds
<1>2. s \in {bound'} \cup lost' \/ InHand(s)
  BY <1>1, BindKeeps DEF DisconnectDone
<1>3. CASE InHand(s)
  <2>1. \A c \in Connect : At(c) # "retarget" => connects'[c] = connects[c]
    BY DEF DisconnectDone
  <2>2. calls["disconnect"].at = "released"
    BY DEF DisconnectDone
  <2>3. InHand(s)'
    BY <1>3, <2>1, <2>2 DEF InHand, At
  <2> QED
    BY <2>3, KnownAfter
<1> QED
  BY <1>2, <1>3, KnownAfter

LEMMA DisconnectCloseAccounts ==
  ASSUME TypeInv, DisconnectClose
  PROVE  NothingForgotten
<1>1. calls["disconnect"].at = "last" /\ UNCHANGED <<leases, bound, lost, connects>>
  BY DEF DisconnectClose, Flushed
<1>2. calls'["disconnect"].at = "release" /\ calls'["disconnect"].sid = calls["disconnect"].sid
  <2>1. calls["disconnect"] \in FlushingCall /\ "disconnect" \in Call
    BY DEF TypeInv, TypeOK, Call
  <2>2. calls'["disconnect"] = [calls["disconnect"] EXCEPT !.at = "release"]
    BY <2>1 DEF DisconnectClose, TypeInv, TypeOK
  <2> QED
    BY <2>1, <2>2 DEF FlushingCall
<1> QED
  BY <1>1, <1>2 DEF NothingForgotten, Accounted, Holds, InHand, At

LEMMA FlushAccounts ==
  ASSUME TypeInv, NEW f \in Call, Flush(f)
  PROVE  NothingForgotten
<1>1. calls[f] \in FlushingCall
  BY DEF TypeInv, TypeOK
<1>2. PICK at \in {"chain", "last"} :
        calls' = [calls EXCEPT ![f] = [calls[f] EXCEPT !.at = at]] /\ calls[f].at \in {"pending", "chain"}
  BY DEF Flush
<1>3. [calls[f] EXCEPT !.at = at].at = at /\ [calls[f] EXCEPT !.at = at].sid = calls[f].sid
  BY <1>1 DEF FlushingCall
<1>4. calls'["disconnect"].sid = calls["disconnect"].sid
      /\ (calls'["disconnect"].at \in {"off", "released"} <=> calls["disconnect"].at \in {"off", "released"})
  BY <1>2, <1>3 DEF TypeInv, TypeOK, Call
<1>5. UNCHANGED <<leases, bound, lost, connects>>
  BY DEF Flush, client
<1> QED
  BY <1>4, <1>5 DEF NothingForgotten, Accounted, Holds, InHand, At

\* A step that changes no call of connect or disconnect, and takes no lease for this client.
LEMMA ElsewhereAccounts ==
  ASSUME TypeInv, UNCHANGED <<bound, lost, connects>>,
         calls'["disconnect"] = calls["disconnect"],
         \A s \in Session : leases'[s].holder = Me => Holds(s, Me)
  PROVE  NothingForgotten
BY DEF NothingForgotten, Accounted, Holds, InHand, At

LEMMA WriteAccounts ==
  ASSUME TypeInv, NEW c \in Connect,
         PutArrives(c) \/ (\E write \in syncs[c].writes : WriteArrives(c, write))
  PROVE  NothingForgotten
<1>1. UNCHANGED <<bound, lost, connects, calls>>
  BY DEF PutArrives, WriteArrives, client
<1>2. \E expected, handle, told : Puts(c, expected, handle, told)
  BY DEF PutArrives, WriteArrives
<1>3. PICK expected, handle :
        \/ SetResumeHandle(connects[c].sid, Me, connects[c].id, expected, handle)
        \/ UNCHANGED leases
  BY <1>2 DEF Puts
<1>4. \A s \in Session : leases'[s].holder = Me => Holds(s, Me)
  BY <1>3, HoldersAfter
<1> QED
  BY <1>1, <1>4, ElsewhereAccounts

LEMMA WorldAccounts ==
  ASSUME TypeInv, NEW s \in Session, LeaseEnds(s) \/ OtherAcquires(s)
  PROVE  NothingForgotten
<1>1. UNCHANGED <<bound, lost, connects, calls>>
  BY DEF LeaseEnds, OtherAcquires, client
<1>2. Ends(s, None) \/ Acquire(s, Other)
  BY DEF LeaseEnds, OtherAcquires
<1>3. \A t \in Session : leases'[t].holder = Me => Holds(t, Me)
  BY <1>2, HoldersAfter
<1> QED
  BY <1>1, <1>3, ElsewhereAccounts

LEMMA QuietAccounts ==
  ASSUME TypeInv,
         \/ Suspend \/ Refetch \/ RefetchRead \/ RefetchAnswered \/ Announce \/ AnnounceAgain \/ PageHides
         \/ \E c \in Connect : \/ TimerFires(c) \/ PutReturns(c)
                               \/ \E write \in syncs[c].writes : WriteReturns(c, write)
         \/ UNCHANGED vars
  PROVE  NothingForgotten
<1>1. UNCHANGED <<bound, lost, connects, leases>>
  BY DEF Suspend, Refetch, RefetchRead, RefetchAnswered, Announce, AnnounceAgain, PageHides, TimerFires,
         PutReturns, WriteReturns, vars, client, bounds
<1>2. calls'["disconnect"] = calls["disconnect"]
  BY DEF Suspend, Refetch, RefetchRead, RefetchAnswered, Announce, AnnounceAgain, PageHides, TimerFires,
         PutReturns, WriteReturns, vars, client, bounds, TypeInv, TypeOK, Call
<1> QED
  BY <1>1, <1>2, ElsewhereAccounts DEF Holds

LEMMA ConnectAccounts ==
  ASSUME TypeInv, NEW c \in Connect,
         ConnectToken(c) \/ ConnectCleared(c) \/ ConnectMedia(c)
  PROVE  NothingForgotten
<1>1. UNCHANGED <<leases, calls, bound, lost>> /\ At(c) \notin {"acquired", "drop", "release"}
  BY DEF ConnectToken, ConnectCleared, ConnectMedia, client
<1>2. \E at : Goes(c, at)
  BY DEF ConnectToken, ConnectCleared, ConnectMedia
<1> QED
  BY <1>1, <1>2, ConnectGoesAccounts

LEMMA NextAccounts ==
  ASSUME TypeInv, [Next]_vars PROVE NothingForgotten
BY DisconnectAccounts, DisconnectCloseAccounts, DisconnectReleaseAccounts, DisconnectDoneAccounts,
   FlushAccounts, QuietAccounts, WorldAccounts, WriteAccounts, ConnectBeginAccounts,
   ConnectRetargetAccounts, ConnectAcquireAccounts, ConnectAcquiredAccounts,
   ConnectReleasesAccounts, ConnectAccounts, ConnectOpenAccounts, ConnectCatchAccounts,
   ConnectReleasedAccounts DEF Next

\* A lease in the hands of a call of the hook, superseded or not, is bound, released or lost
\* by a call that fails, in every interleaving of the calls, for any number of sessions and
\* connects: only the binding forgets leases (use-voice-session.ts).
THEOREM OnlyRebindingLoses == Spec => OnlyRebindingLosesLease
<1>1. TypeInv /\ [Next]_vars =>
        [\A s \in Session : Accounted(s) /\ ~ (bound = s /\ bound' # s) => Accounted(s)']_vars
  BY NextAccounts DEF NothingForgotten
<1> QED
  BY <1>1, InitTypeInv, NextTypeInv, PTL DEF Spec, OnlyRebindingLosesLease

-------------------------------------------------------------------------------
(***************************************************************************)
(* Handles on their way. A sync wants the handles it has to write, knows    *)
(* the ones it was told, and expects those its writes may replace.          *)
(***************************************************************************)

Wants(sync, v) ==
  \/ v \in {sync.pending, sync.latest, sync.retry}
  \/ \E i \in DOMAIN sync.queue : sync.queue[i].handle = v
  \/ \E write \in sync.writes : write.handle = v
Knows(sync, v) ==
  v \in {sync.last, sync.put.answer} \/ \E write \in sync.writes : write.answer = v
Expects(sync, v) ==
  v \in sync.put.expected \/ \E write \in sync.writes : v \in write.expected

\* The newest handle h of a sync, and the one stored in its lease. The chain holds h behind
\* the others; while others may still start there, h is neither stored nor written past the
\* chain; the sync was told h only if h is stored; other writes do not expect it.
Behind(sync, h) ==
  \A i, j \in DOMAIN sync.queue : i < j /\ sync.queue[i].handle = h => sync.queue[j].handle = h
NotYet(sync, h, stored) ==
  (\E j \in DOMAIN sync.queue : ~sync.queue[j].stale /\ sync.queue[j].handle # h) =>
    stored # h /\ \A write \in sync.writes : write.handle # h
OnlyItselfExpects(sync, h) ==
  /\ sync.put.at = "sent" /\ sync.queue[1].handle # h => h \notin sync.put.expected
  /\ \A write \in sync.writes : write.handle # h => h \notin write.expected
Safe(sync, h, stored) ==
  /\ sync.latest = h /\ sync.pending \in {Unset, h}
  /\ Behind(sync, h) /\ NotYet(sync, h, stored) /\ OnlyItselfExpects(sync, h)
  /\ Knows(sync, h) => stored = h
Keeps(sync, h, stored) == Safe(sync, h, stored) /\ (stored = h \/ h \in Kept(sync))

\* Writes in order: all that is on its way is no newer than the latest handle, the chain
\* goes forward, what may still start there is no older than anything stored, told or
\* written past it, and no write expects a newer handle than its own. Null, which clears,
\* comes at any time.
Reached(sync, stored, v) ==
  v = stored \/ Knows(sync, v) \/ \E write \in sync.writes : write.handle = v
ExpectsOlder(sync) ==
  /\ sync.put.at = "sent" /\ sync.queue[1].handle # Null =>
       \A v \in sync.put.expected : v <= sync.queue[1].handle
  /\ \A write \in sync.writes :
       write.handle # Null => \A v \in write.expected : v <= write.handle
Ordered(sync, stored) ==
  /\ sync.pending \in {Unset, sync.latest}
  /\ sync.latest \notin {Unset, Null} =>
       /\ \A v : Reached(sync, stored, v) => v <= sync.latest
       /\ \A i \in DOMAIN sync.queue : sync.queue[i].handle <= sync.latest
  /\ \A i, j \in DOMAIN sync.queue :
       i < j => sync.queue[j].handle = Null \/ sync.queue[i].handle <= sync.queue[j].handle
  /\ \A j \in DOMAIN sync.queue :
       ~sync.queue[j].stale /\ sync.queue[j].handle # Null =>
         \A v : Reached(sync, stored, v) => v <= sync.queue[j].handle
  /\ ExpectsOlder(sync)

OneHandle(sync) == \A i \in DOMAIN sync.queue : sync.queue[i].handle = sync.latest

-------------------------------------------------------------------------------
\* Methods that add nothing: the chain loses writes at its head, and the head may start.

Shortened(sync, new, k) ==
  /\ k \in Nat /\ Len(sync.queue) = Len(new.queue) + k
  /\ \A i \in 1..Len(new.queue) : /\ new.queue[i].handle = sync.queue[i + k].handle
                                  /\ new.queue[i].stale = sync.queue[i + k].stale
PutStarts(new) ==
  /\ new.put.at = "sent" /\ new.put.expected = {NullIfUnset(new.last)}
  /\ new.put.answer = Unset
  /\ new.queue # <<>> /\ ~new.queue[1].stale
Lessens(sync, new) ==
  /\ SyncOK(new)
  /\ new.latest = sync.latest
  /\ new.pending \in {Unset, sync.pending, sync.latest}
  /\ new.retry \in {Unset, sync.retry, sync.latest}
  /\ new.last = Unset \/ Knows(sync, new.last)
  /\ new.writes \subseteq sync.writes
Reduces(sync, new) ==
  /\ Lessens(sync, new)
  /\ \E k \in Nat :
       /\ Shortened(sync, new, k)
       /\ \/ new.put = sync.put /\ (sync.put.at = "sent" => k = 0)
          \/ new.put = NoPut
          \/ PutStarts(new)

\* What a step of a sync leaves in place: no handle appears in it, order stays, and the
\* newest handle stays safe. Safely: nor does the sync forget the newest handle.
Calm(sync, new) ==
  /\ SyncOK(new) /\ new.latest = sync.latest
  /\ \A v : Wants(new, v) => Wants(sync, v) \/ v = Unset
  /\ \A v : Knows(new, v) \/ Expects(new, v) =>
              Wants(sync, v) \/ Knows(sync, v) \/ Expects(sync, v) \/ v \in {Unset, Null}
  /\ \A stored \in Int :
       Ordered(sync, stored) => Ordered(new, stored) /\ (OneHandle(sync) => OneHandle(new))
  /\ \A h \in Handle \ {Null}, stored \in Int : Safe(sync, h, stored) => Safe(new, h, stored)
KeptOn(sync, new) ==
  \A h \in Handle \ {Null}, stored \in Int :
    Safe(sync, h, stored) /\ h \in Kept(sync) => stored = h \/ h \in Kept(new)
Safely(sync, new) == Calm(sync, new) /\ KeptOn(sync, new)

LEMMA QueueOf ==
  ASSUME NEW sync, SyncOK(sync)
  PROVE  /\ sync.queue \in Seq(Entry) /\ Len(sync.queue) \in Nat
         /\ DOMAIN sync.queue = 1..Len(sync.queue)
         /\ \A i \in DOMAIN sync.queue :
              /\ sync.queue[i] \in Entry /\ i \in Nat
              /\ sync.queue[i].handle \in Handle /\ sync.queue[i].handle \in Int
              /\ sync.queue[i].handle >= 0
              /\ sync.queue[i].stale \in BOOLEAN
<1>1. sync.queue \in Seq(Entry)
  BY DEF SyncOK, Sync
<1>2. \A i \in 1..Len(sync.queue) : sync.queue[i] \in Entry
  BY <1>1
<1>3. \A h \in Handle : h \in Int /\ h >= 0
  BY VoiceAssumption DEF Handle
<1>. QED BY <1>1, <1>2, <1>3 DEF Entry

LEMMA HandleTypes ==
  ASSUME NEW sync, SyncOK(sync)
  PROVE  /\ {sync.last, sync.pending, sync.latest, sync.retry, sync.put.answer} \subseteq Int
         /\ {sync.last, sync.pending, sync.latest, sync.retry, sync.put.answer} \subseteq HandleOrUnset
         /\ sync.put.expected \subseteq Handle
         /\ sync.put.at \in {"idle", "sent", "told"}
         /\ sync.put.at # "idle" => sync.queue # <<>>
         /\ \A write \in sync.writes : write \in Write /\ write.handle \in Handle
              /\ write.answer \in HandleOrUnset /\ write.expected \subseteq Handle
         /\ \A v \in HandleOrUnset : v \in Int /\ v >= Unset
         /\ \A v \in Handle : v \in Int /\ v >= 0 /\ v \in HandleOrUnset
<1>1. /\ \A v \in HandleOrUnset : v \in Int /\ v >= Unset
      /\ \A v \in Handle : v \in Int /\ v >= 0 /\ v \in HandleOrUnset
  BY VoiceAssumption DEF Handle, HandleOrUnset, Unset
<1>. QED BY <1>1 DEF SyncOK, Sync, Put, Write

\* The places of a shortened chain, in the chain.
LEMMA PlacesShortened ==
  ASSUME NEW sync, NEW new, SyncOK(sync), SyncOK(new), NEW k \in Nat, Shortened(sync, new, k)
  PROVE  \A i \in DOMAIN new.queue :
           /\ i \in Nat /\ i + k \in DOMAIN sync.queue
           /\ new.queue[i].handle = sync.queue[i + k].handle
           /\ new.queue[i].stale = sync.queue[i + k].stale
<1>1. /\ DOMAIN new.queue = 1..Len(new.queue) /\ DOMAIN sync.queue = 1..Len(sync.queue)
      /\ Len(new.queue) \in Nat /\ Len(sync.queue) = Len(new.queue) + k
  BY QueueOf DEF Shortened
<1>2. \A i \in 1..Len(new.queue) : i \in Nat /\ i + k \in 1..(Len(new.queue) + k)
  BY <1>1
<1>. QED BY <1>1, <1>2 DEF Shortened

LEMMA ReducesCalmly == ASSUME NEW sync, NEW new, SyncOK(sync), Reduces(sync, new)
                       PROVE  Calm(sync, new)
<1>1. PICK k \in Nat :
        /\ Shortened(sync, new, k)
        /\ \/ new.put = sync.put /\ (sync.put.at = "sent" => k = 0)
           \/ new.put = NoPut
           \/ PutStarts(new)
  BY DEF Reduces
<1>2. \A i \in DOMAIN new.queue :
        /\ i \in Nat /\ i + k \in DOMAIN sync.queue
        /\ new.queue[i].handle = sync.queue[i + k].handle
        /\ new.queue[i].stale = sync.queue[i + k].stale
  BY <1>1, PlacesShortened DEF Reduces, Lessens
<1>3. /\ SyncOK(new) /\ new.latest = sync.latest
      /\ new.pending \in {Unset, sync.pending, sync.latest}
      /\ new.retry \in {Unset, sync.retry, sync.latest}
      /\ new.last = Unset \/ Knows(sync, new.last)
      /\ new.writes \subseteq sync.writes
  BY DEF Reduces, Lessens
<1>4. new.put = sync.put \/ new.put.answer = Unset
  BY <1>1 DEF NoPut, PutStarts
<1>5. \A v : Wants(new, v) => Wants(sync, v) \/ v = Unset
  BY <1>2, <1>3 DEF Wants
<1>6. \A v : Knows(new, v) => Knows(sync, v) \/ v = Unset
  BY <1>3, <1>4 DEF Knows
<1>7. \A v \in new.put.expected : v \in sync.put.expected \/ Knows(sync, v) \/ v = Null
  BY <1>1, <1>3 DEF NoPut, PutStarts, NullIfUnset, Null
<1>8. \A v : Expects(new, v) => Expects(sync, v) \/ Knows(sync, v) \/ v = Null
  BY <1>3, <1>7 DEF Expects
<1>9. OneHandle(sync) => OneHandle(new)
  BY <1>2, <1>3 DEF OneHandle
<1>10. ASSUME NEW stored \in Int, Ordered(sync, stored) PROVE Ordered(new, stored)
  <2>1. \A v : Reached(new, stored, v) => Reached(sync, stored, v) \/ v = Unset
    BY <1>3, <1>6 DEF Reached
  <2>2. new.pending \in {Unset, new.latest}
    BY <1>3, <1>10 DEF Ordered
  <2>3. new.latest \notin {Unset, Null} =>
          /\ \A v : Reached(new, stored, v) => v <= new.latest
          /\ \A i \in DOMAIN new.queue : new.queue[i].handle <= new.latest
    <3>1. new.latest \notin {Unset, Null} => Unset <= new.latest
      BY <1>3, HandleTypes DEF Unset
    <3>. QED BY <1>2, <1>3, <1>10, <2>1, <3>1 DEF Ordered
  <2>4. \A i, j \in DOMAIN new.queue :
          i < j => new.queue[j].handle = Null \/ new.queue[i].handle <= new.queue[j].handle
    <3> TAKE i, j \in DOMAIN new.queue
    <3>1. i < j => i + k < j + k
      BY <1>2
    <3>. QED BY <1>2, <1>10, <3>1 DEF Ordered
  <2>5. \A j \in DOMAIN new.queue :
          ~new.queue[j].stale /\ new.queue[j].handle # Null =>
            \A v : Reached(new, stored, v) => v <= new.queue[j].handle
    <3>1. \A j \in DOMAIN new.queue : Unset <= new.queue[j].handle
      BY <1>3, QueueOf DEF Unset
    <3>. QED BY <1>2, <1>10, <2>1, <3>1 DEF Ordered
  <2>6. new.put.at = "sent" /\ new.queue[1].handle # Null =>
          \A v \in new.put.expected : v <= new.queue[1].handle
    <3> SUFFICES ASSUME new.put.at = "sent", new.queue[1].handle # Null, NEW v \in new.put.expected
                 PROVE  v <= new.queue[1].handle
      OBVIOUS
    <3>1. 1 \in DOMAIN new.queue
      BY <1>3, HandleTypes, QueueOf
    <3>2. CASE PutStarts(new)
      <4>1. v = Null \/ v = new.last
        BY <3>2 DEF PutStarts, NullIfUnset, Null
      <4>2. Null <= new.queue[1].handle
        BY <1>3, <3>1, QueueOf DEF Null
      <4>3. Knows(new, new.last)
        BY DEF Knows
      <4>. QED BY <2>5, <3>1, <3>2, <4>1, <4>2, <4>3 DEF PutStarts, Reached
    <3>3. CASE new.put = sync.put /\ (sync.put.at = "sent" => k = 0)
      <4>1. new.queue[1].handle = sync.queue[1].handle
        BY <1>2, <3>1, <3>3
      <4>. QED BY <1>10, <3>3, <4>1 DEF Ordered, ExpectsOlder
    <3>. QED BY <1>1, <3>2, <3>3 DEF NoPut
  <2>7. ExpectsOlder(new)
    BY <1>3, <1>10, <2>6 DEF Ordered, ExpectsOlder
  <2>. QED BY <2>2, <2>3, <2>4, <2>5, <2>7 DEF Ordered
<1>11. ASSUME NEW h \in Handle \ {Null}, NEW stored \in Int, Safe(sync, h, stored)
       PROVE  Safe(new, h, stored)
  <2>1. h # Unset /\ h # Null
    BY Handles
  <2>2. new.latest = h /\ new.pending \in {Unset, h}
    BY <1>3, <1>11 DEF Safe
  <2>3. Knows(new, h) => stored = h
    BY <1>6, <1>11, <2>1 DEF Safe
  <2>4. Behind(new, h)
    <3> SUFFICES ASSUME NEW i \in DOMAIN new.queue, NEW j \in DOMAIN new.queue,
                        i < j, new.queue[i].handle = h
                 PROVE  new.queue[j].handle = h
      BY DEF Behind
    <3>1. i + k < j + k
      BY <1>2
    <3>. QED BY <1>2, <1>11, <3>1 DEF Safe, Behind
  <2>5. NotYet(new, h, stored)
    BY <1>2, <1>3, <1>11 DEF Safe, NotYet
  <2>6. new.put.at = "sent" /\ new.queue[1].handle # h => h \notin new.put.expected
    <3> SUFFICES ASSUME new.put.at = "sent", new.queue[1].handle # h, h \in new.put.expected
                 PROVE  FALSE
      OBVIOUS
    <3>1. 1 \in DOMAIN new.queue
      BY <1>3, HandleTypes, QueueOf
    <3>2. CASE PutStarts(new)
      <4>1. h = new.last
        BY <2>1, <3>2 DEF PutStarts, NullIfUnset, Null
      <4>2. stored = h
        BY <2>3, <4>1 DEF Knows
      <4>. QED BY <2>5, <3>1, <3>2, <4>2 DEF NotYet, PutStarts
    <3>3. CASE new.put = sync.put /\ (sync.put.at = "sent" => k = 0)
      <4>1. new.queue[1].handle = sync.queue[1].handle
        BY <1>2, <3>1, <3>3
      <4>. QED BY <1>11, <3>3, <4>1 DEF Safe, OnlyItselfExpects
    <3>. QED BY <1>1, <3>2, <3>3 DEF NoPut
  <2>7. OnlyItselfExpects(new, h)
    BY <1>3, <1>11, <2>6 DEF Safe, OnlyItselfExpects
  <2>. QED BY <2>2, <2>3, <2>4, <2>5, <2>7 DEF Safe
<1>. QED BY <1>3, <1>5, <1>6, <1>8, <1>9, <1>10, <1>11 DEF Calm

-------------------------------------------------------------------------------
\* The methods, one after the other.

LEMMA CalmTwice ==
  ASSUME NEW sync, NEW mid, NEW new, Calm(sync, mid), Calm(mid, new)
  PROVE  Calm(sync, new)
BY DEF Calm

LEMMA SafelyTwice ==
  ASSUME NEW sync, NEW mid, NEW new, Safely(sync, mid), Safely(mid, new)
  PROVE  Safely(sync, new)
<1>1. Calm(sync, new)
  BY CalmTwice DEF Safely
<1>2. KeptOn(sync, new)
  BY DEF Safely, KeptOn, Calm
<1>. QED BY <1>1, <1>2 DEF Safely

\* A method that leaves the chain as it is.
SameChain(sync, new) ==
  Lessens(sync, new) /\ new.queue = sync.queue /\ new.put = sync.put

LEMMA SameChainCalmly ==
  ASSUME NEW sync, NEW new, SyncOK(sync), SameChain(sync, new)
  PROVE  Calm(sync, new)
<1>1. Shortened(sync, new, 0)
  BY QueueOf DEF SameChain, Shortened
<1>2. Reduces(sync, new)
  BY <1>1 DEF Reduces, SameChain
<1>. QED BY <1>2, ReducesCalmly

LEMMA SameChainKept ==
  ASSUME NEW sync, NEW new, SameChain(sync, new),
         new.pending = sync.pending, new.retry = sync.retry, new.writes = sync.writes
  PROVE  Kept(new) = Kept(sync)
BY DEF SameChain, Kept

LEMMA StartSafely ==
  ASSUME NEW sync, SyncOK(sync)
  PROVE  Safely(sync, Start(sync))
<1> DEFINE writes == {i \in DOMAIN sync.queue :
                        ~sync.queue[i].stale /\ sync.queue[i].handle # sync.last}
           first == CHOOSE i \in writes : \A j \in writes : i <= j
           rest == [sync EXCEPT !.queue = SubSeq(@, first, Len(@))]
           new == Start(sync)
<1>1. SyncOK(new)
  BY StartOK DEF SyncOK
<1>2. sync \in Sync /\ sync.queue \in Seq(Entry) /\ Len(sync.queue) \in Nat
      /\ DOMAIN sync.queue = 1..Len(sync.queue)
  BY QueueOf DEF SyncOK
<1>3. CASE sync.put.at # "idle"
  <2>1. new = sync
    BY <1>3 DEF Start
  <2>. QED BY <2>1 DEF Safely, Calm, KeptOn
<1>4. CASE sync.put.at = "idle" /\ writes = {}
  <2>1. new = [sync EXCEPT !.queue = <<>>]
    BY <1>4 DEF Start
  <2>2. /\ new.put = sync.put /\ new.queue = <<>> /\ new.latest = sync.latest
        /\ new.pending = sync.pending /\ new.retry = sync.retry /\ new.last = sync.last
        /\ new.writes = sync.writes
    BY <1>2, <2>1 DEF Sync
  <2>3. Shortened(sync, new, Len(sync.queue))
    BY <1>2, <2>2 DEF Shortened
  <2>4. Lessens(sync, new)
    BY <1>1, <2>2 DEF Lessens, Knows
  <2>5. Calm(sync, new)
    BY <1>2, <1>4, <2>2, <2>3, <2>4, ReducesCalmly DEF Reduces
  <2>6. KeptOn(sync, new)
    <3> SUFFICES ASSUME NEW h \in Handle \ {Null}, NEW stored \in Int, Safe(sync, h, stored),
                        h \in Kept(sync)
                 PROVE  stored = h \/ h \in Kept(new)
      BY DEF KeptOn
    <3>1. CASE h \in {sync.pending, sync.retry} \/ \E write \in sync.writes : write.handle = h
      BY <2>2, <3>1 DEF Kept
    <3>2. CASE \E i \in DOMAIN sync.queue : ~sync.queue[i].stale /\ sync.queue[i].handle = h
      <4>1. sync.last = h
        BY <1>4, <3>2
      <4>. QED BY <4>1 DEF Safe, Knows
    <3>. QED BY <3>1, <3>2 DEF Kept
  <2>. QED BY <2>5, <2>6 DEF Safely
<1>5. CASE sync.put.at = "idle" /\ writes # {}
  <2>1. writes \subseteq 1..Len(sync.queue) /\ writes \subseteq Nat
    BY <1>2
  <2>2. PICK low \in writes : \A j \in writes : low <= j
    <3> HIDE DEF writes
    <3> QED
      BY <1>5, <2>1, SetOfNaturalsHasMinimum
  <2>3. first \in writes /\ \A j \in writes : first <= j
    <3> HIDE DEF writes
    <3> QED BY <2>2
  <2>4. first \in 1..Len(sync.queue) /\ ~sync.queue[first].stale
    BY <2>1, <2>3
  <2>5. new = Attempt(rest, 1)
    BY <1>5 DEF Start
  <2> HIDE DEF first
  <2>6. /\ new.put = [at |-> "sent", expected |-> {NullIfUnset(sync.last)}, attempt |-> 1,
                      answer |-> Unset]
        /\ new.queue = SubSeq(sync.queue, first, Len(sync.queue))
        /\ new.latest = sync.latest /\ new.pending = sync.pending /\ new.retry = sync.retry
        /\ new.last = sync.last /\ new.writes = sync.writes
    BY <1>2, <2>5 DEF Sync, Attempt
  <2>7. first - 1 \in Nat /\ first \in Int /\ first <= Len(sync.queue)
    BY <1>2, <2>4
  <2>8. /\ Len(new.queue) = Len(sync.queue) - (first - 1)
        /\ \A i \in 1..Len(new.queue) : new.queue[i] = sync.queue[i + (first - 1)]
    <3>1. \A j \in first..Len(sync.queue) : sync.queue[j] \in Entry
      BY <1>2, <2>7, QueueOf
    <3>2. /\ Len(SubSeq(sync.queue, first, Len(sync.queue))) =
             (IF first <= Len(sync.queue) THEN Len(sync.queue) - first + 1 ELSE 0)
          /\ \A i \in 1..(Len(sync.queue) - first + 1) :
               SubSeq(sync.queue, first, Len(sync.queue))[i] = sync.queue[first + i - 1]
      BY <1>2, <2>7, <3>1, SubSeqProperties
    <3>3. Len(new.queue) = Len(sync.queue) - first + 1
      BY <2>6, <2>7, <3>2
    <3>4. \A i \in 1..Len(new.queue) : i \in Int /\ first + i - 1 = i + (first - 1)
      BY <1>2, <2>7, <3>3
    <3>. QED BY <1>2, <2>6, <2>7, <3>2, <3>3, <3>4
  <2>9. Shortened(sync, new, first - 1)
    <3>1. Len(sync.queue) = Len(new.queue) + (first - 1)
      BY <1>2, <2>7, <2>8
    <3>2. \A i \in 1..Len(new.queue) :
            /\ new.queue[i].handle = sync.queue[i + (first - 1)].handle
            /\ new.queue[i].stale = sync.queue[i + (first - 1)].stale
      BY <2>8
    <3> HIDE DEF new, writes, rest
    <3>. QED BY <2>7, <3>1, <3>2 DEF Shortened
  <2>10. new.queue # <<>> /\ ~new.queue[1].stale
    <3>1. new.queue # <<>>
      BY <1>1, <2>6 DEF SyncOK
    <3>2. 1 \in DOMAIN new.queue /\ DOMAIN new.queue = 1..Len(new.queue)
      <4> HIDE DEF new
      <4>. QED BY <1>1, <3>1, QueueOf
    <3>3. new.queue[1] = sync.queue[1 + (first - 1)] /\ 1 + (first - 1) = first
      BY <2>7, <2>8, <3>2
    <3>. QED BY <2>4, <3>1, <3>3
  <2>11. PutStarts(new)
    <3>1. /\ new.put.at = "sent" /\ new.put.answer = Unset
          /\ new.put.expected = {NullIfUnset(sync.last)} /\ new.last = sync.last
      BY <2>6
    <3> HIDE DEF new
    <3>. QED BY <2>10, <3>1 DEF PutStarts
  <2>12. Lessens(sync, new)
    BY <1>1, <2>6 DEF Lessens, Knows
  <2>13. Calm(sync, new)
    BY <2>7, <2>9, <2>11, <2>12, ReducesCalmly DEF Reduces
  <2>14. KeptOn(sync, new)
    <3> SUFFICES ASSUME NEW h \in Handle \ {Null}, NEW stored \in Int, Safe(sync, h, stored),
                        h \in Kept(sync)
                 PROVE  stored = h \/ h \in Kept(new)
      BY DEF KeptOn
    <3>1. CASE h \in {sync.pending, sync.retry} \/ \E write \in sync.writes : write.handle = h
      BY <2>6, <3>1 DEF Kept
    <3>2. CASE \E i \in DOMAIN sync.queue : ~sync.queue[i].stale /\ sync.queue[i].handle = h
      <4>1. PICK i \in DOMAIN sync.queue : ~sync.queue[i].stale /\ sync.queue[i].handle = h
        BY <3>2
      <4>2. CASE sync.last = h
        BY <4>2 DEF Safe, Knows
      <4>3. CASE sync.last # h
        <5>1. i \in writes
          BY <4>1, <4>3
        <5>2. first <= i /\ i \in 1..Len(sync.queue)
          BY <1>2, <2>3, <5>1
        <5> DEFINE j == i - (first - 1)
        <5>3. j \in 1..Len(new.queue) /\ j + (first - 1) = i
          BY <1>2, <2>7, <2>8, <5>2
        <5>4. new.queue[j] = sync.queue[i] /\ j \in DOMAIN new.queue
          BY <1>1, <2>8, <5>3, QueueOf
        <5>. QED BY <4>1, <5>4 DEF Kept
      <4>. QED BY <4>2, <4>3
    <3>. QED BY <3>1, <3>2 DEF Kept
  <2>. QED BY <2>13, <2>14 DEF Safely
<1>. QED BY <1>3, <1>4, <1>5

\* A write joins the chain.
Longer(sync, new, handle) ==
  /\ new.last = sync.last /\ new.pending = sync.pending /\ new.latest = sync.latest
  /\ new.retry = sync.retry /\ new.put = sync.put /\ new.writes = sync.writes
  /\ Len(new.queue) = Len(sync.queue) + 1
  /\ \A i \in 1..Len(sync.queue) : new.queue[i] = sync.queue[i]
  /\ new.queue[Len(sync.queue) + 1].handle = handle /\ ~new.queue[Len(sync.queue) + 1].stale

LEMMA LongerPlaces ==
  ASSUME NEW sync, NEW new, SyncOK(sync), SyncOK(new), NEW handle, Longer(sync, new, handle)
  PROVE  /\ \A i \in DOMAIN new.queue : i \in Nat /\
              \/ i \in DOMAIN sync.queue /\ new.queue[i] = sync.queue[i]
              \/ i = Len(sync.queue) + 1
         /\ \A i \in DOMAIN sync.queue :
              i \in DOMAIN new.queue /\ new.queue[i] = sync.queue[i] /\ i < Len(sync.queue) + 1
         /\ Len(sync.queue) + 1 \in DOMAIN new.queue /\ Len(sync.queue) \in Nat
         /\ new.queue[Len(sync.queue) + 1].handle = handle
         /\ ~new.queue[Len(sync.queue) + 1].stale
<1>1. /\ Len(new.queue) = Len(sync.queue) + 1 /\ Len(sync.queue) \in Nat
      /\ DOMAIN new.queue = 1..Len(new.queue) /\ DOMAIN sync.queue = 1..Len(sync.queue)
  BY QueueOf DEF Longer
<1>2. /\ \A i \in 1..(Len(sync.queue) + 1) : i \in Nat /\
              (i \in 1..Len(sync.queue) \/ i = Len(sync.queue) + 1)
      /\ \A i \in 1..Len(sync.queue) : i \in 1..(Len(sync.queue) + 1) /\ i < Len(sync.queue) + 1
      /\ Len(sync.queue) + 1 \in 1..(Len(sync.queue) + 1)
  BY <1>1
<1>. QED BY <1>1, <1>2 DEF Longer

LEMMA LongerWants ==
  ASSUME NEW sync, NEW new, SyncOK(sync), SyncOK(new), NEW handle, Longer(sync, new, handle)
  PROVE  /\ \A v : Wants(new, v) => Wants(sync, v) \/ v = handle
         /\ \A v : (Knows(new, v) <=> Knows(sync, v)) /\ (Expects(new, v) <=> Expects(sync, v))
         /\ handle \in Kept(new)
<1>1. \A v : Wants(new, v) => Wants(sync, v) \/ v = handle
  BY LongerPlaces, SMTT(20) DEF Wants, Longer
<1>2. \A v : (Knows(new, v) <=> Knows(sync, v)) /\ (Expects(new, v) <=> Expects(sync, v))
  BY DEF Knows, Expects, Longer
<1>3. handle \in Kept(new)
  BY LongerPlaces DEF Kept
<1>. QED BY <1>1, <1>2, <1>3

LEMMA LongerOrdered ==
  ASSUME NEW sync, NEW new, SyncOK(sync), SyncOK(new), Longer(sync, new, sync.latest),
         sync.latest # Unset, NEW stored \in Int, Ordered(sync, stored)
  PROVE  Ordered(new, stored) /\ (OneHandle(sync) => OneHandle(new))
<1> DEFINE n == Len(sync.queue) + 1
<1>1. /\ \A i \in DOMAIN new.queue : i \in Nat /\
              \/ i \in DOMAIN sync.queue /\ new.queue[i] = sync.queue[i]
              \/ i = n
      /\ \A i \in DOMAIN sync.queue :
              i \in DOMAIN new.queue /\ new.queue[i] = sync.queue[i] /\ i < n
      /\ n \in DOMAIN new.queue /\ Len(sync.queue) \in Nat
      /\ new.queue[n].handle = sync.latest /\ ~new.queue[n].stale
  BY LongerPlaces
<1>2. /\ new.pending = sync.pending /\ new.latest = sync.latest /\ new.put = sync.put
      /\ new.writes = sync.writes
  BY DEF Longer
<1>3. \A v : Reached(new, stored, v) <=> Reached(sync, stored, v)
  BY LongerWants, <1>2 DEF Reached
<1>4. sync.latest \in Int /\ sync.latest <= sync.latest
  BY HandleTypes
<1>5. OneHandle(sync) => OneHandle(new)
  BY <1>1, <1>2 DEF OneHandle
<1>6. new.pending \in {Unset, new.latest}
  BY <1>2 DEF Ordered
<1>7. new.latest \notin {Unset, Null} =>
          /\ \A v : Reached(new, stored, v) => v <= new.latest
          /\ \A i \in DOMAIN new.queue : new.queue[i].handle <= new.latest
  BY <1>1, <1>2, <1>3, <1>4 DEF Ordered
<1>8. \A i, j \in DOMAIN new.queue :
          i < j => new.queue[j].handle = Null \/ new.queue[i].handle <= new.queue[j].handle
  <2> TAKE i, j \in DOMAIN new.queue
  <2> HAVE i < j
  <2>1. i \in DOMAIN sync.queue /\ new.queue[i] = sync.queue[i]
    <3>1. i = n => j = n
      BY <1>1
    <3>. QED BY <1>1, <3>1
  <2>2. CASE j \in DOMAIN sync.queue /\ new.queue[j] = sync.queue[j]
    BY <2>1, <2>2 DEF Ordered
  <2>3. CASE j = n
    BY <1>1, <2>1, <2>3 DEF Ordered
  <2>. QED BY <1>1, <2>2, <2>3
<1>9. \A j \in DOMAIN new.queue :
          ~new.queue[j].stale /\ new.queue[j].handle # Null =>
            \A v : Reached(new, stored, v) => v <= new.queue[j].handle
  BY <1>1, <1>3 DEF Ordered
<1>10. ExpectsOlder(new)
  <2>1. new.put.at = "sent" => new.queue[1] = sync.queue[1]
    <3> SUFFICES ASSUME new.put.at = "sent"
                 PROVE  new.queue[1] = sync.queue[1]
      OBVIOUS
    <3>1. sync.queue # <<>>
      BY <1>2 DEF SyncOK
    <3>2. 1 \in DOMAIN sync.queue
      BY <3>1, QueueOf
    <3>. QED BY <1>1, <3>2
  <2>2. ExpectsOlder(sync)
    BY DEF Ordered
  <2>. QED BY <1>2, <2>1, <2>2 DEF ExpectsOlder
<1>. QED BY <1>5, <1>6, <1>7, <1>8, <1>9, <1>10 DEF Ordered

LEMMA LongerSafe ==
  ASSUME NEW sync, NEW new, SyncOK(sync), SyncOK(new), Longer(sync, new, sync.latest),
         NEW h, NEW stored, Safe(sync, h, stored)
  PROVE  Safe(new, h, stored)
<1> DEFINE n == Len(sync.queue) + 1
<1>1. /\ \A i \in DOMAIN new.queue : i \in Nat /\
              \/ i \in DOMAIN sync.queue /\ new.queue[i] = sync.queue[i]
              \/ i = n
      /\ \A i \in DOMAIN sync.queue :
              i \in DOMAIN new.queue /\ new.queue[i] = sync.queue[i] /\ i < n
      /\ n \in DOMAIN new.queue /\ Len(sync.queue) \in Nat
      /\ new.queue[n].handle = h /\ ~new.queue[n].stale
  BY LongerPlaces DEF Safe
<1>2. /\ new.pending = sync.pending /\ new.latest = sync.latest /\ new.put = sync.put
      /\ new.writes = sync.writes
  BY DEF Longer
<1>3. Knows(new, h) => Knows(sync, h)
  BY LongerWants
<1>4. Behind(new, h)
  <2> SUFFICES ASSUME NEW i \in DOMAIN new.queue, NEW j \in DOMAIN new.queue,
                      i < j, new.queue[i].handle = h
               PROVE  new.queue[j].handle = h
    BY DEF Behind
  <2>1. i \in DOMAIN sync.queue /\ new.queue[i] = sync.queue[i]
    <3>1. i = n => j = n
      BY <1>1
    <3>. QED BY <1>1, <3>1
  <2>. QED BY <1>1, <2>1 DEF Safe, Behind
<1>5. NotYet(new, h, stored)
  BY <1>1, <1>2 DEF Safe, NotYet
<1>6. OnlyItselfExpects(new, h)
  <2>1. new.put.at = "sent" => new.queue[1] = sync.queue[1]
    <3> SUFFICES ASSUME new.put.at = "sent"
                 PROVE  new.queue[1] = sync.queue[1]
      OBVIOUS
    <3>1. sync.queue # <<>>
      BY <1>2 DEF SyncOK
    <3>2. 1 \in DOMAIN sync.queue
      BY <3>1, QueueOf
    <3>. QED BY <1>1, <3>2
  <2>2. OnlyItselfExpects(sync, h)
    BY DEF Safe
  <2>. QED BY <1>2, <2>1, <2>2 DEF OnlyItselfExpects
<1>. QED BY <1>2, <1>3, <1>4, <1>5, <1>6 DEF Safe

\* persist, up to its start.
Appended(sync, handle, waiter) ==
  [sync EXCEPT !.queue = Append(@, [handle |-> handle, stale |-> FALSE, waiters |-> waiter])]

LEMMA AppendedIsLonger ==
  ASSUME NEW sync, SyncOK(sync), NEW handle \in Handle, NEW waiter \in SUBSET (Call \cup Connect)
  PROVE  /\ SyncOK(Appended(sync, handle, waiter))
         /\ Longer(sync, Appended(sync, handle, waiter), handle)
<1> DEFINE entry == [handle |-> handle, stale |-> FALSE, waiters |-> waiter]
           new == Appended(sync, handle, waiter)
<1>1. entry \in Entry /\ entry.handle = handle /\ ~entry.stale
  BY DEF Entry
<1>2. sync \in Sync /\ sync.queue \in Seq(Entry)
  BY DEF SyncOK, Sync
<1>3. /\ new.queue = Append(sync.queue, entry)
      /\ new.last = sync.last /\ new.pending = sync.pending /\ new.latest = sync.latest
      /\ new.retry = sync.retry /\ new.put = sync.put /\ new.writes = sync.writes
      /\ new.timer = sync.timer
  BY <1>2 DEF Appended, Sync
<1>4. new = [sync EXCEPT !.queue = Append(sync.queue, entry)]
  BY DEF Appended
<1> HIDE DEF entry
<1>5. /\ Append(sync.queue, entry) \in Seq(Entry)
      /\ Append(sync.queue, entry) # <<>>
      /\ Len(Append(sync.queue, entry)) = Len(sync.queue) + 1
      /\ \A i \in 1..Len(sync.queue) : Append(sync.queue, entry)[i] = sync.queue[i]
      /\ Append(sync.queue, entry)[Len(sync.queue) + 1] = entry
  BY <1>1, <1>2, AppendProperties
<1>6. new \in Sync
  BY <1>2, <1>4, <1>5 DEF Sync
<1> HIDE DEF new
<1>7. SyncOK(new)
  BY <1>3, <1>5, <1>6 DEF SyncOK
<1>8. Longer(sync, new, handle)
  BY <1>1, <1>3, <1>5 DEF Longer
<1>. QED BY <1>7, <1>8 DEF new

LEMMA PersistSafely ==
  ASSUME NEW sync, NEW off, SyncOK(sync), SameChain(sync, off), NEW handle \in Handle,
         Wants(sync, handle), sync.pending \in {Unset, sync.latest} => handle = sync.latest,
         NEW waiter \in SUBSET (Call \cup Connect)
  PROVE  Safely(sync, Persist(off, handle, waiter))
<1> DEFINE new == Appended(off, handle, waiter)
<1>1. SyncOK(off) /\ off.latest = sync.latest /\ Calm(sync, off)
  BY SameChainCalmly DEF SameChain, Lessens
<1>2. SyncOK(new) /\ Longer(off, new, handle)
  BY <1>1, AppendedIsLonger
<1> HIDE DEF new
<1>3. new.latest = sync.latest
  BY <1>1, <1>2 DEF Longer
<1>4. \A v : Wants(new, v) => Wants(sync, v) \/ v = Unset
  BY <1>1, <1>2, LongerWants DEF Calm
<1>5. \A v : Knows(new, v) \/ Expects(new, v) =>
              Wants(sync, v) \/ Knows(sync, v) \/ Expects(sync, v) \/ v \in {Unset, Null}
  BY <1>1, <1>2, LongerWants DEF Calm
<1>6. ASSUME NEW stored \in Int, Ordered(sync, stored)
      PROVE  Ordered(new, stored) /\ (OneHandle(sync) => OneHandle(new))
  <2>1. handle = off.latest /\ off.latest # Unset
    BY <1>1, <1>6, Handles DEF Ordered
  <2>2. Ordered(off, stored) /\ (OneHandle(sync) => OneHandle(off))
    BY <1>1, <1>6 DEF Calm
  <2>3. Longer(off, new, off.latest)
    BY <1>2, <2>1
  <2>. QED BY <1>1, <1>2, <2>1, <2>2, <2>3, LongerOrdered
<1>7. ASSUME NEW h \in Handle \ {Null}, NEW stored \in Int, Safe(sync, h, stored)
      PROVE  Safe(new, h, stored)
  <2>1. handle = off.latest
    BY <1>1, <1>7 DEF Safe
  <2>2. Safe(off, h, stored)
    BY <1>1, <1>7 DEF Calm
  <2>3. Longer(off, new, off.latest)
    BY <1>2, <2>1
  <2>. QED BY <1>1, <1>2, <2>2, <2>3, LongerSafe
<1>8. Calm(sync, new)
  BY <1>2, <1>3, <1>4, <1>5, <1>6, <1>7 DEF Calm
<1>9. KeptOn(sync, new)
  <2>1. handle \in Kept(new)
    BY <1>1, <1>2, LongerWants
  <2>. QED BY <2>1 DEF KeptOn, Safe
<1>10. Safely(new, Start(new))
  BY <1>2, StartSafely
<1>11. Persist(off, handle, waiter) = Start(new)
  BY DEF Persist, Appended, new
<1>. QED BY <1>8, <1>9, <1>10, <1>11, SafelyTwice DEF Safely

LEMMA FlushPendingSafely ==
  ASSUME NEW sync, SyncOK(sync), NEW f \in Call \cup Connect
  PROVE  Safely(sync, FlushPending(sync, f))
<1> DEFINE off == [sync EXCEPT !.timer = "off", !.pending = Unset]
<1>1. sync \in Sync
  BY DEF SyncOK
<1>2. /\ off.pending = Unset /\ off.latest = sync.latest /\ off.retry = sync.retry
      /\ off.last = sync.last /\ off.writes = sync.writes /\ off.queue = sync.queue
      /\ off.put = sync.put
  BY <1>1 DEF Sync
<1>3. SyncOK(off)
  BY Handles DEF SyncOK, Sync
<1> HIDE DEF off
<1>4. SameChain(sync, off)
  BY <1>2, <1>3 DEF SameChain, Lessens, Knows
<1>5. CASE sync.pending = Unset
  <2>1. FlushPending(sync, f) = off
    BY <1>5 DEF FlushPending, off
  <2>2. KeptOn(sync, off)
    BY <1>2, <1>4, <1>5, SameChainKept DEF KeptOn
  <2>. QED BY <1>4, <2>1, <2>2, SameChainCalmly DEF Safely
<1>6. CASE sync.pending # Unset
  <2>1. FlushPending(sync, f) = Persist(off, sync.pending, {f})
    BY <1>6 DEF FlushPending, off
  <2>2. sync.pending \in Handle /\ Wants(sync, sync.pending)
    BY <1>6, Handles, HandleTypes DEF Wants
  <2>3. sync.pending \in {Unset, sync.latest} => sync.pending = sync.latest
    BY <1>6
  <2>4. {f} \in SUBSET (Call \cup Connect)
    OBVIOUS
  <2>. QED BY <1>4, <2>1, <2>2, <2>3, <2>4, PersistSafely
<1>. QED BY <1>5, <1>6

LEMMA FlushRetrySafely ==
  ASSUME NEW sync, SyncOK(sync), NEW f \in Call \cup Connect
  PROVE  Safely(sync, FlushRetry(sync, f))
<1> DEFINE off == [sync EXCEPT !.timer = "off", !.retry = Unset]
<1>1. sync \in Sync
  BY DEF SyncOK
<1>2. /\ off.pending = sync.pending /\ off.latest = sync.latest /\ off.retry = Unset
      /\ off.last = sync.last /\ off.writes = sync.writes /\ off.queue = sync.queue
      /\ off.put = sync.put
  BY <1>1 DEF Sync
<1>3. SyncOK(off)
  BY Handles DEF SyncOK, Sync
<1> HIDE DEF off
<1>4. SameChain(sync, off)
  BY <1>2, <1>3 DEF SameChain, Lessens, Knows
<1>5. CASE sync.retry = Unset \/ sync.retry # sync.latest
  <2>1. FlushRetry(sync, f) = off
    BY <1>5 DEF FlushRetry, off
  <2>2. KeptOn(sync, off)
    <3>1. \A h \in Handle \ {Null} : h # Unset
      BY Handles
    <3>. QED BY <1>2, <1>5, <3>1 DEF KeptOn, Kept, Safe
  <2>. QED BY <1>4, <2>1, <2>2, SameChainCalmly DEF Safely
<1>6. CASE sync.retry # Unset /\ sync.retry = sync.latest
  <2>1. FlushRetry(sync, f) = Persist(off, sync.retry, {f})
    BY <1>6 DEF FlushRetry, off
  <2>2. sync.retry \in Handle /\ Wants(sync, sync.retry)
    BY <1>6, Handles, HandleTypes DEF Wants
  <2>4. {f} \in SUBSET (Call \cup Connect)
    OBVIOUS
  <2>. QED BY <1>4, <1>6, <2>1, <2>2, <2>4, PersistSafely
<1>. QED BY <1>5, <1>6

LEMMA FireSafely ==
  ASSUME NEW sync, SyncOK(sync)
  PROVE  Safely(sync, Fire(sync))
<1> DEFINE off == [sync EXCEPT !.timer = "off"]
           taken == [off EXCEPT !.pending = Unset]
           again == [off EXCEPT !.retry = Unset]
<1>1. sync \in Sync
  BY DEF SyncOK
<1>2. SameChain(sync, off) /\ KeptOn(sync, off)
  <2>1. /\ off.pending = sync.pending /\ off.latest = sync.latest /\ off.retry = sync.retry
        /\ off.last = sync.last /\ off.writes = sync.writes /\ off.queue = sync.queue
        /\ off.put = sync.put
    BY <1>1 DEF Sync
  <2>2. SyncOK(off)
    BY Handles DEF SyncOK, Sync
  <2> HIDE DEF off
  <2>3. SameChain(sync, off)
    BY <2>1, <2>2 DEF SameChain, Lessens, Knows
  <2>. QED BY <2>1, <2>3, SameChainKept DEF KeptOn
<1>3. SameChain(sync, taken)
  <2>1. /\ taken.pending = Unset /\ taken.latest = sync.latest /\ taken.retry = sync.retry
        /\ taken.last = sync.last /\ taken.writes = sync.writes /\ taken.queue = sync.queue
        /\ taken.put = sync.put
    BY <1>1 DEF Sync
  <2>2. SyncOK(taken)
    BY Handles DEF SyncOK, Sync
  <2> HIDE DEF taken
  <2>. QED BY <2>1, <2>2 DEF SameChain, Lessens, Knows
<1>4. SameChain(sync, again)
  <2>1. /\ again.pending = sync.pending /\ again.latest = sync.latest /\ again.retry = Unset
        /\ again.last = sync.last /\ again.writes = sync.writes /\ again.queue = sync.queue
        /\ again.put = sync.put
    BY <1>1 DEF Sync
  <2>2. SyncOK(again)
    BY Handles DEF SyncOK, Sync
  <2> HIDE DEF again
  <2>. QED BY <2>1, <2>2 DEF SameChain, Lessens, Knows
<1>5. CASE sync.timer = "write" /\ sync.pending # Unset
  <2>1. Fire(sync) = Persist(taken, sync.pending, {})
    BY <1>5 DEF Fire
  <2> HIDE DEF taken, off
  <2>2. sync.pending \in Handle /\ Wants(sync, sync.pending)
    BY <1>5, Handles, HandleTypes DEF Wants
  <2>3. sync.pending \in {Unset, sync.latest} => sync.pending = sync.latest
    BY <1>5
  <2>. QED BY <1>3, <2>1, <2>2, <2>3, PersistSafely
<1>6. CASE sync.timer = "retry" /\ sync.retry # Unset /\ sync.retry = sync.latest
  <2>1. Fire(sync) = Persist(again, sync.retry, {})
    BY <1>6 DEF Fire
  <2> HIDE DEF again, off
  <2>2. sync.retry \in Handle /\ Wants(sync, sync.retry)
    BY <1>6, Handles, HandleTypes DEF Wants
  <2>. QED BY <1>4, <1>6, <2>1, <2>2, PersistSafely
<1>7. CASE ~(sync.timer = "write" /\ sync.pending # Unset)
           /\ ~(sync.timer = "retry" /\ sync.retry # Unset /\ sync.retry = sync.latest)
  <2>1. Fire(sync) = off
    BY <1>7 DEF Fire
  <2>. QED BY <1>2, <2>1, SameChainCalmly DEF Safely
<1>. QED BY <1>5, <1>6, <1>7

\* The write at the head of the chain is done; the newest handle is not in it, or known.
SettlesSafely(sync, done) ==
  /\ SameChain(sync, done) /\ KeptOn(sync, done)
  /\ \A h \in Handle \ {Null}, stored \in Int :
       Safe(sync, h, stored) /\ ~sync.queue[1].stale /\ sync.queue[1].handle = h =>
         stored = h \/ done.pending = h

LEMMA SettleSafely ==
  ASSUME NEW sync, NEW done, SyncOK(sync), sync.put.at # "idle", SettlesSafely(sync, done)
  PROVE  Safely(sync, Settle(done))
<1> DEFINE new == [done EXCEPT !.queue = Tail(@), !.put = NoPut]
<1>1. SyncOK(done) /\ done \in Sync /\ done.put.at # "idle" /\ done.queue = sync.queue
  BY DEF SettlesSafely, SameChain, Lessens, SyncOK
<1>2. /\ done.queue \in Seq(Entry) /\ done.queue # <<>> /\ Len(done.queue) \in Nat
      /\ DOMAIN done.queue = 1..Len(done.queue)
  BY <1>1, QueueOf DEF SyncOK
<1>3. /\ Tail(done.queue) \in Seq(Entry) /\ Len(done.queue) = Len(Tail(done.queue)) + 1
      /\ Len(Tail(done.queue)) \in Nat
      /\ \A i \in 1..Len(Tail(done.queue)) : Tail(done.queue)[i] = done.queue[i + 1]
  BY <1>2, HeadTailProperties
<1>4. /\ new.queue = Tail(done.queue) /\ new.put = NoPut /\ new.latest = done.latest
      /\ new.pending = done.pending /\ new.retry = done.retry /\ new.last = done.last
      /\ new.writes = done.writes
  BY <1>1 DEF Sync
<1>5. SyncOK(new)
  <2>1. NoPut \in Put
    BY Handles DEF NoPut, Put
  <2>2. new \in Sync /\ new.put.at = "idle"
    BY <1>1, <1>3, <2>1 DEF Sync, NoPut
  <2>. QED BY <2>2 DEF SyncOK
<1>6. Shortened(done, new, 1)
  BY <1>3, <1>4 DEF Shortened
<1>7. Settle(done) = Start(new)
  BY DEF Settle
<1> HIDE DEF new
<1>8. Lessens(done, new)
  BY <1>4, <1>5 DEF Lessens, Knows
<1>9. Reduces(done, new)
  BY <1>4, <1>6, <1>8 DEF Reduces
<1>10. Calm(sync, new)
  BY <1>1, <1>9, ReducesCalmly, SameChainCalmly, CalmTwice DEF SettlesSafely
<1>11. KeptOn(sync, new)
  <2> SUFFICES ASSUME NEW h \in Handle \ {Null}, NEW stored \in Int, Safe(sync, h, stored),
                      h \in Kept(sync), stored # h
               PROVE  h \in Kept(new)
    BY DEF KeptOn
  <2>1. h \in Kept(done)
    BY DEF SettlesSafely, KeptOn
  <2>2. CASE h \in {done.pending, done.retry} \/ \E write \in done.writes : write.handle = h
    BY <1>4, <2>2 DEF Kept
  <2>3. CASE \E i \in DOMAIN done.queue : ~done.queue[i].stale /\ done.queue[i].handle = h
    <3>1. PICK i \in DOMAIN done.queue : ~done.queue[i].stale /\ done.queue[i].handle = h
      BY <2>3
    <3>2. CASE i = 1
      <4>1. done.pending = h
        BY <1>1, <3>1, <3>2 DEF SettlesSafely
      <4>. QED BY <1>4, <4>1 DEF Kept
    <3>3. CASE i # 1
      <4> DEFINE j == i - 1
      <4>1. j \in 1..Len(Tail(done.queue)) /\ j + 1 = i
        BY <1>2, <1>3, <3>3
      <4>2. Tail(done.queue)[j] = done.queue[i]
        BY <1>3, <4>1
      <4>3. DOMAIN new.queue = 1..Len(Tail(done.queue))
        BY <1>4, <1>5, QueueOf
      <4>. QED BY <1>4, <3>1, <4>1, <4>2, <4>3 DEF Kept
    <3>. QED BY <3>2, <3>3
  <2>. QED BY <2>1, <2>2, <2>3 DEF Kept
<1>12. Safely(new, Start(new))
  BY <1>5, StartSafely
<1>. QED BY <1>7, <1>10, <1>11, <1>12, SafelyTwice DEF Safely

\* The head of a chain whose write has started.
LEMMA HeadIsFirst ==
  ASSUME NEW sync, SyncOK(sync), sync.put.at # "idle"
  PROVE  Head(sync.queue) = sync.queue[1] /\ sync.queue # <<>> /\ 1 \in DOMAIN sync.queue
<1>1. sync.queue # <<>> /\ sync.queue \in Seq(Entry)
  BY QueueOf DEF SyncOK
<1>2. Len(sync.queue) \in Nat /\ Len(sync.queue) # 0
  BY <1>1, EmptySeq
<1>. QED BY <1>1, <1>2, QueueOf

LEMMA PutFailedSafely ==
  ASSUME NEW sync, SyncOK(sync), sync.put.at # "idle"
  PROVE  Safely(sync, PutFailed(sync))
<1> DEFINE head == Head(sync.queue)
           again == [sync EXCEPT !.pending = head.handle, !.timer = "write"]
<1>1. sync \in Sync /\ head = sync.queue[1] /\ head.handle \in Handle
  BY HeadIsFirst, HeadOK DEF SyncOK
<1>2. CASE sync.latest = head.handle /\ sync.pending = Unset
  <2>1. PutFailed(sync) = Settle(again)
    BY <1>2 DEF PutFailed
  <2>2. /\ again.pending = sync.latest /\ again.latest = sync.latest /\ again.retry = sync.retry
        /\ again.last = sync.last /\ again.writes = sync.writes /\ again.queue = sync.queue
        /\ again.put = sync.put
    BY <1>1, <1>2 DEF Sync
  <2>3. SyncOK(again)
    BY <1>1, Handles DEF SyncOK, Sync
  <2> HIDE DEF again, head
  <2>4. SameChain(sync, again)
    BY <2>2, <2>3 DEF SameChain, Lessens, Knows
  <2>5. SettlesSafely(sync, again)
    BY <2>2, <2>4 DEF SettlesSafely, KeptOn, Kept, Safe
  <2>. QED BY <2>1, <2>5, SettleSafely
<1>3. CASE ~(sync.latest = head.handle /\ sync.pending = Unset)
  <2>1. PutFailed(sync) = Settle(sync)
    BY <1>3 DEF PutFailed
  <2>2. SameChain(sync, sync)
    BY DEF SameChain, Lessens, Knows
  <2>3. SettlesSafely(sync, sync)
    BY <1>1, <1>3, <2>2 DEF SettlesSafely, KeptOn, Safe
  <2>. QED BY <2>1, <2>3, SettleSafely
<1>. QED BY <1>2, <1>3

LEMMA PutAnsweredSafely ==
  ASSUME NEW sync, SyncOK(sync), sync.put.at # "idle", sync.put.answer # Unset
  PROVE  Safely(sync, PutAnswered(sync))
<1> DEFINE head == Head(sync.queue)
           told == [sync EXCEPT !.last = sync.put.answer]
           later == [told EXCEPT !.pending = IF @ = Unset THEN head.handle ELSE @]
           again == Attempt(told, 2)
<1>1. /\ sync \in Sync /\ head = sync.queue[1] /\ head.handle \in Handle /\ sync.queue # <<>>
      /\ sync.put.answer \in HandleOrUnset
  BY HeadIsFirst, HeadOK, HandleTypes DEF SyncOK
<1>2. /\ told.pending = sync.pending /\ told.latest = sync.latest /\ told.retry = sync.retry
      /\ told.last = sync.put.answer /\ told.writes = sync.writes /\ told.queue = sync.queue
      /\ told.put = sync.put
  BY <1>1 DEF Sync
<1>3. SyncOK(told) /\ told \in Sync
  BY <1>1 DEF SyncOK, Sync
<1>4. SameChain(sync, told) /\ KeptOn(sync, told)
  <2> HIDE DEF told
  <2>1. SameChain(sync, told)
    BY <1>2, <1>3 DEF SameChain, Lessens, Knows
  <2>. QED BY <1>2, <2>1, SameChainKept DEF KeptOn
<1>5. CASE told.last = head.handle \/ head.stale \/ sync.latest # head.handle
  <2>1. PutAnswered(sync) = Settle(told)
    BY <1>5 DEF PutAnswered
  <2> HIDE DEF told, head
  <2>2. SettlesSafely(sync, told)
    BY <1>1, <1>2, <1>4, <1>5 DEF SettlesSafely, Safe, Knows
  <2>. QED BY <2>1, <2>2, SettleSafely
<1>6. CASE /\ ~(told.last = head.handle \/ head.stale \/ sync.latest # head.handle)
           /\ sync.put.attempt = 1
  <2>1. PutAnswered(sync) = again
    BY <1>6 DEF PutAnswered
  <2>2. SyncOK(again)
    <3>1. told \in Sync /\ told.queue # <<>> /\ 2 \in 1..2
      BY <1>1, <1>2, <1>3
    <3> HIDE DEF told
    <3>. QED BY <3>1, AttemptOK
  <2>3. /\ again.pending = sync.pending /\ again.latest = sync.latest
        /\ again.retry = sync.retry /\ again.last = sync.put.answer
        /\ again.writes = sync.writes /\ again.queue = sync.queue
        /\ again.put = [at |-> "sent", expected |-> {NullIfUnset(sync.put.answer)}, attempt |-> 2,
                        answer |-> Unset]
    BY <1>1, <1>2, <1>3 DEF Attempt, Sync
  <2>4. /\ again.put.at = "sent" /\ again.put.expected = {NullIfUnset(again.last)}
        /\ again.put.answer = Unset
    BY <2>3
  <2> HIDE DEF told, again, head
  <2>5. Shortened(sync, again, 0)
    BY <2>3, QueueOf DEF Shortened
  <2>6. PutStarts(again)
    BY <1>1, <1>6, <2>3, <2>4 DEF PutStarts
  <2>7. Lessens(sync, again)
    BY <2>2, <2>3 DEF Lessens, Knows
  <2>8. Calm(sync, again)
    BY <2>5, <2>6, <2>7, ReducesCalmly DEF Reduces
  <2>9. KeptOn(sync, again)
    BY <2>3 DEF KeptOn, Kept
  <2>. QED BY <2>1, <2>8, <2>9 DEF Safely
<1>7. CASE /\ ~(told.last = head.handle \/ head.stale \/ sync.latest # head.handle)
           /\ sync.put.attempt # 1
  <2>1. PutAnswered(sync) = Settle(later)
    BY <1>7 DEF PutAnswered
  <2>2. /\ later.pending = (IF sync.pending = Unset THEN head.handle ELSE sync.pending)
        /\ later.latest = sync.latest /\ later.retry = sync.retry
        /\ later.last = sync.put.answer /\ later.writes = sync.writes /\ later.queue = sync.queue
        /\ later.put = sync.put
    BY <1>1 DEF Sync
  <2>3. SyncOK(later)
    <3> HIDE DEF head, told
    <3>1. (IF told.pending = Unset THEN head.handle ELSE told.pending) \in HandleOrUnset
      BY <1>1, <1>2, Handles, HandleTypes
    <3>2. later = [told EXCEPT !.pending = IF told.pending = Unset THEN head.handle ELSE told.pending]
      OBVIOUS
    <3>. QED BY <1>3, <3>1, <3>2 DEF SyncOK, Sync
  <2> HIDE DEF later, told, head
  <2>4. SameChain(sync, later)
    BY <1>7, <2>2, <2>3 DEF SameChain, Lessens, Knows
  <2>5. SettlesSafely(sync, later)
    BY <1>7, <2>2, <2>4 DEF SettlesSafely, KeptOn, Kept, Safe
  <2>. QED BY <2>1, <2>5, SettleSafely
<1>. QED BY <1>5, <1>6, <1>7

LEMMA LifecycleReturnsSafely ==
  ASSUME NEW sync, SyncOK(sync), NEW write \in sync.writes
  PROVE  /\ Safely(sync, LifecycleFailed(sync, write))
         /\ Safely(sync, LifecycleAnswered(sync, write))
<1> DEFINE failed == LifecycleFailed(sync, write)
           answered == LifecycleAnswered(sync, write)
<1>1. sync \in Sync /\ SyncOK(failed) /\ SyncOK(answered)
  BY LifecycleReturnedOK DEF SyncOK
<1>2. /\ failed.pending = sync.pending /\ failed.latest = sync.latest
      /\ failed.retry = (IF sync.latest = write.handle THEN write.handle ELSE sync.retry)
      /\ failed.last = sync.last /\ failed.writes = sync.writes \ {write}
      /\ failed.queue = sync.queue /\ failed.put = sync.put
  BY <1>1 DEF LifecycleFailed, QueueRetry, Sync
<1>3. /\ answered.pending = sync.pending /\ answered.latest = sync.latest
      /\ answered.retry = (IF write.answer # write.handle /\ sync.latest = write.handle
                           THEN write.handle
                           ELSE IF sync.retry = write.handle THEN Unset ELSE sync.retry)
      /\ answered.last = write.answer /\ answered.writes = sync.writes \ {write}
      /\ answered.queue = sync.queue /\ answered.put = sync.put
  BY <1>1 DEF LifecycleAnswered, QueueRetry, Sync
<1> HIDE DEF failed, answered
<1>4. SameChain(sync, failed)
  BY <1>1, <1>2 DEF SameChain, Lessens, Knows
<1>5. SameChain(sync, answered)
  BY <1>1, <1>3 DEF SameChain, Lessens, Knows
<1>6. KeptOn(sync, failed)
  <2> SUFFICES ASSUME NEW h \in Handle \ {Null}, NEW stored \in Int, Safe(sync, h, stored),
                      h \in Kept(sync)
               PROVE  h \in Kept(failed)
    BY DEF KeptOn
  <2>1. sync.latest = h
    BY DEF Safe
  <2>. QED BY <1>2, <2>1 DEF Kept
<1>7. KeptOn(sync, answered)
  <2> SUFFICES ASSUME NEW h \in Handle \ {Null}, NEW stored \in Int, Safe(sync, h, stored),
                      h \in Kept(sync)
               PROVE  stored = h \/ h \in Kept(answered)
    BY DEF KeptOn
  <2>1. sync.latest = h /\ (write.answer = h => stored = h)
    BY DEF Safe, Knows
  <2>. QED BY <1>3, <2>1 DEF Kept
<1>. QED BY <1>4, <1>5, <1>6, <1>7, SameChainCalmly DEF Safely, failed, answered

LEMMA AwaitSafely ==
  ASSUME NEW sync, SyncOK(sync), NEW f \in Call \cup Connect
  PROVE  Safely(sync, Await(sync, f))
<1>1. CASE sync.queue = <<>>
  <2>1. Await(sync, f) = sync
    BY <1>1 DEF Await
  <2>. QED BY <2>1 DEF Safely, Calm, KeptOn
<1>2. CASE sync.queue # <<>>
  <2> DEFINE n == Len(sync.queue)
             entry == [sync.queue[n] EXCEPT !.waiters = @ \cup {f}]
             longer == [sync.queue EXCEPT ![n] = entry]
             new == [sync EXCEPT !.queue = longer]
  <2>1. Await(sync, f) = new
    BY <1>2 DEF Await
  <2>2. SyncOK(new)
    BY <2>1, AwaitOK
  <2>3. sync \in Sync /\ sync.queue \in Seq(Entry) /\ n \in DOMAIN sync.queue
    BY <1>2, QueueOf, EmptySeq DEF SyncOK
  <2>4. entry.handle = sync.queue[n].handle /\ entry.stale = sync.queue[n].stale
    BY <2>3, QueueOf DEF Entry
  <2>5. /\ Len(longer) = Len(sync.queue)
        /\ \A i \in DOMAIN sync.queue : /\ longer[i].handle = sync.queue[i].handle
                                        /\ longer[i].stale = sync.queue[i].stale
    <3> HIDE DEF entry
    <3>. QED BY <2>3, <2>4
  <2>6. /\ new.queue = longer /\ new.put = sync.put /\ new.latest = sync.latest
        /\ new.pending = sync.pending /\ new.retry = sync.retry /\ new.last = sync.last
        /\ new.writes = sync.writes
    BY <2>3 DEF Sync
  <2> HIDE DEF new, longer, entry
  <2>7. /\ Len(new.queue) = Len(sync.queue) /\ DOMAIN new.queue = DOMAIN sync.queue
        /\ \A i \in DOMAIN sync.queue : /\ new.queue[i].handle = sync.queue[i].handle
                                        /\ new.queue[i].stale = sync.queue[i].stale
    BY <2>2, <2>5, <2>6, QueueOf
  <2>8. Shortened(sync, new, 0)
    <3>1. \A i \in 1..Len(new.queue) : i + 0 = i
      BY <2>3, <2>7, QueueOf
    <3>. QED BY <2>7, <3>1, QueueOf DEF Shortened
  <2>9. Lessens(sync, new)
    BY <2>2, <2>6 DEF Lessens, Knows
  <2>10. Calm(sync, new)
    BY <2>6, <2>8, <2>9, ReducesCalmly DEF Reduces
  <2>11. KeptOn(sync, new)
    BY <2>6, <2>7 DEF KeptOn, Kept
  <2>. QED BY <2>1, <2>10, <2>11 DEF Safely
<1>. QED BY <1>1, <1>2

LEMMA DisposeCalmly ==
  ASSUME NEW sync, SyncOK(sync)
  PROVE  Calm(sync, Dispose(sync))
<1> DEFINE new == Dispose(sync)
<1>1. sync \in Sync
  BY DEF SyncOK
<1>2. /\ new.queue = sync.queue /\ new.put = sync.put /\ new.latest = sync.latest
      /\ new.pending = Unset /\ new.retry = Unset /\ new.last = Unset
      /\ new.writes = sync.writes
  BY <1>1 DEF Sync, Dispose
<1>3. SyncOK(new)
  BY Handles DEF SyncOK, Sync, Dispose
<1> HIDE DEF new
<1>4. SameChain(sync, new)
  BY <1>2, <1>3 DEF SameChain, Lessens, Knows
<1>. QED BY <1>4, SameChainCalmly DEF new

\* The writes of a page that is being hidden.
LEMMA HiddenSafely ==
  ASSUME NEW sync, SyncOK(sync), ~WritesLifecycle(sync)
  PROVE  Safely(sync, FlushForLifecycle(sync))
<1> DEFINE new == Hidden(sync)
<1>1. FlushForLifecycle(sync) = new /\ SyncOK(new) /\ sync \in Sync
  BY FlushForLifecycleOK DEF FlushForLifecycle, SyncOK
<1>2. /\ new.queue = sync.queue /\ new.put = sync.put /\ new.latest = sync.latest
      /\ new.pending = Unset /\ new.last = sync.last /\ new.writes = sync.writes
      /\ new.retry \in {Unset, sync.retry}
  BY <1>1 DEF Sync, Hidden
<1> HIDE DEF new
<1>3. SameChain(sync, new)
  BY <1>1, <1>2 DEF SameChain, Lessens, Knows
<1>4. KeptOn(sync, new)
  <2> SUFFICES ASSUME NEW h \in Handle \ {Null}, NEW stored \in Int, Safe(sync, h, stored)
               PROVE  stored = h \/ h \in Kept(new)
    BY DEF KeptOn
  <2>1. LifecycleHandle(sync) = h /\ h # Unset
    BY Handles DEF LifecycleHandle, Safe, Null
  <2>2. CASE sync.last = h
    BY <2>2 DEF Safe, Knows
  <2>3. CASE \E write \in sync.writes : write.handle = h
    BY <1>2, <2>3 DEF Kept
  <2>. QED BY <2>1, <2>2, <2>3 DEF WritesLifecycle
<1>. QED BY <1>1, <1>3, <1>4, SameChainCalmly DEF Safely

LEMMA LifecycleWriteSafely ==
  ASSUME NEW sync, SyncOK(sync), WritesLifecycle(sync)
  PROVE  Safely(sync, FlushForLifecycle(sync))
<1> DEFINE new == FlushForLifecycle(sync)
           handle == LifecycleHandle(sync)
           write == [handle |-> handle, at |-> "sent", expected |-> Predecessors(sync),
                     answer |-> Unset]
<1>1. SyncOK(new) /\ sync \in Sync /\ Hidden(sync).put = sync.put
      /\ Hidden(sync).queue = sync.queue /\ Hidden(sync).writes = sync.writes
  BY FlushForLifecycleOK DEF SyncOK, Hidden, Sync
<1>2. /\ new.put = sync.put /\ new.latest = sync.latest
      /\ new.pending = Unset /\ new.last = sync.last /\ new.writes = sync.writes \cup {write}
      /\ new.retry \in {Unset, sync.retry}
      /\ new.queue = [i \in DOMAIN sync.queue |-> [sync.queue[i] EXCEPT !.stale = TRUE]]
  BY <1>1 DEF FlushForLifecycle, Hidden, Sync
<1>3. /\ DOMAIN new.queue = DOMAIN sync.queue
      /\ \A i \in DOMAIN sync.queue : new.queue[i].handle = sync.queue[i].handle
                                      /\ new.queue[i].stale
  BY <1>2, QueueOf DEF Entry
<1>4. /\ write.handle = handle /\ write.expected = Predecessors(sync) /\ write.answer = Unset
      /\ handle # Unset /\ handle \in {sync.pending, sync.latest}
      /\ (sync.pending \in {Unset, sync.latest} => handle = sync.latest)
  BY DEF WritesLifecycle, LifecycleHandle
<1>5. \A v \in Predecessors(sync) :
        \/ v = Null \/ v = sync.last \/ \E old \in sync.writes : old.handle = v
        \/ 1 \in DOMAIN sync.queue /\ v = sync.queue[1].handle
  BY HeadIsFirst DEF Predecessors, InFlight, NullIfUnset, Null
<1> HIDE DEF new, write, handle
<1>6. \A v : Wants(new, v) => Wants(sync, v) \/ v = Unset
  BY <1>2, <1>3, <1>4 DEF Wants
<1>7. \A v : Knows(new, v) => Knows(sync, v) \/ v = Unset
  BY <1>2, <1>4 DEF Knows
<1>8. \A v : Expects(new, v) => Wants(sync, v) \/ Knows(sync, v) \/ Expects(sync, v) \/ v = Null
  BY <1>2, <1>4, <1>5 DEF Expects, Wants, Knows
<1>9. ASSUME NEW stored \in Int, Ordered(sync, stored)
      PROVE  Ordered(new, stored) /\ (OneHandle(sync) => OneHandle(new))
  <2>1. handle = sync.latest
    BY <1>4, <1>9 DEF Ordered
  <2>2. \A v : Reached(new, stored, v) => Reached(sync, stored, v) \/ v = Unset \/ v = sync.latest
    BY <1>2, <1>4, <1>7, <2>1 DEF Reached
  <2>3. new.latest \notin {Unset, Null} =>
          /\ \A v : Reached(new, stored, v) => v <= new.latest
          /\ \A i \in DOMAIN new.queue : new.queue[i].handle <= new.latest
    <3>1. sync.latest <= sync.latest /\ (sync.latest # Unset => Unset <= sync.latest)
      BY HandleTypes DEF Unset
    <3>. QED BY <1>2, <1>3, <1>9, <2>2, <3>1 DEF Ordered
  <2>4. \A old \in new.writes :
          old.handle # Null => \A v \in old.expected : v <= old.handle
    <3>1. \A old \in sync.writes :
            old.handle # Null => \A v \in old.expected : v <= old.handle
      BY <1>9 DEF Ordered, ExpectsOlder
    <3>2. ASSUME handle # Null, NEW v \in Predecessors(sync)
          PROVE  v <= handle
      <4>1. sync.latest \notin {Unset, Null} /\ Null <= sync.latest
        BY <1>4, <2>1, <3>2, HandleTypes, Handles DEF Null, Unset, HandleOrUnset
      <4>2. \A u : Reached(sync, stored, u) => u <= sync.latest
        BY <1>9, <4>1 DEF Ordered
      <4>3. \A i \in DOMAIN sync.queue : sync.queue[i].handle <= sync.latest
        BY <1>9, <4>1 DEF Ordered
      <4>. QED BY <1>5, <2>1, <3>2, <4>1, <4>2, <4>3 DEF Reached, Knows
    <3>. QED BY <1>2, <1>4, <3>1, <3>2
  <2>5. ExpectsOlder(new)
    <3>1. new.put.at = "sent" => new.queue[1].handle = sync.queue[1].handle
      BY <1>2, <1>3, HeadIsFirst
    <3>. QED BY <1>2, <1>9, <2>4, <3>1 DEF Ordered, ExpectsOlder
  <2>6. Ordered(new, stored)
    BY <1>2, <1>3, <1>9, <2>3, <2>5 DEF Ordered
  <2>. QED BY <1>2, <1>3, <2>6 DEF OneHandle
<1>10. ASSUME NEW h \in Handle \ {Null}, NEW stored \in Int, Safe(sync, h, stored)
       PROVE  Safe(new, h, stored)
  <2>1. handle = h
    BY <1>4, <1>10 DEF Safe
  <2>2. Knows(new, h) => stored = h
    BY <1>7, <1>10, Handles DEF Safe
  <2>3. Behind(new, h) /\ NotYet(new, h, stored)
    BY <1>3, <1>10 DEF Safe, Behind, NotYet
  <2>4. OnlyItselfExpects(new, h)
    <3>1. new.put.at = "sent" => new.queue[1].handle = sync.queue[1].handle
      BY <1>2, <1>3, HeadIsFirst
    <3>. QED BY <1>2, <1>4, <1>10, <2>1, <3>1 DEF Safe, OnlyItselfExpects
  <2>. QED BY <1>2, <1>10, <2>2, <2>3, <2>4 DEF Safe
<1>11. Calm(sync, new)
  BY <1>1, <1>2, <1>6, <1>7, <1>8, <1>9, <1>10 DEF Calm
<1>12. KeptOn(sync, new)
  <2> SUFFICES ASSUME NEW h \in Handle \ {Null}, NEW stored \in Int, Safe(sync, h, stored)
               PROVE  h \in Kept(new)
    BY DEF KeptOn
  <2>1. handle = h
    BY <1>4 DEF Safe
  <2>2. write \in new.writes /\ write.handle = h
    BY <1>2, <1>4, <2>1
  <2>. QED BY <2>2 DEF Kept
<1>. QED BY <1>11, <1>12 DEF Safely, new

LEMMA FlushForLifecycleSafely ==
  ASSUME NEW sync, SyncOK(sync)
  PROVE  Safely(sync, FlushForLifecycle(sync))
BY HiddenSafely, LifecycleWriteSafely

\* The handle that the sync has heard of last, once more: nothing is new.
LEMMA RepeatSafely ==
  ASSUME NEW sync, SyncOK(sync), sync.latest \in HandleOrUnset \ {Unset, Null}
  PROVE  Safely(sync, Schedule(sync, sync.latest))
<1> DEFINE new == Schedule(sync, sync.latest)
<1>1. sync.latest \in Handle
  BY VoiceAssumption DEF Handle, HandleOrUnset, Unset
<1>2. SyncOK(new)
  BY <1>1, ScheduleOK
<1>3. /\ new.latest = sync.latest /\ new.retry \in {sync.retry, Unset}
      /\ new.last = sync.last /\ new.writes = sync.writes /\ new.queue = sync.queue
      /\ new.put = sync.put
      /\ sync.retry = sync.latest => new.retry = sync.latest
      /\ sync.last # sync.latest => new.pending = sync.latest
      /\ sync.last = sync.latest => new.pending \in {sync.pending, Unset}
  BY DEF SyncOK, Sync, Schedule
<1> HIDE DEF new
<1>4. Calm(sync, new)
  <2>1. Shortened(sync, new, 0)
    BY <1>3, QueueOf DEF Shortened
  <2>2. new.last = Unset \/ Knows(sync, new.last)
    BY <1>3 DEF Knows
  <2>3. Lessens(sync, new)
    BY <1>2, <1>3, <2>2 DEF Lessens
  <2>4. Reduces(sync, new)
    BY <1>3, <2>1, <2>3 DEF Reduces
  <2>. QED BY <2>4, ReducesCalmly
<1>5. KeptOn(sync, new)
  <2> SUFFICES ASSUME NEW h \in Handle \ {Null}, NEW stored \in Int, Safe(sync, h, stored)
               PROVE  stored = h \/ h \in Kept(new)
    BY DEF KeptOn
  <2>1. h = sync.latest /\ (sync.last = h => stored = h)
    BY DEF Safe, Knows
  <2>. QED BY <1>3, <2>1 DEF Kept
<1>. QED BY <1>4, <1>5 DEF Safely, new

\* A sync that its connect has just made knows what the lease stored.
LEMMA NewSyncOrdered ==
  /\ \A stored \in Int : Ordered(NewSync, stored)
  /\ \A stored \in Handle : Ordered(NoteKnown(NewSync, stored), stored)
                            /\ OneHandle(NoteKnown(NewSync, stored))
<1>1. NewSync.queue = <<>> /\ DOMAIN NewSync.queue = {}
  BY DEF NewSync
<1>2. /\ NewSync.latest = Unset /\ NewSync.pending = Unset /\ NewSync.writes = {}
      /\ NewSync.put.at = "idle" /\ NewSync.put.answer = Unset
  BY DEF NewSync, NoPut
<1>3. \A stored \in Int : Ordered(NewSync, stored)
  BY <1>1, <1>2 DEF Ordered, ExpectsOlder
<1>4. ASSUME NEW stored \in Handle
      PROVE  Ordered(NoteKnown(NewSync, stored), stored) /\ OneHandle(NoteKnown(NewSync, stored))
  <2> DEFINE new == NoteKnown(NewSync, stored)
  <2>1. /\ new.queue = <<>> /\ DOMAIN new.queue = {} /\ new.latest = stored /\ new.pending = Unset
        /\ new.last = stored /\ new.writes = {} /\ new.put.at = "idle" /\ new.put.answer = Unset
    BY Handles DEF NoteKnown, NewSync, NoPut
  <2>2. stored \in Int /\ Unset <= stored /\ stored <= stored
    BY VoiceAssumption DEF Handle, Unset
  <2> HIDE DEF new
  <2>3. \A v : Reached(new, stored, v) => v \in {stored, Unset}
    BY <2>1 DEF Reached, Knows
  <2>4. Ordered(new, stored)
    BY <2>1, <2>2, <2>3 DEF Ordered, ExpectsOlder
  <2>. QED BY <2>1, <2>4 DEF OneHandle, new
<1>. QED BY <1>3, <1>4

\* clear: the handle is to be removed.
LEMMA ClearRemoteKeepsOrder ==
  ASSUME NEW sync, SyncOK(sync), NEW c \in Connect
  PROVE  LET new == ClearRemote(sync, c) IN
         /\ SyncOK(new) /\ new.latest = Null
         /\ \A v : Wants(new, v) => Wants(sync, v) \/ v \in {Unset, Null}
         /\ \A v : Knows(new, v) \/ Expects(new, v) =>
              Wants(sync, v) \/ Knows(sync, v) \/ Expects(sync, v) \/ v \in {Unset, Null}
         /\ \A stored \in Int : Ordered(sync, stored) => Ordered(new, stored)
<1> DEFINE off == [sync EXCEPT !.timer = "off", !.pending = Unset, !.latest = 0]
           longer == Appended(off, 0, {c})
           new == Start(longer)
<1>1. sync \in Sync /\ 0 \in Handle /\ {c} \in SUBSET (Call \cup Connect)
  BY Handles DEF SyncOK
<1>2. SyncOK(off)
  BY Handles DEF SyncOK, Sync
<1>3. /\ off.pending = Unset /\ off.latest = 0 /\ off.retry = sync.retry
      /\ off.last = sync.last /\ off.writes = sync.writes /\ off.queue = sync.queue
      /\ off.put = sync.put
  BY <1>1 DEF Sync
<1>4. ClearRemote(sync, c) = new
  BY DEF ClearRemote, Persist, Appended
<1> HIDE DEF off
<1>5. SyncOK(longer) /\ Longer(off, longer, 0)
  BY <1>1, <1>2, AppendedIsLonger
<1> HIDE DEF longer
<1>6. SyncOK(new) /\ Calm(longer, new)
  BY <1>5, StartSafely DEF Safely, Calm
<1> HIDE DEF new
<1>7. \A v : Wants(off, v) => Wants(sync, v) \/ v \in {Unset, Null}
  BY <1>3 DEF Wants, Null
<1>8. \A v : (Knows(off, v) <=> Knows(sync, v)) /\ (Expects(off, v) <=> Expects(sync, v))
  BY <1>3 DEF Knows, Expects
<1>9. \A v : Wants(longer, v) => Wants(sync, v) \/ v \in {Unset, Null}
  BY <1>2, <1>5, <1>7, LongerWants DEF Null
<1>10. \A v : Wants(new, v) => Wants(sync, v) \/ v \in {Unset, Null}
  BY <1>6, <1>9 DEF Calm
<1>11. \A v : Knows(new, v) \/ Expects(new, v) =>
              Wants(sync, v) \/ Knows(sync, v) \/ Expects(sync, v) \/ v \in {Unset, Null}
  <2>1. \A v : (Knows(longer, v) <=> Knows(off, v)) /\ (Expects(longer, v) <=> Expects(off, v))
    BY <1>2, <1>5, LongerWants
  <2>. QED BY <1>6, <1>8, <1>9, <2>1 DEF Calm
<1>12. new.latest = Null
  BY <1>3, <1>5, <1>6 DEF Calm, Longer, Null
<1>13. ASSUME NEW stored \in Int, Ordered(sync, stored)
       PROVE  Ordered(new, stored)
  <2>1. \A v : Reached(off, stored, v) <=> Reached(sync, stored, v)
    BY <1>3, <1>8 DEF Reached
  <2>2. Ordered(off, stored)
    BY <1>3, <1>13, <2>1 DEF Ordered, ExpectsOlder, Null
  <2>3. Longer(off, longer, off.latest) /\ off.latest # Unset
    BY <1>3, <1>5 DEF Unset
  <2>4. Ordered(longer, stored)
    BY <1>2, <1>5, <2>2, <2>3, LongerOrdered
  <2>. QED BY <1>6, <2>4 DEF Calm
<1>. QED BY <1>4, <1>6, <1>10, <1>11, <1>12, <1>13

\* A handle that is newer than all that the sync and the lease have seen.
LEMMA ScheduleKeepsOrder ==
  ASSUME NEW sync, SyncOK(sync), NEW v \in Handle \ {Null}, NEW stored \in Int, stored < v,
         \A u : Wants(sync, u) \/ Knows(sync, u) \/ Expects(sync, u) => u < v
  PROVE  LET new == Schedule(sync, v) IN
         /\ SyncOK(new) /\ new.latest = v
         /\ \A u : Wants(new, u) => Wants(sync, u) \/ u \in {Unset, v}
         /\ \A u : (Knows(new, u) <=> Knows(sync, u)) /\ (Expects(new, u) <=> Expects(sync, u))
         /\ Keeps(new, v, stored)
         /\ Ordered(sync, stored) => Ordered(new, stored)
<1> DEFINE new == Schedule(sync, v)
<1>1. sync \in Sync /\ SyncOK(new) /\ v \in Int /\ v # Null /\ v # Unset /\ v <= v
      /\ sync.last # v
  <2>1. sync.last < v
    BY DEF Knows
  <2>2. sync \in Sync /\ SyncOK(new) /\ v \in Int /\ v # Null /\ v # Unset /\ v <= v
    BY ScheduleOK, Handles DEF SyncOK
  <2>. QED BY <2>1, <2>2
<1>2. /\ new.pending = v /\ new.latest = v /\ new.retry \in {sync.retry, Unset}
      /\ new.last = sync.last /\ new.writes = sync.writes /\ new.queue = sync.queue
      /\ new.put = sync.put
  BY <1>1 DEF Sync, Schedule
<1> HIDE DEF new
<1>3. \A u : Wants(new, u) => Wants(sync, u) \/ u \in {Unset, v}
  BY <1>2 DEF Wants
<1>4. \A u : (Knows(new, u) <=> Knows(sync, u)) /\ (Expects(new, u) <=> Expects(sync, u))
  BY <1>2 DEF Knows, Expects
<1>5. ~Wants(sync, v) /\ ~Knows(sync, v) /\ ~Expects(sync, v) /\ stored # v
  BY <1>1
<1>6. Keeps(new, v, stored)
  <2>1. Behind(new, v) /\ NotYet(new, v, stored)
    BY <1>2, <1>5 DEF Wants, Behind, NotYet
  <2>2. OnlyItselfExpects(new, v)
    BY <1>2, <1>5 DEF Expects, OnlyItselfExpects
  <2>3. v \in Kept(new)
    BY <1>2 DEF Kept
  <2>. QED BY <1>2, <1>4, <1>5, <2>1, <2>2, <2>3 DEF Keeps, Safe
<1>7. ASSUME Ordered(sync, stored) PROVE Ordered(new, stored)
  <2>1. \A u : Reached(new, stored, u) <=> Reached(sync, stored, u)
    BY <1>2, <1>4 DEF Reached
  <2>2. \A u : Reached(sync, stored, u) => u <= v
    <3>1. \A u : Knows(sync, u) => u \in Int
      BY HandleTypes DEF Knows, Write
    <3>2. \A write \in sync.writes : write.handle \in Int /\ write.handle < v
      BY HandleTypes DEF Wants
    <3>. QED BY <1>1, <3>1, <3>2 DEF Reached
  <2>3. \A i \in DOMAIN sync.queue : sync.queue[i].handle <= v
    <3>1. \A i \in DOMAIN sync.queue : sync.queue[i].handle < v
      BY DEF Wants
    <3>. QED BY <1>1, <3>1, QueueOf
  <2>4. ExpectsOlder(new)
    BY <1>2, <1>7 DEF Ordered, ExpectsOlder
  <2>. QED BY <1>2, <1>7, <2>1, <2>2, <2>3, <2>4 DEF Ordered
<1>. QED BY <1>1, <1>2, <1>3, <1>4, <1>6, <1>7 DEF new

\* The lease is read: the answer is the latest handle, and it is stored, or no other is
\* on its way.
LEMMA NoteKnownKeepsOrder ==
  ASSUME NEW sync, SyncOK(sync), NEW handle \in Handle
  PROVE  LET new == NoteKnown(sync, handle) IN
         /\ SyncOK(new) /\ new.latest = handle
         /\ \A u : Wants(new, u) => Wants(sync, u) \/ u \in {Unset, handle}
         /\ \A u : Knows(new, u) => Knows(sync, u) \/ u = handle
         /\ \A u : Expects(new, u) <=> Expects(sync, u)
         /\ \A stored \in Int :
              Ordered(sync, stored) /\ sync.latest = handle
                /\ (handle \in {stored, Null} \/ OneHandle(sync)) =>
                Ordered(new, stored) /\ (OneHandle(sync) => OneHandle(new))
         /\ \A h \in Handle \ {Null} : Safe(sync, h, h) /\ h = handle => Keeps(new, h, h)
<1> DEFINE new == NoteKnown(sync, handle)
<1>1. sync \in Sync /\ SyncOK(new) /\ handle \in Int /\ handle >= 0 /\ handle # Unset
  BY NoteKnownOK, Handles, HandleTypes DEF SyncOK
<1>2. /\ new.pending = (IF sync.pending = handle THEN Unset ELSE sync.pending)
      /\ new.latest = handle /\ new.retry = Unset /\ new.last = handle
      /\ new.writes = sync.writes /\ new.queue = sync.queue /\ new.put = sync.put
  BY <1>1 DEF Sync, NoteKnown
<1> HIDE DEF new
<1>3. \A u : Wants(new, u) => Wants(sync, u) \/ u \in {Unset, handle}
  BY <1>2 DEF Wants
<1>4. \A u : Knows(new, u) => Knows(sync, u) \/ u = handle
  BY <1>2 DEF Knows
<1>5. \A u : Expects(new, u) <=> Expects(sync, u)
  BY <1>2 DEF Expects
<1>6. ASSUME NEW stored \in Int, Ordered(sync, stored), sync.latest = handle,
             handle \in {stored, Null} \/ OneHandle(sync)
      PROVE  Ordered(new, stored)
  <2>1. \A u : Reached(new, stored, u) => Reached(sync, stored, u) \/ u = handle
    BY <1>2, <1>4 DEF Reached
  <2>2. new.latest \notin {Unset, Null} => \A u : Reached(new, stored, u) => u <= new.latest
    BY <1>1, <1>2, <1>6, <2>1 DEF Ordered
  <2>3. ASSUME NEW j \in DOMAIN new.queue, ~new.queue[j].stale, new.queue[j].handle # Null
        PROVE  handle <= new.queue[j].handle
    <3>1. new.queue[j].handle \in Int /\ new.queue[j].handle >= 0
      BY <1>1, QueueOf
    <3>2. CASE handle = stored
      BY <1>2, <1>6, <2>3, <3>2 DEF Ordered, Reached
    <3>3. CASE handle = Null
      BY <3>1, <3>3 DEF Null
    <3>4. CASE OneHandle(sync)
      BY <1>1, <1>2, <1>6, <2>3, <3>4 DEF OneHandle
    <3>. QED BY <1>6, <3>2, <3>3, <3>4
  <2>4. \A j \in DOMAIN new.queue :
          ~new.queue[j].stale /\ new.queue[j].handle # Null =>
            \A v : Reached(new, stored, v) => v <= new.queue[j].handle
    BY <1>2, <1>6, <2>1, <2>3 DEF Ordered
  <2>5. ExpectsOlder(new)
    BY <1>2, <1>6 DEF Ordered, ExpectsOlder
  <2>. QED BY <1>2, <1>6, <2>2, <2>4, <2>5 DEF Ordered
<1>7. ASSUME NEW h \in Handle \ {Null}, Safe(sync, h, h), h = handle
      PROVE  Keeps(new, h, h)
  <2>1. Behind(new, h) /\ NotYet(new, h, h) /\ OnlyItselfExpects(new, h)
    BY <1>2, <1>7 DEF Safe, Behind, NotYet, OnlyItselfExpects
  <2>. QED BY <1>2, <1>7, <2>1 DEF Keeps, Safe
<1>. QED BY <1>1, <1>2, <1>3, <1>4, <1>5, <1>6, <1>7 DEF new, OneHandle

\* A write reaches the lease, which goes from stored to after, and is told what is there.
Tells(sync, new, stored, after) ==
  /\ SyncOK(new) /\ new.latest = sync.latest
  /\ \A v : Wants(new, v) => Wants(sync, v)
  /\ \A v : Knows(new, v) => Knows(sync, v) \/ v \in {Unset, after}
  /\ \A v : Expects(new, v) => Expects(sync, v)
  /\ after # stored => Wants(sync, after)
  /\ OneHandle(sync) => OneHandle(new)
  /\ Ordered(sync, stored) => Ordered(new, after) /\ (after = Null \/ stored <= after)
  /\ \A h \in Handle \ {Null} : Keeps(sync, h, stored) => Keeps(new, h, after)
  /\ \A h \in Handle \ {Null} : Safe(sync, h, stored) /\ stored = h => after = h

LEMMA PutTells ==
  ASSUME NEW sync, SyncOK(sync), sync.put.at = "sent", NEW stored \in Handle, NEW after \in Handle,
         \/ after = stored
         \/ stored \in sync.put.expected /\ after = Head(sync.queue).handle,
         NEW told \in {Unset, after}
  PROVE  Tells(sync, [sync EXCEPT !.put = [@ EXCEPT !.at = "told", !.answer = told]], stored, after)
<1> DEFINE put == [sync.put EXCEPT !.at = "told", !.answer = told]
           new == [sync EXCEPT !.put = [@ EXCEPT !.at = "told", !.answer = told]]
<1>1. /\ sync \in Sync /\ told \in HandleOrUnset /\ after \in Int /\ stored \in Int
      /\ stored <= stored
  BY Handles DEF SyncOK
<1>2. SyncOK(new)
  BY <1>1, PutToldOK
<1>3. /\ new.pending = sync.pending /\ new.latest = sync.latest /\ new.retry = sync.retry
      /\ new.last = sync.last /\ new.writes = sync.writes /\ new.queue = sync.queue
      /\ new.put.at = "told" /\ new.put.answer = told /\ new.put.expected = sync.put.expected
  BY <1>1 DEF Sync, Put
<1>4. Head(sync.queue) = sync.queue[1] /\ 1 \in DOMAIN sync.queue
  BY HeadIsFirst
<1> HIDE DEF new
<1>5. \A v : Wants(new, v) <=> Wants(sync, v)
  BY <1>3 DEF Wants
<1>6. \A v : Knows(new, v) => Knows(sync, v) \/ v \in {Unset, after}
  BY <1>3 DEF Knows
<1>7. \A v : Expects(new, v) => Expects(sync, v)
  BY <1>3 DEF Expects
<1>8. after # stored => Wants(sync, after)
  BY <1>4 DEF Wants
<1>9. OneHandle(sync) => OneHandle(new)
  BY <1>3 DEF OneHandle
<1>10. ASSUME Ordered(sync, stored)
       PROVE  Ordered(new, after) /\ (after = Null \/ stored <= after)
  <2>1. \A v : Reached(new, after, v) => Reached(sync, stored, v) \/ v \in {Unset, after}
    BY <1>3, <1>6 DEF Reached
  <2>2. ASSUME new.latest \notin {Unset, Null}
        PROVE  after <= new.latest /\ Unset <= new.latest
    <3>1. Unset <= new.latest
      BY <1>2, HandleTypes DEF Unset
    <3>2. stored <= new.latest
      BY <1>3, <1>10, <2>2 DEF Ordered, Reached
    <3>. QED BY <1>3, <1>4, <1>10, <2>2, <3>1, <3>2 DEF Ordered
  <2>3. ASSUME NEW j \in DOMAIN sync.queue, ~sync.queue[j].stale, sync.queue[j].handle # Null
        PROVE  after <= sync.queue[j].handle /\ Unset <= sync.queue[j].handle
    <3>1. Unset <= sync.queue[j].handle /\ j \in Nat /\ sync.queue[j].handle \in Int
      BY QueueOf DEF Unset
    <3>2. stored <= sync.queue[j].handle
      BY <1>10, <2>3 DEF Ordered, Reached
    <3>3. sync.queue[1].handle <= sync.queue[j].handle
      <4>1. j = 1 \/ 1 < j
        BY QueueOf
      <4>. QED BY <1>4, <1>10, <2>3, <3>1, <4>1 DEF Ordered
    <3>. QED BY <1>4, <3>1, <3>2, <3>3
  <2>4. new.latest \notin {Unset, Null} =>
          /\ \A v : Reached(new, after, v) => v <= new.latest
          /\ \A i \in DOMAIN new.queue : new.queue[i].handle <= new.latest
    BY <1>3, <1>10, <2>1, <2>2 DEF Ordered
  <2>5. \A j \in DOMAIN new.queue :
          ~new.queue[j].stale /\ new.queue[j].handle # Null =>
            \A v : Reached(new, after, v) => v <= new.queue[j].handle
    BY <1>3, <1>10, <2>1, <2>3 DEF Ordered
  <2>6. ExpectsOlder(new)
    BY <1>3, <1>10 DEF Ordered, ExpectsOlder
  <2>7. Ordered(new, after)
    BY <1>3, <1>10, <2>4, <2>5, <2>6 DEF Ordered
  <2>8. after = Null \/ stored <= after
    BY <1>1, <1>4, <1>10 DEF Ordered, ExpectsOlder
  <2>. QED BY <2>7, <2>8
<1>11. ASSUME NEW h \in Handle \ {Null}, Safe(sync, h, stored)
       PROVE  Safe(new, h, after) /\ (stored = h => after = h)
  <2>1. stored = h => after = h
    BY <1>4, <1>11 DEF Safe, OnlyItselfExpects
  <2>2. Behind(new, h)
    BY <1>3, <1>11 DEF Safe, Behind
  <2>3. NotYet(new, h, after)
    <3> SUFFICES ASSUME NEW j \in DOMAIN sync.queue, ~sync.queue[j].stale, sync.queue[j].handle # h
                 PROVE  after # h /\ \A write \in sync.writes : write.handle # h
      BY <1>3 DEF NotYet
    <3>1. stored # h /\ \A write \in sync.writes : write.handle # h
      BY <1>11 DEF Safe, NotYet
    <3>2. sync.queue[1].handle # h
      <4>1. j = 1 \/ 1 < j
        BY QueueOf
      <4>. QED BY <1>4, <1>11, <4>1 DEF Safe, Behind
    <3>. QED BY <1>4, <3>1, <3>2
  <2>4. OnlyItselfExpects(new, h)
    BY <1>3, <1>11 DEF Safe, OnlyItselfExpects
  <2>5. Knows(new, h) => after = h
    BY <1>6, <1>11, <2>1, Handles DEF Safe
  <2>. QED BY <1>3, <1>11, <2>1, <2>2, <2>3, <2>4, <2>5 DEF Safe
<1>12. Kept(new) = Kept(sync)
  BY <1>3 DEF Kept
<1>. QED BY <1>2, <1>3, <1>5, <1>6, <1>7, <1>8, <1>9, <1>10, <1>11, <1>12 DEF Tells, Keeps, new

LEMMA WriteTells ==
  ASSUME NEW sync, SyncOK(sync), NEW write \in sync.writes, NEW stored \in Handle,
         NEW after \in Handle,
         after = stored \/ (stored \in write.expected /\ after = write.handle),
         NEW told \in {Unset, after}
  PROVE  Tells(sync, [sync EXCEPT !.writes =
                        (@ \ {write}) \cup {[write EXCEPT !.at = "told", !.answer = told]}],
               stored, after)
<1> DEFINE answered == [write EXCEPT !.at = "told", !.answer = told]
           new == [sync EXCEPT !.writes =
                     (@ \ {write}) \cup {[write EXCEPT !.at = "told", !.answer = told]}]
<1>1. /\ sync \in Sync /\ told \in HandleOrUnset /\ after \in Int /\ stored \in Int
      /\ write \in Write
  BY Handles, HandleTypes DEF SyncOK
<1>2. SyncOK(new)
  BY <1>1, WriteToldOK
<1>3. /\ new.pending = sync.pending /\ new.latest = sync.latest /\ new.retry = sync.retry
      /\ new.last = sync.last /\ new.put = sync.put /\ new.queue = sync.queue
      /\ new.writes = (sync.writes \ {write}) \cup {answered}
  BY <1>1 DEF Sync
<1>4. answered.handle = write.handle /\ answered.expected = write.expected
      /\ answered.answer = told
  BY <1>1 DEF Write
<1> HIDE DEF new, answered
<1>5. \A some \in new.writes :
        \E old \in sync.writes :
          /\ some.handle = old.handle /\ some.expected = old.expected
          /\ some.answer = old.answer \/ some.answer = told
  BY <1>3, <1>4
<1>6. \A old \in sync.writes : \E some \in new.writes : some.handle = old.handle
  BY <1>3, <1>4
<1>7. \A v : Wants(new, v) => Wants(sync, v)
  BY <1>3, <1>5 DEF Wants
<1>8. \A v : Knows(new, v) => Knows(sync, v) \/ v \in {Unset, after}
  BY <1>3, <1>5 DEF Knows
<1>9. \A v : Expects(new, v) => Expects(sync, v)
  BY <1>3, <1>5 DEF Expects
<1>10. after # stored => Wants(sync, after)
  BY DEF Wants
<1>11. OneHandle(sync) => OneHandle(new)
  BY <1>3 DEF OneHandle
<1>12. ASSUME Ordered(sync, stored)
       PROVE  Ordered(new, after) /\ (after = Null \/ stored <= after)
  <2>1. Reached(sync, stored, after)
    BY DEF Reached
  <2>2. \A v : Reached(new, after, v) => Reached(sync, stored, v) \/ v = Unset
    BY <1>3, <1>5, <1>8, <2>1 DEF Reached
  <2>3. new.latest \notin {Unset, Null} =>
          /\ \A v : Reached(new, after, v) => v <= new.latest
          /\ \A i \in DOMAIN new.queue : new.queue[i].handle <= new.latest
    <3>1. Unset <= new.latest
      BY <1>2, HandleTypes DEF Unset
    <3>. QED BY <1>3, <1>12, <2>2, <3>1 DEF Ordered
  <2>4. \A j \in DOMAIN new.queue :
          ~new.queue[j].stale /\ new.queue[j].handle # Null =>
            \A v : Reached(new, after, v) => v <= new.queue[j].handle
    <3>1. \A j \in DOMAIN new.queue : Unset <= new.queue[j].handle
      BY <1>2, QueueOf DEF Unset
    <3>. QED BY <1>3, <1>12, <2>2, <3>1 DEF Ordered
  <2>5. ExpectsOlder(new)
    BY <1>3, <1>5, <1>12 DEF Ordered, ExpectsOlder
  <2>6. Ordered(new, after)
    BY <1>3, <1>12, <2>3, <2>4, <2>5 DEF Ordered
  <2>7. after = Null \/ stored <= after
    BY <1>1, <1>12 DEF Ordered, ExpectsOlder
  <2>. QED BY <2>6, <2>7
<1>13. ASSUME NEW h \in Handle \ {Null}, Safe(sync, h, stored)
       PROVE  Safe(new, h, after) /\ (stored = h => after = h)
  <2>1. stored = h => after = h
    BY <1>13 DEF Safe, OnlyItselfExpects
  <2>2. Behind(new, h)
    BY <1>3, <1>13 DEF Safe, Behind
  <2>3. NotYet(new, h, after)
    BY <1>3, <1>5, <1>13 DEF Safe, NotYet
  <2>4. OnlyItselfExpects(new, h)
    BY <1>3, <1>5, <1>13 DEF Safe, OnlyItselfExpects
  <2>5. Knows(new, h) => after = h
    BY <1>8, <1>13, <2>1, Handles DEF Safe
  <2>. QED BY <1>3, <1>13, <2>1, <2>2, <2>3, <2>4, <2>5 DEF Safe
<1>14. Kept(sync) \subseteq Kept(new)
  BY <1>3, <1>6 DEF Kept
<1>. QED BY <1>2, <1>3, <1>7, <1>8, <1>9, <1>10, <1>11, <1>12, <1>13, <1>14
         DEF Tells, Keeps, new

-------------------------------------------------------------------------------
(***************************************************************************)
(* What holds of the handles in every state.                               *)
(***************************************************************************)

\* A handle that the provider has yet to give out is nowhere.
NothingNewer ==
  /\ \A c \in Connect :
       /\ \A v : Wants(syncs[c], v) \/ Knows(syncs[c], v) \/ Expects(syncs[c], v) => v <= handles
       /\ connects[c].known <= handles
  /\ \A s \in Session : leases[s].handle <= handles
  /\ refetch.handle <= handles

\* A sync is new until its connect binds the lease, which is when it becomes the current
\* one; the lease of a connect is one that the session has had.
NewUntilBound ==
  /\ \A c \in Connect : syncs[c].latest = Unset => syncs[c] = NewSync /\ newest[c] = Null
  /\ \A c \in Connect :
       At(c) \in {"idle", "retarget", "acquire", "acquired", "drop"} => syncs[c].latest = Unset
  /\ \A c \in Connect : At(c) \in {"token", "open"} => syncs[c].latest # Unset
  /\ current # None => syncs[current].latest # Unset
  /\ \A f \in Call : calls[f].sync # None => syncs[calls[f].sync].latest # Unset

LeasesOfConnects ==
  /\ \A c \in Connect : At(c) \in {"idle", "retarget", "acquire"} => connects[c].id = 0
  /\ \A c \in Connect : At(c) = "acquired" => connects[c].id # 0
  /\ \A c \in Connect : syncs[c].latest # Unset => connects[c].id # 0
  /\ \A c \in Connect : connects[c].id # 0 => connects[c].sid \in Session
                                              /\ connects[c].id <= leases[connects[c].sid].id

LeaseOf(c) == leases[connects[c].sid]
Owns(c) == LeaseOf(c).id = connects[c].id

\* As long as c alone writes its lease, all it writes there is in order.
InOrder(c) ==
  /\ Ordered(syncs[c], LeaseOf(c).handle)
  /\ At(c) = "acquired" => connects[c].known = LeaseOf(c).handle
  /\ newest[c] = Null /\ syncs[c].latest \notin {Unset, Null} => OneHandle(syncs[c])
  /\ newest[c] # Null => syncs[c].latest = newest[c]
OrderOf(c) == connects[c].id # 0 /\ Owns(c) /\ Alone(c) /\ newest[c] # Unset => InOrder(c)
WritesInOrder == \A c \in Connect : OrderOf(c)

\* The newest handle h of c is asked of its sync only, and stored in its lease only; once it
\* is, no other sync has that lease, and who has read it there will find it there.
OnlyHere(c, h) ==
  /\ \A d \in Connect \ {c} : ~Wants(syncs[d], h)
  /\ \A s \in Session \ {connects[c].sid} : leases[s].handle # h
  /\ LeaseOf(c).handle = h =>
       \A d \in Connect \ {c} :
         connects[d].sid = connects[c].sid /\ Owns(d) => syncs[d].latest = Unset
  /\ refetch.at = "read" /\ refetch.handle = h => LeaseOf(c).handle = h
NewestOf(c) ==
  Alone(c) /\ newest[c] \notin {Null, Unset} =>
    Keeps(syncs[c], newest[c], LeaseOf(c).handle) /\ OnlyHere(c, newest[c])
NewestIsKept == \A c \in Connect : current = c => NewestOf(c)

HandlesInv ==
  /\ TypeInv /\ NothingNewer /\ NewUntilBound /\ LeasesOfConnects
  /\ WritesInOrder /\ NewestIsKept

-------------------------------------------------------------------------------
\* What most steps leave of the connects, the syncs and the leases.

IdsStay ==
  /\ \A s \in Session : leases'[s].id >= leases[s].id
  /\ \A c \in Connect : connects[c].id # 0 =>
       connects'[c].id = connects[c].id /\ connects'[c].sid = connects[c].sid

ConnectStays(c) ==
  /\ connects'[c].id = connects[c].id
  /\ connects[c].id # 0 => connects'[c].sid = connects[c].sid
  /\ connects'[c].known \in {connects[c].known, Null}
  /\ \/ connects'[c].at = At(c) /\ connects'[c].known = connects[c].known
     \/ At(c) \in {"idle", "retarget"} /\ connects'[c].at \in {"retarget", "acquire"}
     \/ At(c) = "acquired" /\ connects'[c].at = "drop"
     \/ At(c) = "token" /\ connects'[c].at = "open"
     \/ connects'[c].at \in {"clear", "retoken", "reopen", "media", "complete", "catch",
                             "release", "released", "done"}
SyncLives(c) ==
  \/ syncs'[c] = syncs[c] /\ newest'[c] = newest[c]
  \/ syncs[c].latest # Unset /\ syncs'[c].latest # Unset
Lives ==
  /\ \A s \in Session : leases'[s].id >= leases[s].id
  /\ \A c \in Connect : ConnectStays(c) /\ SyncLives(c)
  /\ current' \in {current, None}
  /\ \A f \in Call : calls'[f].sync \in {calls[f].sync, current, None}

\* A step that writes no lease and schedules nothing.
Quiet ==
  /\ Lives
  /\ \A s \in Session : leases'[s].handle = leases[s].handle
  /\ newest' = newest /\ handles' >= handles
  /\ \A c \in Connect :
       \/ syncs'[c] = syncs[c]
       \/ Calm(syncs[c], syncs'[c]) /\ (current' = c => Safely(syncs[c], syncs'[c]))
  /\ refetch'.handle \in {refetch.handle, Null}
  /\ refetch'.at = "read" => refetch.at = "read" /\ refetch'.handle = refetch.handle

LEMMA StateTypes ==
  ASSUME TypeInv
  PROVE  /\ \A c \in Connect : SyncOK(syncs[c]) /\ connects[c] \in ConnectCall
              /\ connects[c].id \in Nat /\ connects[c].known \in Int
              /\ newest[c] \in HandleOrUnset /\ newest[c] \in Int
         /\ \A s \in Session : leases[s].id \in Nat /\ leases[s].handle \in Handle
              /\ leases[s].handle \in Int /\ leases[s].handle >= 0
         /\ handles \in Nat /\ refetch.handle \in Handle /\ refetch.handle \in Int
         /\ current \in Connect \cup {None}
         /\ \A f \in Call : calls[f].sync \in Connect \cup {None}
<1>1. handles \in Nat
  BY VoiceAssumption DEF TypeInv, TypeOK
<1>2. \A h \in Handle : h \in Int /\ h >= 0
  BY VoiceAssumption DEF Handle
<1>3. HandleOrUnset \subseteq Int /\ Handle \subseteq Int
  BY Handles DEF Unset
<1>. QED BY <1>1, <1>2, <1>3 DEF TypeInv, TypeOK, ConnectCall, FlushingCall, RefetchCall

LEMMA LivesKeepsIds == ASSUME Lives PROVE IdsStay
BY DEF Lives, IdsStay, ConnectStays

LEMMA LivesKept ==
  ASSUME TypeInv, TypeInv', NewUntilBound, LeasesOfConnects, Lives
  PROVE  NewUntilBound' /\ LeasesOfConnects'
<1>1. \A c \in Connect : ConnectStays(c) /\ SyncLives(c)
  BY DEF Lives
<1>2. \A c \in Connect : /\ syncs'[c].latest = Unset <=> syncs[c].latest = Unset
                         /\ syncs'[c].latest = Unset => syncs'[c] = syncs[c] /\ newest'[c] = newest[c]
  BY <1>1 DEF SyncLives
<1>3. \A c \in Connect :
        /\ connects'[c].at \in {"idle", "retarget", "acquire", "acquired", "drop"} =>
             At(c) \in {"idle", "retarget", "acquire", "acquired", "drop"}
        /\ connects'[c].at \in {"token", "open"} => At(c) \in {"token", "open"}
        /\ connects'[c].at \in {"idle", "retarget", "acquire"} =>
             At(c) \in {"idle", "retarget", "acquire"}
        /\ connects'[c].at = "acquired" => At(c) = "acquired"
  BY <1>1 DEF ConnectStays
<1>4. NewUntilBound'
  <2>1. current' # None => syncs'[current'].latest # Unset
    BY <1>2, StateTypes DEF Lives, NewUntilBound
  <2>2. \A f \in Call : calls'[f].sync # None => syncs'[calls'[f].sync].latest # Unset
    BY <1>2, StateTypes DEF Lives, NewUntilBound
  <2>. QED BY <1>2, <1>3, <2>1, <2>2 DEF NewUntilBound, At
<1>5. LeasesOfConnects'
  <2>1. \A c \in Connect : connects'[c].id # 0 =>
          connects'[c].sid \in Session /\ connects'[c].id <= leases'[connects'[c].sid].id
    <3> SUFFICES ASSUME NEW c \in Connect, connects'[c].id # 0
                 PROVE  connects'[c].sid \in Session
                        /\ connects'[c].id <= leases'[connects'[c].sid].id
      OBVIOUS
    <3>1. connects'[c].id = connects[c].id /\ connects'[c].sid = connects[c].sid
      BY <1>1 DEF ConnectStays
    <3>2. connects[c].sid \in Session /\ connects[c].id <= leases[connects[c].sid].id
      BY <3>1 DEF LeasesOfConnects
    <3>3. leases'[connects[c].sid].id >= leases[connects[c].sid].id
      BY <3>2 DEF Lives
    <3>4. leases'[connects[c].sid].id \in Nat /\ leases[connects[c].sid].id \in Nat
          /\ connects[c].id \in Nat
      BY <3>2, StateTypes DEF TypeInv, TypeOK
    <3>. QED BY <3>1, <3>2, <3>3, <3>4
  <2>2. \A c \in Connect : connects'[c].id = connects[c].id
    BY <1>1 DEF ConnectStays
  <2>. QED BY <1>2, <1>3, <2>1, <2>2 DEF LeasesOfConnects, At
<1>. QED BY <1>4, <1>5

\* A connect that is alone with its lease, or that has it, was and had it before.
LEMMA AloneBefore ==
  ASSUME TypeInv, TypeInv', LeasesOfConnects, IdsStay, NEW c \in Connect, connects[c].id # 0
  PROVE  /\ connects'[c].id = connects[c].id /\ connects'[c].sid = connects[c].sid
         /\ connects[c].sid \in Session
         /\ Alone(c)' => Alone(c)
         /\ Owns(c)' => Owns(c)
<1>1. connects'[c].id = connects[c].id /\ connects'[c].sid = connects[c].sid
  BY DEF IdsStay
<1>2. connects[c].sid \in Session /\ connects[c].id <= leases[connects[c].sid].id
  BY DEF LeasesOfConnects
<1>3. Alone(c)' => Alone(c)
  BY <1>1 DEF Alone, IdsStay
<1>4. Owns(c)' => Owns(c)
  <2>1. leases'[connects[c].sid].id >= leases[connects[c].sid].id
    BY <1>2 DEF IdsStay
  <2>2. leases'[connects[c].sid].id \in Nat /\ leases[connects[c].sid].id \in Nat
        /\ connects[c].id \in Nat
    BY <1>2, StateTypes DEF TypeInv, TypeOK
  <2>. QED BY <1>1, <1>2, <2>1, <2>2 DEF Owns, LeaseOf
<1>. QED BY <1>1, <1>2, <1>3, <1>4

LEMMA OrderKept ==
  ASSUME TypeInv, TypeInv', LeasesOfConnects, IdsStay, NEW c \in Connect, OrderOf(c),
         ConnectStays(c), syncs'[c] = syncs[c] \/ Calm(syncs[c], syncs'[c]),
         newest'[c] = newest[c],
         connects[c].sid \in Session =>
           leases'[connects[c].sid].handle = leases[connects[c].sid].handle
  PROVE  OrderOf(c)'
<1> SUFFICES ASSUME connects'[c].id # 0, Owns(c)', Alone(c)', newest'[c] # Unset
             PROVE  InOrder(c)'
  BY DEF OrderOf
<1>1. connects[c].id # 0
  BY DEF ConnectStays
<1>2. /\ connects'[c].sid = connects[c].sid /\ connects[c].sid \in Session
      /\ Alone(c) /\ Owns(c)
  BY <1>1, AloneBefore
<1>3. InOrder(c)
  BY <1>1, <1>2 DEF OrderOf
<1>4. LeaseOf(c)' = leases'[connects[c].sid] /\ LeaseOf(c)'.handle = LeaseOf(c).handle
      /\ LeaseOf(c).handle \in Int
  BY <1>2, StateTypes DEF LeaseOf
<1>5. syncs'[c].latest = syncs[c].latest
      /\ Ordered(syncs'[c], LeaseOf(c).handle)
      /\ (OneHandle(syncs[c]) => OneHandle(syncs'[c]))
  BY <1>3, <1>4 DEF Calm, InOrder
<1>6. connects'[c].at = "acquired" => connects'[c].known = LeaseOf(c)'.handle
  BY <1>3, <1>4 DEF ConnectStays, InOrder
<1>7. Ordered(syncs'[c], LeaseOf(c)'.handle)
  BY <1>4, <1>5
<1>. QED BY <1>3, <1>5, <1>6, <1>7 DEF InOrder, At

LEMMA OnlyHereKept ==
  ASSUME TypeInv, TypeInv', LeasesOfConnects, IdsStay, NEW c \in Connect, connects[c].id # 0,
         NEW h, OnlyHere(c, h),
         \A d \in Connect \ {c} : /\ Wants(syncs'[d], h) => Wants(syncs[d], h)
                                  /\ syncs[d].latest = Unset => syncs'[d].latest = Unset,
         \A s \in Session : leases'[s].handle = h <=> leases[s].handle = h,
         refetch'.at = "read" /\ refetch'.handle = h => refetch.at = "read" /\ refetch.handle = h
  PROVE  OnlyHere(c, h)'
<1>1. connects'[c].sid = connects[c].sid /\ connects[c].sid \in Session
  BY AloneBefore
<1>2. LeaseOf(c)'.handle = h <=> LeaseOf(c).handle = h
  BY <1>1 DEF LeaseOf
<1>3. ASSUME LeaseOf(c)'.handle = h, NEW d \in Connect \ {c},
             connects'[d].sid = connects'[c].sid, Owns(d)'
      PROVE  syncs'[d].latest = Unset
  <2>1. CASE connects[d].id = 0
    <3>1. syncs[d].latest = Unset
      BY <2>1 DEF LeasesOfConnects
    <3>. QED BY <3>1
  <2>2. CASE connects[d].id # 0
    <3>1. Owns(d) /\ connects'[d].sid = connects[d].sid
      BY <1>3, <2>2, AloneBefore
    <3>. QED BY <1>1, <1>2, <1>3, <3>1 DEF OnlyHere
  <2>. QED BY <2>1, <2>2
<1>. QED BY <1>1, <1>2, <1>3 DEF OnlyHere

\* The newest handle of the current sync, in a step that writes no lease.
LEMMA NewestKept ==
  ASSUME TypeInv, TypeInv', LeasesOfConnects, NewUntilBound, IdsStay, NEW c \in Connect,
         NewestIsKept, current = c,
         syncs'[c] = syncs[c] \/ Safely(syncs[c], syncs'[c]), newest'[c] = newest[c],
         \A h \in Handle \ {Null}, d \in Connect \ {c} :
            /\ Wants(syncs'[d], h) => Wants(syncs[d], h)
            /\ syncs[d].latest = Unset => syncs'[d].latest = Unset,
         \A s \in Session : leases'[s].handle = leases[s].handle,
         \A h \in Handle \ {Null} :
           refetch'.at = "read" /\ refetch'.handle = h => refetch.at = "read" /\ refetch.handle = h
  PROVE  NewestOf(c)'
<1> SUFFICES ASSUME Alone(c)', newest'[c] \notin {Null, Unset}
             PROVE  Keeps(syncs'[c], newest'[c], LeaseOf(c)'.handle) /\ OnlyHere(c, newest[c])'
  BY DEF NewestOf
<1>1. connects[c].id # 0
  BY NothingInNone DEF NewUntilBound, LeasesOfConnects
<1>2. /\ connects'[c].sid = connects[c].sid /\ connects[c].sid \in Session /\ Alone(c)
  BY <1>1, AloneBefore
<1>3. PICK h \in Handle \ {Null} : newest[c] = h
  BY Handles, StateTypes
<1>4. Keeps(syncs[c], h, LeaseOf(c).handle) /\ OnlyHere(c, h)
  BY <1>2, <1>3, Handles DEF NewestIsKept, NewestOf
<1>5. LeaseOf(c)'.handle = LeaseOf(c).handle /\ LeaseOf(c).handle \in Int
  BY <1>2, StateTypes DEF LeaseOf
<1>6. Keeps(syncs'[c], h, LeaseOf(c).handle)
  BY <1>4, <1>5 DEF Safely, Calm, KeptOn, Keeps
<1>7. OnlyHere(c, h)'
  <2>1. \A d \in Connect \ {c} : /\ Wants(syncs'[d], h) => Wants(syncs[d], h)
                                 /\ syncs[d].latest = Unset => syncs'[d].latest = Unset
    OBVIOUS
  <2>2. refetch'.at = "read" /\ refetch'.handle = h => refetch.at = "read" /\ refetch.handle = h
    OBVIOUS
  <2>3. \A s \in Session : leases'[s].handle = h <=> leases[s].handle = h
    OBVIOUS
  <2>. QED BY <1>1, <1>4, <2>1, <2>2, <2>3, OnlyHereKept
<1>8. newest'[c] = h
  BY <1>3
<1>. QED BY <1>5, <1>6, <1>7, <1>8 DEF OnlyHere

LEMMA QuietKeeps ==
  ASSUME HandlesInv, TypeInv', Quiet
  PROVE  HandlesInv'
<1>1. Lives /\ IdsStay
  BY LivesKeepsIds DEF Quiet
<1>2. NewUntilBound' /\ LeasesOfConnects'
  BY <1>1, LivesKept DEF HandlesInv
<1>3. NothingNewer'
  <2>1. handles' >= handles /\ handles \in Nat /\ handles' \in Nat
    BY StateTypes DEF Quiet, HandlesInv, TypeInv, TypeOK
  <2>2. ASSUME NEW c \in Connect
        PROVE  /\ \A v : Wants(syncs'[c], v) \/ Knows(syncs'[c], v) \/ Expects(syncs'[c], v) =>
                           v <= handles'
               /\ connects'[c].known <= handles'
    <3>1. \A v : Wants(syncs'[c], v) \/ Knows(syncs'[c], v) \/ Expects(syncs'[c], v) =>
            Wants(syncs[c], v) \/ Knows(syncs[c], v) \/ Expects(syncs[c], v) \/ v \in {Unset, Null}
      BY DEF Quiet, Calm
    <3>2. \A v : Wants(syncs[c], v) \/ Knows(syncs[c], v) \/ Expects(syncs[c], v) =>
                   v \in Int /\ v <= handles
      <4>1. SyncOK(syncs[c])
        BY StateTypes DEF HandlesInv
      <4>2. \A v : Wants(syncs[c], v) \/ Knows(syncs[c], v) \/ Expects(syncs[c], v) => v \in Int
        BY <4>1, HandleTypes, QueueOf DEF Wants, Knows, Expects
      <4>. QED BY <4>2 DEF HandlesInv, NothingNewer
    <3>3. \A v : v \in {Unset, Null} => v \in Int /\ v <= handles'
      BY <2>1 DEF Unset, Null
    <3>4. \A v \in Int : v <= handles => v <= handles'
      BY <2>1
    <3>5. connects'[c].known \in {connects[c].known, Null} /\ connects[c].known \in Int
          /\ connects[c].known <= handles
      BY <1>1, StateTypes DEF Lives, ConnectStays, HandlesInv, NothingNewer
    <3>. QED BY <3>1, <3>2, <3>3, <3>4, <3>5
  <2>3. \A s \in Session : leases'[s].handle <= handles'
    BY <2>1, StateTypes DEF Quiet, HandlesInv, NothingNewer
  <2>4. refetch'.handle <= handles'
    BY <2>1, StateTypes DEF Quiet, HandlesInv, NothingNewer, Null
  <2>. QED BY <2>2, <2>3, <2>4 DEF NothingNewer
<1>4. WritesInOrder'
  <2> SUFFICES ASSUME NEW c \in Connect PROVE OrderOf(c)'
    BY DEF WritesInOrder
  <2>. QED BY <1>1, OrderKept DEF HandlesInv, WritesInOrder, Quiet, Lives
<1>5. NewestIsKept'
  <2> SUFFICES ASSUME NEW c \in Connect, current' = c PROVE NewestOf(c)'
    BY DEF NewestIsKept
  <2>1. current = c
    BY <1>1, NothingInNone DEF Lives
  <2>2. syncs'[c] = syncs[c] \/ Safely(syncs[c], syncs'[c])
    BY DEF Quiet
  <2>3. \A h \in Handle \ {Null}, d \in Connect \ {c} :
            /\ Wants(syncs'[d], h) => Wants(syncs[d], h)
            /\ syncs[d].latest = Unset => syncs'[d].latest = Unset
    BY Handles DEF Quiet, Calm
  <2>. QED BY <1>1, <2>1, <2>2, <2>3, NewestKept DEF HandlesInv, Quiet
<1>. QED BY <1>2, <1>3, <1>4, <1>5 DEF HandlesInv

-------------------------------------------------------------------------------
\* The quiet steps.

LeasesStay ==
  \A s \in Session : leases'[s].id >= leases[s].id /\ leases'[s].handle = leases[s].handle
SyncQuiet(c) ==
  \/ syncs'[c] = syncs[c]
  \/ /\ syncs[c].latest # Unset
     /\ Calm(syncs[c], syncs'[c]) /\ (current' = c => Safely(syncs[c], syncs'[c]))
CallsStay == \A f \in Call : calls'[f].sync \in {calls[f].sync, current, None}
RefetchStays ==
  /\ refetch'.handle \in {refetch.handle, Null}
  /\ refetch'.at = "read" => refetch.at = "read" /\ refetch'.handle = refetch.handle

LEMMA IsQuiet ==
  ASSUME LeasesStay, \A c \in Connect : ConnectStays(c) /\ SyncQuiet(c),
         current' \in {current, None}, CallsStay, RefetchStays, newest' = newest,
         handles' >= handles
  PROVE  Quiet
<1>1. \A c \in Connect : SyncLives(c)
  BY DEF SyncQuiet, SyncLives, Calm
<1>. QED BY <1>1 DEF Quiet, Lives, LeasesStay, SyncQuiet, CallsStay, RefetchStays

LEMMA AllStays ==
  ASSUME TypeInv
  PROVE  /\ UNCHANGED leases => LeasesStay
         /\ UNCHANGED connects => \A c \in Connect : ConnectStays(c)
         /\ UNCHANGED syncs => \A c \in Connect : SyncQuiet(c)
         /\ UNCHANGED current => current' \in {current, None}
         /\ UNCHANGED calls => CallsStay
         /\ UNCHANGED refetch \/ RefetchSuperseded => RefetchStays
         /\ UNCHANGED handles => handles' >= handles
<1>1. UNCHANGED leases => LeasesStay
  BY StateTypes DEF LeasesStay
<1>2. UNCHANGED connects => \A c \in Connect : ConnectStays(c)
  BY DEF ConnectStays, At
<1>3. UNCHANGED refetch \/ RefetchSuperseded => RefetchStays
  BY DEF RefetchStays, RefetchSuperseded, TypeInv, TypeOK, RefetchCall
<1>4. UNCHANGED handles => handles' >= handles
  BY StateTypes
<1>. QED BY <1>1, <1>2, <1>3, <1>4 DEF SyncQuiet, CallsStay

LEMMA LeasesStayed ==
  ASSUME TypeInv, NEW s \in Session, NEW a \in Actor,
         Acquire(s, a) \/ Release(s, a, None) \/ Ends(s, None) \/ UNCHANGED leases
  PROVE  LeasesStay
<1>1. \A r \in Session : leases[r] \in [id: Nat, holder: Actor \cup {None}, handle: Handle]
  BY DEF TypeInv, TypeOK
<1>2. leases \in [Session -> [id: Nat, holder: Actor \cup {None}, handle: Handle]]
  BY DEF TypeInv, TypeOK
<1>3. CASE Acquire(s, a)
  <2>1. \A r \in Session : leases'[r].handle = leases[r].handle
          /\ leases'[r].id \in {leases[r].id, leases[r].id + 1}
    BY <1>2, <1>3 DEF Acquire
  <2>. QED BY <1>1, <2>1 DEF LeasesStay
<1>4. CASE Release(s, a, None) \/ Ends(s, None) \/ UNCHANGED leases
  <2>1. \A r \in Session : leases'[r].handle = leases[r].handle /\ leases'[r].id = leases[r].id
    BY <1>2, <1>4 DEF Release, Ends
  <2>. QED BY <1>1, <2>1 DEF LeasesStay
<1>. QED BY <1>3, <1>4

\* A call of the server that may fail.
LEMMA CallStays ==
  ASSUME TypeInv, NEW s \in Session,
         Release(s, Me, None) \/ FailedCall(s, Release(s, Me, None)) \/ FailedCall(s, Acquire(s, Me))
  PROVE  LeasesStay
<1>1. Release(s, Me, None) \/ Acquire(s, Me) \/ UNCHANGED leases
  BY DEF FailedCall
<1>. QED BY <1>1, LeasesStayed, NothingInNone

LEMMA ConnectGoesQuietly ==
  ASSUME TypeInv, NEW c \in Connect,
         NEW at \in {"drop", "open", "clear", "retoken", "reopen", "media", "complete", "catch",
                     "release", "released", "done"},
         at = "drop" => At(c) = "acquired", at = "open" => At(c) = "token",
         NEW x \in ConnectCall, x.at = at, x.sid = connects[c].sid, x.id = connects[c].id,
         x.known \in {connects[c].known, Null},
         connects' = [connects EXCEPT ![c] = x]
  PROVE  \A d \in Connect : ConnectStays(d)
<1>1. connects'[c] = x /\ \A d \in Connect \ {c} : connects'[d] = connects[d]
  BY DEF TypeInv, TypeOK
<1>2. ConnectStays(c)
  BY <1>1 DEF ConnectStays
<1>3. \A d \in Connect \ {c} : ConnectStays(d)
  BY <1>1 DEF ConnectStays, At
<1>. QED BY <1>2, <1>3

LEMMA GoesQuietly ==
  ASSUME TypeInv, NEW c \in Connect,
         NEW at \in {"drop", "open", "clear", "retoken", "reopen", "media", "complete", "catch",
                     "release", "released", "done"},
         at = "drop" => At(c) = "acquired", at = "open" => At(c) = "token", Goes(c, at)
  PROVE  \A d \in Connect : ConnectStays(d)
<1> DEFINE x == [connects[c] EXCEPT !.at = at]
<1>1. connects' = [connects EXCEPT ![c] = x]
  BY DEF Goes, TypeInv, TypeOK
<1>2. connects[c] \in ConnectCall
  BY StateTypes
<1>3. x \in ConnectCall /\ x.at = at /\ x.sid = connects[c].sid /\ x.id = connects[c].id
      /\ x.known = connects[c].known
  BY <1>2 DEF ConnectCall
<1> HIDE DEF x
<1>. QED BY <1>1, <1>3, ConnectGoesQuietly

LEMMA OneSyncQuiet ==
  ASSUME TypeInv, NEW c \in Connect, NEW sync, syncs[c].latest # Unset,
         Safely(syncs[c], sync), syncs' = [syncs EXCEPT ![c] = sync]
  PROVE  \A d \in Connect : SyncQuiet(d)
<1>1. syncs'[c] = sync /\ \A d \in Connect \ {c} : syncs'[d] = syncs[d]
  BY DEF TypeInv, TypeOK
<1>. QED BY <1>1 DEF SyncQuiet, Safely

LEMMA FlushStartsQuietly ==
  ASSUME TypeInv, NewUntilBound, NEW f \in Call, syncs' = FlushStarted(f)
  PROVE  \A d \in Connect : SyncQuiet(d)
<1>1. CASE current = None
  BY <1>1 DEF FlushStarted, SyncQuiet
<1>2. CASE current # None
  <2> DEFINE pended == FlushPending(syncs[current], f)
             new == IF syncs[current].pending = Unset THEN Await(pended, f) ELSE pended
  <2>1. current \in Connect /\ SyncOK(syncs[current]) /\ syncs[current].latest # Unset
    BY <1>2, StateTypes DEF NewUntilBound
  <2>2. Safely(syncs[current], pended)
    BY <2>1, FlushPendingSafely
  <2>3. Safely(pended, Await(pended, f))
    BY <2>2, AwaitSafely DEF Safely, Calm
  <2>4. Safely(syncs[current], new)
    BY <2>2, <2>3, SafelyTwice
  <2>5. syncs' = [syncs EXCEPT ![current] = new]
    BY <1>2 DEF FlushStarted
  <2> HIDE DEF new
  <2>. QED BY <2>1, <2>4, <2>5, OneSyncQuiet
<1>. QED BY <1>1, <1>2

LEMMA StartFlushSync == StartFlush.sync = current
BY DEF StartFlush, NoCall

LEMMA StartDisconnectQuietly ==
  ASSUME TypeInv, NewUntilBound, NEW now, NEW others \in [Call -> FlushingCall],
         \A f \in Call : others[f].sync \in {calls[f].sync, None},
         StartDisconnect(now, others)
  PROVE  /\ connects' = now /\ CallsStay /\ current' \in {current, None}
         /\ \A d \in Connect : SyncQuiet(d)
<1>1. CASE Returns /\ calls' = others /\ UNCHANGED <<syncs, current, listening>>
  BY <1>1 DEF StartDisconnect, CallsStay, SyncQuiet
<1>2. CASE /\ ~Returns /\ bound = None /\ calls' = others
           /\ syncs' = DisposeCurrent(syncs) /\ current' = None /\ listening' = None
  <2>1. \A d \in Connect : SyncQuiet(d)
    <3> SUFFICES ASSUME NEW d \in Connect, syncs'[d] # syncs[d] PROVE SyncQuiet(d)
      BY DEF SyncQuiet
    <3>1. current = d
      BY <1>2 DEF DisposeCurrent, TypeInv, TypeOK
    <3>2. current # None /\ current' # d
      BY <1>2, <3>1, NothingInNone
    <3>3. syncs'[d] = Dispose(syncs[d])
      BY <1>2, <3>1, <3>2 DEF DisposeCurrent, TypeInv, TypeOK
    <3>4. syncs[d].latest # Unset /\ Calm(syncs[d], syncs'[d])
      BY <3>1, <3>2, <3>3, StateTypes, DisposeCalmly DEF NewUntilBound
    <3>. QED BY <3>2, <3>4 DEF SyncQuiet
  <2>. QED BY <1>2, <2>1 DEF StartDisconnect, CallsStay
<1>3. CASE /\ ~Returns /\ bound # None /\ syncs' = FlushStarted("disconnect") /\ listening' = None
           /\ calls' = [others EXCEPT !["disconnect"] = [StartFlush EXCEPT !.sid = bound]]
           /\ UNCHANGED current
  <2>1. "disconnect" \in Call /\ StartFlush \in FlushingCall
    BY FlushStartedType DEF Call, TypeInv
  <2>2. [StartFlush EXCEPT !.sid = bound].sync = current
    BY <2>1, StartFlushSync DEF FlushingCall
  <2>3. \A f \in Call : calls'[f].sync \in {others[f].sync, current}
    BY <1>3, <2>2
  <2>4. CallsStay
    BY <2>3 DEF CallsStay
  <2>5. \A d \in Connect : SyncQuiet(d)
    BY <1>3, <2>1, FlushStartsQuietly
  <2>. QED BY <1>3, <2>4, <2>5 DEF StartDisconnect
<1>. QED BY <1>1, <1>2, <1>3 DEF StartDisconnect

LEMMA SupersededStays ==
  ASSUME TypeInv, UNCHANGED connects \/ connects' = Superseded
  PROVE  \A c \in Connect : ConnectStays(c)
<1>1. CASE connects' = Superseded
  <2>1. \A c \in Connect : connects[c] \in ConnectCall
                           /\ connects'[c] = [connects[c] EXCEPT !.live = FALSE]
    BY <1>1, StateTypes DEF Superseded
  <2>. QED BY <2>1, ZenonT(30) DEF ConnectStays, ConnectCall, At
<1>. QED BY <1>1, AllStays

LEMMA DisconnectQuiet == ASSUME HandlesInv, Disconnect PROVE Quiet
<1>1. /\ connects' = connects /\ CallsStay /\ current' \in {current, None}
      /\ \A d \in Connect : SyncQuiet(d)
  BY StartDisconnectQuietly DEF Disconnect, HandlesInv, TypeInv, TypeOK
<1>2. UNCHANGED <<leases, newest, refetch, handles>>
  BY DEF Disconnect
<1>. QED BY <1>1, <1>2, AllStays, IsQuiet DEF HandlesInv

LEMMA SwitchQuiet == ASSUME HandlesInv, NEW s, Switch(s) PROVE Quiet
<1>1. /\ connects' = Superseded /\ CallsStay /\ current' \in {current, None}
      /\ \A d \in Connect : SyncQuiet(d)
  BY StartDisconnectQuietly DEF Switch, HandlesInv, TypeInv, TypeOK
<1>2. UNCHANGED <<leases, newest, handles>> /\ RefetchSuperseded
  BY DEF Switch
<1>3. \A c \in Connect : ConnectStays(c)
  BY <1>1, SupersededStays DEF HandlesInv
<1>. QED BY <1>1, <1>2, <1>3, AllStays, IsQuiet DEF HandlesInv

LEMMA FlushQuiet == ASSUME HandlesInv, NEW f \in Call, Flush(f) PROVE Quiet
<1> DEFINE c == calls[f].sync
<1>1. /\ c \in Connect /\ SyncOK(syncs[c]) /\ syncs[c].latest # Unset /\ f \in Call \cup Connect
  BY StateTypes DEF Flush, HandlesInv, NewUntilBound
<1>2. Safely(syncs[c], Await(syncs[c], f))
  BY <1>1, AwaitSafely
<1>3. Safely(syncs[c], Await(FlushRetry(syncs[c], f), f))
  <2>1. Safely(syncs[c], FlushRetry(syncs[c], f))
    BY <1>1, FlushRetrySafely
  <2>2. Safely(FlushRetry(syncs[c], f), Await(FlushRetry(syncs[c], f), f))
    BY <1>1, <2>1, AwaitSafely DEF Safely, Calm
  <2>. QED BY <2>1, <2>2, SafelyTwice
<1>4. PICK at, result : /\ Safely(syncs[c], result)
                        /\ calls' = [calls EXCEPT ![f] = [calls[f] EXCEPT !.at = at]]
                        /\ syncs' = [syncs EXCEPT ![c] = result]
  BY <1>2, <1>3 DEF Flush
<1>5. calls[f] \in FlushingCall /\ calls \in [Call -> FlushingCall]
  BY DEF HandlesInv, TypeInv, TypeOK
<1>6. CallsStay
  <2>1. calls'[f].sync = calls[f].sync
    BY <1>4, <1>5 DEF FlushingCall
  <2>. QED BY <1>4, <1>5, <2>1 DEF CallsStay
<1>7. \A d \in Connect : SyncQuiet(d)
  <2> HIDE DEF c
  <2>. QED BY <1>1, <1>4, OneSyncQuiet DEF HandlesInv
<1>8. UNCHANGED <<leases, connects, current, newest, refetch, handles>>
  BY DEF Flush, client, bounds
<1>. QED BY <1>6, <1>7, <1>8, AllStays, IsQuiet DEF HandlesInv

LEMMA DisconnectCloseQuiet == ASSUME HandlesInv, DisconnectClose PROVE Quiet
<1> DEFINE c == calls["disconnect"].sync
<1>1. "disconnect" \in Call /\ calls["disconnect"] \in FlushingCall
      /\ calls \in [Call -> FlushingCall] /\ c \in Connect \cup {None}
  BY StateTypes DEF HandlesInv, TypeInv, TypeOK, Call
<1>2. CallsStay
  BY <1>1 DEF DisconnectClose, CallsStay, FlushingCall
<1>3. \A d \in Connect : SyncQuiet(d)
  <2> SUFFICES ASSUME NEW d \in Connect, syncs'[d] # syncs[d] PROVE SyncQuiet(d)
    BY DEF SyncQuiet
  <2>1. c = d /\ syncs'[d] = Dispose(syncs[d])
    BY DEF DisconnectClose, HandlesInv, TypeInv, TypeOK
  <2>2. current' # d
    BY <2>1, NothingInNone DEF DisconnectClose
  <2>3. syncs[d].latest # Unset
    BY <1>1, <2>1, NothingInNone DEF HandlesInv, NewUntilBound
  <2>. QED BY <2>1, <2>2, <2>3, DisposeCalmly, StateTypes DEF SyncQuiet, HandlesInv
<1>4. UNCHANGED <<leases, connects, newest, refetch, handles>> /\ current' \in {current, None}
  BY DEF DisconnectClose, bounds
<1>. QED BY <1>2, <1>3, <1>4, AllStays, IsQuiet DEF HandlesInv

LEMMA DisconnectReleaseQuiet == ASSUME HandlesInv, DisconnectRelease PROVE Quiet
<1>1. "disconnect" \in Call /\ calls["disconnect"] \in FlushingCall
      /\ calls \in [Call -> FlushingCall]
  BY DEF HandlesInv, TypeInv, TypeOK, Call
<1>2. CallsStay
  BY <1>1 DEF DisconnectRelease, CallsStay, FlushingCall
<1>3. LeasesStay
  <2>1. calls["disconnect"].sid \in Session
    BY DEF DisconnectRelease, HandlesInv, TypeInv, CallsKnowSession
  <2>. QED BY <2>1, CallStays DEF DisconnectRelease, HandlesInv
<1>4. UNCHANGED <<connects, current, syncs, newest, refetch, handles>>
  BY DEF DisconnectRelease, client
<1>. QED BY <1>2, <1>3, <1>4, AllStays, IsQuiet DEF HandlesInv

LEMMA DisconnectDoneQuiet == ASSUME HandlesInv, DisconnectDone PROVE Quiet
<1>1. "disconnect" \in Call /\ calls \in [Call -> FlushingCall]
  BY DEF HandlesInv, TypeInv, TypeOK, Call
<1>2. CallsStay
  BY <1>1 DEF DisconnectDone, CallsStay, NoCall
<1>3. \A c \in Connect : ConnectStays(c)
  <2> SUFFICES ASSUME NEW c \in Connect PROVE ConnectStays(c)
    OBVIOUS
  <2>1. connects[c] \in ConnectCall
    BY StateTypes DEF HandlesInv
  <2>2. CASE At(c) = "retarget"
    <3>1. connects'[c] = [connects[c] EXCEPT !.at = "acquire", !.live = TRUE]
      BY <2>2 DEF DisconnectDone
    <3>. QED BY <2>1, <2>2, <3>1 DEF ConnectStays, ConnectCall
  <2>3. CASE At(c) # "retarget"
    BY <2>3 DEF DisconnectDone, ConnectStays, At
  <2>. QED BY <2>2, <2>3
<1>4. UNCHANGED <<leases, current, syncs, newest, refetch, handles>>
  BY DEF DisconnectDone, bounds
<1>. QED BY <1>2, <1>3, <1>4, AllStays, IsQuiet DEF HandlesInv

LEMMA SuspendQuiet == ASSUME HandlesInv, Suspend PROVE Quiet
<1>1. "suspend" \in Call /\ calls \in [Call -> FlushingCall]
  BY DEF HandlesInv, TypeInv, TypeOK, Call
<1>2. CallsStay
  BY <1>1, StartFlushSync DEF Suspend, CallsStay
<1>3. \A d \in Connect : SyncQuiet(d)
  BY <1>1, FlushStartsQuietly DEF Suspend, HandlesInv
<1>4. UNCHANGED <<leases, connects, current, newest, refetch, handles>>
  BY DEF Suspend, client
<1>. QED BY <1>2, <1>3, <1>4, AllStays, IsQuiet DEF HandlesInv

LEMMA SuspendStoredQuiet == ASSUME HandlesInv, SuspendStored PROVE Quiet
<1> DEFINE over == [calls EXCEPT !["suspend"] = NoCall]
<1>1. /\ over \in [Call -> FlushingCall]
      /\ \A f \in Call : over[f].sync \in {calls[f].sync, None}
  BY DEF HandlesInv, TypeInv, TypeOK, Call, NoCall, FlushingCall
<1>2. UNCHANGED <<leases, newest, refetch, handles>>
  BY DEF SuspendStored
<1>3. CASE StartDisconnect(connects, over)
  <2>1. /\ connects' = connects /\ CallsStay /\ current' \in {current, None}
        /\ \A d \in Connect : SyncQuiet(d)
    <3> HIDE DEF over
    <3>. QED BY <1>1, <1>3, StartDisconnectQuietly DEF HandlesInv
  <2>. QED BY <1>2, <2>1, AllStays, IsQuiet DEF HandlesInv
<1>4. CASE calls' = over /\ UNCHANGED <<connects, syncs, current>>
  <2>1. CallsStay
    <3> HIDE DEF over
    <3>. QED BY <1>1, <1>4 DEF CallsStay
  <2>. QED BY <1>2, <1>4, <2>1, AllStays, IsQuiet DEF HandlesInv
<1>. QED BY <1>3, <1>4 DEF SuspendStored

LEMMA RefetchQuiet == ASSUME HandlesInv, Refetch PROVE Quiet
<1>1. RefetchStays
  BY DEF Refetch, RefetchStays, NoRefetch
<1>2. UNCHANGED <<leases, connects, syncs, current, newest, calls, handles>>
  BY DEF Refetch, client
<1>. QED BY <1>1, <1>2, AllStays, IsQuiet DEF HandlesInv

\* A step that only changes the sync of one connect, and no lease.
LEMMA OneSyncStepQuiet ==
  ASSUME HandlesInv, NEW c \in Connect, NEW sync, syncs[c].latest # Unset,
         Safely(syncs[c], sync), syncs' = [syncs EXCEPT ![c] = sync],
         UNCHANGED <<leases, connects, current, newest, calls, refetch, handles>>
  PROVE  Quiet
BY OneSyncQuiet, AllStays, IsQuiet DEF HandlesInv

LEMMA AnnounceAgainQuiet == ASSUME HandlesInv, AnnounceAgain PROVE Quiet
<1>1. current \in Connect /\ SyncOK(syncs[current])
      /\ syncs[current].latest \in HandleOrUnset \ {Unset, Null}
  BY StateTypes DEF AnnounceAgain, HandlesInv, SyncOK, Sync
<1>. QED BY <1>1, RepeatSafely, OneSyncStepQuiet DEF AnnounceAgain, client

LEMMA PageHidesQuiet == ASSUME HandlesInv, PageHides PROVE Quiet
<1>1. current \in Connect /\ SyncOK(syncs[current]) /\ syncs[current].latest # Unset
  BY StateTypes DEF PageHides, HandlesInv, NewUntilBound
<1>. QED BY <1>1, FlushForLifecycleSafely, OneSyncStepQuiet DEF PageHides, client

LEMMA TimerFiresQuiet == ASSUME HandlesInv, NEW c \in Connect, TimerFires(c) PROVE Quiet
<1>1. SyncOK(syncs[c])
  BY StateTypes DEF HandlesInv
<1>2. syncs[c].latest # Unset
  BY DEF TimerFires, HandlesInv, NewUntilBound, NewSync
<1>. QED BY <1>1, <1>2, FireSafely, OneSyncStepQuiet DEF TimerFires, client, bounds

LEMMA PutReturnsQuiet == ASSUME HandlesInv, NEW c \in Connect, PutReturns(c) PROVE Quiet
<1>1. SyncOK(syncs[c]) /\ syncs[c].put.at # "idle"
  BY StateTypes DEF PutReturns, HandlesInv
<1>2. syncs[c].latest # Unset
  BY DEF PutReturns, HandlesInv, NewUntilBound, NewSync, NoPut
<1> DEFINE sync == IF syncs[c].put.answer = Unset THEN PutFailed(syncs[c]) ELSE PutAnswered(syncs[c])
<1>3. Safely(syncs[c], sync)
  BY <1>1, PutFailedSafely, PutAnsweredSafely
<1>4. syncs' = [syncs EXCEPT ![c] = sync]
      /\ UNCHANGED <<leases, connects, current, newest, calls, refetch, handles>>
  BY DEF PutReturns, client, bounds
<1> HIDE DEF sync
<1>. QED BY <1>2, <1>3, <1>4, OneSyncStepQuiet

LEMMA WriteReturnsQuiet ==
  ASSUME HandlesInv, NEW c \in Connect, NEW write \in syncs[c].writes, WriteReturns(c, write)
  PROVE  Quiet
<1>1. SyncOK(syncs[c])
  BY StateTypes DEF HandlesInv
<1>2. syncs[c].latest # Unset
  BY DEF HandlesInv, NewUntilBound, NewSync
<1> DEFINE sync == IF write.answer = Unset THEN LifecycleFailed(syncs[c], write)
                   ELSE LifecycleAnswered(syncs[c], write)
<1>3. Safely(syncs[c], sync)
  BY <1>1, LifecycleReturnsSafely
<1>4. syncs' = [syncs EXCEPT ![c] = sync]
      /\ UNCHANGED <<leases, connects, current, newest, calls, refetch, handles>>
  BY DEF WriteReturns, client, bounds
<1> HIDE DEF sync
<1>. QED BY <1>2, <1>3, <1>4, OneSyncStepQuiet

LEMMA WorldQuiet ==
  ASSUME HandlesInv, NEW s \in Session, LeaseEnds(s) \/ OtherAcquires(s)
  PROVE  Quiet
<1>1. LeasesStay
  BY LeasesStayed, NothingInNone DEF LeaseEnds, OtherAcquires, HandlesInv
<1>2. UNCHANGED <<connects, syncs, current, newest, calls, refetch, handles>>
  BY DEF LeaseEnds, OtherAcquires, client
<1>. QED BY <1>1, <1>2, AllStays, IsQuiet DEF HandlesInv

\* A step of connect c that leaves the leases' handles, the syncs and the calls.
LEMMA ConnectStepQuiet ==
  ASSUME HandlesInv, \A d \in Connect : ConnectStays(d), LeasesStay,
         UNCHANGED <<syncs, current, newest, calls, handles>>, UNCHANGED refetch \/ RefetchSuperseded
  PROVE  Quiet
BY AllStays, IsQuiet DEF HandlesInv

LEMMA AsksQuietly ==
  ASSUME HandlesInv, NEW c \in Connect, At(c) = "idle", NEW of, of \in {connects, Superseded},
         \/ connects' = Asks(of, c)
         \/ connects' = [of EXCEPT ![c] = [NoConnect EXCEPT !.at = "retarget", !.sid = session]]
  PROVE  \A d \in Connect : ConnectStays(d)
<1>1. /\ DOMAIN connects = Connect /\ DOMAIN of = Connect
      /\ \A d \in Connect : connects[d] \in ConnectCall
  BY StateTypes DEF HandlesInv, TypeInv, TypeOK, Superseded
<1>2. \A d \in Connect \ {c} :
        connects'[d] = connects[d] \/ connects'[d] = [connects[d] EXCEPT !.live = FALSE]
  BY <1>1 DEF Asks, Superseded
<1>3. \A d \in Connect \ {c} : ConnectStays(d)
  <2> SUFFICES ASSUME NEW d \in Connect \ {c} PROVE ConnectStays(d)
    OBVIOUS
  <2>1. CASE connects'[d] = connects[d]
    BY <2>1 DEF ConnectStays, At
  <2>2. CASE connects'[d] = [connects[d] EXCEPT !.live = FALSE]
    BY <1>1, <2>2 DEF ConnectStays, ConnectCall, At
  <2>. QED BY <1>2, <2>1, <2>2
<1>4. ConnectStays(c)
  <2>1. connects'[c].at \in {"acquire", "retarget"} /\ connects'[c].id = 0
        /\ connects'[c].known = Null
    BY <1>1 DEF Asks, NoConnect
  <2>2. connects[c].id = 0
    BY DEF HandlesInv, LeasesOfConnects
  <2>. QED BY <2>1, <2>2 DEF ConnectStays
<1>. QED BY <1>3, <1>4

LEMMA ConnectBeginQuiet == ASSUME HandlesInv, NEW c \in Connect, ConnectBegin(c) PROVE Quiet
<1>1. \A d \in Connect : ConnectStays(d)
  BY AsksQuietly DEF ConnectBegin
<1>2. UNCHANGED <<leases, syncs, current, newest, calls, refetch, handles>>
  BY DEF ConnectBegin
<1>. QED BY <1>1, <1>2, AllStays, ConnectStepQuiet DEF HandlesInv

LEMMA ConnectRetargetQuiet == ASSUME HandlesInv, NEW c \in Connect, ConnectRetarget(c) PROVE Quiet
<1> DEFINE now == IF connecting THEN Superseded ELSE connects
           after == IF bound # None /\ ~Returns
                    THEN [now EXCEPT ![c] = [NoConnect EXCEPT !.at = "retarget", !.sid = session]]
                    ELSE Asks(now, c)
<1>1. StartDisconnect(after, calls) /\ At(c) = "idle"
  BY DEF ConnectRetarget
<1>2. after = Asks(now, c)
      \/ after = [now EXCEPT ![c] = [NoConnect EXCEPT !.at = "retarget", !.sid = session]]
  OBVIOUS
<1>3. now \in {connects, Superseded}
  OBVIOUS
<1> HIDE DEF after, now
<1>4. /\ connects' = after /\ CallsStay /\ current' \in {current, None}
      /\ \A d \in Connect : SyncQuiet(d)
  BY <1>1, StartDisconnectQuietly DEF HandlesInv, TypeInv, TypeOK
<1>5. \A d \in Connect : ConnectStays(d)
  BY <1>1, <1>2, <1>3, <1>4, AsksQuietly
<1>6. UNCHANGED <<leases, newest, handles>> /\ (UNCHANGED refetch \/ RefetchSuperseded)
  BY DEF ConnectRetarget
<1>. QED BY <1>4, <1>5, <1>6, AllStays, IsQuiet DEF HandlesInv

LEMMA ConnectRefusedQuiet ==
  ASSUME HandlesInv, NEW c \in Connect, ConnectAcquire(c),
         \/ UNCHANGED leases /\ Goes(c, "catch")
         \/ FailedCall(connects[c].sid, Acquire(connects[c].sid, Me)) /\ Goes(c, "catch")
  PROVE  Quiet
<1>1. connects[c].sid \in Session
  BY ConnectSid DEF ConnectAcquire, HandlesInv
<1>2. LeasesStay
  BY <1>1, AllStays, CallStays DEF HandlesInv
<1>3. \A d \in Connect : ConnectStays(d)
  BY GoesQuietly DEF HandlesInv
<1>4. UNCHANGED <<syncs, current, newest, calls, refetch, handles>>
  BY DEF ConnectAcquire, client
<1>. QED BY <1>2, <1>3, <1>4, ConnectStepQuiet

LEMMA ConnectSupersededQuiet ==
  ASSUME HandlesInv, NEW c \in Connect, ConnectAcquired(c), ~connects[c].live
  PROVE  Quiet
<1>1. Goes(c, "drop") /\ At(c) = "acquired"
  BY DEF ConnectAcquired, AcquiredGoesTo
<1>2. \A d \in Connect : ConnectStays(d)
  BY <1>1, GoesQuietly DEF HandlesInv
<1>3. UNCHANGED <<leases, syncs, current, newest, calls, refetch, handles>>
  BY DEF ConnectAcquired, bounds
<1>. QED BY <1>2, <1>3, AllStays, ConnectStepQuiet DEF HandlesInv

LEMMA ConnectDropQuiet == ASSUME HandlesInv, NEW c \in Connect, ConnectDrop(c) PROVE Quiet
<1>1. connects[c].sid \in Session
  BY ConnectSid DEF ConnectDrop, HandlesInv
<1>2. LeasesStay
  BY <1>1, CallStays DEF ConnectDrop, HandlesInv
<1>3. \A d \in Connect : ConnectStays(d)
  BY GoesQuietly DEF ConnectDrop, HandlesInv
<1>4. UNCHANGED <<syncs, current, newest, calls, refetch, handles>>
  BY DEF ConnectDrop, client
<1>. QED BY <1>2, <1>3, <1>4, ConnectStepQuiet

LEMMA ConnectTokenQuiet == ASSUME HandlesInv, NEW c \in Connect, ConnectToken(c) PROVE Quiet
<1>1. \/ Goes(c, "catch") \/ Goes(c, "reopen")
      \/ Goes(c, "open") /\ At(c) = "token"
  BY DEF ConnectToken
<1>2. \A d \in Connect : ConnectStays(d)
  BY <1>1, GoesQuietly DEF HandlesInv
<1>3. UNCHANGED <<leases, syncs, current, newest, calls, refetch, handles>>
  BY DEF ConnectToken, client
<1>. QED BY <1>2, <1>3, AllStays, ConnectStepQuiet DEF HandlesInv

LEMMA ConnectOpensQuiet ==
  ASSUME HandlesInv, NEW c \in Connect, ConnectOpen(c),
         \/ connects' = [connects EXCEPT ![c].at = "media", ![c].known = Null]
         \/ Goes(c, "catch"),
         UNCHANGED <<syncs, newest>>
  PROVE  Quiet
<1>1. \A d \in Connect : ConnectStays(d)
  <2>1. CASE Goes(c, "catch")
    BY <2>1, GoesQuietly DEF HandlesInv
  <2>2. CASE connects' = [connects EXCEPT ![c].at = "media", ![c].known = Null]
    <3> DEFINE x == [connects[c] EXCEPT !.at = "media", !.known = Null]
    <3>1. connects' = [connects EXCEPT ![c] = x]
      BY <2>2 DEF HandlesInv, TypeInv, TypeOK
    <3>2. connects[c] \in ConnectCall
      BY StateTypes DEF HandlesInv
    <3>3. x \in ConnectCall /\ x.at = "media" /\ x.sid = connects[c].sid
          /\ x.id = connects[c].id /\ x.known = Null
      BY <3>2, Handles DEF ConnectCall
    <3> HIDE DEF x
    <3>. QED BY <3>1, <3>3, ConnectGoesQuietly DEF HandlesInv
  <2>. QED BY <2>1, <2>2
<1>2. UNCHANGED <<leases, current, calls, refetch, handles>>
  BY DEF ConnectOpen
<1>. QED BY <1>1, <1>2, AllStays, ConnectStepQuiet DEF HandlesInv

LEMMA ConnectClearedQuiet == ASSUME HandlesInv, NEW c \in Connect, ConnectCleared(c) PROVE Quiet
<1>1. \A d \in Connect : ConnectStays(d)
  BY GoesQuietly DEF ConnectCleared, HandlesInv
<1>2. UNCHANGED <<leases, syncs, current, newest, calls, refetch, handles>>
  BY DEF ConnectCleared, client, bounds
<1>. QED BY <1>1, <1>2, AllStays, ConnectStepQuiet DEF HandlesInv

LEMMA ConnectMediaQuiet == ASSUME HandlesInv, NEW c \in Connect, ConnectMedia(c) PROVE Quiet
<1>1. Goes(c, "done") \/ Goes(c, "complete") \/ Goes(c, "catch")
  BY DEF ConnectMedia
<1>2. \A d \in Connect : ConnectStays(d)
  BY <1>1, GoesQuietly DEF HandlesInv
<1>3. UNCHANGED <<leases, syncs, current, newest, calls, refetch, handles>>
  BY DEF ConnectMedia
<1>. QED BY <1>2, <1>3, AllStays, ConnectStepQuiet DEF HandlesInv

LEMMA ConnectCatchQuiet == ASSUME HandlesInv, NEW c \in Connect, ConnectCatch(c) PROVE Quiet
<1>1. \A d \in Connect : ConnectStays(d)
  <2>1. CASE Goes(c, "done")
    BY <2>1, GoesQuietly DEF HandlesInv
  <2>2. CASE bound # None /\ connects' = [connects EXCEPT ![c].at = "release", ![c].target = bound]
    <3> DEFINE x == [connects[c] EXCEPT !.at = "release", !.target = bound]
    <3>1. connects' = [connects EXCEPT ![c] = x]
      BY <2>2 DEF HandlesInv, TypeInv, TypeOK
    <3>2. connects[c] \in ConnectCall /\ bound \in Session
      BY <2>2, StateTypes DEF HandlesInv, TypeInv, TypeOK
    <3>3. x \in ConnectCall /\ x.at = "release" /\ x.sid = connects[c].sid
          /\ x.id = connects[c].id /\ x.known = connects[c].known
      BY <3>2 DEF ConnectCall
    <3> HIDE DEF x
    <3>. QED BY <3>1, <3>3, ConnectGoesQuietly DEF HandlesInv
  <2>. QED BY <2>1, <2>2 DEF ConnectCatch
<1>2. UNCHANGED <<leases, syncs, current, newest, calls, refetch, handles>>
  BY DEF ConnectCatch, bounds
<1>. QED BY <1>1, <1>2, AllStays, ConnectStepQuiet DEF HandlesInv

LEMMA ConnectReleaseQuiet == ASSUME HandlesInv, NEW c \in Connect, ConnectRelease(c) PROVE Quiet
<1>1. connects[c].target \in Session
  BY DEF ConnectRelease, HandlesInv, TypeInv, CallsKnowSession
<1>2. LeasesStay
  BY <1>1, CallStays DEF ConnectRelease, HandlesInv
<1>3. \A d \in Connect : ConnectStays(d)
  BY GoesQuietly DEF ConnectRelease, HandlesInv
<1>4. UNCHANGED <<syncs, current, newest, calls, refetch, handles>>
  BY DEF ConnectRelease, client
<1>. QED BY <1>2, <1>3, <1>4, ConnectStepQuiet

LEMMA ConnectReleasedQuiet == ASSUME HandlesInv, NEW c \in Connect, ConnectReleased(c) PROVE Quiet
<1>1. \A d \in Connect : ConnectStays(d)
  <2> DEFINE x == [connects[c] EXCEPT !.at = "done", !.target = None]
  <2>1. connects' = [connects EXCEPT ![c] = x]
    BY DEF ConnectReleased, HandlesInv, TypeInv, TypeOK
  <2>2. connects[c] \in ConnectCall
    BY StateTypes DEF HandlesInv
  <2>3. x \in ConnectCall /\ x.at = "done" /\ x.sid = connects[c].sid
        /\ x.id = connects[c].id /\ x.known = connects[c].known
    BY <2>2 DEF ConnectCall
  <2> HIDE DEF x
  <2>. QED BY <2>1, <2>3, ConnectGoesQuietly DEF HandlesInv
<1>2. UNCHANGED <<leases, syncs, current, newest, calls, refetch, handles>>
  BY DEF ConnectReleased, bounds
<1>. QED BY <1>1, <1>2, AllStays, ConnectStepQuiet DEF HandlesInv


-------------------------------------------------------------------------------
\* The steps that are not quiet.

\* A handle in use is one that the provider has given out.
LEMMA AllGivenOut ==
  ASSUME TypeInv, NothingNewer, NEW c \in Connect
  PROVE  /\ \A v : Wants(syncs[c], v) \/ Knows(syncs[c], v) \/ Expects(syncs[c], v) =>
                     v \in Int /\ v <= handles
         /\ connects[c].known <= handles
<1>1. SyncOK(syncs[c])
  BY StateTypes
<1>2. \A v : Wants(syncs[c], v) \/ Knows(syncs[c], v) \/ Expects(syncs[c], v) => v \in Int
  BY <1>1, HandleTypes, QueueOf DEF Wants, Knows, Expects
<1>. QED BY <1>2 DEF NothingNewer

LEMMA CalmGivenOut ==
  ASSUME TypeInv, NothingNewer, NEW c \in Connect, NEW sync, sync = syncs[c] \/ Calm(syncs[c], sync)
  PROVE  \A v : Wants(sync, v) \/ Knows(sync, v) \/ Expects(sync, v) => v \in Int /\ v <= handles
<1>1. \A v : Wants(sync, v) \/ Knows(sync, v) \/ Expects(sync, v) =>
        Wants(syncs[c], v) \/ Knows(syncs[c], v) \/ Expects(syncs[c], v) \/ v \in {Unset, Null}
  BY DEF Calm
<1>2. Unset \in Int /\ Null \in Int /\ Unset <= handles /\ Null <= handles
  BY StateTypes DEF Unset, Null
<1>. QED BY <1>1, <1>2, AllGivenOut

\* The other connects, in a step of the sync of c that writes no lease.
LEMMA OthersInOrder ==
  ASSUME HandlesInv, TypeInv', IdsStay, NEW c \in Connect,
         \A d \in Connect \ {c} : /\ ConnectStays(d) /\ newest'[d] = newest[d]
                                  /\ syncs'[d] = syncs[d] \/ Calm(syncs[d], syncs'[d]),
         \A s \in Session : leases'[s].handle = leases[s].handle
  PROVE  \A d \in Connect \ {c} : OrderOf(d)'
<1> SUFFICES ASSUME NEW d \in Connect \ {c} PROVE OrderOf(d)'
  OBVIOUS
<1>. QED BY OrderKept DEF HandlesInv, WritesInOrder

\* Who holds a lease has a lease.
HeldHasNumber == \A s \in Session : leases[s].holder # None => leases[s].id # 0

LEMMA ConnectAcquireKeeps ==
  ASSUME HandlesInv, TypeInv', HeldHasNumber, NEW c \in Connect, At(c) = "acquire",
         Acquire(connects[c].sid, Me),
         connects' = [connects EXCEPT ![c].at = "acquired", ![c].id = leases'[connects[c].sid].id,
                                      ![c].known = leases'[connects[c].sid].handle],
         UNCHANGED <<client, syncs, newest, calls, refetch, handles>>
  PROVE  HandlesInv'
<1> DEFINE s == connects[c].sid
<1>1. s \in Session /\ connects[c] \in ConnectCall
  BY ConnectSid DEF HandlesInv
<1>2. /\ syncs[c] = NewSync /\ newest[c] = Null /\ connects[c].id = 0
      /\ syncs[c].latest = Unset
  BY DEF HandlesInv, NewUntilBound, LeasesOfConnects
<1>3. current # c
  BY <1>2, NothingInNone DEF HandlesInv, NewUntilBound
<1>4. LeasesStay
  BY <1>1, LeasesStayed, NothingInNone DEF HandlesInv
<1>5. leases'[s].id # 0
  <2>1. leases'[s].id = IF Holds(s, Me) THEN leases[s].id ELSE leases[s].id + 1
    BY <1>1 DEF Acquire, HandlesInv, TypeInv, TypeOK
  <2>2. Holds(s, Me) => leases[s].id # 0
    BY <1>1, NothingInNone DEF HeldHasNumber, Holds
  <2>3. leases[s].id \in Nat
    BY <1>1, StateTypes DEF HandlesInv
  <2>. QED BY <2>1, <2>2, <2>3
<1>6. /\ connects'[c].at = "acquired" /\ connects'[c].sid = s
      /\ connects'[c].id = leases'[s].id /\ connects'[c].known = leases'[s].handle
      /\ \A d \in Connect \ {c} : connects'[d] = connects[d]
  <2> DEFINE id == leases'[s].id
             known == leases'[s].handle
             x == [connects[c] EXCEPT !.at = "acquired", !.id = id, !.known = known]
  <2>1. connects \in [Connect -> ConnectCall]
    BY DEF HandlesInv, TypeInv, TypeOK
  <2>2. connects' = [connects EXCEPT ![c] = x]
    BY <2>1
  <2> HIDE DEF id, known
  <2>3. x.at = "acquired" /\ x.sid = s /\ x.id = id /\ x.known = known
    BY <1>1 DEF ConnectCall
  <2> HIDE DEF x
  <2>4. connects'[c] = x /\ \A d \in Connect \ {c} : connects'[d] = connects[d]
    BY <2>1, <2>2
  <2>. QED BY <2>3, <2>4 DEF id, known
<1> HIDE DEF s
<1>7. UNCHANGED <<syncs, newest, current, calls, refetch, handles>>
  BY DEF client
<1>8. \A d \in Connect \ {c} : ConnectStays(d) /\ syncs'[d] = syncs[d] /\ newest'[d] = newest[d]
  BY <1>6, <1>7 DEF ConnectStays, At
<1>9. IdsStay
  BY <1>2, <1>4, <1>6 DEF IdsStay, LeasesStay
<1>10. NothingNewer'
  BY <1>1, <1>4, <1>6, <1>7, ZenonT(30) DEF HandlesInv, NothingNewer, LeasesStay
<1>11. NewUntilBound'
  BY <1>2, <1>6, <1>7, ZenonT(30) DEF HandlesInv, NewUntilBound, At
<1>12. LeasesOfConnects'
  <2>1. \A d \in Connect : connects'[d].id # 0 =>
          connects'[d].sid \in Session /\ connects'[d].id <= leases'[connects'[d].sid].id
    <3> SUFFICES ASSUME NEW d \in Connect, connects'[d].id # 0
                 PROVE  connects'[d].sid \in Session
                        /\ connects'[d].id <= leases'[connects'[d].sid].id
      OBVIOUS
    <3>1. CASE d = c
      BY <1>1, <1>6, <3>1, StateTypes, SMTT(20) DEF TypeInv, TypeOK
    <3>2. CASE d # c
      <4>1. connects'[d] = connects[d] /\ connects[d].sid \in Session
            /\ connects[d].id <= leases[connects[d].sid].id
        BY <1>6, <3>2 DEF HandlesInv, LeasesOfConnects
      <4>2. leases'[connects[d].sid].id >= leases[connects[d].sid].id
        BY <4>1, <1>4 DEF LeasesStay
      <4>3. leases'[connects[d].sid].id \in Nat /\ leases[connects[d].sid].id \in Nat
            /\ connects[d].id \in Nat
        BY <4>1, StateTypes DEF HandlesInv, TypeInv, TypeOK
      <4>4. connects[d].id <= leases'[connects[d].sid].id
        BY <4>1, <4>2, <4>3, SMTT(20)
      <4>. QED BY <4>1, <4>4, Zenon
    <3>. QED BY <3>1, <3>2
  <2>2. \A d \in Connect : syncs'[d].latest # Unset => connects'[d].id # 0
    BY <1>2, <1>6, <1>7 DEF HandlesInv, LeasesOfConnects
  <2>3. \A d \in Connect : connects'[d].at \in {"idle", "retarget", "acquire"} => connects'[d].id = 0
    BY <1>6 DEF HandlesInv, LeasesOfConnects, At
  <2>4. \A d \in Connect : connects'[d].at = "acquired" => connects'[d].id # 0
    BY <1>5, <1>6 DEF HandlesInv, LeasesOfConnects, At
  <2>. QED BY <2>1, <2>2, <2>3, <2>4 DEF LeasesOfConnects, At
<1>13. WritesInOrder'
  <2>1. \A d \in Connect \ {c} : OrderOf(d)'
    BY <1>4, <1>8, <1>9, OthersInOrder DEF LeasesStay
  <2>2. InOrder(c)'
    <3>1. LeaseOf(c)' = leases'[s] /\ leases'[s].handle \in Int
      BY <1>1, <1>4, <1>6, StateTypes DEF LeaseOf, HandlesInv, LeasesStay
    <3>2. syncs'[c] = NewSync /\ newest'[c] = Null
      BY <1>2, <1>7
    <3>3. Ordered(syncs'[c], LeaseOf(c)'.handle)
      BY <3>1, <3>2, NewSyncOrdered
    <3>. QED BY <1>2, <1>6, <3>1, <3>2, <3>3 DEF InOrder, At
  <2>3. OrderOf(c)'
    BY <2>2 DEF OrderOf
  <2>. QED BY <2>1, <2>3 DEF WritesInOrder
<1>14. NewestIsKept'
  <2> SUFFICES ASSUME NEW e \in Connect, current' = e PROVE NewestOf(e)'
    BY DEF NewestIsKept
  <2>1. current = e
    BY <1>7
  <2>. QED BY <1>4, <1>7, <1>9, <2>1, NewestKept DEF HandlesInv, LeasesStay
<1>. QED BY <1>10, <1>11, <1>12, <1>13, <1>14 DEF HandlesInv


LEMMA NewSyncTold ==
  ASSUME NEW known \in Handle
  PROVE  LET sync == NoteKnown(NewSync, known) IN
         /\ sync.latest = known /\ known # Unset
         /\ \A v : Wants(sync, v) \/ Knows(sync, v) \/ Expects(sync, v) => v \in {known, Unset}
<1> DEFINE sync == NoteKnown(NewSync, known)
<1>1. /\ sync.queue = <<>> /\ DOMAIN sync.queue = {} /\ sync.latest = known
      /\ sync.pending = Unset /\ sync.retry = Unset /\ sync.last = known
      /\ sync.writes = {} /\ sync.put.answer = Unset /\ sync.put.expected = {} /\ known # Unset
  BY Handles DEF NoteKnown, NewSync, NoPut
<1> HIDE DEF sync
<1>2. \A v : Wants(sync, v) \/ Knows(sync, v) \/ Expects(sync, v) => v \in {known, Unset}
  BY <1>1 DEF Wants, Knows, Expects
<1>. QED BY <1>1, <1>2 DEF sync

LEMMA ConnectAcquiredKeeps ==
  ASSUME HandlesInv, TypeInv', NEW c \in Connect, ConnectAcquired(c), connects[c].live
  PROVE  HandlesInv'
<1> DEFINE s == connects[c].sid
           k == connects[c].known
<1>1. s \in Session /\ connects[c] \in ConnectCall /\ k \in Handle /\ k \in Int
  BY ConnectSid, StateTypes DEF ConnectAcquired, HandlesInv, ConnectCall
<1>2. /\ syncs[c] = NewSync /\ newest[c] = Null /\ connects[c].id # 0
      /\ syncs[c].latest = Unset /\ At(c) = "acquired"
  BY DEF HandlesInv, NewUntilBound, LeasesOfConnects, ConnectAcquired
<1>3. current # c
  BY <1>2, NothingInNone DEF HandlesInv, NewUntilBound
<1>4. /\ syncs'[c] = NoteKnown(NewSync, k) /\ current' = c
      /\ \A d \in Connect \ {c} : syncs'[d] = syncs[d] \/ (d = current /\ syncs'[d] = Dispose(syncs[d]))
  BY <1>3, NothingInNone DEF ConnectAcquired, DisposeCurrent, HandlesInv, TypeInv, TypeOK
<1>5. UNCHANGED <<leases, newest, calls, refetch, handles>>
  BY DEF ConnectAcquired, bounds
<1>6. /\ connects'[c].at = "token" /\ connects'[c].sid = s /\ connects'[c].id = connects[c].id
      /\ connects'[c].known = k
      /\ \A d \in Connect \ {c} : connects'[d] = connects[d]
  <2> DEFINE x == [connects[c] EXCEPT !.at = "token"]
  <2>1. connects \in [Connect -> ConnectCall]
    BY DEF HandlesInv, TypeInv, TypeOK
  <2>2. connects' = [connects EXCEPT ![c] = x]
    BY <2>1 DEF ConnectAcquired, Goes, AcquiredGoesTo
  <2>3. x.at = "token" /\ x.sid = s /\ x.id = connects[c].id /\ x.known = k
    BY <1>1 DEF ConnectCall
  <2> HIDE DEF x
  <2>4. connects'[c] = x /\ \A d \in Connect \ {c} : connects'[d] = connects[d]
    BY <2>1, <2>2
  <2>. QED BY <2>3, <2>4
<1> HIDE DEF s, k
<1>7. \A d \in Connect \ {c} : /\ ConnectStays(d) /\ newest'[d] = newest[d]
                               /\ syncs'[d] = syncs[d] \/ Calm(syncs[d], syncs'[d])
  <2>1. \A d \in Connect \ {c} : syncs'[d] = syncs[d] \/ Calm(syncs[d], syncs'[d])
    BY <1>4, DisposeCalmly, StateTypes DEF HandlesInv
  <2>. QED BY <1>5, <1>6, <2>1 DEF ConnectStays, At
<1>8. \A d \in Connect \ {c} : syncs'[d].latest = syncs[d].latest
  BY <1>7 DEF Calm
<1>9. /\ syncs'[c].latest = k /\ k # Unset
      /\ \A v : Wants(syncs'[c], v) \/ Knows(syncs'[c], v) \/ Expects(syncs'[c], v) => v \in {k, Unset}
  BY <1>1, <1>4, NewSyncTold
<1>10. LeasesStay
  BY <1>5, AllStays DEF HandlesInv
<1>11. IdsStay
  BY <1>6, <1>10 DEF IdsStay, LeasesStay, s
<1>12. NothingNewer'
  <2>1. k <= handles
    BY DEF HandlesInv, NothingNewer, k
  <2>2. \A v : Wants(syncs'[c], v) \/ Knows(syncs'[c], v) \/ Expects(syncs'[c], v) => v <= handles
    BY <1>9, <2>1, StateTypes DEF HandlesInv, Unset
  <2>3. \A d \in Connect \ {c} :
          \A v : Wants(syncs'[d], v) \/ Knows(syncs'[d], v) \/ Expects(syncs'[d], v) => v <= handles
    BY <1>7, CalmGivenOut DEF HandlesInv
  <2>4. \A d \in Connect : connects'[d].known <= handles
    BY <1>6, <2>1 DEF HandlesInv, NothingNewer
  <2>. QED BY <1>5, <2>2, <2>3, <2>4 DEF HandlesInv, NothingNewer
<1>13. NewUntilBound'
  <2>1. \A d \in Connect : syncs'[d].latest = Unset =>
          d # c /\ syncs[d].latest = Unset /\ syncs'[d] = NewSync /\ newest'[d] = Null
    <3>1. \A d \in Connect \ {c} : syncs[d].latest = Unset => d # current
      BY NothingInNone DEF HandlesInv, NewUntilBound
    <3>. QED BY <1>4, <1>5, <1>8, <1>9, <3>1 DEF HandlesInv, NewUntilBound
  <2>2. \A d \in Connect : syncs[d].latest # Unset => syncs'[d].latest # Unset
    BY <2>1
  <2>3. \A d \in Connect :
          connects'[d].at \in {"idle", "retarget", "acquire", "acquired", "drop"} =>
            d # c /\ syncs'[d].latest = Unset
    BY <1>6, <1>8 DEF HandlesInv, NewUntilBound, At
  <2>4. \A d \in Connect : connects'[d].at \in {"token", "open"} => syncs'[d].latest # Unset
    BY <1>6, <1>8, <1>9 DEF HandlesInv, NewUntilBound, At
  <2>5. \A f \in Call : calls'[f].sync # None => syncs'[calls'[f].sync].latest # Unset
    BY <1>5, <2>2, StateTypes DEF HandlesInv, NewUntilBound
  <2>. QED BY <1>4, <1>9, <2>1, <2>3, <2>4, <2>5 DEF NewUntilBound, At
<1>14. LeasesOfConnects'
  <2>1. \A d \in Connect : connects'[d].id = connects[d].id /\ connects'[d].sid = connects[d].sid
    BY <1>6 DEF s
  <2>2. \A d \in Connect : syncs'[d].latest # Unset => connects'[d].id # 0
    BY <1>2, <1>8, <2>1 DEF HandlesInv, LeasesOfConnects
  <2>3. \A d \in Connect : connects'[d].at \in {"idle", "retarget", "acquire", "acquired"} =>
          connects[d].at = connects'[d].at
    BY <1>6
  <2>. QED BY <1>5, <2>1, <2>2, <2>3 DEF HandlesInv, LeasesOfConnects, At
<1>15. WritesInOrder'
  <2>1. \A d \in Connect \ {c} : OrderOf(d)'
    BY <1>7, <1>10, <1>11, OthersInOrder DEF LeasesStay
  <2>2. OrderOf(c)'
    <3> SUFFICES ASSUME Owns(c)', Alone(c)' PROVE InOrder(c)'
      BY DEF OrderOf
    <3>1. Owns(c) /\ Alone(c) /\ LeaseOf(c)' = LeaseOf(c)
      <4>1. LeaseOf(c)' = LeaseOf(c)
        BY <1>5, <1>6 DEF LeaseOf, s
      <4>. QED BY <1>2, <1>11, <4>1, AloneBefore DEF HandlesInv
    <3>2. k = LeaseOf(c).handle
      BY <1>2, <3>1, Handles DEF HandlesInv, WritesInOrder, OrderOf, InOrder, k
    <3>3. Ordered(syncs'[c], LeaseOf(c)'.handle) /\ OneHandle(syncs'[c])
      BY <1>1, <1>4, <3>1, <3>2, NewSyncOrdered
    <3>. QED BY <1>2, <1>5, <1>6, <3>3 DEF InOrder, At
  <2>. QED BY <2>1, <2>2 DEF WritesInOrder
<1>16. NewestIsKept'
  BY <1>2, <1>4, <1>5 DEF NewestIsKept, NewestOf
<1>. QED BY <1>12, <1>13, <1>14, <1>15, <1>16 DEF HandlesInv

\* The provider refuses the handle: it is to be cleared.
LEMMA ConnectClearKeeps ==
  ASSUME HandlesInv, TypeInv', NEW c \in Connect, At(c) = "open", Goes(c, "clear"),
         syncs' = [syncs EXCEPT ![c] = ClearRemote(@, c)],
         newest' = [newest EXCEPT ![c] = IF @ = Unset THEN Unset ELSE Null],
         UNCHANGED <<leases, current, calls, refetch, handles>>
  PROVE  HandlesInv'
<1>1. SyncOK(syncs[c]) /\ syncs[c].latest # Unset /\ connects[c] \in ConnectCall
  BY StateTypes DEF HandlesInv, NewUntilBound
<1>2. /\ syncs'[c] = ClearRemote(syncs[c], c)
      /\ newest'[c] = (IF newest[c] = Unset THEN Unset ELSE Null)
      /\ \A d \in Connect \ {c} : syncs'[d] = syncs[d] /\ newest'[d] = newest[d]
  BY DEF HandlesInv, TypeInv, TypeOK
<1>3. /\ syncs'[c].latest = Null
      /\ \A v : Wants(syncs'[c], v) => Wants(syncs[c], v) \/ v \in {Unset, Null}
      /\ \A v : Knows(syncs'[c], v) \/ Expects(syncs'[c], v) =>
           Wants(syncs[c], v) \/ Knows(syncs[c], v) \/ Expects(syncs[c], v) \/ v \in {Unset, Null}
      /\ \A stored \in Int : Ordered(syncs[c], stored) => Ordered(syncs'[c], stored)
  BY <1>1, <1>2, ClearRemoteKeepsOrder
<1>4. LeasesStay
  BY AllStays DEF HandlesInv
<1>5. \A d \in Connect : ConnectStays(d)
  BY GoesQuietly DEF HandlesInv
<1>6. connects'[c].at = "clear" /\ connects'[c].known = connects[c].known
  BY <1>1 DEF Goes, HandlesInv, TypeInv, TypeOK, ConnectCall
<1>7. Lives
  <2>1. \A d \in Connect : SyncLives(d)
    BY <1>1, <1>2, <1>3, Handles DEF SyncLives
  <2>. QED BY <1>4, <1>5, <2>1 DEF Lives, LeasesStay
<1>8. IdsStay /\ NewUntilBound' /\ LeasesOfConnects'
  BY <1>7, LivesKeepsIds, LivesKept DEF HandlesInv
<1>9. NothingNewer'
  <2>1. Unset <= handles /\ Null <= handles
    BY StateTypes DEF Unset, Null, HandlesInv
  <2>2. \A v : Wants(syncs'[c], v) \/ Knows(syncs'[c], v) \/ Expects(syncs'[c], v) => v <= handles
    BY <1>3, <2>1 DEF HandlesInv, NothingNewer
  <2>3. \A d \in Connect : connects'[d].known <= handles
    BY <1>5, <2>1 DEF ConnectStays, HandlesInv, NothingNewer
  <2>. QED BY <1>2, <2>2, <2>3 DEF HandlesInv, NothingNewer
<1>10. WritesInOrder'
  <2>1. \A d \in Connect \ {c} : OrderOf(d)'
    BY <1>2, <1>4, <1>5, <1>8, OthersInOrder DEF LeasesStay
  <2>2. OrderOf(c)'
    <3> SUFFICES ASSUME connects'[c].id # 0, Owns(c)', Alone(c)', newest'[c] # Unset
                 PROVE  InOrder(c)'
      BY DEF OrderOf
    <3>1. connects[c].id # 0 /\ newest[c] # Unset /\ newest'[c] = Null
      BY <1>2, <1>5 DEF ConnectStays
    <3>2. Owns(c) /\ Alone(c) /\ connects'[c].sid = connects[c].sid /\ connects[c].sid \in Session
      BY <1>8, <3>1, AloneBefore DEF HandlesInv
    <3>3. Ordered(syncs[c], LeaseOf(c).handle) /\ LeaseOf(c)' = LeaseOf(c)
          /\ LeaseOf(c).handle \in Int
      BY <3>1, <3>2, StateTypes DEF HandlesInv, WritesInOrder, OrderOf, InOrder, LeaseOf
    <3>4. Ordered(syncs'[c], LeaseOf(c)'.handle)
      BY <1>3, <3>3
    <3>. QED BY <1>3, <1>6, <3>1, <3>4 DEF InOrder, At
  <2>. QED BY <2>1, <2>2 DEF WritesInOrder
<1>11. NewestIsKept'
  <2> SUFFICES ASSUME NEW e \in Connect, current = e PROVE NewestOf(e)'
    BY DEF NewestIsKept
  <2>1. CASE e = c
    BY <1>2, <2>1 DEF NewestOf
  <2>2. CASE e # c
    <3>1. \A h \in Handle \ {Null}, d \in Connect \ {e} :
            /\ Wants(syncs'[d], h) => Wants(syncs[d], h)
            /\ syncs[d].latest = Unset => syncs'[d].latest = Unset
      BY <1>1, <1>2, <1>3, Handles
    <3>2. syncs'[e] = syncs[e] /\ newest'[e] = newest[e]
      BY <1>2, <2>2
    <3>. QED BY <1>4, <1>8, <3>1, <3>2, NewestKept DEF HandlesInv, LeasesStay
  <2>. QED BY <2>1, <2>2
<1>. QED BY <1>8, <1>9, <1>10, <1>11 DEF HandlesInv


\* The provider gives out a handle.
LEMMA AnnounceKeeps ==
  ASSUME HandlesInv, TypeInv', NEW c \in Connect, current = c, handles' = handles + 1,
         syncs' = [syncs EXCEPT ![c] = Schedule(@, handles')],
         newest' = [newest EXCEPT ![c] = IF @ = Unset THEN Unset ELSE handles'],
         UNCHANGED <<leases, connects, current, calls, refetch>>
  PROVE  HandlesInv'
<1>1. PICK v \in Handle \ {Null} : handles' = v /\ v = handles + 1 /\ v # Unset
  <2>1. handles' \in Handle /\ handles + 1 # Null
    BY StateTypes DEF TypeInv, TypeOK, Handle, Null, HandlesInv
  <2>. QED BY <2>1, Handles
<1>2. SyncOK(syncs[c]) /\ syncs[c].latest # Unset
  BY StateTypes, NothingInNone DEF HandlesInv, NewUntilBound
<1>3. /\ syncs'[c] = Schedule(syncs[c], v)
      /\ newest'[c] = (IF newest[c] = Unset THEN Unset ELSE v)
      /\ \A d \in Connect \ {c} : syncs'[d] = syncs[d] /\ newest'[d] = newest[d]
  BY <1>1 DEF HandlesInv, TypeInv, TypeOK
<1>4. \A n \in Int : n <= handles => n < v /\ n <= v
  BY <1>1, StateTypes DEF HandlesInv
<1>5. \A d \in Connect : \A u : Wants(syncs[d], u) \/ Knows(syncs[d], u) \/ Expects(syncs[d], u) =>
                                u \in Int /\ u < v /\ u <= v
  BY <1>4, AllGivenOut DEF HandlesInv
<1>6. connects[c].id # 0 /\ connects[c].sid \in Session
  BY <1>2 DEF HandlesInv, LeasesOfConnects
<1>7. \A s \in Session : leases[s].handle \in Int /\ leases[s].handle < v
  BY <1>4, StateTypes DEF HandlesInv, NothingNewer
<1>8. PICK stored \in Int : stored = LeaseOf(c).handle /\ stored < v
  BY <1>6, <1>7 DEF LeaseOf
<1>9. /\ syncs'[c].latest = v
      /\ \A u : Wants(syncs'[c], u) => Wants(syncs[c], u) \/ u \in {Unset, v}
      /\ \A u : /\ Knows(syncs'[c], u) <=> Knows(syncs[c], u)
                /\ Expects(syncs'[c], u) <=> Expects(syncs[c], u)
      /\ Keeps(syncs'[c], v, stored)
      /\ Ordered(syncs[c], stored) => Ordered(syncs'[c], stored)
  BY <1>2, <1>3, <1>5, <1>8, ScheduleKeepsOrder
<1>10. LeasesStay /\ \A d \in Connect : ConnectStays(d)
  BY AllStays DEF HandlesInv
<1>11. Lives
  <2>1. \A d \in Connect : SyncLives(d)
    BY <1>1, <1>2, <1>3, <1>9 DEF SyncLives
  <2>. QED BY <1>10, <2>1 DEF Lives, LeasesStay
<1>12. IdsStay /\ NewUntilBound' /\ LeasesOfConnects'
  BY <1>11, LivesKeepsIds, LivesKept DEF HandlesInv
<1>13. NothingNewer'
  <2>1. Unset <= v /\ v <= v
    BY <1>1, Handles, HandleTypes, StateTypes DEF Unset, HandlesInv
  <2>2. \A u : Wants(syncs'[c], u) \/ Knows(syncs'[c], u) \/ Expects(syncs'[c], u) => u <= v
    BY <1>5, <1>9, <2>1
  <2>3. \A d \in Connect \ {c} : \A u : Wants(syncs'[d], u) \/ Knows(syncs'[d], u)
                                          \/ Expects(syncs'[d], u) => u <= v
    BY <1>3, <1>5
  <2>4. \A d \in Connect : connects[d].known <= v
    BY <1>4, StateTypes DEF HandlesInv, NothingNewer
  <2>5. refetch.handle <= v /\ \A s \in Session : leases[s].handle <= v
    BY <1>4, StateTypes DEF HandlesInv, NothingNewer
  <2>. QED BY <1>1, <2>2, <2>3, <2>4, <2>5 DEF NothingNewer
<1>14. WritesInOrder'
  <2>1. \A d \in Connect \ {c} : OrderOf(d)'
    BY <1>3, <1>10, <1>12, OthersInOrder DEF LeasesStay
  <2>2. OrderOf(c)'
    <3> SUFFICES ASSUME Owns(c), Alone(c), newest'[c] # Unset PROVE InOrder(c)'
      BY DEF OrderOf, Owns, Alone, LeaseOf
    <3>1. newest[c] # Unset /\ newest'[c] = v /\ v # Null
      BY <1>3
    <3>2. InOrder(c)
      BY <1>6, <3>1 DEF HandlesInv, WritesInOrder, OrderOf
    <3>3. Ordered(syncs'[c], LeaseOf(c)'.handle)
      BY <1>8, <1>9, <3>2 DEF InOrder, LeaseOf
    <3>. QED BY <1>9, <3>1, <3>2, <3>3 DEF InOrder, At, LeaseOf
  <2>. QED BY <2>1, <2>2 DEF WritesInOrder
<1>15. NewestIsKept'
  <2> SUFFICES ASSUME newest'[c] \notin {Null, Unset} PROVE NewestOf(c)'
    BY DEF NewestIsKept, NewestOf
  <2>1. newest'[c] = v
    BY <1>3
  <2>2. Keeps(syncs'[c], v, LeaseOf(c)'.handle)
    BY <1>8, <1>9 DEF LeaseOf
  <2>3. refetch.handle # v /\ \A s \in Session : leases[s].handle # v
    <3>1. refetch.handle \in Int /\ refetch.handle < v
      BY <1>4, StateTypes DEF HandlesInv, NothingNewer
    <3>. QED BY <1>1, <1>7, <3>1, Handles
  <2>4. \A d \in Connect \ {c} : ~Wants(syncs'[d], v)
    <3>1. v \in Int
      BY Handles
    <3>. QED BY <1>3, <1>5, <3>1
  <2>5. OnlyHere(c, v)'
    BY <1>6, <2>3, <2>4 DEF OnlyHere, LeaseOf
  <2>. QED BY <2>1, <2>2, <2>5 DEF NewestOf
<1>. QED BY <1>12, <1>13, <1>14, <1>15 DEF HandlesInv

\* A write of c reaches its lease, which goes from stored to after.
LEMMA TellingKeeps ==
  ASSUME HandlesInv, TypeInv', NEW c \in Connect, syncs[c].latest # Unset,
         NEW sync, NEW after \in Handle, Tells(syncs[c], sync, LeaseOf(c).handle, after),
         after = LeaseOf(c).handle \/ Owns(c),
         syncs' = [syncs EXCEPT ![c] = sync],
         \A s \in Session : leases'[s].id = leases[s].id,
         \A s \in Session \ {connects[c].sid} : leases'[s].handle = leases[s].handle,
         leases'[connects[c].sid].handle = after,
         UNCHANGED <<connects, current, newest, calls, refetch, handles>>
  PROVE  HandlesInv'
<1>1. connects[c].id # 0 /\ connects[c].sid \in Session
  BY DEF HandlesInv, LeasesOfConnects
<1>2. PICK stored \in Handle : stored = LeaseOf(c).handle
  BY <1>1, StateTypes DEF LeaseOf, HandlesInv
<1>3. Tells(syncs[c], sync, stored, after) /\ (after = stored \/ Owns(c))
  BY <1>2
<1>4. syncs'[c] = sync /\ \A d \in Connect \ {c} : syncs'[d] = syncs[d]
  BY DEF HandlesInv, TypeInv, TypeOK
<1>5. /\ sync.latest = syncs[c].latest
      /\ \A v : Wants(sync, v) => Wants(syncs[c], v)
      /\ \A v : Knows(sync, v) => Knows(syncs[c], v) \/ v \in {Unset, after}
      /\ \A v : Expects(sync, v) => Expects(syncs[c], v)
      /\ after # stored => Wants(syncs[c], after)
  BY <1>3 DEF Tells
<1>6. \A d \in Connect : /\ connects[d].sid # connects[c].sid /\ connects[d].sid \in Session =>
                              LeaseOf(d)'.handle = LeaseOf(d).handle
                         /\ connects[d].sid = connects[c].sid =>
                              LeaseOf(d)'.handle = after /\ LeaseOf(d).handle = stored
                         /\ connects[d].sid \in Session => (Owns(d)' <=> Owns(d))
                         /\ Alone(d)' <=> Alone(d)
  BY <1>2 DEF LeaseOf, Owns, Alone
<1>7. Lives
  <2>1. \A d \in Connect : SyncLives(d)
    BY <1>4, <1>5 DEF SyncLives
  <2>2. \A s \in Session : leases'[s].id >= leases[s].id
    BY StateTypes DEF HandlesInv
  <2>. QED BY <2>1, <2>2, AllStays DEF Lives, HandlesInv
<1>8. IdsStay /\ NewUntilBound' /\ LeasesOfConnects'
  BY <1>7, LivesKeepsIds, LivesKept DEF HandlesInv
<1>9. after <= handles /\ Unset <= handles
  <2>1. stored <= handles
    BY <1>1, <1>2 DEF HandlesInv, NothingNewer, LeaseOf
  <2>. QED BY <1>5, <2>1, StateTypes DEF HandlesInv, NothingNewer, Unset
<1>10. NothingNewer'
  <2>1. \A v : Wants(sync, v) \/ Knows(sync, v) \/ Expects(sync, v) => v <= handles
    BY <1>5, <1>9 DEF HandlesInv, NothingNewer
  <2>2. \A s \in Session : leases'[s].handle <= handles
    BY <1>9 DEF HandlesInv, NothingNewer
  <2>. QED BY <1>4, <2>1, <2>2 DEF HandlesInv, NothingNewer
<1>11. WritesInOrder'
  <2> SUFFICES ASSUME NEW d \in Connect, connects[d].id # 0, Owns(d)', Alone(d)', newest[d] # Unset
               PROVE  InOrder(d)'
    BY DEF WritesInOrder, OrderOf
  <2>1. connects[d].sid \in Session
    BY DEF HandlesInv, LeasesOfConnects
  <2>2. Owns(d) /\ Alone(d) /\ InOrder(d)
    BY <1>6, <2>1 DEF HandlesInv, WritesInOrder, OrderOf
  <2>3. CASE d = c
    <3>1. At(c) # "acquired"
      BY DEF HandlesInv, NewUntilBound
    <3>2. Ordered(sync, after) /\ (OneHandle(syncs[c]) => OneHandle(sync))
      BY <1>2, <1>3, <2>2, <2>3 DEF InOrder, Tells
    <3>. QED BY <1>4, <1>5, <1>6, <2>2, <2>3, <3>1, <3>2 DEF InOrder, At
  <2>4. CASE d # c
    <3>1. LeaseOf(d)'.handle = LeaseOf(d).handle
      <4>1. CASE connects[d].sid = connects[c].sid
        <5>1. ~Owns(c)
          BY <2>2, <2>4, <4>1 DEF Alone, Owns, LeaseOf
        <5>. QED BY <1>3, <1>6, <4>1, <5>1
      <4>. QED BY <1>6, <2>1, <4>1
    <3>. QED BY <1>4, <2>2, <2>4, <3>1 DEF InOrder, At
  <2>. QED BY <2>3, <2>4
<1>12. NewestIsKept'
  <2> SUFFICES ASSUME NEW e \in Connect, current = e, Alone(e)', newest[e] \notin {Null, Unset}
               PROVE  Keeps(syncs'[e], newest[e], LeaseOf(e)'.handle) /\ OnlyHere(e, newest[e])'
    BY DEF NewestIsKept, NewestOf
  <2>1. PICK h \in Handle \ {Null} : newest[e] = h
    BY Handles, StateTypes DEF HandlesInv
  <2>2. connects[e].sid \in Session /\ Alone(e)
    BY <1>6, NothingInNone DEF HandlesInv, NewUntilBound, LeasesOfConnects
  <2>3. Keeps(syncs[e], h, LeaseOf(e).handle) /\ OnlyHere(e, h)
    BY <2>1, <2>2, Handles DEF HandlesInv, NewestIsKept, NewestOf
  <2>4. \A d \in Connect : Wants(syncs'[d], h) => Wants(syncs[d], h)
    BY <1>4, <1>5
  <2>5. \A d \in Connect : syncs'[d].latest = syncs[d].latest
    BY <1>4, <1>5
  <2>6. CASE e = c
    <3>1. Keeps(sync, h, after)
      BY <1>2, <1>3, <2>3, <2>6 DEF Tells
    <3>2. stored = h => after = h
      BY <1>2, <1>3, <2>3, <2>6 DEF Tells, Keeps
    <3>3. ASSUME after = h, NEW d \in Connect \ {c}, connects[d].sid = connects[c].sid, Owns(d)
          PROVE  syncs[d].latest = Unset
      <4>1. CASE stored = h
        BY <1>2, <2>3, <2>6, <3>3, <4>1 DEF OnlyHere
      <4>2. CASE stored # h
        <5>1. Owns(c)
          BY <1>3, <3>3, <4>2
        <5>2. connects[d].id = connects[c].id
          BY <3>3, <5>1 DEF Owns, LeaseOf
        <5>. QED BY <2>2, <2>6, <3>3, <5>2 DEF Alone
      <4>. QED BY <4>1, <4>2
    <3>4. OnlyHere(e, h)'
      <4>1. LeaseOf(c)'.handle = after
        BY <1>6
      <4>2. \A d \in Connect \ {c} : ~Wants(syncs'[d], h)
        BY <2>3, <2>4, <2>6 DEF OnlyHere
      <4>3. \A s \in Session \ {connects[c].sid} : leases'[s].handle # h
        BY <2>3, <2>6 DEF OnlyHere
      <4>4. after = h => \A d \in Connect \ {c} :
                           connects[d].sid = connects[c].sid /\ Owns(d)' => syncs'[d].latest = Unset
        BY <1>1, <1>6, <2>5, <3>3
      <4>5. refetch.at = "read" /\ refetch.handle = h => after = h
        BY <1>2, <2>3, <2>6, <3>2 DEF OnlyHere
      <4>. QED BY <2>6, <4>1, <4>2, <4>3, <4>4, <4>5 DEF OnlyHere
    <3>. QED BY <1>4, <1>6, <2>1, <2>6, <3>1, <3>4
  <2>7. CASE e # c
    <3>1. after # stored => after # h
      BY <1>5, <2>3, <2>7 DEF OnlyHere
    <3>2. after # stored /\ connects[c].sid = connects[e].sid => stored # h
      <4> SUFFICES ASSUME after # stored, connects[c].sid = connects[e].sid, stored = h
                   PROVE  FALSE
        OBVIOUS
      <4>1. Owns(c) /\ LeaseOf(e).handle = h
        BY <1>3, <1>6
      <4>. QED BY <2>3, <2>7, <4>1 DEF OnlyHere
    <3>3. LeaseOf(e)'.handle = LeaseOf(e).handle \/ (LeaseOf(e)'.handle # h /\ LeaseOf(e).handle # h)
      BY <1>6, <2>2, <3>1, <3>2
    <3>4. Keeps(syncs[e], h, LeaseOf(e)'.handle)
      BY <2>3, <3>3 DEF Keeps, Safe, NotYet
    <3>5. OnlyHere(e, h)'
      <4>1. \A d \in Connect \ {e} : ~Wants(syncs'[d], h)
        BY <2>3, <2>4 DEF OnlyHere
      <4>2. \A s \in Session \ {connects[e].sid} : leases'[s].handle # h
        <5>1. \A s \in Session : leases'[s].handle = leases[s].handle \/ leases'[s].handle # h
          BY <1>2, <3>1 DEF LeaseOf
        <5>. QED BY <2>3, <5>1 DEF OnlyHere
      <4>3. LeaseOf(e)'.handle = h =>
              \A d \in Connect \ {e} :
                connects[d].sid = connects[e].sid /\ Owns(d)' => syncs'[d].latest = Unset
        BY <1>6, <2>2, <2>3, <2>5, <3>3 DEF OnlyHere
      <4>4. refetch.at = "read" /\ refetch.handle = h => LeaseOf(e)'.handle = h
        BY <2>3, <3>3 DEF OnlyHere
      <4>. QED BY <4>1, <4>2, <4>3, <4>4 DEF OnlyHere
    <3>. QED BY <1>4, <2>1, <2>7, <3>4, <3>5
  <2>. QED BY <2>6, <2>7
<1>. QED BY <1>8, <1>10, <1>11, <1>12 DEF HandlesInv


LEMMA PutsChange ==
  ASSUME TypeInv, TypeInv', NEW c \in Connect, connects[c].sid \in Session,
         NEW expected, NEW handle, NEW told, Puts(c, expected, handle, told)
  PROVE  /\ \A s \in Session : leases'[s].id = leases[s].id
         /\ \A s \in Session \ {connects[c].sid} : leases'[s].handle = leases[s].handle
         /\ LeaseOf(c).handle \in Handle /\ leases'[connects[c].sid].handle \in Handle
         /\ \/ leases'[connects[c].sid].handle = LeaseOf(c).handle
            \/ /\ Owns(c) /\ LeaseOf(c).handle \in expected
               /\ leases'[connects[c].sid].handle = handle
         /\ told \in {Unset, leases'[connects[c].sid].handle}
<1> DEFINE s == connects[c].sid
           x == IF Holds(s, Me) /\ leases[s].id = connects[c].id /\ leases[s].handle \in expected
                THEN handle ELSE leases[s].handle
<1>1. \A r \in Session : leases[r] \in [id: Nat, holder: Actor \cup {None}, handle: Handle]
                         /\ leases'[r] \in [id: Nat, holder: Actor \cup {None}, handle: Handle]
  BY DEF TypeInv, TypeOK
<1>2. leases' = [leases EXCEPT ![s] = [leases[s] EXCEPT !.handle = x]] \/ UNCHANGED leases
  BY DEF Puts, SetResumeHandle
<1>3. told \in {Unset, leases'[s].handle}
  BY DEF Puts
<1>4. DOMAIN leases = Session
  BY DEF TypeInv, TypeOK
<1>5. LeaseOf(c) = leases[s] /\ (Owns(c) <=> leases[s].id = connects[c].id)
  BY DEF LeaseOf, Owns
<1>6. x = leases[s].handle \/ (x = handle /\ leases[s].id = connects[c].id
                               /\ leases[s].handle \in expected)
  OBVIOUS
<1> HIDE DEF x
<1>7. \A r \in Session \ {s} : leases'[r] = leases[r]
  BY <1>2, <1>4
<1>8. leases'[s].id = leases[s].id /\ leases'[s].handle \in {leases[s].handle, x}
  <2>1. [leases[s] EXCEPT !.handle = x].id = leases[s].id /\ [leases[s] EXCEPT !.handle = x].handle = x
    BY <1>1
  <2>. QED BY <1>2, <1>4, <2>1
<1>. QED BY <1>1, <1>3, <1>5, <1>6, <1>7, <1>8

LEMMA PutArrivesKeeps ==
  ASSUME HandlesInv, TypeInv', NEW c \in Connect, PutArrives(c) PROVE HandlesInv'
<1>1. SyncOK(syncs[c]) /\ syncs[c].put.at = "sent"
  BY StateTypes DEF PutArrives, HandlesInv
<1>2. syncs[c].latest # Unset
  BY <1>1 DEF HandlesInv, NewUntilBound, NewSync, NoPut
<1>3. connects[c].sid \in Session
  BY <1>2 DEF HandlesInv, LeasesOfConnects
<1>4. PICK told \in {Unset} \cup 0..handles :
        /\ Puts(c, syncs[c].put.expected, Head(syncs[c].queue).handle, told)
        /\ syncs' = [syncs EXCEPT ![c].put = [@ EXCEPT !.at = "told", !.answer = told]]
  BY DEF PutArrives
<1> DEFINE sync == [syncs[c] EXCEPT !.put = [@ EXCEPT !.at = "told", !.answer = told]]
<1>5. syncs' = [syncs EXCEPT ![c] = sync]
  BY <1>4 DEF HandlesInv, TypeInv, TypeOK
<1>6. PICK after \in Handle : after = leases'[connects[c].sid].handle
  BY <1>3, <1>4, PutsChange DEF HandlesInv
<1>7. /\ \A s \in Session : leases'[s].id = leases[s].id
      /\ \A s \in Session \ {connects[c].sid} : leases'[s].handle = leases[s].handle
      /\ LeaseOf(c).handle \in Handle
      /\ \/ after = LeaseOf(c).handle
         \/ /\ Owns(c) /\ LeaseOf(c).handle \in syncs[c].put.expected
            /\ after = Head(syncs[c].queue).handle
      /\ told \in {Unset, after}
  BY <1>3, <1>4, <1>6, PutsChange DEF HandlesInv
<1>8. Tells(syncs[c], sync, LeaseOf(c).handle, after)
  BY <1>1, <1>7, PutTells
<1>9. UNCHANGED <<connects, current, newest, calls, refetch, handles>>
  BY DEF PutArrives, client
<1> HIDE DEF sync
<1>. QED BY <1>2, <1>5, <1>6, <1>7, <1>8, <1>9, TellingKeeps

LEMMA WriteArrivesKeeps ==
  ASSUME HandlesInv, TypeInv', NEW c \in Connect, NEW write \in syncs[c].writes,
         WriteArrives(c, write)
  PROVE  HandlesInv'
<1>1. SyncOK(syncs[c])
  BY StateTypes DEF HandlesInv
<1>2. syncs[c].latest # Unset
  BY DEF HandlesInv, NewUntilBound, NewSync
<1>3. connects[c].sid \in Session
  BY <1>2 DEF HandlesInv, LeasesOfConnects
<1>4. PICK told \in {Unset} \cup 0..handles :
        /\ Puts(c, write.expected, write.handle, told)
        /\ syncs' = [syncs EXCEPT ![c].writes =
                       (@ \ {write}) \cup {[write EXCEPT !.at = "told", !.answer = told]}]
  BY DEF WriteArrives
<1> DEFINE sync == [syncs[c] EXCEPT !.writes =
                      (@ \ {write}) \cup {[write EXCEPT !.at = "told", !.answer = told]}]
<1>5. syncs' = [syncs EXCEPT ![c] = sync]
  BY <1>4 DEF HandlesInv, TypeInv, TypeOK
<1>6. PICK after \in Handle : after = leases'[connects[c].sid].handle
  BY <1>3, <1>4, PutsChange DEF HandlesInv
<1>7. /\ \A s \in Session : leases'[s].id = leases[s].id
      /\ \A s \in Session \ {connects[c].sid} : leases'[s].handle = leases[s].handle
      /\ LeaseOf(c).handle \in Handle
      /\ \/ after = LeaseOf(c).handle
         \/ Owns(c) /\ LeaseOf(c).handle \in write.expected /\ after = write.handle
      /\ told \in {Unset, after}
  BY <1>3, <1>4, <1>6, PutsChange DEF HandlesInv
<1>8. Tells(syncs[c], sync, LeaseOf(c).handle, after)
  BY <1>1, <1>7, WriteTells
<1>9. UNCHANGED <<connects, current, newest, calls, refetch, handles>>
  BY DEF WriteArrives, client
<1> HIDE DEF sync
<1>. QED BY <1>2, <1>5, <1>6, <1>7, <1>8, <1>9, TellingKeeps

\* refetchLease reads the lease: the newest handle is found in its own lease only.
LEMMA RefetchReadKeeps ==
  ASSUME HandlesInv, TypeInv', RefetchRead, refetch' # NoRefetch PROVE HandlesInv'
<1>1. refetch.sid \in Session /\ refetch \in RefetchCall
  BY DEF RefetchRead, HandlesInv, TypeInv, TypeOK, CallsKnowSession
<1>2. refetch'.handle = leases[refetch.sid].handle
  BY <1>1 DEF RefetchRead, RefetchCall
<1>3. UNCHANGED <<leases, connects, syncs, current, newest, calls, handles>>
  BY DEF RefetchRead, client, bounds
<1>4. NothingNewer'
  BY <1>1, <1>2, <1>3 DEF HandlesInv, NothingNewer
<1>5. NewUntilBound' /\ LeasesOfConnects' /\ WritesInOrder'
  BY <1>3 DEF HandlesInv, NewUntilBound, LeasesOfConnects, WritesInOrder, OrderOf, InOrder, Owns,
              LeaseOf, Alone, At
<1>6. NewestIsKept'
  <2> SUFFICES ASSUME NEW c \in Connect, current = c, Alone(c), newest[c] \notin {Null, Unset}
               PROVE  Keeps(syncs'[c], newest'[c], LeaseOf(c)'.handle) /\ OnlyHere(c, newest[c])'
    BY <1>3 DEF NewestIsKept, NewestOf, Alone
  <2>1. Keeps(syncs[c], newest[c], LeaseOf(c).handle) /\ OnlyHere(c, newest[c])
    BY DEF HandlesInv, NewestIsKept, NewestOf
  <2>2. refetch'.handle = newest[c] => LeaseOf(c).handle = newest[c]
    BY <1>1, <1>2, <2>1 DEF OnlyHere, LeaseOf
  <2>3. OnlyHere(c, newest[c])'
    BY <1>3, <2>1, <2>2 DEF OnlyHere, LeaseOf, Owns
  <2>. QED BY <1>3, <2>1, <2>3 DEF LeaseOf
<1>. QED BY <1>4, <1>5, <1>6 DEF HandlesInv

\* The answer of refetchLease, told to the current sync.
LEMMA RefetchAnsweredKeeps ==
  ASSUME HandlesInv, TypeInv', NEW c \in Connect, current = c, refetch.at = "read",
         refetch' = NoRefetch,
         syncs' = [syncs EXCEPT ![c] = NoteKnown(@, refetch.handle)],
         newest' = [newest EXCEPT ![c] = IF syncs[c].latest = refetch.handle THEN @ ELSE Unset],
         UNCHANGED <<leases, connects, current, calls, handles>>
  PROVE  HandlesInv'
<1>1. PICK k \in Handle : k = refetch.handle /\ k # Unset
  BY Handles, StateTypes DEF HandlesInv
<1>2. SyncOK(syncs[c]) /\ syncs[c].latest # Unset
  BY StateTypes, NothingInNone DEF HandlesInv, NewUntilBound
<1>3. /\ syncs'[c] = NoteKnown(syncs[c], k)
      /\ newest'[c] = (IF syncs[c].latest = k THEN newest[c] ELSE Unset)
      /\ \A d \in Connect \ {c} : syncs'[d] = syncs[d] /\ newest'[d] = newest[d]
  BY <1>1 DEF HandlesInv, TypeInv, TypeOK
<1>4. connects[c].id # 0 /\ connects[c].sid \in Session
  BY <1>2 DEF HandlesInv, LeasesOfConnects
<1>5. /\ syncs'[c].latest = k
      /\ \A u : Wants(syncs'[c], u) => Wants(syncs[c], u) \/ u \in {Unset, k}
      /\ \A u : Knows(syncs'[c], u) => Knows(syncs[c], u) \/ u = k
      /\ \A u : Expects(syncs'[c], u) <=> Expects(syncs[c], u)
      /\ \A stored \in Int :
           Ordered(syncs[c], stored) /\ syncs[c].latest = k
             /\ (k \in {stored, Null} \/ OneHandle(syncs[c])) =>
             Ordered(syncs'[c], stored) /\ (OneHandle(syncs[c]) => OneHandle(syncs'[c]))
      /\ \A h \in Handle \ {Null} : Safe(syncs[c], h, h) /\ h = k => Keeps(syncs'[c], h, h)
  BY <1>2, <1>3, NoteKnownKeepsOrder
<1>6. LeasesStay /\ \A d \in Connect : ConnectStays(d)
  BY AllStays DEF HandlesInv
<1>7. Lives
  <2>1. \A d \in Connect : SyncLives(d)
    BY <1>1, <1>2, <1>3, <1>5 DEF SyncLives
  <2>. QED BY <1>6, <2>1 DEF Lives, LeasesStay
<1>8. IdsStay /\ NewUntilBound' /\ LeasesOfConnects'
  BY <1>7, LivesKeepsIds, LivesKept DEF HandlesInv
<1>9. NothingNewer'
  <2>1. k <= handles /\ Unset <= handles /\ Null <= handles
    BY <1>1, StateTypes DEF HandlesInv, NothingNewer, Unset, Null
  <2>2. \A u : Wants(syncs'[c], u) \/ Knows(syncs'[c], u) \/ Expects(syncs'[c], u) => u <= handles
    BY <1>5, <2>1 DEF HandlesInv, NothingNewer
  <2>3. refetch'.handle <= handles
    BY <2>1 DEF NoRefetch
  <2>. QED BY <1>3, <2>2, <2>3 DEF HandlesInv, NothingNewer
<1>10. ASSUME Alone(c), newest[c] \notin {Null, Unset}, syncs[c].latest = k
       PROVE  /\ newest[c] = k /\ LeaseOf(c).handle = k
              /\ Safe(syncs[c], k, k) /\ OnlyHere(c, k)
  <2>1. Keeps(syncs[c], newest[c], LeaseOf(c).handle) /\ OnlyHere(c, newest[c])
    BY <1>10 DEF HandlesInv, NewestIsKept, NewestOf
  <2>2. newest[c] = k
    BY <1>10, <2>1 DEF Keeps, Safe
  <2>. QED BY <1>1, <2>1, <2>2 DEF Keeps, OnlyHere
<1>11. WritesInOrder'
  <2>1. \A d \in Connect \ {c} : OrderOf(d)'
    BY <1>3, <1>6, <1>8, OthersInOrder DEF LeasesStay
  <2>2. OrderOf(c)'
    <3> SUFFICES ASSUME Owns(c), Alone(c), newest'[c] # Unset PROVE InOrder(c)'
      BY DEF OrderOf, Owns, Alone, LeaseOf
    <3>1. newest[c] # Unset /\ newest'[c] = newest[c] /\ syncs[c].latest = k
      BY <1>3
    <3>2. InOrder(c)
      BY <1>4, <3>1 DEF HandlesInv, WritesInOrder, OrderOf
    <3>3. k \in {LeaseOf(c).handle, Null} \/ OneHandle(syncs[c])
      BY <1>1, <1>10, <3>1, <3>2 DEF InOrder
    <3>4. LeaseOf(c).handle \in Int /\ LeaseOf(c)' = LeaseOf(c)
      BY <1>4, StateTypes DEF LeaseOf, HandlesInv
    <3>5. Ordered(syncs'[c], LeaseOf(c)'.handle) /\ (OneHandle(syncs[c]) => OneHandle(syncs'[c]))
      BY <1>5, <3>1, <3>2, <3>3, <3>4 DEF InOrder
    <3>. QED BY <1>5, <3>1, <3>2, <3>4, <3>5 DEF InOrder, At
  <2>. QED BY <2>1, <2>2 DEF WritesInOrder
<1>12. NewestIsKept'
  <2> SUFFICES ASSUME Alone(c), newest'[c] \notin {Null, Unset}
               PROVE  Keeps(syncs'[c], newest'[c], LeaseOf(c)'.handle) /\ OnlyHere(c, newest[c])'
    BY DEF NewestIsKept, NewestOf, Alone
  <2>1. /\ newest'[c] = k /\ newest[c] = k /\ LeaseOf(c).handle = k
        /\ Safe(syncs[c], k, k) /\ OnlyHere(c, k)
    BY <1>3, <1>10
  <2>2. Keeps(syncs'[c], k, LeaseOf(c)'.handle)
    BY <1>5, <2>1 DEF LeaseOf
  <2>3. OnlyHere(c, k)'
    BY <1>3, <2>1 DEF OnlyHere, LeaseOf, Owns, NoRefetch
  <2>. QED BY <2>1, <2>2, <2>3 DEF OnlyHere, LeaseOf, Owns
<1>. QED BY <1>8, <1>9, <1>11, <1>12 DEF HandlesInv


-------------------------------------------------------------------------------
\* All steps.

LEMMA InitHandlesInv == Init => HandlesInv /\ HeldHasNumber
<1> SUFFICES ASSUME Init PROVE HandlesInv /\ HeldHasNumber
  OBVIOUS
<1>1. TypeInv
  BY InitTypeInv
<1>2. /\ \A c \in Connect : /\ syncs[c] = NewSync /\ newest[c] = Null /\ At(c) = "idle"
                            /\ connects[c].id = 0 /\ connects[c].known = Null
      /\ \A s \in Session : leases[s].holder = None /\ leases[s].handle = Null
      /\ current = None /\ handles = 0 /\ refetch.handle = Null
      /\ \A f \in Call : calls[f].sync = None
  BY DEF Init, NoConnect, NoCall, NoRefetch, NoLease, At
<1>3. NothingNewer
  <2>1. Unset <= handles /\ Null <= handles
    BY <1>2 DEF Unset, Null
  <2>2. \A v : Wants(NewSync, v) \/ Knows(NewSync, v) \/ Expects(NewSync, v) => v = Unset
    BY DEF Wants, Knows, Expects, NewSync, NoPut
  <2>. QED BY <1>2, <2>1, <2>2 DEF NothingNewer
<1>4. NewUntilBound
  <2>1. NewSync.latest = Unset
    BY DEF NewSync
  <2>2. \A c \in Connect : At(c) \notin {"token", "open"}
    BY <1>2
  <2>. QED BY <1>2, <2>1, <2>2 DEF NewUntilBound
<1>5. LeasesOfConnects
  BY <1>2 DEF LeasesOfConnects, NewSync
<1>6. WritesInOrder
  BY <1>2 DEF WritesInOrder, OrderOf
<1>7. NewestIsKept
  BY <1>2, NothingInNone DEF NewestIsKept
<1>8. HeldHasNumber
  BY <1>2 DEF HeldHasNumber
<1>. QED BY <1>1, <1>3, <1>4, <1>5, <1>6, <1>7, <1>8 DEF HandlesInv

\* A lease that is taken gets the next number.
LEMMA HeldStaysNumbered ==
  ASSUME TypeInv, TypeInv', HeldHasNumber, [Next]_vars
  PROVE  HeldHasNumber'
<1>1. \A s \in Session : leases[s].id \in Nat
  BY StateTypes
<1>2. DOMAIN leases = Session
        /\ \A s \in Session : leases[s] \in [id: Nat, holder: Actor \cup {None}, handle: Handle]
  BY DEF TypeInv, TypeOK
<1>3. ASSUME NEW s, NEW a, Acquire(s, a) PROVE HeldHasNumber'
  <2> DEFINE id == IF Holds(s, a) THEN leases[s].id ELSE leases[s].id + 1
             x == [leases[s] EXCEPT !.id = id, !.holder = a]
  <2>1. leases' = [leases EXCEPT ![s] = x]
    BY <1>2, <1>3 DEF Acquire
  <2>2. s \in Session => x.id = id /\ x.holder = a
    BY <1>2
  <2>3. s \in Session => (a # None => id # 0)
    BY <1>1 DEF HeldHasNumber, Holds
  <2> HIDE DEF x, id
  <2>. QED BY <1>2, <2>1, <2>2, <2>3 DEF HeldHasNumber
<1>4. ASSUME NEW s, Ends(s, None) PROVE HeldHasNumber'
  BY <1>2, <1>4 DEF Ends, HeldHasNumber
<1>5. ASSUME NEW s, NEW id, NEW expected, NEW handle, SetResumeHandle(s, Me, id, expected, handle)
      PROVE  HeldHasNumber'
  BY <1>2, <1>5 DEF SetResumeHandle, HeldHasNumber
<1>6. ASSUME UNCHANGED leases PROVE HeldHasNumber'
  BY <1>6 DEF HeldHasNumber
<1>7. ASSUME NEW s, Release(s, Me, None) PROVE HeldHasNumber'
  BY <1>4, <1>6, <1>7 DEF Release
<1>8. CASE DisconnectRelease
  BY <1>6, <1>7, <1>8 DEF DisconnectRelease, FailedCall
<1>9. ASSUME NEW c \in Connect, ConnectAcquire(c) PROVE HeldHasNumber'
  BY <1>3, <1>6, <1>9 DEF ConnectAcquire, FailedCall
<1>10. ASSUME NEW c \in Connect, ConnectDrop(c) \/ ConnectRelease(c) PROVE HeldHasNumber'
  BY <1>6, <1>7, <1>10 DEF ConnectDrop, ConnectRelease, FailedCall
<1>11. ASSUME NEW c \in Connect, NEW expected, NEW handle, NEW told, Puts(c, expected, handle, told)
       PROVE  HeldHasNumber'
  BY <1>5, <1>6, <1>11 DEF Puts
<1>12. ASSUME NEW c \in Connect, \/ PutArrives(c)
                                 \/ \E write \in syncs[c].writes : WriteArrives(c, write)
       PROVE  HeldHasNumber'
  BY <1>11, <1>12 DEF PutArrives, WriteArrives
<1>13. ASSUME NEW s \in Session, LeaseEnds(s) \/ OtherAcquires(s) PROVE HeldHasNumber'
  BY <1>3, <1>4, <1>13 DEF LeaseEnds, OtherAcquires
<1>14. CASE \/ Disconnect \/ DisconnectClose \/ DisconnectDone \/ Suspend \/ SuspendStored
            \/ Refetch \/ RefetchRead \/ RefetchAnswered \/ Announce \/ AnnounceAgain \/ PageHides
            \/ \E f \in Call : Flush(f)
            \/ \E s \in Session \cup {None} : Switch(s)
  BY <1>6, <1>14 DEF Disconnect, DisconnectClose, DisconnectDone, Suspend, SuspendStored, Refetch,
                     RefetchRead, RefetchAnswered, Announce, AnnounceAgain, PageHides, Flush, Switch
<1>15. ASSUME NEW c \in Connect,
              \/ ConnectBegin(c) \/ ConnectRetarget(c) \/ ConnectAcquired(c) \/ ConnectToken(c)
              \/ ConnectOpen(c) \/ ConnectCleared(c) \/ ConnectMedia(c) \/ ConnectCatch(c)
              \/ ConnectReleased(c) \/ TimerFires(c) \/ PutReturns(c)
              \/ \E write \in syncs[c].writes : WriteReturns(c, write)
       PROVE  HeldHasNumber'
  BY <1>6, <1>15 DEF ConnectBegin, ConnectRetarget, ConnectAcquired, ConnectToken, ConnectOpen,
                     ConnectCleared, ConnectMedia, ConnectCatch, ConnectReleased, TimerFires,
                     PutReturns, WriteReturns
<1>16. CASE UNCHANGED vars
  BY <1>6, <1>16 DEF vars
<1>. QED BY <1>8, <1>9, <1>10, <1>12, <1>13, <1>14, <1>15, <1>16 DEF Next

LEMMA StutterQuiet == ASSUME HandlesInv, UNCHANGED vars PROVE Quiet
<1>1. UNCHANGED <<leases, connects, syncs, current, newest, calls, refetch, handles>>
  BY DEF vars, client, bounds
<1>. QED BY <1>1, AllStays, IsQuiet DEF HandlesInv

LEMMA ConnectStepKeeps ==
  ASSUME HandlesInv, TypeInv', HeldHasNumber, NEW c \in Connect,
         \/ ConnectBegin(c) \/ ConnectRetarget(c)
         \/ ConnectAcquire(c) \/ ConnectAcquired(c) \/ ConnectDrop(c)
         \/ ConnectToken(c) \/ ConnectOpen(c) \/ ConnectCleared(c) \/ ConnectMedia(c)
         \/ ConnectCatch(c) \/ ConnectRelease(c) \/ ConnectReleased(c)
  PROVE  HandlesInv'
<1>1. CASE ConnectAcquire(c)
  <2>1. CASE /\ Acquire(connects[c].sid, Me)
             /\ connects' = [connects EXCEPT ![c].at = "acquired",
                               ![c].id = leases'[connects[c].sid].id,
                               ![c].known = leases'[connects[c].sid].handle]
    BY <1>1, <2>1, ConnectAcquireKeeps DEF ConnectAcquire
  <2>2. CASE \/ UNCHANGED leases /\ Goes(c, "catch")
             \/ FailedCall(connects[c].sid, Acquire(connects[c].sid, Me)) /\ Goes(c, "catch")
    BY <1>1, <2>2, ConnectRefusedQuiet, QuietKeeps
  <2>. QED BY <1>1, <2>1, <2>2 DEF ConnectAcquire
<1>2. CASE ConnectAcquired(c)
  BY <1>2, ConnectAcquiredKeeps, ConnectSupersededQuiet, QuietKeeps
<1>3. CASE ConnectOpen(c)
  <2>1. CASE /\ At(c) = "open" /\ Goes(c, "clear")
             /\ syncs' = [syncs EXCEPT ![c] = ClearRemote(@, c)]
             /\ newest' = [newest EXCEPT ![c] = IF @ = Unset THEN Unset ELSE Null]
    BY <1>3, <2>1, ConnectClearKeeps DEF ConnectOpen
  <2>2. CASE /\ UNCHANGED <<syncs, newest>>
             /\ \/ connects' = [connects EXCEPT ![c].at = "media", ![c].known = Null]
                \/ Goes(c, "catch")
    BY <1>3, <2>2, ConnectOpensQuiet, QuietKeeps
  <2>. QED BY <1>3, <2>1, <2>2 DEF ConnectOpen
<1>4. CASE ConnectBegin(c) \/ ConnectRetarget(c) \/ ConnectDrop(c) \/ ConnectToken(c)
  BY <1>4, ConnectBeginQuiet, ConnectRetargetQuiet, ConnectDropQuiet, ConnectTokenQuiet, QuietKeeps
<1>5. CASE \/ ConnectCleared(c) \/ ConnectMedia(c) \/ ConnectCatch(c) \/ ConnectRelease(c)
           \/ ConnectReleased(c)
  BY <1>5, ConnectClearedQuiet, ConnectMediaQuiet, ConnectCatchQuiet, ConnectReleaseQuiet,
     ConnectReleasedQuiet, QuietKeeps
<1>. QED BY <1>1, <1>2, <1>3, <1>4, <1>5

LEMMA HandleStepKeeps ==
  ASSUME HandlesInv, TypeInv', RefetchRead \/ RefetchAnswered \/ Announce
  PROVE  HandlesInv'
<1>1. CASE RefetchRead
  <2>1. CASE refetch' = NoRefetch
    <3>1. RefetchStays
      BY <2>1 DEF RefetchStays, NoRefetch
    <3>2. UNCHANGED <<leases, connects, syncs, current, newest, calls, handles>>
      BY <1>1 DEF RefetchRead, client, bounds
    <3>. QED BY <3>1, <3>2, AllStays, IsQuiet, QuietKeeps DEF HandlesInv
  <2>. QED BY <1>1, <2>1, RefetchReadKeeps
<1>2. CASE RefetchAnswered
  <2>1. CASE UNCHANGED <<syncs, newest>>
    <3>1. RefetchStays
      BY <1>2 DEF RefetchAnswered, RefetchStays, NoRefetch
    <3>2. UNCHANGED <<leases, connects, syncs, current, newest, calls, handles>>
      BY <1>2, <2>1 DEF RefetchAnswered, client, bounds
    <3>. QED BY <3>1, <3>2, AllStays, IsQuiet, QuietKeeps DEF HandlesInv
  <2>2. CASE refetch.live /\ current # None
    <3>1. PICK c \in Connect : current = c
      BY <2>2, StateTypes DEF HandlesInv
    <3>2. UNCHANGED <<leases, connects, current, calls, handles>>
      BY <1>2 DEF RefetchAnswered, client, bounds
    <3>3. /\ refetch.at = "read" /\ refetch' = NoRefetch
          /\ syncs' = [syncs EXCEPT ![c] = NoteKnown(@, refetch.handle)]
          /\ newest' = [newest EXCEPT ![c] = IF syncs[c].latest = refetch.handle THEN @ ELSE Unset]
      BY <1>2, <2>2, <3>1 DEF RefetchAnswered
    <3>. QED BY <3>1, <3>2, <3>3, RefetchAnsweredKeeps
  <2>. QED BY <1>2, <2>1, <2>2 DEF RefetchAnswered
<1>3. CASE Announce
  <2>1. CASE UNCHANGED <<syncs, newest>>
    <3>1. UNCHANGED <<leases, connects, syncs, current, newest, calls, refetch>>
          /\ handles' >= handles
      BY <1>3, <2>1, StateTypes DEF Announce, client, HandlesInv
    <3>. QED BY <3>1, AllStays, IsQuiet, QuietKeeps DEF HandlesInv
  <2>2. CASE /\ current # None
             /\ syncs' = [syncs EXCEPT ![current] = Schedule(@, handles')]
             /\ newest' = [newest EXCEPT ![current] = IF @ = Unset THEN Unset ELSE handles']
    <3>1. PICK c \in Connect : current = c
      BY <2>2, StateTypes DEF HandlesInv
    <3>2. UNCHANGED <<leases, connects, current, calls, refetch>> /\ handles' = handles + 1
      BY <1>3 DEF Announce, client
    <3>. QED BY <2>2, <3>1, <3>2, AnnounceKeeps
  <2>. QED BY <1>3, <2>1, <2>2 DEF Announce
<1>. QED BY <1>1, <1>2, <1>3

LEMMA NextHandlesInv ==
  ASSUME HandlesInv, HeldHasNumber, [Next]_vars PROVE HandlesInv' /\ HeldHasNumber'
<1>1. TypeInv'
  BY NextTypeInv DEF HandlesInv
<1>2. HeldHasNumber'
  BY <1>1, HeldStaysNumbered DEF HandlesInv
<1> SUFFICES HandlesInv'
  BY <1>2
<1>3. CASE \E c \in Connect :
             \/ ConnectBegin(c) \/ ConnectRetarget(c)
             \/ ConnectAcquire(c) \/ ConnectAcquired(c) \/ ConnectDrop(c)
             \/ ConnectToken(c) \/ ConnectOpen(c) \/ ConnectCleared(c) \/ ConnectMedia(c)
             \/ ConnectCatch(c) \/ ConnectRelease(c) \/ ConnectReleased(c)
  BY <1>1, <1>3, ConnectStepKeeps
<1>4. CASE \E c \in Connect :
             \/ TimerFires(c) \/ PutReturns(c)
             \/ \E write \in syncs[c].writes : WriteReturns(c, write)
  BY <1>1, <1>4, TimerFiresQuiet, PutReturnsQuiet, WriteReturnsQuiet, QuietKeeps
<1>5. CASE \E c \in Connect :
             PutArrives(c) \/ \E write \in syncs[c].writes : WriteArrives(c, write)
  BY <1>1, <1>5, PutArrivesKeeps, WriteArrivesKeeps
<1>6. CASE RefetchRead \/ RefetchAnswered \/ Announce
  BY <1>1, <1>6, HandleStepKeeps
<1>7. CASE Disconnect \/ DisconnectClose \/ DisconnectRelease \/ DisconnectDone
  BY <1>1, <1>7, DisconnectQuiet, DisconnectCloseQuiet, DisconnectReleaseQuiet, DisconnectDoneQuiet,
     QuietKeeps
<1>8. CASE Suspend \/ SuspendStored \/ Refetch \/ AnnounceAgain \/ PageHides \/ \E f \in Call : Flush(f)
  BY <1>1, <1>8, SuspendQuiet, SuspendStoredQuiet, RefetchQuiet, AnnounceAgainQuiet, PageHidesQuiet, FlushQuiet,
     QuietKeeps
<1>9. CASE \/ \E s \in Session \cup {None} : Switch(s)
           \/ \E s \in Session : LeaseEnds(s) \/ OtherAcquires(s)
  BY <1>1, <1>9, SwitchQuiet, WorldQuiet, QuietKeeps
<1>10. CASE UNCHANGED vars
  BY <1>1, <1>10, StutterQuiet, QuietKeeps
<1>. QED BY <1>3, <1>4, <1>5, <1>6, <1>7, <1>8, <1>9, <1>10 DEF Next

LEMMA HandlesInvHolds == Spec => [](HandlesInv /\ HeldHasNumber)
BY InitHandlesInv, NextHandlesInv, PTL DEF Spec

\* The newest handle that the provider has given to the current sync is in the lease, or the
\* sync has it to write, through every order of chained writes, writes of a hidden page,
\* retries, stale answers, clears and failures, for any number of sessions, connects and
\* handles (resume-handle-sync.ts).
THEOREM NewestHandlesAreKept == Spec => []NewestHandleKept
<1>1. HandlesInv => NewestHandleKept
  BY StateTypes DEF HandlesInv, NewestIsKept, NewestOf, Keeps, NewestHandleKept, LeaseOf
<1>. QED BY <1>1, HandlesInvHolds, PTL

LEMMA TellsForward ==
  ASSUME HandlesInv, TypeInv', NEW c \in Connect,
         PutArrives(c) \/ \E write \in syncs[c].writes : WriteArrives(c, write)
  PROVE  /\ \A s \in Session \ {connects[c].sid} : leases'[s].handle = leases[s].handle
         /\ \/ leases'[connects[c].sid].handle = LeaseOf(c).handle
            \/ /\ Owns(c) /\ connects[c].id # 0
               /\ OrderOf(c) /\ Alone(c) /\ newest[c] # Unset =>
                    leases'[connects[c].sid].handle = Null
                    \/ leases'[connects[c].sid].handle >= LeaseOf(c).handle
<1>1. SyncOK(syncs[c])
  BY StateTypes DEF HandlesInv
<1>2. syncs[c].latest # Unset
  <2>1. syncs[c].put.at = "sent" \/ syncs[c].writes # {}
    BY DEF PutArrives
  <2>2. NewSync.put.at = "idle" /\ NewSync.writes = {}
    BY DEF NewSync, NoPut
  <2>. QED BY <2>1, <2>2 DEF HandlesInv, NewUntilBound
<1>3. connects[c].sid \in Session /\ connects[c].id # 0
  BY <1>2 DEF HandlesInv, LeasesOfConnects
<1>4. PICK expected, handle, told :
        /\ Puts(c, expected, handle, told)
        /\ \/ /\ syncs[c].put.at = "sent" /\ expected = syncs[c].put.expected
              /\ handle = Head(syncs[c].queue).handle
           \/ \E write \in syncs[c].writes : expected = write.expected /\ handle = write.handle
  BY DEF PutArrives, WriteArrives
<1>5. PICK after \in Handle : after = leases'[connects[c].sid].handle
  BY <1>3, <1>4, PutsChange DEF HandlesInv
<1>6. PICK stored \in Handle : stored = LeaseOf(c).handle
  BY <1>3, <1>4, PutsChange DEF HandlesInv
<1>7. /\ \A s \in Session \ {connects[c].sid} : leases'[s].handle = leases[s].handle
      /\ after = stored \/ (Owns(c) /\ stored \in expected /\ after = handle)
  BY <1>3, <1>4, <1>5, <1>6, PutsChange DEF HandlesInv
<1>8. ASSUME stored \in expected, after = handle, Ordered(syncs[c], stored)
      PROVE  after = Null \/ stored <= after
  <2>1. \E new : Tells(syncs[c], new, stored, after)
    BY <1>1, <1>4, <1>8, PutTells, WriteTells
  <2>. QED BY <1>8, <2>1 DEF Tells
<1>9. OrderOf(c) /\ Owns(c) /\ Alone(c) /\ newest[c] # Unset => Ordered(syncs[c], stored)
  BY <1>3, <1>6 DEF OrderOf, InOrder
<1>10. after \in Int /\ stored \in Int
  BY Handles
<1>. QED BY <1>3, <1>5, <1>6, <1>7, <1>8, <1>9, <1>10

\* A step changes the handle of a lease only where a write arrives.
LEMMA HandlesChange ==
  ASSUME HandlesInv, TypeInv', [Next]_vars,
         ~\E c \in Connect : \/ PutArrives(c)
                             \/ \E write \in syncs[c].writes : WriteArrives(c, write)
  PROVE  \A s \in Session : leases'[s].handle = leases[s].handle
<1>1. CASE UNCHANGED leases
  BY <1>1
<1>2. ASSUME NEW s \in Session, Release(s, Me, None) \/ FailedCall(s, Release(s, Me, None))
      PROVE  LeasesStay
  BY <1>2, CallStays DEF HandlesInv
<1>3. CASE DisconnectRelease
  <2>1. calls["disconnect"].sid \in Session
    BY <1>3 DEF DisconnectRelease, HandlesInv, TypeInv, CallsKnowSession
  <2>. QED BY <1>2, <1>3, <2>1 DEF DisconnectRelease, LeasesStay
<1>4. ASSUME NEW c \in Connect, ConnectAcquire(c) \/ ConnectDrop(c) \/ ConnectRelease(c)
      PROVE  LeasesStay
  <2>1. CASE ConnectAcquire(c)
    <3>1. connects[c].sid \in Session
      BY <2>1, ConnectSid DEF ConnectAcquire, HandlesInv
    <3>2. Acquire(connects[c].sid, Me) \/ UNCHANGED leases
      BY <2>1 DEF ConnectAcquire, FailedCall
    <3>. QED BY <3>1, <3>2, LeasesStayed, NothingInNone DEF HandlesInv
  <2>2. CASE ConnectDrop(c)
    <3>1. connects[c].sid \in Session
      BY <2>2, ConnectSid DEF ConnectDrop, HandlesInv
    <3>. QED BY <1>2, <2>2, <3>1 DEF ConnectDrop
  <2>3. CASE ConnectRelease(c)
    <3>1. connects[c].target \in Session
      BY <2>3 DEF ConnectRelease, HandlesInv, TypeInv, CallsKnowSession
    <3>. QED BY <1>2, <2>3, <3>1 DEF ConnectRelease
  <2>. QED BY <1>4, <2>1, <2>2, <2>3
<1>5. ASSUME NEW s \in Session, LeaseEnds(s) \/ OtherAcquires(s) PROVE LeasesStay
  BY <1>5, LeasesStayed, NothingInNone DEF LeaseEnds, OtherAcquires, HandlesInv
<1>6. CASE \/ Disconnect \/ DisconnectClose \/ DisconnectDone \/ Suspend \/ SuspendStored
           \/ Refetch \/ RefetchRead \/ RefetchAnswered \/ Announce \/ AnnounceAgain \/ PageHides
           \/ \E f \in Call : Flush(f)
           \/ \E s \in Session \cup {None} : Switch(s)
  BY <1>1, <1>6 DEF Disconnect, DisconnectClose, DisconnectDone, Suspend, SuspendStored, Refetch,
                    RefetchRead, RefetchAnswered, Announce, AnnounceAgain, PageHides, Flush, Switch
<1>7. ASSUME NEW c \in Connect,
             \/ ConnectBegin(c) \/ ConnectRetarget(c) \/ ConnectAcquired(c) \/ ConnectToken(c)
             \/ ConnectOpen(c) \/ ConnectCleared(c) \/ ConnectMedia(c) \/ ConnectCatch(c)
             \/ ConnectReleased(c) \/ TimerFires(c) \/ PutReturns(c)
             \/ \E write \in syncs[c].writes : WriteReturns(c, write)
      PROVE  UNCHANGED leases
  BY <1>7 DEF ConnectBegin, ConnectRetarget, ConnectAcquired, ConnectToken, ConnectOpen,
              ConnectCleared, ConnectMedia, ConnectCatch, ConnectReleased, TimerFires,
              PutReturns, WriteReturns
<1>8. CASE UNCHANGED vars
  BY <1>1, <1>8 DEF vars
<1>. QED BY <1>1, <1>3, <1>4, <1>5, <1>6, <1>7, <1>8 DEF Next, LeasesStay

\* While one sync writes a lease, the handle there is only ever cleared or replaced by a newer
\* one, in whatever order the chained writes and those of a hidden page arrive, for any number
\* of sessions, connects and handles (setResumeHandle of lease-store.ts with the predecessors
\* of resume-handle-sync.ts).
THEOREM StoredHandlesMoveForward == Spec => HandlesMoveForward
<1>1. ASSUME HandlesInv, HeldHasNumber, [Next]_vars, NEW s \in Session,
             \A c \in Connect : connects[c].sid = s /\ connects[c].id = leases[s].id =>
                                  Alone(c) /\ newest[c] # Unset
      PROVE  leases'[s].handle = Null \/ leases'[s].handle >= leases[s].handle
  <2>1. TypeInv'
    BY <1>1, NextTypeInv DEF HandlesInv
  <2>2. leases[s].handle \in Int /\ leases[s].handle >= leases[s].handle
    BY <1>1, StateTypes DEF HandlesInv
  <2>3. CASE leases'[s].handle = leases[s].handle
    BY <2>2, <2>3
  <2>4. CASE \E c \in Connect : \/ PutArrives(c)
                                \/ \E write \in syncs[c].writes : WriteArrives(c, write)
    <3>1. PICK c \in Connect : PutArrives(c) \/ \E write \in syncs[c].writes : WriteArrives(c, write)
      BY <2>4
    <3>2. /\ \A r \in Session \ {connects[c].sid} : leases'[r].handle = leases[r].handle
          /\ \/ leases'[connects[c].sid].handle = LeaseOf(c).handle
             \/ /\ Owns(c) /\ connects[c].id # 0
                /\ OrderOf(c) /\ Alone(c) /\ newest[c] # Unset =>
                     leases'[connects[c].sid].handle = Null
                     \/ leases'[connects[c].sid].handle >= LeaseOf(c).handle
      BY <1>1, <2>1, <3>1, TellsForward
    <3>3. OrderOf(c)
      BY <1>1 DEF HandlesInv, WritesInOrder
    <3>. QED BY <1>1, <2>3, <3>2, <3>3 DEF Owns, LeaseOf
  <2>. QED BY <1>1, <2>1, <2>3, <2>4, HandlesChange
<1>2. HandlesInv /\ HeldHasNumber /\ [Next]_vars =>
        [\A s \in Session :
           (\A c \in Connect :
              connects[c].sid = s /\ connects[c].id = leases[s].id => Alone(c) /\ newest[c] # Unset) =>
             leases'[s].handle = Null \/ leases'[s].handle >= leases[s].handle]_vars
  BY <1>1
<1>. QED BY <1>2, HandlesInvHolds, PTL DEF Spec, HandlesMoveForward

===============================================================================
