----------------------------- MODULE ResumeHandles -----------------------------
(***************************************************************************)
(* createResumeHandleSync: the handles of one voice session on their way to  *)
(* the lease. A sync is a record; each method is a function of it. Writes    *)
(* run one after the other on a chain of promises, but those of a page that  *)
(* is being hidden, which start at once and may overtake the chain.          *)
(***************************************************************************)
EXTENDS Integers, Sequences

\* undefined; null is Null == 0 of VoiceLease.
Unset == -1

\* The write at the head of the chain: `at` is idle before it starts.
NoPut == [at |-> "idle", expected |-> {}, attempt |-> 0, answer |-> Unset]

\* timer: off, for `pending`, or for `retry`. queue: the chain, with who awaits each
\* promise. stale: a lifecycle write has come since (writeGeneration). writes:
\* lifecycleWrites.
NewSync ==
  [last |-> Unset, pending |-> Unset, latest |-> Unset, timer |-> "off", queue |-> <<>>,
   put |-> NoPut, writes |-> {}, retry |-> Unset]

NullIfUnset(handle) == IF handle = Unset THEN 0 ELSE handle

Attempt(sync, n) ==
  [sync EXCEPT !.put = [at |-> "sent", expected |-> {NullIfUnset(sync.last)},
                        attempt |-> n, answer |-> Unset]]

\* Once the head of the chain is settled the next write starts, but for those that a
\* lifecycle write has superseded and those of the handle that is there already.
Start(sync) ==
  LET writes == {i \in DOMAIN sync.queue :
                   ~sync.queue[i].stale /\ sync.queue[i].handle # sync.last}
      first == CHOOSE i \in writes : \A j \in writes : i <= j
  IN  IF sync.put.at # "idle" THEN sync
      ELSE IF writes = {} THEN [sync EXCEPT !.queue = <<>>]
      ELSE Attempt([sync EXCEPT !.queue = SubSeq(@, first, Len(@))], 1)

\* persist: onto the chain.
Persist(sync, handle, waiter) ==
  Start([sync EXCEPT !.queue =
           Append(@, [handle |-> handle, stale |-> FALSE, waiters |-> waiter])])

\* await chain.
Await(sync, waiter) ==
  IF sync.queue = <<>> THEN sync
  ELSE [sync EXCEPT !.queue[Len(sync.queue)].waiters = @ \cup {waiter}]

Waits(sync, waiter) == \E i \in DOMAIN sync.queue : waiter \in sync.queue[i].waiters

NoteKnown(sync, handle) ==
  LET known == [sync EXCEPT !.last = handle, !.latest = handle, !.retry = Unset]
  IN  IF sync.pending = handle THEN [known EXCEPT !.pending = Unset, !.timer = "off"] ELSE known

\* A handle that is there already is not written.
Schedule(sync, handle) ==
  LET asked == [sync EXCEPT !.latest = handle, !.retry = IF @ = handle THEN @ ELSE Unset]
  IN  IF sync.last # handle THEN [asked EXCEPT !.pending = handle, !.timer = "write"]
      ELSE IF sync.pending = handle THEN [asked EXCEPT !.pending = Unset, !.timer = "off"]
      ELSE asked

\* The callback of the timer.
Fire(sync) ==
  LET off == [sync EXCEPT !.timer = "off"] IN
  CASE sync.timer = "write" /\ sync.pending # Unset ->
         Persist([off EXCEPT !.pending = Unset], sync.pending, {})
    [] sync.timer = "retry" /\ sync.retry # Unset /\ sync.retry = sync.latest ->
         Persist([off EXCEPT !.retry = Unset], sync.retry, {})
    [] OTHER -> off

-------------------------------------------------------------------------------
\* The write at the head of the chain.

\* The promise is settled.
Settle(sync) == Start([sync EXCEPT !.queue = Tail(@), !.put = NoPut])

\* Mutant of PutAnswered: a stale write is not tried again.
MutantNoSecondAttempt(sync) == Settle([sync EXCEPT !.last = sync.put.answer])

\* put has returned the handle of the lease.
PutAnswered(sync) ==
  LET head == Head(sync.queue)
      told == [sync EXCEPT !.last = sync.put.answer]
  IN  IF told.last = head.handle \/ head.stale \/ sync.latest # head.handle THEN Settle(told)
      ELSE IF sync.put.attempt = 1 THEN Attempt(told, 2)
      ELSE Settle([told EXCEPT !.pending = IF @ = Unset THEN head.handle ELSE @])

\* put has thrown.
PutFailed(sync) ==
  LET head == Head(sync.queue) IN
  Settle(IF sync.latest = head.handle /\ sync.pending = Unset
         THEN [sync EXCEPT !.pending = head.handle, !.timer = "write"]
         ELSE sync)

-------------------------------------------------------------------------------
\* flushForLifecycle.

\* `pending ?? retry ?? latest`, where a retry that counts is the latest.
LifecycleHandle(sync) == IF sync.pending \in {Unset, 0} THEN sync.latest ELSE sync.pending

\* What the method changes whether or not it writes.
Hidden(sync) ==
  [sync EXCEPT !.timer = "off", !.pending = Unset,
               !.retry = IF @ \in {sync.latest} \ {LifecycleHandle(sync)} THEN @ ELSE Unset]

WritesLifecycle(sync) ==
  LET handle == LifecycleHandle(sync) IN
  /\ handle # Unset /\ sync.last # handle
  /\ \A write \in sync.writes : write.handle # handle

InFlight(sync) ==
  {write.handle : write \in sync.writes}
    \cup (IF sync.put.at = "idle" THEN {} ELSE {Head(sync.queue).handle})

Predecessors(sync) == {NullIfUnset(sync.last)} \cup InFlight(sync)

FlushForLifecycle(sync) ==
  IF ~WritesLifecycle(sync) THEN Hidden(sync)
  ELSE [Hidden(sync) EXCEPT
          !.writes = @ \cup {[handle |-> LifecycleHandle(sync), at |-> "sent",
                              expected |-> Predecessors(sync), answer |-> Unset]},
          !.queue = [i \in DOMAIN @ |-> [@[i] EXCEPT !.stale = TRUE]]]

\* queueLifecycleRetry.
QueueRetry(sync, handle) ==
  IF sync.latest # handle THEN sync ELSE [sync EXCEPT !.retry = handle, !.timer = "retry"]

LifecycleAnswered(sync, write) ==
  LET told == [sync EXCEPT !.last = write.answer, !.writes = @ \ {write}] IN
  IF write.answer # write.handle /\ sync.latest = write.handle
  THEN QueueRetry(told, write.handle)
  ELSE [told EXCEPT !.retry = IF @ = write.handle THEN Unset ELSE @]

LifecycleFailed(sync, write) == QueueRetry([sync EXCEPT !.writes = @ \ {write}], write.handle)

-------------------------------------------------------------------------------
\* flush, in the parts between its awaits: the pending write, the chain, the writes of a
\* hidden page, a retry, the chain.

FlushPending(sync, waiter) ==
  LET off == [sync EXCEPT !.timer = "off", !.pending = Unset]
  IN  IF sync.pending = Unset THEN off ELSE Persist(off, sync.pending, {waiter})

FlushRetry(sync, waiter) ==
  LET off == [sync EXCEPT !.timer = "off", !.retry = Unset]
      again == sync.retry # Unset /\ sync.retry = sync.latest
  IN  IF again THEN Persist(off, sync.retry, {waiter}) ELSE off

ClearRemote(sync, waiter) ==
  Persist([sync EXCEPT !.timer = "off", !.pending = Unset, !.latest = 0], 0, {waiter})

Dispose(sync) ==
  [sync EXCEPT !.timer = "off", !.pending = Unset, !.last = Unset, !.retry = Unset]

===============================================================================
