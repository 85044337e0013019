-------------------------- MODULE SessionAgentProofs --------------------------
(***************************************************************************)
(* Theorems about SessionAgent, for any number of calls and crashes and    *)
(* any set of events.                                                      *)
(*                                                                         *)
(* The argument: a call that is past its first await has the turn, so at   *)
(* most one is, so what it read is still what D1 holds when it writes.     *)
(***************************************************************************)
EXTENDS SessionAgent, TLAPS

\* A call that is past its first await and has not ended.
Mid(c) == pc[c] \notin {"unsent", "begin", "done"}

MidHasTurn == \A c \in Call : Mid(c) => HasTurn(c)

\* What a call knows at the place where it is.
Requests ==
  \A c \in Call : pc[c] # "unsent" /\ kind[c] \in {"append", "suspend"} => event[c] \in Event

Labels ==
  \A c \in Call :
    /\ pc[c] = "rows" => kind[c] = "snapshot"
    /\ pc[c] = "commit" => kind[c] \in {"append", "suspend"}
    /\ pc[c] \in {"deliver", "deliverDuplicate", "bumpDuplicate"} => kind[c] = "append"

ReadIsCurrent ==
  \A c \in Call : pc[c] \in {"commit", "rows"} => read[c] = materialized

CommitIsAllowed ==
  \A c \in Call : pc[c] = "commit" =>
    /\ kind[c] = "append" => L!Accepts(L!Entries(log), event[c])
    /\ kind[c] = "suspend" => continuation.status = "none" /\ ~L!Over(L!Entries(log))

\* The events a continuation writes are not in the log before it writes them.
ContinuationIsNew ==
  /\ continuation.status = "none" => ~L!Known(L!Entries(log), Suspended)
  /\ continuation.status # "wake_pending" => ~L!Known(L!Entries(log), WakePending)

DeliveredIsKnown ==
  \A c \in Call :
    pc[c] \in {"deliver", "deliverDuplicate", "bumpDuplicate"} \/ (pc[c] = "bump" /\ kind[c] = "append")
      => L!Known(L!Entries(log), event[c])

Inv ==
  /\ TypeOK
  /\ MidHasTurn
  /\ Requests
  /\ Labels
  /\ StateMatchesLog
  /\ ReadIsCurrent
  /\ CommitIsAllowed
  /\ ContinuationIsNew
  /\ DeliveredIsKnown
  /\ SnapshotNotTorn

\* Only a call that has ended has an outcome.
OutcomeAtEnd == \A c \in Call : pc[c] # "done" => outcome[c] = "none"

-------------------------------------------------------------------------------
\* The set of events of a log one event longer.
LEMMA EntriesAppend ==
  ASSUME NEW s \in Seq(Entry), NEW e \in Entry
  PROVE  L!Entries(Append(s, e)) = L!Entries(s) \cup {e}
<1> DEFINE t == Append(s, e)
<1>1. /\ t \in Seq(Entry) /\ Len(t) = Len(s) + 1 /\ t[Len(s) + 1] = e
      /\ \A i \in 1..Len(s) : t[i] = s[i]
  OBVIOUS
<1>2. DOMAIN s = 1..Len(s) /\ DOMAIN t = 1..(Len(s) + 1) /\ Len(s) \in Nat
  BY <1>1
<1> HIDE DEF t
<1>3. {t[i] : i \in 1..(Len(s) + 1)} = {s[i] : i \in 1..Len(s)} \cup {e}
  BY <1>1, <1>2
<1> QED
  BY <1>2, <1>3 DEF L!Entries, t

LEMMA EntriesEmpty == L!Entries(<<>>) = {}
BY DEF L!Entries

\* The session of a log is over once the reducer has applied a closing event.
LEMMA AcceptsGenerated ==
  ASSUME NEW h, NEW e \in {Suspended, WakePending}
  PROVE  L!Accepts(h, e) <=> ~L!Over(h)
BY EventAssumption DEF L!Accepts

LEMMA InitInv == Init => Inv
<1> SUFFICES ASSUME Init PROVE Inv
  OBVIOUS
<1>1. TypeOK
  BY BoundsAssumption, EventAssumption
  DEF Init, TypeOK, NoContinuation, NoSnapshot, PcLabels, Kind, Outcomes
<1>2. MidHasTurn /\ Requests /\ Labels /\ ReadIsCurrent /\ CommitIsAllowed /\ DeliveredIsKnown
  BY DEF Init, MidHasTurn, Mid, Requests, Labels, ReadIsCurrent, CommitIsAllowed, DeliveredIsKnown
<1>3. StateMatchesLog /\ SnapshotNotTorn
  BY DEF Init, StateMatchesLog, SnapshotNotTorn, NoSnapshot
<1>4. ContinuationIsNew
  BY EntriesEmpty DEF Init, ContinuationIsNew, NoContinuation, L!Known
<1> QED
  BY <1>1, <1>2, <1>3, <1>4 DEF Inv

\* No other call is past its first await while one has the turn.
LEMMA OneTurn ==
  ASSUME MidHasTurn, NEW c \in Call, HasTurn(c)
  PROVE  \A d \in Call : d # c => ~Mid(d)
BY DEF MidHasTurn, HasTurn

\* The call with the turn goes on: it keeps the turn, and no other call moves.
LEMMA GotoKeepsTurn ==
  ASSUME TypeOK, MidHasTurn, NEW c \in Call, HasTurn(c), NEW label \in PcLabels, Goto(c, label)
  PROVE  /\ pc' \in [Call -> PcLabels]
         /\ writeChain' \in Seq(Call)
         /\ outcome' = outcome /\ outcome' \in [Call -> Outcomes]
         /\ MidHasTurn'
         /\ pc'[c] = label
         /\ \A d \in Call : d # c => pc'[d] = pc[d] /\ pc[d] \in {"unsent", "begin", "done"}
<1> USE DEF Goto
<1>1. pc' \in [Call -> PcLabels] /\ writeChain' \in Seq(Call) /\ outcome' = outcome
      /\ outcome' \in [Call -> Outcomes]
  BY DEF TypeOK
<1>2. pc'[c] = label /\ \A d \in Call : d # c => pc'[d] = pc[d]
  BY DEF TypeOK
<1>3. \A d \in Call : d # c => pc[d] \in {"unsent", "begin", "done"}
  BY OneTurn DEF Mid
<1>4. MidHasTurn'
  BY <1>2, <1>3 DEF MidHasTurn, Mid, HasTurn
<1> QED
  BY <1>1, <1>2, <1>3, <1>4

\* The call with the turn ends: no other is past its first await.
LEMMA FinishGivesTurn ==
  ASSUME TypeOK, MidHasTurn, NEW c \in Call, HasTurn(c), NEW result \in Outcomes,
         Finish(c, result)
  PROVE  /\ pc' \in [Call -> PcLabels]
         /\ writeChain' \in Seq(Call)
         /\ outcome' \in [Call -> Outcomes]
         /\ outcome'[c] = result /\ \A d \in Call : d # c => outcome'[d] = outcome[d]
         /\ MidHasTurn'
         /\ pc'[c] = "done"
         /\ \A d \in Call : d # c => pc'[d] = pc[d] /\ pc[d] \in {"unsent", "begin", "done"}
<1> USE DEF Finish
<1>1. pc' \in [Call -> PcLabels] /\ outcome' \in [Call -> Outcomes]
  BY DEF TypeOK, PcLabels
<1>2. writeChain' \in Seq(Call)
  <2>1. writeChain \in Seq(Call) /\ writeChain # <<>>
    BY DEF TypeOK, HasTurn
  <2> QED
    BY <2>1
<1>3. pc'[c] = "done" /\ \A d \in Call : d # c => pc'[d] = pc[d]
  BY DEF TypeOK
<1>4. outcome'[c] = result /\ \A d \in Call : d # c => outcome'[d] = outcome[d]
  BY DEF TypeOK
<1>5. \A d \in Call : d # c => pc[d] \in {"unsent", "begin", "done"}
  BY OneTurn DEF Mid
<1>6. MidHasTurn'
  BY <1>3, <1>5 DEF MidHasTurn, Mid
<1> QED
  BY <1>1, <1>2, <1>3, <1>4, <1>5, <1>6

LEMMA SendInv ==
  ASSUME Inv, NEW c \in Call, NEW k \in Kind, NEW e \in Event \cup {NoEvent}, Send(c, k, e)
  PROVE  Inv'
<1> USE DEF Inv
<1>1. pc' = [pc EXCEPT ![c] = "begin"] /\ kind' = [kind EXCEPT ![c] = k]
      /\ event' = [event EXCEPT ![c] = e] /\ pc[c] = "unsent"
      /\ writeChain' = Append(writeChain, c)
      /\ UNCHANGED <<d1, pulse, read, outcome, snapshot, crashes>>
  BY DEF Send
<1>2. TypeOK'
  BY <1>1 DEF TypeOK, d1, pulse, PcLabels
<1>3. \A d \in Call :
        /\ d # c => pc'[d] = pc[d] /\ kind'[d] = kind[d] /\ event'[d] = event[d]
        /\ d = c => pc'[d] = "begin" /\ kind'[d] = k /\ event'[d] = e
  BY <1>1 DEF TypeOK
<1>4. MidHasTurn'
  <2> SUFFICES ASSUME NEW d \in Call, Mid(d)' PROVE HasTurn(d)'
    BY DEF MidHasTurn
  <2>1. Mid(d)
    BY <1>1, <1>3 DEF Mid
  <2>2. writeChain # <<>> /\ Head(writeChain) = d /\ writeChain \in Seq(Call)
    BY <2>1 DEF MidHasTurn, HasTurn, TypeOK
  <2> QED
    BY <1>1, <2>2 DEF HasTurn
<1>5. Requests'
  BY <1>1, <1>3, EventAssumption DEF Requests, Send
<1>6. Labels' /\ ReadIsCurrent' /\ CommitIsAllowed' /\ DeliveredIsKnown'
  BY <1>1, <1>3 DEF Labels, ReadIsCurrent, CommitIsAllowed, DeliveredIsKnown, d1
<1>7. StateMatchesLog' /\ ContinuationIsNew' /\ SnapshotNotTorn'
  BY <1>1 DEF StateMatchesLog, ContinuationIsNew, SnapshotNotTorn, d1
<1> QED
  BY <1>2, <1>4, <1>5, <1>6, <1>7

LEMMA CreateInv ==
  ASSUME Inv, NEW c \in Call, Create(c)
  PROVE  Inv'
<1> USE DEF Inv
<1>1. HasTurn(c) /\ kind[c] = "create" /\ exists' \in BOOLEAN
      /\ UNCHANGED <<log, materialized, continuation, pulse, request, read, snapshot, crashes>>
  BY DEF Create, At, TypeOK
<1>2. Goto(c, "bump") \/ Finish(c, "conflict")
  BY DEF Create
<1>3. /\ pc' \in [Call -> PcLabels] /\ writeChain' \in Seq(Call) /\ outcome' \in [Call -> Outcomes]
      /\ MidHasTurn' /\ pc'[c] \in {"bump", "done"}
      /\ \A d \in Call : d # c => pc'[d] = pc[d] /\ pc[d] \in {"unsent", "begin", "done"}
  BY <1>1, <1>2, GotoKeepsTurn, FinishGivesTurn DEF PcLabels, Outcomes
<1>4. TypeOK'
  BY <1>1, <1>3 DEF TypeOK, pulse, request
<1>5. Requests' /\ Labels' /\ ReadIsCurrent' /\ CommitIsAllowed' /\ DeliveredIsKnown'
  BY <1>1, <1>3
  DEF Requests, Labels, ReadIsCurrent, CommitIsAllowed, DeliveredIsKnown, request, At, Create
<1>6. StateMatchesLog' /\ ContinuationIsNew' /\ SnapshotNotTorn'
  BY <1>1 DEF StateMatchesLog, ContinuationIsNew, SnapshotNotTorn
<1> QED
  BY <1>3, <1>4, <1>5, <1>6

\* The steps that only read D1, and go on or end.
LEMMA ReadInv ==
  ASSUME Inv, NEW c \in Call, AppendRead(c) \/ SuspendRead(c) \/ SnapshotState(c)
  PROVE  Inv'
<1> USE DEF Inv
<1>1. HasTurn(c) /\ UNCHANGED <<d1, pulse, request, snapshot, crashes>>
  BY DEF AppendRead, SuspendRead, SnapshotState, At
<1>2. \/ \E label \in {"commit", "deliverDuplicate", "rows"} :
           Goto(c, label) /\ read' = [read EXCEPT ![c] = materialized]
      \/ \E result \in Outcomes : Finish(c, result) /\ UNCHANGED read
  BY DEF AppendRead, SuspendRead, SnapshotState, Outcomes
<1>3. /\ pc' \in [Call -> PcLabels] /\ writeChain' \in Seq(Call) /\ outcome' \in [Call -> Outcomes]
      /\ MidHasTurn' /\ pc'[c] \in {"commit", "deliverDuplicate", "rows", "done"}
      /\ \A d \in Call : d # c => pc'[d] = pc[d] /\ pc[d] \in {"unsent", "begin", "done"}
      /\ read' \in [Call -> Seq(Entry)]
      /\ pc'[c] # "done" => read'[c] = materialized
  <2>1. CASE \E label \in {"commit", "deliverDuplicate", "rows"} :
               Goto(c, label) /\ read' = [read EXCEPT ![c] = materialized]
    BY <1>1, <2>1, GotoKeepsTurn DEF PcLabels, TypeOK
  <2>2. CASE \E result \in Outcomes : Finish(c, result) /\ UNCHANGED read
    BY <1>1, <2>2, FinishGivesTurn DEF TypeOK
  <2> QED
    BY <1>2, <2>1, <2>2
<1>4. TypeOK'
  BY <1>1, <1>3 DEF TypeOK, d1, pulse, request
<1>5. /\ pc'[c] = "commit" =>
           \/ kind[c] = "append" /\ L!Accepts(L!Entries(materialized), event[c])
           \/ /\ kind[c] = "suspend"
              /\ continuation.status = "none" /\ ~L!Over(L!Entries(materialized))
      /\ pc'[c] = "rows" => kind[c] = "snapshot"
      /\ pc'[c] = "deliverDuplicate" =>
           kind[c] = "append" /\ L!Known(L!Entries(materialized), event[c])
  BY DEF AppendRead, SuspendRead, SnapshotState, At, Goto, Finish, TypeOK
<1>6. Requests' /\ Labels' /\ ReadIsCurrent' /\ DeliveredIsKnown'
  <2>1. Requests'
    BY <1>1, <1>3, <1>5 DEF Requests, request, AppendRead, SuspendRead, SnapshotState, At
  <2>2. Labels'
    BY <1>1, <1>3, <1>5 DEF Labels, request
  <2>4. ReadIsCurrent'
    BY <1>1, <1>3 DEF ReadIsCurrent, d1
  <2>3. DeliveredIsKnown'
    BY <1>1, <1>3, <1>5 DEF DeliveredIsKnown, request, d1, StateMatchesLog
  <2> QED
    BY <2>1, <2>2, <2>3, <2>4
<1>7. CommitIsAllowed'
  BY <1>1, <1>3, <1>5 DEF CommitIsAllowed, StateMatchesLog, d1, request
<1>8. StateMatchesLog' /\ ContinuationIsNew' /\ SnapshotNotTorn'
  BY <1>1 DEF StateMatchesLog, ContinuationIsNew, SnapshotNotTorn, d1
<1> QED
  BY <1>3, <1>4, <1>6, <1>7, <1>8

\* The steps that end a call and leave D1 and what it read alone.
LEMMA EndInv ==
  ASSUME Inv, NEW c \in Call, Bump(c) \/ SnapshotRows(c) \/ Connect(c) \/ BatchFails(c)
  PROVE  Inv'
<1> USE DEF Inv
<1>1. HasTurn(c) /\ UNCHANGED <<d1, request, read, crashes>>
  BY DEF Bump, SnapshotRows, Connect, BatchFails, At
<1>2. PICK result \in Outcomes : Finish(c, result)
  BY DEF Bump, SnapshotRows, Connect, BatchFails, Outcomes, OutcomeAt
<1>3. /\ pc' \in [Call -> PcLabels] /\ writeChain' \in Seq(Call) /\ outcome' \in [Call -> Outcomes]
      /\ MidHasTurn' /\ pc'[c] = "done"
      /\ \A d \in Call : d # c => pc'[d] = pc[d] /\ pc[d] \in {"unsent", "begin", "done"}
  BY <1>1, <1>2, FinishGivesTurn
<1>4. revision' \in Nat /\ published' \in Nat
  BY DEF Bump, BumpPulse, SnapshotRows, Connect, BatchFails, TypeOK, pulse
<1>5. snapshot' \in [Call -> [state : Seq(Entry), events : Seq(Entry)]] /\ SnapshotNotTorn'
  <2>1. CASE SnapshotRows(c)
    <3>1. read[c] = log /\ snapshot' = [snapshot EXCEPT ![c] = [state |-> read[c], events |-> log]]
      BY <2>1 DEF SnapshotRows, At, ReadIsCurrent, StateMatchesLog
    <3> QED
      BY <3>1 DEF TypeOK, SnapshotNotTorn
  <2>2. CASE UNCHANGED snapshot
    BY <2>2 DEF TypeOK, SnapshotNotTorn
  <2> QED
    BY <2>1, <2>2 DEF Bump, Connect, BatchFails
<1>6. TypeOK'
  BY <1>1, <1>3, <1>4, <1>5 DEF TypeOK, d1, request
<1>7. Requests'
  BY <1>1, <1>3 DEF Requests, request, Bump, SnapshotRows, Connect, BatchFails, At
<1>8. Labels' /\ ReadIsCurrent' /\ CommitIsAllowed' /\ DeliveredIsKnown'
  BY <1>1, <1>3 DEF Labels, ReadIsCurrent, CommitIsAllowed, DeliveredIsKnown, request, d1
<1>9. StateMatchesLog' /\ ContinuationIsNew'
  BY <1>1 DEF StateMatchesLog, ContinuationIsNew, d1
<1> QED
  BY <1>3, <1>5, <1>6, <1>7, <1>8, <1>9

\* What the log knows after one more event.
LEMMA KnownAppend ==
  ASSUME NEW s \in Seq(Entry), NEW e \in Entry, NEW x
  PROVE  L!Known(L!Entries(Append(s, e)), x)
           <=> L!Known(L!Entries(s), x) \/ e.id = x.id \/ e.key = x.key
BY EntriesAppend DEF L!Known

\* An event of a client is not mistaken for one of a continuation, nor are those
\* two for each other.
LEMMA GeneratedDistinct ==
  /\ \A e \in Event : /\ e.id # Suspended.id /\ e.key # Suspended.key
                      /\ e.id # WakePending.id /\ e.key # WakePending.key
  /\ Suspended.id # WakePending.id /\ Suspended.key # WakePending.key
  /\ Suspended \in Entry /\ WakePending \in Entry
<1>1. Suspended.id = "suspended" /\ Suspended.key = "suspended"
      /\ WakePending.id = "wake_pending" /\ WakePending.key = "wake_pending"
  BY DEF Suspended, WakePending
<1> QED
  BY <1>1, EventAssumption DEF Entry

LEMMA AppendCommitInv ==
  ASSUME Inv, NEW c \in Call, AppendCommit(c)
  PROVE  Inv'
<1> USE DEF Inv
<1>1. /\ HasTurn(c) /\ pc[c] = "commit" /\ kind[c] = "append" /\ event[c] \in Event
      /\ UNCHANGED <<exists, continuation, pulse, request, read, snapshot, crashes>>
  BY DEF AppendCommit, At, Requests
<1>2. event[c] \in Entry /\ log \in Seq(Entry) /\ read[c] = log /\ materialized = log
  BY <1>1 DEF Entry, TypeOK, ReadIsCurrent, StateMatchesLog
<1>3. \/ Goto(c, "deliver") /\ log' = Append(log, event[c]) /\ materialized' = log'
      \/ /\ Goto(c, "deliverDuplicate") /\ UNCHANGED <<log, materialized>>
         /\ L!Known(L!Entries(log), event[c])
      \/ Finish(c, "conflict") /\ UNCHANGED <<log, materialized>>
  BY <1>2 DEF AppendCommit, Commit
<1>4. /\ pc' \in [Call -> PcLabels] /\ writeChain' \in Seq(Call) /\ outcome' \in [Call -> Outcomes]
      /\ MidHasTurn' /\ pc'[c] \in {"deliver", "deliverDuplicate", "done"}
      /\ \A d \in Call : d # c => pc'[d] = pc[d] /\ pc[d] \in {"unsent", "begin", "done"}
  BY <1>1, <1>3, GotoKeepsTurn, FinishGivesTurn DEF PcLabels, Outcomes
<1>5. log' \in Seq(Entry) /\ materialized' = log'
  BY <1>2, <1>3
<1>6. TypeOK'
  BY <1>1, <1>4, <1>5 DEF TypeOK, pulse, request
<1>7. Requests' /\ Labels' /\ ReadIsCurrent' /\ CommitIsAllowed'
  BY <1>1, <1>4 DEF Requests, Labels, ReadIsCurrent, CommitIsAllowed, request
<1>8. pc'[c] # "done" => L!Known(L!Entries(log'), event[c])
  <2>1. CASE log' = Append(log, event[c])
    BY <1>2, <2>1, KnownAppend
  <2>2. CASE Finish(c, "conflict")
    BY <2>2 DEF Finish, TypeOK
  <2> QED
    BY <1>3, <2>1, <2>2
<1>9. DeliveredIsKnown'
  <2> SUFFICES ASSUME NEW d \in Call,
                      pc'[d] \in {"deliver", "deliverDuplicate", "bumpDuplicate"}
                        \/ (pc'[d] = "bump" /\ kind'[d] = "append")
               PROVE  L!Known(L!Entries(log'), event'[d])
    BY DEF DeliveredIsKnown, L!Known, L!Entries
  <2>1. d = c
    BY <1>4
  <2> QED
    BY <1>1, <1>4, <1>8, <2>1 DEF request
<1>10. ContinuationIsNew'
  <2>1. /\ L!Known(L!Entries(log'), Suspended) => L!Known(L!Entries(log), Suspended)
        /\ L!Known(L!Entries(log'), WakePending) => L!Known(L!Entries(log), WakePending)
    BY <1>1, <1>2, <1>3, KnownAppend, GeneratedDistinct
  <2>2. continuation' = continuation
    BY <1>1
  <2> QED
    BY <2>1, <2>2 DEF ContinuationIsNew, L!Known, L!Entries
<1>11. StateMatchesLog' /\ SnapshotNotTorn'
  BY <1>1, <1>5 DEF StateMatchesLog, SnapshotNotTorn
<1> QED
  BY <1>4, <1>6, <1>7, <1>9, <1>10, <1>11

LEMMA SuspendCommitInv ==
  ASSUME Inv, NEW c \in Call, SuspendCommit(c)
  PROVE  Inv'
<1> USE DEF Inv
<1>1. /\ HasTurn(c) /\ pc[c] = "commit" /\ kind[c] = "suspend" /\ event[c] \in Event
      /\ UNCHANGED <<exists, pulse, request, read, snapshot, crashes>>
      /\ Goto(c, "bump")
  BY DEF SuspendCommit, At, Requests
<1>2. /\ log \in Seq(Entry) /\ read[c] = log /\ materialized = log
      /\ continuation.status = "none"
  BY <1>1 DEF TypeOK, ReadIsCurrent, StateMatchesLog, CommitIsAllowed
<1>3. /\ log' = Append(log, Suspended) /\ materialized' = log'
      /\ continuation' = [status |-> "suspended", wakesOn |-> event[c].type,
                          checkpoint |-> Len(log)]
  BY <1>2 DEF SuspendCommit, Commit
<1>4. /\ pc' \in [Call -> PcLabels] /\ writeChain' \in Seq(Call) /\ outcome' \in [Call -> Outcomes]
      /\ MidHasTurn' /\ pc'[c] = "bump"
      /\ \A d \in Call : d # c => pc'[d] = pc[d] /\ pc[d] \in {"unsent", "begin", "done"}
  BY <1>1, GotoKeepsTurn DEF PcLabels
<1>5. log' \in Seq(Entry)
  BY <1>2, <1>3, GeneratedDistinct
<1>6. continuation' \in [status : {"none", "suspended", "wake_pending"},
                         wakesOn : {e.type : e \in Event} \cup {"none"}, checkpoint : Nat]
  BY <1>1, <1>2, <1>3
<1>7. TypeOK'
  BY <1>1, <1>3, <1>4, <1>5, <1>6 DEF TypeOK, pulse, request
<1>8. Requests' /\ Labels' /\ ReadIsCurrent' /\ CommitIsAllowed' /\ DeliveredIsKnown'
  BY <1>1, <1>4 DEF Requests, Labels, ReadIsCurrent, CommitIsAllowed, DeliveredIsKnown, request
<1>9. ContinuationIsNew'
  <2>1. ~L!Known(L!Entries(log), WakePending)
    BY <1>2 DEF ContinuationIsNew
  <2>2. ~L!Known(L!Entries(log'), WakePending)
    BY <1>2, <1>3, <2>1, KnownAppend, GeneratedDistinct
  <2>3. continuation'.status = "suspended"
    BY <1>3
  <2> QED
    BY <2>2, <2>3 DEF ContinuationIsNew, L!Known, L!Entries
<1>10. StateMatchesLog' /\ SnapshotNotTorn'
  BY <1>1, <1>3 DEF StateMatchesLog, SnapshotNotTorn
<1> QED
  BY <1>4, <1>7, <1>8, <1>9, <1>10

LEMMA DeliverInv ==
  ASSUME Inv, NEW c \in Call, Deliver(c)
  PROVE  Inv'
<1> USE DEF Inv
<1>1. /\ HasTurn(c) /\ pc[c] \in {"deliver", "deliverDuplicate"} /\ kind[c] = "append"
      /\ UNCHANGED <<exists, pulse, request, read, snapshot, crashes>>
  BY DEF Deliver, Labels
<1>2. log \in Seq(Entry) /\ materialized = log
  BY DEF TypeOK, StateMatchesLog
<1>3. \/ \E label \in {"bump", "bumpDuplicate"} : Goto(c, label)
      \/ Finish(c, "failed")
  BY DEF Deliver
<1>4. /\ pc' \in [Call -> PcLabels] /\ writeChain' \in Seq(Call) /\ outcome' \in [Call -> Outcomes]
      /\ MidHasTurn' /\ pc'[c] \in {"bump", "bumpDuplicate", "done"}
      /\ \A d \in Call : d # c => pc'[d] = pc[d] /\ pc[d] \in {"unsent", "begin", "done"}
  <2>1. CASE \E label \in {"bump", "bumpDuplicate"} : Goto(c, label)
    BY <1>1, <2>1, GotoKeepsTurn DEF PcLabels
  <2>2. CASE Finish(c, "failed")
    BY <1>1, <2>2, FinishGivesTurn DEF Outcomes
  <2> QED
    BY <1>3, <2>1, <2>2
<1>5. \/ UNCHANGED <<log, materialized, continuation>>
      \/ /\ log' = Append(log, WakePending) /\ materialized' = log'
         /\ continuation' = [continuation EXCEPT !.status = "wake_pending"]
         /\ continuation.status = "suspended"
  BY <1>2 DEF Deliver, Wakes
<1>6. log' \in Seq(Entry) /\ materialized' = log'
  BY <1>2, <1>5, GeneratedDistinct
<1>7. continuation' \in [status : {"none", "suspended", "wake_pending"},
                         wakesOn : {e.type : e \in Event} \cup {"none"}, checkpoint : Nat]
  BY <1>5 DEF TypeOK
<1>8. TypeOK'
  BY <1>1, <1>4, <1>6, <1>7 DEF TypeOK, pulse, request
<1>9. Requests' /\ Labels' /\ ReadIsCurrent' /\ CommitIsAllowed'
  BY <1>1, <1>4 DEF Requests, Labels, ReadIsCurrent, CommitIsAllowed, request
<1>10. \A x : L!Known(L!Entries(log), x) => L!Known(L!Entries(log'), x)
  BY <1>2, <1>5, KnownAppend, GeneratedDistinct
<1>11. DeliveredIsKnown'
  <2>1. L!Known(L!Entries(log'), event[c])
    BY <1>1, <1>10 DEF DeliveredIsKnown
  <2> SUFFICES ASSUME NEW d \in Call,
                      pc'[d] \in {"deliver", "deliverDuplicate", "bumpDuplicate"}
                        \/ (pc'[d] = "bump" /\ kind'[d] = "append")
               PROVE  L!Known(L!Entries(log'), event'[d])
    BY DEF DeliveredIsKnown, L!Known, L!Entries
  <2>2. d = c
    BY <1>4
  <2> QED
    BY <1>1, <2>1, <2>2 DEF request
<1>12. ContinuationIsNew'
  <2>1. CASE UNCHANGED <<log, materialized, continuation>>
    BY <2>1 DEF ContinuationIsNew
  <2>2. CASE continuation' = [continuation EXCEPT !.status = "wake_pending"]
    <3>1. continuation'.status = "wake_pending"
      BY <2>2 DEF TypeOK
    <3> QED
      BY <3>1 DEF ContinuationIsNew
  <2> QED
    BY <1>5, <2>1, <2>2
<1>13. StateMatchesLog' /\ SnapshotNotTorn'
  BY <1>1, <1>6 DEF StateMatchesLog, SnapshotNotTorn
<1> QED
  BY <1>4, <1>8, <1>9, <1>11, <1>12, <1>13

LEMMA CrashInv ==
  ASSUME Inv, Crash
  PROVE  Inv'
<1> USE DEF Inv
<1>1. /\ writeChain' = <<>> /\ crashes' \in 0..MaxCrashes
      /\ \A c \in Call : pc'[c] \in {"unsent", "done"} /\ (pc'[c] # "unsent" => pc[c] # "unsent")
      /\ pc' \in [Call -> PcLabels] /\ outcome' \in [Call -> Outcomes]
      /\ UNCHANGED <<d1, pulse, request, read, snapshot>>
  BY BoundsAssumption DEF Crash, TypeOK, PcLabels, Outcomes
<1>2. TypeOK'
  BY <1>1 DEF TypeOK, d1, pulse, request
<1>3. MidHasTurn' /\ Labels' /\ ReadIsCurrent' /\ CommitIsAllowed' /\ DeliveredIsKnown'
  BY <1>1 DEF MidHasTurn, Mid, Labels, ReadIsCurrent, CommitIsAllowed, DeliveredIsKnown
<1>4. Requests'
  BY <1>1 DEF Requests, request
<1>5. StateMatchesLog' /\ ContinuationIsNew' /\ SnapshotNotTorn'
  BY <1>1 DEF StateMatchesLog, ContinuationIsNew, SnapshotNotTorn, d1
<1> QED
  BY <1>2, <1>3, <1>4, <1>5

LEMMA NextInv == Inv /\ [Next]_vars => Inv'
<1> SUFFICES ASSUME Inv, [Next]_vars PROVE Inv'
  OBVIOUS
<1>1. CASE UNCHANGED vars
  BY <1>1 DEF Inv, TypeOK, MidHasTurn, Mid, HasTurn, Requests, Labels, StateMatchesLog,
     ReadIsCurrent, CommitIsAllowed, ContinuationIsNew, DeliveredIsKnown, SnapshotNotTorn, vars
<1>2. ASSUME NEW c \in Call, NEW k \in Kind, NEW e \in Event \cup {NoEvent}, Send(c, k, e)
      PROVE  Inv'
  BY <1>2, SendInv
<1>3. ASSUME NEW c \in Call, Step(c)
      PROVE  Inv'
  BY <1>3, CreateInv, ReadInv, AppendCommitInv, DeliverInv, SuspendCommitInv, EndInv DEF Step
<1>4. CASE Crash
  BY <1>4, CrashInv
<1> QED
  BY <1>1, <1>2, <1>3, <1>4 DEF Next

LEMMA InvHolds == Spec => []Inv
BY InitInv, NextInv, PTL DEF Spec

-------------------------------------------------------------------------------
\* Type correctness of the agent's state and of D1.
THEOREM TypeCorrect == Spec => []TypeOK
<1>1. Inv => TypeOK
  BY DEF Inv
<1> QED
  BY <1>1, InvHolds, PTL

\* No step update is lost: whatever calls interleave and whenever the isolate is
\* evicted, materialized_states has applied exactly the rows of runtime_events.
THEOREM NoLostUpdate == Spec => []StateMatchesLog
<1>1. Inv => StateMatchesLog
  BY DEF Inv
<1> QED
  BY <1>1, InvHolds, PTL

\* getSnapshot returns a state and the event rows of one and the same moment.
THEOREM SnapshotsNotTorn == Spec => []SnapshotNotTorn
<1>1. Inv => SnapshotNotTorn
  BY DEF Inv
<1> QED
  BY <1>1, InvHolds, PTL

-------------------------------------------------------------------------------
\* Every step is one of EventLog, or a stutter.

LEMMA InitOutcome == Init => OutcomeAtEnd
BY DEF Init, OutcomeAtEnd

\* A step of a call that answers nothing, or answers without acknowledging.
LEMMA NoAcknowledgement ==
  ASSUME TypeOK, OutcomeAtEnd, NEW c \in Call, pc[c] # "done",
         \/ \E label \in PcLabels \ {"done"} : Goto(c, label)
         \/ \E result \in Outcomes \ {"applied", "duplicate"} : Finish(c, result),
         event' = event
  PROVE  OutcomeAtEnd' /\ Acked' = Acked
<1>1. \A d \in Call : d # c => outcome'[d] = outcome[d] /\ pc'[d] = pc[d]
  BY DEF Goto, Finish, TypeOK
<1>2. outcome[c] = "none" /\ outcome'[c] \notin {"applied", "duplicate"}
      /\ (pc'[c] # "done" => outcome'[c] = "none")
  BY DEF Goto, Finish, TypeOK, OutcomeAtEnd
<1>3. OutcomeAtEnd'
  BY <1>1, <1>2 DEF OutcomeAtEnd
<1>4. {d \in Call : outcome'[d] \in {"applied", "duplicate"}}
        = {d \in Call : outcome[d] \in {"applied", "duplicate"}}
  BY <1>1, <1>2
<1>5. Acked' = Acked
  BY <1>4 DEF Acked
<1> QED
  BY <1>3, <1>5

\* A step maps to a stutter, to Record or to Publish.
MapsToLog ==
  \/ UNCHANGED <<log, published, Acked>>
  \/ \E e \in Entry : L!Record(e)
  \/ L!Publish

LEMMA SendMaps ==
  ASSUME Inv, OutcomeAtEnd, NEW c \in Call, NEW k \in Kind, NEW e \in Event \cup {NoEvent},
         Send(c, k, e)
  PROVE  OutcomeAtEnd' /\ MapsToLog
<1>1. /\ pc[c] = "unsent" /\ pc' = [pc EXCEPT ![c] = "begin"]
      /\ event' = [event EXCEPT ![c] = e]
      /\ UNCHANGED <<log, published, outcome>>
  BY DEF Send, d1, pulse
<1>2. OutcomeAtEnd'
  BY <1>1 DEF OutcomeAtEnd, Inv, TypeOK
<1>3. outcome[c] = "none" /\ \A d \in Call : d # c => event'[d] = event[d]
  BY <1>1 DEF OutcomeAtEnd, Inv, TypeOK
<1>4. Acked' = Acked
  BY <1>1, <1>3 DEF Acked
<1> QED
  BY <1>1, <1>2, <1>4 DEF MapsToLog

LEMMA QuietStepMaps ==
  ASSUME Inv, OutcomeAtEnd, NEW c \in Call,
         \/ Create(c) \/ AppendRead(c) \/ SuspendRead(c) \/ SnapshotState(c) \/ SnapshotRows(c)
         \/ BatchFails(c)
  PROVE  OutcomeAtEnd' /\ MapsToLog
<1>1. /\ pc[c] # "done" /\ event' = event /\ UNCHANGED <<log, published>>
      /\ \/ \E label \in PcLabels \ {"done"} : Goto(c, label)
         \/ \E result \in Outcomes \ {"applied", "duplicate"} : Finish(c, result)
  BY DEF Create, AppendRead, SuspendRead, SnapshotState, SnapshotRows, BatchFails, At, d1, pulse, request,
         PcLabels, Outcomes
<1>2. OutcomeAtEnd' /\ Acked' = Acked
  BY <1>1, NoAcknowledgement DEF Inv
<1> QED
  BY <1>1, <1>2 DEF MapsToLog

LEMMA AppendCommitMaps ==
  ASSUME Inv, OutcomeAtEnd, NEW c \in Call, AppendCommit(c)
  PROVE  OutcomeAtEnd' /\ MapsToLog
<1>1. /\ pc[c] = "commit" /\ kind[c] = "append" /\ event' = event /\ published' = published
      /\ \/ \E label \in PcLabels \ {"done"} : Goto(c, label)
         \/ \E result \in Outcomes \ {"applied", "duplicate"} : Finish(c, result)
  BY DEF AppendCommit, At, pulse, request, PcLabels, Outcomes
<1>2. OutcomeAtEnd' /\ Acked' = Acked
  BY <1>1, NoAcknowledgement DEF Inv
<1>3. CASE log' = log
  BY <1>1, <1>2, <1>3 DEF MapsToLog
<1>4. CASE ~Clashes(event[c]) /\ Commit(c, event[c])
  <2>1. event[c] \in Entry
    BY <1>1 DEF Inv, Requests, Entry
  <2>2. ~L!Known(L!Entries(log), event[c]) /\ L!Accepts(L!Entries(log), event[c])
    BY <1>1, <1>4 DEF Clashes, Inv, CommitIsAllowed
  <2>3. L!Record(event[c])
    BY <1>1, <1>2, <1>4, <2>2 DEF L!Record, Commit
  <2> QED
    BY <1>2, <2>1, <2>3 DEF MapsToLog
<1> QED
  BY <1>3, <1>4 DEF AppendCommit

LEMMA SuspendCommitMaps ==
  ASSUME Inv, OutcomeAtEnd, NEW c \in Call, SuspendCommit(c)
  PROVE  OutcomeAtEnd' /\ MapsToLog
<1>1. /\ pc[c] = "commit" /\ kind[c] = "suspend" /\ event' = event /\ published' = published
      /\ Goto(c, "bump") /\ log' = Append(log, Suspended)
  BY DEF SuspendCommit, At, pulse, request, Commit
<1>2. OutcomeAtEnd' /\ Acked' = Acked
  BY <1>1, NoAcknowledgement DEF Inv, PcLabels
<1>3. ~L!Known(L!Entries(log), Suspended) /\ L!Accepts(L!Entries(log), Suspended)
  BY <1>1, AcceptsGenerated DEF Inv, CommitIsAllowed, ContinuationIsNew
<1>4. L!Record(Suspended)
  BY <1>1, <1>2, <1>3 DEF L!Record
<1> QED
  BY <1>2, <1>4, GeneratedDistinct DEF MapsToLog

LEMMA DeliverMaps ==
  ASSUME Inv, OutcomeAtEnd, NEW c \in Call, Deliver(c)
  PROVE  OutcomeAtEnd' /\ MapsToLog
<1>1. /\ pc[c] \in {"deliver", "deliverDuplicate"} /\ event' = event /\ published' = published
      /\ \/ \E label \in PcLabels \ {"done"} : Goto(c, label)
         \/ \E result \in Outcomes \ {"applied", "duplicate"} : Finish(c, result)
  BY DEF Deliver, pulse, request, PcLabels, Outcomes
<1>2. OutcomeAtEnd' /\ Acked' = Acked
  BY <1>1, NoAcknowledgement DEF Inv
<1>3. CASE log' = log
  BY <1>1, <1>2, <1>3 DEF MapsToLog
<1>4. CASE log' = Append(log, WakePending) /\ Wakes(event[c])
           /\ ~L!Over(L!Entries(materialized))
  <2>1. ~L!Known(L!Entries(log), WakePending) /\ L!Accepts(L!Entries(log), WakePending)
    BY <1>4, AcceptsGenerated DEF Inv, ContinuationIsNew, StateMatchesLog, Wakes
  <2>2. L!Record(WakePending)
    BY <1>1, <1>2, <1>4, <2>1 DEF L!Record
  <2> QED
    BY <1>2, <2>2, GeneratedDistinct DEF MapsToLog
<1> QED
  BY <1>3, <1>4 DEF Deliver

\* A pulse that acknowledges nothing.
LEMMA PublishWithoutAck ==
  ASSUME log' = log, published' = Len(log), Acked' = Acked
  PROVE  L!Publish
<1>1. {} \in SUBSET {e \in Entry : L!Known(L!Entries(log), e)} /\ Acked' = Acked \cup {}
  OBVIOUS
<1>2. \E A \in SUBSET {e \in Entry : L!Known(L!Entries(log), e)} : Acked' = Acked \cup A
  BY <1>1
<1> QED
  BY <1>2 DEF L!Publish

\* A pulse announces the whole log, and the event acknowledged with it is in it.
LEMMA BumpMaps ==
  ASSUME Inv, OutcomeAtEnd, NEW c \in Call, Bump(c)
  PROVE  OutcomeAtEnd' /\ MapsToLog
<1>1. /\ pc[c] \in {"bump", "bumpDuplicate"}
      /\ event' = event /\ log' = log /\ published' = Len(log)
      /\ Finish(c, OutcomeAt(c))
  BY DEF Bump, BumpPulse, d1, request
<1>2. outcome[c] = "none" /\ outcome'[c] = OutcomeAt(c) /\ pc'[c] = "done"
      /\ \A d \in Call : d # c => outcome'[d] = outcome[d] /\ pc'[d] = pc[d]
  BY <1>1 DEF Finish, Inv, TypeOK, OutcomeAtEnd
<1>3. OutcomeAtEnd'
  BY <1>2 DEF OutcomeAtEnd
<1>4. CASE OutcomeAt(c) \in {"applied", "duplicate"}
  <2>1. kind[c] = "append"
    BY <1>1, <1>4 DEF OutcomeAt, Inv, Labels
  <2>2. event[c] \in Entry /\ L!Known(L!Entries(log), event[c])
    BY <1>1, <2>1 DEF Inv, Requests, Entry, DeliveredIsKnown
  <2>3. Acked' = Acked \cup {event[c]}
    BY <1>1, <1>2, <1>4 DEF Acked
  <2>4. \E A \in SUBSET {e \in Entry : L!Known(L!Entries(log), e)} : Acked' = Acked \cup A
    BY <2>2, <2>3
  <2>5. L!Publish
    BY <1>1, <2>4 DEF L!Publish
  <2> QED
    BY <1>3, <2>5 DEF MapsToLog
<1>5. CASE OutcomeAt(c) \notin {"applied", "duplicate"}
  <2>1. {d \in Call : outcome'[d] \in {"applied", "duplicate"}}
          = {d \in Call : outcome[d] \in {"applied", "duplicate"}}
    BY <1>2, <1>5
  <2>2. Acked' = Acked
    BY <1>1, <2>1 DEF Acked
  <2>3. L!Publish
    BY <1>1, <2>2, PublishWithoutAck
  <2> QED
    BY <1>3, <2>3 DEF MapsToLog
<1> QED
  BY <1>4, <1>5

LEMMA ConnectMaps ==
  ASSUME Inv, OutcomeAtEnd, NEW c \in Call, Connect(c)
  PROVE  OutcomeAtEnd' /\ MapsToLog
<1>1. /\ pc[c] # "done" /\ event' = event /\ log' = log
      /\ published' = published \/ published' = Len(log)
      /\ Finish(c, "connected")
  BY DEF Connect, At, d1, pulse, request
<1>2. OutcomeAtEnd' /\ Acked' = Acked
  BY <1>1, NoAcknowledgement DEF Inv, Outcomes
<1>3. CASE published' = Len(log)
  BY <1>1, <1>2, <1>3, PublishWithoutAck DEF MapsToLog
<1>4. CASE published' = published
  BY <1>1, <1>2, <1>4 DEF MapsToLog
<1> QED
  BY <1>1, <1>2, <1>3, <1>4

LEMMA CrashMaps ==
  ASSUME Inv, OutcomeAtEnd, Crash
  PROVE  OutcomeAtEnd' /\ MapsToLog
<1>1. /\ UNCHANGED <<log, published, event>>
      /\ \A c \in Call :
           \/ pc'[c] = pc[c] /\ outcome'[c] = outcome[c]
           \/ pc[c] # "done" /\ pc'[c] = "done" /\ outcome'[c] = "lost"
  BY DEF Crash, d1, pulse, request
<1>2. OutcomeAtEnd'
  BY <1>1 DEF OutcomeAtEnd
<1>3. {d \in Call : outcome'[d] \in {"applied", "duplicate"}}
        = {d \in Call : outcome[d] \in {"applied", "duplicate"}}
  BY <1>1 DEF OutcomeAtEnd
<1>4. Acked' = Acked
  BY <1>1, <1>3 DEF Acked
<1> QED
  BY <1>1, <1>2, <1>4 DEF MapsToLog

LEMMA NextMaps == Inv /\ OutcomeAtEnd /\ [Next]_vars => OutcomeAtEnd' /\ MapsToLog
<1> SUFFICES ASSUME Inv, OutcomeAtEnd, [Next]_vars PROVE OutcomeAtEnd' /\ MapsToLog
  OBVIOUS
<1>1. CASE UNCHANGED vars
  BY <1>1 DEF vars, OutcomeAtEnd, MapsToLog, Acked
<1>2. ASSUME NEW c \in Call, NEW k \in Kind, NEW e \in Event \cup {NoEvent}, Send(c, k, e)
      PROVE  OutcomeAtEnd' /\ MapsToLog
  BY <1>2, SendMaps
<1>3. ASSUME NEW c \in Call, Step(c)
      PROVE  OutcomeAtEnd' /\ MapsToLog
  BY <1>3, QuietStepMaps, AppendCommitMaps, SuspendCommitMaps, DeliverMaps, BumpMaps, ConnectMaps
  DEF Step
<1>4. CASE Crash
  BY <1>4, CrashMaps
<1> QED
  BY <1>1, <1>2, <1>3, <1>4 DEF Next

\* The agent implements the promise of EventLog.
THEOREM ImplementsLog == Spec => ImplementsEventLog
<1>1. Init => L!Init
  BY DEF Init, L!Init, Acked
<1>2. Inv /\ OutcomeAtEnd /\ [Next]_vars => [L!Next]_(L!logVars)
  BY NextMaps DEF MapsToLog, L!Next, L!logVars
<1>3. Inv /\ OutcomeAtEnd /\ [Next]_vars => OutcomeAtEnd'
  BY NextMaps
<1> QED
  BY <1>1, <1>2, <1>3, InvHolds, InitOutcome, PTL DEF Spec, L!Spec, ImplementsEventLog

\* What EventLog promises of acknowledged events.
AckedInLog ==
  /\ log \in Seq(Entry)
  /\ published \in 0..Len(log)
  /\ \A e \in Acked : \E i \in 1..published : log[i].id = e.id \/ log[i].key = e.key

LEMMA MapsKeepAcked == AckedInLog /\ MapsToLog => AckedInLog'
<1> SUFFICES ASSUME AckedInLog, MapsToLog PROVE AckedInLog'
  OBVIOUS
<1>1. CASE UNCHANGED <<log, published, Acked>>
  BY <1>1 DEF AckedInLog
<1>2. CASE \E e \in Entry : L!Record(e)
  <2>1. PICK e \in Entry : log' = Append(log, e) /\ published' = published /\ Acked' = Acked
    BY <1>2 DEF L!Record
  <2>2. log' \in Seq(Entry) /\ Len(log') = Len(log) + 1 /\ Len(log) \in Nat
        /\ \A i \in 1..Len(log) : log'[i] = log[i]
    BY <2>1 DEF AckedInLog
  <2> QED
    BY <2>1, <2>2 DEF AckedInLog
<1>3. CASE L!Publish
  <2>1. PICK A \in SUBSET {e \in Entry : L!Known(L!Entries(log), e)} : Acked' = Acked \cup A
    BY <1>3 DEF L!Publish
  <2>2. log' = log /\ published' = Len(log) /\ Len(log) \in Nat /\ DOMAIN log = 1..Len(log)
    BY <1>3 DEF L!Publish, AckedInLog
  <2>3. \A e \in A : \E i \in 1..Len(log) : log[i].id = e.id \/ log[i].key = e.key
    BY <2>1, <2>2 DEF L!Known, L!Entries
  <2> QED
    BY <2>1, <2>2, <2>3 DEF AckedInLog
<1> QED
  BY <1>1, <1>2, <1>3 DEF MapsToLog

\* Whoever was told that its event is recorded has been, or will be on the next
\* fetch, shown a log with that event.
THEOREM AcknowledgementsPublished == Spec => []AcknowledgedIsPublished
<1>1. Init => AckedInLog
  BY DEF Init, AckedInLog, Acked
<1>2. Inv /\ OutcomeAtEnd /\ AckedInLog /\ [Next]_vars => OutcomeAtEnd' /\ AckedInLog'
  BY NextMaps, MapsKeepAcked
<1>3. AckedInLog => AcknowledgedIsPublished
  BY DEF AckedInLog, AcknowledgedIsPublished, Acked
<1> QED
  BY <1>1, <1>2, <1>3, InvHolds, InitOutcome, PTL DEF Spec

-------------------------------------------------------------------------------
\* Waking: no wake is missed, and none comes without news.

\* A call that has acknowledged its event, or will with its pulse.
Acknowledges(c) ==
  \/ pc[c] = "bumpDuplicate"
  \/ pc[c] = "bump" /\ kind[c] = "append"
  \/ outcome[c] \in {"applied", "duplicate"}

\* The row of the suspension lies just after the checkpoint, and is the only one.
SuspendedOnce ==
  continuation.status # "none" =>
    /\ continuation.checkpoint + 1 \in DOMAIN log
    /\ \A i \in DOMAIN log : log[i] = Suspended <=> i = continuation.checkpoint + 1

AcknowledgedIsKnown ==
  \A c \in Call : Acknowledges(c) => event[c] \in Event /\ L!Known(L!Entries(log), event[c])

\* While a continuation sleeps, nobody has been acknowledged what it waits for.
NoneMissed ==
  continuation.status = "suspended" =>
    \A c \in Call, j \in DOMAIN log :
      /\ Acknowledges(c) /\ j > continuation.checkpoint
      /\ log[j].id = event[c].id /\ log[j].key = event[c].key
      => log[j].type # continuation.wakesOn

WakeInv ==
  /\ SuspendedOnce
  /\ WokenByNews
  /\ AcknowledgedIsKnown
  /\ NoneMissed

\* A log with one more event, row by row.
LEMMA RowsAppend ==
  ASSUME NEW s \in Seq(Entry), NEW e \in Entry
  PROVE  /\ DOMAIN s = 1..Len(s) /\ Len(s) \in Nat
         /\ DOMAIN Append(s, e) = 1..(Len(s) + 1)
         /\ Append(s, e)[Len(s) + 1] = e
         /\ \A i \in DOMAIN s : i \in DOMAIN Append(s, e) /\ Append(s, e)[i] = s[i]
         /\ \A i \in DOMAIN Append(s, e) : i \in DOMAIN s \/ i = Len(s) + 1
OBVIOUS

\* An event not known to a log is in none of its rows.
LEMMA UnknownInNoRow ==
  ASSUME NEW s \in Seq(Entry), NEW e, ~L!Known(L!Entries(s), e)
  PROVE  \A i \in DOMAIN s : s[i].id # e.id /\ s[i].key # e.key
BY DEF L!Known, L!Entries

LEMMA InitWake == Init => WakeInv
BY DEF Init, WakeInv, SuspendedOnce, WokenByNews, AcknowledgedIsKnown, NoneMissed, Acknowledges,
       NoContinuation

\* A step that leaves the log and the continuation alone, and after which a call
\* acknowledges only what was delivered and had nothing to wake.
LEMMA QuietKeepsWake ==
  ASSUME WakeInv, UNCHANGED <<log, continuation>>,
         \A c \in Call : Acknowledges(c)' =>
           /\ event'[c] = event[c]
           /\ \/ Acknowledges(c)
              \/ /\ event[c] \in Event /\ L!Known(L!Entries(log), event[c])
                 /\ ~Wakes(event[c])
  PROVE  WakeInv'
<1>1. SuspendedOnce' /\ WokenByNews'
  BY DEF WakeInv, SuspendedOnce, WokenByNews
<1>2. AcknowledgedIsKnown'
  <2> SUFFICES ASSUME NEW c \in Call, Acknowledges(c)'
               PROVE  event'[c] \in Event /\ L!Known(L!Entries(log'), event'[c])
    BY DEF AcknowledgedIsKnown, L!Known, L!Entries
  <2>1. event[c] \in Event /\ L!Known(L!Entries(log), event[c])
    BY DEF WakeInv, AcknowledgedIsKnown
  <2> QED
    BY <2>1
<1>3. NoneMissed'
  <2> SUFFICES ASSUME continuation.status = "suspended",
                      NEW c \in Call, NEW j \in DOMAIN log,
                      Acknowledges(c)', j > continuation.checkpoint,
                      log[j].id = event[c].id, log[j].key = event[c].key
               PROVE  log[j].type # continuation.wakesOn
    BY DEF NoneMissed
  <2>1. CASE Acknowledges(c)
    BY <2>1 DEF WakeInv, NoneMissed
  <2>2. CASE ~Wakes(event[c])
    BY <2>2 DEF Wakes
  <2> QED
    BY <2>1, <2>2
<1> QED
  BY <1>1, <1>2, <1>3 DEF WakeInv

\* A step that adds an event of a client to the log, while no other call begins to
\* acknowledge: no acknowledged event has that identity.
LEMMA AppendKeepsWake ==
  ASSUME TypeOK, WakeInv, NEW e \in Event, ~L!Known(L!Entries(log), e),
         log' = Append(log, e), continuation' = continuation,
         \A c \in Call : Acknowledges(c)' => event'[c] = event[c] /\ Acknowledges(c)
  PROVE  WakeInv'
<1>1. log \in Seq(Entry) /\ e \in Entry /\ e # Suspended
  BY GeneratedDistinct DEF TypeOK, Entry
<1>2. /\ DOMAIN log = 1..Len(log) /\ Len(log) \in Nat
      /\ DOMAIN log' = 1..(Len(log) + 1) /\ log'[Len(log) + 1] = e
      /\ \A i \in DOMAIN log : i \in DOMAIN log' /\ log'[i] = log[i]
      /\ \A i \in DOMAIN log' : i \in DOMAIN log \/ i = Len(log) + 1
  BY <1>1, RowsAppend
<1>3. SuspendedOnce'
  BY <1>1, <1>2 DEF WakeInv, SuspendedOnce, TypeOK
<1>4. WokenByNews'
  <2> SUFFICES ASSUME continuation.status = "wake_pending"
               PROVE  \E i, j \in DOMAIN log' :
                        i < j /\ log'[i] = Suspended /\ log'[j].type = continuation.wakesOn
    BY DEF WokenByNews
  <2>1. PICK i \in DOMAIN log, j \in DOMAIN log :
          i < j /\ log[i] = Suspended /\ log[j].type = continuation.wakesOn
    BY DEF WakeInv, WokenByNews
  <2> QED
    BY <1>2, <2>1
<1>5. AcknowledgedIsKnown'
  <2> SUFFICES ASSUME NEW c \in Call, Acknowledges(c)'
               PROVE  event'[c] \in Event /\ L!Known(L!Entries(log'), event'[c])
    BY DEF AcknowledgedIsKnown, L!Known, L!Entries
  <2> QED
    BY <1>1, KnownAppend DEF WakeInv, AcknowledgedIsKnown
<1>6. NoneMissed'
  <2> SUFFICES ASSUME continuation.status = "suspended",
                      NEW c \in Call, NEW j \in DOMAIN log',
                      Acknowledges(c)', j > continuation.checkpoint,
                      log'[j].id = event[c].id, log'[j].key = event[c].key
               PROVE  log'[j].type # continuation.wakesOn
    BY DEF NoneMissed
  <2>1. Acknowledges(c) /\ L!Known(L!Entries(log), event[c])
    BY DEF WakeInv, AcknowledgedIsKnown
  <2>2. CASE j = Len(log) + 1
    <3>1. e.id = event[c].id /\ e.key = event[c].key
      BY <1>2, <2>2
    <3> QED
      BY <2>1, <3>1 DEF L!Known
  <2>3. CASE j \in DOMAIN log
    BY <1>2, <2>1, <2>3 DEF WakeInv, NoneMissed
  <2> QED
    BY <1>2, <2>2, <2>3
<1> QED
  BY <1>3, <1>4, <1>5, <1>6 DEF WakeInv

LEMMA SuspendKeepsWake ==
  ASSUME Inv, WakeInv, NEW c \in Call, SuspendCommit(c)
  PROVE  WakeInv'
<1>1. /\ pc[c] = "commit" /\ kind[c] = "suspend" /\ event[c] \in Event
      /\ log \in Seq(Entry) /\ read[c] = log /\ continuation.status = "none"
      /\ log' = Append(log, Suspended)
      /\ continuation' = [status |-> "suspended", wakesOn |-> event[c].type,
                          checkpoint |-> Len(log)]
      /\ UNCHANGED <<kind, event>> /\ Goto(c, "bump")
  BY DEF SuspendCommit, Commit, At, request, Inv, TypeOK, Requests, ReadIsCurrent,
         StateMatchesLog, CommitIsAllowed
<1>2. /\ DOMAIN log = 1..Len(log) /\ Len(log) \in Nat
      /\ DOMAIN log' = 1..(Len(log) + 1) /\ log'[Len(log) + 1] = Suspended
      /\ \A i \in DOMAIN log : i \in DOMAIN log' /\ log'[i] = log[i]
      /\ \A i \in DOMAIN log' : i \in DOMAIN log \/ i = Len(log) + 1
  BY <1>1, RowsAppend, GeneratedDistinct
<1>3. \A i \in DOMAIN log : log[i] # Suspended
  BY <1>1, UnknownInNoRow DEF Inv, ContinuationIsNew
<1>4. \A d \in Call : Acknowledges(d)' => Acknowledges(d)
  BY <1>1 DEF Acknowledges, Goto, Inv, TypeOK
<1>5. SuspendedOnce' /\ WokenByNews'
  BY <1>1, <1>2, <1>3 DEF SuspendedOnce, WokenByNews
<1>6. AcknowledgedIsKnown'
  <2> SUFFICES ASSUME NEW d \in Call, Acknowledges(d)'
               PROVE  event'[d] \in Event /\ L!Known(L!Entries(log'), event'[d])
    BY DEF AcknowledgedIsKnown, L!Known, L!Entries
  <2> QED
    BY <1>1, <1>4, KnownAppend, GeneratedDistinct DEF WakeInv, AcknowledgedIsKnown
<1>7. NoneMissed'
  <2> SUFFICES ASSUME NEW d \in Call, NEW j \in DOMAIN log',
                      Acknowledges(d)', j > Len(log), log'[j].id = event[d].id
               PROVE  FALSE
    BY <1>1 DEF NoneMissed
  <2>1. log'[j] = Suspended
    BY <1>2
  <2>2. event[d] \in Event
    BY <1>4 DEF WakeInv, AcknowledgedIsKnown
  <2> QED
    BY <2>1, <2>2, GeneratedDistinct
<1> QED
  BY <1>5, <1>6, <1>7 DEF WakeInv

\* The wake: its witness is the row that Wakes found after the checkpoint.
LEMMA DeliverKeepsWake ==
  ASSUME Inv, WakeInv, NEW c \in Call, Deliver(c)
  PROVE  WakeInv'
<1>1. /\ pc[c] \in {"deliver", "deliverDuplicate"} /\ kind[c] = "append" /\ event[c] \in Event
      /\ L!Known(L!Entries(log), event[c])
      /\ log \in Seq(Entry) /\ UNCHANGED <<kind, event>>
  BY DEF Deliver, request, Inv, TypeOK, Requests, Labels, DeliveredIsKnown
<1>2. \A d \in Call : d # c => (Acknowledges(d)' <=> Acknowledges(d))
  BY <1>1 DEF Deliver, Goto, Finish, Inv, TypeOK, Acknowledges
<1>3. CASE ~Wakes(event[c])
  BY <1>1, <1>2, <1>3, QuietKeepsWake DEF Deliver
<1>4. CASE Finish(c, "failed") /\ UNCHANGED <<log, continuation>>
  <2>1. ~Acknowledges(c)'
    BY <1>4 DEF Finish, Inv, TypeOK, Acknowledges
  <2> QED
    BY <1>1, <1>2, <1>4, <2>1, QuietKeepsWake
<1>5. CASE /\ Wakes(event[c]) /\ log' = Append(log, WakePending)
           /\ continuation' = [continuation EXCEPT !.status = "wake_pending"]
  <2>1. /\ continuation.status = "suspended"
        /\ continuation'.status = "wake_pending"
        /\ continuation'.wakesOn = continuation.wakesOn
        /\ continuation'.checkpoint = continuation.checkpoint
        /\ continuation.checkpoint \in Nat
    BY <1>5 DEF Wakes, Inv, TypeOK
  <2>2. /\ DOMAIN log = 1..Len(log) /\ Len(log) \in Nat
        /\ DOMAIN log' = 1..(Len(log) + 1) /\ log'[Len(log) + 1] = WakePending
        /\ \A i \in DOMAIN log : i \in DOMAIN log' /\ log'[i] = log[i]
        /\ \A i \in DOMAIN log' : i \in DOMAIN log \/ i = Len(log) + 1
    BY <1>1, <1>5, RowsAppend, GeneratedDistinct
  <2>3. PICK j \in DOMAIN log :
          /\ log[j].id = event[c].id /\ log[j].type = continuation.wakesOn
          /\ j > continuation.checkpoint
    BY <1>5 DEF Wakes
  <2>4. /\ continuation.checkpoint + 1 \in DOMAIN log
        /\ \A i \in DOMAIN log : log[i] = Suspended <=> i = continuation.checkpoint + 1
    BY <2>1 DEF WakeInv, SuspendedOnce
  <2>5. j # continuation.checkpoint + 1
    BY <1>1, <2>3, <2>4, GeneratedDistinct
  <2>6. SuspendedOnce'
    BY <2>1, <2>2, <2>4, GeneratedDistinct DEF SuspendedOnce
  <2>7. WokenByNews'
    <3> DEFINE i == continuation.checkpoint + 1
    <3>1. i \in DOMAIN log' /\ j \in DOMAIN log' /\ i < j
          /\ log'[i] = Suspended /\ log'[j].type = continuation'.wakesOn
      BY <2>1, <2>2, <2>3, <2>4, <2>5
    <3> QED
      BY <3>1 DEF WokenByNews
  <2>8. AcknowledgedIsKnown'
    <3> SUFFICES ASSUME NEW d \in Call, Acknowledges(d)'
                 PROVE  event'[d] \in Event /\ L!Known(L!Entries(log'), event'[d])
      BY DEF AcknowledgedIsKnown, L!Known, L!Entries
    <3>1. event[d] \in Event /\ L!Known(L!Entries(log), event[d])
      BY <1>1, <1>2 DEF WakeInv, AcknowledgedIsKnown
    <3> QED
      BY <1>1, <1>5, <3>1, KnownAppend, GeneratedDistinct
  <2>9. NoneMissed'
    BY <2>1 DEF NoneMissed
  <2> QED
    BY <2>6, <2>7, <2>8, <2>9 DEF WakeInv
<1> QED
  BY <1>3, <1>4, <1>5 DEF Deliver

LEMMA NextWake == Inv /\ OutcomeAtEnd /\ WakeInv /\ [Next]_vars => WakeInv'
<1> SUFFICES ASSUME Inv, OutcomeAtEnd, WakeInv, [Next]_vars PROVE WakeInv'
  OBVIOUS
<1>1. CASE UNCHANGED vars
  BY <1>1, QuietKeepsWake DEF vars, Acknowledges
<1>2. ASSUME NEW c \in Call, NEW k \in Kind, NEW e \in Event \cup {NoEvent}, Send(c, k, e)
      PROVE  WakeInv'
  <2>1. /\ pc[c] = "unsent" /\ pc' = [pc EXCEPT ![c] = "begin"]
        /\ kind' = [kind EXCEPT ![c] = k] /\ event' = [event EXCEPT ![c] = e]
        /\ UNCHANGED <<log, continuation, outcome>>
    BY <1>2 DEF Send, d1
  <2>2. \A d \in Call : Acknowledges(d)' => event'[d] = event[d] /\ Acknowledges(d)
    BY <2>1 DEF Acknowledges, OutcomeAtEnd, Inv, TypeOK
  <2> QED
    BY <2>1, <2>2, QuietKeepsWake
<1>3. ASSUME NEW c \in Call,
             \/ Create(c) \/ AppendRead(c) \/ SuspendRead(c) \/ SnapshotState(c)
             \/ SnapshotRows(c) \/ Connect(c) \/ BatchFails(c)
      PROVE  WakeInv'
  <2>1. UNCHANGED <<log, continuation, kind, event>>
    BY <1>3 DEF Create, AppendRead, SuspendRead, SnapshotState, SnapshotRows, Connect, BatchFails,
           d1, request
  <2>2. \/ \E label \in {"bump", "commit", "deliverDuplicate", "rows"} :
             Goto(c, label) /\ (label = "bump" => kind[c] = "create")
        \/ \E result \in Outcomes \ {"applied", "duplicate"} : Finish(c, result)
    BY <1>3 DEF Create, AppendRead, SuspendRead, SnapshotState, SnapshotRows, Connect, BatchFails,
           Outcomes
  <2>3. \A d \in Call : Acknowledges(d)' => Acknowledges(d)
    BY <2>1, <2>2 DEF Acknowledges, Goto, Finish, Inv, TypeOK
  <2> QED
    BY <2>1, <2>3, QuietKeepsWake
<1>4. ASSUME NEW c \in Call, AppendCommit(c)
      PROVE  WakeInv'
  <2>1. /\ pc[c] = "commit" /\ kind[c] = "append" /\ event[c] \in Event
        /\ UNCHANGED <<kind, event, continuation>>
    BY <1>4 DEF AppendCommit, At, request, Inv, Requests
  <2>2. \/ \E label \in {"deliver", "deliverDuplicate"} : Goto(c, label)
        \/ Finish(c, "conflict")
    BY <1>4 DEF AppendCommit
  <2>3. \A d \in Call : Acknowledges(d)' => Acknowledges(d)
    BY <2>1, <2>2 DEF Acknowledges, Goto, Finish, Inv, TypeOK
  <2>4. CASE log' = log
    BY <2>1, <2>3, <2>4, QuietKeepsWake
  <2>5. CASE ~Clashes(event[c]) /\ Commit(c, event[c])
    BY <2>1, <2>3, <2>5, AppendKeepsWake DEF Clashes, Commit, Inv
  <2> QED
    BY <1>4, <2>4, <2>5 DEF AppendCommit
<1>5. ASSUME NEW c \in Call, Bump(c)
      PROVE  WakeInv'
  <2>1. /\ pc[c] \in {"bump", "bumpDuplicate"} /\ UNCHANGED <<log, continuation, kind, event>>
        /\ Finish(c, OutcomeAt(c))
    BY <1>5 DEF Bump, d1, request
  <2>2. \A d \in Call : Acknowledges(d)' => Acknowledges(d)
    BY <2>1 DEF Acknowledges, OutcomeAt, Finish, Inv, TypeOK, Labels
  <2> QED
    BY <2>1, <2>2, QuietKeepsWake
<1>6. CASE Crash
  <2>1. /\ UNCHANGED <<log, continuation, kind, event>>
        /\ \A d \in Call :
             \/ pc'[d] = pc[d] /\ outcome'[d] = outcome[d]
             \/ pc'[d] = "done" /\ outcome'[d] = "lost"
    BY <1>6 DEF Crash, d1, request
  <2>2. \A d \in Call : Acknowledges(d)' => Acknowledges(d)
    BY <2>1 DEF Acknowledges
  <2> QED
    BY <2>1, <2>2, QuietKeepsWake
<1> QED
  BY <1>1, <1>2, <1>3, <1>4, <1>5, <1>6, SuspendKeepsWake, DeliverKeepsWake DEF Next, Step

LEMMA WakeInvHolds == Spec => []WakeInv
<1>1. Inv /\ OutcomeAtEnd /\ [Next]_vars => OutcomeAtEnd'
  BY NextMaps
<1> QED
  BY <1>1, InitWake, NextWake, InvHolds, InitOutcome, PTL DEF Spec

\* A continuation is woken only by an event of the type it waits for that was
\* logged after it was suspended: wakeForEvent looks past the checkpoint, so an
\* older event sent again wakes nothing.
THEOREM OnlyNewsWakes == Spec => []WokenByNews
<1>1. WakeInv => WokenByNews
  BY DEF WakeInv
<1> QED
  BY <1>1, WakeInvHolds, PTL

\* Whoever was told that its event is recorded, by the first call or by the retry
\* after a crash, has woken the continuation that waited for it.
THEOREM NoWakeIsMissed == Spec => []AcknowledgedEventHasWoken
<1>1. Inv /\ WakeInv => AcknowledgedEventHasWoken
  <2> SUFFICES ASSUME Inv, WakeInv, NEW c \in Call, NEW i \in DOMAIN log, NEW j \in DOMAIN log,
                      outcome[c] \in {"applied", "duplicate"}, i < j, log[i] = Suspended,
                      log[j].id = event[c].id, log[j].key = event[c].key,
                      log[j].type = continuation.wakesOn,
                      continuation.status = "suspended"
               PROVE  FALSE
    BY DEF AcknowledgedEventHasWoken
  <2>1. i = continuation.checkpoint + 1 /\ continuation.checkpoint \in Nat
    BY DEF WakeInv, SuspendedOnce, Inv, TypeOK
  <2>2. i \in 1..Len(log) /\ j \in 1..Len(log) /\ Len(log) \in Nat
    BY DEF Inv, TypeOK
  <2>3. j > continuation.checkpoint
    BY <2>1, <2>2
  <2> QED
    BY <2>3 DEF WakeInv, NoneMissed, Acknowledges
<1> QED
  BY <1>1, InvHolds, WakeInvHolds, PTL

===============================================================================
