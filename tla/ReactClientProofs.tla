-------------------------- MODULE ReactClientProofs --------------------------
(***************************************************************************)
(* Theorems about the parts of the React client, each for any number of    *)
(* steps and faults: the channel of a session, the hook that compiles      *)
(* plans, the tool calls and the sound of the voice model.                 *)
(*                                                                         *)
(* The channel: of the fetches under way one at most counts, and what it   *)
(* was answered is no older than the view and covers the last pulse.       *)
(***************************************************************************)
EXTENDS SessionChannel, VoiceTools, VoiceMedia, CompileHook, SequenceTheorems,
        FiniteSetTheorems, TLAPS

\* Nothing anybody has seen is ahead of the durable state.
NothingAhead ==
  /\ pulse.version <= durable.version
  /\ lastVersion <= durable.version
  /\ shown.version <= durable.version
  /\ \A i \in DOMAIN inbox : inbox[i].version <= durable.version

\* A revision stands for one pulse, wherever it is.
RevisionsAgree ==
  /\ lastRevision <= pulse.revision
  /\ lastRevision = pulse.revision => lastVersion = pulse.version
  /\ \A i \in DOMAIN inbox :
       /\ inbox[i].revision <= pulse.revision
       /\ inbox[i].revision = pulse.revision => inbox[i].version = pulse.version
       /\ inbox[i].revision = lastRevision => inbox[i].version = lastVersion
  /\ \A i, j \in DOMAIN inbox :
       inbox[i].revision = inbox[j].revision => inbox[i].version = inbox[j].version

\* One fetch at most counts, and its answer may be shown.
GenerationsDiffer ==
  \A f, g \in fetches : f.generation = g.generation => f = g

CurrentAnswer ==
  \A f \in fetches :
    f.generation = generation /\ f.answer # Unserved =>
      f.answer.version >= shown.version /\ f.answer.version >= lastVersion

AnswersDurable ==
  \A f \in fetches : f.answer.version <= durable.version

Inv ==
  /\ TypeOK
  /\ NothingAhead
  /\ AnswersDurable
  /\ RevisionsAgree
  /\ GenerationsDiffer
  /\ CurrentAnswer
  /\ ViewCoversPulse

-------------------------------------------------------------------------------
LEMMA InitInv == Init => Inv
<1> SUFFICES ASSUME Init PROVE Inv
  OBVIOUS
<1> USE BoundsAssumption DEF Init, Fetch
<1>a. pulse \in SyncState /\ pulse.version = 0
  BY DEF SyncState
<1>b. fetches \subseteq [generation : 1..generation, answer : Snapshot \cup {Unserved}]
  BY DEF Snapshot, Unserved
<1>c. durable \in Snapshot /\ shown \in Snapshot \cup {NoSnapshot} /\ inbox \in Seq(SyncState)
  BY DEF Snapshot, NoSnapshot
<1>d. /\ committing \in {"none", "continuation", "other"} /\ socket \in {"closed", "open"}
      /\ status \in {"loading", "connected", "reconnecting", "error"}
      /\ error \in BOOLEAN /\ disposed \in BOOLEAN
  OBVIOUS
<1>e. /\ generation \in Nat /\ lastRevision \in Nat /\ continuation \in Nat
      /\ lastVersion \in Nat /\ failed \in 0..generation
      /\ asks \in 0..MaxAsks /\ failures \in 0..MaxFaults /\ evictions \in 0..MaxFaults
  OBVIOUS
<1>1. TypeOK
  <2> HIDE DEF Init
  <2>. QED BY <1>a, <1>b, <1>c, <1>d, <1>e DEF TypeOK
<1>2. NothingAhead /\ RevisionsAgree
  BY <1>a DEF NothingAhead, RevisionsAgree, NoSnapshot, SyncState
<1>3. GenerationsDiffer /\ CurrentAnswer /\ ViewCoversPulse
  BY DEF GenerationsDiffer, CurrentAnswer, ViewCoversPulse, Fetching
<1>4. AnswersDurable
  BY DEF AnswersDurable, Unserved
<1>. QED BY <1>1, <1>2, <1>3, <1>4 DEF Inv

\* Sending a fetch: it is the one that counts, and it has no answer yet.
LEMMA HydrateKeeps ==
  ASSUME Inv, NEW s \in {"loading", "connected", "reconnecting", "error"}, NEW e \in BOOLEAN,
         Hydrate(s, e), UNCHANGED <<durable, disposed, failed>>
  PROVE  /\ generation' \in Nat
         /\ fetches' \subseteq [generation : 1..generation', answer : Snapshot \cup {Unserved}]
         /\ failed' \in 0..generation'
         /\ status' \in {"loading", "connected", "reconnecting", "error"}
         /\ error' \in BOOLEAN
         /\ GenerationsDiffer'
         /\ CurrentAnswer'
         /\ AnswersDurable'
         /\ ViewCoversPulse'
<1>1. generation' \in Nat /\ generation' = generation + 1 /\ generation \in Nat
  BY DEF Hydrate, Inv, TypeOK
<1>2. /\ status' \in {"loading", "connected", "reconnecting", "error"}
      /\ error' \in BOOLEAN
  BY DEF Hydrate
<1>3. fetches' = fetches \cup {Fetch(generation')}
  BY <1>1 DEF Hydrate
<1>4. \A f \in fetches : f \in [generation : 1..generation, answer : Snapshot \cup {Unserved}]
  BY DEF Inv, TypeOK
<1>5. fetches' \subseteq [generation : 1..generation', answer : Snapshot \cup {Unserved}]
  BY <1>1, <1>3, <1>4 DEF Fetch
<1>6. failed' \in 0..generation'
  BY <1>1 DEF Inv, TypeOK
<1>7. \A f \in fetches : f.generation # generation'
  BY <1>1, <1>4
<1>8. GenerationsDiffer'
  BY <1>3, <1>7 DEF GenerationsDiffer, Inv, Fetch
<1>9. CurrentAnswer'
  BY <1>3, <1>7 DEF CurrentAnswer, Fetch
<1>10. ViewCoversPulse'
  <2>1. Fetch(generation') \in fetches' /\ Fetch(generation').generation = generation'
    BY <1>3 DEF Fetch
  <2>2. Fetching'
    BY <2>1 DEF Fetching
  <2>. QED BY <2>2 DEF ViewCoversPulse
<1>11. AnswersDurable'
  <2>1. durable.version \in Nat
    BY DEF Inv, TypeOK, Snapshot
  <2>. QED BY <1>3, <2>1 DEF Inv, AnswersDurable, Fetch, Unserved
<1>. QED BY <1>1, <1>2, <1>5, <1>6, <1>8, <1>9, <1>10, <1>11

\* An action that only moves the agent, and leaves the client and its fetches alone.
LEMMA CommitInv == ASSUME Inv, NEW what \in {"continuation", "other"}, Commit(what) PROVE Inv'
<1> USE DEF Commit, agent, wire, display, bounds
<1>a. durable \in Snapshot
  BY DEF Inv, TypeOK
<1>1. /\ durable' \in Snapshot /\ durable'.version = durable.version + 1
      /\ durable.version \in Nat
  BY <1>a DEF Snapshot
<1>2. TypeOK'
  BY <1>1 DEF Inv, TypeOK
<1>3. shown.version \in Int /\ lastVersion \in Nat /\ pulse.version \in Nat
      /\ \A i \in DOMAIN inbox : inbox[i].version \in Nat
  <2>1. pulse \in SyncState /\ inbox \in Seq(SyncState) /\ lastVersion \in Nat
        /\ shown \in Snapshot \cup {NoSnapshot}
    BY DEF Inv, TypeOK
  <2>2. \A i \in DOMAIN inbox : inbox[i] \in SyncState
    BY <2>1
  <2>3. shown.version \in Int
    BY <2>1 DEF Snapshot, NoSnapshot
  <2>. QED BY <2>1, <2>2, <2>3 DEF SyncState
<1>4. NothingAhead'
  BY <1>1, <1>3 DEF Inv, NothingAhead
<1>5. RevisionsAgree' /\ GenerationsDiffer' /\ CurrentAnswer' /\ ViewCoversPulse'
  BY DEF Inv, RevisionsAgree, GenerationsDiffer, CurrentAnswer, ViewCoversPulse, Fetching
<1>6. AnswersDurable'
  <2>1. \A f \in fetches : f \in [generation : 1..generation, answer : Snapshot \cup {Unserved}]
    BY DEF Inv, TypeOK
  <2>2. \A f \in fetches : f.answer.version \in Int
    BY <2>1 DEF Snapshot, Unserved
  <2>. QED BY <1>1, <2>2 DEF Inv, AnswersDurable
<1>. QED BY <1>2, <1>4, <1>5, <1>6 DEF Inv

\* A new pulse has a revision of its own and announces the durable state.
LEMMA BroadcastInv ==
  ASSUME Inv, NEW p \in SyncState, Broadcast(p), p.revision > pulse.revision,
         p.version = durable.version, committing' = "none",
         UNCHANGED <<durable, socket, fetches, generation, lastRevision, shown, continuation,
                     status, error, disposed, lastVersion, failed, bounds>>
  PROVE  Inv'
<1> USE DEF bounds
<1>1. pulse' = p /\ inbox \in Seq(SyncState) /\ pulse \in SyncState
      /\ durable \in Snapshot /\ lastRevision \in Nat
  BY DEF Broadcast, Inv, TypeOK
<1>2. inbox' \in Seq(SyncState)
  BY <1>1 DEF Broadcast
<1>3. TypeOK'
  BY <1>1, <1>2 DEF Inv, TypeOK
<1>4. \A i \in DOMAIN inbox' :
        \/ inbox'[i] = p
        \/ i \in DOMAIN inbox /\ inbox'[i] = inbox[i]
  BY <1>1 DEF Broadcast
<1>5. \A i \in DOMAIN inbox : inbox[i] \in SyncState
  BY <1>1
<1>6. NothingAhead'
  <2>1. durable' = durable /\ lastVersion' = lastVersion /\ shown' = shown
        /\ durable.version \in Nat
    BY <1>1 DEF Snapshot
  <2>2. \A i \in DOMAIN inbox' : inbox'[i].version <= durable.version
    BY <1>4, <2>1 DEF Inv, NothingAhead
  <2>. QED BY <1>1, <2>1, <2>2 DEF Inv, NothingAhead
<1>7. RevisionsAgree'
  <2>1. lastRevision' < p.revision
    BY <1>1 DEF Inv, RevisionsAgree, SyncState
  <2>2. \A i \in DOMAIN inbox : inbox[i].revision < p.revision
    BY <1>1, <1>5 DEF Inv, RevisionsAgree, SyncState
  <2>3. lastRevision' <= pulse'.revision /\ lastRevision' # pulse'.revision
    BY <1>1, <2>1 DEF SyncState
  <2>4. \A i \in DOMAIN inbox' :
          /\ inbox'[i].revision <= pulse'.revision
          /\ inbox'[i].revision = pulse'.revision => inbox'[i].version = pulse'.version
          /\ inbox'[i].revision = lastRevision' => inbox'[i].version = lastVersion'
    <3> SUFFICES ASSUME NEW i \in DOMAIN inbox'
                 PROVE  /\ inbox'[i].revision <= pulse'.revision
                        /\ inbox'[i].revision = pulse'.revision => inbox'[i].version = pulse'.version
                        /\ inbox'[i].revision = lastRevision' => inbox'[i].version = lastVersion'
      OBVIOUS
    <3>1. CASE inbox'[i] = p
      BY <1>1, <2>1, <3>1 DEF SyncState
    <3>2. CASE i \in DOMAIN inbox /\ inbox'[i] = inbox[i]
      BY <1>1, <1>5, <2>2, <3>2 DEF Inv, RevisionsAgree, SyncState
    <3>. QED BY <1>4, <3>1, <3>2
  <2>5. ASSUME NEW i \in DOMAIN inbox', NEW j \in DOMAIN inbox',
               inbox'[i].revision = inbox'[j].revision
        PROVE  inbox'[i].version = inbox'[j].version
    <3>1. \A k \in DOMAIN inbox : inbox[k].revision # p.revision
      BY <1>5, <2>2 DEF SyncState
    <3>2. CASE inbox'[i] = p
      BY <1>4, <2>5, <3>1, <3>2
    <3>3. CASE inbox'[j] = p
      BY <1>4, <2>5, <3>1, <3>3
    <3>4. CASE inbox'[i] # p /\ inbox'[j] # p
      BY <1>4, <2>5, <3>4 DEF Inv, RevisionsAgree
    <3>. QED BY <3>2, <3>3, <3>4
  <2>. QED BY <2>3, <2>4, <2>5 DEF RevisionsAgree
<1>8. GenerationsDiffer' /\ CurrentAnswer' /\ AnswersDurable' /\ ViewCoversPulse'
  BY DEF Inv, GenerationsDiffer, CurrentAnswer, AnswersDurable, ViewCoversPulse, Fetching
<1>. QED BY <1>3, <1>6, <1>7, <1>8 DEF Inv

LEMMA BumpInv == Inv /\ (Bump \/ Seed) => Inv'
<1> SUFFICES ASSUME Inv, Bump \/ Seed PROVE Inv'
  OBVIOUS
<1>1. CASE Bump
  <2> DEFINE p == [revision |-> pulse.revision + 1,
                   continuation |-> IF committing = "continuation"
                                    THEN durable.continuation ELSE pulse.continuation,
                   version |-> durable.version]
  <2>1. p \in SyncState /\ p.revision > pulse.revision
    BY DEF Inv, TypeOK, SyncState, Snapshot
  <2>. QED BY <1>1, <2>1, BroadcastInv DEF Bump, display
<1>2. CASE Seed
  <2> DEFINE p == [revision |-> 1, continuation |-> durable.continuation,
                   version |-> durable.version]
  <2>1. p \in SyncState /\ p.revision > pulse.revision
    BY <1>2 DEF Seed, Inv, TypeOK, SyncState, Snapshot
  <2>. QED BY <1>2, <2>1, BroadcastInv DEF Seed, display
<1>. QED BY <1>1, <1>2

\* A fetch is served what is durable now, which covers everything seen so far.
LEMMA ServeInv == ASSUME Inv, NEW f \in fetches, Serve(f) PROVE Inv'
<1> USE DEF Serve, agent, wire, display, bounds
<1> DEFINE served == [f EXCEPT !.answer = durable]
<1>1. f \in [generation : 1..generation, answer : Snapshot \cup {Unserved}]
      /\ durable \in Snapshot
  BY DEF Inv, TypeOK
<1>2. /\ served \in [generation : 1..generation, answer : Snapshot \cup {Unserved}]
      /\ served.generation = f.generation /\ served.answer = durable
  BY <1>1
<1>3. fetches' = (fetches \ {f}) \cup {served}
  OBVIOUS
<1>4. TypeOK'
  BY <1>2, <1>3 DEF Inv, TypeOK
<1>5. NothingAhead' /\ RevisionsAgree'
  BY DEF Inv, NothingAhead, RevisionsAgree
<1>6. GenerationsDiffer'
  BY <1>2, <1>3 DEF Inv, GenerationsDiffer
<1>7. CurrentAnswer'
  <2>1. durable.version >= shown.version /\ durable.version >= lastVersion
    BY <1>1 DEF Inv, NothingAhead, TypeOK, Snapshot, NoSnapshot
  <2>. QED BY <1>2, <1>3, <2>1 DEF Inv, CurrentAnswer
<1>8. ViewCoversPulse'
  BY <1>2, <1>3 DEF Inv, ViewCoversPulse, Fetching
<1>9. AnswersDurable'
  BY <1>1, <1>2, <1>3 DEF Inv, AnswersDurable, Snapshot
<1>. QED BY <1>4, <1>5, <1>6, <1>7, <1>8, <1>9 DEF Inv

\* An answer that counts is at least as new as the view and the last pulse; one that
\* does not leaves the view as it is.
LEMMA AnswerInv ==
  ASSUME Inv, NEW f \in fetches, Answer(f)
  PROVE  Inv' /\ shown'.version >= shown.version
<1>0. /\ fetches' = fetches \ {f}
      /\ UNCHANGED <<durable, committing, pulse, socket, inbox, generation, lastRevision,
                     disposed, lastVersion, failed, asks, failures, evictions>>
  BY DEF Answer, agent, wire, bounds
<1>1. /\ f \in [generation : 1..generation, answer : Snapshot \cup {Unserved}]
      /\ f.answer # Unserved /\ fetches' \subseteq fetches
  BY <1>0 DEF Inv, TypeOK, Answer
<1>2. f.answer \in Snapshot /\ f.answer.continuation \in Nat /\ f.answer.version \in Nat
  BY <1>1 DEF Snapshot
<1>3. shown.version \in Int
  BY DEF Inv, TypeOK, Snapshot, NoSnapshot
<1>4. GenerationsDiffer'
  BY <1>0, <1>1 DEF Inv, GenerationsDiffer
<1>5. CASE Takes(f)
  <2>1. /\ shown' = f.answer /\ continuation' = f.answer.continuation
        /\ status' = "connected" /\ error' = FALSE
    BY <1>5 DEF Answer
  <2>2. f.answer.version >= shown.version /\ f.answer.version >= lastVersion
    BY <1>1, <1>5 DEF Inv, CurrentAnswer, Takes
  <2>3. TypeOK'
    BY <1>0, <1>1, <1>2, <2>1 DEF Inv, TypeOK
  <2>4. NothingAhead'
    <3>1. f.answer.version <= durable.version
      BY <1>1 DEF Inv, AnswersDurable
    <3>. QED BY <1>0, <2>1, <3>1 DEF Inv, NothingAhead
  <2>5. RevisionsAgree'
    BY <1>0 DEF Inv, RevisionsAgree
  <2>6. CurrentAnswer'
    BY <1>0, <1>5 DEF Inv, GenerationsDiffer, CurrentAnswer, Takes
  <2>7. ViewCoversPulse'
    BY <1>0, <2>1, <2>2 DEF ViewCoversPulse
  <2>8. AnswersDurable'
    BY <1>0 DEF Inv, AnswersDurable
  <2>. QED BY <1>4, <2>1, <2>2, <2>3, <2>4, <2>5, <2>6, <2>7, <2>8 DEF Inv
<1>6. CASE ~Takes(f)
  <2>1. UNCHANGED <<shown, continuation, status, error>>
    BY <1>6 DEF Answer
  <2>2. TypeOK'
    BY <1>0, <1>1, <2>1 DEF Inv, TypeOK
  <2>3. NothingAhead' /\ RevisionsAgree' /\ AnswersDurable'
    BY <1>0, <2>1 DEF Inv, NothingAhead, RevisionsAgree, AnswersDurable
  <2>4. CurrentAnswer'
    BY <1>0, <2>1 DEF Inv, CurrentAnswer
  <2>5. ViewCoversPulse'
    <3>1. ~disposed => f.generation # generation
      BY <1>6 DEF Takes
    <3>2. ~disposed /\ Fetching => Fetching'
      BY <1>0, <3>1 DEF Fetching
    <3>. QED BY <1>0, <2>1, <3>2 DEF Inv, ViewCoversPulse
  <2>. QED BY <1>3, <1>4, <2>1, <2>2, <2>3, <2>4, <2>5 DEF Inv
<1>. QED BY <1>5, <1>6

LEMMA FailInv == ASSUME Inv, NEW f \in fetches, Fail(f) PROVE Inv'
<1>0. /\ fetches' = fetches \ {f}
      /\ failures + evictions < MaxFaults /\ failures' = failures + 1
      /\ UNCHANGED <<durable, committing, pulse, socket, inbox, generation, lastRevision,
                     shown, continuation, disposed, lastVersion, asks, evictions>>
      /\ \/ Takes(f) /\ status' = "error" /\ error' = TRUE /\ failed' = generation
         \/ ~Takes(f) /\ UNCHANGED <<status, error, failed>>
  BY DEF Fail, agent, wire, display
<1>1. fetches' \subseteq fetches
  BY <1>0
<1>2. TypeOK'
  <2>1. /\ failures \in 0..MaxFaults /\ evictions \in 0..MaxFaults
        /\ generation \in Nat /\ failed \in 0..generation
    BY DEF Inv, TypeOK
  <2>2. failures' \in 0..MaxFaults
    BY <1>0, <2>1, BoundsAssumption
  <2>3. /\ failed' \in 0..generation'
    BY <1>0, <2>1
  <2>4. /\ status' \in {"loading", "connected", "reconnecting", "error"}
        /\ error' \in BOOLEAN
    BY <1>0 DEF Inv, TypeOK
  <2>. QED BY <1>0, <1>1, <2>2, <2>3, <2>4 DEF Inv, TypeOK
<1>3. NothingAhead' /\ RevisionsAgree' /\ AnswersDurable' /\ GenerationsDiffer' /\ CurrentAnswer'
  BY <1>0 DEF Inv, NothingAhead, RevisionsAgree, AnswersDurable, GenerationsDiffer, CurrentAnswer
<1>4. ViewCoversPulse'
  <2>1. CASE Takes(f)
    BY <1>0, <2>1 DEF ViewCoversPulse
  <2>2. CASE ~Takes(f)
    <3>1. ~disposed /\ Fetching => Fetching'
      BY <1>0, <2>2 DEF Fetching, Takes
    <3>. QED BY <1>0, <2>2, <3>1 DEF Inv, ViewCoversPulse
  <2>. QED BY <2>1, <2>2
<1>. QED BY <1>2, <1>3, <1>4 DEF Inv

\* A pulse of a higher revision sends a fetch; one of the revision seen last announces
\* nothing new; an older one is ignored.
LEMMA ReceiveInv == ASSUME Inv, Receive PROVE Inv'
<1> DEFINE p == Head(inbox)
<1>0. /\ inbox # <<>> /\ inbox' = Tail(inbox)
      /\ UNCHANGED <<durable, committing, pulse, socket, shown, disposed, failed,
                     asks, failures, evictions>>
  BY DEF Receive, agent, bounds
<1>1. inbox \in Seq(SyncState) /\ pulse \in SyncState
  BY DEF Inv, TypeOK
<1>2. p \in SyncState /\ 1 \in DOMAIN inbox /\ p = inbox[1] /\ inbox' \in Seq(SyncState)
  BY <1>0, <1>1
<1>3. \A i \in DOMAIN inbox' : i + 1 \in DOMAIN inbox /\ inbox'[i] = inbox[i + 1]
  BY <1>0, <1>1
<1>4. \A i, j \in DOMAIN inbox' :
        inbox'[i].revision = inbox'[j].revision => inbox'[i].version = inbox'[j].version
  BY <1>3 DEF Inv, RevisionsAgree
<1>5. \A i \in DOMAIN inbox' :
        /\ inbox'[i].version <= durable.version
        /\ inbox'[i].revision <= pulse.revision
        /\ inbox'[i].revision = pulse.revision => inbox'[i].version = pulse.version
        /\ inbox'[i].revision = lastRevision => inbox'[i].version = lastVersion
        /\ inbox'[i].revision = p.revision => inbox'[i].version = p.version
  BY <1>2, <1>3 DEF Inv, NothingAhead, RevisionsAgree
<1>6. p.version \in Nat /\ p.revision \in Nat /\ p.continuation \in Nat
  BY <1>2 DEF SyncState
<1>7. StatusAfterPulse \in {"loading", "connected"}
  BY DEF StatusAfterPulse
<1> DEFINE Ignored ==
             UNCHANGED <<lastRevision, lastVersion, continuation, status, error, generation, fetches>>
           Applied ==
             /\ p.revision >= lastRevision
             /\ lastRevision' = p.revision /\ lastVersion' = p.version
             /\ continuation' = p.continuation
             /\ \/ Hydrate(StatusAfterPulse, FALSE)
                \/ ~(p.revision > lastRevision) /\ NoHydrate(StatusAfterPulse, FALSE)
<1>8. Ignored \/ Applied
  BY DEF Receive, NoHydrate
<1>9. CASE Ignored
  <2>1. UNCHANGED <<lastRevision, lastVersion, continuation, status, error, generation, fetches>>
    BY <1>9
  <2>2. TypeOK'
    BY <1>0, <1>2, <2>1 DEF Inv, TypeOK
  <2>3. NothingAhead'
    BY <1>0, <1>5, <2>1 DEF Inv, NothingAhead
  <2>4. RevisionsAgree'
    BY <1>0, <1>4, <1>5, <2>1 DEF Inv, RevisionsAgree
  <2>5. AnswersDurable' /\ GenerationsDiffer' /\ CurrentAnswer' /\ ViewCoversPulse'
    BY <1>0, <2>1 DEF Inv, AnswersDurable, GenerationsDiffer, CurrentAnswer, ViewCoversPulse, Fetching
  <2>. QED BY <2>2, <2>3, <2>4, <2>5 DEF Inv
<1>10. CASE Applied
  <2>1. /\ lastRevision' = p.revision /\ lastVersion' = p.version
        /\ continuation' = p.continuation
    BY <1>10
  <2>2. NothingAhead'
    BY <1>0, <1>2, <1>5, <2>1 DEF Inv, NothingAhead
  <2>3. RevisionsAgree'
    <3>1. p.revision <= pulse.revision /\ (p.revision = pulse.revision => p.version = pulse.version)
      BY <1>2 DEF Inv, RevisionsAgree
    <3>. QED BY <1>0, <1>4, <1>5, <2>1, <3>1 DEF RevisionsAgree
  <2>4. CASE Hydrate(StatusAfterPulse, FALSE)
    <3>1. /\ generation' \in Nat
          /\ fetches' \subseteq [generation : 1..generation', answer : Snapshot \cup {Unserved}]
          /\ failed' \in 0..generation'
          /\ status' \in {"loading", "connected", "reconnecting", "error"}
          /\ error' \in BOOLEAN
          /\ GenerationsDiffer' /\ CurrentAnswer' /\ AnswersDurable' /\ ViewCoversPulse'
      BY <1>0, <1>7, <2>4, HydrateKeeps
    <3>2. TypeOK'
      BY <1>0, <1>2, <1>6, <2>1, <3>1 DEF Inv, TypeOK
    <3>. QED BY <2>2, <2>3, <3>1, <3>2 DEF Inv
  <2>5. CASE ~(p.revision > lastRevision) /\ NoHydrate(StatusAfterPulse, FALSE)
    <3>1. status' = StatusAfterPulse /\ error' = FALSE /\ UNCHANGED <<generation, fetches>>
      BY <2>5 DEF NoHydrate
    <3>2. lastVersion' = lastVersion
      BY <1>2, <1>6, <1>10, <2>1, <2>5 DEF Inv, RevisionsAgree, TypeOK
    <3>3. TypeOK'
      BY <1>0, <1>2, <1>6, <1>7, <2>1, <3>1 DEF Inv, TypeOK
    <3>4. AnswersDurable' /\ GenerationsDiffer' /\ CurrentAnswer' /\ ViewCoversPulse'
      BY <1>0, <3>1, <3>2
         DEF Inv, AnswersDurable, GenerationsDiffer, CurrentAnswer, ViewCoversPulse, Fetching
    <3>. QED BY <2>2, <2>3, <3>3, <3>4 DEF Inv
  <2>. QED BY <1>10, <2>4, <2>5
<1>. QED BY <1>8, <1>9, <1>10

\* The socket opens on the pulse the agent holds, and the view is fetched again.
LEMMA OpenInv == ASSUME Inv, Open PROVE Inv'
<1>0. /\ inbox' = <<pulse>> /\ socket' = "open" /\ asks < MaxAsks /\ asks' = asks + 1
      /\ Hydrate("connected", error)
      /\ UNCHANGED <<durable, committing, pulse, lastRevision, shown, continuation, disposed,
                     lastVersion, failed, failures, evictions>>
  BY DEF Open, agent, display
<1>1. /\ pulse \in SyncState /\ error \in BOOLEAN /\ asks' \in 0..MaxAsks
  BY <1>0, BoundsAssumption DEF Inv, TypeOK
<1>2. /\ inbox' \in Seq(SyncState)
      /\ \A i \in DOMAIN inbox' : inbox'[i] = pulse
  BY <1>0, <1>1
<1>3. /\ generation' \in Nat
      /\ fetches' \subseteq [generation : 1..generation', answer : Snapshot \cup {Unserved}]
      /\ failed' \in 0..generation'
      /\ status' \in {"loading", "connected", "reconnecting", "error"}
      /\ error' \in BOOLEAN
      /\ GenerationsDiffer' /\ CurrentAnswer' /\ AnswersDurable' /\ ViewCoversPulse'
  BY <1>0, <1>1, HydrateKeeps
<1>4. TypeOK'
  BY <1>0, <1>1, <1>2, <1>3 DEF Inv, TypeOK
<1>5. NothingAhead'
  BY <1>0, <1>2 DEF Inv, NothingAhead
<1>6. RevisionsAgree'
  <2>1. pulse.revision <= pulse.revision
    BY <1>1 DEF SyncState
  <2>. QED BY <1>0, <1>2, <2>1 DEF Inv, RevisionsAgree
<1>. QED BY <1>3, <1>4, <1>5, <1>6 DEF Inv

LEMMA RefetchInv == ASSUME Inv, Refetch PROVE Inv'
<1>0. /\ asks < MaxAsks /\ asks' = asks + 1 /\ Hydrate(status, error)
      /\ UNCHANGED <<durable, committing, pulse, socket, inbox, lastRevision, shown, continuation,
                     disposed, lastVersion, failed, failures, evictions>>
  BY DEF Refetch, agent, wire, display
<1>1. /\ status \in {"loading", "connected", "reconnecting", "error"}
      /\ error \in BOOLEAN /\ asks' \in 0..MaxAsks
  BY <1>0, BoundsAssumption DEF Inv, TypeOK
<1>2. /\ generation' \in Nat
      /\ fetches' \subseteq [generation : 1..generation', answer : Snapshot \cup {Unserved}]
      /\ failed' \in 0..generation'
      /\ status' \in {"loading", "connected", "reconnecting", "error"}
      /\ error' \in BOOLEAN
      /\ GenerationsDiffer' /\ CurrentAnswer' /\ AnswersDurable' /\ ViewCoversPulse'
  BY <1>0, <1>1, HydrateKeeps
<1>3. TypeOK'
  BY <1>0, <1>1, <1>2 DEF Inv, TypeOK
<1>4. NothingAhead' /\ RevisionsAgree'
  BY <1>0 DEF Inv, NothingAhead, RevisionsAgree
<1>. QED BY <1>2, <1>3, <1>4 DEF Inv

\* What loses the socket, the agent or the channel loses pulses and fetches at most.
LEMMA CloseInv ==
  ASSUME Inv, Close \/ ConnectionError \/ Dispose \/ Evict
  PROVE  Inv'
<1>0. UNCHANGED <<durable, pulse, generation, lastRevision, shown, continuation,
                  lastVersion, failed, asks, failures>>
  BY DEF Close, ConnectionError, Dispose, Evict, agent, wire, display, bounds
<1>1. /\ inbox' = <<>> \/ inbox' = inbox
      /\ (fetches' = {} /\ disposed') \/ (fetches' = fetches /\ disposed' = disposed)
  BY DEF Close, ConnectionError, Dispose, Evict, agent, wire, display, bounds
<1>2. TypeOK'
  <2>1. /\ socket' \in {"closed", "open"}
        /\ status' \in {"loading", "connected", "reconnecting", "error"}
        /\ error' \in BOOLEAN /\ disposed' \in BOOLEAN
        /\ committing' \in {"none", "continuation", "other"}
    BY DEF Close, ConnectionError, Dispose, Evict, agent, wire, display, bounds, Inv, TypeOK
  <2>2. evictions' \in 0..MaxFaults
    <3>1. CASE Evict
      BY <3>1, BoundsAssumption DEF Evict, Inv, TypeOK
    <3>2. CASE Close \/ ConnectionError \/ Dispose
      BY <3>2 DEF Close, ConnectionError, Dispose, bounds, Inv, TypeOK
    <3>. QED BY <3>1, <3>2
  <2>3. inbox' \in Seq(SyncState)
    <3>1. inbox \in Seq(SyncState) /\ <<>> \in Seq(SyncState)
      BY DEF Inv, TypeOK
    <3>. QED BY <1>1, <3>1
  <2>. QED BY <1>0, <1>1, <2>1, <2>2, <2>3 DEF Inv, TypeOK
<1>3. NothingAhead' /\ RevisionsAgree'
  BY <1>0, <1>1 DEF Inv, NothingAhead, RevisionsAgree
<1>4. AnswersDurable' /\ GenerationsDiffer' /\ CurrentAnswer' /\ ViewCoversPulse'
  BY <1>0, <1>1 DEF Inv, AnswersDurable, GenerationsDiffer, CurrentAnswer, ViewCoversPulse, Fetching
<1>. QED BY <1>2, <1>3, <1>4 DEF Inv

LEMMA NextInv == Inv /\ [Next]_vars => Inv'
<1> SUFFICES ASSUME Inv, [Next]_vars PROVE Inv'
  OBVIOUS
<1>1. CASE UNCHANGED vars
  BY <1>1 DEF vars, Inv, TypeOK, NothingAhead, RevisionsAgree, AnswersDurable,
              GenerationsDiffer, CurrentAnswer, ViewCoversPulse, Fetching
<1>2. CASE Next
  BY <1>2, CommitInv, BumpInv, ServeInv, AnswerInv, FailInv, ReceiveInv, OpenInv, RefetchInv,
     CloseInv DEF Next
<1>. QED BY <1>1, <1>2

LEMMA InvHolds == Spec => []Inv
BY InitInv, NextInv, PTL DEF Spec

\* Every state is of its type: the channel's counters, and the pulses and fetches under way.
THEOREM TypeCorrect == Spec => []TypeOK
<1>1. Inv => TypeOK
  BY DEF Inv
<1>. QED BY <1>1, InvHolds, PTL

\* Unless its last fetch failed, a channel that waits for no fetch shows all that the
\* last pulse applied by applyPulse announced.
THEOREM EveryPulseCovered == Spec => []ViewCoversPulse
<1>1. Inv => ViewCoversPulse
  BY DEF Inv
<1>. QED BY <1>1, InvHolds, PTL

\* No step replaces the view by an older one: hydrateGeneration drops the answers that
\* were overtaken, and the one it lets through was served after the view was.
THEOREM ViewOnlyAdvances == Spec => ViewNeverRegresses
<1>1. Inv /\ [Next]_vars => [shown'.version >= shown.version]_vars
  <2> SUFFICES ASSUME Inv, Next PROVE shown'.version >= shown.version
    OBVIOUS
  <2>1. CASE \E f \in fetches : Answer(f)
    BY <2>1, AnswerInv
  <2>2. CASE ~ \E f \in fetches : Answer(f)
    <3>1. shown.version \in Int
      BY DEF Inv, TypeOK, Snapshot, NoSnapshot
    <3>2. shown' = shown
      BY <2>2 DEF Next, Commit, Bump, Evict, Seed, Serve, Fail, Receive, Open, Close,
                  ConnectionError, Refetch, Dispose, display
    <3>. QED BY <3>1, <3>2
  <2>. QED BY <2>1, <2>2
<1>. QED BY <1>1, InvHolds, PTL DEF Spec, ViewNeverRegresses

-------------------------------------------------------------------------------
\* The channel, once all is quiet.

\* Without an eviction the pulse is behind the durable state only while the method
\* that changed it has not sent its own.
PulseIsCurrent ==
  evictions = 0 =>
    /\ committing # "continuation" => pulse.continuation = durable.continuation
    /\ committing = "none" => pulse.version = durable.version

\* What was fetched of the present version is the durable state.
OneSnapshotPerVersion ==
  /\ shown.version = durable.version => shown = durable
  /\ \A f \in fetches : f.answer.version = durable.version => f.answer = durable

\* The last pulse sent is the last in an open socket, or has been applied.
LastPulseReaches ==
  socket = "open" =>
    /\ ~disposed
    /\ inbox = <<>> => lastRevision = pulse.revision
    /\ inbox # <<>> => inbox[Len(inbox)] = pulse

PulsesAgree ==
  \A i \in DOMAIN inbox : inbox[i].revision = pulse.revision => inbox[i] = pulse

\* The continuation comes with the view, or with the last pulse when that pulse had no
\* news of the view.
ContinuationFollows ==
  ~Fetching /\ failed # generation /\ ~disposed /\ lastRevision = pulse.revision =>
    continuation \in {shown.continuation, pulse.continuation}

QuietInv ==
  /\ PulseIsCurrent
  /\ OneSnapshotPerVersion
  /\ LastPulseReaches
  /\ PulsesAgree
  /\ ContinuationFollows

LEMMA InitQuiet == Init => QuietInv
<1> SUFFICES ASSUME Init PROVE QuietInv
  OBVIOUS
<1> USE DEF Init, Fetch
<1>1. PulseIsCurrent /\ LastPulseReaches /\ PulsesAgree /\ ContinuationFollows
  BY DEF PulseIsCurrent, LastPulseReaches, PulsesAgree, ContinuationFollows, Fetching
<1>2. OneSnapshotPerVersion
  BY DEF OneSnapshotPerVersion, NoSnapshot, Unserved
<1>. QED BY <1>1, <1>2 DEF QuietInv

\* A change makes every snapshot there is an older one.
LEMMA CommitQuiet ==
  ASSUME Inv, QuietInv, NEW what \in {"continuation", "other"}, Commit(what)
  PROVE  QuietInv'
<1>1. /\ UNCHANGED <<pulse, socket, inbox, fetches, generation, lastRevision, shown,
                     continuation, disposed, lastVersion, failed, evictions>>
      /\ committing = "none" /\ committing' = what
      /\ durable' = [version |-> durable.version + 1,
                     continuation |-> IF what = "continuation" THEN durable.version + 1
                                      ELSE durable.continuation]
  BY DEF Commit, wire, display, bounds
<1>2. /\ durable'.version = durable.version + 1 /\ durable.version \in Nat
      /\ what = "other" => durable'.continuation = durable.continuation
  BY <1>1 DEF Inv, TypeOK, Snapshot
<1>3. PulseIsCurrent'
  BY <1>1, <1>2 DEF QuietInv, PulseIsCurrent
<1>4. OneSnapshotPerVersion'
  <2>1. shown'.version # durable'.version
    BY <1>1, <1>2 DEF Inv, NothingAhead, TypeOK, Snapshot, NoSnapshot
  <2>2. \A f \in fetches : f.answer.version \in Int
    BY DEF Inv, TypeOK, Snapshot, Unserved
  <2>3. \A f \in fetches' : f.answer.version # durable'.version
    BY <1>1, <1>2, <2>2 DEF Inv, AnswersDurable
  <2>. QED BY <2>1, <2>3 DEF OneSnapshotPerVersion
<1>5. LastPulseReaches' /\ PulsesAgree' /\ ContinuationFollows'
  BY <1>1 DEF QuietInv, LastPulseReaches, PulsesAgree, ContinuationFollows, Fetching
<1>. QED BY <1>3, <1>4, <1>5 DEF QuietInv

\* A new pulse is the last one in the socket, if it is open.
LEMMA BroadcastQuiet ==
  ASSUME Inv, QuietInv, NEW p \in SyncState, Broadcast(p), p.revision > pulse.revision,
         p.version = durable.version, committing' = "none",
         evictions = 0 => p.continuation = durable.continuation,
         UNCHANGED <<durable, socket, fetches, generation, lastRevision, shown, continuation,
                     disposed, lastVersion, failed, evictions>>
  PROVE  QuietInv'
<1>1. pulse' = p /\ inbox \in Seq(SyncState) /\ pulse \in SyncState
      /\ lastRevision \in Nat /\ lastRevision < p.revision /\ p.revision \in Nat
  BY DEF Broadcast, Inv, TypeOK, RevisionsAgree, SyncState
<1>2. PulseIsCurrent'
  BY <1>1 DEF PulseIsCurrent
<1>3. OneSnapshotPerVersion'
  BY DEF QuietInv, OneSnapshotPerVersion
<1>4. LastPulseReaches'
  <2> SUFFICES ASSUME socket = "open"
               PROVE  ~disposed /\ inbox' # <<>> /\ inbox'[Len(inbox')] = p
    BY <1>1 DEF LastPulseReaches
  <2>1. inbox' = Append(inbox, p)
    BY DEF Broadcast
  <2>. QED BY <1>1, <2>1 DEF QuietInv, LastPulseReaches
<1>5. PulsesAgree'
  <2>1. \A i \in DOMAIN inbox' : inbox'[i] = p \/ (i \in DOMAIN inbox /\ inbox'[i] = inbox[i])
    BY <1>1 DEF Broadcast
  <2>2. \A i \in DOMAIN inbox : inbox[i] \in SyncState /\ inbox[i].revision <= pulse.revision
    BY <1>1 DEF Inv, RevisionsAgree
  <2>3. \A i \in DOMAIN inbox : inbox[i].revision # p.revision
    BY <1>1, <2>2 DEF SyncState
  <2>. QED BY <1>1, <2>1, <2>3 DEF PulsesAgree
<1>6. ContinuationFollows'
  BY <1>1 DEF ContinuationFollows
<1>. QED BY <1>2, <1>3, <1>4, <1>5, <1>6 DEF QuietInv

LEMMA BumpQuiet == ASSUME Inv, QuietInv, Bump \/ Seed PROVE QuietInv'
<1>1. CASE Bump
  <2> DEFINE p == [revision |-> pulse.revision + 1,
                   continuation |-> IF committing = "continuation"
                                    THEN durable.continuation ELSE pulse.continuation,
                   version |-> durable.version]
  <2>1. p \in SyncState /\ p.revision > pulse.revision /\ p.version = durable.version
    BY DEF Inv, TypeOK, SyncState, Snapshot
  <2>2. evictions = 0 => p.continuation = durable.continuation
    BY DEF QuietInv, PulseIsCurrent
  <2>3. Broadcast(p) /\ committing' = "none"
        /\ UNCHANGED <<durable, socket, fetches, generation, lastRevision, shown, continuation,
                       disposed, lastVersion, failed, evictions>>
    BY <1>1 DEF Bump, display, bounds
  <2> HIDE DEF p
  <2>. QED BY <2>1, <2>2, <2>3, BroadcastQuiet
<1>2. CASE Seed
  <2> DEFINE p == [revision |-> 1, continuation |-> durable.continuation,
                   version |-> durable.version]
  <2>1. p \in SyncState /\ p.revision > pulse.revision
        /\ p.version = durable.version /\ p.continuation = durable.continuation
    BY <1>2 DEF Seed, Inv, TypeOK, SyncState, Snapshot
  <2>2. Broadcast(p) /\ committing' = "none"
        /\ UNCHANGED <<durable, socket, fetches, generation, lastRevision, shown, continuation,
                       disposed, lastVersion, failed, evictions>>
    BY <1>2 DEF Seed, display, bounds
  <2> HIDE DEF p
  <2>. QED BY <2>1, <2>2, BroadcastQuiet
<1>. QED BY <1>1, <1>2

LEMMA ServeQuiet == ASSUME Inv, QuietInv, NEW f \in fetches, Serve(f) PROVE QuietInv'
<1> DEFINE served == [f EXCEPT !.answer = durable]
<1>1. /\ fetches' = (fetches \ {f}) \cup {served}
      /\ UNCHANGED <<durable, committing, pulse, socket, inbox, generation, lastRevision, shown,
                     continuation, disposed, lastVersion, failed, evictions>>
  BY DEF Serve, agent, wire, display, bounds
<1>2. served.generation = f.generation /\ served.answer = durable
  BY DEF Inv, TypeOK
<1>3. PulseIsCurrent' /\ LastPulseReaches' /\ PulsesAgree'
  BY <1>1 DEF QuietInv, PulseIsCurrent, LastPulseReaches, PulsesAgree
<1>4. OneSnapshotPerVersion'
  BY <1>1, <1>2 DEF QuietInv, OneSnapshotPerVersion
<1>5. Fetching => Fetching'
  BY <1>1, <1>2 DEF Fetching
<1>6. ContinuationFollows'
  BY <1>1, <1>5 DEF QuietInv, ContinuationFollows
<1>. QED BY <1>3, <1>4, <1>6 DEF QuietInv

\* The answer that counts brings the view and the continuation together.
LEMMA AnswerQuiet == ASSUME Inv, QuietInv, NEW f \in fetches, Answer(f) PROVE QuietInv'
<1>1. /\ fetches' = fetches \ {f}
      /\ UNCHANGED <<durable, committing, pulse, socket, inbox, generation, lastRevision,
                     disposed, lastVersion, failed, evictions>>
      /\ \/ Takes(f) /\ shown' = f.answer /\ continuation' = f.answer.continuation
         \/ ~Takes(f) /\ UNCHANGED <<shown, continuation>>
  BY DEF Answer, agent, wire, bounds
<1>2. PulseIsCurrent' /\ LastPulseReaches' /\ PulsesAgree'
  BY <1>1 DEF QuietInv, PulseIsCurrent, LastPulseReaches, PulsesAgree
<1>3. OneSnapshotPerVersion'
  BY <1>1 DEF QuietInv, OneSnapshotPerVersion
<1>4. ContinuationFollows'
  <2>1. CASE Takes(f)
    BY <1>1, <2>1 DEF ContinuationFollows, Takes
  <2>2. CASE ~Takes(f)
    <3>1. ~disposed /\ Fetching => Fetching'
      BY <1>1, <2>2 DEF Fetching, Takes
    <3>2. UNCHANGED <<shown, continuation>>
      BY <1>1, <2>2
    <3>. QED BY <1>1, <3>1, <3>2 DEF QuietInv, ContinuationFollows
  <2>. QED BY <2>1, <2>2
<1>. QED BY <1>2, <1>3, <1>4 DEF QuietInv

LEMMA FailQuiet == ASSUME Inv, QuietInv, NEW f \in fetches, Fail(f) PROVE QuietInv'
<1>1. /\ fetches' = fetches \ {f}
      /\ UNCHANGED <<durable, committing, pulse, socket, inbox, generation, lastRevision,
                     shown, continuation, disposed, lastVersion, evictions>>
      /\ \/ Takes(f) /\ failed' = generation
         \/ ~Takes(f) /\ failed' = failed
  BY DEF Fail, agent, wire, display
<1>2. PulseIsCurrent' /\ LastPulseReaches' /\ PulsesAgree' /\ OneSnapshotPerVersion'
  BY <1>1 DEF QuietInv, PulseIsCurrent, LastPulseReaches, PulsesAgree, OneSnapshotPerVersion
<1>3. ContinuationFollows'
  <2>1. CASE Takes(f)
    BY <1>1, <2>1 DEF ContinuationFollows
  <2>2. CASE ~Takes(f)
    <3>1. ~disposed /\ Fetching => Fetching'
      BY <1>1, <2>2 DEF Fetching, Takes
    <3>2. failed' = failed
      BY <1>1, <2>2
    <3>. QED BY <1>1, <3>1, <3>2 DEF QuietInv, ContinuationFollows
  <2>. QED BY <2>1, <2>2
<1>. QED BY <1>2, <1>3 DEF QuietInv

\* The fetch that hydrateHttp sends is under way, and has no answer.
LEMMA HydrateFetches ==
  ASSUME NEW s, NEW e, Hydrate(s, e)
  PROVE  Fetching' /\ \A f \in fetches' : f \in fetches \/ f.answer = Unserved
<1>1. generation' = generation + 1 /\ fetches' = fetches \cup {Fetch(generation')}
  BY DEF Hydrate
<1>2. Fetch(generation').generation = generation' /\ Fetch(generation').answer = Unserved
  BY DEF Fetch
<1>. QED BY <1>1, <1>2 DEF Fetching

\* The last pulse of an open socket is applied, for none is newer.
LEMMA ReceiveQuiet == ASSUME Inv, QuietInv, Receive PROVE QuietInv'
<1> DEFINE p == Head(inbox)
<1>1. /\ inbox # <<>> /\ inbox' = Tail(inbox) /\ socket = "open"
      /\ UNCHANGED <<durable, committing, pulse, socket, shown, disposed, failed, evictions>>
  BY DEF Receive, agent, bounds
<1>2. inbox \in Seq(SyncState) /\ pulse \in SyncState /\ lastRevision \in Nat /\ ~disposed
      /\ durable.version \in Nat
  BY <1>1 DEF Inv, TypeOK, QuietInv, LastPulseReaches, Snapshot
<1>3. p \in SyncState /\ p = inbox[1] /\ 1 \in DOMAIN inbox /\ Len(inbox) \in Nat
  BY <1>1, <1>2
<1>4. /\ \A i \in DOMAIN inbox' : i + 1 \in DOMAIN inbox /\ inbox'[i] = inbox[i + 1]
      /\ inbox' = <<>> => Len(inbox) = 1
      /\ inbox' # <<>> => inbox'[Len(inbox')] = inbox[Len(inbox)]
  <2>1. Len(inbox') = Len(inbox) - 1 /\ Len(inbox) \in Nat /\ Len(inbox) >= 1
        /\ DOMAIN inbox' = 1..Len(inbox') /\ DOMAIN inbox = 1..Len(inbox)
        /\ \A i \in 1..(Len(inbox) - 1) : inbox'[i] = inbox[i + 1]
    BY <1>1, <1>2
  <2>2. inbox' = <<>> => Len(inbox') = 0
    OBVIOUS
  <2>3. inbox' # <<>> => Len(inbox') # 0
    BY <1>1, <1>2
  <2>. QED BY <2>1, <2>2, <2>3
<1>5. p.revision \in Nat /\ p.revision <= pulse.revision
      /\ (p.revision = pulse.revision => p = pulse)
  BY <1>3 DEF SyncState, Inv, RevisionsAgree, QuietInv, PulsesAgree
<1>6. \/ /\ p.revision < lastRevision
         /\ UNCHANGED <<lastRevision, continuation, generation, fetches>>
      \/ /\ p.revision >= lastRevision
         /\ lastRevision' = p.revision /\ continuation' = p.continuation
         /\ \/ \E s, e : Hydrate(s, e)
            \/ UNCHANGED <<generation, fetches>>
  BY <1>2 DEF Receive, NoHydrate
<1>7. PulseIsCurrent' /\ PulsesAgree'
  BY <1>1, <1>4 DEF QuietInv, PulseIsCurrent, PulsesAgree
<1>8. OneSnapshotPerVersion'
  <2>1. \A f \in fetches' : f \in fetches \/ f.answer = Unserved
    BY <1>6, HydrateFetches
  <2>. QED BY <1>1, <1>2, <2>1 DEF QuietInv, OneSnapshotPerVersion, Unserved
<1>9. LastPulseReaches'
  <2>1. inbox[Len(inbox)] = pulse
    BY <1>1 DEF QuietInv, LastPulseReaches
  <2>2. inbox' = <<>> => lastRevision' = pulse.revision
    <3>1. lastRevision <= pulse.revision /\ pulse.revision \in Nat
      BY <1>2 DEF Inv, RevisionsAgree, SyncState
    <3>2. inbox' = <<>> => p = pulse
      BY <1>3, <1>4, <2>1
    <3>3. inbox' = <<>> => ~(p.revision < lastRevision)
      BY <1>2, <3>1, <3>2
    <3>. QED BY <1>6, <3>2, <3>3
  <2>. QED BY <1>1, <1>2, <1>4, <2>1, <2>2 DEF LastPulseReaches
<1>10. ContinuationFollows'
  <2>1. CASE p.revision < lastRevision
    <3>1. UNCHANGED <<lastRevision, continuation, generation, fetches>>
      BY <1>2, <1>5, <1>6, <2>1
    <3>. QED BY <1>1, <3>1 DEF QuietInv, ContinuationFollows, Fetching
  <2>2. CASE \E s, e : Hydrate(s, e)
    BY <2>2, HydrateFetches DEF ContinuationFollows
  <2>3. CASE lastRevision' = p.revision /\ continuation' = p.continuation
    BY <1>1, <1>5, <2>3 DEF ContinuationFollows
  <2>. QED BY <1>6, <2>1, <2>2, <2>3
<1>. QED BY <1>7, <1>8, <1>9, <1>10 DEF QuietInv

\* The steps that send a fetch and leave the agent and the display alone.
LEMMA AskQuiet == ASSUME Inv, QuietInv, Open \/ Refetch PROVE QuietInv'
<1>1. /\ UNCHANGED <<durable, committing, pulse, lastRevision, shown, continuation, disposed,
                     failed, evictions>>
      /\ \E s, e : Hydrate(s, e)
      /\ \/ UNCHANGED <<socket, inbox>>
         \/ inbox' = <<pulse>> /\ ~disposed
  BY DEF Open, Refetch, agent, wire, display
<1>2. Fetching' /\ \A f \in fetches' : f \in fetches \/ f.answer = Unserved
  BY <1>1, HydrateFetches
<1>3. durable.version \in Nat
  BY DEF Inv, TypeOK, Snapshot
<1>4. PulseIsCurrent' /\ ContinuationFollows'
  BY <1>1, <1>2 DEF QuietInv, PulseIsCurrent, ContinuationFollows
<1>5. OneSnapshotPerVersion'
  BY <1>1, <1>2, <1>3 DEF QuietInv, OneSnapshotPerVersion, Unserved
<1>6. LastPulseReaches' /\ PulsesAgree'
  BY <1>1 DEF QuietInv, LastPulseReaches, PulsesAgree
<1>. QED BY <1>4, <1>5, <1>6 DEF QuietInv

LEMMA CloseQuiet ==
  ASSUME Inv, QuietInv, Close \/ ConnectionError \/ Dispose \/ Evict
  PROVE  QuietInv'
<1>1. UNCHANGED <<durable, pulse, generation, lastRevision, shown, continuation, failed>>
  BY DEF Close, ConnectionError, Dispose, Evict, agent, wire, display, bounds
<1>2. /\ \/ socket' = "closed" /\ inbox' = <<>>
         \/ UNCHANGED <<socket, inbox, disposed>>
      /\ \/ fetches' = {} /\ disposed'
         \/ fetches' = fetches /\ disposed' = disposed
      /\ \/ evictions' = evictions + 1
         \/ UNCHANGED <<committing, evictions>>
  BY DEF Close, ConnectionError, Dispose, Evict, agent, wire, display, bounds
<1>3. evictions \in Nat
  BY DEF Inv, TypeOK
<1>4. PulseIsCurrent'
  BY <1>1, <1>2, <1>3 DEF QuietInv, PulseIsCurrent
<1>5. OneSnapshotPerVersion' /\ LastPulseReaches' /\ PulsesAgree' /\ ContinuationFollows'
  BY <1>1, <1>2
  DEF QuietInv, OneSnapshotPerVersion, LastPulseReaches, PulsesAgree, ContinuationFollows, Fetching
<1>. QED BY <1>4, <1>5 DEF QuietInv

LEMMA NextQuiet == Inv /\ QuietInv /\ [Next]_vars => QuietInv'
<1> SUFFICES ASSUME Inv, QuietInv, [Next]_vars PROVE QuietInv'
  OBVIOUS
<1>1. CASE UNCHANGED vars
  BY <1>1 DEF vars, QuietInv, PulseIsCurrent, OneSnapshotPerVersion, LastPulseReaches,
              PulsesAgree, ContinuationFollows, Fetching
<1>2. CASE Next
  BY <1>2, CommitQuiet, BumpQuiet, ServeQuiet, AnswerQuiet, FailQuiet, ReceiveQuiet, AskQuiet,
     CloseQuiet DEF Next
<1>. QED BY <1>1, <1>2

\* Once all is quiet the client shows the durable state and its continuation, whatever
\* pulses and answers were lost or overtook each other before: the socket's last pulse
\* has been applied, and the last fetch was answered after it.
THEOREM SettledChannelIsCurrent == Spec => []SettledViewIsCurrent
<1>1. Inv /\ QuietInv => SettledViewIsCurrent
  <2> SUFFICES ASSUME Inv, QuietInv, Settled, evictions = 0
               PROVE  shown = durable /\ continuation = durable.continuation
    BY DEF SettledViewIsCurrent
  <2>1. /\ lastRevision = pulse.revision /\ ~disposed
        /\ pulse.version = durable.version /\ pulse.continuation = durable.continuation
    BY DEF Settled, QuietInv, LastPulseReaches, PulseIsCurrent
  <2>2. lastVersion = durable.version
    BY <2>1 DEF Inv, RevisionsAgree
  <2>3. shown.version >= lastVersion /\ shown.version <= durable.version
    BY <2>1 DEF Inv, ViewCoversPulse, NothingAhead, Settled
  <2>4. shown.version \in Int /\ durable.version \in Int
    BY DEF Inv, TypeOK, Snapshot, NoSnapshot
  <2>5. shown = durable
    BY <2>2, <2>3, <2>4 DEF QuietInv, OneSnapshotPerVersion
  <2>. QED BY <2>1, <2>5 DEF QuietInv, ContinuationFollows, Settled
<1>. QED BY <1>1, InvHolds, InitQuiet, NextQuiet, PTL DEF Spec

-------------------------------------------------------------------------------
\* The sound of the voice model.

MicPhases == {"idle", "asking", "resuming", "loading", "tuning", "on", "stopped", "failed"}
LineStatuses == {"connected", "muted", "error", "disconnected"}

\* What is scheduled.
Source == [chunk : Nat, from : Nat, to : Nat, came : Nat, behind : Nat]

\* Type invariant of the sound of a voice session.
MediaTypeOK ==
  /\ micPhase \in MicPhases
  /\ held \subseteq {"stream", "captureCtx", "source", "playCtx", "listeners"}
  /\ turnedAway \in BOOLEAN /\ disconnecting \in {"no", "flushing", "done"} /\ overlooked \in BOOLEAN
  /\ lineStatus \in LineStatuses /\ muted \in BOOLEAN /\ erred \in BOOLEAN /\ mutes \in Nat
  /\ pending \in Seq(Nat) /\ sent \in Seq(Nat)
  /\ blocks \in Nat /\ unheard \in SUBSET [block : 1..blocks, mute : 0..mutes]
  /\ clock \in Nat /\ nextPlayTime \in Nat
  /\ playing \in SUBSET Source /\ chunks \in Nat
  /\ switches \in Nat

\* What an attach holds while it runs, and when it is over.
HeldByPhase ==
  /\ micPhase \in {"idle", "asking", "resuming", "loading"} => "source" \notin held
  /\ micPhase \in {"idle", "asking", "resuming", "loading", "tuning"} => "listeners" \notin held
  /\ micPhase \in {"stopped", "failed"} => held = {}
  /\ micPhase = "idle" => ~turnedAway /\ disconnecting = "no"
  /\ turnedAway /\ ~overlooked => micPhase # "on"
  /\ "listeners" \notin held => playing = {}
  /\ "source" \notin held => pending = <<>>

\* The voice is scheduled up to nextPlayTime, or up to now if nothing is left of it.
ScheduledTo ==
  /\ \A p \in playing : p.to <= nextPlayTime /\ p.chunk <= chunks
  /\ nextPlayTime <= clock \/ \E p \in playing : p.to = nextPlayTime

\* Any chunks that play have a last one. (Sets of numbers have none in general.)
SomeEndsLast ==
  \A S \in SUBSET playing : S # {} => \E p \in S : \A q \in S : q.to <= p.to

\* A line without an error says that it is muted, if it is open.
MutedOnLine == ~erred => lineStatus # "error" /\ (muted => Drops)

\* The blocks that must not be sent.
Lost ==
  {b \in 1..blocks : \/ [block |-> b, mute |-> 0] \in unheard
                    \/ (~erred /\ \E m \in Nat : [block |-> b, mute |-> m] \in unheard)}

\* What was sent and what is gathered are the blocks heard so far, in order.
Rising(s) == \A i, j \in DOMAIN s : i < j => s[i] < s[j]

GatheredInTurn ==
  /\ Rising(sent) /\ Rising(pending)
  /\ \A i \in DOMAIN sent : sent[i] \in (1..blocks) \ Lost
  /\ \A j \in DOMAIN pending : pending[j] \in (1..blocks) \ Lost
  /\ \A i \in DOMAIN sent, j \in DOMAIN pending : sent[i] < pending[j]

\* Of each mute few blocks were sent or wait, and of the present one none was sent.
Known == ToSet(sent) \cup ToSet(pending)
SaidIn(m, S, U) == {b \in S : [block |-> b, mute |-> m] \in U}
Few(m, S, U) == Cardinality(SaidIn(m, S, U)) < Enough

FewOfAMute ==
  /\ Len(pending) < Enough
  /\ muted => SaidIn(mutes, ToSet(sent), unheard) = {}
  /\ \A m \in Nat \ {0} : Few(m, Known, unheard)

MediaInv ==
  /\ MediaTypeOK
  /\ HeldByPhase
  /\ ScheduledTo
  /\ SomeEndsLast
  /\ PlaysInTurn
  /\ MutedOnLine
  /\ GatheredInTurn
  /\ FewOfAMute

LEMMA MediaInitInv == MediaInit => MediaInv
<1> SUFFICES ASSUME MediaInit PROVE MediaInv
  OBVIOUS
<1> USE DEF MediaInit
<1>1. MediaTypeOK
  <2>1. /\ pending \in Seq(Nat) /\ sent \in Seq(Nat)
        /\ unheard \in SUBSET [block : 1..blocks, mute : 0..mutes]
    OBVIOUS
  <2>2. micPhase \in MicPhases /\ lineStatus \in LineStatuses
    BY DEF MicPhases, LineStatuses
  <2>3. /\ held \subseteq {"stream", "captureCtx", "source", "playCtx", "listeners"}
        /\ turnedAway \in BOOLEAN /\ muted \in BOOLEAN /\ playing \in SUBSET Source
        /\ disconnecting \in {"no", "flushing", "done"} /\ overlooked \in BOOLEAN /\ erred \in BOOLEAN
    OBVIOUS
  <2>4. mutes \in Nat /\ blocks \in Nat /\ clock \in Nat /\ nextPlayTime \in Nat /\ chunks \in Nat /\ switches \in Nat
    OBVIOUS
  <2> HIDE DEF MediaInit
  <2>. QED BY <2>1, <2>2, <2>3, <2>4 DEF MediaTypeOK
<1>4. HeldByPhase
  BY DEF HeldByPhase
<1>2. ScheduledTo /\ SomeEndsLast /\ PlaysInTurn
  BY DEF ScheduledTo, SomeEndsLast, PlaysInTurn
<1>3. GatheredInTurn /\ MutedOnLine
  BY DEF GatheredInTurn, Rising, MutedOnLine
<1>5. FewOfAMute
  <2>1. \A m : SaidIn(m, Known, unheard) = {}
    BY DEF SaidIn
  <2>2. Cardinality({}) = 0
    BY FS_EmptySet
  <2>3. Enough \in Nat /\ Enough > 0
    BY VoiceMediaAssumption
  <2>4. Len(pending) = 0
    OBVIOUS
  <2>5. \A m : Few(m, Known, unheard)
    BY <2>1, <2>2, <2>3 DEF Few
  <2>. QED BY <2>3, <2>4, <2>5 DEF FewOfAMute
<1>. QED BY <1>1, <1>2, <1>3, <1>4, <1>5 DEF MediaInv

\* Time and what is not the voice leave it in turn.
LEMMA VoiceKept ==
  ASSUME MediaInv, clock' \in Nat, clock' >= clock, UNCHANGED <<nextPlayTime, playing, chunks>>
  PROVE  ScheduledTo' /\ SomeEndsLast' /\ PlaysInTurn'
<1>1. ScheduledTo'
  BY DEF MediaInv, MediaTypeOK, ScheduledTo
<1>. QED BY <1>1 DEF MediaInv, SomeEndsLast, PlaysInTurn

\* Nothing plays.
LEMMA VoiceSilent ==
  ASSUME playing' = {}, nextPlayTime' = clock', clock' \in Nat
  PROVE  ScheduledTo' /\ SomeEndsLast' /\ PlaysInTurn'
BY DEF ScheduledTo, SomeEndsLast, PlaysInTurn

\* The microphone is left alone, whatever becomes of the line.
LEMMA MicKept ==
  ASSUME MediaInv, UNCHANGED capture, erred' \in BOOLEAN, erred => erred', mutes' \in Nat,
         \/ UNCHANGED <<muted, mutes>>
         \/ ~muted'
         \/ mutes' = mutes + 1
  PROVE  GatheredInTurn' /\ FewOfAMute'
<1>1. pending' = pending /\ sent' = sent /\ blocks' = blocks /\ unheard' = unheard
  BY DEF capture
<1>2. Lost' \subseteq Lost
  BY <1>1 DEF Lost
<1>3. GatheredInTurn'
  BY <1>1, <1>2 DEF MediaInv, GatheredInTurn, Rising
<1>4. \A m \in Nat \ {0} : Few(m, Known, unheard)'
  BY <1>1 DEF MediaInv, FewOfAMute, Known, Few, SaidIn
<1>5. muted' => SaidIn(mutes, ToSet(sent), unheard)' = {}
  <2>1. CASE mutes' = mutes + 1
    <3>1. mutes \in Nat /\ unheard \in SUBSET [block : 1..blocks, mute : 0..mutes]
      BY DEF MediaInv, MediaTypeOK
    <3>2. \A b : [block |-> b, mute |-> mutes + 1] \notin unheard
      BY <3>1
    <3>. QED BY <1>1, <2>1, <3>2 DEF SaidIn
  <2>. QED BY <1>1, <2>1 DEF MediaInv, FewOfAMute, SaidIn
<1>6. Len(pending)' < Enough
  BY <1>1 DEF MediaInv, FewOfAMute
<1>. QED BY <1>3, <1>4, <1>5, <1>6 DEF FewOfAMute

\* A sequence has no more members than places.
LEMMA MembersOf ==
  ASSUME NEW s \in Seq(Nat)
  PROVE  IsFiniteSet(ToSet(s)) /\ Cardinality(ToSet(s)) <= Len(s)
<1>1. Len(s) \in Nat /\ DOMAIN s = 1..Len(s)
  OBVIOUS
<1>2. IsFiniteSet(1..Len(s)) /\ Cardinality(1..Len(s)) = Len(s)
  <2>1. 1 \in Int /\ Len(s) \in Int
    BY <1>1
  <2>2. IsFiniteSet(1..Len(s)) /\ Cardinality(1..Len(s)) = IF 1 > Len(s) THEN 0 ELSE Len(s) - 1 + 1
    BY <2>1, FS_Interval
  <2>. QED BY <1>1, <2>2
<1>3. [i \in 1..Len(s) |-> s[i]] \in Surjection(1..Len(s), ToSet(s))
  BY <1>1 DEF Surjection, ToSet
<1>. QED BY <1>2, <1>3, FS_Surjection

LEMMA KnownIsFinite == ASSUME MediaInv PROVE IsFiniteSet(Known) /\ IsFiniteSet(ToSet(pending))
<1>1. sent \in Seq(Nat) /\ pending \in Seq(Nat)
  BY DEF MediaInv, MediaTypeOK
<1>. QED BY <1>1, MembersOf, FS_Union DEF Known

\* What is few stays few when it gets less.
LEMMA FewStay ==
  ASSUME NEW S, NEW T, NEW U, NEW V, NEW m, IsFiniteSet(T), Few(m, T, V),
         SaidIn(m, S, U) \subseteq SaidIn(m, T, V)
  PROVE  Few(m, S, U)
<1>1. IsFiniteSet(SaidIn(m, T, V))
  BY FS_Subset DEF SaidIn
<1>2. IsFiniteSet(SaidIn(m, S, U)) /\ Cardinality(SaidIn(m, S, U)) <= Cardinality(SaidIn(m, T, V))
  BY <1>1, FS_Subset
<1>3. Cardinality(SaidIn(m, S, U)) \in Nat /\ Cardinality(SaidIn(m, T, V)) \in Nat /\ Enough \in Nat
  BY <1>1, <1>2, FS_CardinalityType, VoiceMediaAssumption
<1>. QED BY <1>2, <1>3 DEF Few

\* Two rising sequences, one above the other, make one.
LEMMA RisingConcat ==
  ASSUME NEW s \in Seq(Nat), NEW t \in Seq(Nat), Rising(s), Rising(t),
         \A i \in DOMAIN s, j \in DOMAIN t : s[i] < t[j]
  PROVE  /\ s \o t \in Seq(Nat) /\ Rising(s \o t)
         /\ \A k \in DOMAIN (s \o t) :
              \/ k \in DOMAIN s /\ (s \o t)[k] = s[k]
              \/ k - Len(s) \in DOMAIN t /\ (s \o t)[k] = t[k - Len(s)]
<1> DEFINE u == s \o t
<1>1. /\ u \in Seq(Nat) /\ Len(s) \in Nat /\ Len(t) \in Nat
      /\ DOMAIN u = 1..(Len(s) + Len(t)) /\ DOMAIN s = 1..Len(s) /\ DOMAIN t = 1..Len(t)
      /\ \A k \in 1..Len(s) : u[k] = s[k]
      /\ \A k \in (Len(s) + 1)..(Len(s) + Len(t)) : u[k] = t[k - Len(s)]
  OBVIOUS
<1> HIDE DEF u
<1>2. \A k \in DOMAIN u :
        \/ k \in DOMAIN s /\ u[k] = s[k]
        \/ k - Len(s) \in DOMAIN t /\ u[k] = t[k - Len(s)] /\ k > Len(s)
  <2> SUFFICES ASSUME NEW k \in 1..(Len(s) + Len(t)), k > Len(s)
               PROVE  k - Len(s) \in 1..Len(t) /\ u[k] = t[k - Len(s)]
    BY <1>1
  <2>1. k \in (Len(s) + 1)..(Len(s) + Len(t)) /\ k - Len(s) \in 1..Len(t)
    BY <1>1
  <2>. QED BY <1>1, <2>1
<1>3. Rising(u)
  <2> SUFFICES ASSUME NEW i \in DOMAIN u, NEW j \in DOMAIN u, i < j PROVE u[i] < u[j]
    BY DEF Rising
  <2>1. CASE j \in DOMAIN s
    <3>1. i \in DOMAIN s /\ u[i] = s[i] /\ u[j] = s[j]
      BY <1>1, <2>1
    <3>. QED BY <2>1, <3>1 DEF Rising
  <2>2. CASE i \in DOMAIN s /\ j \notin DOMAIN s
    BY <1>1, <1>2, <2>2
  <2>3. CASE i \notin DOMAIN s /\ j \notin DOMAIN s
    <3>1. /\ i - Len(s) \in DOMAIN t /\ j - Len(s) \in DOMAIN t /\ i - Len(s) < j - Len(s)
          /\ u[i] = t[i - Len(s)] /\ u[j] = t[j - Len(s)]
      BY <1>1, <1>2, <2>3
    <3>. QED BY <3>1 DEF Rising
  <2>. QED BY <2>1, <2>2, <2>3
<1>. QED BY <1>1, <1>2, <1>3 DEF u

\* What was gathered is sent, or dropped, and gathering starts anew.
LEMMA GatheredSent ==
  ASSUME MediaInv, pending' = <<>>, sent' \in {sent, sent \o pending}, muted => sent' = sent,
         UNCHANGED <<blocks, unheard, muted, erred, mutes>>
  PROVE  sent' \in Seq(Nat) /\ GatheredInTurn' /\ FewOfAMute'
<1>1. sent \in Seq(Nat) /\ pending \in Seq(Nat)
  BY DEF MediaInv, MediaTypeOK
<1>0. Lost' = Lost
  BY DEF Lost
<1>2. /\ sent \o pending \in Seq(Nat) /\ Rising(sent \o pending)
      /\ \A k \in DOMAIN (sent \o pending) :
           \/ k \in DOMAIN sent /\ (sent \o pending)[k] = sent[k]
           \/ k - Len(sent) \in DOMAIN pending /\ (sent \o pending)[k] = pending[k - Len(sent)]
  BY <1>1, RisingConcat DEF MediaInv, GatheredInTurn
<1>3. \A i \in DOMAIN sent' : sent'[i] \in (1..blocks) \ Lost
  BY <1>2 DEF MediaInv, GatheredInTurn
<1>4. sent' \in Seq(Nat) /\ Rising(sent')
  BY <1>1, <1>2 DEF MediaInv, GatheredInTurn
<1>5. DOMAIN pending' = {}
  OBVIOUS
<1>6. GatheredInTurn'
  BY <1>0, <1>3, <1>4, <1>5 DEF GatheredInTurn, Rising
<1>7. Known' \subseteq Known
  BY <1>2, <1>5 DEF Known, ToSet
<1>8. ASSUME NEW m \in Nat \ {0} PROVE Few(m, Known', unheard')
  <2>1. SaidIn(m, Known', unheard') \subseteq SaidIn(m, Known, unheard)
    BY <1>7 DEF SaidIn
  <2>2. Few(m, Known, unheard)
    BY DEF MediaInv, FewOfAMute
  <2>. QED BY <2>1, <2>2, KnownIsFinite, FewStay
<1>9. muted' => SaidIn(mutes, ToSet(sent), unheard)' = {}
  BY DEF MediaInv, FewOfAMute, SaidIn
<1>10. Len(pending') < Enough
  BY VoiceMediaAssumption
<1>11. \A m \in Nat \ {0} : Few(m, Known, unheard)'
  BY <1>8 DEF Few
<1>. QED BY <1>4, <1>6, <1>9, <1>10, <1>11 DEF FewOfAMute

\* Attaching, up to the last await.
LEMMA AttachInv ==
  ASSUME MediaInv, AttachMedia \/ MicGranted \/ CaptureResumed \/ CaptureAttached
  PROVE  MediaInv'
<1>1. UNCHANGED <<leave, line, capture, clock, playback, switches>>
  BY DEF AttachMedia, MicGranted, CaptureResumed, CaptureAttached
<1>2. MediaTypeOK' /\ MutedOnLine'
  BY <1>1 DEF MediaInv, MediaTypeOK, MutedOnLine, Drops, MicPhases, leave, line, capture, playback,
              AttachMedia, MicGranted, CaptureResumed, CaptureAttached
<1>3. HeldByPhase'
  BY <1>1 DEF MediaInv, HeldByPhase, leave, line, capture, playback,
              AttachMedia, MicGranted, CaptureResumed, CaptureAttached
<1>4. ScheduledTo' /\ SomeEndsLast' /\ PlaysInTurn' /\ GatheredInTurn' /\ FewOfAMute'
  BY <1>1, VoiceKept, MicKept DEF playback, line, MediaInv, MediaTypeOK
<1>. QED BY <1>2, <1>3, <1>4 DEF MediaInv

\* All is released, and what was gathered is sent or dropped.
LEMMA StopInv ==
  ASSUME MediaInv, micPhase' \in {"stopped", "failed"}, ReleaseAll,
         sent' \in {sent, sent \o pending}, muted => sent' = sent,
         UNCHANGED <<muted, erred, mutes, clock, switches>>, lineStatus' \in {lineStatus, "disconnected"},
         turnedAway' \in BOOLEAN, disconnecting' \in {"no", "flushing", "done"},
         overlooked' \in BOOLEAN
  PROVE  MediaInv'
<1>1. /\ held' = {} /\ playing' = {} /\ pending' = <<>> /\ nextPlayTime' = clock
      /\ UNCHANGED <<blocks, unheard, chunks>> /\ clock \in Nat
  BY DEF ReleaseAll, MediaInv, MediaTypeOK
<1>2. sent' \in Seq(Nat) /\ GatheredInTurn' /\ FewOfAMute'
  BY <1>1, GatheredSent
<1>3. MediaTypeOK'
  BY <1>1, <1>2 DEF MediaInv, MediaTypeOK, MicPhases, LineStatuses
<1>4. HeldByPhase' /\ MutedOnLine'
  BY <1>1 DEF MediaInv, HeldByPhase, MutedOnLine, Drops
<1>5. ScheduledTo' /\ SomeEndsLast' /\ PlaysInTurn'
  BY <1>1, VoiceSilent
<1>. QED BY <1>2, <1>3, <1>4, <1>5 DEF MediaInv

LEMMA StopSends ==
  ASSUME StopMedia
  PROVE  /\ micPhase' = "stopped" /\ ReleaseAll
         /\ sent' \in {sent, sent \o pending} /\ (muted => sent' = sent)
BY DEF StopMedia, SendAudio

\* The last await: the connect is still wanted, or all is released.
LEMMA PlaybackResumedInv == ASSUME MediaInv, PlaybackResumed PROVE MediaInv'
<1>1. micPhase = "tuning" /\ UNCHANGED <<leave, clock, switches>>
  BY DEF PlaybackResumed
<1>2. playing = {} /\ clock \in Nat
  BY <1>1 DEF MediaInv, HeldByPhase, MediaTypeOK
<1>3. CASE ~turnedAway
  <2>1. /\ micPhase' = "on" /\ held' = held \cup {"listeners"} /\ nextPlayTime' = clock
        /\ UNCHANGED <<capture, playing, chunks, line>>
    BY <1>3 DEF PlaybackResumed
  <2>2. MediaTypeOK' /\ HeldByPhase' /\ MutedOnLine'
    BY <1>1, <1>3, <2>1 DEF MediaInv, MediaTypeOK, HeldByPhase, MutedOnLine, Drops, MicPhases,
                            leave, line, capture
  <2>3. ScheduledTo' /\ SomeEndsLast' /\ PlaysInTurn' /\ GatheredInTurn' /\ FewOfAMute'
    BY <1>1, <1>2, <2>1, VoiceSilent, MicKept DEF line, MediaInv, MediaTypeOK
  <2>. QED BY <2>2, <2>3 DEF MediaInv
<1>4. CASE turnedAway
  <2>1. StopMedia /\ lineStatus' = "disconnected" /\ UNCHANGED <<muted, erred, mutes>>
    BY <1>4 DEF PlaybackResumed
  <2>2. /\ turnedAway' \in BOOLEAN /\ disconnecting' \in {"no", "flushing", "done"}
        /\ overlooked' \in BOOLEAN
    BY <1>1 DEF leave, MediaInv, MediaTypeOK
  <2>. QED BY <1>1, <2>1, <2>2, StopSends, StopInv
<1>. QED BY <1>3, <1>4

LEMMA AttachFailsInv == ASSUME MediaInv, AttachFails PROVE MediaInv'
<1>1. /\ micPhase' = "failed" /\ ReleaseAll /\ lineStatus' = "disconnected" /\ sent' = sent
      /\ UNCHANGED <<leave, muted, erred, mutes, clock, switches>>
  BY DEF AttachFails
<1>2. /\ turnedAway' \in BOOLEAN /\ disconnecting' \in {"no", "flushing", "done"}
      /\ overlooked' \in BOOLEAN
  BY <1>1 DEF leave, MediaInv, MediaTypeOK
<1>. QED BY <1>1, <1>2, StopInv

\* disconnect and the cleanup, with what is attached or before it is.
LEMMA LeaveInv == ASSUME MediaInv, LeaveMedia PROVE MediaInv'
<1>1. /\ Attaching \/ micPhase = "on"
      /\ turnedAway' \in BOOLEAN /\ disconnecting' = "flushing"
      /\ UNCHANGED <<overlooked, line, clock, switches>>
  BY DEF LeaveMedia, MediaInv, MediaTypeOK
<1>2. CASE micPhase = "on"
  <2>1. StopMedia /\ overlooked' \in BOOLEAN /\ UNCHANGED <<lineStatus, muted, erred, mutes>>
    BY <1>1, <1>2 DEF LeaveMedia, line, MediaInv, MediaTypeOK
  <2>. QED BY <1>1, <2>1, StopSends, StopInv
<1>3. CASE micPhase # "on" /\ UNCHANGED <<micPhase, held, capture, playback>>
  <2>1. MediaTypeOK' /\ HeldByPhase' /\ MutedOnLine'
    BY <1>1, <1>3 DEF MediaInv, MediaTypeOK, HeldByPhase, MutedOnLine, Drops, Attaching,
                      line, capture, playback
  <2>2. ScheduledTo' /\ SomeEndsLast' /\ PlaysInTurn' /\ GatheredInTurn' /\ FewOfAMute'
    BY <1>1, <1>3, VoiceKept, MicKept DEF playback, line, MediaInv, MediaTypeOK
  <2>. QED BY <2>1, <2>2 DEF MediaInv
<1>. QED BY <1>2, <1>3 DEF LeaveMedia

\* The line is closed, or another session is turned to, while a disconnect is under way.
LEMMA LeaveLineInv == ASSUME MediaInv, LeaveLine \/ TurnAwayMeanwhile PROVE MediaInv'
<1>1. /\ disconnecting = "flushing" /\ UNCHANGED <<muted, erred, mutes, micPhase, held, capture>>
      /\ UNCHANGED <<clock, playback, switches>>
      /\ lineStatus' \in {lineStatus, "disconnected"} /\ disconnecting' \in {"flushing", "done"}
      /\ \/ UNCHANGED <<turnedAway, overlooked>>
         \/ turnedAway' = TRUE /\ overlooked' = TRUE
  BY DEF LeaveLine, TurnAwayMeanwhile, line
<1>2. MediaTypeOK' /\ MutedOnLine'
  BY <1>1 DEF MediaInv, MediaTypeOK, MutedOnLine, Drops, LineStatuses, capture, playback
<1>3. HeldByPhase'
  BY <1>1 DEF MediaInv, HeldByPhase, capture, playback
<1>4. ScheduledTo' /\ SomeEndsLast' /\ PlaysInTurn' /\ GatheredInTurn' /\ FewOfAMute'
  BY <1>1, VoiceKept, MicKept DEF playback, MediaInv, MediaTypeOK
<1>. QED BY <1>2, <1>3, <1>4 DEF MediaInv

\* The user mutes and unmutes, and the line breaks.
LEMMA LineInv == ASSUME MediaInv, Mute \/ Unmute \/ LineBreaks PROVE MediaInv'
<1>1. UNCHANGED <<micPhase, held, leave, capture, clock, playback>>
  BY DEF Mute, Unmute, LineBreaks
<1>2. /\ lineStatus \in LineStatuses /\ muted \in BOOLEAN /\ switches \in Nat /\ mutes \in Nat
      /\ erred \in BOOLEAN /\ MutedOnLine
  BY DEF MediaInv, MediaTypeOK
<1>3. /\ lineStatus' \in LineStatuses /\ muted' \in BOOLEAN /\ switches' \in Nat
      /\ mutes' \in {mutes, mutes + 1} /\ erred' \in BOOLEAN /\ (erred => erred')
      /\ (UNCHANGED <<muted, mutes>> \/ ~muted' \/ mutes' = mutes + 1)
      /\ MutedOnLine'
  <2>1. CASE Mute
    <3>1. /\ switches' = switches + 1 /\ muted' = TRUE /\ erred' = erred
          /\ lineStatus' = IF lineStatus = "connected" THEN "muted" ELSE lineStatus
          /\ mutes' = IF muted THEN mutes ELSE mutes + 1
      BY <2>1 DEF Mute, Switch
    <3>2. /\ muted' \in BOOLEAN /\ erred' \in BOOLEAN /\ (erred => erred')
          /\ (UNCHANGED <<muted, mutes>> \/ mutes' = mutes + 1) /\ mutes' \in {mutes, mutes + 1}
          /\ switches' \in Nat
      <4>1. muted' \in BOOLEAN /\ erred' \in BOOLEAN /\ (erred => erred')
        BY <1>2, <3>1
      <4>2. mutes' \in {mutes, mutes + 1} /\ switches' \in Nat
        BY <1>2, <3>1
      <4>3. CASE muted
        <5>1. muted = TRUE /\ mutes' = mutes
          BY <1>2, <3>1, <4>3
        <5>. QED BY <3>1, <4>1, <4>2, <5>1
      <4>4. CASE ~muted
        BY <3>1, <4>1, <4>2, <4>4
      <4>. QED BY <4>3, <4>4
    <3>3. lineStatus' \in LineStatuses
      BY <1>2, <3>1 DEF LineStatuses
    <3>4. MutedOnLine'
      <4>1. ~erred' => lineStatus \in {"connected", "muted", "disconnected"}
        BY <1>2, <3>1 DEF LineStatuses, MutedOnLine
      <4>2. ~erred' => lineStatus' \in {"muted", "disconnected"}
        BY <3>1, <4>1
      <4>. QED BY <4>2 DEF MutedOnLine, Drops
    <3>. QED BY <3>2, <3>3, <3>4
  <2>2. CASE Unmute
    <3>1. /\ switches' = switches + 1 /\ muted' = FALSE /\ erred' = erred /\ mutes' = mutes
          /\ lineStatus' = IF lineStatus = "muted" THEN "connected" ELSE lineStatus
      BY <2>2 DEF Unmute, Switch
    <3>2. muted' \in BOOLEAN /\ erred' \in BOOLEAN /\ (erred => erred') /\ ~muted'
      BY <1>2, <3>1
    <3>3. lineStatus' \in LineStatuses
      BY <1>2, <3>1 DEF LineStatuses
    <3>4. MutedOnLine'
      <4>1. ~erred' => lineStatus' # "error"
        BY <1>2, <3>1 DEF MutedOnLine
      <4>. QED BY <3>2, <4>1 DEF MutedOnLine
    <3>. QED BY <1>2, <3>1, <3>2, <3>3, <3>4
  <2>3. CASE LineBreaks
    <3>1. /\ switches' = switches + 1 /\ UNCHANGED <<muted, mutes>>
          /\ \/ lineStatus' = "error" /\ erred' = TRUE
             \/ lineStatus' = "disconnected" /\ erred' = erred
      BY <2>3 DEF LineBreaks, Switch
    <3>2. muted' \in BOOLEAN /\ erred' \in BOOLEAN /\ (erred => erred')
      BY <1>2, <3>1
    <3>3. lineStatus' \in LineStatuses
      BY <3>1 DEF LineStatuses
    <3>4. MutedOnLine'
      BY <1>2, <3>1 DEF MutedOnLine, Drops
    <3>. QED BY <1>2, <3>1, <3>2, <3>3, <3>4
  <2>. QED BY <2>1, <2>2, <2>3
<1>4. MediaTypeOK'
  <2>1. mutes' \in Nat /\ 0..mutes \subseteq 0..mutes'
    BY <1>2, <1>3
  <2>2. blocks' = blocks /\ unheard' = unheard /\ unheard \in SUBSET [block : 1..blocks, mute : 0..mutes]
    BY <1>1 DEF capture, MediaInv, MediaTypeOK
  <2>3. unheard' \in SUBSET [block : 1..blocks', mute : 0..mutes']
    BY <2>1, <2>2
  <2>. QED BY <1>1, <1>3, <2>1, <2>3 DEF MediaInv, MediaTypeOK, leave, capture, playback
<1>5. HeldByPhase'
  BY <1>1 DEF MediaInv, HeldByPhase, leave, capture, playback
<1>6. GatheredInTurn' /\ FewOfAMute'
  <2>1. mutes' \in Nat
    BY <1>2, <1>3
  <2>. QED BY <1>1, <1>3, <2>1, MicKept
<1>7. ScheduledTo' /\ SomeEndsLast' /\ PlaysInTurn'
  BY <1>1, VoiceKept DEF playback, MediaInv, MediaTypeOK
<1>. QED BY <1>3, <1>4, <1>5, <1>6, <1>7 DEF MediaInv

\* A block has a number above those of all before it, heard or not.
LEMMA CaptureBlockInv == ASSUME MediaInv, CaptureBlock PROVE MediaInv'
<1> DEFINE gathered == Append(pending, blocks + 1)
           new == blocks + 1
<1>1. /\ "source" \in held /\ blocks' = blocks + 1
      /\ UNCHANGED <<micPhase, held, leave, line, clock, playback, switches>>
      /\ UNCHANGED <<muted, mutes, erred, lineStatus>>
      /\ unheard' = unheard \cup {u \in [block : {new}, mute : {0, mutes}] :
                                   IF u.mute = 0 THEN Closed ELSE muted}
      /\ \/ Drops /\ pending' = <<>> /\ sent' = sent
         \/ ~Drops /\ pending' = gathered /\ sent' = sent /\ Len(gathered) < Enough
         \/ ~Drops /\ pending' = <<>> /\ sent' = IF muted \/ Closed THEN sent ELSE sent \o gathered
  BY DEF CaptureBlock, SendAudio, line
<1>2. /\ pending \in Seq(Nat) /\ sent \in Seq(Nat) /\ blocks \in Nat /\ mutes \in Nat
      /\ unheard \in SUBSET [block : 1..blocks, mute : 0..mutes]
      /\ Rising(sent) /\ Rising(pending)
      /\ \A i \in DOMAIN sent : sent[i] \in (1..blocks) \ Lost
      /\ \A j \in DOMAIN pending : pending[j] \in (1..blocks) \ Lost
      /\ \A i \in DOMAIN sent, j \in DOMAIN pending : sent[i] < pending[j]
  BY DEF MediaInv, MediaTypeOK, GatheredInTurn
<1>3. /\ gathered \in Seq(Nat)
      /\ \A j \in DOMAIN gathered :
           \/ j \in DOMAIN pending /\ gathered[j] = pending[j]
           \/ j = Len(pending) + 1 /\ gathered[j] = blocks + 1
      /\ DOMAIN pending = 1..Len(pending) /\ DOMAIN gathered = 1..(Len(pending) + 1)
      /\ Len(pending) \in Nat
  BY <1>2
<1> HIDE DEF gathered
\* What is known of the new block.
<1>n. /\ \A b \in 1..blocks : \A m : [block |-> b, mute |-> m] \in unheard' <=> [block |-> b, mute |-> m] \in unheard
      /\ [block |-> new, mute |-> 0] \in unheard' => Closed
      /\ \A m : m # 0 /\ [block |-> new, mute |-> m] \in unheard' => muted /\ m = mutes
  <2>1. \A m : [block |-> new, mute |-> m] \notin unheard
    <3>1. new \notin 1..blocks
      BY <1>2
    <3>. QED BY <1>2, <3>1
  <2>2. \A b, m : [block |-> b, mute |-> m] \in unheard' <=>
           \/ [block |-> b, mute |-> m] \in unheard
           \/ b = new /\ m \in {0, mutes} /\ (IF m = 0 THEN Closed ELSE muted)
    <3> HIDE DEF new
    <3> TAKE b, m
    <3>1. PICK u : u = [block |-> b, mute |-> m]
      OBVIOUS
    <3>2. u.mute = m /\ (u \in [block : {new}, mute : {0, mutes}] <=> b = new /\ m \in {0, mutes})
      BY <3>1
    <3>. QED BY <1>1, <3>1, <3>2
  <2>3. \A b \in 1..blocks : b # new
    BY <1>2
  <2> HIDE DEF new
  <2>. QED BY <2>1, <2>2, <2>3
<1>l. /\ Lost' \subseteq Lost \cup {new} /\ Lost \subseteq 1..blocks
      /\ ~Drops => new \notin Lost'
  <2>1. 1..blocks' = (1..blocks) \cup {new}
    BY <1>1, <1>2
  <2>2. Lost' \subseteq Lost \cup {new}
    BY <1>1, <1>n, <2>1 DEF Lost
  <2>3. ASSUME ~Drops PROVE new \notin Lost'
    <3>1. ~Closed /\ (muted => erred)
      BY <2>3 DEF Drops, Closed, MediaInv, MutedOnLine
    <3>2. ASSUME NEW m \in Nat, ~erred PROVE [block |-> new, mute |-> m] \notin unheard'
      BY <1>n, <3>1, <3>2
    <3>3. [block |-> new, mute |-> 0] \notin unheard'
      BY <1>n, <3>1
    <3>. QED BY <1>1, <3>2, <3>3 DEF Lost
  <2>. QED BY <2>2, <2>3 DEF Lost
<1>e. /\ new \in 1..(blocks + 1)
      /\ \A n \in (1..blocks) \ Lost : n \in (1..(blocks + 1)) \ Lost' /\ n < new
  <2>1. \A n \in 1..blocks : n \in 1..(blocks + 1) /\ n < new /\ n # new
    BY <1>2
  <2>2. new \in 1..(blocks + 1)
    BY <1>2
  <2> HIDE DEF new
  <2>. QED BY <1>l, <2>1, <2>2
<1>4. /\ ~Drops => \A j \in DOMAIN gathered : gathered[j] \in (1..(blocks + 1)) \ Lost'
      /\ \A i \in DOMAIN sent : sent[i] \in (1..(blocks + 1)) \ Lost'
  <2>1. ASSUME ~Drops, NEW j \in DOMAIN gathered PROVE gathered[j] \in (1..(blocks + 1)) \ Lost'
    <3>1. CASE j \in DOMAIN pending /\ gathered[j] = pending[j]
      <4>1. pending[j] \in (1..blocks) \ Lost
        BY <1>2, <3>1
      <4>. QED BY <1>e, <3>1, <4>1
    <3>2. CASE gathered[j] = blocks + 1
      BY <1>e, <1>l, <2>1, <3>2
    <3>. QED BY <1>3, <3>1, <3>2
  <2>2. ASSUME NEW i \in DOMAIN sent PROVE sent[i] \in (1..(blocks + 1)) \ Lost'
    <3>1. sent[i] \in (1..blocks) \ Lost
      BY <1>2
    <3>. QED BY <1>e, <3>1
  <2>. QED BY <2>1, <2>2
<1>5. Rising(gathered)
  <2> SUFFICES ASSUME NEW i \in DOMAIN gathered, NEW j \in DOMAIN gathered, i < j
               PROVE  gathered[i] < gathered[j]
    BY DEF Rising
  <2>1. i \in DOMAIN pending /\ gathered[i] = pending[i]
    <3>1. i # Len(pending) + 1
      BY <1>3
    <3>. QED BY <1>3, <3>1
  <2>2. CASE j \in DOMAIN pending /\ gathered[j] = pending[j]
    BY <1>2, <2>1, <2>2 DEF Rising
  <2>3. CASE gathered[j] = blocks + 1
    <3>1. pending[i] \in (1..blocks) \ Lost
      BY <1>2, <2>1
    <3>. QED BY <1>e, <2>1, <2>3, <3>1
  <2>. QED BY <1>3, <2>2, <2>3
<1>6. \A i \in DOMAIN sent, j \in DOMAIN gathered : sent[i] < gathered[j]
  <2> SUFFICES ASSUME NEW i \in DOMAIN sent, NEW j \in DOMAIN gathered PROVE sent[i] < gathered[j]
    OBVIOUS
  <2>1. CASE j \in DOMAIN pending /\ gathered[j] = pending[j]
    BY <1>2, <2>1
  <2>2. CASE gathered[j] = blocks + 1
    <3>1. sent[i] \in (1..blocks) \ Lost
      BY <1>2
    <3>. QED BY <1>e, <2>2, <3>1
  <2>. QED BY <1>3, <2>1, <2>2
<1>7. /\ sent \o gathered \in Seq(Nat) /\ Rising(sent \o gathered)
      /\ \A k \in DOMAIN (sent \o gathered) :
           \/ k \in DOMAIN sent /\ (sent \o gathered)[k] = sent[k]
           \/ /\ k - Len(sent) \in DOMAIN gathered
              /\ (sent \o gathered)[k] = gathered[k - Len(sent)]
  BY <1>2, <1>3, <1>5, <1>6, RisingConcat
<1>8. MediaTypeOK'
  <2>1. pending' \in Seq(Nat) /\ sent' \in Seq(Nat)
    <3>1. <<>> \in Seq(Nat)
      OBVIOUS
    <3>. QED BY ONLY <1>1, <1>2, <1>3, <1>7, <3>1, Zenon
  <2>2. unheard' \in SUBSET [block : 1..blocks', mute : 0..mutes']
    <3>1. 1..blocks \subseteq 1..blocks' /\ new \in 1..blocks' /\ 0 \in 0..mutes /\ mutes \in 0..mutes
      BY <1>1, <1>2
    <3>2. [block : {new}, mute : {0, mutes}] \subseteq [block : 1..blocks', mute : 0..mutes']
      BY <1>1, <3>1
    <3>3. [block : 1..blocks, mute : 0..mutes] \subseteq [block : 1..blocks', mute : 0..mutes']
      BY <1>1, <3>1
    <3> HIDE DEF new
    <3>. QED BY <1>1, <1>2, <3>2, <3>3
  <2>. QED BY <1>1, <1>2, <2>1, <2>2 DEF MediaInv, MediaTypeOK, leave, line, playback
<1>9. HeldByPhase' /\ MutedOnLine'
  BY <1>1 DEF MediaInv, HeldByPhase, MutedOnLine, Drops, leave, playback
<1>10. GatheredInTurn'
  <2>1. \A i \in DOMAIN sent' : sent'[i] \in (1..blocks') \ Lost'
    BY <1>1, <1>4, <1>7
  <2>2. \A j \in DOMAIN pending' : pending'[j] \in (1..blocks') \ Lost'
    BY <1>1, <1>4
  <2>3. \A i \in DOMAIN sent', j \in DOMAIN pending' : sent'[i] < pending'[j]
    BY <1>1, <1>6
  <2>4. Rising(sent') /\ Rising(pending')
    <3>1. Rising(<<>>)
      BY DEF Rising
    <3>. QED BY <1>1, <1>2, <1>5, <1>7, <3>1
  <2>. QED BY <2>1, <2>2, <2>3, <2>4 DEF GatheredInTurn
<1>11. FewOfAMute'
  <2>1. ToSet(sent) \subseteq 1..blocks /\ ToSet(pending) \subseteq 1..blocks
    BY <1>2 DEF ToSet
  <2>2. ToSet(gathered) = ToSet(pending) \cup {new}
    <3>1. \A j \in DOMAIN pending : j \in DOMAIN gathered /\ gathered[j] = pending[j]
      BY <1>2, <1>3 DEF gathered
    <3>2. Len(pending) + 1 \in DOMAIN gathered /\ gathered[Len(pending) + 1] = new
      BY <1>2, <1>3 DEF gathered
    <3> HIDE DEF new
    <3>. QED BY <1>3, <3>1, <3>2 DEF ToSet, new
  <2>3. ToSet(<<>>) = {}
    BY DEF ToSet
  <2>4. /\ \/ ToSet(sent') = ToSet(sent)
           \/ ~muted /\ ToSet(sent') \subseteq Known \cup {new}
        /\ ToSet(pending') \subseteq ToSet(pending) \cup {new}
    <3>1. ToSet(sent \o gathered) \subseteq ToSet(sent) \cup ToSet(gathered)
      BY <1>7 DEF ToSet
    <3>. QED BY <1>1, <2>2, <2>3, <3>1 DEF Known
  <2>5. Known' \subseteq Known \cup {new} /\ Known \subseteq 1..blocks
    BY <2>1, <2>4 DEF Known
  <2>6. Len(pending)' < Enough
    BY <1>1, VoiceMediaAssumption
  <2>7. muted' => SaidIn(mutes, ToSet(sent), unheard)' = {}
    <3>1. ASSUME muted PROVE SaidIn(mutes, ToSet(sent), unheard') = {}
      <4>1. SaidIn(mutes, ToSet(sent), unheard) = {}
        BY <3>1 DEF MediaInv, FewOfAMute
      <4>. QED BY <1>n, <2>1, <4>1 DEF SaidIn
    <3>2. muted => ToSet(sent') = ToSet(sent)
      BY <2>4
    <3>. QED BY <1>1, <3>1, <3>2 DEF SaidIn
  <2>8. ASSUME NEW m \in Nat \ {0} PROVE Few(m, Known', unheard')
    <3>1. CASE ~muted \/ m # mutes
      <4>1. SaidIn(m, Known', unheard') \subseteq SaidIn(m, Known, unheard)
        <5>1. [block |-> new, mute |-> m] \notin unheard'
          BY <1>n, <3>1
        <5>. QED BY <1>n, <2>5, <5>1 DEF SaidIn
      <4>2. Few(m, Known, unheard)
        BY DEF MediaInv, FewOfAMute
      <4>. QED BY <4>1, <4>2, KnownIsFinite, FewStay
    <3>2. CASE muted /\ m = mutes
      <4>1. SaidIn(m, Known', unheard') \subseteq ToSet(pending')
        BY <1>1, <2>4, <2>7, <3>2 DEF Known, SaidIn
      <4>2. pending' \in Seq(Nat)
        BY <1>8 DEF MediaTypeOK
      <4>3. IsFiniteSet(ToSet(pending')) /\ Cardinality(ToSet(pending')) <= Len(pending')
        BY <4>2, MembersOf
      <4>4. /\ Cardinality(SaidIn(m, Known', unheard')) <= Cardinality(ToSet(pending'))
            /\ IsFiniteSet(SaidIn(m, Known', unheard'))
        BY <4>1, <4>3, FS_Subset
      <4>5. /\ Cardinality(SaidIn(m, Known', unheard')) \in Nat /\ Cardinality(ToSet(pending')) \in Nat
            /\ Len(pending') \in Nat /\ Enough \in Nat
        BY <4>2, <4>3, <4>4, FS_CardinalityType, VoiceMediaAssumption
      <4>. QED BY <2>6, <4>3, <4>4, <4>5 DEF Few
    <3>. QED BY <3>1, <3>2
  <2>9. \A m \in Nat \ {0} : Few(m, Known, unheard)'
    BY <2>8 DEF Few
  <2>. QED BY <2>6, <2>7, <2>9 DEF FewOfAMute
<1>12. ScheduledTo' /\ SomeEndsLast' /\ PlaysInTurn'
  BY <1>1, VoiceKept DEF playback, MediaInv, MediaTypeOK
<1>. QED BY <1>8, <1>9, <1>10, <1>11, <1>12 DEF MediaInv

\* What plays last ends when the voice is scheduled to, or before the audio thread could
\* start anything.
LEMMA NextStartAfterAll ==
  ASSUME MediaInv
  PROVE  /\ NextStart(clock) \in Nat
         /\ \A p \in playing : p.to <= NextStart(clock)
         /\ Max({0} \cup {p.to : p \in playing}) \in Nat
         /\ NextStart(clock) = Later(clock + Lookahead, Max({0} \cup {p.to : p \in playing}))
<1> DEFINE ends == {0} \cup {p.to : p \in playing}
<1>1. clock \in Nat /\ nextPlayTime \in Nat /\ Lookahead \in Nat /\ \A p \in playing : p.to \in Nat
  BY VoiceMediaAssumption DEF MediaInv, MediaTypeOK, Source
<1>2. \A p \in playing : p.to <= nextPlayTime
  BY DEF MediaInv, ScheduledTo
<1>3. \E x \in ends : \A y \in ends : x >= y
  <2>1. CASE playing = {}
    BY <2>1
  <2>2. CASE playing # {}
    <3>1. PICK p \in playing : \A q \in playing : q.to <= p.to
      BY <2>2 DEF MediaInv, SomeEndsLast
    <3>2. p.to \in ends /\ \A y \in ends : p.to >= y
      BY <1>1, <3>1
    <3>. QED BY <3>2
  <2>. QED BY <2>1, <2>2
<1>4. Max(ends) \in ends /\ \A y \in ends : Max(ends) >= y
  BY <1>3 DEF Max
<1>5. Max(ends) \in Nat /\ Max(ends) <= nextPlayTime
  BY <1>1, <1>2, <1>4
<1>6. nextPlayTime <= clock \/ Max(ends) = nextPlayTime
  <2>1. ASSUME NEW p \in playing, p.to = nextPlayTime PROVE Max(ends) = nextPlayTime
    <3>1. Max(ends) >= nextPlayTime
      BY <1>4, <2>1
    <3>. QED BY <1>1, <1>5, <3>1
  <2>. QED BY <2>1 DEF MediaInv, ScheduledTo
<1> HIDE DEF ends
<1>7. NextStart(clock) = Later(clock + Lookahead, Max(ends))
  BY <1>1, <1>5, <1>6 DEF NextStart, Later
<1>8. NextStart(clock) \in Nat /\ NextStart(clock) >= nextPlayTime
  BY <1>1 DEF NextStart, Later
<1>9. \A p \in playing : p.to <= NextStart(clock)
  BY <1>1, <1>2, <1>8
<1>. QED BY <1>5, <1>7, <1>8, <1>9 DEF ends

LEMMA PlayChunkInv == ASSUME MediaInv, PlayChunk PROVE MediaInv'
<1>1. /\ "listeners" \in held /\ chunks' = chunks + 1
      /\ UNCHANGED <<micPhase, held, leave, line, capture, clock, switches>>
  BY DEF PlayChunk
<1> DEFINE start == NextStart(clock)
           behind == Max({0} \cup {p.to : p \in playing})
<1>2. PICK length \in Lengths :
        /\ playing' = playing \cup {[chunk |-> chunks + 1, from |-> start, to |-> start + length,
                                     came |-> clock, behind |-> behind]}
        /\ nextPlayTime' = start + length
  BY <1>1 DEF PlayChunk
<1>3. /\ start \in Nat /\ behind \in Nat /\ start = Later(clock + Lookahead, behind)
      /\ \A p \in playing : p.to <= start
  BY NextStartAfterAll
<1> HIDE DEF start, behind
<1> DEFINE new == [chunk |-> chunks + 1, from |-> start, to |-> start + length,
                   came |-> clock, behind |-> behind]
<1>4. /\ new.chunk = chunks + 1 /\ new.from = start /\ new.to = start + length
      /\ new.came = clock /\ new.behind = behind
      /\ playing' = playing \cup {new}
  BY <1>2
<1> HIDE DEF new
<1>5. /\ clock \in Nat /\ chunks \in Nat /\ length \in Nat /\ length > 0
      /\ \A p \in playing : p \in Source
  BY VoiceMediaAssumption DEF MediaInv, MediaTypeOK
<1>6. new \in Source /\ nextPlayTime' \in Nat /\ nextPlayTime' = new.to
  BY <1>2, <1>3, <1>4, <1>5 DEF new, Source
<1>7. \A p \in playing : p.to \in Nat /\ p.chunk \in Nat /\ p.to < new.to /\ p.chunk < new.chunk
  <2> SUFFICES ASSUME NEW p \in playing
               PROVE  p.to \in Nat /\ p.chunk \in Nat /\ p.to < new.to /\ p.chunk < new.chunk
    OBVIOUS
  <2>1. p.to \in Nat /\ p.chunk \in Nat /\ p.to <= start /\ p.chunk <= chunks
    BY <1>3, <1>5 DEF Source, MediaInv, ScheduledTo
  <2>. QED BY <1>3, <1>4, <1>5, <2>1
<1>8. MediaTypeOK'
  <2>1. playing' \in SUBSET Source /\ chunks' \in Nat
    BY <1>1, <1>4, <1>5, <1>6
  <2>. QED BY <1>1, <1>6, <2>1 DEF MediaInv, MediaTypeOK, leave, line, capture
<1>9. HeldByPhase' /\ MutedOnLine'
  BY <1>1 DEF MediaInv, HeldByPhase, MutedOnLine, Drops, leave, line, capture
<1>10. ScheduledTo'
  <2>1. \A p \in playing' : p.to <= nextPlayTime' /\ p.chunk <= chunks'
    BY <1>1, <1>4, <1>5, <1>6, <1>7 DEF Source
  <2>2. \E p \in playing' : p.to = nextPlayTime'
    BY <1>4, <1>6
  <2>. QED BY <2>1, <2>2 DEF ScheduledTo
<1>11. SomeEndsLast'
  <2> SUFFICES ASSUME NEW S \in SUBSET playing', S # {} PROVE \E p \in S : \A q \in S : q.to <= p.to
    BY DEF SomeEndsLast
  <2>1. CASE new \in S
    BY <1>4, <1>6, <1>7, <2>1 DEF Source
  <2>2. CASE new \notin S
    BY <1>4, <2>2 DEF MediaInv, SomeEndsLast
  <2>. QED BY <2>1, <2>2
<1>12. PlaysInTurn'
  <2>1. \A p \in playing' : p.from = Later(p.came + Lookahead, p.behind)
    BY <1>3, <1>4 DEF MediaInv, PlaysInTurn
  <2>2. ASSUME NEW p \in playing', NEW q \in playing', p.chunk < q.chunk PROVE p.to <= q.from
    <3>1. CASE p \in playing /\ q \in playing
      BY <2>2, <3>1 DEF MediaInv, PlaysInTurn
    <3>2. CASE p \in playing /\ q = new
      BY <1>3, <1>4, <3>2
    <3>3. CASE p = new
      <4>1. q.chunk <= new.chunk /\ q.chunk \in Nat /\ new.chunk \in Nat
        BY <1>4, <1>5, <1>7
      <4>. QED BY <2>2, <3>3, <4>1
    <3>. QED BY <1>4, <3>1, <3>2, <3>3
  <2>. QED BY <2>1, <2>2 DEF PlaysInTurn
<1>13. GatheredInTurn' /\ FewOfAMute'
  BY <1>1, MicKept DEF line, MediaInv, MediaTypeOK
<1>. QED BY <1>8, <1>9, <1>10, <1>11, <1>12, <1>13 DEF MediaInv

\* What stops playing leaves the rest as it was.
LEMMA StopPlayingInv == ASSUME MediaInv, Interrupted \/ Ended PROVE MediaInv'
<1>1. /\ UNCHANGED <<micPhase, held, leave, line, capture, clock, chunks, switches>>
      /\ playing' \subseteq playing /\ clock \in Nat /\ nextPlayTime' \in Nat
  BY DEF Interrupted, Ended, MediaInv, MediaTypeOK
<1>2. MediaTypeOK' /\ HeldByPhase' /\ MutedOnLine' /\ GatheredInTurn' /\ FewOfAMute'
  <2>1. MediaTypeOK' /\ HeldByPhase' /\ MutedOnLine'
    BY <1>1 DEF MediaInv, MediaTypeOK, HeldByPhase, MutedOnLine, Drops, leave, line, capture
  <2>2. GatheredInTurn' /\ FewOfAMute'
    BY <1>1, MicKept DEF line, MediaInv, MediaTypeOK
  <2>. QED BY <2>1, <2>2
<1>3. CASE Interrupted
  BY <1>1, <1>2, <1>3, VoiceSilent DEF Interrupted, MediaInv
<1>4. CASE Ended
  <2>1. PICK p \in playing : p.to <= clock /\ playing' = playing \ {p} /\ nextPlayTime' = nextPlayTime
    BY <1>4 DEF Ended
  <2>2. ScheduledTo'
    BY <1>1, <2>1 DEF MediaInv, ScheduledTo
  <2>3. SomeEndsLast' /\ PlaysInTurn'
    BY <2>1 DEF MediaInv, SomeEndsLast, PlaysInTurn
  <2>. QED BY <1>2, <2>2, <2>3 DEF MediaInv
<1>. QED BY <1>3, <1>4

LEMMA ElapsesInv == ASSUME MediaInv, Elapses PROVE MediaInv'
<1>1. /\ UNCHANGED <<micPhase, held, leave, line, capture, playback, switches>>
      /\ clock' = clock + 1 /\ clock \in Nat
  BY DEF Elapses, MediaInv, MediaTypeOK
<1>2. MediaTypeOK' /\ HeldByPhase' /\ MutedOnLine'
  BY <1>1 DEF MediaInv, MediaTypeOK, HeldByPhase, MutedOnLine, Drops, leave, line, capture, playback
<1>3. ScheduledTo' /\ SomeEndsLast' /\ PlaysInTurn' /\ GatheredInTurn' /\ FewOfAMute'
  BY <1>1, VoiceKept, MicKept DEF playback, line, MediaInv, MediaTypeOK
<1>. QED BY <1>2, <1>3 DEF MediaInv

LEMMA MediaNextInv == MediaInv /\ [MediaNext]_mediaVars => MediaInv'
<1> SUFFICES ASSUME MediaInv, [MediaNext]_mediaVars PROVE MediaInv'
  OBVIOUS
<1>1. CASE UNCHANGED mediaVars
  <2>1. UNCHANGED <<micPhase, held, leave, line, capture, clock, playback, switches>>
    BY <1>1 DEF mediaVars
  <2>2. MediaTypeOK' /\ HeldByPhase' /\ MutedOnLine'
    BY <2>1 DEF MediaInv, MediaTypeOK, HeldByPhase, MutedOnLine, Drops, leave, line, capture, playback
  <2>3. ScheduledTo' /\ SomeEndsLast' /\ PlaysInTurn' /\ GatheredInTurn' /\ FewOfAMute'
    BY <2>1, VoiceKept, MicKept DEF playback, line, MediaInv, MediaTypeOK
  <2>. QED BY <2>2, <2>3 DEF MediaInv
<1>2. CASE MediaNext
  BY <1>2, AttachInv, PlaybackResumedInv, AttachFailsInv, LeaveInv, LeaveLineInv, LineInv, CaptureBlockInv, PlayChunkInv,
     StopPlayingInv, ElapsesInv DEF MediaNext
<1>. QED BY <1>1, <1>2

\* The sound of a voice session stays in turn and ends with it: chunks of the voice are
\* scheduled one behind the other; blocks of the microphone are sent once and in order,
\* none of those captured over a closed line and, unless the line has reported an error,
\* none of those captured while the user was muted, and after an error of each mute fewer
\* than make a message; and whatever await of attachBrowserVoiceMedia the user leaves at,
\* nothing stays open, but for who leaves and turns away before that is done.
THEOREM SoundStaysRight == MediaSpec => []SoundIsRight
<1>1. MediaInv => SoundIsRight
  <2> SUFFICES ASSUME MediaInv PROVE SoundIsRight
    OBVIOUS
  <2>1. HeardInTurn
    <3>1. \A i, j \in DOMAIN sent : i < j => sent[i] < sent[j]
      BY DEF MediaInv, GatheredInTurn, Rising
    <3>2. \A b \in ToSet(sent) : b \in (1..blocks) \ Lost
      BY DEF MediaInv, GatheredInTurn, ToSet
    <3>3. During(0, ToSet(sent)) = {}
      BY <3>2 DEF During, Lost
    <3>4. ASSUME NEW m \in 1..mutes
          PROVE  /\ ~erred => During(m, ToSet(sent)) = {}
                 /\ Cardinality(During(m, ToSet(sent))) < Enough
      <4>1. m \in Nat \ {0}
        BY DEF MediaInv, MediaTypeOK
      <4>2. ~erred => During(m, ToSet(sent)) = {}
        BY <3>2, <4>1 DEF During, Lost
      <4>3. SaidIn(m, ToSet(sent), unheard) \subseteq SaidIn(m, Known, unheard)
        BY DEF SaidIn, Known
      <4>4. Few(m, Known, unheard)
        BY <4>1 DEF MediaInv, FewOfAMute
      <4>5. Few(m, ToSet(sent), unheard)
        BY <4>3, <4>4, KnownIsFinite, FewStay
      <4>. QED BY <4>2, <4>5 DEF Few, SaidIn, During
    <3>. QED BY <3>1, <3>3, <3>4 DEF HeardInTurn
  <2>2. ReleasedWhenOver
    BY DEF MediaInv, HeldByPhase, ReleasedWhenOver
  <2>. QED BY <2>1, <2>2 DEF MediaInv, SoundIsRight
<1>. QED BY <1>1, MediaInitInv, MediaNextInv, PTL DEF MediaSpec

-------------------------------------------------------------------------------
\* The hook that compiles plans.

Places == {"idle", "post", "delay", "poll", "plan", "question", "call", "read", "refresh", "over"}
CompilePlaces == {"post", "delay", "poll", "plan", "question"}

\* Type invariant of the hook.
HookTypeOK ==
  /\ plan \in Plan
  /\ runs \in [Run -> [at : Places, plan : Plan, polls : Nat, aborted : BOOLEAN, late : BOOLEAN]]
  /\ compileStatus \in {"idle", "loading", "success", "error"}
  /\ result \in Run \cup {NoRun}
  /\ inspector \in Plan \cup {"none"}
  /\ compileError \in Run \cup {NoRun}
  /\ abortRef \in Run \cup {NoRun}
  /\ load \in [plan : Plan, under : BOOLEAN]
  /\ turns \in Nat

\* A compile under way that was not aborted is the one abortRef holds, and that is of
\* the plan the hook is used for.
LatestIsHeld ==
  /\ \A r \in Run : At(r) \in CompilePlaces /\ ~runs[r].aborted => abortRef = r
  /\ \A r \in Run : abortRef = r => runs[r].plan = plan

\* Whose job was not seen completed when it was aborted never fetches its plan.
AbortedAtPlanIsLate ==
  \A r \in Run : At(r) = "plan" /\ runs[r].aborted => runs[r].late

ShownIsOver ==
  result # NoRun => At(result) \in {"refresh", "over"}

HookInv ==
  /\ HookTypeOK
  /\ LatestIsHeld
  /\ AbortedAtPlanIsLate
  /\ ShownIsOver
  /\ HookShowsItsCompile

LEMMA RunsArePositive == NoRun \notin Run /\ Run \subseteq Nat
BY CompileHookAssumption DEF NoRun, Run

LEMMA HookInitInv == HookInit => HookInv
<1> SUFFICES ASSUME HookInit PROVE HookInv
  OBVIOUS
<1>1. \A r \in Run : runs[r] = Idle(plan)
  BY DEF HookInit
<1>2. HookTypeOK
  <2>1. runs \in [Run -> [at : Places, plan : Plan, polls : Nat, aborted : BOOLEAN, late : BOOLEAN]]
    BY DEF HookInit, Idle, Places
  <2>. QED BY <2>1 DEF HookInit, HookTypeOK
<1>3. LatestIsHeld /\ AbortedAtPlanIsLate /\ ShownIsOver /\ HookShowsItsCompile
  BY <1>1, RunsArePositive
  DEF HookInit, LatestIsHeld, AbortedAtPlanIsLate, ShownIsOver, HookShowsItsCompile, At,
      CompilePlaces, Idle
<1>. QED BY <1>2, <1>3 DEF HookInv

\* What a run that goes on keeps.
LEMMA GoesFields ==
  ASSUME HookTypeOK, NEW r \in Run, NEW to \in Places, Goes(r, to)
  PROVE  /\ runs' \in [Run -> [at : Places, plan : Plan, polls : Nat,
                               aborted : BOOLEAN, late : BOOLEAN]]
         /\ runs'[r].at = to /\ runs'[r].plan = runs[r].plan
         /\ runs'[r].aborted = runs[r].aborted /\ runs'[r].late = runs[r].late
         /\ \A q \in Run : q # r => runs'[q] = runs[q]
BY DEF Goes, HookTypeOK

\* A run goes from one place to the next.
LEMMA AdvanceKeeps ==
  ASSUME HookInv, NEW r \in Run, NEW to \in Places,
         /\ runs' \in [Run -> [at : Places, plan : Plan, polls : Nat,
                               aborted : BOOLEAN, late : BOOLEAN]]
         /\ runs'[r].at = to /\ runs'[r].plan = runs[r].plan
         /\ runs'[r].aborted = runs[r].aborted /\ runs'[r].late = runs[r].late
         /\ \A q \in Run : q # r => runs'[q] = runs[q],
         UNCHANGED <<plan, abortRef, load, turns>>,
         At(r) \notin {"idle", "over"}, At(r) = "refresh" => to = "over",
         to \in CompilePlaces => At(r) \in CompilePlaces,
         to = "plan" => ~runs[r].aborted,
         \/ result' = result
         \/ /\ result' = r /\ to = "refresh"
            /\ At(r) = "plan" \/ (At(r) = "question" /\ ~runs[r].aborted),
         compileStatus' \in {"idle", "loading", "success", "error"},
         compileStatus' = "loading" =>
           compileStatus = "loading" /\ (to \notin {"idle", "refresh", "over"} \/ At(r) = "refresh"),
         inspector' \in Plan \cup {"none"}, compileError' \in Run \cup {NoRun}
  PROVE  HookInv'
<1> USE DEF HookInv
<1>1. HookTypeOK'
  BY DEF HookTypeOK
<1>2. LatestIsHeld'
  BY DEF LatestIsHeld, At
<1>3. AbortedAtPlanIsLate'
  BY DEF AbortedAtPlanIsLate, At
<1>4. ShownIsOver'
  BY DEF ShownIsOver, At, HookTypeOK
<1>5. HookShowsItsCompile'
  <2>1. CASE result' = result
    <3>1. result # NoRun => runs'[result].aborted = runs[result].aborted
                            /\ runs'[result].late = runs[result].late
                            /\ runs'[result].plan = runs[result].plan
      BY DEF HookTypeOK
    <3>2. compileStatus' = "loading" => CallUnderWay'
      <4> SUFFICES ASSUME compileStatus' = "loading" PROVE CallUnderWay'
        OBVIOUS
      <4>1. PICK q \in Run : UnderWay(q)
        BY DEF HookShowsItsCompile, CallUnderWay
      <4>2. CASE q # r
        BY <4>1, <4>2 DEF CallUnderWay, UnderWay, At
      <4>3. CASE q = r
        BY <4>1, <4>3 DEF CallUnderWay, UnderWay, At
      <4>. QED BY <4>2, <4>3
    <3>. QED BY <2>1, <3>1, <3>2 DEF HookShowsItsCompile
  <2>2. CASE result' = r /\ to = "refresh"
             /\ (At(r) = "plan" \/ (At(r) = "question" /\ ~runs[r].aborted))
    <3>1. runs[r].aborted => runs[r].late
      BY <2>2 DEF AbortedAtPlanIsLate
    <3>2. ~runs[r].aborted => runs[r].plan = plan
      BY <2>2 DEF LatestIsHeld, CompilePlaces
    <3>3. compileStatus' # "loading"
      BY <2>2
    <3>. QED BY <2>2, <3>1, <3>2, <3>3 DEF HookShowsItsCompile, HookTypeOK
  <2>. QED BY <2>1, <2>2
<1>. QED BY <1>1, <1>2, <1>3, <1>4, <1>5

LEMMA ThrowsInv ==
  ASSUME HookInv, NEW r \in Run, At(r) \notin {"idle", "refresh", "over"}, Throws(r)
  PROVE  HookInv'
<1>1. "over" \in Places /\ "over" \notin CompilePlaces
  BY DEF Places, CompilePlaces
<1>2. /\ Goes(r, "over") /\ compileStatus' = "error" /\ compileError' = r
      /\ UNCHANGED <<plan, result, inspector, abortRef, load, turns>>
  BY DEF Throws
<1>. QED BY <1>1, <1>2, GoesFields, AdvanceKeeps DEF HookInv, HookTypeOK

LEMMA AdvancesInv == ASSUME HookInv, NEW r \in Run, Advances(r) PROVE HookInv'
<1> USE DEF HookInv
<1>t. /\ compileStatus \in {"idle", "loading", "success", "error"}
      /\ inspector \in Plan \cup {"none"} /\ compileError \in Run \cup {NoRun}
      /\ runs[r].plan \in Plan
  BY DEF HookTypeOK
<1>1. CASE Rejects(r) \/ Fails(r)
  BY <1>1, ThrowsInv DEF Rejects, Fails, Signalled
<1>2. ASSUME NEW job \in {"busy", "completed", "waiting", "failed"}, JobAnswered(r, job)
      PROVE  HookInv'
  <2>1. At(r) \in {"post", "poll"} /\ ~runs[r].aborted
    BY <1>2 DEF JobAnswered
  <2>2. CASE Throws(r)
    BY <2>1, <2>2, ThrowsInv
  <2>3. ASSUME NEW to \in {"delay", "plan", "question"}, Goes(r, to),
               UNCHANGED <<plan, compileStatus, result, inspector, compileError, abortRef, load, turns>>
        PROVE  HookInv'
    <3>1. to \in Places /\ to \notin {"idle", "refresh", "over"} /\ At(r) \in CompilePlaces
      BY <2>1 DEF Places, CompilePlaces
    <3>. QED BY <1>t, <2>1, <2>3, <3>1, GoesFields, AdvanceKeeps
  <2>. QED BY <1>2, <2>2, <2>3 DEF JobAnswered
<1>3. CASE Polls(r)
  <2>1. /\ At(r) = "delay"
        /\ runs' = [runs EXCEPT ![r].at = "poll", ![r].polls = @ + 1]
        /\ UNCHANGED <<plan, compileStatus, result, inspector, compileError, abortRef, load, turns>>
    BY <1>3 DEF Polls
  <2>2. /\ runs' \in [Run -> [at : Places, plan : Plan, polls : Nat, aborted : BOOLEAN, late : BOOLEAN]]
        /\ runs'[r].at = "poll" /\ runs'[r].plan = runs[r].plan
        /\ runs'[r].aborted = runs[r].aborted /\ runs'[r].late = runs[r].late
        /\ \A q \in Run : q # r => runs'[q] = runs[q]
    BY <2>1 DEF HookTypeOK, Places
  <2>3. "poll" \in Places /\ At(r) \in CompilePlaces
    BY <2>1 DEF Places, CompilePlaces
  <2>. QED BY <1>t, <2>1, <2>2, <2>3, AdvanceKeeps
<1>4. CASE Succeeds(r)
  <2>1. /\ At(r) = "plan" \/ (At(r) = "question" /\ ~runs[r].aborted)
        /\ Goes(r, "refresh") /\ compileStatus' = "success" /\ result' = r
        /\ UNCHANGED <<plan, inspector, compileError, abortRef, load, turns>>
    BY <1>4 DEF Succeeds
  <2>2. "refresh" \in Places /\ "refresh" \notin CompilePlaces
    BY DEF Places, CompilePlaces
  <2>. QED BY <1>t, <2>1, <2>2, GoesFields, AdvanceKeeps
<1>5. CASE CallSucceeds(r)
  <2>1. PICK to \in {"refresh", "over"} :
          /\ At(r) \in {"call", "read"} /\ Goes(r, to) /\ compileStatus' = "success"
          /\ inspector' \in {inspector, runs[r].plan}
          /\ UNCHANGED <<plan, result, compileError, abortRef, load, turns>>
    BY <1>5 DEF CallSucceeds
  <2>2. to \in Places /\ to \notin CompilePlaces
    BY DEF Places, CompilePlaces
  <2>. QED BY <1>t, <2>1, <2>2, GoesFields, AdvanceKeeps
<1>6. CASE Refreshes(r)
  <2>1. /\ At(r) = "refresh" /\ Goes(r, "over") /\ inspector' \in {inspector, runs[r].plan}
        /\ UNCHANGED <<plan, compileStatus, result, compileError, abortRef, load, turns>>
    BY <1>6 DEF Refreshes
  <2>2. "over" \in Places /\ "over" \notin CompilePlaces
    BY DEF Places, CompilePlaces
  <2>. QED BY <1>t, <2>1, <2>2, GoesFields, AdvanceKeeps
<1>. QED BY <1>1, <1>2, <1>3, <1>4, <1>5, <1>6 DEF Advances

\* What an abort marks.
LEMMA AbortedFields ==
  ASSUME HookTypeOK, NEW r \in Run \cup {NoRun}
  PROVE  /\ Aborted(r) \in [Run -> [at : Places, plan : Plan, polls : Nat,
                                    aborted : BOOLEAN, late : BOOLEAN]]
         /\ \A q \in Run :
              /\ Aborted(r)[q].at = At(q) /\ Aborted(r)[q].plan = runs[q].plan
              /\ q # r => Aborted(r)[q] = runs[q]
              /\ q = r => Aborted(r)[q].aborted
                          /\ Aborted(r)[q].late = (At(q) \in {"plan", "refresh", "over"})
<1>1. ASSUME NEW q \in Run
      PROVE  /\ Aborted(r)[q] \in [at : Places, plan : Plan, polls : Nat,
                                   aborted : BOOLEAN, late : BOOLEAN]
             /\ Aborted(r)[q].at = At(q) /\ Aborted(r)[q].plan = runs[q].plan
             /\ q # r => Aborted(r)[q] = runs[q]
             /\ q = r => Aborted(r)[q].aborted
                         /\ Aborted(r)[q].late = (At(q) \in {"plan", "refresh", "over"})
  <2>1. runs[q] \in [at : Places, plan : Plan, polls : Nat, aborted : BOOLEAN, late : BOOLEAN]
    BY DEF HookTypeOK
  <2>2. CASE q # r
    BY <2>1, <2>2 DEF Aborted, At
  <2>3. CASE q = r
    <3>1. Aborted(r)[q] = [runs[q] EXCEPT !.aborted = TRUE,
                                          !.late = (At(q) \in {"plan", "refresh", "over"})]
      BY <2>3 DEF Aborted
    <3>2. (At(q) \in {"plan", "refresh", "over"}) \in BOOLEAN
      OBVIOUS
    <3>. QED BY <2>1, <2>3, <3>1, <3>2 DEF At
  <2>. QED BY <2>2, <2>3
<1>2. Aborted(r) = [q \in Run |-> Aborted(r)[q]]
  BY DEF Aborted
<1>. QED BY <1>1, <1>2

\* A compile that starts aborts the one before it.
LEMMA StartCompileInv == ASSUME HookInv, NEW r \in Run, StartCompile(r) PROVE HookInv'
<1> USE DEF HookInv
<1> DEFINE new == [Idle(plan) EXCEPT !.at = "post"]
<1>1. /\ At(r) = "idle" /\ runs' = [Aborted(abortRef) EXCEPT ![r] = new]
      /\ abortRef' = r /\ compileStatus' = "loading" /\ compileError' = NoRun
      /\ UNCHANGED <<plan, result, inspector, load, turns>>
  BY DEF StartCompile, Begun, Loading
<1>2. /\ new \in [at : Places, plan : Plan, polls : Nat, aborted : BOOLEAN, late : BOOLEAN]
      /\ new.at = "post" /\ new.plan = plan /\ ~new.aborted
  BY DEF Idle, Places, HookTypeOK
<1> HIDE DEF new
<1>3. /\ Aborted(abortRef) \in [Run -> [at : Places, plan : Plan, polls : Nat,
                                        aborted : BOOLEAN, late : BOOLEAN]]
      /\ \A q \in Run :
           /\ Aborted(abortRef)[q].at = At(q) /\ Aborted(abortRef)[q].plan = runs[q].plan
           /\ q # abortRef => Aborted(abortRef)[q] = runs[q]
           /\ q = abortRef => Aborted(abortRef)[q].aborted
                              /\ Aborted(abortRef)[q].late = (At(q) \in {"plan", "refresh", "over"})
  BY AbortedFields DEF HookTypeOK
<1>4. /\ runs' \in [Run -> [at : Places, plan : Plan, polls : Nat, aborted : BOOLEAN, late : BOOLEAN]]
      /\ runs'[r] = new /\ \A q \in Run : q # r => runs'[q] = Aborted(abortRef)[q]
  BY <1>1, <1>2, <1>3
<1>5. HookTypeOK'
  BY <1>1, <1>4 DEF HookTypeOK
<1>6. LatestIsHeld'
  <2>1. ASSUME NEW q \in Run, q # r, At(q)' \in CompilePlaces, ~runs'[q].aborted
        PROVE  FALSE
    BY <1>3, <1>4, <2>1 DEF LatestIsHeld, At
  <2>2. runs'[r].plan = plan'
    BY <1>1, <1>2, <1>4
  <2>. QED BY <1>1, <2>1, <2>2 DEF LatestIsHeld
<1>7. AbortedAtPlanIsLate'
  <2> SUFFICES ASSUME NEW q \in Run, runs'[q].at = "plan", runs'[q].aborted PROVE runs'[q].late
    BY DEF AbortedAtPlanIsLate, At
  <2>1. q # r
    BY <1>2, <1>4
  <2>. QED BY <1>3, <1>4, <2>1 DEF AbortedAtPlanIsLate, At
<1>8. result # NoRun => result \in Run /\ result # r /\ At(result) \in {"refresh", "over"}
  BY <1>1 DEF HookTypeOK, ShownIsOver
<1>9. ShownIsOver'
  BY <1>1, <1>3, <1>4, <1>8 DEF ShownIsOver, At
<1>10. HookShowsItsCompile'
  <2>1. CallUnderWay'
    BY <1>2, <1>4 DEF CallUnderWay, UnderWay, At
  <2>2. result # NoRun /\ runs'[result].aborted => runs'[result].late
    BY <1>3, <1>4, <1>8 DEF HookShowsItsCompile
  <2>3. result # NoRun /\ runs'[result].plan # plan => runs'[result].late
    BY <1>3, <1>4, <1>8 DEF HookShowsItsCompile
  <2>. QED BY <1>1, <2>1, <2>2, <2>3 DEF HookShowsItsCompile
<1>. QED BY <1>5, <1>6, <1>7, <1>9, <1>10

LEMMA StartCallInv ==
  ASSUME HookInv, NEW r \in Run, NEW at \in {"call", "read"}, StartCall(r, at)
  PROVE  HookInv'
<1> USE DEF HookInv
<1> DEFINE new == [Idle(plan) EXCEPT !.at = at]
<1>1. /\ At(r) = "idle" /\ runs' = [runs EXCEPT ![r] = new]
      /\ compileStatus' = "loading" /\ compileError' = NoRun
      /\ UNCHANGED <<plan, result, inspector, abortRef, load, turns>>
  BY DEF StartCall, Begun, Loading
<1>2. /\ new \in [at : Places, plan : Plan, polls : Nat, aborted : BOOLEAN, late : BOOLEAN]
      /\ new.at = at /\ new.plan = plan
  BY DEF Idle, Places, HookTypeOK
<1> HIDE DEF new
<1>3. /\ runs' \in [Run -> [at : Places, plan : Plan, polls : Nat, aborted : BOOLEAN, late : BOOLEAN]]
      /\ runs'[r] = new /\ \A q \in Run : q # r => runs'[q] = runs[q]
  BY <1>1, <1>2 DEF HookTypeOK
<1>4. HookTypeOK'
  BY <1>1, <1>3 DEF HookTypeOK
<1>5. LatestIsHeld' /\ AbortedAtPlanIsLate'
  BY <1>1, <1>2, <1>3 DEF LatestIsHeld, AbortedAtPlanIsLate, At, CompilePlaces
<1>6. result # NoRun => result \in Run /\ result # r
  BY <1>1 DEF HookTypeOK, ShownIsOver
<1>7. ShownIsOver'
  BY <1>1, <1>3, <1>6 DEF ShownIsOver, At
<1>8. CallUnderWay'
  BY <1>2, <1>3 DEF CallUnderWay, UnderWay, At
<1>9. HookShowsItsCompile'
  BY <1>1, <1>3, <1>6, <1>8 DEF HookShowsItsCompile
<1>. QED BY <1>4, <1>5, <1>7, <1>9

\* Turning to another plan aborts the compile and forgets what was shown.
LEMMA TurnInv == ASSUME HookInv, Turn PROVE HookInv'
<1> USE DEF HookInv
<1>1. /\ turns' = turns + 1 /\ plan' \in Plan /\ load' = [plan |-> plan', under |-> TRUE]
      /\ runs' = Aborted(abortRef) /\ abortRef' = NoRun
      /\ compileStatus' = "idle" /\ result' = NoRun /\ inspector' = "none" /\ compileError' = NoRun
  BY DEF Turn
<1>2. /\ runs' \in [Run -> [at : Places, plan : Plan, polls : Nat, aborted : BOOLEAN, late : BOOLEAN]]
      /\ \A q \in Run :
           /\ runs'[q].at = At(q)
           /\ q # abortRef => runs'[q] = runs[q]
           /\ q = abortRef => runs'[q].aborted
                              /\ runs'[q].late = (At(q) \in {"plan", "refresh", "over"})
  BY <1>1, AbortedFields DEF HookTypeOK
<1>3. HookTypeOK'
  BY <1>1, <1>2 DEF HookTypeOK
<1>4. LatestIsHeld'
  BY <1>1, <1>2, RunsArePositive DEF LatestIsHeld, At
<1>5. AbortedAtPlanIsLate'
  BY <1>2 DEF AbortedAtPlanIsLate, At
<1>6. ShownIsOver' /\ HookShowsItsCompile'
  BY <1>1 DEF ShownIsOver, HookShowsItsCompile
<1>. QED BY <1>3, <1>4, <1>5, <1>6

LEMMA LoadsInv == ASSUME HookInv, Loads PROVE HookInv'
<1>1. /\ UNCHANGED <<plan, runs, compileStatus, result, compileError, abortRef, turns>>
      /\ load' \in [plan : Plan, under : BOOLEAN] /\ inspector' \in Plan \cup {"none"}
  BY DEF Loads, HookInv, HookTypeOK
<1>. QED BY <1>1 DEF HookInv, HookTypeOK, LatestIsHeld, AbortedAtPlanIsLate, ShownIsOver,
                     HookShowsItsCompile, CallUnderWay, UnderWay, At

LEMMA HookNextInv == HookInv /\ [HookNext]_hookVars => HookInv'
<1> SUFFICES ASSUME HookInv, [HookNext]_hookVars PROVE HookInv'
  OBVIOUS
<1>1. CASE UNCHANGED hookVars
  BY <1>1 DEF hookVars, HookInv, HookTypeOK, LatestIsHeld, AbortedAtPlanIsLate, ShownIsOver,
              HookShowsItsCompile, CallUnderWay, UnderWay, At
<1>2. CASE HookNext
  BY <1>2, StartCompileInv, StartCallInv, AdvancesInv, LoadsInv, TurnInv DEF HookNext
<1>. QED BY <1>1, <1>2

\* The result usePlanCompiler shows is of its plan and of its last compile, or of one
\* whose job had been seen completed when it was superseded; and the hook is loading
\* only while a call is under way.
THEOREM HookShowsTheLastCompile == HookSpec => []HookShowsItsCompile
<1>1. HookInv => HookShowsItsCompile
  BY DEF HookInv
<1>. QED BY <1>1, HookInitInv, HookNextInv, PTL DEF HookSpec


-------------------------------------------------------------------------------
(***************************************************************************)
(* The tool calls. What relates a request that was given up to the calls   *)
(* asked after it is the queue: it holds calls that were asked once in the *)
(* order of asking, and a call has a request or an event only when no      *)
(* earlier one is pending any more.                                        *)
(***************************************************************************)

ToolRequest ==
  [call : DOMAIN kind, at : {"route", "append", "answer"}, ok : BOOLEAN, waited : BOOLEAN]
ToolBatch == [conn : DOMAIN made, calls : Seq(DOMAIN kind)]

ToolsTypeOK ==
  /\ epoch \in Nat
  /\ made \in Seq(Nat) /\ open \subseteq DOMAIN made /\ listening \in {0} \cup DOMAIN made
  /\ kind \in Seq(Kind)
  /\ asked \in Seq([conn : DOMAIN made, call : DOMAIN kind])
  /\ toolQueue \in Seq(ToolBatch)
  /\ running \in BOOLEAN
  /\ responses \in Seq([call : DOMAIN kind, ok : BOOLEAN])
  /\ requests \subseteq ToolRequest
  /\ log \in Seq(DOMAIN kind)
  /\ told \subseteq [conn : DOMAIN made, call : DOMAIN kind, ok : BOOLEAN]

\* Every call was asked; Once(c) when that was one time.
AllAsked == \A c \in DOMAIN kind : \E i \in DOMAIN asked : asked[i].call = c
Once(c) == \A i, j \in DOMAIN asked : asked[i].call = c /\ asked[j].call = c => i = j

\* The batch that runs waits for one request, the one for its next call.
BatchRuns ==
  /\ running => toolQueue # <<>>
  /\ ~running => responses = <<>> /\ ~Waiting
  /\ \A r \in requests :
       r.waited => /\ Len(responses) < Len(Batch.calls)
                   /\ r.call = Batch.calls[Len(responses) + 1]
  /\ \A r, s \in requests : r.waited /\ s.waited => r = s

\* Good news is true, wherever it is.
SuccessIsRecorded ==
  /\ \A t \in told : t.ok /\ Writes(t.call) => Recorded(t.call)
  /\ \A i \in DOMAIN responses : responses[i].ok /\ Writes(responses[i].call) => Recorded(responses[i].call)
  /\ \A r \in requests : r.ok /\ Writes(r.call) => Recorded(r.call)

QueueInOrder ==
  \A b, e \in DOMAIN toolQueue :
    \A k \in DOMAIN toolQueue[b].calls, m \in DOMAIN toolQueue[e].calls :
      /\ b < e \/ (b = e /\ k < m)
      /\ Once(toolQueue[b].calls[k]) /\ Once(toolQueue[e].calls[m])
      => toolQueue[b].calls[k] < toolQueue[e].calls[m]

\* A call in the queue that has no response; a call whose turn has come.
Pending(c) ==
  \E b \in DOMAIN toolQueue : \E k \in DOMAIN toolQueue[b].calls :
    toolQueue[b].calls[k] = c /\ (b > 1 \/ k > Len(responses))
HasCome(c) == Recorded(c) \/ \E r \in requests : r.call = c

TurnsInOrder ==
  \A c, d \in DOMAIN kind :
    c < d /\ Once(c) /\ Once(d) /\ Pending(c) => ~HasCome(d)

\* The earlier of two calls that were each asked once is recorded first, if it has
\* succeeded.
Succeeded(c) ==
  \/ \E t \in told : t.call = c /\ t.ok
  \/ \E i \in DOMAIN responses : responses[i].call = c /\ responses[i].ok
RecordedBefore(c, d) == \E i, j \in DOMAIN log : i < j /\ log[i] = c /\ log[j] = d
RecordedInOrder ==
  \A c, d \in DOMAIN kind :
    c < d /\ Once(c) /\ Once(d) /\ Writes(c) /\ Succeeded(c) /\ Recorded(d)
      => RecordedBefore(c, d)

ToolsInv ==
  /\ ToolsTypeOK
  /\ AllAsked
  /\ BatchRuns
  /\ IsInjective(log)
  /\ SuccessIsRecorded
  /\ QueueInOrder
  /\ TurnsInOrder
  /\ RecordedInOrder

LEMMA ToolsInitInv == ToolsInit => ToolsInv
<1> SUFFICES ASSUME ToolsInit PROVE ToolsInv
  OBVIOUS
<1> USE DEF ToolsInit
<1>1. ToolsTypeOK
  <2>1. /\ epoch \in Nat /\ open \subseteq DOMAIN made /\ listening \in {0} \cup DOMAIN made
        /\ running \in BOOLEAN /\ requests \subseteq ToolRequest
        /\ told \subseteq [conn : DOMAIN made, call : DOMAIN kind, ok : BOOLEAN]
    OBVIOUS
  <2>2. /\ made \in Seq(Nat) /\ kind \in Seq(Kind) /\ log \in Seq(DOMAIN kind)
        /\ asked \in Seq([conn : DOMAIN made, call : DOMAIN kind])
        /\ toolQueue \in Seq(ToolBatch) /\ responses \in Seq([call : DOMAIN kind, ok : BOOLEAN])
    BY EmptySeq
  <2>. QED BY <2>1, <2>2 DEF ToolsTypeOK
<1>2. AllAsked /\ BatchRuns /\ IsInjective(log)
  BY DEF AllAsked, BatchRuns, Waiting, IsInjective
<1>3. SuccessIsRecorded /\ QueueInOrder /\ TurnsInOrder /\ RecordedInOrder
  BY DEF SuccessIsRecorded, QueueInOrder, TurnsInOrder, RecordedInOrder
<1>. QED BY <1>1, <1>2, <1>3 DEF ToolsInv

\* What the calls are related by does not see the connections.
callVars == <<kind, asked, told, toolQueue, running, responses, requests, log>>
CallsInv ==
  /\ AllAsked /\ BatchRuns /\ IsInjective(log) /\ SuccessIsRecorded
  /\ QueueInOrder /\ TurnsInOrder /\ RecordedInOrder

LEMMA CallsFrame == ASSUME CallsInv, UNCHANGED callVars PROVE CallsInv'
<1> USE DEF CallsInv, callVars
<1>1. AllAsked' /\ BatchRuns' /\ IsInjective(log)'
  BY DEF AllAsked, BatchRuns, Waiting, IsInjective, Batch
<1>2. SuccessIsRecorded'
  BY DEF SuccessIsRecorded, Writes, Recorded
<1>3. QueueInOrder'
  BY DEF QueueInOrder, Once
<1>4. TurnsInOrder'
  BY DEF TurnsInOrder, Once, Pending, HasCome, Recorded
<1>5. RecordedInOrder'
  BY DEF RecordedInOrder, Once, Writes, Succeeded, Recorded, RecordedBefore
<1>. QED BY <1>1, <1>2, <1>3, <1>4, <1>5

LEMMA ConnectionsInv ==
  ASSUME ToolsInv,
         ConnectVoice \/ LeaveVoice \/ LeftVoice \/ TurnAway \/ ProviderCloses \/ OtherActor
  PROVE  ToolsInv'
<1>1. UNCHANGED callVars
  BY DEF ConnectVoice, LeaveVoice, LeftVoice, TurnAway, ProviderCloses, OtherActor,
         provider, batches, server, callVars
<1>2. CallsInv'
  BY <1>1, CallsFrame DEF ToolsInv, CallsInv
<1>3. ToolsTypeOK'
  <2>1. CASE ConnectVoice
    <3>1. /\ made' = Append(made, epoch) /\ open' = open \cup {Len(made')}
          /\ listening' = Len(made') /\ epoch' = epoch
      BY <2>1 DEF ConnectVoice
    <3>2. /\ made' \in Seq(Nat) /\ DOMAIN made \subseteq DOMAIN made' /\ Len(made') \in DOMAIN made'
      BY <3>1 DEF ToolsInv, ToolsTypeOK
    <3>a. /\ [conn : DOMAIN made, call : DOMAIN kind] \subseteq [conn : DOMAIN made', call : DOMAIN kind']
          /\ ToolBatch \subseteq ToolBatch'
      BY <1>1, <3>2 DEF ToolBatch, callVars
    <3>3. /\ asked' \in Seq([conn : DOMAIN made', call : DOMAIN kind'])
          /\ toolQueue' \in Seq(ToolBatch')
      BY <1>1, <3>a, SeqMonotonic DEF ToolsInv, ToolsTypeOK, callVars
    <3>4. told' \subseteq [conn : DOMAIN made', call : DOMAIN kind', ok : BOOLEAN]
      BY <1>1, <3>2 DEF ToolsInv, ToolsTypeOK, callVars
    <3>. QED BY <1>1, <3>1, <3>2, <3>3, <3>4 DEF ToolsInv, ToolsTypeOK, ToolRequest, callVars
  <2>2. CASE LeaveVoice \/ LeftVoice \/ TurnAway \/ ProviderCloses \/ OtherActor
    <3>1. /\ made' = made /\ open' \subseteq open /\ listening' \in {0, listening}
          /\ epoch' \in {epoch, epoch + 1}
      BY <2>2 DEF LeaveVoice, LeftVoice, TurnAway, ProviderCloses, OtherActor, connection
    <3>. QED BY <1>1, <3>1 DEF ToolsInv, ToolsTypeOK, ToolRequest, ToolBatch, callVars
  <2>. QED BY <2>1, <2>2
<1>. QED BY <1>2, <1>3 DEF ToolsInv, CallsInv

\* What is left of a sequence without its head.
LEMMA TailOfQueue ==
  ASSUME NEW S, NEW q \in Seq(S), q # <<>>
  PROVE  /\ Head(q) = q[1] /\ 1 \in DOMAIN q
         /\ Tail(q) \in Seq(S)
         /\ \A b \in DOMAIN Tail(q) : b + 1 \in DOMAIN q /\ Tail(q)[b] = q[b + 1] /\ b \in Nat \ {0}
  OBVIOUS

\* The batch at the head leaves the queue, begun or not.
LEMMA QueueShortens ==
  ASSUME ToolsInv, toolQueue # <<>>, toolQueue' = Tail(toolQueue),
         UNCHANGED <<kind, asked>>, responses' = <<>>
  PROVE  /\ QueueInOrder'
         /\ \A c : Pending(c)' => Pending(c)
         /\ toolQueue' \in Seq(ToolBatch)
<1>1. /\ toolQueue' \in Seq(ToolBatch)
      /\ \A b \in DOMAIN toolQueue' : b + 1 \in DOMAIN toolQueue /\ toolQueue'[b] = toolQueue[b + 1]
                                      /\ b \in Nat \ {0}
  BY TailOfQueue DEF ToolsInv, ToolsTypeOK
<1>2. QueueInOrder'
  <2> SUFFICES ASSUME NEW b \in DOMAIN toolQueue', NEW e \in DOMAIN toolQueue',
                      NEW k \in DOMAIN toolQueue'[b].calls, NEW m \in DOMAIN toolQueue'[e].calls,
                      b < e \/ (b = e /\ k < m),
                      Once(toolQueue[b].calls[k])', Once(toolQueue[e].calls[m])'
               PROVE  toolQueue'[b].calls[k] < toolQueue'[e].calls[m]
    BY DEF QueueInOrder
  <2>1. /\ Once(toolQueue[b + 1].calls[k]) /\ Once(toolQueue[e + 1].calls[m])
        /\ b + 1 < e + 1 \/ (b + 1 = e + 1 /\ k < m)
    BY <1>1 DEF Once
  <2>. QED BY <1>1, <2>1 DEF ToolsInv, QueueInOrder
<1>3. ASSUME NEW c, Pending(c)' PROVE Pending(c)
  <2>a. PICK b \in DOMAIN toolQueue' : \E k \in DOMAIN toolQueue'[b].calls : toolQueue'[b].calls[k] = c
    BY <1>3 DEF Pending
  <2>1. PICK k \in DOMAIN toolQueue'[b].calls : toolQueue'[b].calls[k] = c
    BY <2>a
  <2>2. b + 1 > 1 /\ b + 1 \in DOMAIN toolQueue /\ toolQueue[b + 1].calls[k] = c
        /\ k \in DOMAIN toolQueue[b + 1].calls
    BY <1>1, <2>1
  <2>. QED BY <2>2 DEF Pending
<1>. QED BY <1>1, <1>2, <1>3

\* What the rest asks of a step that asks nothing.
LEMMA OrderKept ==
  ASSUME ToolsInv, UNCHANGED <<kind, asked, log>>,
         \A c \in DOMAIN kind : Pending(c)' => Pending(c),
         \A c \in DOMAIN kind : HasCome(c)' => HasCome(c),
         \A c \in DOMAIN kind : Succeeded(c)' => Succeeded(c)
  PROVE  AllAsked' /\ IsInjective(log)' /\ TurnsInOrder' /\ RecordedInOrder'
<1>1. AllAsked' /\ IsInjective(log)'
  BY DEF ToolsInv, AllAsked, IsInjective
<1>2. TurnsInOrder'
  BY DEF ToolsInv, TurnsInOrder, Once
<1>3. RecordedInOrder'
  BY DEF ToolsInv, RecordedInOrder, Once, Writes, Recorded, RecordedBefore
<1>. QED BY <1>1, <1>2, <1>3

LEMMA BeginBatchInv == ASSUME ToolsInv, BeginBatch PROVE ToolsInv'
<1>1. /\ toolQueue # <<>> /\ ~running /\ running' = Current(Batch.conn)
      /\ toolQueue' = (IF Current(Batch.conn) THEN toolQueue ELSE Tail(toolQueue))
      /\ UNCHANGED <<epoch, made, open, listening, kind, asked, told, responses, requests, log>>
  BY DEF BeginBatch, connection, provider, server
<1>2. running' \in BOOLEAN
  BY <1>1 DEF Current
<1>3. SuccessIsRecorded'
  BY <1>1 DEF ToolsInv, SuccessIsRecorded, Writes, Recorded
<1>4. \A c : (HasCome(c)' => HasCome(c)) /\ (Succeeded(c)' => Succeeded(c))
  BY <1>1 DEF HasCome, Recorded, Succeeded
<1>5. responses = <<>> /\ ~Waiting
  BY <1>1 DEF ToolsInv, BatchRuns
<1>6. CASE Current(Batch.conn)
  <2>1. toolQueue' = toolQueue /\ running'
    BY <1>1, <1>6
  <2>2. ToolsTypeOK'
    BY <1>1, <1>2, <2>1 DEF ToolsInv, ToolsTypeOK, ToolRequest, ToolBatch
  <2>3. BatchRuns'
    BY <1>1, <2>1 DEF ToolsInv, BatchRuns, Waiting, Batch
  <2>4. QueueInOrder' /\ \A c : Pending(c)' => Pending(c)
    BY <1>1, <2>1 DEF ToolsInv, QueueInOrder, Once, Pending
  <2>. QED BY <1>1, <1>3, <1>4, <2>2, <2>3, <2>4, OrderKept DEF ToolsInv
<1>7. CASE ~Current(Batch.conn)
  <2>1. toolQueue' = Tail(toolQueue) /\ ~running'
    BY <1>1, <1>7
  <2>2. /\ QueueInOrder' /\ \A c : Pending(c)' => Pending(c)
        /\ toolQueue' \in Seq(ToolBatch)
    BY <1>1, <1>5, <2>1, QueueShortens
  <2>3. ToolsTypeOK'
    BY <1>1, <1>2, <2>2 DEF ToolsInv, ToolsTypeOK, ToolRequest, ToolBatch
  <2>4. BatchRuns'
    BY <1>1, <1>5, <2>1 DEF BatchRuns, Waiting
  <2>. QED BY <1>1, <1>3, <1>4, <2>2, <2>3, <2>4, OrderKept DEF ToolsInv
<1>. QED BY <1>6, <1>7

LEMMA FinishBatchInv == ASSUME ToolsInv, FinishBatch PROVE ToolsInv'
<1>1. /\ running /\ Len(responses) = Len(Batch.calls)
      /\ toolQueue' = Tail(toolQueue) /\ ~running' /\ responses' = <<>> /\ running' \in BOOLEAN
      /\ open' \subseteq open
      /\ UNCHANGED <<epoch, made, listening, kind, asked, requests, log>>
  BY DEF FinishBatch, PopBatch, server
<1>2. told' \subseteq told \cup {[conn |-> Batch.conn, call |-> responses[i].call, ok |-> responses[i].ok] :
                                   i \in DOMAIN responses}
  BY DEF FinishBatch
<1>3. toolQueue # <<>> /\ Batch \in ToolBatch
  BY <1>1, TailOfQueue DEF ToolsInv, BatchRuns, Batch, ToolsTypeOK
<1>4. /\ QueueInOrder' /\ \A c : Pending(c)' => Pending(c)
      /\ toolQueue' \in Seq(ToolBatch)
  BY <1>1, <1>3, QueueShortens
<1>5. \A i \in DOMAIN responses : responses[i] \in [call : DOMAIN kind, ok : BOOLEAN]
  <2>1. responses \in Seq([call : DOMAIN kind, ok : BOOLEAN])
    BY DEF ToolsInv, ToolsTypeOK
  <2>. QED BY <2>1, ElementOfSeq, LenProperties
<1>6. ToolsTypeOK'
  <2>1. told' \subseteq [conn : DOMAIN made, call : DOMAIN kind, ok : BOOLEAN]
    BY <1>2, <1>3, <1>5 DEF ToolsInv, ToolsTypeOK, ToolBatch
  <2>. QED BY <1>1, <1>4, <2>1 DEF ToolsInv, ToolsTypeOK, ToolRequest, ToolBatch
<1>7. ~Waiting
  BY <1>1 DEF ToolsInv, BatchRuns, Waiting
<1>8. BatchRuns'
  BY <1>1, <1>7 DEF BatchRuns, Waiting
<1>9. SuccessIsRecorded'
  BY <1>1, <1>2 DEF ToolsInv, SuccessIsRecorded, Writes, Recorded
<1>10. \A c : (HasCome(c)' => HasCome(c)) /\ (Succeeded(c)' => Succeeded(c))
  BY <1>1, <1>2 DEF HasCome, Recorded, Succeeded
<1>. QED BY <1>1, <1>4, <1>6, <1>8, <1>9, <1>10, OrderKept DEF ToolsInv

LEMMA CallsInQueue ==
  ASSUME ToolsInv, NEW b \in DOMAIN toolQueue
  PROVE  /\ b \in Nat /\ b >= 1 /\ toolQueue[b].calls \in Seq(DOMAIN kind)
         /\ \A k \in DOMAIN toolQueue[b].calls :
              k \in Nat /\ toolQueue[b].calls[k] \in DOMAIN kind /\ toolQueue[b].calls[k] \in Nat
<1>1. toolQueue \in Seq(ToolBatch) /\ DOMAIN kind \subseteq Nat
  BY DEF ToolsInv, ToolsTypeOK
<1>2. toolQueue[b] \in ToolBatch /\ b \in Nat /\ b >= 1
  BY <1>1
<1>3. toolQueue[b].calls \in Seq(DOMAIN kind)
  BY <1>2 DEF ToolBatch
<1>. QED BY <1>1, <1>2, <1>3

LEMMA BatchAtHead ==
  ASSUME ToolsInv, running
  PROVE  /\ toolQueue # <<>> /\ 1 \in DOMAIN toolQueue /\ Batch = toolQueue[1]
         /\ Batch.calls \in Seq(DOMAIN kind) /\ Len(responses) \in Nat
         /\ Batch.conn \in DOMAIN made
<1>1. toolQueue # <<>> /\ toolQueue \in Seq(ToolBatch)
  BY DEF ToolsInv, BatchRuns, ToolsTypeOK
<1>2. 1 \in DOMAIN toolQueue /\ Batch = toolQueue[1] /\ Batch \in ToolBatch
  BY <1>1, TailOfQueue DEF Batch
<1>3. Len(responses) \in Nat
  BY DEF ToolsInv, ToolsTypeOK
<1>. QED BY <1>1, <1>2, <1>3 DEF ToolBatch

\* The call that is posted is the first one pending: an earlier one is not.
LEMMA FirstPending ==
  ASSUME ToolsInv, running, Len(responses) < Len(Batch.calls),
         NEW c, Once(c), Pending(c), Once(Batch.calls[Len(responses) + 1])
  PROVE  ~(c < Batch.calls[Len(responses) + 1])
<1>1. /\ toolQueue # <<>> /\ 1 \in DOMAIN toolQueue /\ Batch = toolQueue[1]
      /\ toolQueue[1].calls \in Seq(DOMAIN kind) /\ Len(responses) \in Nat
      /\ DOMAIN kind \subseteq Nat
  <2>1. kind \in Seq(Kind)
    BY DEF ToolsInv, ToolsTypeOK
  <2>. QED BY <2>1, BatchAtHead
<1>2. Len(responses) + 1 \in DOMAIN toolQueue[1].calls
  BY <1>1
<1>a. PICK b \in DOMAIN toolQueue : \E k \in DOMAIN toolQueue[b].calls :
        toolQueue[b].calls[k] = c /\ (b > 1 \/ k > Len(responses))
  BY DEF Pending
<1>3. PICK k \in DOMAIN toolQueue[b].calls :
        toolQueue[b].calls[k] = c /\ (b > 1 \/ k > Len(responses))
  BY <1>a
<1>4. b \in Nat /\ k \in Nat /\ c \in Nat /\ b >= 1
  BY <1>3, CallsInQueue
<1>5. CASE b = 1 /\ k = Len(responses) + 1
  BY <1>1, <1>3, <1>4, <1>5
<1>6. CASE 1 < b \/ (1 = b /\ Len(responses) + 1 < k)
  <2>1. Batch.calls[Len(responses) + 1] < c
    BY <1>1, <1>2, <1>3, <1>6 DEF ToolsInv, QueueInOrder
  <2>2. Batch.calls[Len(responses) + 1] \in Nat
    BY <1>1, <1>2
  <2>. QED BY <1>4, <2>1, <2>2
<1>. QED BY <1>1, <1>3, <1>4, <1>5, <1>6

LEMMA PostCallInv == ASSUME ToolsInv, PostCall PROVE ToolsInv'
<1> DEFINE d == Batch.calls[Len(responses) + 1]
<1> DEFINE r == [call |-> d, at |-> "route", ok |-> FALSE, waited |-> TRUE]
<1>1. /\ running /\ ~Waiting /\ Len(responses) < Len(Batch.calls)
      /\ requests' = requests \cup {r}
      /\ UNCHANGED <<epoch, made, open, listening, kind, asked, told, toolQueue, running, responses, log>>
  BY DEF PostCall, connection, provider, batches
<1>2. d \in DOMAIN kind
  BY <1>1, BatchAtHead
<1>3. r \in ToolRequest
  BY <1>2 DEF ToolRequest
<1>4. ToolsTypeOK'
  BY <1>1, <1>3 DEF ToolsInv, ToolsTypeOK, ToolRequest, ToolBatch
<1> HIDE DEF d
<1>5. BatchRuns'
  <2>1. Batch' = Batch /\ \A s \in requests' : s.waited => s = r
    BY <1>1 DEF Batch, Waiting
  <2>2. r.call = Batch.calls[Len(responses) + 1]
    BY DEF d
  <2>. QED BY <1>1, <2>1, <2>2 DEF ToolsInv, BatchRuns, Waiting
<1>6. SuccessIsRecorded'
  BY <1>1 DEF ToolsInv, SuccessIsRecorded, Writes, Recorded
<1> HIDE DEF r
<1>7. QueueInOrder' /\ AllAsked' /\ IsInjective(log)'
  BY <1>1 DEF ToolsInv, QueueInOrder, Once, AllAsked, IsInjective
<1>8. TurnsInOrder'
  <2> SUFFICES ASSUME NEW c \in DOMAIN kind, NEW e \in DOMAIN kind,
                      c < e, Once(c), Once(e), Pending(c), HasCome(e)'
               PROVE  FALSE
    BY <1>1 DEF TurnsInOrder, Once, Pending
  <2>1. CASE HasCome(e)
    BY <2>1 DEF ToolsInv, TurnsInOrder
  <2>2. CASE e = d
    BY <1>1, <2>2, FirstPending DEF d
  <2>. QED BY <1>1, <2>1, <2>2 DEF HasCome, Recorded, r
<1>9. RecordedInOrder'
  BY <1>1 DEF ToolsInv, RecordedInOrder, Once, Writes, Succeeded, Recorded, RecordedBefore
<1>. QED BY <1>4, <1>5, <1>6, <1>7, <1>8, <1>9 DEF ToolsInv

\* A response of the request waited for is one for the first pending call, which has none
\* recorded behind it.
LEMMA RespondedInv ==
  ASSUME ToolsInv, NEW r \in requests, r.waited, NEW ok \in BOOLEAN,
         ok => r.ok,
         responses' = Append(responses, [call |-> r.call, ok |-> ok]),
         \A s \in requests' : ~s.waited /\ s \in ToolRequest,
         \A s \in requests' : \E q \in requests : s.call = q.call /\ s.ok = q.ok,
         UNCHANGED <<epoch, made, open, listening, kind, asked, told, toolQueue, running, log>>
  PROVE  ToolsInv'
<1>1. /\ running /\ Len(responses) < Len(Batch.calls) /\ r.call = Batch.calls[Len(responses) + 1]
  BY DEF ToolsInv, BatchRuns, Waiting
<1>2. /\ 1 \in DOMAIN toolQueue /\ Batch = toolQueue[1] /\ Batch.calls \in Seq(DOMAIN kind)
      /\ Len(responses) \in Nat
  BY <1>1, BatchAtHead
<1>3. r.call \in DOMAIN kind
  BY <1>1, <1>2
<1>4. responses \in Seq([call : DOMAIN kind, ok : BOOLEAN])
  BY DEF ToolsInv, ToolsTypeOK
<1>5. /\ responses' \in Seq([call : DOMAIN kind, ok : BOOLEAN])
      /\ Len(responses') = Len(responses) + 1
      /\ \A i \in DOMAIN responses' :
           \/ i \in DOMAIN responses /\ responses'[i] = responses[i]
           \/ responses'[i] = [call |-> r.call, ok |-> ok]
  BY <1>3, <1>4
<1>6. ToolsTypeOK'
  BY <1>5 DEF ToolsInv, ToolsTypeOK, ToolRequest, ToolBatch
<1>7. BatchRuns'
  BY <1>1 DEF ToolsInv, BatchRuns
<1>8. ok /\ Writes(r.call) => Recorded(r.call)
  BY DEF ToolsInv, SuccessIsRecorded
<1>9. SuccessIsRecorded'
  <2>1. ASSUME NEW i \in DOMAIN responses', responses'[i].ok, Writes(responses'[i].call)
        PROVE  Recorded(responses'[i].call)
    BY <1>5, <1>8, <2>1 DEF ToolsInv, SuccessIsRecorded
  <2>. QED BY <2>1 DEF ToolsInv, SuccessIsRecorded, Writes, Recorded
<1>10. QueueInOrder' /\ AllAsked' /\ IsInjective(log)'
  BY DEF ToolsInv, QueueInOrder, Once, AllAsked, IsInjective
<1>11. ASSUME NEW c, Pending(c)' PROVE Pending(c)
  <2>1. PICK b \in DOMAIN toolQueue : \E k \in DOMAIN toolQueue[b].calls :
          toolQueue[b].calls[k] = c /\ (b > 1 \/ k > Len(responses'))
    BY <1>11 DEF Pending
  <2>2. PICK k \in DOMAIN toolQueue[b].calls :
          toolQueue[b].calls[k] = c /\ (b > 1 \/ k > Len(responses'))
    BY <2>1
  <2>3. k \in Nat
    BY CallsInQueue
  <2>4. b > 1 \/ k > Len(responses)
    BY <1>2, <1>5, <2>2, <2>3
  <2>. QED BY <2>2, <2>4 DEF Pending
<1>12. ASSUME NEW c, HasCome(c)' PROVE HasCome(c)
  BY <1>12 DEF HasCome, Recorded
<1>13. TurnsInOrder'
  BY <1>11, <1>12 DEF ToolsInv, TurnsInOrder, Once
<1>14. Pending(r.call)
  <2>1. Len(responses) + 1 \in DOMAIN toolQueue[1].calls /\ Len(responses) + 1 > Len(responses)
    BY <1>1, <1>2
  <2>. QED BY <1>1, <1>2, <2>1 DEF Pending
<1>15. RecordedInOrder'
  <2> SUFFICES ASSUME NEW c \in DOMAIN kind, NEW d \in DOMAIN kind,
                      c < d, Once(c), Once(d), Writes(c), Succeeded(c)', Recorded(d)
               PROVE  RecordedBefore(c, d)
    BY DEF RecordedInOrder, Once, Writes, Recorded, RecordedBefore
  <2>1. c # r.call
    BY <1>14 DEF ToolsInv, TurnsInOrder, HasCome
  <2>2. Succeeded(c)
    BY <1>5, <2>1 DEF Succeeded
  <2>. QED BY <2>2 DEF ToolsInv, RecordedInOrder
<1>. QED BY <1>6, <1>7, <1>9, <1>10, <1>13, <1>15 DEF ToolsInv

LEMMA ReceiveAnswerInv == ASSUME ToolsInv, ReceiveAnswer PROVE ToolsInv'
<1>1. PICK r \in requests :
        /\ r.waited /\ requests' = requests \ {r}
        /\ responses' = Append(responses, [call |-> r.call, ok |-> r.ok])
  BY DEF ReceiveAnswer, Responded
<1>2. UNCHANGED <<epoch, made, open, listening, kind, asked, told, toolQueue, running, log>>
  BY DEF ReceiveAnswer, connection, provider
<1>3. requests \subseteq ToolRequest /\ r.ok \in BOOLEAN
  BY DEF ToolsInv, ToolsTypeOK, ToolRequest
<1>4. \A s \in requests' : ~s.waited /\ s \in requests
  BY <1>1 DEF ToolsInv, BatchRuns
<1>. QED BY <1>1, <1>2, <1>3, <1>4, RespondedInv

LEMMA LoseAnswerInv == ASSUME ToolsInv, LoseAnswer PROVE ToolsInv'
<1>1. PICK r \in requests :
        /\ r.waited
        /\ requests' \subseteq (requests \ {r}) \cup {[r EXCEPT !.waited = FALSE]}
        /\ responses' = Append(responses, [call |-> r.call, ok |-> FALSE])
  BY DEF LoseAnswer, Responded
<1>2. UNCHANGED <<epoch, made, open, listening, kind, asked, told, toolQueue, running, log>>
  BY DEF LoseAnswer, connection, provider
<1> DEFINE u == [r EXCEPT !.waited = FALSE]
<1>3. u \in ToolRequest /\ u.call = r.call /\ u.ok = r.ok /\ ~u.waited
  BY DEF ToolsInv, ToolsTypeOK, ToolRequest
<1> HIDE DEF u
<1>4. requests \subseteq ToolRequest
  BY DEF ToolsInv, ToolsTypeOK
<1>5. \A s \in requests \ {r} : ~s.waited
  BY <1>1 DEF ToolsInv, BatchRuns
<1>6. /\ \A s \in requests' : ~s.waited /\ s \in ToolRequest
      /\ \A s \in requests' : \E q \in requests : s.call = q.call /\ s.ok = q.ok
  <2>1. requests' \subseteq (requests \ {r}) \cup {u}
    BY <1>1 DEF u
  <2>. QED BY <1>3, <1>4, <1>5, <2>1
<1>. QED BY <1>1, <1>2, <1>6, RespondedInv

\* A request goes on at the server: to the agent, or to an answer, if it is waited for.
LEMMA RequestMoves ==
  ASSUME ToolsInv, NEW r \in requests, NEW s \in ToolRequest,
         s.call = r.call, s.waited = r.waited,
         requests' \subseteq (requests \ {r}) \cup {s},
         UNCHANGED <<toolQueue, running, responses>>
  PROVE  /\ requests' \subseteq ToolRequest
         /\ BatchRuns'
         /\ \A q \in requests' : \E p \in requests : p.call = q.call
<1>1. requests' \subseteq ToolRequest
  BY DEF ToolsInv, ToolsTypeOK
<1>2. \A q \in requests' : \E p \in requests : p.call = q.call /\ p.waited = q.waited
  OBVIOUS
<1>3. \A p, q \in requests' : p.waited /\ q.waited => p = q
  BY DEF ToolsInv, BatchRuns
<1>4. BatchRuns'
  BY <1>2, <1>3 DEF ToolsInv, BatchRuns, Waiting, Batch
<1>. QED BY <1>1, <1>2, <1>4

LEMMA AnsweredIs ==
  ASSUME ToolsInv, NEW r \in requests, NEW ok \in BOOLEAN, Answered(r, ok)
  PROVE  \E s \in ToolRequest :
           /\ s.call = r.call /\ s.waited = r.waited /\ s.ok = ok
           /\ requests' \subseteq (requests \ {r}) \cup {s}
<1> DEFINE s == [r EXCEPT !.at = "answer", !.ok = ok]
<1>1. s \in ToolRequest /\ s.call = r.call /\ s.waited = r.waited /\ s.ok = ok
  BY DEF ToolsInv, ToolsTypeOK, ToolRequest
<1>2. requests' \subseteq (requests \ {r}) \cup {s}
  BY DEF Answered
<1>. QED BY <1>1, <1>2

\* A step of a request that records nothing.
LEMMA ServedInv ==
  ASSUME ToolsInv, NEW r \in requests, NEW s \in ToolRequest,
         s.call = r.call, s.waited = r.waited,
         requests' \subseteq (requests \ {r}) \cup {s},
         s.ok /\ Writes(s.call) => Recorded(s.call),
         UNCHANGED <<connection, provider, batches, log>>
  PROVE  ToolsInv'
<1>1. UNCHANGED <<epoch, made, open, listening, kind, asked, told, toolQueue, running, responses, log>>
  BY DEF connection, provider, batches
<1>2. /\ requests' \subseteq ToolRequest /\ BatchRuns'
      /\ \A q \in requests' : \E p \in requests : p.call = q.call
  BY <1>1, RequestMoves
<1>3. ToolsTypeOK'
  BY <1>1, <1>2 DEF ToolsInv, ToolsTypeOK, ToolRequest, ToolBatch
<1>4. SuccessIsRecorded'
  BY <1>1 DEF ToolsInv, SuccessIsRecorded, Writes, Recorded
<1>5. QueueInOrder'
  BY <1>1 DEF ToolsInv, QueueInOrder, Once
<1>6. \A c : /\ Pending(c)' => Pending(c)
             /\ HasCome(c)' => HasCome(c)
             /\ Succeeded(c)' => Succeeded(c)
  BY <1>1, <1>2 DEF Pending, HasCome, Recorded, Succeeded
<1>. QED BY <1>1, <1>2, <1>3, <1>4, <1>5, <1>6, OrderKept DEF ToolsInv

LEMMA RouteCallInv == ASSUME ToolsInv, RouteCall PROVE ToolsInv'
<1>1. UNCHANGED <<connection, provider, batches, log>>
  BY DEF RouteCall
<1>2. PICK r \in requests :
        /\ r.at = "route"
        /\ \/ Answered(r, FALSE)
           \/ kind[r.call] = "read" /\ Answered(r, TRUE)
           \/ requests' = (requests \ {r}) \cup {[r EXCEPT !.at = "append"]}
  BY DEF RouteCall
<1>3. CASE Answered(r, FALSE)
  BY <1>1, <1>3, AnsweredIs, ServedInv
<1>4. CASE kind[r.call] = "read" /\ Answered(r, TRUE)
  <2>1. ~Writes(r.call)
    BY <1>4 DEF Writes
  <2>. QED BY <1>1, <1>4, <2>1, AnsweredIs, ServedInv
<1>5. CASE requests' = (requests \ {r}) \cup {[r EXCEPT !.at = "append"]}
  <2> DEFINE s == [r EXCEPT !.at = "append"]
  <2>1. s \in ToolRequest /\ s.call = r.call /\ s.waited = r.waited /\ s.ok = r.ok
    BY DEF ToolsInv, ToolsTypeOK, ToolRequest
  <2>2. requests' \subseteq (requests \ {r}) \cup {s}
    BY <1>5
  <2> HIDE DEF s
  <2>3. s.ok /\ Writes(s.call) => Recorded(s.call)
    BY <2>1 DEF ToolsInv, SuccessIsRecorded
  <2>. QED BY <1>1, <2>1, <2>2, <2>3, ServedInv
<1>. QED BY <1>2, <1>3, <1>4, <1>5

\* An event is recorded behind those of the earlier calls that succeeded.
LEMMA RecordsInv ==
  ASSUME ToolsInv, NEW r \in requests, ~Recorded(r.call), log' = Append(log, r.call),
         Answered(r, TRUE), UNCHANGED <<connection, provider, batches>>
  PROVE  ToolsInv'
<1>1. UNCHANGED <<epoch, made, open, listening, kind, asked, told, toolQueue, running, responses>>
  BY DEF connection, provider, batches
<1>2. PICK s \in ToolRequest :
        /\ s.call = r.call /\ s.waited = r.waited
        /\ requests' \subseteq (requests \ {r}) \cup {s}
  BY AnsweredIs
<1>3. /\ requests' \subseteq ToolRequest /\ BatchRuns'
      /\ \A q \in requests' : \E p \in requests : p.call = q.call
  BY <1>1, <1>2, RequestMoves
<1>4. r.call \in DOMAIN kind /\ log \in Seq(DOMAIN kind)
  BY DEF ToolsInv, ToolsTypeOK, ToolRequest
<1>5. /\ log' \in Seq(DOMAIN kind) /\ DOMAIN log' = DOMAIN log \cup {Len(log) + 1}
      /\ \A i \in DOMAIN log : log'[i] = log[i] /\ i < Len(log) + 1
      /\ log'[Len(log) + 1] = r.call
  BY <1>4
<1>6. \A c : Recorded(c)' <=> Recorded(c) \/ c = r.call
  BY <1>5 DEF Recorded, ToSet
<1>7. ToolsTypeOK'
  BY <1>1, <1>3, <1>5 DEF ToolsInv, ToolsTypeOK, ToolRequest, ToolBatch
<1>8. IsInjective(log)'
  <2>1. \A i \in DOMAIN log : log[i] # r.call
    BY DEF Recorded, ToSet
  <2>. QED BY <1>5, <2>1 DEF ToolsInv, IsInjective
<1>9. SuccessIsRecorded'
  BY <1>1, <1>2, <1>6 DEF ToolsInv, SuccessIsRecorded, Writes
<1>10. AllAsked' /\ QueueInOrder'
  BY <1>1 DEF ToolsInv, AllAsked, QueueInOrder, Once
<1>11. \A c : (Pending(c)' => Pending(c)) /\ (HasCome(c)' => HasCome(c))
              /\ (Succeeded(c)' => Succeeded(c))
  BY <1>1, <1>3, <1>6 DEF Pending, HasCome, Succeeded
<1>12. TurnsInOrder'
  BY <1>1, <1>11 DEF ToolsInv, TurnsInOrder, Once
<1>13. RecordedInOrder'
  <2> SUFFICES ASSUME NEW c \in DOMAIN kind, NEW d \in DOMAIN kind,
                      c < d, Once(c), Once(d), Writes(c), Succeeded(c), Recorded(d)'
               PROVE  RecordedBefore(c, d)'
    BY <1>1, <1>11 DEF RecordedInOrder, Once, Writes
  <2>1. CASE Recorded(d)
    <3>1. RecordedBefore(c, d)
      BY <2>1 DEF ToolsInv, RecordedInOrder
    <3>. QED BY <1>5, <3>1 DEF RecordedBefore
  <2>2. CASE d = r.call
    <3>1. Recorded(c)
      BY DEF ToolsInv, SuccessIsRecorded, Succeeded
    <3>2. PICK i \in DOMAIN log : log[i] = c
      BY <3>1 DEF Recorded, ToSet
    <3>. QED BY <1>5, <2>2, <3>2 DEF RecordedBefore
  <2>. QED BY <1>6, <2>1, <2>2
<1>. QED BY <1>3, <1>7, <1>8, <1>9, <1>10, <1>12, <1>13 DEF ToolsInv

LEMMA AppendCallInv == ASSUME ToolsInv, AppendCall PROVE ToolsInv'
<1>1. UNCHANGED <<connection, provider, batches>>
  BY DEF AppendCall
<1>2. PICK r \in requests :
        \/ Recorded(r.call) /\ Answered(r, TRUE) /\ UNCHANGED log
        \/ ~Recorded(r.call) /\ log' = Append(log, r.call) /\ Answered(r, TRUE)
        \/ Answered(r, FALSE) /\ UNCHANGED log
  BY DEF AppendCall
<1>3. CASE Recorded(r.call) /\ Answered(r, TRUE) /\ UNCHANGED log
  BY <1>1, <1>3, AnsweredIs, ServedInv
<1>4. CASE ~Recorded(r.call) /\ log' = Append(log, r.call) /\ Answered(r, TRUE)
  BY <1>1, <1>4, RecordsInv
<1>5. CASE Answered(r, FALSE) /\ UNCHANGED log
  BY <1>1, <1>5, AnsweredIs, ServedInv
<1>. QED BY <1>2, <1>3, <1>4, <1>5

\* The calls of a batch that is asked for: one asked before may come first, the rest are
\* new and numbered in order.
CallsOf(again, fresh) == again \o [i \in DOMAIN fresh |-> Len(kind) + i]

LEMMA BatchAsked ==
  ASSUME ToolsInv, NEW again \in {<<>>} \cup {<<c>> : c \in DOMAIN kind},
         NEW fresh \in {<<>>} \cup Fresh
  PROVE  /\ kind \o fresh \in Seq(Kind) /\ Len(kind) \in Nat /\ Len(fresh) \in Nat
         /\ DOMAIN kind = 1..Len(kind)
         /\ DOMAIN (kind \o fresh) = 1..(Len(kind) + Len(fresh))
         /\ \A c \in DOMAIN kind : (kind \o fresh)[c] = kind[c]
         /\ CallsOf(again, fresh) \in Seq(1..(Len(kind) + Len(fresh)))
         /\ \A k, m \in DOMAIN CallsOf(again, fresh) :
              k < m => /\ CallsOf(again, fresh)[m] \notin 1..Len(kind)
                       /\ CallsOf(again, fresh)[k] < CallsOf(again, fresh)[m]
         /\ \A c \in 1..(Len(kind) + Len(fresh)) :
              c \notin 1..Len(kind) =>
                \E k \in DOMAIN CallsOf(again, fresh) : CallsOf(again, fresh)[k] = c
<1> DEFINE tail == [i \in DOMAIN fresh |-> Len(kind) + i]
<1> DEFINE calls == CallsOf(again, fresh)
<1>1. kind \in Seq(Kind) /\ fresh \in Seq(Kind)
  BY EmptySeq, VoiceToolsAssumption DEF ToolsInv, ToolsTypeOK
<1>2. /\ kind \o fresh \in Seq(Kind) /\ Len(kind) \in Nat /\ Len(fresh) \in Nat
      /\ DOMAIN kind = 1..Len(kind) /\ DOMAIN fresh = 1..Len(fresh)
      /\ Len(kind \o fresh) = Len(kind) + Len(fresh)
      /\ \A c \in DOMAIN kind : (kind \o fresh)[c] = kind[c]
  BY <1>1, ConcatProperties, LenProperties
<1>3. DOMAIN (kind \o fresh) = 1..(Len(kind) + Len(fresh))
  BY <1>2, LenProperties
<1>4. tail \in Seq(1..(Len(kind) + Len(fresh))) /\ Len(tail) = Len(fresh)
      /\ \A i \in 1..Len(fresh) : tail[i] = Len(kind) + i
  BY <1>2
<1>5. again \in Seq(1..(Len(kind) + Len(fresh))) /\ Len(again) \in {0, 1}
      /\ \A i \in 1..Len(again) : again[i] \in 1..Len(kind)
  <2>1. CASE again = <<>>
    BY <2>1
  <2>2. ASSUME NEW c \in DOMAIN kind, again = <<c>>
        PROVE  again \in Seq(1..(Len(kind) + Len(fresh))) /\ Len(again) = 1 /\ again[1] = c
    <3>1. c \in 1..(Len(kind) + Len(fresh))
      BY <1>2
    <3>. QED BY <2>2, <3>1
  <2>. QED BY <1>2, <2>1, <2>2
<1>6. calls = again \o tail
  BY DEF CallsOf
<1> HIDE DEF tail, calls
<1>7. /\ calls \in Seq(1..(Len(kind) + Len(fresh))) /\ Len(calls) = Len(again) + Len(fresh)
      /\ \A i \in 1..(Len(again) + Len(fresh)) :
           calls[i] = IF i <= Len(again) THEN again[i] ELSE tail[i - Len(again)]
  <2>1. /\ again \o tail \in Seq(1..(Len(kind) + Len(fresh)))
        /\ Len(again \o tail) = Len(again) + Len(tail)
        /\ \A i \in 1..(Len(again) + Len(tail)) :
             (again \o tail)[i] = IF i <= Len(again) THEN again[i] ELSE tail[i - Len(again)]
    BY <1>4, <1>5, ConcatProperties, ZenonT(30)
  <2>. QED BY <1>4, <1>6, <2>1, Zenon
<1>8. DOMAIN calls = 1..(Len(again) + Len(fresh))
  BY <1>7, LenProperties
<1>9. ASSUME NEW i \in 1..(Len(again) + Len(fresh)), i <= Len(again)
      PROVE  calls[i] \in 1..Len(kind)
  <2>1. i \in 1..Len(again)
    BY <1>2, <1>5, <1>9
  <2>. QED BY <1>5, <1>7, <1>9, <2>1
<1>10. ASSUME NEW i \in 1..(Len(again) + Len(fresh)), i > Len(again)
       PROVE  calls[i] = Len(kind) + (i - Len(again))
  <2>1. i - Len(again) \in 1..Len(fresh) /\ ~(i <= Len(again))
    BY <1>2, <1>5, <1>10
  <2>. QED BY <1>4, <1>7, <2>1
<1>11. ASSUME NEW k \in DOMAIN calls, NEW m \in DOMAIN calls, k < m
       PROVE  calls[m] \notin 1..Len(kind) /\ calls[k] < calls[m]
  <2>a. k \in 1..(Len(again) + Len(fresh)) /\ m \in 1..(Len(again) + Len(fresh))
    BY <1>8
  <2>b. k \in Nat /\ k >= 1 /\ m \in Nat
    BY <1>2, <1>5, <2>a
  <2>0. m > Len(again) /\ m \in 1..(Len(again) + Len(fresh))
    <3>1. CASE Len(again) = 0
      BY <1>11, <2>a, <2>b, <3>1
    <3>2. CASE Len(again) = 1
      BY <1>11, <2>a, <2>b, <3>2
    <3>. QED BY <1>5, <3>1, <3>2
  <2>1. m > Len(again) /\ calls[m] = Len(kind) + (m - Len(again))
    BY <1>10, <2>0
  <2>2. CASE k <= Len(again)
    BY <1>2, <1>5, <1>8, <1>9, <1>11, <2>1, <2>2
  <2>3. CASE k > Len(again)
    BY <1>2, <1>5, <1>8, <1>10, <1>11, <2>1, <2>3
  <2>. QED BY <1>2, <1>5, <1>8, <2>2, <2>3
<1>12. ASSUME NEW c \in 1..(Len(kind) + Len(fresh)), c \notin 1..Len(kind)
       PROVE  \E k \in DOMAIN calls : calls[k] = c
  <2>1. (c - Len(kind)) + Len(again) \in DOMAIN calls /\ (c - Len(kind)) + Len(again) > Len(again)
    BY <1>2, <1>5, <1>8, <1>12
  <2>2. calls[(c - Len(kind)) + Len(again)] = c
    BY <1>2, <1>5, <1>8, <1>10, <2>1
  <2>. QED BY <2>1, <2>2
<1>. QED BY <1>2, <1>3, <1>7, <1>11, <1>12 DEF calls

LEMMA AskInv ==
  ASSUME ToolsInv, NEW again \in {<<>>} \cup {<<c>> : c \in DOMAIN kind},
         NEW fresh \in {<<>>} \cup Fresh, Ask(again, fresh)
  PROVE  ToolsInv'
<1> DEFINE calls == CallsOf(again, fresh)
<1> DEFINE more == [i \in DOMAIN calls |-> [conn |-> listening, call |-> calls[i]]]
<1> DEFINE batch == [conn |-> listening, calls |-> calls]
<1>1. /\ kind' = kind \o fresh
      /\ asked' = asked \o more
      /\ toolQueue' = Append(toolQueue, batch)
      /\ UNCHANGED <<epoch, made, open, listening, running, responses, requests, log, told>>
      /\ listening \in open
  BY DEF Ask, CallsOf, connection, server
<1>2. /\ kind' \in Seq(Kind) /\ Len(kind) \in Nat
      /\ DOMAIN kind = 1..Len(kind) /\ DOMAIN kind \subseteq DOMAIN kind'
      /\ \A c \in DOMAIN kind : kind'[c] = kind[c]
      /\ calls \in Seq(DOMAIN kind')
      /\ \A k, m \in DOMAIN calls :
           k < m => calls[m] \notin DOMAIN kind /\ calls[k] < calls[m]
      /\ \A c \in DOMAIN kind' :
           c \notin DOMAIN kind => \E k \in DOMAIN calls : calls[k] = c
  <2>2. kind' = kind \o fresh
    BY <1>1
  <2>3. /\ kind' \in Seq(Kind) /\ Len(kind) \in Nat /\ Len(fresh) \in Nat
        /\ DOMAIN kind = 1..Len(kind)
        /\ DOMAIN kind' = 1..(Len(kind) + Len(fresh))
        /\ \A c \in DOMAIN kind : kind'[c] = kind[c]
        /\ calls \in Seq(1..(Len(kind) + Len(fresh)))
        /\ \A k, m \in DOMAIN calls :
             k < m => calls[m] \notin 1..Len(kind) /\ calls[k] < calls[m]
        /\ \A c \in 1..(Len(kind) + Len(fresh)) :
             c \notin 1..Len(kind) => \E k \in DOMAIN calls : calls[k] = c
    BY <2>2, BatchAsked
  <2>4. 1..Len(kind) \subseteq 1..(Len(kind) + Len(fresh))
    BY <2>3
  <2>. QED BY <2>3, <2>4
<1>n. DOMAIN kind' \subseteq Nat
  BY <1>2
<1> HIDE DEF calls
<1>3. listening \in DOMAIN made
  BY <1>1 DEF ToolsInv, ToolsTypeOK
<1>4. /\ calls \in Seq(DOMAIN kind') /\ Len(calls) \in Nat /\ DOMAIN calls = 1..Len(calls)
      /\ \A k \in DOMAIN calls : calls[k] \in DOMAIN kind'
  BY <1>2, LenProperties, ElementOfSeq
<1>5. /\ more \in Seq([conn : DOMAIN made', call : DOMAIN kind'])
      /\ Len(more) = Len(calls) /\ \A k \in DOMAIN calls : more[k].call = calls[k]
  BY <1>1, <1>3, <1>4
<1>6. asked \in Seq([conn : DOMAIN made', call : DOMAIN kind'])
  <2>1. [conn : DOMAIN made, call : DOMAIN kind] \subseteq [conn : DOMAIN made', call : DOMAIN kind']
    BY <1>1, <1>2
  <2>. QED BY <2>1, SeqMonotonic DEF ToolsInv, ToolsTypeOK
<1> HIDE DEF more
<1>7. /\ asked' \in Seq([conn : DOMAIN made', call : DOMAIN kind'])
      /\ Len(asked) \in Nat
      /\ DOMAIN asked = 1..Len(asked)
      /\ DOMAIN asked' = 1..(Len(asked) + Len(calls))
      /\ \A i \in DOMAIN asked : asked'[i] = asked[i]
      /\ \A k \in DOMAIN calls : asked'[Len(asked) + k].call = calls[k]
  <2>1. asked' \in Seq([conn : DOMAIN made', call : DOMAIN kind'])
        /\ Len(asked') = Len(asked) + Len(more)
    BY <1>1, <1>5, <1>6, ConcatProperties
  <2>2. \A i \in 1..(Len(asked) + Len(more)) :
          asked'[i] = IF i <= Len(asked) THEN asked[i] ELSE more[i - Len(asked)]
    BY <1>1, <1>5, <1>6, ConcatProperties
  <2>3. /\ Len(asked) \in Nat /\ DOMAIN asked = 1..Len(asked)
        /\ DOMAIN asked' = 1..(Len(asked) + Len(calls))
    BY <1>5, <1>6, <2>1, LenProperties
  <2>4. ASSUME NEW k \in DOMAIN calls PROVE asked'[Len(asked) + k].call = calls[k]
    <3>1. Len(asked) + k \in 1..(Len(asked) + Len(more)) /\ ~(Len(asked) + k <= Len(asked))
          /\ (Len(asked) + k) - Len(asked) = k
      BY <1>4, <1>5, <2>3
    <3>. QED BY <1>5, <2>2, <3>1
  <2>. QED BY <1>4, <1>5, <2>1, <2>2, <2>3, <2>4
<1>8. \A c \in DOMAIN kind : Once(c)' => Once(c) /\ \A k \in DOMAIN calls : calls[k] # c
  <2> SUFFICES ASSUME NEW c \in DOMAIN kind, Once(c)'
               PROVE  Once(c) /\ \A k \in DOMAIN calls : calls[k] # c
    OBVIOUS
  <2>1. Once(c)
    BY <1>4, <1>7 DEF Once
  <2>2. ASSUME NEW k \in DOMAIN calls, calls[k] = c PROVE FALSE
    <3>1. PICK i \in DOMAIN asked : asked[i].call = c
      BY DEF ToolsInv, AllAsked
    <3>2. Len(asked) + k \in DOMAIN asked' /\ i \in DOMAIN asked' /\ i # Len(asked) + k
      BY <1>4, <1>7
    <3>. QED BY <1>7, <2>2, <3>1, <3>2 DEF Once
  <2>. QED BY <2>1, <2>2
<1>9. AllAsked'
  <2> SUFFICES ASSUME NEW c \in DOMAIN kind' PROVE \E i \in DOMAIN asked' : asked'[i].call = c
    BY DEF AllAsked
  <2>1. CASE c \in DOMAIN kind
    <3>1. PICK i \in DOMAIN asked : asked[i].call = c
      BY <2>1 DEF ToolsInv, AllAsked
    <3>2. i \in DOMAIN asked'
      BY <1>4, <1>7
    <3>. QED BY <1>7, <3>1, <3>2
  <2>2. CASE c \notin DOMAIN kind
    <3>1. PICK k \in DOMAIN calls : calls[k] = c
      BY <1>2, <2>2
    <3>2. Len(asked) + k \in DOMAIN asked'
      BY <1>4, <1>7
    <3>. QED BY <1>7, <3>1, <3>2
  <2>. QED BY <2>1, <2>2
<1>10. /\ toolQueue \in Seq(ToolBatch') /\ batch \in ToolBatch'
       /\ toolQueue' \in Seq(ToolBatch')
  <2>0. \A x : x \in Seq(DOMAIN kind) => x \in Seq(DOMAIN kind')
    BY <1>2, SeqMonotonic
  <2>1. ToolBatch \subseteq ToolBatch'
    BY <1>1, <2>0 DEF ToolBatch
  <2>2. toolQueue \in Seq(ToolBatch')
    BY <2>1, SeqMonotonic DEF ToolsInv, ToolsTypeOK
  <2>3. batch \in ToolBatch'
    BY <1>1, <1>3, <1>4 DEF ToolBatch
  <2>. QED BY <1>1, <2>2, <2>3, AppendProperties
<1>11. /\ DOMAIN toolQueue' = DOMAIN toolQueue \cup {Len(toolQueue) + 1}
       /\ \A b \in DOMAIN toolQueue : toolQueue'[b] = toolQueue[b] /\ b < Len(toolQueue) + 1
       /\ toolQueue'[Len(toolQueue) + 1].calls = calls
       /\ Len(toolQueue) \in Nat
  BY <1>1, <1>10
<1>12. ToolsTypeOK'
  <2>1. /\ responses' \in Seq([call : DOMAIN kind', ok : BOOLEAN])
        /\ log' \in Seq(DOMAIN kind')
    <3>1. [call : DOMAIN kind, ok : BOOLEAN] \subseteq [call : DOMAIN kind', ok : BOOLEAN]
      BY <1>2
    <3>2. /\ responses \in Seq([call : DOMAIN kind, ok : BOOLEAN])
          /\ log \in Seq(DOMAIN kind)
      BY DEF ToolsInv, ToolsTypeOK
    <3>3. responses \in Seq([call : DOMAIN kind', ok : BOOLEAN])
      BY <3>1, <3>2, SeqMonotonic
    <3>4. log \in Seq(DOMAIN kind')
      BY <1>2, <3>2, SeqMonotonic
    <3>. QED BY <1>1, <3>3, <3>4
  <2>2. requests' \subseteq ToolRequest'
    BY <1>1, <1>2 DEF ToolsInv, ToolsTypeOK, ToolRequest
  <2>3. told' \subseteq [conn : DOMAIN made', call : DOMAIN kind', ok : BOOLEAN]
    BY <1>1, <1>2 DEF ToolsInv, ToolsTypeOK
  <2>. QED BY <1>1, <1>2, <1>7, <1>10, <2>1, <2>2, <2>3 DEF ToolsInv, ToolsTypeOK
<1>13. BatchRuns'
  <2>1. \A r \in requests : r.waited => running
    BY DEF ToolsInv, BatchRuns, Waiting
  <2>2. toolQueue' # <<>>
    BY <1>10, <1>11, EmptySeq
  <2>3. running => Batch' = Batch
    BY <1>1, <1>10, <1>11, BatchAtHead, TailOfQueue, <2>2 DEF Batch
  <2>. QED BY <1>1, <2>1, <2>2, <2>3 DEF ToolsInv, BatchRuns, Waiting
<1>14. IsInjective(log)'
  BY <1>1 DEF ToolsInv, IsInjective
<1>15. SuccessIsRecorded'
  <2>1. /\ \A t \in told : t.call \in DOMAIN kind
        /\ \A i \in DOMAIN responses : responses[i].call \in DOMAIN kind
        /\ \A r \in requests : r.call \in DOMAIN kind
    <3>1. responses \in Seq([call : DOMAIN kind, ok : BOOLEAN])
      BY DEF ToolsInv, ToolsTypeOK
    <3>2. \A i \in DOMAIN responses : responses[i] \in [call : DOMAIN kind, ok : BOOLEAN]
      BY <3>1, ElementOfSeq, LenProperties
    <3>. QED BY <3>2 DEF ToolsInv, ToolsTypeOK, ToolRequest
  <2>2. \A c \in DOMAIN kind : (Writes(c)' <=> Writes(c)) /\ (Recorded(c)' <=> Recorded(c))
    BY <1>1, <1>2 DEF Writes, Recorded
  <2>. QED BY <1>1, <2>1, <2>2 DEF ToolsInv, SuccessIsRecorded
<1>16. QueueInOrder'
  <2> SUFFICES ASSUME NEW b \in DOMAIN toolQueue', NEW e \in DOMAIN toolQueue',
                      NEW k \in DOMAIN toolQueue'[b].calls, NEW m \in DOMAIN toolQueue'[e].calls,
                      b < e \/ (b = e /\ k < m),
                      Once(toolQueue[b].calls[k])', Once(toolQueue[e].calls[m])'
               PROVE  toolQueue'[b].calls[k] < toolQueue'[e].calls[m]
    BY DEF QueueInOrder
  <2>1. CASE b \in DOMAIN toolQueue /\ e \in DOMAIN toolQueue
    <3>1. toolQueue[b].calls[k] \in DOMAIN kind /\ toolQueue[e].calls[m] \in DOMAIN kind
      BY <1>11, <2>1, CallsInQueue
    <3>2. Once(toolQueue[b].calls[k]) /\ Once(toolQueue[e].calls[m])
      BY <1>8, <1>11, <2>1, <3>1 DEF Once
    <3>. QED BY <1>11, <2>1, <3>2 DEF ToolsInv, QueueInOrder
  <2>2. CASE b \in DOMAIN toolQueue /\ e = Len(toolQueue) + 1
    <3>1. toolQueue'[b].calls[k] \in DOMAIN kind
      BY <1>11, <2>2, CallsInQueue
    <3>2. toolQueue'[e].calls[m] = calls[m] /\ m \in DOMAIN calls
      BY <1>11, <2>2
    <3>3. calls[m] \notin DOMAIN kind
      BY <1>8, <3>2, <1>11, <2>2
    <3>. QED BY <1>2, <1>4, <1>n, <3>1, <3>2, <3>3
  <2>3. CASE b = Len(toolQueue) + 1
    <3>1. e = b /\ k < m
      BY <1>11, <2>3
    <3>. QED BY <1>2, <1>11, <2>3, <3>1
  <2>. QED BY <1>11, <2>1, <2>2, <2>3
<1>17. \A c \in DOMAIN kind : Once(c)' /\ Pending(c)' => Pending(c)
  <2> SUFFICES ASSUME NEW c \in DOMAIN kind, Once(c)', Pending(c)' PROVE Pending(c)
    OBVIOUS
  <2>1. PICK b \in DOMAIN toolQueue' : \E k \in DOMAIN toolQueue'[b].calls :
          toolQueue'[b].calls[k] = c /\ (b > 1 \/ k > Len(responses))
    BY <1>1 DEF Pending
  <2>2. b \in DOMAIN toolQueue
    BY <1>8, <1>11, <2>1
  <2>. QED BY <1>11, <2>1, <2>2 DEF Pending
<1>18. \A d \in DOMAIN kind' : (HasCome(d)' => HasCome(d) /\ d \in DOMAIN kind)
                               /\ (Recorded(d)' => Recorded(d) /\ d \in DOMAIN kind)
  <2>1. (\A r \in requests : r.call \in DOMAIN kind) /\ (\A i \in DOMAIN log : log[i] \in DOMAIN kind)
    <3>1. log \in Seq(DOMAIN kind)
      BY DEF ToolsInv, ToolsTypeOK
    <3>. QED BY <3>1, ElementOfSeq, LenProperties DEF ToolsInv, ToolsTypeOK, ToolRequest
  <2>. QED BY <1>1, <2>1 DEF HasCome, Recorded, ToSet
<1>19. \A c \in DOMAIN kind', d \in DOMAIN kind : c < d => c \in DOMAIN kind
  BY <1>2, <1>n
<1>20. TurnsInOrder'
  BY <1>2, <1>8, <1>17, <1>18, <1>19 DEF ToolsInv, TurnsInOrder
<1>21. RecordedInOrder'
  <2> SUFFICES ASSUME NEW c \in DOMAIN kind', NEW d \in DOMAIN kind',
                      c < d, Once(c)', Once(d)', Writes(c)', Succeeded(c)', Recorded(d)'
               PROVE  RecordedBefore(c, d)'
    BY DEF RecordedInOrder
  <2>1. c \in DOMAIN kind /\ d \in DOMAIN kind /\ Recorded(d)
    BY <1>18, <1>19
  <2>2. Once(c) /\ Once(d) /\ Writes(c) /\ Succeeded(c)
    BY <1>1, <1>2, <1>8, <2>1 DEF Writes, Succeeded
  <2>3. RecordedBefore(c, d)
    BY <2>1, <2>2 DEF ToolsInv, RecordedInOrder
  <2>. QED BY <1>1, <2>3 DEF RecordedBefore
<1>. QED BY <1>9, <1>12, <1>13, <1>14, <1>15, <1>16, <1>20, <1>21 DEF ToolsInv

LEMMA ToolsNextInv == ToolsInv /\ [ToolsNext]_toolVars => ToolsInv'
<1> SUFFICES ASSUME ToolsInv, [ToolsNext]_toolVars PROVE ToolsInv'
  OBVIOUS
<1>1. CASE UNCHANGED toolVars
  <2>1. UNCHANGED callVars /\ UNCHANGED <<epoch, made, open, listening>>
    BY <1>1 DEF toolVars, callVars
  <2>2. CallsInv'
    BY <2>1, CallsFrame DEF ToolsInv, CallsInv
  <2>3. ToolsTypeOK'
    BY <2>1 DEF ToolsInv, ToolsTypeOK, ToolRequest, ToolBatch, callVars
  <2>. QED BY <2>2, <2>3 DEF ToolsInv, CallsInv
<1>2. CASE ToolsNext
  BY <1>2, ConnectionsInv, AskInv, BeginBatchInv, PostCallInv, ReceiveAnswerInv, LoseAnswerInv,
     FinishBatchInv, RouteCallInv, AppendCallInv DEF ToolsNext
<1>. QED BY <1>1, <1>2

\* However calls are asked again, given up or run for a connection that is gone, none is
\* recorded twice, one the model was told has succeeded is recorded, and two such calls
\* are recorded in the order they were asked (executeVoiceTool and the batches of
\* handleVoiceToolCalls).
THEOREM ToolCallsStayKept == ToolsSpec => []ToolCallsAreKept
<1>1. ToolsInv => ToolCallsAreKept
  <2> SUFFICES ASSUME ToolsInv PROVE ToolCallsAreKept
    OBVIOUS
  <2>1. ASSUME NEW t \in told, NEW u \in told,
               t.ok, u.ok, Writes(t.call), Writes(u.call),
               AskedOnce(t.call), AskedOnce(u.call), t.call < u.call
        PROVE  Place(t.call) < Place(u.call)
    <3>1. t.call \in DOMAIN kind /\ u.call \in DOMAIN kind
      BY DEF ToolsInv, ToolsTypeOK
    <3>2. Once(t.call) /\ Once(u.call)
      <4>1. ASSUME NEW c, AskedOnce(c) PROVE Once(c)
        <5> DEFINE places == {i \in DOMAIN asked : asked[i].call = c}
        <5>1. DOMAIN asked = 1..Len(asked) /\ Len(asked) \in Nat
          BY LenProperties DEF ToolsInv, ToolsTypeOK
        <5>a. IsFiniteSet(1..Len(asked)) /\ places \subseteq 1..Len(asked)
          BY <5>1, FS_Interval
        <5>b. Cardinality(places) = 1
          BY <4>1 DEF AskedOnce
        <5>2. IsFiniteSet(places) /\ Cardinality(places) = 1
          BY <5>a, <5>b, FS_Subset
        <5>3. PICK x : places = {x}
          BY <5>2, FS_Singleton
        <5>. QED BY <5>3 DEF Once
      <4>. QED BY <2>1, <4>1
    <3>3. Succeeded(t.call) /\ Recorded(u.call)
      BY <2>1 DEF Succeeded, ToolsInv, SuccessIsRecorded
    <3>4. PICK i \in DOMAIN log, j \in DOMAIN log : i < j /\ log[i] = t.call /\ log[j] = u.call
      BY <2>1, <3>1, <3>2, <3>3 DEF ToolsInv, RecordedInOrder, RecordedBefore
    <3>5. Place(t.call) = i /\ Place(u.call) = j
      BY <3>4 DEF Place, ToolsInv, IsInjective
    <3>. QED BY <3>4, <3>5
  <2>. QED BY <2>1 DEF ToolsInv, SuccessIsRecorded, ToolCallsAreKept
<1>. QED BY <1>1, ToolsInitInv, ToolsNextInv, PTL DEF ToolsSpec

===============================================================================
