------------------------------ MODULE PlanLibraryProofs ------------------------------
(***************************************************************************)
(* Proofs about PlanLibrary, for every set of jobs, requests, sources and   *)
(* proposals and every bound.                                              *)
(***************************************************************************)
EXTENDS PlanLibrary, FiniteSetTheorems, TLAPS

Adding == {"put", "insert", "unput"}
Deleting == {"mark", "unlink", "finalize"}

\* What a request works on.
TargetsTyped ==
  \A r \in Edit :
    /\ edits[r].at \in {"apply", "stale", "release"} => edits[r].target \in Proposal
    /\ edits[r].at \in Adding \cup Deleting => edits[r].target \in Source

TypeInv == LibraryTypeOK /\ TargetsTyped

-------------------------------------------------------------------------------
\* What the updates of one request, or of one run, do.

OthersEdits(r) == \A q \in Edit : q # r => edits'[q] = edits[q]
OthersRuns(j) == \A k \in Job : k # j => runs'[k] = runs[k]

LEMMA Beginning ==
  ASSUME edits \in [Edit -> EditRecord], NEW r \in Edit,
         NEW at \in EditStep, NEW base \in Nat,
         NEW target \in {Created} \cup Proposal \cup Source, Begins(r, at, base, target)
  PROVE  /\ edits' \in [Edit -> EditRecord] /\ OthersEdits(r)
         /\ edits'[r].at = at
         /\ edits'[r].base = base
         /\ edits'[r].target = target
BY DEF Begins, OthersEdits, EditRecord

LEMMA Going ==
  ASSUME edits \in [Edit -> EditRecord], NEW r \in Edit,
         NEW at \in EditStep, Goes(r, at)
  PROVE  /\ edits' \in [Edit -> EditRecord] /\ OthersEdits(r)
         /\ edits'[r].at = at
         /\ edits'[r].base = edits[r].base
         /\ edits'[r].seen = edits[r].seen
         /\ edits'[r].target = edits[r].target
BY DEF Goes, OthersEdits, EditRecord

LEMMA Ending ==
  ASSUME edits \in [Edit -> EditRecord], NEW r \in Edit, Ends(r)
  PROVE  /\ edits' \in [Edit -> EditRecord] /\ OthersEdits(r)
         /\ edits'[r].at = "done"
BY DEF Ends, NoEdit, OthersEdits, EditRecord, EditStep

LEMMA RunGoing ==
  ASSUME runs \in [Job -> RunRecord], NEW j \in Job, NEW at \in RunStep, RunGoes(j, at)
  PROVE  /\ runs' \in [Job -> RunRecord] /\ OthersRuns(j)
         /\ runs'[j].at = at
         /\ runs'[j].base = runs[j].base
         /\ runs'[j].seen = runs[j].seen
         /\ runs'[j].sources = runs[j].sources
BY DEF RunGoes, OthersRuns, RunRecord

LEMMA RunEnding ==
  ASSUME runs \in [Job -> RunRecord], NEW j \in Job, RunEnds(j)
  PROVE  /\ runs' \in [Job -> RunRecord] /\ OthersRuns(j)
         /\ runs'[j].at = "off" /\ runs'[j].sources = {}
BY DEF RunEnds, NoRun, FreshRun, OthersRuns, RunRecord, RunStep

LEMMA RunFailing ==
  ASSUME runs \in [Job -> RunRecord], NEW j \in Job, RunFails(j)
  PROVE  /\ runs' \in [Job -> RunRecord] /\ OthersRuns(j)
         /\ runs'[j].at = "catch" /\ runs'[j].sources = {}
BY DEF RunFails, FreshRun, OthersRuns, RunRecord, RunStep

LEMMA RunRestarting ==
  ASSUME runs \in [Job -> RunRecord], NEW j \in Job, RunRestarts(j)
  PROVE  /\ runs' \in [Job -> RunRecord] /\ OthersRuns(j)
         /\ runs'[j].at = "start" /\ runs'[j].sources = {}
BY DEF RunRestarts, FreshRun, OthersRuns, RunRecord, RunStep

LEMMA RunThrowing ==
  ASSUME runs \in [Job -> RunRecord], NEW j \in Job, Throws(j)
  PROVE  /\ runs' \in [Job -> RunRecord] /\ OthersRuns(j)
         /\ runs'[j].at \in {"off", "start", "final"} /\ runs'[j].sources = {}
<1>1. runs' = [runs EXCEPT ![j] = AfterThrow(runs[j])]
  BY DEF Throws
<1>2. /\ AfterThrow(runs[j]) \in RunRecord
      /\ AfterThrow(runs[j]).at \in {"off", "start", "final"}
      /\ AfterThrow(runs[j]).sources = {}
  BY SizeAssumption DEF AfterThrow, NoRun, FreshRun, RunRecord, RunStep
<1>. QED BY <1>1, <1>2 DEF OthersRuns


\* A request, or a run, reads the artifact.
LEMMA Rereading ==
  ASSUME edits \in [Edit -> EditRecord], NEW r \in Edit, NEW seen \in Nat,
         edits' = [edits EXCEPT ![r].at = "save", ![r].seen = seen]
  PROVE  /\ edits' \in [Edit -> EditRecord] /\ OthersEdits(r)
         /\ edits'[r].at = "save" /\ edits'[r].seen = seen
         /\ edits'[r].base = edits[r].base
<1>1. edits' = [edits EXCEPT ![r] = [edits[r] EXCEPT !.at = "save", !.seen = seen]]
  BY DEF EditRecord
<1>2. [edits[r] EXCEPT !.at = "save", !.seen = seen] \in EditRecord
  BY DEF EditRecord, EditStep
<1>. QED BY <1>1, <1>2 DEF OthersEdits, EditRecord

LEMMA RunReading ==
  ASSUME runs \in [Job -> RunRecord], NEW j \in Job, NEW base \in Nat,
         NEW read \in SUBSET Source,
         runs' = [runs EXCEPT ![j] = [@ EXCEPT !.at = "compile", !.base = base,
                                              !.sources = read]]
  PROVE  /\ runs' \in [Job -> RunRecord] /\ OthersRuns(j)
         /\ runs'[j].at = "compile" /\ runs'[j].base = base /\ runs'[j].sources = read
<1>1. [runs[j] EXCEPT !.at = "compile", !.base = base, !.sources = read] \in RunRecord
  BY DEF RunRecord, RunStep
<1>. QED BY <1>1 DEF OthersRuns, RunRecord

LEMMA RunRereading ==
  ASSUME runs \in [Job -> RunRecord], NEW j \in Job, NEW seen \in Nat,
         runs' = [runs EXCEPT ![j].at = "commit", ![j].seen = seen]
  PROVE  /\ runs' \in [Job -> RunRecord] /\ OthersRuns(j)
         /\ runs'[j].at = "commit" /\ runs'[j].seen = seen
         /\ runs'[j].base = runs[j].base /\ runs'[j].sources = runs[j].sources
<1>1. runs' = [runs EXCEPT ![j] = [runs[j] EXCEPT !.at = "commit", !.seen = seen]]
  BY DEF RunRecord
<1>2. [runs[j] EXCEPT !.at = "commit", !.seen = seen] \in RunRecord
  BY DEF RunRecord, RunStep
<1>. QED BY <1>1, <1>2 DEF OthersRuns, RunRecord

-------------------------------------------------------------------------------
LEMMA TypeStep == TypeInv /\ [LibraryNext]_libraryVars => TypeInv'
<1>. SUFFICES ASSUME TypeInv, [LibraryNext]_libraryVars PROVE TypeInv'
  OBVIOUS
<1>. USE DEF TypeInv, LibraryTypeOK, compile, library
<1>1. CASE UNCHANGED libraryVars
  BY <1>1 DEF libraryVars, TargetsTyped
<1>2. ASSUME NEW r \in Edit, EditNext(r) PROVE TypeInv'
  <2>1. ASSUME NEW checked \in BOOLEAN, SaveBegin(r, checked) PROVE TypeInv'
    <3>1. /\ OthersEdits(r) /\ edits' \in [Edit -> EditRecord]
          /\ edits'[r].at = "reread"
      BY <2>1, Beginning DEF SaveBegin, EditStep
    <3>2. LibraryTypeOK'
      BY <2>1, <3>1 DEF SaveBegin
    <3>3. TargetsTyped'
      BY <3>1 DEF TargetsTyped, OthersEdits, Adding, Deleting
    <3>. QED BY <3>2, <3>3
  <2>2. ASSUME SaveReread(r) PROVE TypeInv'
    <3>1. /\ OthersEdits(r) /\ edits' \in [Edit -> EditRecord]
          /\ edits'[r].at \in {"save", "done"}
      <4>1. CASE Ends(r)
        BY <4>1, Ending
      <4>2. CASE edits' = [edits EXCEPT ![r].at = "save", ![r].seen = artifact.version]
        <5>1. artifact.version \in Nat
          OBVIOUS
        <5>. QED BY <4>2, <5>1, Rereading
      <4>. QED BY <2>2, <4>1, <4>2 DEF SaveReread
    <3>2. LibraryTypeOK'
      BY <2>2, <3>1 DEF SaveReread
    <3>3. TargetsTyped'
      BY <3>1 DEF TargetsTyped, OthersEdits, Adding, Deleting
    <3>. QED BY <3>2, <3>3
  <2>3. ASSUME SaveBatch(r) PROVE TypeInv'
    <3>1. /\ OthersEdits(r) /\ edits' \in [Edit -> EditRecord]
          /\ edits'[r].at \in {"cleanup", "done"}
      BY <2>3, Ending, Going DEF SaveBatch, EditStep
    <3>2. NewRow(edits[r].base, edits[r].seen, r, {}) \in Row
      BY DEF NewRow, Row, Author, EditRecord
    <3>3. edits[r].base + 1 \in Nat /\ r \in Author
      BY DEF EditRecord, Author
    <3>4. artifact' \in [version : Nat, by : Author] /\ history' \subseteq Row
      BY <2>3, <3>2, <3>3 DEF SaveBatch
    <3>5. LibraryTypeOK'
      BY <2>3, <3>1, <3>4 DEF SaveBatch
    <3>6. TargetsTyped'
      BY <3>1 DEF TargetsTyped, OthersEdits, Adding, Deleting
    <3>. QED BY <3>5, <3>6
  <2>4. ASSUME SaveCleanup(r) PROVE TypeInv'
    <3>1. LibraryTypeOK'
      BY <2>4, Ending DEF SaveCleanup, Unused, EditStep
    <3>2. TargetsTyped'
      BY <2>4, Ending DEF SaveCleanup, EditStep, TargetsTyped, OthersEdits, Adding,
           Deleting
    <3>. QED BY <3>1, <3>2
  <2>5. ASSUME ProposeBegin(r) PROVE TypeInv'
    <3>1. /\ OthersEdits(r) /\ edits' \in [Edit -> EditRecord]
          /\ edits'[r].at = "propose"
      BY <2>5, Beginning DEF ProposeBegin, EditStep
    <3>2. LibraryTypeOK'
      BY <2>5, <3>1 DEF ProposeBegin
    <3>3. TargetsTyped'
      BY <3>1 DEF TargetsTyped, OthersEdits, Adding, Deleting
    <3>. QED BY <3>2, <3>3
  <2>6. ASSUME NEW p \in Proposal, ProposeInsert(r, p) PROVE TypeInv'
    <3>1. /\ OthersEdits(r) /\ edits' \in [Edit -> EditRecord]
          /\ edits'[r].at = "done"
      BY <2>6, Ending DEF ProposeInsert
    <3>2. [status |-> "pending", base |-> edits[r].base]
            \in [status : {"none", "pending", "applying", "applied", "stale"}, base : Nat]
      BY DEF EditRecord
    <3>3. LibraryTypeOK'
      BY <2>6, <3>1, <3>2 DEF ProposeInsert
    <3>4. TargetsTyped'
      BY <3>1 DEF TargetsTyped, OthersEdits, Adding, Deleting
    <3>. QED BY <3>3, <3>4
  <2>7. ASSUME NEW p \in Proposal, ConfirmBegin(r, p) PROVE TypeInv'
    <3>1. /\ OthersEdits(r) /\ edits' \in [Edit -> EditRecord]
          /\ edits'[r].at \in {"apply", "stale"} /\ edits'[r].target \in Proposal
      BY <2>7, Beginning DEF ConfirmBegin, EditStep
    <3>2. LibraryTypeOK'
      BY <2>7, <3>1 DEF ConfirmBegin
    <3>3. TargetsTyped'
      BY <3>1 DEF TargetsTyped, OthersEdits, Adding, Deleting
    <3>. QED BY <3>2, <3>3
  <2>8. ASSUME ConfirmApply(r) PROVE TypeInv'
    <3>1. LibraryTypeOK'
      BY <2>8, Ending, Going DEF ConfirmApply, NewRow, Author, Row, EditStep,
           TargetsTyped
    <3>2. TargetsTyped'
      BY <2>8, Ending, Going DEF ConfirmApply, EditStep, TargetsTyped, OthersEdits,
           Adding, Deleting
    <3>. QED BY <3>1, <3>2
  <2>9. ASSUME ConfirmStale(r) PROVE TypeInv'
    <3>1. LibraryTypeOK'
      BY <2>9, Ending DEF ConfirmStale, EditStep
    <3>2. TargetsTyped'
      BY <2>9, Ending DEF ConfirmStale, EditStep, TargetsTyped, OthersEdits, Adding,
           Deleting
    <3>. QED BY <3>1, <3>2
  <2>10. ASSUME NEW s \in Source, AddBegin(r, s) PROVE TypeInv'
    <3>1. /\ OthersEdits(r) /\ edits' \in [Edit -> EditRecord]
          /\ edits'[r].at = "put" /\ edits'[r].target \in Source
      BY <2>10, Beginning DEF AddBegin, EditStep
    <3>2. LibraryTypeOK'
      BY <2>10, <3>1 DEF AddBegin
    <3>3. TargetsTyped'
      BY <3>1 DEF TargetsTyped, OthersEdits, Adding, Deleting
    <3>. QED BY <3>2, <3>3
  <2>11. ASSUME AddPut(r) PROVE TypeInv'
    <3>1. /\ OthersEdits(r) /\ edits' \in [Edit -> EditRecord]
          /\ \/ edits'[r].at = "insert" /\ edits'[r].target = edits[r].target
             \/ edits'[r].at = "done"
      BY <2>11, Ending, Going DEF AddPut, EditStep
    <3>2. edits[r].target \in Source
      BY <2>11 DEF AddPut, TargetsTyped, Adding
    <3>3. LibraryTypeOK'
      BY <2>11, <3>1, <3>2 DEF AddPut
    <3>4. TargetsTyped'
      BY <3>1, <3>2 DEF TargetsTyped, OthersEdits, Adding, Deleting
    <3>. QED BY <3>3, <3>4
  <2>12. ASSUME AddInsert(r) PROVE TypeInv'
    <3>1. LibraryTypeOK'
      BY <2>12, Ending, Going DEF AddInsert, EditStep
    <3>2. TargetsTyped'
      BY <2>12, Ending, Going DEF AddInsert, EditStep, TargetsTyped, OthersEdits,
           Adding, Deleting
    <3>. QED BY <3>1, <3>2
  <2>13. ASSUME AddUnput(r) PROVE TypeInv'
    <3>1. LibraryTypeOK'
      BY <2>13, Ending DEF AddUnput, EditStep
    <3>2. TargetsTyped'
      BY <2>13, Ending DEF AddUnput, EditStep, TargetsTyped, OthersEdits, Adding,
           Deleting
    <3>. QED BY <3>1, <3>2
  <2>14. ASSUME NEW s \in Source, DeleteBegin(r, s) PROVE TypeInv'
    <3>1. /\ OthersEdits(r) /\ edits' \in [Edit -> EditRecord]
          /\ edits'[r].at = "mark" /\ edits'[r].target \in Source
      BY <2>14, Beginning DEF DeleteBegin, EditStep
    <3>2. LibraryTypeOK'
      BY <2>14, <3>1 DEF DeleteBegin
    <3>3. TargetsTyped'
      BY <3>1 DEF TargetsTyped, OthersEdits, Adding, Deleting
    <3>. QED BY <3>2, <3>3
  <2>15. ASSUME DeleteMark(r) PROVE TypeInv'
    <3>1. LibraryTypeOK'
      BY <2>15, Ending, Going DEF DeleteMark, EditStep
    <3>2. TargetsTyped'
      BY <2>15, Ending, Going DEF DeleteMark, EditStep, TargetsTyped, OthersEdits,
           Adding, Deleting
    <3>. QED BY <3>1, <3>2
  <2>16. ASSUME DeleteUnlink(r) PROVE TypeInv'
    <3>1. LibraryTypeOK'
      BY <2>16, Going DEF DeleteUnlink, EditStep
    <3>2. TargetsTyped'
      BY <2>16, Going DEF DeleteUnlink, EditStep, TargetsTyped, OthersEdits, Adding,
           Deleting
    <3>. QED BY <3>1, <3>2
  <2>17. ASSUME DeleteFinalize(r) PROVE TypeInv'
    <3>1. LibraryTypeOK'
      BY <2>17, Ending DEF DeleteFinalize, EditStep
    <3>2. TargetsTyped'
      BY <2>17, Ending DEF DeleteFinalize, EditStep, TargetsTyped, OthersEdits,
           Adding, Deleting
    <3>. QED BY <3>1, <3>2
  <2>18. ASSUME CrashRequest(r) PROVE TypeInv'
    <3>1. LibraryTypeOK'
      BY <2>18, SizeAssumption DEF CrashRequest, NoEdit, Fault, EditStep,
           EditRecord
    <3>2. TargetsTyped'
      BY <2>18 DEF CrashRequest, NoEdit, EditStep, TargetsTyped, OthersEdits,
           Adding, Deleting, EditRecord
    <3>. QED BY <3>1, <3>2
  <2>. QED BY <1>2, <2>1, <2>2, <2>3, <2>4, <2>5, <2>6, <2>7, <2>8, <2>9, <2>10, <2>11,
       <2>12, <2>13, <2>14, <2>15, <2>16, <2>17, <2>18 DEF EditNext
<1>3. ASSUME NEW j \in Job, JobNext(j) \/ RunNext(j) PROVE TypeInv'
  <2>1. ASSUME StartCompile(j) PROVE TypeInv'
    <3>1. /\ SweptClarifications \in [Job -> {"none", "pending", "due", "answered", "expired"}]
          /\ SweptJobs \in [Job -> JobStatus]
      BY DEF SweptClarifications, SweptJobs, JobStatus
    <3>2. jobs' \in [Job -> JobStatus] /\ dispatch' \in [Job -> DispatchStep]
      BY <2>1, <3>1 DEF StartCompile, JobStatus, DispatchStep
    <3>3. LibraryTypeOK'
      BY <2>1, <3>1, <3>2 DEF StartCompile
    <3>4. TargetsTyped'
      BY <2>1 DEF StartCompile, TargetsTyped
    <3>. QED BY <3>3, <3>4
  <2>2. ASSUME ClarificationDue(j) PROVE TypeInv'
    <3>1. LibraryTypeOK'
      BY <2>2 DEF ClarificationDue
    <3>2. TargetsTyped'
      BY <2>2 DEF ClarificationDue, TargetsTyped
    <3>. QED BY <3>1, <3>2
  <2>3. ASSUME Cancel(j) PROVE TypeInv'
    <3>1. LibraryTypeOK'
      BY <2>3 DEF Cancel, TransitionJob, UpdateJob, JobStatus
    <3>2. TargetsTyped'
      BY <2>3 DEF Cancel, TargetsTyped
    <3>. QED BY <3>1, <3>2
  <2>4. ASSUME Terminate(j) PROVE TypeInv'
    <3>1. LibraryTypeOK'
      BY <2>4, RunEnding DEF Terminate
    <3>2. TargetsTyped'
      BY <2>4 DEF Terminate, TargetsTyped
    <3>. QED BY <3>1, <3>2
  <2>5. ASSUME NEW resumeCompile \in BOOLEAN, Answer(j, resumeCompile) PROVE TypeInv'
    <3>1. LibraryTypeOK'
      BY <2>5 DEF Answer, AnswerExpired, AnswerInTime, Requeued, MayAnswer, JobStatus,
           DispatchStep
    <3>2. TargetsTyped'
      BY <2>5 DEF Answer, TargetsTyped
    <3>. QED BY <3>1, <3>2
  <2>6. ASSUME DispatchList(j) PROVE TypeInv'
    <3>1. LibraryTypeOK'
      BY <2>6 DEF DispatchList, DispatchGoes, DispatchStep
    <3>2. TargetsTyped'
      BY <2>6 DEF DispatchList, TargetsTyped
    <3>. QED BY <3>1, <3>2
  <2>7. ASSUME DispatchCreate(j) PROVE TypeInv'
    <3>1. runs' \in [Job -> RunRecord]
      BY <2>7, RunGoing DEF DispatchCreate, RunStep
    <3>2. dispatch' \in [Job -> DispatchStep]
      BY <2>7 DEF DispatchCreate, DispatchGoes, DispatchStep
    <3>3. instance' \in [Job -> BOOLEAN] /\ faults' \in 0..MaxFaults
      BY <2>7, SizeAssumption DEF DispatchCreate, Fault
    <3>4. LibraryTypeOK'
      BY <2>7, <3>1, <3>2, <3>3 DEF DispatchCreate
    <3>5. TargetsTyped'
      BY <2>7 DEF DispatchCreate, TargetsTyped
    <3>. QED BY <3>4, <3>5
  <2>8. ASSUME DispatchFail(j) PROVE TypeInv'
    <3>1. LibraryTypeOK'
      BY <2>8 DEF DispatchFail, DispatchGoes, UpdateJob, DispatchStep, JobStatus
    <3>2. TargetsTyped'
      BY <2>8 DEF DispatchFail, TargetsTyped
    <3>. QED BY <3>1, <3>2
  <2>9. ASSUME CrashDispatch(j) PROVE TypeInv'
    <3>1. LibraryTypeOK'
      BY <2>9, SizeAssumption DEF CrashDispatch, DispatchGoes, Fault, DispatchStep
    <3>2. TargetsTyped'
      BY <2>9 DEF CrashDispatch, TargetsTyped
    <3>. QED BY <3>1, <3>2
  <2>10. ASSUME RunBegin(j) PROVE TypeInv'
    <3>1. runs' \in [Job -> RunRecord]
      <4>1. CASE RunEnds(j)
        BY <4>1, RunEnding
      <4>2. CASE Throws(j)
        BY <4>2, RunThrowing
      <4>3. CASE runs' = [runs EXCEPT ![j] = [@ EXCEPT !.at = "compile",
                                                       !.base = artifact.version,
                                                       !.sources = Ready]]
        <5>1. artifact.version \in Nat /\ Ready \in SUBSET Source
          BY DEF Ready
        <5>. QED BY <4>3, <5>1, RunReading
      <4>. QED BY <2>10, <4>1, <4>2, <4>3 DEF RunBegin
    <3>2. jobs' \in [Job -> JobStatus]
      BY <2>10 DEF RunBegin, UpdateJob, TransitionJob, JobStatus
    <3>3. LibraryTypeOK'
      BY <2>10, <3>1, <3>2 DEF RunBegin
    <3>4. TargetsTyped'
      BY <2>10 DEF RunBegin, TargetsTyped
    <3>. QED BY <3>3, <3>4
  <2>11. ASSUME RunCompile(j) PROVE TypeInv'
    <3>1. LibraryTypeOK'
      BY <2>11, RunFailing, RunGoing, SizeAssumption DEF RunCompile, Fault, RunStep, RunAt
    <3>2. TargetsTyped'
      BY <2>11 DEF RunCompile, TargetsTyped
    <3>. QED BY <3>1, <3>2
  <2>12. ASSUME RunClarify(j) PROVE TypeInv'
    <3>1. runs' \in [Job -> RunRecord]
      BY <2>12, RunGoing DEF RunClarify, RunStep
    <3>2. runs[j].sources \in SUBSET Source
      BY DEF RunRecord
    <3>3. /\ clarification' \in [Job -> {"none", "pending", "due", "answered", "expired"}]
          /\ questioned' \in [Job -> SUBSET Source]
      BY <2>12, <3>2 DEF RunClarify, CreateClarification
    <3>4. LibraryTypeOK'
      BY <2>12, <3>1, <3>3 DEF RunClarify
    <3>5. TargetsTyped'
      BY <2>12 DEF RunClarify, TargetsTyped
    <3>. QED BY <3>4, <3>5
  <2>13. ASSUME RunWait(j) PROVE TypeInv'
    <3>1. LibraryTypeOK'
      BY <2>13, RunEnding, RunFailing DEF RunWait, TransitionJob, UpdateJob, JobStatus,
           RunAt
    <3>2. TargetsTyped'
      BY <2>13 DEF RunWait, TargetsTyped
    <3>. QED BY <3>1, <3>2
  <2>14. ASSUME RunInterpret(j) PROVE TypeInv'
    <3>1. runs' \in [Job -> RunRecord]
      <4>1. CASE RunFails(j)
        BY <4>1, RunFailing
      <4>2. CASE runs' = [runs EXCEPT ![j].at = "commit", ![j].seen = artifact.version]
        <5>1. artifact.version \in Nat
          OBVIOUS
        <5>. QED BY <4>2, <5>1, RunRereading
      <4>. QED BY <2>14, <4>1, <4>2 DEF RunInterpret
    <3>2. runs[j].sources \in SUBSET Source
      BY DEF RunRecord
    <3>3. assumed' \in [Job -> SUBSET Source]
      BY <2>14, <3>2 DEF RunInterpret, SaveInterpretation
    <3>4. LibraryTypeOK'
      BY <2>14, <3>1, <3>3 DEF RunInterpret
    <3>5. TargetsTyped'
      BY <2>14 DEF RunInterpret, TargetsTyped
    <3>. QED BY <3>4, <3>5
  <2>15. ASSUME RunCommit(j) PROVE TypeInv'
    <3>1. runs' \in [Job -> RunRecord]
      BY <2>15, RunFailing, RunGoing, RunEnding, RunRestarting DEF RunCommit, RunStep
    <3>2. /\ runs[j].base + 1 \in Nat /\ j \in Author
          /\ NewRow(runs[j].base, runs[j].seen, j, runs[j].sources) \in Row
      BY DEF RunRecord, Author, Row, NewRow
    <3>3. artifact' \in [version : Nat, by : Author] /\ history' \subseteq Row
      BY <2>15, <3>2 DEF RunCommit
    <3>4. jobs' \in [Job -> JobStatus] /\ faults' \in 0..MaxFaults
      BY <2>15, SizeAssumption DEF RunCommit, JobStatus, Fault
    <3>5. LibraryTypeOK'
      BY <2>15, <3>1, <3>3, <3>4 DEF RunCommit
    <3>6. TargetsTyped'
      BY <2>15 DEF RunCommit, TargetsTyped
    <3>. QED BY <3>5, <3>6
  <2>16. ASSUME RunLost(j) PROVE TypeInv'
    <3>1. LibraryTypeOK'
      BY <2>16, RunFailing DEF RunLost, JobStatus, RunAt
    <3>2. TargetsTyped'
      BY <2>16 DEF RunLost, TargetsTyped
    <3>. QED BY <3>1, <3>2
  <2>17. ASSUME RunCatch(j) PROVE TypeInv'
    <3>1. LibraryTypeOK'
      BY <2>17, RunEnding, RunThrowing, RunGoing DEF RunCatch, RunStep, RunAt
    <3>2. TargetsTyped'
      BY <2>17 DEF RunCatch, TargetsTyped
    <3>. QED BY <3>1, <3>2
  <2>18. ASSUME RunFinal(j) PROVE TypeInv'
    <3>1. LibraryTypeOK'
      BY <2>18, RunGoing, RunEnding DEF RunFinal, RunStep, RunAt
    <3>2. TargetsTyped'
      BY <2>18 DEF RunFinal, TargetsTyped
    <3>. QED BY <3>1, <3>2
  <2>19. ASSUME RunFail(j) PROVE TypeInv'
    <3>1. LibraryTypeOK'
      BY <2>19, RunEnding DEF RunFail, UpdateJob, JobStatus, RunAt
    <3>2. TargetsTyped'
      BY <2>19 DEF RunFail, TargetsTyped
    <3>. QED BY <3>1, <3>2
  <2>20. ASSUME CrashRun(j) PROVE TypeInv'
    <3>1. LibraryTypeOK'
      BY <2>20, RunEnding, RunRestarting, RunGoing, SizeAssumption DEF CrashRun, Fault,
           RunStep
    <3>2. TargetsTyped'
      BY <2>20 DEF CrashRun, TargetsTyped
    <3>. QED BY <3>1, <3>2
  <2>. QED BY <1>3, <2>1, <2>2, <2>3, <2>4, <2>5, <2>6, <2>7, <2>8, <2>9, <2>10, <2>11,
       <2>12, <2>13, <2>14, <2>15, <2>16, <2>17, <2>18, <2>19, <2>20 DEF JobNext, RunNext
<1>4. CASE ReadJob
  BY <1>4 DEF ReadJob, SweptClarifications, SweptJobs, JobStatus, TargetsTyped
<1>. QED BY <1>1, <1>2, <1>3, <1>4 DEF LibraryNext

-------------------------------------------------------------------------------
\* The line of versions: whoever is about to write has read the current plan, if it can
\* write at all.

Working == {"compile", "clarify", "wait", "interpret", "commit", "lost"}

RequestsOnTheLine ==
  \A r \in Edit :
    /\ edits[r].at = "reread" => edits[r].base \in First..artifact.version
    /\ edits[r].at = "save" =>
         edits[r].seen = edits[r].base /\ edits[r].base \in First..artifact.version
    /\ edits[r].at = "cleanup" =>
         /\ edits[r].base = artifact.version
         /\ \E row \in history : row.version = artifact.version + 1 /\ row.by = r

RunsOnTheLine ==
  \A j \in Job :
    /\ runs[j].at \in Working => runs[j].base \in First..artifact.version
    /\ runs[j].at = "commit" => runs[j].seen = runs[j].base

LineInv ==
  /\ artifact.version >= First
  /\ HistoryIsALine
  /\ RequestsOnTheLine
  /\ RunsOnTheLine

\* A step of a request that writes no version.
LEMMA LineRequest ==
  ASSUME TypeInv, LineInv, NEW r \in Edit, OthersEdits(r),
         UNCHANGED <<artifact, history, runs>>,
         edits[r].at \notin {"cleanup", "crashed"}, edits'[r].at # "cleanup",
         edits'[r].at = "reread" => edits'[r].base \in First..artifact.version,
         edits'[r].at = "save" => /\ edits'[r].seen = edits'[r].base
                                     /\ edits'[r].base \in First..artifact.version
  PROVE  LineInv'
<1>1. HistoryIsALine'
  BY DEF LineInv, HistoryIsALine, Taken, OthersEdits
<1>2. RequestsOnTheLine'
  BY DEF LineInv, RequestsOnTheLine, OthersEdits
<1>. QED BY <1>1, <1>2 DEF LineInv, RunsOnTheLine

\* A step of a run that writes no version.
LEMMA LineRun ==
  ASSUME TypeInv, LineInv, NEW j \in Job, OthersRuns(j),
         UNCHANGED <<artifact, history, edits>>,
         runs'[j].at \in Working => runs'[j].base \in First..artifact.version,
         runs'[j].at = "commit" => runs'[j].seen = runs'[j].base
  PROVE  LineInv'
<1>1. HistoryIsALine'
  BY DEF LineInv, HistoryIsALine, Taken
<1>2. RequestsOnTheLine'
  BY DEF LineInv, RequestsOnTheLine
<1>3. RunsOnTheLine'
  BY DEF LineInv, RunsOnTheLine, OthersRuns
<1>. QED BY <1>1, <1>2, <1>3 DEF LineInv

\* A version number that is free and is not past the next one is the next one.
LEMMA FreeIsNext ==
  ASSUME TypeInv, LineInv, NEW base \in First..artifact.version, ~Taken(base + 1)
  PROVE  base = artifact.version
<1>1. artifact.version \in Nat /\ First \in Nat
  BY FirstAssumption DEF TypeInv, LibraryTypeOK
<1>2. base + 1 \notin First..artifact.version
  BY DEF LineInv, HistoryIsALine
<1>. QED BY <1>1, <1>2

\* The next version, written together with its row.
LEMMA Appending ==
  ASSUME TypeInv, LineInv, NEW by \in Author, NEW refs, ~Taken(artifact.version + 1),
         artifact' = [version |-> artifact.version + 1, by |-> by],
         history' = history \cup {NewRow(artifact.version, artifact.version, by, refs)}
  PROVE  /\ artifact'.version = artifact.version + 1 /\ artifact'.version >= First
         /\ HistoryIsALine'
         /\ \A r \in Edit : edits[r].at # "cleanup"
<1>. DEFINE V == artifact.version
            new == NewRow(V, V, by, refs)
<1>1. V \in Nat /\ First \in Nat /\ V >= First /\ \A row \in history : row.version \in Nat
  BY FirstAssumption DEF TypeInv, LibraryTypeOK, Row, LineInv
<1>2. /\ new.version = V + 1 /\ new.parent = V /\ new.base = V /\ new.by = by
      /\ artifact'.version = V + 1 /\ artifact'.by = by
  BY DEF NewRow
<1>3. \A row \in history : row.version <= V
  BY <1>1 DEF LineInv, HistoryIsALine, Taken
<1>4. \A row \in history' : row \in history \/ row = new
  OBVIOUS
<1>5. \A row \in history' :
        /\ row.by # Created => row.parent = row.version - 1 /\ row.base = row.parent
        /\ row.version <= artifact'.version
        /\ \A other \in history' : other.version = row.version => other = row
  <2>1. TAKE row \in history'
  <2>2. row.by # Created => row.parent = row.version - 1 /\ row.base = row.parent
    BY <1>1, <1>2, <1>4 DEF LineInv, HistoryIsALine
  <2>3. row.version <= artifact'.version
    BY <1>1, <1>2, <1>3, <1>4
  <2>4. ASSUME NEW other \in history', other.version = row.version PROVE other = row
    <3>1. CASE row = new \/ other = new
      BY <3>1, <2>4, <1>1, <1>2, <1>3, <1>4
    <3>2. CASE row \in history /\ other \in history
      BY <3>2, <2>4 DEF LineInv, HistoryIsALine
    <3>. QED BY <3>1, <3>2, <1>4
  <2>. QED BY <2>2, <2>3, <2>4
<1>6. \A v \in First..artifact'.version : Taken(v)'
  <2>1. TAKE v \in First..artifact'.version
  <2>2. CASE v = V + 1
    BY <2>2, <1>2 DEF Taken
  <2>3. CASE v # V + 1
    <3>1. v \in First..V
      BY <2>3, <1>1, <1>2
    <3>. QED BY <3>1 DEF Taken, LineInv, HistoryIsALine
  <2>. QED BY <2>2, <2>3
<1>7. \E row \in history' : row.version = artifact'.version /\ row.by = artifact'.by
  BY <1>2
<1>8. \A row \in history' : ~(row.version > artifact'.version)
  BY <1>1, <1>2, <1>3, <1>4
<1>9. HistoryIsALine'
  BY <1>5, <1>6, <1>7, <1>8 DEF HistoryIsALine
<1>10. ASSUME NEW r \in Edit, edits[r].at = "cleanup" PROVE FALSE
  BY <1>10 DEF LineInv, RequestsOnTheLine, Taken
<1>. QED BY <1>1, <1>2, <1>9, <1>10

LEMMA LineStep == TypeInv /\ TypeInv' /\ LineInv /\ [LibraryNext]_libraryVars => LineInv'
<1>. SUFFICES ASSUME TypeInv, TypeInv', LineInv, [LibraryNext]_libraryVars PROVE LineInv'
  OBVIOUS
<1>0. /\ edits \in [Edit -> EditRecord] /\ runs \in [Job -> RunRecord]
      /\ artifact.version \in Nat /\ artifact'.version \in Nat
      /\ First \in Nat /\ artifact.version >= First
  BY FirstAssumption DEF TypeInv, LibraryTypeOK, LineInv
<1>1. CASE UNCHANGED libraryVars
  BY <1>1 DEF libraryVars, LineInv, HistoryIsALine, Taken, RequestsOnTheLine, RunsOnTheLine
<1>2. ASSUME NEW r \in Edit, EditNext(r) PROVE LineInv'
  <2>1. ASSUME NEW checked \in BOOLEAN, SaveBegin(r, checked) PROVE LineInv'
    <3>1. /\ OthersEdits(r) /\ edits'[r].at = "reread"
          /\ edits'[r].base = artifact.version
      BY <2>1, <1>0, Beginning DEF SaveBegin, EditStep
    <3>. QED BY <2>1, <1>0, <3>1, LineRequest DEF SaveBegin
  <2>2. ASSUME SaveReread(r) PROVE LineInv'
    <3>1. CASE Ends(r)
      BY <2>2, <1>0, <3>1, Ending, LineRequest DEF SaveReread
    <3>2. CASE /\ edits[r].base + 1 > artifact.version
               /\ edits' = [edits EXCEPT ![r].at = "save",
                                               ![r].seen = artifact.version]
      <4>1. /\ OthersEdits(r) /\ edits'[r].at = "save"
            /\ edits'[r].seen = artifact.version
            /\ edits'[r].base = edits[r].base
        BY <1>0, <3>2, Rereading
      <4>2. edits[r].base \in Nat /\ edits[r].base \in First..artifact.version
        BY <2>2, <1>0 DEF SaveReread, EditRecord, LineInv, RequestsOnTheLine
      <4>3. edits[r].base = artifact.version
        BY <1>0, <3>2, <4>2
      <4>. QED BY <2>2, <1>0, <4>1, <4>3, LineRequest DEF SaveReread
    <3>. QED BY <2>2, <3>1, <3>2 DEF SaveReread
  <2>3. ASSUME SaveBatch(r) PROVE LineInv'
    <3>. DEFINE V == artifact.version
    <3>1. CASE Taken(edits[r].base + 1)
      BY <2>3, <1>0, <3>1, Ending, LineRequest DEF SaveBatch
    <3>2. CASE ~Taken(edits[r].base + 1)
      <4>1. edits[r].base = V /\ edits[r].seen = V
        <5>1. /\ edits[r].base \in Nat /\ edits[r].base \in First..V
              /\ edits[r].seen = edits[r].base
          BY <2>3, <1>0 DEF SaveBatch, EditRecord, LineInv, RequestsOnTheLine
        <5>. QED BY <3>2, <5>1, FreeIsNext
      <4>2. /\ ~Taken(V + 1)
            /\ history' = history \cup {NewRow(V, V, r, {})}
            /\ runs' = runs
        BY <2>3, <3>2, <4>1 DEF SaveBatch
      <4>3. CASE artifact' = [version |-> edits[r].base + 1, by |-> r] /\ Ends(r)
        <5>1. r \in Author
          BY DEF Author
        <5>2. /\ artifact'.version = V + 1 /\ artifact'.version >= First
              /\ HistoryIsALine'
              /\ \A q \in Edit : edits[q].at # "cleanup"
          BY <4>1, <4>2, <4>3, <5>1, Appending
        <5>3. OthersEdits(r) /\ edits'[r].at = "done"
          BY <1>0, <4>3, Ending
        <5>4. RequestsOnTheLine'
          <6>1. \A q \in Edit : edits[q].base \in Nat
            BY <1>0 DEF EditRecord
          <6>. QED BY <1>0, <5>2, <5>3, <6>1 DEF RequestsOnTheLine, LineInv, OthersEdits
        <5>5. RunsOnTheLine'
          <6>1. \A k \in Job : runs[k].base \in Nat
            BY <1>0 DEF RunRecord
          <6>. QED BY <1>0, <4>2, <5>2, <6>1 DEF RunsOnTheLine, LineInv
        <5>. QED BY <5>2, <5>4, <5>5 DEF LineInv
      <4>4. CASE Goes(r, "cleanup") /\ artifact' = artifact
        <5>. DEFINE new == NewRow(V, V, r, {})
        <5>1. /\ OthersEdits(r) /\ edits'[r].at = "cleanup" /\ edits'[r].base = V
          BY <1>0, <4>1, <4>4, Going DEF EditStep
        <5>2. /\ new.version = V + 1 /\ new.parent = V /\ new.base = V /\ new.by = r
          BY DEF NewRow
        <5>3. \A row \in history : row.version <= V
          <6>1. \A row \in history : row.version \in Nat
            BY DEF TypeInv, LibraryTypeOK, Row
          <6>. QED BY <1>0, <4>2, <6>1 DEF LineInv, HistoryIsALine, Taken
        <5>4. \A row \in history' : row \in history \/ row = new
          BY <4>2
        <5>5. \A row \in history' :
                /\ row.by # Created => row.parent = row.version - 1 /\ row.base = row.parent
                /\ \A other \in history' : other.version = row.version => other = row
                /\ row.version > artifact'.version =>
                     /\ row.version = artifact'.version + 1
                     /\ row.by \in Edit
                     /\ edits'[row.by].at \in {"cleanup", "crashed"}
          <6>1. TAKE row \in history'
          <6>2. row.by # Created => row.parent = row.version - 1 /\ row.base = row.parent
            BY <1>0, <5>2, <5>4 DEF LineInv, HistoryIsALine
          <6>3. ASSUME row.version > artifact'.version
                PROVE  /\ row.version = artifact'.version + 1
                       /\ row.by \in Edit
                       /\ edits'[row.by].at \in {"cleanup", "crashed"}
            <7>1. row = new
              <8>1. \A old \in history : old.version \in Nat
                BY DEF TypeInv, LibraryTypeOK, Row
              <8>. QED BY <6>3, <1>0, <4>4, <5>3, <5>4, <8>1
            <7>. QED BY <7>1, <4>4, <5>1, <5>2
          <6>4. ASSUME NEW other \in history', other.version = row.version PROVE other = row
            <7>1. CASE row = new \/ other = new
              BY <7>1, <6>4, <1>0, <5>2, <5>3, <5>4
            <7>2. CASE row \in history /\ other \in history
              BY <7>2, <6>4 DEF LineInv, HistoryIsALine
            <7>. QED BY <7>1, <7>2, <5>4
          <6>. QED BY <6>2, <6>3, <6>4
        <5>6. \A v \in First..artifact'.version : Taken(v)'
          BY <4>2, <4>4 DEF LineInv, HistoryIsALine, Taken
        <5>7. \E row \in history' : row.version = artifact'.version /\ row.by = artifact'.by
          BY <4>2, <4>4 DEF LineInv, HistoryIsALine
        <5>8. HistoryIsALine'
          BY <5>5, <5>6, <5>7 DEF HistoryIsALine
        <5>9. RequestsOnTheLine'
          BY <4>2, <4>4, <5>1, <5>2 DEF RequestsOnTheLine, LineInv, OthersEdits
        <5>. QED BY <4>2, <4>4, <5>8, <5>9 DEF LineInv, RunsOnTheLine
      <4>. QED BY <2>3, <3>2, <4>3, <4>4 DEF SaveBatch
    <3>. QED BY <3>1, <3>2
  <2>4. ASSUME SaveCleanup(r) PROVE LineInv'
    <3>. DEFINE V == artifact.version
    <3>1. OthersEdits(r) /\ edits'[r].at = "done"
      BY <2>4, <1>0, Ending DEF SaveCleanup
    <3>2. /\ edits[r].base = V
          /\ \E row \in history : row.version = V + 1 /\ row.by = r
      BY <2>4 DEF SaveCleanup, LineInv, RequestsOnTheLine
    <3>3. \A row \in history : row \in history' <=> row.version # V + 1
      BY <2>4, <3>2 DEF SaveCleanup, Unused
    <3>4. history' \subseteq history /\ artifact' = artifact /\ runs' = runs
      BY <2>4 DEF SaveCleanup
    <3>5. \A row \in history' : ~(row.version > V)
      BY <3>3, <3>4 DEF LineInv, HistoryIsALine
    <3>6. \A v \in First..V : Taken(v)'
      <4>1. TAKE v \in First..V
      <4>2. v # V + 1 /\ Taken(v)
        BY <1>0 DEF LineInv, HistoryIsALine
      <4>. QED BY <3>3, <4>2 DEF Taken
    <3>7. \E row \in history' : row.version = V /\ row.by = artifact.by
      BY <1>0, <3>3 DEF LineInv, HistoryIsALine
    <3>8. HistoryIsALine'
      BY <3>4, <3>5, <3>6, <3>7 DEF LineInv, HistoryIsALine
    <3>9. ASSUME NEW q \in Edit, q # r, edits[q].at = "cleanup" PROVE FALSE
      BY <3>2, <3>9 DEF LineInv, RequestsOnTheLine, HistoryIsALine
    <3>10. RequestsOnTheLine'
      BY <3>1, <3>4, <3>9 DEF RequestsOnTheLine, LineInv, OthersEdits
    <3>. QED BY <3>4, <3>8, <3>10 DEF LineInv, RunsOnTheLine
  <2>5. ASSUME ProposeBegin(r) PROVE LineInv'
    BY <2>5, <1>0, Beginning, LineRequest DEF ProposeBegin, EditStep
  <2>6. ASSUME NEW p \in Proposal, ProposeInsert(r, p) PROVE LineInv'
    BY <2>6, <1>0, Ending, LineRequest DEF ProposeInsert, EditStep
  <2>7. ASSUME NEW p \in Proposal, ConfirmBegin(r, p) PROVE LineInv'
    <3>1. proposals[p].base \in Nat
      BY DEF TypeInv, LibraryTypeOK
    <3>2. OthersEdits(r) /\ edits'[r].at \in {"apply", "stale"}
      BY <2>7, <1>0, <3>1, Beginning DEF ConfirmBegin, EditStep
    <3>. QED BY <2>7, <1>0, <3>2, LineRequest DEF ConfirmBegin
  <2>8. ASSUME ConfirmApply(r) PROVE LineInv'
    <3>. DEFINE V == artifact.version
                p == edits[r].target
                base == edits[r].base
    <3>1. CASE Ends(r) /\ UNCHANGED <<artifact, history>>
      BY <2>8, <1>0, <3>1, Ending, LineRequest DEF ConfirmApply
    <3>2. CASE Goes(r, "release") /\ UNCHANGED <<artifact, history>>
      BY <2>8, <1>0, <3>2, Going, LineRequest DEF ConfirmApply, EditStep
    <3>3. CASE /\ V = base /\ ~Taken(base + 1) /\ Ends(r)
               /\ artifact' = [version |-> base + 1, by |-> p]
               /\ history' = history \cup {NewRow(base, base, p, {})}
      <4>1. p \in Author
        BY <2>8 DEF ConfirmApply, TypeInv, TargetsTyped, Author
      <4>2. /\ artifact'.version = V + 1 /\ artifact'.version >= First
            /\ HistoryIsALine'
            /\ \A q \in Edit : edits[q].at # "cleanup"
        BY <3>3, <4>1, Appending
      <4>3. OthersEdits(r) /\ edits'[r].at = "done"
        BY <1>0, <3>3, Ending
      <4>4. RequestsOnTheLine'
        <5>1. \A q \in Edit : edits[q].base \in Nat
          BY <1>0 DEF EditRecord
        <5>. QED BY <1>0, <4>2, <4>3, <5>1 DEF RequestsOnTheLine, LineInv, OthersEdits
      <4>5. RunsOnTheLine'
        <5>1. \A k \in Job : runs[k].base \in Nat
          BY <1>0 DEF RunRecord
        <5>2. runs' = runs
          BY <2>8 DEF ConfirmApply
        <5>. QED BY <1>0, <4>2, <5>1, <5>2 DEF RunsOnTheLine, LineInv
      <4>. QED BY <4>2, <4>4, <4>5 DEF LineInv
    <3>. QED BY <2>8, <3>1, <3>2, <3>3 DEF ConfirmApply
  <2>9. ASSUME ConfirmStale(r) PROVE LineInv'
    BY <2>9, <1>0, Ending, LineRequest DEF ConfirmStale, EditStep
  <2>10. ASSUME NEW s \in Source, AddBegin(r, s) PROVE LineInv'
    BY <2>10, <1>0, Beginning, LineRequest DEF AddBegin, EditStep
  <2>11. ASSUME AddPut(r) PROVE LineInv'
    BY <2>11, <1>0, Ending, Going, LineRequest DEF AddPut, EditStep
  <2>12. ASSUME AddInsert(r) PROVE LineInv'
    BY <2>12, <1>0, Ending, Going, LineRequest DEF AddInsert, EditStep
  <2>13. ASSUME AddUnput(r) PROVE LineInv'
    BY <2>13, <1>0, Ending, LineRequest DEF AddUnput, EditStep
  <2>14. ASSUME NEW s \in Source, DeleteBegin(r, s) PROVE LineInv'
    BY <2>14, <1>0, Beginning, LineRequest DEF DeleteBegin, EditStep
  <2>15. ASSUME DeleteMark(r) PROVE LineInv'
    BY <2>15, <1>0, Ending, Going, LineRequest DEF DeleteMark, EditStep
  <2>16. ASSUME DeleteUnlink(r) PROVE LineInv'
    BY <2>16, <1>0, Going, LineRequest DEF DeleteUnlink, EditStep
  <2>17. ASSUME DeleteFinalize(r) PROVE LineInv'
    BY <2>17, <1>0, Ending, LineRequest DEF DeleteFinalize, EditStep
  <2>18. ASSUME CrashRequest(r) PROVE LineInv'
    <3>1. /\ OthersEdits(r) /\ edits'[r].at = "crashed"
          /\ UNCHANGED <<artifact, history, runs>>
      BY <2>18, <1>0 DEF CrashRequest, NoEdit, OthersEdits
    <3>2. HistoryIsALine'
      BY <3>1 DEF LineInv, HistoryIsALine, Taken, OthersEdits
    <3>3. RequestsOnTheLine'
      BY <3>1 DEF LineInv, RequestsOnTheLine, OthersEdits
    <3>. QED BY <3>1, <3>2, <3>3 DEF LineInv, RunsOnTheLine
  <2>. QED BY <1>2, <2>1, <2>2, <2>3, <2>4, <2>5, <2>6, <2>7, <2>8, <2>9, <2>10, <2>11,
       <2>12, <2>13, <2>14, <2>15, <2>16, <2>17, <2>18 DEF EditNext
<1>3. ASSUME NEW j \in Job, JobNext(j) \/ RunNext(j) PROVE LineInv'
  <2>1. ASSUME StartCompile(j) PROVE LineInv'
    BY <2>1 DEF StartCompile, LineInv, HistoryIsALine, Taken, RequestsOnTheLine,
         RunsOnTheLine
  <2>2. ASSUME ClarificationDue(j) PROVE LineInv'
    BY <2>2 DEF ClarificationDue, LineInv, HistoryIsALine, Taken, RequestsOnTheLine,
         RunsOnTheLine
  <2>3. ASSUME Cancel(j) PROVE LineInv'
    BY <2>3 DEF Cancel, LineInv, HistoryIsALine, Taken, RequestsOnTheLine, RunsOnTheLine
  <2>4. ASSUME Terminate(j) PROVE LineInv'
    BY <2>4, <1>0, RunEnding, LineRun DEF Terminate, RunStep, Working
  <2>5. ASSUME NEW resumeCompile \in BOOLEAN, Answer(j, resumeCompile) PROVE LineInv'
    BY <2>5 DEF Answer, LineInv, HistoryIsALine, Taken, RequestsOnTheLine, RunsOnTheLine
  <2>6. ASSUME DispatchList(j) PROVE LineInv'
    BY <2>6 DEF DispatchList, LineInv, HistoryIsALine, Taken, RequestsOnTheLine,
         RunsOnTheLine
  <2>7. ASSUME DispatchCreate(j) PROVE LineInv'
    <3>1. CASE runs' = runs
      BY <2>7, <3>1 DEF DispatchCreate, LineInv, HistoryIsALine, Taken, RequestsOnTheLine,
           RunsOnTheLine
    <3>2. CASE RunGoes(j, "start")
      BY <2>7, <1>0, <3>2, RunGoing, LineRun DEF DispatchCreate, RunStep, Working
    <3>. QED BY <2>7, <3>1, <3>2 DEF DispatchCreate
  <2>8. ASSUME DispatchFail(j) PROVE LineInv'
    BY <2>8 DEF DispatchFail, LineInv, HistoryIsALine, Taken, RequestsOnTheLine,
         RunsOnTheLine
  <2>9. ASSUME CrashDispatch(j) PROVE LineInv'
    BY <2>9 DEF CrashDispatch, LineInv, HistoryIsALine, Taken, RequestsOnTheLine,
         RunsOnTheLine
  <2>10. ASSUME RunBegin(j) PROVE LineInv'
    <3>1. CASE RunEnds(j)
      BY <2>10, <1>0, <3>1, RunEnding, LineRun DEF RunBegin, Working
    <3>2. CASE Throws(j)
      BY <2>10, <1>0, <3>2, RunThrowing, LineRun DEF RunBegin, Working
    <3>3. CASE runs' = [runs EXCEPT ![j] = [@ EXCEPT !.at = "compile",
                                                     !.base = artifact.version,
                                                     !.sources = Ready]]
      <4>1. Ready \in SUBSET Source
        BY DEF Ready
      <4>2. /\ OthersRuns(j) /\ runs'[j].at = "compile"
            /\ runs'[j].base = artifact.version
        BY <1>0, <3>3, <4>1, RunReading
      <4>. QED BY <2>10, <1>0, <4>2, LineRun DEF RunBegin, Working
    <3>. QED BY <2>10, <3>1, <3>2, <3>3 DEF RunBegin
  <2>11. ASSUME RunCompile(j) PROVE LineInv'
    <3>1. runs[j].base \in First..artifact.version
      BY <2>11 DEF RunCompile, RunAt, LineInv, RunsOnTheLine, Working
    <3>. QED
      BY <2>11, <1>0, <3>1, RunFailing, RunGoing, LineRun DEF RunCompile, RunStep, Working
  <2>12. ASSUME RunClarify(j) PROVE LineInv'
    <3>1. runs[j].base \in First..artifact.version
      BY <2>12 DEF RunClarify, RunAt, LineInv, RunsOnTheLine, Working
    <3>. QED
      BY <2>12, <1>0, <3>1, RunGoing, LineRun DEF RunClarify, RunStep, Working
  <2>13. ASSUME RunWait(j) PROVE LineInv'
    BY <2>13, <1>0, RunEnding, RunFailing, LineRun DEF RunWait, RunStep, Working
  <2>14. ASSUME RunInterpret(j) PROVE LineInv'
    <3>1. CASE RunFails(j)
      BY <2>14, <1>0, <3>1, RunFailing, LineRun DEF RunInterpret, Working
    <3>2. CASE /\ runs[j].base + 1 > artifact.version
               /\ runs' = [runs EXCEPT ![j].at = "commit", ![j].seen = artifact.version]
      <4>1. /\ OthersRuns(j) /\ runs'[j].at = "commit"
            /\ runs'[j].seen = artifact.version
            /\ runs'[j].base = runs[j].base
        BY <1>0, <3>2, RunRereading
      <4>2. runs[j].base \in Nat /\ runs[j].base \in First..artifact.version
        BY <2>14, <1>0 DEF RunInterpret, RunAt, RunRecord, LineInv, RunsOnTheLine, Working
      <4>3. runs[j].base = artifact.version
        BY <1>0, <3>2, <4>2
      <4>. QED BY <2>14, <1>0, <4>1, <4>3, LineRun DEF RunInterpret, Working
    <3>. QED BY <2>14, <3>1, <3>2 DEF RunInterpret
  <2>15. ASSUME RunCommit(j) PROVE LineInv'
    <3>. DEFINE V == artifact.version
    <3>1. CASE RunFails(j) /\ UNCHANGED <<artifact, history>>
      BY <2>15, <1>0, <3>1, RunFailing, LineRun DEF RunCommit, Working
    <3>2. CASE RunGoes(j, "lost") /\ UNCHANGED <<artifact, history>>
      <4>1. runs[j].base \in First..artifact.version
        BY <2>15, <1>0 DEF RunCommit, RunAt, LineInv, RunsOnTheLine, Working
      <4>. QED BY <2>15, <1>0, <3>2, <4>1, RunGoing, LineRun DEF RunCommit, Working, RunStep
    <3>3. CASE /\ V = runs[j].seen /\ ~Taken(runs[j].base + 1)
               /\ artifact' = [version |-> runs[j].base + 1, by |-> j]
               /\ history' = history \cup
                    {NewRow(runs[j].base, runs[j].seen, j, runs[j].sources)}
               /\ RunEnds(j) \/ RunRestarts(j)
      <4>1. runs[j].base = V /\ runs[j].seen = V
        BY <2>15, <1>0, <3>3 DEF RunCommit, RunAt, LineInv, RunsOnTheLine
      <4>2. j \in Author
        BY DEF Author
      <4>3. /\ artifact'.version = V + 1 /\ artifact'.version >= First
            /\ HistoryIsALine'
            /\ \A q \in Edit : edits[q].at # "cleanup"
        <5>1. /\ ~Taken(V + 1)
              /\ artifact' = [version |-> V + 1, by |-> j]
              /\ history' = history \cup {NewRow(V, V, j, runs[j].sources)}
          BY <3>3, <4>1
        <5>. QED BY <4>2, <5>1, Appending
      <4>4. RequestsOnTheLine'
        <5>1. \A q \in Edit : edits[q].base \in Nat
          BY <1>0 DEF EditRecord
        <5>2. edits' = edits
          BY <2>15 DEF RunCommit
        <5>. QED BY <1>0, <4>3, <5>1, <5>2 DEF RequestsOnTheLine, LineInv
      <4>5. OthersRuns(j) /\ runs'[j].at \notin Working
        BY <1>0, <3>3, RunEnding, RunRestarting DEF Working
      <4>6. RunsOnTheLine'
        <5>1. \A k \in Job : runs[k].base \in Nat
          BY <1>0 DEF RunRecord
        <5>. QED BY <1>0, <4>3, <4>5, <5>1 DEF RunsOnTheLine, LineInv, OthersRuns, Working
      <4>. QED BY <4>3, <4>4, <4>6 DEF LineInv
    <3>. QED BY <2>15, <3>1, <3>2, <3>3 DEF RunCommit
  <2>16. ASSUME RunLost(j) PROVE LineInv'
    BY <2>16, <1>0, RunFailing, LineRun DEF RunLost, RunStep, Working
  <2>17. ASSUME RunCatch(j) PROVE LineInv'
    BY <2>17, <1>0, RunEnding, RunThrowing, RunGoing, LineRun DEF RunCatch, RunStep, Working
  <2>18. ASSUME RunFinal(j) PROVE LineInv'
    BY <2>18, <1>0, RunGoing, RunEnding, LineRun DEF RunFinal, RunStep, Working
  <2>19. ASSUME RunFail(j) PROVE LineInv'
    BY <2>19, <1>0, RunEnding, LineRun DEF RunFail, RunStep, Working
  <2>20. ASSUME CrashRun(j) PROVE LineInv'
    BY <2>20, <1>0, RunEnding, RunRestarting, RunGoing, LineRun DEF CrashRun, RunStep,
         Working
  <2>. QED BY <1>3, <2>1, <2>2, <2>3, <2>4, <2>5, <2>6, <2>7, <2>8, <2>9, <2>10, <2>11,
       <2>12, <2>13, <2>14, <2>15, <2>16, <2>17, <2>18, <2>19, <2>20 DEF JobNext, RunNext
<1>4. CASE ReadJob
  BY <1>4 DEF ReadJob, LineInv, HistoryIsALine, Taken, RequestsOnTheLine, RunsOnTheLine
<1>. QED BY <1>1, <1>2, <1>3, <1>4 DEF LibraryNext

-------------------------------------------------------------------------------
\* Jobs and their runs.

Settled == {"completed", "failed", "cancelled", "expired"}
Quiet(j) == clarification[j] \notin {"pending", "due"}

JobOK(j) ==
  /\ jobs[j] = "waiting" => ~Quiet(j)
  /\ jobs[j] = "queued" => Quiet(j)
  /\ jobs[j] = "none" => Quiet(j) /\ runs[j].at = "off" /\ dispatch[j] = "none"
  /\ runs[j].at \in Working => jobs[j] \in Settled \cup {"running"}
  /\ runs[j].at \in {"compile", "clarify"} => Quiet(j)
  /\ runs[j].at = "wait" /\ jobs[j] = "running" => clarification[j] = "pending"

JobInv == \A j \in Job : JobOK(j)

OneActive == \A j, k \in Job : jobs[j] \in Active /\ jobs[k] \in Active => j = k

OthersJobs(j) ==
  \A k \in Job : k # j =>
    jobs'[k] = jobs[k] /\ clarification'[k] = clarification[k] /\ dispatch'[k] = dispatch[k]

\* A step of one job disturbs no other.
LEMMA JobLocal ==
  ASSUME JobInv, NEW j \in Job, OthersJobs(j), OthersRuns(j), JobOK(j)'
  PROVE  JobInv'
BY DEF JobInv, JobOK, Quiet, OthersJobs, OthersRuns

LEMMA JobStep == TypeInv /\ JobInv /\ [LibraryNext]_libraryVars => JobInv'
<1>. SUFFICES ASSUME TypeInv, JobInv, [LibraryNext]_libraryVars PROVE JobInv'
  OBVIOUS
<1>0. /\ edits \in [Edit -> EditRecord] /\ runs \in [Job -> RunRecord]
      /\ jobs \in [Job -> JobStatus] /\ dispatch \in [Job -> DispatchStep]
      /\ clarification \in [Job -> {"none", "pending", "due", "answered", "expired"}]
  BY DEF TypeInv, LibraryTypeOK
<1>1. CASE UNCHANGED libraryVars
  BY <1>1 DEF libraryVars, compile, JobInv, JobOK, Quiet
<1>2. ASSUME NEW r \in Edit, EditNext(r) PROVE JobInv'
  <2>1. UNCHANGED <<jobs, clarification, dispatch, runs>>
    BY <1>2 DEF EditNext, compile, SaveBegin, SaveReread, SaveBatch, SaveCleanup,
         ProposeBegin, ProposeInsert, ConfirmBegin, ConfirmApply, ConfirmStale, AddBegin,
         AddPut, AddInsert, AddUnput, DeleteBegin, DeleteMark, DeleteUnlink, DeleteFinalize,
         CrashRequest
  <2>. QED BY <2>1 DEF JobInv, JobOK, Quiet
<1>3. ASSUME NEW j \in Job, JobNext(j) \/ RunNext(j) PROVE JobInv'
  <2>1. ASSUME StartCompile(j) PROVE JobInv'
    <3>1. ASSUME NEW k \in Job PROVE JobOK(k)'
      <4>1. JobOK(k) /\ jobs[j] = "none" /\ runs' = runs
        BY <2>1 DEF JobInv, StartCompile
      <4>2. /\ clarification'[k] = IF clarification[k] = "due" THEN "expired"
                                   ELSE clarification[k]
            /\ \/ /\ jobs'[k] = IF clarification[k] = "due" /\ jobs[k] = "waiting"
                                THEN "expired" ELSE jobs[k]
                  /\ dispatch'[k] = dispatch[k]
               \/ k = j /\ jobs'[k] = "queued"
        BY <2>1, <1>0 DEF StartCompile, SweptClarifications, SweptJobs
      <4>. QED BY <4>1, <4>2 DEF JobOK, Quiet, Settled
    <3>. QED BY <3>1 DEF JobInv
  <2>2. ASSUME ClarificationDue(j) PROVE JobInv'
    <3>1. runs' = runs
      BY <2>2 DEF ClarificationDue
    <3>2. OthersJobs(j)
      BY <2>2, <1>0 DEF ClarificationDue, OthersJobs, compile
    <3>3. JobOK(j)'
      BY <2>2, <1>0, <3>1 DEF ClarificationDue, compile, JobInv, JobOK, Quiet, Settled,
           Working, RunAt, Active
    <3>. QED BY <3>1, <3>2, <3>3, JobLocal DEF OthersRuns
  <2>3. ASSUME Cancel(j) PROVE JobInv'
    <3>1. runs' = runs
      BY <2>3 DEF Cancel
    <3>2. OthersJobs(j)
      BY <2>3, <1>0 DEF Cancel, TransitionJob, UpdateJob, OthersJobs, compile
    <3>3. JobOK(j)'
      BY <2>3, <1>0, <3>1 DEF Cancel, TransitionJob, UpdateJob, compile, JobInv, JobOK,
           Quiet, Settled, Working, RunAt, Active
    <3>. QED BY <3>1, <3>2, <3>3, JobLocal DEF OthersRuns
  <2>4. ASSUME Terminate(j) PROVE JobInv'
    <3>1. OthersRuns(j) /\ runs'[j].at \in {"off"}
      BY <2>4, <1>0, RunEnding DEF Terminate, RunStep
    <3>2. OthersJobs(j)
      BY <2>4, <1>0 DEF Terminate, OthersJobs, compile
    <3>3. JobOK(j)'
      BY <2>4, <1>0, <3>1 DEF Terminate, compile, JobInv, JobOK, Quiet, Settled, Working,
           RunAt, Active
    <3>. QED BY <3>1, <3>2, <3>3, JobLocal
  <2>5. ASSUME NEW resumeCompile \in BOOLEAN, Answer(j, resumeCompile) PROVE JobInv'
    <3>1. runs' = runs
      BY <2>5 DEF Answer
    <3>2. OthersJobs(j)
      BY <2>5, <1>0 DEF Answer, AnswerExpired, AnswerInTime, Requeued, MayAnswer,
           OthersJobs, compile
    <3>3. JobOK(j)'
      BY <2>5, <1>0, <3>1 DEF Answer, AnswerExpired, AnswerInTime, Requeued, MayAnswer,
           compile, JobInv, JobOK, Quiet, Settled, Working, RunAt, Active
    <3>. QED BY <3>1, <3>2, <3>3, JobLocal DEF OthersRuns
  <2>6. ASSUME DispatchList(j) PROVE JobInv'
    <3>1. runs' = runs
      BY <2>6 DEF DispatchList
    <3>2. OthersJobs(j)
      BY <2>6, <1>0 DEF DispatchList, DispatchGoes, OthersJobs, compile
    <3>3. JobOK(j)'
      BY <2>6, <1>0, <3>1 DEF DispatchList, DispatchGoes, compile, JobInv, JobOK, Quiet,
           Settled, Working, RunAt, Active
    <3>. QED BY <3>1, <3>2, <3>3, JobLocal DEF OthersRuns
  <2>7. ASSUME DispatchCreate(j) PROVE JobInv'
    <3>1. OthersRuns(j) /\ \/ runs'[j].at = runs[j].at
                              \/ runs'[j].at \in {"start"}
      BY <2>7, <1>0, RunGoing DEF DispatchCreate, RunStep, OthersRuns
    <3>2. OthersJobs(j)
      BY <2>7, <1>0 DEF DispatchCreate, DispatchGoes, OthersJobs, compile
    <3>3. JobOK(j)'
      BY <2>7, <1>0, <3>1 DEF DispatchCreate, DispatchGoes, compile, JobInv, JobOK, Quiet,
           Settled, Working, RunAt, Active
    <3>. QED BY <3>1, <3>2, <3>3, JobLocal
  <2>8. ASSUME DispatchFail(j) PROVE JobInv'
    <3>1. runs' = runs
      BY <2>8 DEF DispatchFail
    <3>2. OthersJobs(j)
      BY <2>8, <1>0 DEF DispatchFail, DispatchGoes, UpdateJob, OthersJobs, compile
    <3>3. JobOK(j)'
      BY <2>8, <1>0, <3>1 DEF DispatchFail, DispatchGoes, UpdateJob, compile, JobInv, JobOK,
           Quiet, Settled, Working, RunAt, Active
    <3>. QED BY <3>1, <3>2, <3>3, JobLocal DEF OthersRuns
  <2>9. ASSUME CrashDispatch(j) PROVE JobInv'
    <3>1. runs' = runs
      BY <2>9 DEF CrashDispatch
    <3>2. OthersJobs(j)
      BY <2>9, <1>0 DEF CrashDispatch, DispatchGoes, OthersJobs, compile
    <3>3. JobOK(j)'
      BY <2>9, <1>0, <3>1 DEF CrashDispatch, DispatchGoes, compile, JobInv, JobOK, Quiet,
           Settled, Working, RunAt, Active
    <3>. QED BY <3>1, <3>2, <3>3, JobLocal DEF OthersRuns
  <2>10. ASSUME RunBegin(j) PROVE JobInv'
    <3>1. /\ OthersRuns(j)
          /\ runs'[j].at \in {"off", "start", "final", "compile"}
          /\ runs'[j].at = "compile" =>
               jobs[j] \in {"queued", "running"} /\ ~Asks(j) /\ jobs'[j] = "running"
      <4>1. CASE RunEnds(j)
        BY <1>0, <4>1, RunEnding
      <4>2. CASE Throws(j)
        BY <1>0, <4>2, RunThrowing
      <4>3. CASE /\ ~Asks(j)
                 /\ TransitionJob(j, {"queued", "running"}, "running")
                 /\ runs' = [runs EXCEPT ![j] = [@ EXCEPT !.at = "compile",
                                                          !.base = artifact.version,
                                                          !.sources = Ready]]
        <5>1. artifact.version \in Nat /\ Ready \in SUBSET Source
          BY DEF TypeInv, LibraryTypeOK, Ready
        <5>2. OthersRuns(j) /\ runs'[j].at = "compile"
          BY <1>0, <4>3, <5>1, RunReading
        <5>. QED BY <1>0, <4>3, <5>2 DEF TransitionJob, UpdateJob
      <4>. QED BY <2>10, <4>1, <4>2, <4>3 DEF RunBegin
    <3>2. OthersJobs(j)
      BY <2>10, <1>0 DEF RunBegin, UpdateJob, TransitionJob, OthersJobs, compile
    <3>3. JobOK(j)'
      BY <2>10, <1>0, <3>1 DEF RunBegin, UpdateJob, TransitionJob, compile, JobInv, JobOK,
           Quiet, Settled, Working, RunAt, Active, Asks
    <3>. QED BY <3>1, <3>2, <3>3, JobLocal
  <2>11. ASSUME RunCompile(j) PROVE JobInv'
    <3>1. OthersRuns(j) /\ runs'[j].at \in {"catch", "clarify", "interpret"}
      BY <2>11, <1>0, RunFailing, RunGoing DEF RunCompile, RunStep
    <3>2. OthersJobs(j)
      BY <2>11, <1>0 DEF RunCompile, OthersJobs, compile
    <3>3. JobOK(j)'
      BY <2>11, <1>0, <3>1 DEF RunCompile, compile, JobInv, JobOK, Quiet, Settled, Working,
           RunAt, Active
    <3>. QED BY <3>1, <3>2, <3>3, JobLocal
  <2>12. ASSUME RunClarify(j) PROVE JobInv'
    <3>1. OthersRuns(j) /\ runs'[j].at \in {"wait"}
      BY <2>12, <1>0, RunGoing DEF RunClarify, RunStep
    <3>2. OthersJobs(j)
      BY <2>12, <1>0 DEF RunClarify, CreateClarification, OthersJobs, compile
    <3>3. JobOK(j)'
      BY <2>12, <1>0, <3>1 DEF RunClarify, CreateClarification, compile, JobInv, JobOK,
           Quiet, Settled, Working, RunAt, Active
    <3>. QED BY <3>1, <3>2, <3>3, JobLocal
  <2>13. ASSUME RunWait(j) PROVE JobInv'
    <3>1. OthersRuns(j) /\ runs'[j].at \in {"off", "catch"}
      BY <2>13, <1>0, RunEnding, RunFailing DEF RunWait, RunStep
    <3>2. OthersJobs(j)
      BY <2>13, <1>0 DEF RunWait, TransitionJob, UpdateJob, OthersJobs, compile
    <3>3. JobOK(j)'
      BY <2>13, <1>0, <3>1 DEF RunWait, TransitionJob, UpdateJob, compile, JobInv, JobOK,
           Quiet, Settled, Working, RunAt, Active
    <3>. QED BY <3>1, <3>2, <3>3, JobLocal
  <2>14. ASSUME RunInterpret(j) PROVE JobInv'
    <3>1. OthersRuns(j) /\ runs'[j].at \in {"catch", "commit"}
      <4>1. artifact.version \in Nat
        BY DEF TypeInv, LibraryTypeOK
      <4>. QED BY <2>14, <1>0, <4>1, RunFailing, RunRereading DEF RunInterpret
    <3>2. OthersJobs(j)
      BY <2>14, <1>0 DEF RunInterpret, OthersJobs, compile
    <3>3. JobOK(j)'
      BY <2>14, <1>0, <3>1 DEF RunInterpret, compile, JobInv, JobOK, Quiet, Settled,
           Working, RunAt, Active
    <3>. QED BY <3>1, <3>2, <3>3, JobLocal
  <2>15. ASSUME RunCommit(j) PROVE JobInv'
    <3>1. OthersRuns(j) /\ runs'[j].at \in {"catch", "off", "start", "lost"}
      BY <2>15, <1>0, RunFailing, RunGoing, RunEnding, RunRestarting DEF RunCommit, RunStep
    <3>2. OthersJobs(j)
      BY <2>15, <1>0 DEF RunCommit, OthersJobs, compile
    <3>3. JobOK(j)'
      BY <2>15, <1>0, <3>1 DEF RunCommit, compile, JobInv, JobOK, Quiet, Settled, Working,
           RunAt, Active
    <3>. QED BY <3>1, <3>2, <3>3, JobLocal
  <2>16. ASSUME RunLost(j) PROVE JobInv'
    <3>1. OthersRuns(j) /\ runs'[j].at \in {"catch"}
      BY <2>16, <1>0, RunFailing DEF RunLost, RunStep
    <3>2. OthersJobs(j)
      BY <2>16, <1>0 DEF RunLost, OthersJobs, compile
    <3>3. JobOK(j)'
      BY <2>16, <1>0, <3>1 DEF RunLost, compile, JobInv, JobOK, Quiet, Settled, Working,
           RunAt, Active
    <3>. QED BY <3>1, <3>2, <3>3, JobLocal
  <2>17. ASSUME RunCatch(j) PROVE JobInv'
    <3>1. OthersRuns(j) /\ runs'[j].at \in {"off", "start", "final", "fail"}
      BY <2>17, <1>0, RunEnding, RunThrowing, RunGoing DEF RunCatch, RunStep
    <3>2. OthersJobs(j)
      BY <2>17, <1>0 DEF RunCatch, OthersJobs, compile
    <3>3. JobOK(j)'
      BY <2>17, <1>0, <3>1 DEF RunCatch, compile, JobInv, JobOK, Quiet, Settled, Working,
           RunAt, Active, JobStatus
    <3>. QED BY <3>1, <3>2, <3>3, JobLocal
  <2>18. ASSUME RunFinal(j) PROVE JobInv'
    <3>1. OthersRuns(j) /\ runs'[j].at \in {"off", "fail"}
      BY <2>18, <1>0, RunGoing, RunEnding DEF RunFinal, RunStep
    <3>2. OthersJobs(j)
      BY <2>18, <1>0 DEF RunFinal, OthersJobs, compile
    <3>3. JobOK(j)'
      BY <2>18, <1>0, <3>1 DEF RunFinal, compile, JobInv, JobOK, Quiet, Settled, Working,
           RunAt, Active, JobStatus
    <3>. QED BY <3>1, <3>2, <3>3, JobLocal
  <2>19. ASSUME RunFail(j) PROVE JobInv'
    <3>1. OthersRuns(j) /\ runs'[j].at \in {"off"}
      BY <2>19, <1>0, RunEnding DEF RunFail, RunStep
    <3>2. OthersJobs(j)
      BY <2>19, <1>0 DEF RunFail, UpdateJob, OthersJobs, compile
    <3>3. JobOK(j)'
      BY <2>19, <1>0, <3>1 DEF RunFail, UpdateJob, compile, JobInv, JobOK, Quiet, Settled,
           Working, RunAt, Active
    <3>. QED BY <3>1, <3>2, <3>3, JobLocal
  <2>20. ASSUME CrashRun(j) PROVE JobInv'
    <3>1. OthersRuns(j) /\ runs'[j].at \in {"off", "start", "final"}
      BY <2>20, <1>0, RunEnding, RunRestarting, RunGoing DEF CrashRun, RunStep
    <3>2. OthersJobs(j)
      BY <2>20, <1>0 DEF CrashRun, OthersJobs, compile
    <3>3. JobOK(j)'
      BY <2>20, <1>0, <3>1 DEF CrashRun, compile, JobInv, JobOK, Quiet, Settled, Working,
           RunAt, Active
    <3>. QED BY <3>1, <3>2, <3>3, JobLocal
  <2>. QED BY <1>3, <2>1, <2>2, <2>3, <2>4, <2>5, <2>6, <2>7, <2>8, <2>9, <2>10, <2>11,
       <2>12, <2>13, <2>14, <2>15, <2>16, <2>17, <2>18, <2>19, <2>20 DEF JobNext, RunNext
<1>4. CASE ReadJob
  <2>1. ASSUME NEW k \in Job PROVE JobOK(k)'
    <3>1. JobOK(k)
      BY DEF JobInv
    <3>2. /\ clarification'[k] = IF clarification[k] = "due" THEN "expired"
                                 ELSE clarification[k]
          /\ jobs'[k] = IF clarification[k] = "due" /\ jobs[k] = "waiting"
                        THEN "expired" ELSE jobs[k]
          /\ dispatch' = dispatch /\ runs' = runs
      BY <1>4, <1>0 DEF ReadJob, SweptClarifications, SweptJobs
    <3>. QED BY <3>1, <3>2 DEF JobOK, Quiet, Settled
  <2>. QED BY <2>1 DEF JobInv
<1>. QED BY <1>1, <1>2, <1>3, <1>4 DEF LibraryNext

\* Two jobs are never active: only StartCompile makes one active that was not.
LEMMA ActiveStep ==
  ASSUME TypeInv, [LibraryNext]_libraryVars, NEW k \in Job, jobs'[k] \in Active
  PROVE  \/ jobs[k] \in Active
         \/ \A i \in Job : i # k => jobs'[i] \notin Active
<1>0. jobs \in [Job -> JobStatus]
  BY DEF TypeInv, LibraryTypeOK
<1>1. CASE UNCHANGED libraryVars
  BY <1>1 DEF libraryVars
<1>2. ASSUME NEW r \in Edit, EditNext(r) PROVE jobs[k] \in Active
  <2>1. jobs' = jobs
    BY <1>2 DEF EditNext, SaveBegin, SaveReread, SaveBatch, SaveCleanup, ProposeBegin,
         ProposeInsert, ConfirmBegin, ConfirmApply, ConfirmStale, AddBegin, AddPut,
         AddInsert, AddUnput, DeleteBegin, DeleteMark, DeleteUnlink, DeleteFinalize,
         CrashRequest
  <2>. QED BY <2>1
<1>3. ASSUME NEW j \in Job, JobNext(j) \/ RunNext(j)
      PROVE  \/ jobs[k] \in Active
             \/ \A i \in Job : i # k => jobs'[i] \notin Active
  <2>1. CASE StartCompile(j)
    BY <2>1, <1>0 DEF StartCompile, SweptJobs, Active
  <2>2. CASE RunBegin(j)
    BY <2>2, <1>0 DEF RunBegin, Asks, TransitionJob, UpdateJob, Active
  <2>3. CASE RunWait(j)
    BY <2>3, <1>0 DEF RunWait, TransitionJob, UpdateJob, Active
  <2>4. CASE \E resumeCompile \in BOOLEAN : Answer(j, resumeCompile)
    BY <2>4, <1>0 DEF Answer, AnswerExpired, AnswerInTime, MayAnswer, Requeued, Active
  <2>5. CASE Cancel(j) \/ DispatchFail(j) \/ RunCommit(j) \/ RunLost(j) \/ RunFail(j)
    BY <2>5, <1>0 DEF Cancel, DispatchFail, RunCommit, RunLost, RunFail, TransitionJob,
                      UpdateJob, Active
  <2>6. CASE \/ ClarificationDue(j) \/ Terminate(j) \/ DispatchList(j) \/ DispatchCreate(j)
             \/ CrashDispatch(j) \/ RunCompile(j) \/ RunClarify(j) \/ RunInterpret(j)
             \/ RunCatch(j) \/ RunFinal(j) \/ CrashRun(j)
    BY <2>6 DEF ClarificationDue, Terminate, DispatchList, DispatchCreate, CrashDispatch,
                RunCompile, RunClarify, RunInterpret, RunCatch, RunFinal, CrashRun
  <2>. QED BY <1>3, <2>1, <2>2, <2>3, <2>4, <2>5, <2>6 DEF JobNext, RunNext
<1>4. CASE ReadJob
  BY <1>4, <1>0 DEF ReadJob, SweptJobs, Active
<1>. QED BY <1>1, <1>2, <1>3, <1>4 DEF LibraryNext

LEMMA OneActiveStep == TypeInv /\ OneActive /\ [LibraryNext]_libraryVars => OneActive'
<1>. SUFFICES ASSUME TypeInv, OneActive, [LibraryNext]_libraryVars,
                     NEW i \in Job, NEW k \in Job, jobs'[i] \in Active, jobs'[k] \in Active
              PROVE  i = k
  BY DEF OneActive, Active
<1>. QED BY ActiveStep DEF OneActive

-------------------------------------------------------------------------------
\* Sources: each row in use has its object, and no request is about to take it away.

AddingOK(r) ==
  /\ edits[r].at \in Adding =>
       /\ sources[edits[r].target] = "none"
       /\ \A q \in Edit : q # r /\ edits[q].at \in Adding =>
            edits[q].target # edits[r].target
  /\ edits[r].at = "insert" => edits[r].target \in objects

DeletingOK(r) ==
  /\ edits[r].at = "mark" => sources[edits[r].target] # "none"
  /\ edits[r].at \in {"unlink", "finalize"} =>
       sources[edits[r].target] \in {"deleting", "deleted"}

SourceInv ==
  /\ Ready \subseteq objects
  /\ \A r \in Edit : AddingOK(r) /\ DeletingOK(r)

\* The sources of the run of a running job.
RunningReads == \A j \in Job : jobs[j] = "running" => runs[j].sources \subseteq Ready

\* A step of a request that changes no source.
LEMMA SourceRequest ==
  ASSUME TypeInv, SourceInv, NEW r \in Edit, OthersEdits(r), UNCHANGED library,
         edits'[r].at \notin Adding \cup Deleting
  PROVE  SourceInv'
<1>1. Ready' \subseteq objects'
  BY DEF SourceInv, Ready, library
<1>2. ASSUME NEW q \in Edit PROVE AddingOK(q)' /\ DeletingOK(q)'
  BY DEF SourceInv, AddingOK, DeletingOK, OthersEdits, Adding, Deleting, library
<1>. QED BY <1>1, <1>2 DEF SourceInv

LEMMA SourceStep == TypeInv /\ TypeInv' /\ SourceInv /\ [LibraryNext]_libraryVars => SourceInv'
<1>. SUFFICES ASSUME TypeInv, TypeInv', SourceInv, [LibraryNext]_libraryVars PROVE SourceInv'
  OBVIOUS
<1>0. /\ edits \in [Edit -> EditRecord] /\ objects \subseteq Source
      /\ sources \in [Source -> {"none", "ready", "deleting", "deleted"}]
      /\ \A q \in Edit : edits[q].at \in Adding \cup Deleting =>
                              edits[q].target \in Source
      /\ Ready \subseteq objects
      /\ \A q \in Edit : AddingOK(q) /\ DeletingOK(q)
  BY DEF TypeInv, LibraryTypeOK, TargetsTyped, SourceInv
<1>1. CASE UNCHANGED <<library, edits>>
  BY <1>1 DEF library, SourceInv, Ready, AddingOK, DeletingOK
<1>2. ASSUME NEW r \in Edit, EditNext(r) PROVE SourceInv'
  <2>1. ASSUME NEW checked \in BOOLEAN, SaveBegin(r, checked) PROVE SourceInv'
    <3>1. artifact.version \in Nat
      BY DEF TypeInv, LibraryTypeOK
    <3>. QED
      BY <2>1, <1>0, <3>1, Beginning, SourceRequest DEF SaveBegin, EditStep, Adding,
           Deleting
  <2>2. ASSUME SaveReread(r) PROVE SourceInv'
    <3>1. artifact.version \in Nat
      BY DEF TypeInv, LibraryTypeOK
    <3>2. OthersEdits(r) /\ edits'[r].at \in {"save", "done"}
      BY <2>2, <1>0, <3>1, Ending, Rereading DEF SaveReread
    <3>. QED BY <2>2, <3>2, SourceRequest DEF SaveReread, Adding, Deleting
  <2>3. ASSUME SaveBatch(r) PROVE SourceInv'
    BY <2>3, <1>0, Ending, Going, SourceRequest DEF SaveBatch, EditStep, Adding, Deleting
  <2>4. ASSUME SaveCleanup(r) PROVE SourceInv'
    BY <2>4, <1>0, Ending, SourceRequest DEF SaveCleanup, EditStep, Adding, Deleting
  <2>5. ASSUME ProposeBegin(r) PROVE SourceInv'
    <3>1. artifact.version \in Nat
      BY DEF TypeInv, LibraryTypeOK
    <3>. QED
      BY <2>5, <1>0, <3>1, Beginning, SourceRequest DEF ProposeBegin, EditStep, Adding,
           Deleting
  <2>6. ASSUME NEW p \in Proposal, ProposeInsert(r, p) PROVE SourceInv'
    BY <2>6, <1>0, Ending, SourceRequest DEF ProposeInsert, EditStep, Adding, Deleting
  <2>7. ASSUME NEW p \in Proposal, ConfirmBegin(r, p) PROVE SourceInv'
    <3>1. proposals[p].base \in Nat
      BY DEF TypeInv, LibraryTypeOK
    <3>2. OthersEdits(r) /\ edits'[r].at \in {"apply", "stale"}
      BY <2>7, <1>0, <3>1, Beginning DEF ConfirmBegin, EditStep
    <3>. QED BY <2>7, <3>2, SourceRequest DEF ConfirmBegin, Adding, Deleting
  <2>8. ASSUME ConfirmApply(r) PROVE SourceInv'
    BY <2>8, <1>0, Ending, Going, SourceRequest DEF ConfirmApply, EditStep, Adding,
         Deleting
  <2>9. ASSUME ConfirmStale(r) PROVE SourceInv'
    BY <2>9, <1>0, Ending, SourceRequest DEF ConfirmStale, EditStep, Adding, Deleting
  <2>10. ASSUME NEW s \in Source, AddBegin(r, s) PROVE SourceInv'
    <3>1. OthersEdits(r) /\ edits'[r].at = "put" /\ edits'[r].target = s
      BY <2>10, <1>0, Beginning DEF AddBegin, EditStep
    <3>2. Ready' \subseteq objects'
      BY <2>10, <1>0, <3>1 DEF AddBegin, library, Ready
    <3>3. ASSUME NEW q \in Edit PROVE AddingOK(q)' /\ DeletingOK(q)'
      BY <2>10, <1>0, <3>1 DEF AddBegin, library, AddingOK, DeletingOK, OthersEdits, Adding,
           Deleting
    <3>. QED BY <3>2, <3>3 DEF SourceInv
  <2>11. ASSUME AddPut(r) PROVE SourceInv'
    <3>1. /\ OthersEdits(r) /\ edits'[r].at \in {"insert", "done"}
          /\ edits'[r].at # "done" => edits'[r].target = edits[r].target
      BY <2>11, <1>0, Ending, Going DEF AddPut, EditStep
    <3>2. Ready' \subseteq objects'
      BY <2>11, <1>0, <3>1 DEF AddPut, Ready, AddingOK, DeletingOK, Adding, Deleting
    <3>3. AddingOK(r)' /\ DeletingOK(r)'
      <4>1. CASE edits'[r].at = "done"
        BY <4>1 DEF AddingOK, DeletingOK, Adding
      <4>2. CASE edits'[r].at # "done"
        <5>1. /\ edits'[r].target = edits[r].target
              /\ edits[r].at \in Adding /\ edits'[r].at = "insert" /\ sources' = sources
              /\ edits[r].target \in objects'
          BY <2>11, <1>0, <3>1, <4>2, Ending DEF AddPut, AddingOK, Adding, Deleting
        <5>2. \A q \in Edit : q # r => edits'[q] = edits[q]
          BY <3>1 DEF OthersEdits
        <5>. QED BY <1>0, <5>1, <5>2 DEF AddingOK, DeletingOK, Adding
      <4>. QED BY <4>1, <4>2
    <3>4. ASSUME NEW q \in Edit, q # r PROVE AddingOK(q)' /\ DeletingOK(q)'
      <4>1. edits'[q] = edits[q] /\ AddingOK(q) /\ DeletingOK(q) /\ AddingOK(r)
        BY <1>0, <3>1, <3>4 DEF OthersEdits
      <4>2. AddingOK(q)'
        BY <2>11, <1>0, <3>1, <3>4, <4>1 DEF AddPut, AddingOK, DeletingOK, OthersEdits,
             Adding, Deleting
      <4>3. DeletingOK(q)'
        BY <2>11, <1>0, <3>1, <3>4, <4>1 DEF AddPut, AddingOK, DeletingOK, OthersEdits,
             Adding, Deleting
      <4>. QED BY <4>2, <4>3
    <3>. QED BY <3>2, <3>3, <3>4 DEF SourceInv
  <2>12. ASSUME AddInsert(r) PROVE SourceInv'
    <3>1. /\ OthersEdits(r) /\ edits'[r].at \in {"done", "unput"}
          /\ edits'[r].at # "done" => edits'[r].target = edits[r].target
      BY <2>12, <1>0, Ending, Going DEF AddInsert, EditStep
    <3>2. Ready' \subseteq objects'
      BY <2>12, <1>0, <3>1 DEF AddInsert, Ready, AddingOK, DeletingOK, Adding, Deleting
    <3>3. AddingOK(r)' /\ DeletingOK(r)'
      <4>1. CASE edits'[r].at = "done"
        BY <4>1 DEF AddingOK, DeletingOK, Adding
      <4>2. CASE edits'[r].at # "done"
        <5>1. /\ edits'[r].target = edits[r].target
              /\ edits[r].at \in Adding /\ edits'[r].at = "unput" /\ sources' = sources
          BY <2>12, <1>0, <3>1, <4>2, Ending DEF AddInsert, AddingOK, Adding, Deleting
        <5>2. \A q \in Edit : q # r => edits'[q] = edits[q]
          BY <3>1 DEF OthersEdits
        <5>. QED BY <1>0, <5>1, <5>2 DEF AddingOK, DeletingOK, Adding
      <4>. QED BY <4>1, <4>2
    <3>4. ASSUME NEW q \in Edit, q # r PROVE AddingOK(q)' /\ DeletingOK(q)'
      <4>1. edits'[q] = edits[q] /\ AddingOK(q) /\ DeletingOK(q) /\ AddingOK(r)
        BY <1>0, <3>1, <3>4 DEF OthersEdits
      <4>2. AddingOK(q)'
        BY <2>12, <1>0, <3>1, <3>4, <4>1 DEF AddInsert, AddingOK, DeletingOK, OthersEdits,
             Adding, Deleting
      <4>3. DeletingOK(q)'
        BY <2>12, <1>0, <3>1, <3>4, <4>1 DEF AddInsert, AddingOK, DeletingOK, OthersEdits,
             Adding, Deleting
      <4>. QED BY <4>2, <4>3
    <3>. QED BY <3>2, <3>3, <3>4 DEF SourceInv
  <2>13. ASSUME AddUnput(r) PROVE SourceInv'
    <3>1. OthersEdits(r) /\ edits'[r].at \in {"done"}
      BY <2>13, <1>0, Ending DEF AddUnput, EditStep
    <3>2. Ready' \subseteq objects'
      BY <2>13, <1>0, <3>1 DEF AddUnput, Ready, AddingOK, DeletingOK, Adding, Deleting
    <3>3. ASSUME NEW q \in Edit PROVE AddingOK(q)' /\ DeletingOK(q)'
      BY <2>13, <1>0, <3>1 DEF AddUnput, AddingOK, DeletingOK, OthersEdits, Adding, Deleting
    <3>. QED BY <3>2, <3>3 DEF SourceInv
  <2>14. ASSUME NEW s \in Source, DeleteBegin(r, s) PROVE SourceInv'
    <3>1. OthersEdits(r) /\ edits'[r].at = "mark" /\ edits'[r].target = s
      BY <2>14, <1>0, Beginning DEF DeleteBegin, EditStep
    <3>2. Ready' \subseteq objects'
      BY <2>14, <1>0, <3>1 DEF DeleteBegin, library, Ready
    <3>3. ASSUME NEW q \in Edit PROVE AddingOK(q)' /\ DeletingOK(q)'
      BY <2>14, <1>0, <3>1 DEF DeleteBegin, library, AddingOK, DeletingOK, OthersEdits,
           Adding, Deleting
    <3>. QED BY <3>2, <3>3 DEF SourceInv
  <2>15. ASSUME DeleteMark(r) PROVE SourceInv'
    <3>1. /\ OthersEdits(r) /\ edits'[r].at \in {"unlink", "done"}
          /\ edits'[r].at # "done" => edits'[r].target = edits[r].target
      BY <2>15, <1>0, Ending, Going DEF DeleteMark, EditStep
    <3>2. Ready' \subseteq objects'
      BY <2>15, <1>0, <3>1 DEF DeleteMark, Ready, AddingOK, DeletingOK, Adding, Deleting
    <3>3. AddingOK(r)' /\ DeletingOK(r)'
      <4>1. CASE edits'[r].at = "done"
        BY <4>1 DEF AddingOK, DeletingOK, Adding
      <4>2. CASE edits'[r].at # "done"
        <5>1. /\ edits'[r].target = edits[r].target
              /\ edits'[r].at = "unlink" /\ edits[r].target \in Source
              /\ sources' = [sources EXCEPT ![edits[r].target] = "deleting"]
          BY <2>15, <1>0, <3>1, <4>2, Ending DEF DeleteMark, AddingOK, Adding, Deleting
        <5>2. \A q \in Edit : q # r => edits'[q] = edits[q]
          BY <3>1 DEF OthersEdits
        <5>. QED BY <1>0, <5>1, <5>2 DEF AddingOK, DeletingOK, Adding
      <4>. QED BY <4>1, <4>2
    <3>4. ASSUME NEW q \in Edit, q # r PROVE AddingOK(q)' /\ DeletingOK(q)'
      <4>1. edits'[q] = edits[q] /\ AddingOK(q) /\ DeletingOK(q) /\ AddingOK(r)
        BY <1>0, <3>1, <3>4 DEF OthersEdits
      <4>2. AddingOK(q)'
        BY <2>15, <1>0, <3>1, <3>4, <4>1 DEF DeleteMark, AddingOK, DeletingOK, OthersEdits,
             Adding, Deleting
      <4>3. DeletingOK(q)'
        BY <2>15, <1>0, <3>1, <3>4, <4>1 DEF DeleteMark, AddingOK, DeletingOK, OthersEdits,
             Adding, Deleting
      <4>. QED BY <4>2, <4>3
    <3>. QED BY <3>2, <3>3, <3>4 DEF SourceInv
  <2>16. ASSUME DeleteUnlink(r) PROVE SourceInv'
    <3>1. /\ OthersEdits(r) /\ edits'[r].at \in {"finalize"}
          /\ edits'[r].at # "done" => edits'[r].target = edits[r].target
      BY <2>16, <1>0, Going DEF DeleteUnlink, EditStep
    <3>2. Ready' \subseteq objects'
      BY <2>16, <1>0, <3>1 DEF DeleteUnlink, Ready, AddingOK, DeletingOK, Adding, Deleting
    <3>3. ASSUME NEW q \in Edit PROVE AddingOK(q)' /\ DeletingOK(q)'
      BY <2>16, <1>0, <3>1 DEF DeleteUnlink, AddingOK, DeletingOK, OthersEdits, Adding,
           Deleting
    <3>. QED BY <3>2, <3>3 DEF SourceInv
  <2>17. ASSUME DeleteFinalize(r) PROVE SourceInv'
    <3>1. OthersEdits(r) /\ edits'[r].at \in {"done"}
      BY <2>17, <1>0, Ending DEF DeleteFinalize, EditStep
    <3>2. Ready' \subseteq objects'
      BY <2>17, <1>0, <3>1 DEF DeleteFinalize, Ready, AddingOK, DeletingOK, Adding, Deleting
    <3>3. ASSUME NEW q \in Edit PROVE AddingOK(q)' /\ DeletingOK(q)'
      BY <2>17, <1>0, <3>1 DEF DeleteFinalize, AddingOK, DeletingOK, OthersEdits, Adding,
           Deleting
    <3>. QED BY <3>2, <3>3 DEF SourceInv
  <2>18. ASSUME CrashRequest(r) PROVE SourceInv'
    <3>1. OthersEdits(r) /\ edits'[r].at = "crashed"
      BY <2>18, <1>0 DEF CrashRequest, NoEdit, OthersEdits
    <3>. QED BY <2>18, <3>1, SourceRequest DEF CrashRequest, Adding, Deleting
  <2>. QED BY <1>2, <2>1, <2>2, <2>3, <2>4, <2>5, <2>6, <2>7, <2>8, <2>9, <2>10, <2>11,
       <2>12, <2>13, <2>14, <2>15, <2>16, <2>17, <2>18 DEF EditNext
<1>3. ASSUME NEW j \in Job, JobNext(j) \/ RunNext(j) PROVE SourceInv'
  <2>1. UNCHANGED <<library, edits>>
    BY <1>3 DEF JobNext, RunNext, StartCompile, ClarificationDue, Cancel, Terminate, Answer,
         DispatchList, DispatchCreate, DispatchFail, CrashDispatch, RunBegin, RunCompile,
         RunClarify, RunWait, RunInterpret, RunCommit, RunLost, RunCatch, RunFinal, RunFail,
         CrashRun
  <2>. QED BY <1>1, <2>1
<1>4. CASE ReadJob
  BY <1>1, <1>4 DEF ReadJob
<1>5. CASE UNCHANGED libraryVars
  BY <1>1, <1>5 DEF libraryVars, library
<1>. QED BY <1>2, <1>3, <1>4, <1>5 DEF LibraryNext

\* What a step of a run does to its job and to the sources it reads.
LEMMA RunFrame ==
  ASSUME TypeInv, NEW j \in Job, RunNext(j)
  PROVE  /\ OthersRuns(j)
         /\ \A k \in Job : k # j => jobs'[k] = jobs[k]
         /\ jobs'[j] = "running" =>
              \/ jobs[j] = "running" /\ runs'[j].sources \subseteq runs[j].sources
              \/ runs'[j].sources = Ready
<1>. DEFINE P == /\ OthersRuns(j)
                 /\ \A k \in Job : k # j => jobs'[k] = jobs[k]
                 /\ jobs'[j] = "running" =>
                      \/ jobs[j] = "running" /\ runs'[j].sources \subseteq runs[j].sources
                      \/ runs'[j].sources = Ready
<1>0. /\ jobs \in [Job -> JobStatus] /\ runs \in [Job -> RunRecord]
      /\ artifact.version \in Nat /\ Ready \in SUBSET Source
  BY DEF TypeInv, LibraryTypeOK, Ready
<1>1. CASE RunBegin(j)
  <2>1. OthersRuns(j)
    <3>1. CASE runs' = [runs EXCEPT ![j] = [@ EXCEPT !.at = "compile",
                                                     !.base = artifact.version,
                                                     !.sources = Ready]]
      BY <1>0, <3>1, RunReading
    <3>. QED BY <1>0, <1>1, <3>1, RunEnding, RunThrowing DEF RunBegin
  <2>2. \A k \in Job : k # j => jobs'[k] = jobs[k]
    BY <1>0, <1>1 DEF RunBegin, TransitionJob, UpdateJob
  <2>3. jobs'[j] = "running" =>
          \/ jobs[j] = "running" /\ runs'[j].sources \subseteq runs[j].sources
          \/ runs'[j].sources = Ready
    <3>1. CASE /\ TransitionJob(j, {"queued", "running"}, "running")
               /\ runs' = [runs EXCEPT ![j] = [@ EXCEPT !.at = "compile",
                                                        !.base = artifact.version,
                                                        !.sources = Ready]]
      BY <1>0, <3>1, RunReading
    <3>2. CASE Throws(j) /\ jobs' = jobs
      BY <1>0, <3>2, RunThrowing
    <3>. QED BY <1>0, <1>1, <3>1, <3>2 DEF RunBegin, UpdateJob
  <2>. QED BY <2>1, <2>2, <2>3
<1>2. CASE RunCompile(j)
  BY <1>0, <1>2, RunFailing, RunGoing DEF RunCompile, RunStep, TransitionJob, UpdateJob
<1>3. CASE RunClarify(j)
  BY <1>0, <1>3, RunGoing DEF RunClarify, RunStep, TransitionJob, UpdateJob
<1>4. CASE RunWait(j)
  BY <1>0, <1>4, RunEnding, RunFailing DEF RunWait, RunStep, TransitionJob, UpdateJob
<1>5. CASE RunInterpret(j)
  BY <1>0, <1>5, RunFailing, RunRereading DEF RunInterpret, RunStep, TransitionJob,
       UpdateJob
<1>6. CASE RunCommit(j)
  BY <1>0, <1>6, RunFailing, RunGoing, RunEnding, RunRestarting DEF RunCommit, RunStep,
       TransitionJob, UpdateJob
<1>7. CASE RunLost(j)
  BY <1>0, <1>7, RunFailing DEF RunLost, RunStep, TransitionJob, UpdateJob
<1>8. CASE RunCatch(j)
  BY <1>0, <1>8, RunEnding, RunThrowing, RunGoing DEF RunCatch, RunStep, TransitionJob,
       UpdateJob
<1>9. CASE RunFinal(j)
  BY <1>0, <1>9, RunGoing, RunEnding DEF RunFinal, RunStep, TransitionJob, UpdateJob
<1>10. CASE RunFail(j)
  BY <1>0, <1>10, RunEnding DEF RunFail, RunStep, TransitionJob, UpdateJob
<1>11. CASE CrashRun(j)
  BY <1>0, <1>11, RunEnding, RunRestarting, RunGoing DEF CrashRun, RunStep, TransitionJob,
       UpdateJob
<1>. QED BY <1>1, <1>2, <1>3, <1>4, <1>5, <1>6, <1>7, <1>8, <1>9, <1>10, <1>11 DEF RunNext

LEMMA ReadsStep == TypeInv /\ SourceInv /\ RunningReads /\ [LibraryNext]_libraryVars => RunningReads'
<1>. SUFFICES ASSUME TypeInv, SourceInv, RunningReads, [LibraryNext]_libraryVars PROVE RunningReads'
  OBVIOUS
<1>0. /\ jobs \in [Job -> JobStatus] /\ runs \in [Job -> RunRecord]
      /\ sources \in [Source -> {"none", "ready", "deleting", "deleted"}]
  BY DEF TypeInv, LibraryTypeOK
<1>1. CASE UNCHANGED <<jobs, runs, library>>
  BY <1>1 DEF RunningReads, Ready, library
<1>2. ASSUME NEW r \in Edit, EditNext(r) PROVE RunningReads'
  <2>1. jobs' = jobs /\ runs' = runs
    BY <1>2 DEF EditNext, SaveBegin, SaveReread, SaveBatch, SaveCleanup, ProposeBegin,
         ProposeInsert, ConfirmBegin, ConfirmApply, ConfirmStale, AddBegin, AddPut,
         AddInsert, AddUnput, DeleteBegin, DeleteMark, DeleteUnlink, DeleteFinalize,
         CrashRequest
  <2>2. CASE DeleteMark(r)
    BY <2>1, <2>2 DEF DeleteMark, MayMark, NoneActive, Active, RunningReads, Ready
  <2>3. CASE DeleteFinalize(r)
    <3>1. /\ sources[edits[r].target] # "ready"
          /\ edits[r].target \in Source
      BY <2>3 DEF DeleteFinalize, SourceInv, DeletingOK, TypeInv, TargetsTyped, Deleting
    <3>2. Ready \subseteq Ready'
      BY <2>3, <3>1, <1>0 DEF DeleteFinalize, Ready
    <3>. QED BY <2>1, <3>2 DEF RunningReads
  <2>4. CASE AddInsert(r)
    <3>1. Ready \subseteq Ready'
      BY <2>4, <1>0 DEF AddInsert, Ready
    <3>. QED BY <2>1, <3>1 DEF RunningReads
  <2>5. CASE sources' = sources
    BY <2>1, <2>5 DEF RunningReads, Ready
  <2>. QED
    BY <1>2, <2>2, <2>3, <2>4, <2>5 DEF library, EditNext, SaveBegin, SaveReread,
         SaveBatch, SaveCleanup, ProposeBegin, ProposeInsert, ConfirmBegin, ConfirmApply,
         ConfirmStale, AddBegin, AddPut, AddUnput, DeleteBegin, DeleteUnlink, CrashRequest
<1>3. ASSUME NEW j \in Job, JobNext(j) \/ RunNext(j) PROVE RunningReads'
  <2>1. Ready' = Ready
    BY <1>3 DEF library, Ready, JobNext, RunNext, StartCompile, ClarificationDue, Cancel,
         Terminate, Answer, DispatchList, DispatchCreate, DispatchFail, CrashDispatch,
         RunBegin, RunCompile, RunClarify, RunWait, RunInterpret, RunCommit, RunLost,
         RunCatch, RunFinal, RunFail, CrashRun
  <2>2. \A k \in Job : k # j => runs'[k] = runs[k] /\ (jobs'[k] = "running" => jobs[k] = "running")
    <3>1. CASE JobNext(j)
      <4>1. OthersRuns(j)
        BY <3>1, <1>0, RunEnding, RunGoing DEF JobNext, RunStep, OthersRuns, StartCompile,
             ClarificationDue, Cancel, Terminate, Answer, DispatchList, DispatchCreate,
             DispatchFail, CrashDispatch
      <4>2. \A k \in Job : k # j => (jobs'[k] = "running" => jobs[k] = "running")
        BY <3>1, <1>0 DEF JobNext, SweptJobs, TransitionJob, UpdateJob, AnswerExpired,
             AnswerInTime, Requeued, StartCompile, ClarificationDue, Cancel, Terminate,
             Answer, DispatchList, DispatchCreate, DispatchFail, CrashDispatch
      <4>. QED BY <4>1, <4>2 DEF OthersRuns
    <3>2. CASE RunNext(j)
      BY <3>2, RunFrame DEF OthersRuns
    <3>. QED BY <1>3, <3>1, <3>2
  <2>3. jobs'[j] = "running" =>
          \/ jobs[j] = "running" /\ runs'[j].sources \subseteq runs[j].sources
          \/ runs'[j].sources = Ready
    <3>1. CASE RunNext(j)
      BY <3>1, RunFrame
    <3>2. CASE Terminate(j)
      BY <3>2, <1>0, RunEnding DEF Terminate
    <3>3. CASE DispatchCreate(j)
      BY <3>3, <1>0, RunGoing DEF DispatchCreate, RunStep
    <3>4. CASE JobNext(j) /\ runs' = runs
      BY <3>4, <1>0 DEF JobNext, SweptJobs, TransitionJob, UpdateJob, AnswerExpired,
           AnswerInTime, Requeued, StartCompile, ClarificationDue, Cancel, Terminate,
           Answer, DispatchList, DispatchCreate, DispatchFail, CrashDispatch
    <3>. QED
      BY <1>3, <3>1, <3>2, <3>3, <3>4 DEF JobNext, StartCompile, ClarificationDue, Cancel,
           Answer, DispatchList, DispatchFail, CrashDispatch
  <2>4. ASSUME NEW k \in Job, jobs'[k] = "running" PROVE runs'[k].sources \subseteq Ready'
    BY <2>1, <2>2, <2>3, <2>4 DEF RunningReads
  <2>. QED BY <2>4 DEF RunningReads
<1>4. CASE ReadJob
  BY <1>4, <1>0 DEF ReadJob, SweptJobs, RunningReads, Ready, library
<1>5. CASE UNCHANGED libraryVars
  BY <1>1, <1>5 DEF libraryVars, library
<1>. QED BY <1>2, <1>3, <1>4, <1>5 DEF LibraryNext

-------------------------------------------------------------------------------
\* Versions and the end of jobs.

Unwritten == \A j \in Job : jobs[j] \in Active \cup {"none"} => Own(j) = {}

\* A job whose step adds its version and completes it.
Commits(j) ==
  /\ jobs[j] = "running" /\ jobs'[j] = "completed"
  /\ \E row : Own(j)' = Own(j) \cup {row}

LEMMA OwnStep ==
  ASSUME TypeInv, LineInv, [LibraryNext]_libraryVars, NEW j \in Job
  PROVE  Own(j)' = Own(j) \/ Commits(j)
<1>0. jobs \in [Job -> JobStatus]
  BY DEF TypeInv, LibraryTypeOK
<1>1. ASSUME history' = history PROVE Own(j)' = Own(j)
  BY <1>1 DEF Own
<1>2. ASSUME NEW r \in Edit, SaveBatch(r) PROVE Own(j)' = Own(j)
  BY <1>2, AuthorAssumption DEF SaveBatch, NewRow, Own
<1>3. ASSUME NEW r \in Edit, SaveCleanup(r) PROVE Own(j)' = Own(j)
  <2>1. \A row \in Unused(r) : row.by = r
    BY <1>3 DEF SaveCleanup, LineInv, HistoryIsALine, RequestsOnTheLine, Unused
  <2>. QED BY <1>3, <2>1, AuthorAssumption DEF SaveCleanup, Own
<1>4. ASSUME NEW r \in Edit, ConfirmApply(r) PROVE Own(j)' = Own(j)
  <2>1. edits[r].target \in Proposal
    BY <1>4 DEF ConfirmApply, TypeInv, TargetsTyped
  <2>. QED BY <1>4, <2>1, AuthorAssumption DEF ConfirmApply, NewRow, Own
<1>5. ASSUME NEW k \in Job, RunCommit(k) PROVE Own(j)' = Own(j) \/ Commits(j)
  <2>1. CASE history' = history
    BY <2>1 DEF Own
  <2>2. CASE /\ MayClaim(k) /\ jobs' = [jobs EXCEPT ![k] = "completed"]
             /\ history' = history \cup
                  {NewRow(runs[k].base, runs[k].seen, k, runs[k].sources)}
    <3>. DEFINE new == NewRow(runs[k].base, runs[k].seen, k, runs[k].sources)
    <3>1. new.by = k
      BY DEF NewRow
    <3>2. CASE k = j
      <4>1. Own(j)' = Own(j) \cup {new}
        BY <2>2, <3>1, <3>2 DEF Own
      <4>. QED BY <1>0, <2>2, <3>2, <4>1 DEF Commits, MayClaim
    <3>3. CASE k # j
      BY <2>2, <3>1, <3>3 DEF Own
    <3>. QED BY <3>2, <3>3
  <2>. QED BY <1>5, <2>1, <2>2 DEF RunCommit
<1>6. ASSUME NEW r \in Edit, EditNext(r) PROVE Own(j)' = Own(j)
  <2>1. SaveBatch(r) \/ SaveCleanup(r) \/ ConfirmApply(r) \/ history' = history
    BY <1>6 DEF EditNext, SaveBegin, SaveReread, ProposeBegin, ProposeInsert,
         ConfirmBegin, ConfirmStale, AddBegin, AddPut, AddInsert, AddUnput, DeleteBegin,
         DeleteMark, DeleteUnlink, DeleteFinalize, CrashRequest
  <2>. QED BY <2>1, <1>1, <1>2, <1>3, <1>4
<1>7. ASSUME NEW k \in Job, JobNext(k) \/ RunNext(k) PROVE Own(j)' = Own(j) \/ Commits(j)
  BY <1>1, <1>5, <1>7 DEF JobNext, RunNext, StartCompile, ClarificationDue, Cancel,
       Terminate, Answer, DispatchList, DispatchCreate, DispatchFail, CrashDispatch,
       RunBegin, RunCompile, RunClarify, RunWait, RunInterpret, RunLost, RunCatch, RunFinal,
       RunFail, CrashRun
<1>8. CASE ReadJob \/ UNCHANGED libraryVars
  BY <1>1, <1>8 DEF ReadJob, libraryVars
<1>. QED BY <1>6, <1>7, <1>8 DEF LibraryNext

\* A job that is over stays over, and only its own batch completes it.
LEMMA JobMoves ==
  ASSUME TypeInv, LineInv, [LibraryNext]_libraryVars, NEW k \in Job
  PROVE  /\ jobs[k] \notin Active \cup {"none"} =>
              /\ jobs'[k] \notin Active \cup {"none"}
              /\ jobs'[k] = "completed" => jobs[k] = "completed"
         /\ jobs'[k] = "completed" /\ jobs[k] # "completed" => Commits(k)
<1>. DEFINE P == /\ jobs[k] \notin Active \cup {"none"} =>
                      /\ jobs'[k] \notin Active \cup {"none"}
                      /\ jobs'[k] = "completed" => jobs[k] = "completed"
                 /\ jobs'[k] = "completed" /\ jobs[k] # "completed" => Commits(k)
<1>0. jobs \in [Job -> JobStatus]
  BY DEF TypeInv, LibraryTypeOK
<1>1. CASE jobs' = jobs
  BY <1>1
<1>2. ASSUME NEW r \in Edit, EditNext(r) PROVE jobs' = jobs
  BY <1>2 DEF EditNext, SaveBegin, SaveReread, SaveBatch, SaveCleanup, ProposeBegin,
       ProposeInsert, ConfirmBegin, ConfirmApply, ConfirmStale, AddBegin, AddPut, AddInsert,
       AddUnput, DeleteBegin, DeleteMark, DeleteUnlink, DeleteFinalize, CrashRequest
<1>3. ASSUME NEW j \in Job, JobNext(j) \/ RunNext(j) PROVE P
  <2>1. CASE StartCompile(j)
    BY <2>1, <1>0 DEF StartCompile, SweptJobs, Active
  <2>2. CASE RunBegin(j)
    BY <2>2, <1>0 DEF RunBegin, Asks, TransitionJob, UpdateJob, Active
  <2>3. CASE RunWait(j)
    BY <2>3, <1>0 DEF RunWait, TransitionJob, UpdateJob, Active
  <2>4. CASE \E resumeCompile \in BOOLEAN : Answer(j, resumeCompile)
    BY <2>4, <1>0 DEF Answer, AnswerExpired, AnswerInTime, MayAnswer, Requeued, Active
  <2>5. CASE Cancel(j) \/ DispatchFail(j) \/ RunLost(j) \/ RunFail(j)
    BY <2>5, <1>0 DEF Cancel, DispatchFail, RunLost, RunFail, TransitionJob, UpdateJob, Active
  <2>6. CASE RunCommit(j)
    <3>1. CASE jobs' = jobs
      BY <3>1
    <3>2. CASE /\ MayClaim(j) /\ jobs' = [jobs EXCEPT ![j] = "completed"]
               /\ history' = history \cup
                    {NewRow(runs[j].base, runs[j].seen, j, runs[j].sources)}
      <4>. DEFINE new == NewRow(runs[j].base, runs[j].seen, j, runs[j].sources)
      <4>1. Own(j)' = Own(j) \cup {new}
        BY <3>2 DEF Own, NewRow
      <4>2. Commits(j)
        BY <1>0, <3>2, <4>1 DEF Commits, MayClaim
      <4>. QED BY <1>0, <3>2, <4>2 DEF MayClaim, Active
    <3>. QED BY <2>6, <3>1, <3>2 DEF RunCommit
  <2>7. CASE \/ ClarificationDue(j) \/ Terminate(j) \/ DispatchList(j) \/ DispatchCreate(j)
             \/ CrashDispatch(j) \/ RunCompile(j) \/ RunClarify(j) \/ RunInterpret(j)
             \/ RunCatch(j) \/ RunFinal(j) \/ CrashRun(j)
    <3>1. jobs' = jobs
      BY <2>7 DEF ClarificationDue, Terminate, DispatchList, DispatchCreate, CrashDispatch,
                  RunCompile, RunClarify, RunInterpret, RunCatch, RunFinal, CrashRun
    <3>. QED BY <1>1, <3>1
  <2>. QED BY <1>3, <2>1, <2>2, <2>3, <2>4, <2>5, <2>6, <2>7 DEF JobNext, RunNext
<1>4. CASE ReadJob
  BY <1>4, <1>0 DEF ReadJob, SweptJobs, Active
<1>5. CASE UNCHANGED libraryVars
  BY <1>1, <1>5 DEF libraryVars
<1>. QED BY <1>1, <1>2, <1>3, <1>4, <1>5 DEF LibraryNext

-------------------------------------------------------------------------------
\* The inductive invariant.

IInv ==
  /\ TypeInv
  /\ LineInv
  /\ JobInv
  /\ OneActive
  /\ SourceInv
  /\ RunningReads
  /\ Unwritten

LEMMA InitIInv == LibraryInit => IInv
<1>. SUFFICES ASSUME LibraryInit PROVE IInv
  OBVIOUS
<1>0. First \in Nat
  BY FirstAssumption
<1>1. LibraryTypeOK
  <2>1. /\ artifact \in [version : Nat, by : Author] /\ history \subseteq Row
    BY <1>0 DEF LibraryInit, Author, Row
  <2>2. /\ runs \in [Job -> RunRecord] /\ edits \in [Edit -> EditRecord]
    BY DEF LibraryInit, NoRun, FreshRun, NoEdit, RunRecord, EditRecord, RunStep, EditStep
  <2>3. /\ sources \in [Source -> {"none", "ready", "deleting", "deleted"}]
        /\ objects \subseteq Source
    BY DEF LibraryInit
  <2>4. proposals \in [Proposal -> [status : {"none", "pending", "applying", "applied",
                                              "stale"}, base : Nat]]
    <3>1. PICK made \in SUBSET Proposal :
            proposals = [p \in Proposal |->
                           [status |-> IF p \in made THEN "pending" ELSE "none", base |-> First]]
      BY DEF LibraryInit
    <3>. QED BY <1>0, <3>1
  <2>5. faults \in 0..MaxFaults
    BY SizeAssumption DEF LibraryInit
  <2>6. /\ durable \in BOOLEAN /\ jobs \in [Job -> JobStatus]
        /\ instance \in [Job -> BOOLEAN]
        /\ clarification \in [Job -> {"none", "pending", "due", "answered", "expired"}]
        /\ assumed \in [Job -> SUBSET Source] /\ questioned \in [Job -> SUBSET Source]
        /\ dispatch \in [Job -> DispatchStep]
    BY DEF LibraryInit, JobStatus, DispatchStep
  <2>. QED BY <2>1, <2>2, <2>3, <2>4, <2>5, <2>6 DEF LibraryTypeOK
<1>2. /\ \A r \in Edit : edits[r].at = "idle"
      /\ \A j \in Job : /\ runs[j].at = "off" /\ jobs[j] = "none"
                        /\ clarification[j] = "none" /\ dispatch[j] = "none"
  BY DEF LibraryInit, NoEdit, NoRun, FreshRun
<1>3. TargetsTyped
  BY <1>2 DEF TargetsTyped, Adding, Deleting
<1>4. LineInv
  <2>. DEFINE first ==
         [version |-> First, parent |-> 0, base |-> 0, by |-> Created, refs |-> {}]
  <2>1. /\ artifact.version = First /\ artifact.by = Created
        /\ history = {first} /\ first.version = First /\ first.by = Created
    BY DEF LibraryInit
  <2>2. HistoryIsALine
    BY <1>0, <2>1 DEF HistoryIsALine, Taken
  <2>. QED BY <1>0, <1>2, <2>1, <2>2 DEF LineInv, RequestsOnTheLine, RunsOnTheLine, Working
<1>5. JobInv /\ OneActive
  BY <1>2 DEF JobInv, JobOK, Quiet, Working, OneActive, Active
<1>6. SourceInv
  <2>1. Ready \subseteq objects
    BY DEF LibraryInit, Ready
  <2>. QED BY <1>2, <2>1 DEF SourceInv, AddingOK, DeletingOK, Adding
<1>7. RunningReads
  BY <1>2 DEF RunningReads
<1>8. Unwritten
  BY AuthorAssumption DEF LibraryInit, Unwritten, Own
<1>. QED BY <1>1, <1>3, <1>4, <1>5, <1>6, <1>7, <1>8 DEF IInv, TypeInv

LEMMA NextIInv == IInv /\ [LibraryNext]_libraryVars => IInv'
<1>. SUFFICES ASSUME IInv, [LibraryNext]_libraryVars PROVE IInv'
  OBVIOUS
<1>1. TypeInv'
  BY TypeStep DEF IInv
<1>2. LineInv'
  BY <1>1, LineStep DEF IInv
<1>3. JobInv' /\ OneActive'
  BY JobStep, OneActiveStep DEF IInv
<1>4. SourceInv' /\ RunningReads'
  BY <1>1, SourceStep, ReadsStep DEF IInv
<1>5. Unwritten'
  <2>1. ASSUME NEW j \in Job, jobs'[j] \in Active \cup {"none"} PROVE Own(j)' = {}
    <3>1. Own(j) = {}
      BY <2>1, JobMoves DEF IInv, Unwritten
    <3>2. ~Commits(j)
      BY <2>1 DEF Commits, Active
    <3>. QED BY <3>1, <3>2, OwnStep DEF IInv
  <2>. QED BY <2>1 DEF Unwritten
<1>. QED BY <1>1, <1>2, <1>3, <1>4, <1>5 DEF IInv

LEMMA IInvHolds == LibrarySpec => []IInv
BY InitIInv, NextIInv, PTL DEF LibrarySpec

\* The types of the library.
THEOREM TypeCorrect == LibrarySpec => []LibraryTypeOK
<1>1. IInv => LibraryTypeOK
  BY DEF IInv, TypeInv
<1>. QED BY <1>1, IInvHolds, PTL

\* No plan is written over unread, whoever writes and however requests, runs and crashes
\* interleave.
THEOREM PlansAreALine == LibrarySpec => []HistoryIsALine
<1>1. IInv => HistoryIsALine
  BY DEF IInv, LineInv
<1>. QED BY <1>1, IInvHolds, PTL

\* A waiting job has the question it waits for, and no two jobs are active.
THEOREM WaitingJobsGoOn == LibrarySpec => []WaitingHasQuestion
<1>1. IInv => WaitingHasQuestion
  BY DEF IInv, JobInv, JobOK, Quiet, OneActive, WaitingHasQuestion, TypeInv, LibraryTypeOK
<1>. QED BY <1>1, IInvHolds, PTL

\* A running job finds the sources it reads.
THEOREM SourcesStay == LibrarySpec => []CompileSourcesPresent
<1>1. IInv => CompileSourcesPresent
  BY DEF IInv, SourceInv, RunningReads, CompileSourcesPresent, Ready
<1>. QED BY <1>1, IInvHolds, PTL

\* A job that is over stays over; it completes with its one version.
THEOREM SettledJobsAreOver == LibrarySpec => SettledJobIsOver
<1>. DEFINE A == \A j \in Job :
                   /\ jobs[j] \notin Active \cup {"none"} =>
                        /\ jobs'[j] \notin Active \cup {"none"}
                        /\ jobs'[j] = "completed" => jobs[j] = "completed"
                        /\ Own(j)' = Own(j)
                   /\ jobs'[j] = "completed" /\ jobs[j] # "completed" =>
                        Cardinality(Own(j)') = 1
<1>1. IInv /\ [LibraryNext]_libraryVars => [A]_libraryVars
  <2>. SUFFICES ASSUME IInv, [LibraryNext]_libraryVars, NEW j \in Job
                PROVE  /\ jobs[j] \notin Active \cup {"none"} =>
                            /\ jobs'[j] \notin Active \cup {"none"}
                            /\ jobs'[j] = "completed" => jobs[j] = "completed"
                            /\ Own(j)' = Own(j)
                       /\ jobs'[j] = "completed" /\ jobs[j] # "completed" =>
                            Cardinality(Own(j)') = 1
    OBVIOUS
  <2>1. /\ jobs[j] \notin Active \cup {"none"} =>
             /\ jobs'[j] \notin Active \cup {"none"}
             /\ jobs'[j] = "completed" => jobs[j] = "completed"
        /\ jobs'[j] = "completed" /\ jobs[j] # "completed" => Commits(j)
    BY JobMoves DEF IInv
  <2>2. jobs[j] \notin Active \cup {"none"} => Own(j)' = Own(j)
    BY OwnStep DEF IInv, Commits, Active
  <2>3. ASSUME Commits(j) PROVE Cardinality(Own(j)') = 1
    <3>1. Own(j) = {}
      BY <2>3 DEF Commits, IInv, Unwritten, Active
    <3>2. PICK row : Own(j)' = Own(j) \cup {row}
      BY <2>3 DEF Commits
    <3>3. Own(j)' = {row}
      BY <3>1, <3>2
    <3>. QED BY <3>3, FS_Singleton
  <2>. QED BY <2>1, <2>2, <2>3
<1>. QED BY <1>1, IInvHolds, PTL DEF LibrarySpec, SettledJobIsOver

===============================================================================
