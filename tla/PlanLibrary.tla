------------------------------- MODULE PlanLibrary -------------------------------
(***************************************************************************)
(* One plan artifact of the library: its current plan and its versions, the *)
(* jobs that compile it, the clarifications they ask for, its sources (rows *)
(* of D1 and objects of R2) and the edit proposals made to it.              *)
(*                                                                         *)
(* Everything is in D1, and every HTTP request, workflow and model call    *)
(* runs beside the others: what one has read may be stale when it writes.  *)
(* A statement or a batch of D1 is one step; so is a row of reads that the *)
(* statement after them checks again. `at` is the step that comes next.    *)
(*                                                                         *)
(* Left out as data: titles, texts, status and normalized input of the     *)
(* artifact, generation records, the documents of plans.                   *)
(***************************************************************************)
EXTENDS Integers, FiniteSets

CONSTANTS
  Job, Source, Proposal,
  Edit,         \* HTTP requests about the artifact, compiles apart; each is made once
  Created,      \* the request that created the artifact
  First,        \* the version of the plan it was created with
  MaxSources,   \* MAX_SOURCES_PER_PLAN
  MaxAttempts,  \* 1 + retries.limit of the workflow's step
  MaxCalls,     \* bound on jobs and requests together
  MaxFaults     \* bound on crashes and on calls of the model, of the workflow service and
                \* of D1 that fail

Author == Job \cup Proposal \cup Edit \cup {Created}

ASSUME SizeAssumption == {MaxSources, MaxAttempts, MaxCalls, MaxFaults} \subseteq Nat
ASSUME FirstAssumption == First \in Nat \ {0}
ASSUME AuthorAssumption ==
  /\ Job \cap Proposal = {} /\ Job \cap Edit = {} /\ Proposal \cap Edit = {}
  /\ Created \notin Job \cup Proposal \cup Edit

VARIABLES
  durable,        \* env.PLAN_COMPILE_WORKFLOW is bound; without it a job runs in its request
  artifact,       \* plan_artifacts: version of the current plan, and who wrote it
  history,        \* plan_artifact_versions
  jobs,           \* compile_jobs: status; "none" before the row exists
  instance,       \* compile_jobs: workflow_instance_id is set
  clarification,  \* clarification_requests: the latest of the job; "due" is a pending one
                  \* whose expires_at has passed
  assumed,        \* sources the interpretation of the job refers to
  questioned,     \* sources its clarification requests refer to
  sources,        \* plan_sources: status; "none" before the row exists
  objects,        \* raw objects of R2
  proposals,      \* plan_edit_proposals: status and base version
  dispatch,       \* step of the request that starts or resumes the job
  runs,           \* runPlanCompileJob and the workflow around it
  edits,          \* the other requests
  faults

compile == <<clarification, assumed, questioned>>
library == <<sources, objects>>
libraryVars ==
  <<durable, artifact, history, jobs, instance, clarification, assumed, questioned, sources,
    objects, proposals, dispatch, runs, edits, faults>>

-------------------------------------------------------------------------------
JobStatus ==
  {"none", "queued", "running", "waiting", "completed", "failed", "cancelled", "expired"}
Active == {"queued", "running", "waiting"}

\* A row of plan_artifact_versions. `base` is history: the version whose plan the author
\* of the row had read.
Row == [version : Nat, parent : Nat, base : Nat, by : Author, refs : SUBSET Source]

\* `base` is the version read first, `seen` the one saveVersionStored read again.
FreshRun(at, attempt) ==
  [at |-> at, base |-> 0, seen |-> 0, sources |-> {}, attempt |-> attempt]
NoRun == FreshRun("off", 1)
NoEdit == [at |-> "idle", base |-> 0, seen |-> 0, target |-> Created]

RunAt(j) == runs[j].at
RunGoes(j, at) == runs' = [runs EXCEPT ![j].at = at]
RunEnds(j) == runs' = [runs EXCEPT ![j] = NoRun]
\* Into the catch clause.
RunFails(j) == runs' = [runs EXCEPT ![j] = FreshRun("catch", runs[j].attempt)]
\* The workflow begins its step again.
RunRestarts(j) == runs' = [runs EXCEPT ![j] = FreshRun("start", runs[j].attempt)]
Begins(r, at, base, target) ==
  edits' = [edits EXCEPT ![r] =
                 [at |-> at, base |-> base, seen |-> 0, target |-> target]]
Goes(r, at) == edits' = [edits EXCEPT ![r].at = at]
Ends(r) == edits' = [edits EXCEPT ![r] = [NoEdit EXCEPT !.at = "done"]]

LibraryInit ==
  /\ durable \in BOOLEAN
  /\ artifact = [version |-> First, by |-> Created]
  /\ history =
       {[version |-> First, parent |-> 0, base |-> 0, by |-> Created, refs |-> {}]}
  /\ jobs = [j \in Job |-> "none"]
  /\ instance = [j \in Job |-> FALSE]
  /\ clarification = [j \in Job |-> "none"]
  /\ assumed = [j \in Job |-> {}]
  /\ questioned = [j \in Job |-> {}]
  /\ \E ready \in SUBSET Source :
       /\ Cardinality(ready) <= MaxSources
       /\ sources = [s \in Source |-> IF s \in ready THEN "ready" ELSE "none"]
       /\ objects = ready
  /\ \E made \in SUBSET Proposal :
       proposals = [p \in Proposal |->
                      [status |-> IF p \in made THEN "pending" ELSE "none", base |-> First]]
  /\ dispatch = [j \in Job |-> "none"]
  /\ runs = [j \in Job |-> NoRun]
  /\ edits = [r \in Edit |-> NoEdit]
  /\ faults = 0

\* A call more is within the bound.
CallAllowed ==
  Cardinality({r \in Edit : edits[r].at # "idle"})
    + Cardinality({j \in Job : jobs[j] # "none"}) < MaxCalls

\* updateJob: whatever the status is by now.
UpdateJob(j, status) == jobs' = [jobs EXCEPT ![j] = status]

\* transitionJob: enabled where its UPDATE matches.
TransitionJob(j, from, status) == jobs[j] \in from /\ UpdateJob(j, status)

\* getActiveJob, and the NOT EXISTS of the conditional statements.
NoneActive == \A j \in Job : jobs[j] \notin Active

Ready == {s \in Source : sources[s] = "ready"}
Kept == {s \in Source : sources[s] \notin {"none", "deleted"}}

\* UNIQUE (artifact_id, version).
Taken(v) == \E row \in history : row.version = v

\* What a plan of a request refers to is data the model leaves out: only plans of compiles
\* have `refs`.
NewRow(base, parent, by, refs) ==
  [version |-> base + 1, parent |-> parent, base |-> base, by |-> by, refs |-> refs]

-------------------------------------------------------------------------------
\* Versions written by a request: PATCH of the plan, generate and build.

\* existing := getStored. Only generate asks assertPlanMutable.
SaveBegin(r, checked) ==
  /\ edits[r].at = "idle" /\ CallAllowed
  /\ checked => NoneActive
  /\ Begins(r, "reread", artifact.version, Created)
  /\ UNCHANGED <<durable, artifact, history, jobs, instance, compile, library, proposals,
                 dispatch, runs, faults>>

\* The planner has answered; saveVersionStored reads the artifact again. The plan must
\* have a higher version than the one stored.
SaveReread(r) ==
  /\ edits[r].at = "reread"
  /\ \/ /\ edits[r].base + 1 > artifact.version
        /\ edits' = [edits EXCEPT ![r].at = "save", ![r].seen = artifact.version]
     \/ /\ edits[r].base + 1 <= artifact.version
        /\ Ends(r)
  /\ UNCHANGED <<durable, artifact, history, jobs, instance, compile, library, proposals,
                 dispatch, runs, faults>>

\* Where of the UPDATE in saveVersionStored.
SaveApplies(r) == artifact.version = edits[r].seen /\ NoneActive

\* The batch: INSERT of the row, then UPDATE of the artifact where nothing has changed.
\* An INSERT that fails rolls the batch back; an UPDATE that matches nothing does not.
SaveBatch(r) ==
  /\ edits[r].at = "save"
  /\ \/ /\ Taken(edits[r].base + 1)
        /\ Ends(r)
        /\ UNCHANGED <<artifact, history>>
     \/ /\ ~Taken(edits[r].base + 1)
        /\ history' = history \cup {NewRow(edits[r].base, edits[r].seen, r, {})}
        /\ \/ /\ SaveApplies(r)
              /\ artifact' = [version |-> edits[r].base + 1, by |-> r]
              /\ Ends(r)
           \/ /\ ~SaveApplies(r)
              /\ Goes(r, "cleanup")
              /\ UNCHANGED artifact
  /\ UNCHANGED <<durable, jobs, instance, compile, library, proposals, dispatch, runs, faults>>

\* Mutant of Unused: the row of the version it started from.
MutantUnusedParent(r) == {row \in history : row.version = edits[r].seen}

\* The row the batch of the request has left.
Unused(r) == {row \in history : row.version = edits[r].base + 1}

\* The DELETE of the row nobody points to, a statement of its own.
SaveCleanup(r) ==
  /\ edits[r].at = "cleanup"
  /\ history' = history \ Unused(r)
  /\ Ends(r)
  /\ UNCHANGED <<durable, artifact, jobs, instance, compile, library, proposals, dispatch,
                 runs, faults>>

-------------------------------------------------------------------------------
\* Edit proposals.

\* POST edit-proposals reads the plan it edits.
ProposeBegin(r) ==
  /\ edits[r].at = "idle" /\ CallAllowed
  /\ NoneActive
  /\ Begins(r, "propose", artifact.version, Created)
  /\ UNCHANGED <<durable, artifact, history, jobs, instance, compile, library, proposals,
                 dispatch, runs, faults>>

\* The improver has answered: the proposal is stored for the version it was made from.
ProposeInsert(r, p) ==
  /\ edits[r].at = "propose"
  /\ proposals[p].status = "none"
  /\ proposals' = [proposals EXCEPT ![p] = [status |-> "pending", base |-> edits[r].base]]
  /\ Ends(r)
  /\ UNCHANGED <<durable, artifact, history, jobs, instance, compile, library, dispatch, runs,
                 faults>>

\* POST confirm reads proposal and artifact.
ConfirmBegin(r, p) ==
  /\ edits[r].at = "idle" /\ CallAllowed
  /\ proposals[p].status = "pending"
  /\ NoneActive
  /\ Begins(r, IF artifact.version = proposals[p].base THEN "apply" ELSE "stale",
            proposals[p].base, p)
  /\ UNCHANGED <<durable, artifact, history, jobs, instance, compile, library, proposals,
                 dispatch, runs, faults>>

\* The batch of applyEditProposalStored: claim the proposal, update the artifact at the
\* base version, insert the row, mark the proposal applied. No statement looks at the jobs.
ConfirmApply(r) ==
  /\ edits[r].at = "apply"
  /\ LET p == edits[r].target
         base == edits[r].base
     IN
     \/ /\ \/ proposals[p].status # "pending"
           \/ artifact.version = base /\ Taken(base + 1)
        /\ Ends(r)
        /\ UNCHANGED <<artifact, history, proposals>>
     \/ /\ proposals[p].status = "pending"
        /\ artifact.version # base
        /\ proposals' = [proposals EXCEPT ![p].status = "applying"]
        /\ Goes(r, "release")
        /\ UNCHANGED <<artifact, history>>
     \/ /\ proposals[p].status = "pending"
        /\ artifact.version = base
        /\ ~Taken(base + 1)
        /\ artifact' = [version |-> base + 1, by |-> p]
        /\ history' = history \cup {NewRow(base, base, p, {})}
        /\ proposals' = [proposals EXCEPT ![p].status = "applied"]
        /\ Ends(r)
  /\ UNCHANGED <<durable, jobs, instance, compile, library, dispatch, runs, faults>>

\* setStatus(stale) of the route, or the UPDATE after a batch that found the plan changed.
ConfirmStale(r) ==
  /\ edits[r].at \in {"stale", "release"}
  /\ LET p == edits[r].target
         from == IF edits[r].at = "stale" THEN "pending" ELSE "applying"
     IN  proposals' = [proposals EXCEPT ![p].status = IF @ = from THEN "stale" ELSE @]
  /\ Ends(r)
  /\ UNCHANGED <<durable, artifact, history, jobs, instance, compile, library, dispatch, runs,
                 faults>>

-------------------------------------------------------------------------------
\* Sources.

\* POST sources: the plan is mutable and has room; the bytes are fetched for a new id.
AddBegin(r, s) ==
  /\ edits[r].at = "idle" /\ CallAllowed
  /\ sources[s] = "none" /\ s \notin objects
  /\ \A other \in Edit : edits[other].target # s
  /\ NoneActive
  /\ Cardinality(Kept) < MaxSources
  /\ Begins(r, "put", 0, s)
  /\ UNCHANGED <<durable, artifact, history, jobs, instance, compile, library, proposals,
                 dispatch, runs, faults>>

\* assertPlanMutable again, and the object.
AddPut(r) ==
  /\ edits[r].at = "put"
  /\ \/ NoneActive /\ objects' = objects \cup {edits[r].target} /\ Goes(r, "insert")
     \/ ~NoneActive /\ Ends(r) /\ UNCHANGED objects
  /\ UNCHANGED <<durable, artifact, history, jobs, instance, compile, sources, proposals,
                 dispatch, runs, faults>>

\* createSourceIfIdle.
AddInsert(r) ==
  /\ edits[r].at = "insert"
  /\ \/ /\ NoneActive /\ Cardinality(Kept) < MaxSources
        /\ sources' = [sources EXCEPT ![edits[r].target] = "ready"]
        /\ Ends(r)
     \/ /\ ~NoneActive \/ Cardinality(Kept) >= MaxSources
        /\ Goes(r, "unput")
        /\ UNCHANGED sources
  /\ UNCHANGED <<durable, artifact, history, jobs, instance, compile, objects, proposals,
                 dispatch, runs, faults>>

\* The object goes when the row could not be inserted.
AddUnput(r) ==
  /\ edits[r].at = "unput"
  /\ objects' = objects \ {edits[r].target}
  /\ Ends(r)
  /\ UNCHANGED <<durable, artifact, history, jobs, instance, compile, sources, proposals,
                 dispatch, runs, faults>>

\* The history of the plan, or isSourceReferenced.
Referenced(s) ==
  \/ \E row \in history : s \in row.refs
  \/ \E j \in Job : s \in assumed[j] \cup questioned[j]

\* DELETE source: its checks.
DeleteBegin(r, s) ==
  /\ edits[r].at = "idle" /\ CallAllowed
  /\ sources[s] # "none"
  /\ NoneActive
  /\ ~Referenced(s)
  /\ Begins(r, "mark", 0, s)
  /\ UNCHANGED <<durable, artifact, history, jobs, instance, compile, library, proposals,
                 dispatch, runs, faults>>

\* Mutant of MayMark: the check of the route alone keeps compiles out.
MutantMarksDuringCompile(s) == sources[s] # "deleted"

\* Where of the UPDATE in markSourceDeletingIfIdle.
MayMark(s) == sources[s] # "deleted" /\ NoneActive

\* markSourceDeletingIfIdle.
DeleteMark(r) ==
  /\ edits[r].at = "mark"
  /\ LET s == edits[r].target IN
     \/ /\ MayMark(s)
        /\ sources' = [sources EXCEPT ![s] = "deleting"]
        /\ Goes(r, "unlink")
     \/ /\ ~MayMark(s)
        /\ Ends(r)
        /\ UNCHANGED sources
  /\ UNCHANGED <<durable, artifact, history, jobs, instance, compile, objects, proposals,
                 dispatch, runs, faults>>

\* The object, and then the row by finalizeSourceDeleted.
DeleteUnlink(r) ==
  /\ edits[r].at = "unlink"
  /\ objects' = objects \ {edits[r].target}
  /\ Goes(r, "finalize")
  /\ UNCHANGED <<durable, artifact, history, jobs, instance, compile, sources, proposals,
                 dispatch, runs, faults>>

DeleteFinalize(r) ==
  /\ edits[r].at = "finalize"
  /\ sources' = [sources EXCEPT ![edits[r].target] = IF @ = "deleting" THEN "deleted" ELSE @]
  /\ Ends(r)
  /\ UNCHANGED <<durable, artifact, history, jobs, instance, compile, objects, proposals,
                 dispatch, runs, faults>>

-------------------------------------------------------------------------------
\* Jobs, as requests see them.

\* expireClarifications: each pending request past its time, with its job if that waits.
SweptClarifications ==
  [k \in Job |-> IF clarification[k] = "due" THEN "expired" ELSE clarification[k]]
SweptJobs ==
  [k \in Job |-> IF clarification[k] = "due" /\ jobs[k] = "waiting" THEN "expired" ELSE jobs[k]]

\* POST compile-jobs, or retry of an earlier job. The unique index over active jobs decides
\* between two of them.
StartCompile(j) ==
  /\ jobs[j] = "none" /\ CallAllowed
  /\ clarification' = SweptClarifications
  /\ \/ /\ \E k \in Job : SweptJobs[k] \in Active
        /\ jobs' = SweptJobs
        /\ UNCHANGED dispatch
     \/ /\ \A k \in Job : SweptJobs[k] \notin Active
        /\ jobs' = [SweptJobs EXCEPT ![j] = "queued"]
        /\ dispatch' = [dispatch EXCEPT ![j] = "list"]
  /\ UNCHANGED <<durable, artifact, history, instance, assumed, questioned, library, proposals,
                 runs, edits, faults>>

\* GET compile-job sweeps first.
ReadJob ==
  /\ \E k \in Job : clarification[k] = "due"
  /\ clarification' = SweptClarifications
  /\ jobs' = SweptJobs
  /\ UNCHANGED <<durable, artifact, history, instance, assumed, questioned, library, proposals,
                 dispatch, runs, edits, faults>>

\* DEFAULT_CLARIFICATION_TIMEOUT_MS goes by. It is long: no run is caught between storing
\* the request and putting its job to wait.
ClarificationDue(j) ==
  /\ clarification[j] = "pending"
  /\ RunAt(j) = "off"
  /\ clarification' = [clarification EXCEPT ![j] = "due"]
  /\ UNCHANGED <<durable, artifact, history, jobs, instance, assumed, questioned, library,
                 proposals, dispatch, runs, edits, faults>>

\* Mutant of MayAnswer: the request is consumed whatever its job does.
MutantAnswersAnyJob(j) == TRUE

\* answerClarification of a request past its time.
AnswerExpired(j) ==
  /\ clarification' = [clarification EXCEPT ![j] = "expired"]
  /\ jobs' = [jobs EXCEPT ![j] = IF @ = "waiting" THEN "expired" ELSE @]

\* EXISTS of the UPDATE in answerClarification.
MayAnswer(j) == jobs[j] = "waiting"

\* The UPDATE of the job in answerClarification.
Requeued(status) == IF status = "waiting" THEN "queued" ELSE status

\* The batch of answerClarification.
AnswerInTime(j) ==
  /\ clarification[j] = "pending"
  /\ MayAnswer(j)
  /\ clarification' = [clarification EXCEPT ![j] = "answered"]
  /\ jobs' = [jobs EXCEPT ![j] = Requeued(@)]

\* POST answer: in one batch the request is answered and its waiting job queued again.
\* With resumeCompile the same request goes on to run it.
Answer(j, resumeCompile) ==
  /\ dispatch[j] = "none"
  /\ \/ /\ clarification[j] = "due"
        /\ AnswerExpired(j)
        /\ UNCHANGED dispatch
     \/ /\ AnswerInTime(j)
        /\ dispatch' = [dispatch EXCEPT ![j] = IF resumeCompile /\ jobs[j] = "waiting"
                                              THEN "resume" ELSE @]
  /\ UNCHANGED <<durable, artifact, history, instance, assumed, questioned, library, proposals,
                 runs, edits, faults>>

\* POST cancel.
Cancel(j) ==
  /\ TransitionJob(j, Active, "cancelled")
  /\ UNCHANGED <<durable, artifact, history, instance, compile, library, proposals, dispatch,
                 runs, edits, faults>>

\* The rest of cancel: terminate the workflow, if it was recorded and the call arrives.
Terminate(j) ==
  /\ jobs[j] = "cancelled" /\ instance[j]
  /\ RunAt(j) # "off"
  /\ RunEnds(j)
  /\ UNCHANGED <<durable, artifact, history, jobs, instance, compile, library, proposals,
                 dispatch, edits, faults>>

-------------------------------------------------------------------------------
\* executeCompileStart, after createJob or answerClarification.

DispatchGoes(j, at) == dispatch' = [dispatch EXCEPT ![j] = at]
Fault == faults < MaxFaults /\ faults' = faults + 1

\* The job, which must be queued if it is resumed, and the sources.
DispatchList(j) ==
  /\ \/ dispatch[j] = "resume" /\ jobs[j] # "queued" /\ DispatchGoes(j, "none")
     \/ /\ dispatch[j] = "list" \/ (dispatch[j] = "resume" /\ jobs[j] = "queued")
        /\ DispatchGoes(j, IF Ready = {} THEN "fail" ELSE "create")
  /\ UNCHANGED <<durable, artifact, history, jobs, instance, compile, library, proposals,
                 runs, edits, faults>>

\* The job runs in the request; or create of the workflow binding and updateJob with the
\* instance id, which only POST cancel reads. Either may fail: the instance is there or not.
DispatchCreate(j) ==
  /\ dispatch[j] = "create"
  /\ RunAt(j) = "off"
  /\ \/ /\ RunGoes(j, "start")
        /\ instance' = [instance EXCEPT ![j] = durable]
        /\ DispatchGoes(j, "none")
        /\ UNCHANGED faults
     \/ /\ durable
        /\ Fault
        /\ RunGoes(j, "start") \/ UNCHANGED runs
        /\ DispatchGoes(j, "fail")
        /\ UNCHANGED instance
  /\ UNCHANGED <<durable, artifact, history, jobs, compile, library, proposals, edits>>

DispatchFail(j) ==
  /\ dispatch[j] = "fail"
  /\ UpdateJob(j, "failed")
  /\ DispatchGoes(j, "none")
  /\ UNCHANGED <<durable, artifact, history, instance, compile, library, proposals, runs,
                 edits, faults>>

-------------------------------------------------------------------------------
\* runPlanCompileJob, and the workflow that retries it when `durable`.

\* Where an exception leads: the step of the workflow runs again, or has run out.
AfterThrow(run) ==
  IF ~durable THEN NoRun
  ELSE IF run.attempt < MaxAttempts THEN FreshRun("start", run.attempt + 1)
  ELSE FreshRun("final", 1)

Throws(j) == runs' = [runs EXCEPT ![j] = AfterThrow(@)]

\* A clarification of the job is pending: nothing to run before it is answered.
Asks(j) == jobs[j] \in {"running", "waiting"} /\ clarification[j] \in {"pending", "due"}

\* artifact := getStored, then the job, its clarification and the sources; then the job is
\* running, or waiting again.
RunBegin(j) ==
  /\ RunAt(j) = "start"
  /\ \/ /\ jobs[j] = "completed"
        /\ RunEnds(j)
        /\ UNCHANGED jobs
     \/ /\ Asks(j)
        /\ UpdateJob(j, "waiting")
        /\ RunEnds(j)
     \/ /\ ~Asks(j)
        /\ jobs[j] \in {"waiting", "failed", "cancelled", "expired"} \/ Ready = {}
        /\ jobs[j] # "completed"
        /\ Throws(j)
        /\ UNCHANGED jobs
     \/ /\ ~Asks(j)
        /\ Ready # {}
        /\ TransitionJob(j, {"queued", "running"}, "running")
        /\ runs' = [runs EXCEPT ![j] = [@ EXCEPT !.at = "compile", !.base = artifact.version,
                                               !.sources = Ready]]
  /\ UNCHANGED <<durable, artifact, history, instance, compile, library, proposals, dispatch,
                 edits, faults>>

\* The objects of the sources, runtime.compile and assertActive: an exception, questions,
\* or a plan.
RunCompile(j) ==
  /\ RunAt(j) = "compile"
  /\ \/ /\ ~(runs[j].sources \subseteq objects) \/ jobs[j] # "running"
        /\ RunFails(j)
        /\ UNCHANGED faults
     \/ Fault /\ RunFails(j)
     \/ /\ runs[j].sources \subseteq objects
        /\ jobs[j] = "running"
        /\ RunGoes(j, "clarify") \/ RunGoes(j, "interpret")
        /\ UNCHANGED faults
  /\ UNCHANGED <<durable, artifact, history, jobs, instance, compile, library, proposals,
                 dispatch, edits>>

\* createClarification: a pending request is used again.
CreateClarification(j) ==
  /\ clarification' = [clarification EXCEPT ![j] = IF @ = "due" THEN "due" ELSE "pending"]
  /\ questioned' = [questioned EXCEPT ![j] = @ \cup runs[j].sources]

RunClarify(j) ==
  /\ RunAt(j) = "clarify"
  /\ CreateClarification(j)
  /\ RunGoes(j, "wait")
  /\ UNCHANGED <<durable, artifact, history, jobs, instance, assumed, library, proposals,
                 dispatch, edits, faults>>

\* transitionJob from running to waiting. The run has returned before the answer arrives.
RunWait(j) ==
  /\ RunAt(j) = "wait"
  /\ \/ /\ TransitionJob(j, {"running"}, "waiting")
        /\ RunEnds(j)
     \/ /\ jobs[j] # "running"
        /\ RunFails(j)
        /\ UNCHANGED jobs
  /\ UNCHANGED <<durable, artifact, history, instance, compile, library, proposals, dispatch,
                 edits, faults>>

\* saveInterpretation replaces what an earlier attempt saved.
SaveInterpretation(j) == assumed' = [assumed EXCEPT ![j] = runs[j].sources]

\* saveInterpretation, then assertActive, and saveVersionStored reads the artifact again.
RunInterpret(j) ==
  /\ RunAt(j) = "interpret"
  /\ SaveInterpretation(j)
  /\ \/ /\ jobs[j] = "running"
        /\ runs[j].base + 1 > artifact.version
        /\ runs' = [runs EXCEPT ![j].at = "commit", ![j].seen = artifact.version]
     \/ /\ jobs[j] # "running" \/ runs[j].base + 1 <= artifact.version
        /\ RunFails(j)
  /\ UNCHANGED <<durable, artifact, history, jobs, instance, clarification, questioned, library,
                 proposals, dispatch, edits, faults>>

\* Mutant of MayClaim: assertActive alone keeps cancelled jobs out.
MutantClaimsAnyJob(j) == TRUE

\* The first UPDATE of saveCompileVersionStored, which the others refer to.
MayClaim(j) == jobs[j] = "running"

\* The batch of saveCompileVersionStored: claim the job, update the artifact, insert the
\* row, complete the job. The unique index rolls all of it back; an artifact that has
\* changed leaves the job claimed. A workflow that crashes before its step is recorded
\* runs it again.
RunCommit(j) ==
  /\ RunAt(j) = "commit"
  /\ LET version == runs[j].base + 1
         changed == artifact.version # runs[j].seen
     IN
     \/ /\ ~MayClaim(j) \/ (~changed /\ Taken(version))
        /\ RunFails(j)
        /\ UNCHANGED <<artifact, history, jobs, faults>>
     \/ /\ MayClaim(j) /\ changed
        /\ RunGoes(j, "lost")
        /\ UNCHANGED <<artifact, history, jobs, faults>>
     \/ /\ MayClaim(j) /\ ~changed /\ ~Taken(version)
        /\ artifact' = [version |-> version, by |-> j]
        /\ history' = history \cup {NewRow(runs[j].base, runs[j].seen, j, runs[j].sources)}
        /\ jobs' = [jobs EXCEPT ![j] = "completed"]
        /\ \/ RunEnds(j) /\ UNCHANGED faults
           \/ durable /\ Fault /\ RunRestarts(j)
  /\ UNCHANGED <<durable, instance, compile, library, proposals, dispatch, edits>>

\* The UPDATE after a batch that found the artifact changed.
RunLost(j) ==
  /\ RunAt(j) = "lost"
  /\ jobs' = [jobs EXCEPT ![j] = IF @ = "running" THEN "failed" ELSE @]
  /\ RunFails(j)
  /\ UNCHANGED <<durable, artifact, history, instance, compile, library, proposals, dispatch,
                 edits, faults>>

\* The catch clause reads the job: a cancelled one ends quietly; a durable step throws on;
\* an active one is to fail.
RunCatch(j) ==
  /\ RunAt(j) = "catch"
  /\ \/ jobs[j] = "cancelled" /\ RunEnds(j)
     \/ jobs[j] # "cancelled" /\ durable /\ Throws(j)
     \/ jobs[j] \in Active /\ ~durable /\ RunGoes(j, "fail")
     \/ jobs[j] \notin Active \cup {"cancelled"} /\ ~durable /\ RunEnds(j)
  /\ UNCHANGED <<durable, artifact, history, jobs, instance, compile, library, proposals,
                 dispatch, edits, faults>>

\* The workflow has run out of attempts: its own catch clause reads the job.
RunFinal(j) ==
  /\ RunAt(j) = "final"
  /\ \/ jobs[j] \in Active /\ RunGoes(j, "fail")
     \/ jobs[j] \notin Active /\ RunEnds(j)
  /\ UNCHANGED <<durable, artifact, history, jobs, instance, compile, library, proposals,
                 dispatch, edits, faults>>

RunFail(j) ==
  /\ RunAt(j) = "fail"
  /\ UpdateJob(j, "failed")
  /\ RunEnds(j)
  /\ UNCHANGED <<durable, artifact, history, instance, compile, library, proposals, dispatch,
                 edits, faults>>

-------------------------------------------------------------------------------
\* Crashes. A request is lost, with the run inside it; a workflow goes on from its last
\* finished step.

CrashRequest(r) ==
  /\ edits[r].at \notin {"idle", "done", "crashed"}
  /\ Fault
  /\ edits' = [edits EXCEPT ![r] = [NoEdit EXCEPT !.at = "crashed"]]
  /\ UNCHANGED <<durable, artifact, history, jobs, instance, compile, library, proposals,
                 dispatch, runs>>

CrashDispatch(j) ==
  /\ dispatch[j] # "none"
  /\ Fault
  /\ DispatchGoes(j, "none")
  /\ UNCHANGED <<durable, artifact, history, jobs, instance, compile, library, proposals,
                 runs, edits>>

CrashRun(j) ==
  /\ RunAt(j) # "off"
  /\ Fault
  /\ \/ ~durable /\ RunEnds(j)
     \/ durable /\ RunAt(j) \notin {"final", "fail"} /\ RunRestarts(j)
     \/ durable /\ RunAt(j) \in {"final", "fail"} /\ RunGoes(j, "final")
  /\ UNCHANGED <<durable, artifact, history, jobs, instance, compile, library, proposals,
                 dispatch, edits>>

-------------------------------------------------------------------------------
EditNext(r) ==
  \/ \E checked \in BOOLEAN : SaveBegin(r, checked)
  \/ SaveReread(r) \/ SaveBatch(r) \/ SaveCleanup(r)
  \/ ProposeBegin(r) \/ \E p \in Proposal : ProposeInsert(r, p) \/ ConfirmBegin(r, p)
  \/ ConfirmApply(r) \/ ConfirmStale(r)
  \/ \E s \in Source : AddBegin(r, s) \/ DeleteBegin(r, s)
  \/ AddPut(r) \/ AddInsert(r) \/ AddUnput(r)
  \/ DeleteMark(r) \/ DeleteUnlink(r) \/ DeleteFinalize(r)
  \/ CrashRequest(r)

JobNext(j) ==
  \/ StartCompile(j) \/ ClarificationDue(j) \/ Cancel(j) \/ Terminate(j)
  \/ \E resumeCompile \in BOOLEAN : Answer(j, resumeCompile)
  \/ DispatchList(j) \/ DispatchCreate(j) \/ DispatchFail(j)
  \/ CrashDispatch(j)

RunNext(j) ==
  \/ RunBegin(j) \/ RunCompile(j) \/ RunClarify(j)
  \/ RunWait(j) \/ RunInterpret(j) \/ RunCommit(j) \/ RunLost(j) \/ RunCatch(j)
  \/ RunFinal(j) \/ RunFail(j) \/ CrashRun(j)

LibraryNext ==
  \/ \E r \in Edit : EditNext(r)
  \/ \E j \in Job : JobNext(j) \/ RunNext(j)
  \/ ReadJob

LibrarySpec == LibraryInit /\ [][LibraryNext]_libraryVars

-------------------------------------------------------------------------------
EditStep ==
  {"idle", "done", "crashed", "reread", "save", "cleanup", "propose", "apply", "stale",
   "release", "put", "insert", "unput", "mark", "unlink", "finalize"}
DispatchStep == {"none", "resume", "list", "create", "fail"}
RunStep ==
  {"off", "start", "compile", "clarify", "wait", "interpret", "commit",
   "lost", "catch", "final", "fail"}

EditRecord == [at : EditStep, base : Nat, seen : Nat,
                  target : {Created} \cup Proposal \cup Source]
RunRecord == [at : RunStep, base : Nat, seen : Nat, sources : SUBSET Source, attempt : Nat]

\* The types of the rows, of what the requests remember, and of their steps.
LibraryTypeOK ==
  /\ durable \in BOOLEAN
  /\ artifact \in [version : Nat, by : Author]
  /\ history \subseteq Row
  /\ jobs \in [Job -> JobStatus]
  /\ instance \in [Job -> BOOLEAN]
  /\ clarification \in [Job -> {"none", "pending", "due", "answered", "expired"}]
  /\ assumed \in [Job -> SUBSET Source] /\ questioned \in [Job -> SUBSET Source]
  /\ sources \in [Source -> {"none", "ready", "deleting", "deleted"}]
  /\ objects \subseteq Source
  /\ proposals \in [Proposal -> [status : {"none", "pending", "applying", "applied", "stale"},
                                 base : Nat]]
  /\ dispatch \in [Job -> DispatchStep]
  /\ runs \in [Job -> RunRecord]
  /\ edits \in [Edit -> EditRecord]
  /\ faults \in 0..MaxFaults

\* A plan is never written over unread: each version from the first up to the current one
\* has its row, written by whoever had read the version before it, and the current plan is
\* that of its row. A row past the current version is one a request could not use, and
\* only that request, if it does not crash, can be about to delete it.
HistoryIsALine ==
  /\ \A row \in history :
       /\ row.by # Created => row.parent = row.version - 1 /\ row.base = row.parent
       /\ \A other \in history : other.version = row.version => other = row
       /\ row.version > artifact.version =>
            /\ row.version = artifact.version + 1
            /\ row.by \in Edit
            /\ edits[row.by].at \in {"cleanup", "crashed"}
  /\ \A v \in First..artifact.version : Taken(v)
  /\ \E row \in history : row.version = artifact.version /\ row.by = artifact.by

\* The versions a job has written.
Own(j) == {row \in history : row.by = j}

\* What has ended stays ended: a job that was cancelled, has failed or has expired is never
\* active and never completed later, and adds no version to the plan, however far its run
\* has come by then. A job completes in the step that adds its one version.
SettledJobIsOver ==
  [][\A j \in Job :
       /\ jobs[j] \notin Active \cup {"none"} =>
            /\ jobs'[j] \notin Active \cup {"none"}
            /\ jobs'[j] = "completed" => jobs[j] = "completed"
            /\ Own(j)' = Own(j)
       /\ jobs'[j] = "completed" /\ jobs[j] # "completed" => Cardinality(Own(j)') = 1]_libraryVars

\* While a job is running, the sources its run reads stay, rows and objects.
CompileSourcesPresent ==
  \A j \in Job :
    jobs[j] = "running" => \A s \in runs[j].sources : sources[s] = "ready" /\ s \in objects

\* A waiting job can be got going again: the request it waits for is there to be answered,
\* or to expire with it. And at most one job keeps the artifact from being changed.
WaitingHasQuestion ==
  /\ \A j \in Job : jobs[j] = "waiting" => clarification[j] \in {"pending", "due"}
  /\ \A j, k \in Job : jobs[j] \in Active /\ jobs[k] \in Active => j = k

===============================================================================
