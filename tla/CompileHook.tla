------------------------------ MODULE CompileHook ------------------------------
(***************************************************************************)
(* usePlanCompiler of the React package and the calls of the client it      *)
(* makes. Each call is an async function; the user makes others meanwhile,  *)
(* and turns to another plan. A compile is posted and polled until its job  *)
(* settles; then the plan, or the question the job waits with, is fetched.  *)
(* What the server does with jobs is the subject of PlanLibrary: any answer *)
(* may come here.                                                           *)
(***************************************************************************)
EXTENDS Integers

CONSTANTS
  Plan,       \* plan ids
  MaxRuns,    \* bound on the calls made through run
  MaxTurns,   \* bound on turning to another plan
  MaxPolls    \* polls before a compile is given up; 3600 in the code

ASSUME CompileHookAssumption == {MaxRuns, MaxTurns, MaxPolls} \subseteq Nat

Run == 1..MaxRuns
NoRun == 0

VARIABLES
  plan,       \* the prop
  runs,       \* the calls made through run, each with the plan of its render
  compileStatus,     \* state
  result,     \* state: the run it comes from, NoRun if there is none
  inspector,  \* state: the plan it is of, or "none"
  compileError,      \* state: the run that threw it, NoRun if there is none
  abortRef,   \* the run that a new compile aborts
  load,       \* the inspector the effect has asked for, with `cancelled`
  turns

hookVars == <<plan, runs, compileStatus, result, inspector, compileError, abortRef, load, turns>>

\* `at` is the await a run is at: "post", "delay", "poll", "plan" or "question" of a
\* compile, "call" of the others, "refresh" after the operation, "over". `late` is history:
\* it was aborted when its job was seen completed.
Idle(p) == [at |-> "idle", plan |-> p, polls |-> 0, aborted |-> FALSE, late |-> FALSE]

HookInit ==
  /\ plan \in Plan
  /\ runs = [r \in Run |-> Idle(plan)]
  /\ compileStatus = "idle" /\ result = NoRun /\ inspector = "none" /\ compileError = NoRun
  /\ abortRef = NoRun
  /\ load = [plan |-> plan, under |-> TRUE]
  /\ turns = 0

At(r) == runs[r].at
Goes(r, at) == runs' = [runs EXCEPT ![r].at = at]
Begun(r) == At(r) # "idle"
UnderWay(r) == At(r) \notin {"idle", "refresh", "over"}

\* abort of a run: nothing to a run that is over, or made no controller.
Aborted(r) ==
  [q \in Run |-> IF q = r
                 THEN [runs[q] EXCEPT !.aborted = TRUE, !.late = (At(q) \in {"plan", "refresh", "over"})]
                 ELSE runs[q]]

\* setStatus and setError of run, as it starts.
Loading == compileStatus' = "loading" /\ compileError' = NoRun

\* compile and answerAndCompile, and what they post first.
StartCompile(r) ==
  /\ ~Begun(r) /\ \A q \in 1..(r - 1) : Begun(q)
  /\ runs' = [Aborted(abortRef) EXCEPT ![r] = [Idle(plan) EXCEPT !.at = "post"]]
  /\ abortRef' = r
  /\ Loading
  /\ UNCHANGED <<plan, result, inspector, load, turns>>

\* addTextSource, addUrlSource, addFileSource, and refreshInspector ("read").
StartCall(r, at) ==
  /\ ~Begun(r) /\ \A q \in 1..(r - 1) : Begun(q)
  /\ runs' = [runs EXCEPT ![r] = [Idle(plan) EXCEPT !.at = at]]
  /\ Loading
  /\ UNCHANGED <<plan, result, inspector, abortRef, load, turns>>

\* The catch clause of run: it does not ask whether the plan or the compile is current.
Throws(r) ==
  /\ Goes(r, "over")
  /\ compileStatus' = "error"
  /\ compileError' = r
  /\ UNCHANGED <<plan, result, inspector, abortRef, load, turns>>

\* What an abort makes reject: the calls with a signal and the delay.
Signalled(r) == At(r) \in {"post", "delay", "poll", "question"}

Rejects(r) ==
  /\ Signalled(r) /\ runs[r].aborted
  /\ Throws(r)

\* Any other call fails.
Fails(r) ==
  /\ At(r) \in {"post", "poll", "plan", "question", "call", "read"}
  /\ Throws(r)

\* Mutant of JobAnswered: the signal is not given to the call.
MutantNoSignal(r, job) ==
  /\ At(r) \in {"post", "poll"}
  /\ \/ /\ job = "busy" /\ runs[r].polls < MaxPolls
        /\ Goes(r, "delay")
        /\ UNCHANGED <<plan, compileStatus, result, inspector, compileError, abortRef, load, turns>>
     \/ /\ job = "busy" /\ runs[r].polls = MaxPolls
        /\ Throws(r)
     \/ /\ job \in {"completed", "waiting"}
        /\ Goes(r, IF job = "completed" THEN "plan" ELSE "question")
        /\ UNCHANGED <<plan, compileStatus, result, inspector, compileError, abortRef, load, turns>>
     \/ /\ job = "failed"
        /\ Throws(r)

\* A job is answered to the POST or a poll. While it is queued or running it is polled
\* again; failed, cancelled and expired jobs throw.
JobAnswered(r, job) ==
  /\ At(r) \in {"post", "poll"} /\ ~runs[r].aborted
  /\ \/ /\ job = "busy" /\ runs[r].polls < MaxPolls
        /\ Goes(r, "delay")
        /\ UNCHANGED <<plan, compileStatus, result, inspector, compileError, abortRef, load, turns>>
     \/ /\ job = "busy" /\ runs[r].polls = MaxPolls
        /\ Throws(r)
     \/ /\ job \in {"completed", "waiting"}
        /\ Goes(r, IF job = "completed" THEN "plan" ELSE "question")
        /\ UNCHANGED <<plan, compileStatus, result, inspector, compileError, abortRef, load, turns>>
     \/ /\ job = "failed"
        /\ Throws(r)

\* Half a second later.
Polls(r) ==
  /\ At(r) = "delay" /\ ~runs[r].aborted
  /\ runs' = [runs EXCEPT ![r].at = "poll", ![r].polls = @ + 1]
  /\ UNCHANGED <<plan, compileStatus, result, inspector, compileError, abortRef, load, turns>>

\* The plan or the inspector has come: the compile is shown, whatever was aborted or
\* turned to since. The fetch of a plan has no signal.
Succeeds(r) ==
  /\ At(r) = "plan" \/ (At(r) = "question" /\ ~runs[r].aborted)
  /\ Goes(r, "refresh")
  /\ compileStatus' = "success"
  /\ result' = r
  /\ UNCHANGED <<plan, inspector, compileError, abortRef, load, turns>>

CallSucceeds(r) ==
  /\ compileStatus' = "success"
  /\ \/ At(r) = "call" /\ Goes(r, "refresh") /\ UNCHANGED inspector
     \/ At(r) = "read" /\ Goes(r, "over") /\ inspector' = runs[r].plan
  /\ UNCHANGED <<plan, result, compileError, abortRef, load, turns>>

\* refreshInspectorQuiet, for the plan of the render the call was made in.
Refreshes(r) ==
  /\ At(r) = "refresh"
  /\ Goes(r, "over")
  /\ inspector' \in {inspector, runs[r].plan}
  /\ UNCHANGED <<plan, compileStatus, result, compileError, abortRef, load, turns>>

Loads ==
  /\ load.under
  /\ load' = [load EXCEPT !.under = FALSE]
  /\ inspector' \in {inspector, load.plan}
  /\ UNCHANGED <<plan, runs, compileStatus, result, compileError, abortRef, turns>>

\* The effect: its cleanup and its next run.
Turn ==
  /\ turns < MaxTurns
  /\ turns' = turns + 1
  /\ \E p \in Plan \ {plan} : plan' = p /\ load' = [plan |-> p, under |-> TRUE]
  /\ runs' = Aborted(abortRef)
  /\ abortRef' = NoRun
  /\ compileStatus' = "idle" /\ result' = NoRun /\ inspector' = "none" /\ compileError' = NoRun

Advances(r) ==
  \/ Rejects(r) \/ Fails(r)
  \/ \E job \in {"busy", "completed", "waiting", "failed"} : JobAnswered(r, job)
  \/ Polls(r) \/ Succeeds(r) \/ CallSucceeds(r) \/ Refreshes(r)

HookNext ==
  \/ \E r \in Run : StartCompile(r) \/ \E at \in {"call", "read"} : StartCall(r, at)
  \/ \E r \in Run : Advances(r)
  \/ Loads
  \/ Turn

\* Requests are answered or fail, and timers fire.
HookFairness == \A r \in Run : WF_hookVars(Advances(r))

HookSpec == HookInit /\ [][HookNext]_hookVars /\ HookFairness

-------------------------------------------------------------------------------
CallUnderWay == \E r \in Run : UnderWay(r)

\* What the hook shows of a compile is of the plan it is used for and of the last
\* compile: one that was aborted by another, or by turning to another plan, shows its
\* outcome only if its job had been seen completed by then. And the hook is loading only
\* while a call is under way, however many overlap.
HookShowsItsCompile ==
  /\ result # NoRun /\ runs[result].aborted => runs[result].late
  /\ result # NoRun /\ runs[result].plan # plan => runs[result].late
  /\ compileStatus = "loading" => CallUnderWay

===============================================================================
