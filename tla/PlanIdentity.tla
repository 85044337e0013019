------------------------------ MODULE PlanIdentity ------------------------------
(***************************************************************************)
(* The ids of what an AI model writes. A generator asks the model for a    *)
(* plan, for an edit of a plan or for a patch of a running one, checks the *)
(* answer against the schema, asks again when it does not fit, and gives   *)
(* every step the model made up an id of the runtime. For a patch the      *)
(* runtime says first which steps may change, and applies the answer to    *)
(* the plan it was asked about.                                            *)
(*                                                                         *)
(* One request is followed from the question to the answer. An id that is  *)
(* minted is a number for a step and a place for a timer, unlike any id a  *)
(* model writes; which one it is does not matter.                          *)
(***************************************************************************)
EXTENDS Integers, Sequences, FiniteSets, SequencesExt

CONSTANTS
  Names,           \* ids that models write and plans have: of steps, timers, sources
  Questions,       \* what is asked: [path, base, sources, finished, roots]
  WrittenPlans,    \* plans the model may write
  WrittenPatches,  \* lists of operations the model may write
  MaxAttempts      \* maxAttempts of the generator

\* Plans and patches. A step waits for others, cites sources and has timers linked to steps.
WrittenStep ==
  [id : Names, after : SUBSET Names, refs : SUBSET Names,
   timers : Seq([id : Names, linked : Names])]
WrittenOperation ==
  [type : {"add_step"}, step : WrittenStep]
  \cup [type : {"update_step"}, stepId : Names, step : WrittenStep]
  \cup [type : {"remove_step"}, stepId : Names]

VARIABLES
  question,  \* one of Questions
  attempt,   \* the call under way, 0 before the first
  written,   \* what the model wrote, if it fits the schema
  result,    \* the plan that comes of it
  verdict    \* "asking", "accepted" or "refused"

identityVars == <<question, attempt, written, result, verdict>>

-------------------------------------------------------------------------------
Named(steps) == {steps[i].id : i \in DOMAIN steps}
TimerPlaces(steps) == UNION {{i} \X DOMAIN steps[i].timers : i \in DOMAIN steps}
TimerAt(steps, place) == steps[place[1]].timers[place[2]]
TimerIds(steps) == [p \in TimerPlaces(steps) |-> TimerAt(steps, p).id]

\* In every set of steps there is one that waits for none of them.
NoCycle(steps) ==
  \A S \in (SUBSET Named(steps)) \ {{}} :
    \E i \in DOMAIN steps : steps[i].id \in S /\ steps[i].after \cap S = {}

FitsPlanSchema(steps) ==
  /\ Cardinality(Named(steps)) = Len(steps)
  /\ \A i \in DOMAIN steps : steps[i].after \subseteq Named(steps)
  /\ NoCycle(steps)
  /\ IsInjective(TimerIds(steps))
  /\ \A p \in TimerPlaces(steps) : TimerAt(steps, p).linked \in Named(steps)

\* A plan that is edited or replanned was accepted before.
ASSUME PlanIdentityAssumption ==
  /\ MaxAttempts \in 1..10
  /\ \A name \in Names : name \notin Nat
  /\ WrittenPlans \subseteq Seq(WrittenStep) /\ WrittenPatches \subseteq Seq(WrittenOperation)
  /\ \A q \in Questions :
       /\ q.path \in {"create", "edit", "replan"}
       /\ q.base \in Seq(WrittenStep) /\ FitsPlanSchema(q.base)

Target(op) == IF op.type = "add_step" THEN op.step.id ELSE op.stepId
AddsOf(ops) == {k \in DOMAIN ops : ops[k].type = "add_step"}
Added(ops) == {ops[k].step.id : k \in AddsOf(ops)}

-------------------------------------------------------------------------------
\* The ids of the runtime.

CitesKnown(steps, known, required) ==
  \A i \in DOMAIN steps : steps[i].refs \subseteq known /\ (required => steps[i].refs # {})

SourcesOf(steps) == UNION {steps[i].refs : i \in DOMAIN steps}

\* An id of its own for each id; of a step listed twice, the last one minted.
MintedSteps(steps) ==
  [id \in Named(steps) |-> Max({i \in DOMAIN steps : steps[i].id = id})]
MintedTimers(steps) ==
  [id \in Range(TimerIds(steps)) |-> CHOOSE p \in TimerPlaces(steps) : TimerIds(steps)[p] = id]

Renamed(names, id) == IF id \in DOMAIN names THEN names[id] ELSE id
RenamedAll(names, ids) == {Renamed(names, id) : id \in ids}

Rewritten(step, id, names) == [step EXCEPT !.id = id, !.after = RenamedAll(names, @)]

RewriteTimer(timer, stepIds, timerIds) ==
  [id |-> timerIds[timer.id], linked |-> Renamed(stepIds, timer.linked)]

RewriteCreated(steps) ==
  LET stepIds == MintedSteps(steps)
      timerIds == MintedTimers(steps)
  IN [i \in DOMAIN steps |->
        [steps[i] EXCEPT
           !.id = stepIds[@], !.after = RenamedAll(stepIds, @),
           !.timers = [t \in DOMAIN @ |-> RewriteTimer(@[t], stepIds, timerIds)]]]

\* Timers keep the id of the step they are linked to as the model wrote it.
RewriteEdited(steps, base) ==
  LET minted == MintedSteps(steps)
      stepIds == [id \in Named(steps) |-> IF id \in Named(base) THEN id ELSE minted[id]]
  IN [i \in DOMAIN steps |-> Rewritten(steps[i], stepIds[steps[i].id], stepIds)]

AddedIds(ops) ==
  [id \in Added(ops) |-> Max({k \in AddsOf(ops) : ops[k].step.id = id})]

\* Mutant of RewritePatch: a change of an old step still names the new ones as the model did.
MutantOldStepsKeepNames(ops) ==
  [k \in DOMAIN ops |->
     IF ops[k].type # "add_step" THEN ops[k]
     ELSE [ops[k] EXCEPT !.step = Rewritten(@, AddedIds(ops)[@.id], AddedIds(ops))]]

RewritePatch(ops) ==
  LET stepIds == AddedIds(ops)
  IN [k \in DOMAIN ops |->
        CASE ops[k].type = "add_step" ->
               [ops[k] EXCEPT !.step = Rewritten(@, stepIds[@.id], stepIds)]
          [] ops[k].type = "update_step" ->
               [ops[k] EXCEPT !.step = Rewritten(@, ops[k].stepId, stepIds)]
          [] ops[k].type = "remove_step" -> ops[k]]

RewriteAffected(affected, ops) ==
  RenamedAll(AddedIds(ops), affected) \cup Added(RewritePatch(ops))

-------------------------------------------------------------------------------
\* The runtime's side of a patch.

\* The steps affected directly, and every step downstream of one.
Downstream(base, roots) ==
  LET Closed(S) == \A i \in DOMAIN base : base[i].after \cap S # {} => base[i].id \in S
  IN {id \in Named(base) :
        \A S \in SUBSET Named(base) : roots \subseteq S /\ Closed(S) => id \in S}

\* Exactly the steps that may change, and the ones the patch adds.
Approved(base, expected, affected, ops) ==
  /\ affected \cap Named(base) = expected
  /\ affected \ Named(base) = Added(ops)

OperationsApply(base, finished, affected, ops) ==
  \A k \in DOMAIN ops :
    LET id == Target(ops[k]) IN
    /\ id \in affected
    /\ \A j \in 1..(k - 1) : Target(ops[j]) # id
    /\ IF ops[k].type = "add_step" THEN id \notin Named(base)
       ELSE id \in Named(base) \ finished
    /\ ops[k].type = "update_step" => ops[k].step.id = id

On(ops, id, type) == {k \in DOMAIN ops : ops[k].type = type /\ Target(ops[k]) = id}

\* The numbers of a set, in order.
Ascending(places) ==
  CHOOSE f \in [1..Cardinality(places) -> places] : \A i, j \in DOMAIN f : i < j => f[i] < f[j]

Updated(step, ops) ==
  LET updates == On(ops, step.id, "update_step")
  IN  IF updates = {} THEN step ELSE ops[CHOOSE k \in updates : TRUE].step

\* What is left of the plan, each step in its place, and the new steps after it.
Patched(base, ops) ==
  LET left == Ascending({i \in DOMAIN base : On(ops, base[i].id, "remove_step") = {}})
      adds == Ascending(AddsOf(ops))
  IN [i \in DOMAIN left |-> Updated(base[left[i]], ops)]
     \o [k \in DOMAIN adds |-> ops[adds[k]].step]

StepsIn(ops) ==
  LET changes == Ascending({k \in DOMAIN ops : ops[k].type # "remove_step"})
  IN [k \in DOMAIN changes |-> ops[changes[k]].step]

\* A replan may cite what the plan cites already, and the sources that caused it.
CitesForReplan(ops) ==
  CitesKnown(StepsIn(ops), SourcesOf(question.base) \cup question.sources, FALSE)

Applies(affected, ops) ==
  LET expected == Downstream(question.base, question.roots) IN
  /\ Approved(question.base, expected, affected, ops)
  /\ OperationsApply(question.base, question.finished, affected, ops)
  /\ FitsPlanSchema(Patched(question.base, ops))

-------------------------------------------------------------------------------
\* One request.

IdentityInit ==
  /\ question \in Questions
  /\ attempt = 0 /\ written = <<>> /\ result = <<>> /\ verdict = "asking"

Asking == verdict = "asking" /\ attempt' = attempt + 1

\* The call fails, runs into its time limit or brings what the schema refuses.
CallInVain ==
  /\ Asking
  /\ verdict' = IF attempt' = MaxAttempts THEN "refused" ELSE "asking"
  /\ UNCHANGED <<question, written, result>>

\* The caller gives up, and there is no other attempt.
CallAborted ==
  /\ Asking
  /\ verdict' = "refused"
  /\ UNCHANGED <<question, written, result>>

Settle(ok, steps) ==
  /\ verdict' = IF ok THEN "accepted" ELSE "refused"
  /\ result' = IF ok THEN steps ELSE <<>>
  /\ UNCHANGED question

CreatePlan ==
  /\ question.path = "create" /\ Asking
  /\ \E steps \in WrittenPlans :
       /\ FitsPlanSchema(steps)
       /\ written' = steps
       /\ Settle(CitesKnown(steps, question.sources, TRUE)
                   /\ FitsPlanSchema(RewriteCreated(steps)),
                 RewriteCreated(steps))

\* Steps must cite a source only if the host gave some.
EditPlan ==
  /\ question.path = "edit" /\ Asking
  /\ \E steps \in WrittenPlans :
       /\ FitsPlanSchema(steps)
       /\ written' = steps
       /\ Settle(CitesKnown(steps, question.sources, question.sources # {})
                   /\ FitsPlanSchema(RewriteEdited(steps, question.base)),
                 RewriteEdited(steps, question.base))

PatchPlan ==
  /\ question.path = "replan" /\ Asking
  /\ \E ops \in WrittenPatches :
       /\ written' = ops
       /\ LET affected == RewriteAffected(Downstream(question.base, question.roots), ops)
          IN  Settle(CitesForReplan(ops) /\ Applies(affected, RewritePatch(ops)),
                     Patched(question.base, RewritePatch(ops)))

IdentityNext == CallInVain \/ CallAborted \/ CreatePlan \/ EditPlan \/ PatchPlan

IdentitySpec == IdentityInit /\ [][IdentityNext]_identityVars

-------------------------------------------------------------------------------
\* What the model meant: its answer read with its own ids.
Meant ==
  IF question.path = "replan"
  THEN Patched(question.base,
         [k \in DOMAIN written |->
            IF written[k].type = "update_step"
            THEN [written[k] EXCEPT !.step.id = written[k].stepId] ELSE written[k]])
  ELSE written

\* It may be had: it cites what it may cite and changes what it may change.
MayBeHad ==
  CASE question.path = "create" -> CitesKnown(written, question.sources, TRUE)
    [] question.path = "edit" ->
         CitesKnown(written, question.sources, question.sources # {})
    [] question.path = "replan" ->
         /\ CitesForReplan(written)
         /\ \A k \in DOMAIN written :
              /\ \A j \in DOMAIN written \ {k} : Target(written[j]) # Target(written[k])
              /\ written[k].type # "add_step" =>
                   Target(written[k]) \in
                     Downstream(question.base, question.roots) \ question.finished
         /\ FitsPlanSchema(Meant)

Kept == IF question.path = "create" THEN {} ELSE Named(question.base)

\* A patch that gives a new step the id of an old one means neither of them.
Shadows == question.path = "replan" /\ Added(written) \cap Named(question.base) # {}

\* Only the plans that are created have their timers renamed: a timer that is linked to
\* a step an edit or a patch adds is left without it, and the answer refused.
LinkedToNew ==
  question.path # "create" /\ \E p \in TimerPlaces(Meant) : TimerAt(Meant, p).linked \notin Kept

\* The runtime's ids take nothing from the answer. Steps of the base keep their ids, the
\* others get new ones, and all depend on each other, and have their timers linked, as
\* the model meant it, in the order it meant. An answer is accepted just if it may be had.
IdentityIsRight ==
  written # <<>> /\ ~Shadows =>
    /\ verdict = "accepted" <=> MayBeHad /\ ~LinkedToNew
    /\ verdict = "accepted" =>
         /\ Len(result) = Len(Meant) /\ Cardinality(Named(result)) = Len(result)
         /\ \A i \in DOMAIN result :
              /\ IF Meant[i].id \in Kept THEN result[i].id = Meant[i].id
                 ELSE result[i].id \notin Kept \cup Named(Meant)
              /\ \A j \in DOMAIN result :
                   /\ result[i].id \in result[j].after <=> Meant[i].id \in Meant[j].after
                   /\ \A t \in DOMAIN result[j].timers :
                        result[i].id = result[j].timers[t].linked
                          <=> Meant[i].id = Meant[j].timers[t].linked
================================================================================
