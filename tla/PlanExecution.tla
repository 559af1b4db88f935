--------------------------- MODULE PlanExecution ---------------------------
(***************************************************************************)
(* The execution of the plan of a session (ExecutionService).              *)
(*                                                                         *)
(* A plan is executed in batches of steps whose dependencies are done.     *)
(* The snapshot after every change goes to the session in memory and, in   *)
(* the same call, to the store.  A step that fails is retried, replaced by *)
(* a recovery, or fails the plan; a canceled execution can be taken up     *)
(* again.  Beside that, the messages of a step are written asynchronously, *)
(* each write together with a copy of the session, its plan included.      *)
(*                                                                         *)
(* One session: its lock admits one execution at a time.                   *)
(***************************************************************************)
EXTENDS Integers, Sequences, FiniteSets, SequencesExt, FiniteSetsExt, Filters

CONSTANTS
  Step,          \* steps, by title: those of the plan and those recoveries name
  First,         \* the steps of the plan the model captured
  Id,            \* Step.ID; an id is a number here, as an order is, and may be one
  Order,         \* the order a step came with, 0 if none
  Needs,         \* Step.Dependencies: ids or orders of steps
  Retries,       \* Step.MaxRetries
  Structured,    \* the plan came as JSON
  MaxParallel,   \* ExecutionService.MaxParallelSteps
  MaxReplans,    \* ExecutionService.MaxReplans
  MaxSteps,      \* 12 in mergeRecoveryPlan
  MaxWrites,     \* asynchronous writes that can wait; the pool refuses others
  MaxFaults, MaxCancels, MaxCrashes   \* bounds on what goes wrong

ASSUME PlanAssumption ==
  /\ First \in Seq(Step) /\ First # <<>> /\ IsInjective(First)
  /\ Id \in [Step -> Nat] /\ Order \in [Step -> Nat]
  /\ Needs \in [Step -> SUBSET Nat] /\ Retries \in [Step -> Nat]
  /\ Structured \in BOOLEAN /\ MaxParallel \in Nat \ {0}
  /\ MaxReplans \in Nat /\ MaxSteps \in Nat /\ MaxWrites \in Nat
  /\ MaxFaults \in Nat /\ MaxCancels \in Nat /\ MaxCrashes \in Nat

VARIABLES
  plan,         \* currentPlan of the execution
  live,         \* Session.CurrentPlan in memory
  stored,       \* current_plan of the stored session
  phase,        \* where Execute is; "idle" when it does not run
  outcome,      \* stepExecutionResult of each step of the batch
  cause,        \* the step and the kind of error of finishWithError
  replacement,  \* steps the recovery planner answered
  replans,
  canceled,     \* the context of the execution
  writes,       \* plans of the session copies that wait to be written
  answered,     \* steps whose model turn succeeded, as far as this life knows
  givenUp,      \* steps a recovery took the place of
  faults, cancels, crashes

execution == <<plan, phase, outcome, cause, replacement, replans, canceled>>
records   == <<live, stored, writes>>
history   == <<answered, givenUp>>
counters  == <<faults, cancels, crashes>>
vars      == <<execution, records, history, counters>>

PlanStatus == {"draft", "approved", "running", "done", "failed", "canceled"}
StepStatus == {"absent", "pending", "running", "done", "failed", "skipped"}

\* drafted: how many of its steps the plan was captured with, the others are of
\* recoveries; claimed: those that were finished when it was captured.
Plan == [status : PlanStatus, steps : Seq(Step), drafted : Nat,
         state : [Step -> StepStatus], tries : [Step -> Nat], claimed : SUBSET Step]

\* A step has a status while it is part of the plan, and is retried as often as it may.
PlanOK(p) ==
  /\ p \in Plan
  /\ \A s \in Step : (p.state[s] = "absent" <=> s \notin ToSet(p.steps))
                  /\ p.tries[s] <= Retries[s]

NoError   == [step |-> 0, canceled |-> FALSE]
NoOutcome == [s \in Step |-> "none"]

TypeOK ==
  /\ PlanOK(plan) /\ PlanOK(live) /\ PlanOK(stored)
  /\ phase \in {"idle", "approve", "start", "loop", "batch", "judge", "settle",
                "recover", "merge", "done", "error"}
  /\ outcome \in [Step -> {"none", "run", "ok", "error", "canceled"}]
  /\ cause.step \in 0..Len(plan.steps) /\ cause.canceled \in BOOLEAN
  /\ replacement \in Seq(Step) /\ replans \in 0..MaxReplans
  /\ canceled \in BOOLEAN
  /\ writes \in Seq({p \in Plan : PlanOK(p)}) /\ Len(writes) <= MaxWrites
  /\ answered \subseteq Step /\ givenUp \subseteq Step
  /\ faults \in 0..MaxFaults /\ cancels \in 0..MaxCancels /\ crashes \in 0..MaxCrashes

-----------------------------------------------------------------------------
(* Plans and their marks (plan.go, StateService).                           *)

\* NewDraft.  A step keeps the status it has in the JSON of the model: what is said to
\* be finished stays so, and all else is pending once the plan is started.
Draft(steps, claimed) ==
  [status  |-> "draft", steps |-> steps,
   drafted |-> Len(steps),
   state   |-> [s \in Step |-> IF s \notin ToSet(steps) THEN "absent"
                               ELSE IF s \in claimed THEN "done" ELSE "pending"],
   tries   |-> [s \in Step |-> 0],
   claimed |-> claimed]

\* The plans an answer with these steps is captured as.  One that has a result section
\* is done, and so is each of its steps.
Captures(steps) ==
  {Draft(steps, claimed) : claimed \in IF Structured THEN SUBSET ToSet(steps) ELSE {{}}}
    \cup {[Draft(steps, ToSet(steps)) EXCEPT !.status = "done"]}

IsExecutableStatus(status) == status \in PlanStatus \ {"done"}

Finished(state) == state \in {"done", "skipped"}

Steps(p) == ToSet(p.steps)

\* Variant with a bug: every step starts again.
StartAll(p) ==
  [p EXCEPT !.status = "running",
            !.state = [s \in Step |-> IF s \in Steps(p) THEN "pending" ELSE p.state[s]]]

\* Start: what is not finished is pending again.
Start(p) ==
  [p EXCEPT !.status = "running",
            !.state = [s \in Step |-> IF s \in Steps(p) /\ ~Finished(p.state[s])
                                      THEN "pending" ELSE p.state[s]]]

Mark(p, steps, state) ==
  [p EXCEPT !.state = [s \in Step |-> IF s \in steps THEN state ELSE p.state[s]]]

\* MarkStepFailed; index 0 stands for no step.
MarkStepFailed(p, index) ==
  LET failed == IF index = 0 THEN {} ELSE {p.steps[index]}
  IN  [Mark(p, failed, "failed") EXCEPT !.status = "failed"]

MarkStepRetry(p, s) == [Mark(p, {s}, "pending") EXCEPT !.tries[s] = @ + 1]

MarkCanceled(p) ==
  [Mark(p, {s \in Step : p.state[s] = "running"}, "pending") EXCEPT !.status = "canceled"]

\* Step.Order: the one the step came with; a step of a recovery has that of its place.
OrderAt(p, i) == IF i <= p.drafted /\ Order[p.steps[i]] > 0 THEN Order[p.steps[i]] ELSE i

\* The places of the steps a reference may stand for, by id or by order.
Matches(p, ref) == {i \in 1..Len(p.steps) : ref \in {Id[p.steps[i]], OrderAt(p, i)}}

\* The first of them is meant.
Meant(p, ref) == p.steps[Min(Matches(p, ref))]

\* Variant with a bug: a dependency that can be executed too is good enough.
SatisfiedSoon(p, s) ==
  \A ref \in Needs[s] : /\ Matches(p, ref) # {}
                        /\ Finished(p.state[Meant(p, ref)]) \/ p.state[Meant(p, ref)] = "pending"

\* dependenciesSatisfied: what no step of the plan is meant by is never satisfied.
Satisfied(p, s) ==
  \A ref \in Needs[s] : Matches(p, ref) # {} /\ Finished(p.state[Meant(p, ref)])

\* readyStepIndexes
Ready(p) ==
  {i \in 1..Len(p.steps) : p.state[p.steps[i]] = "pending" /\ Satisfied(p, p.steps[i])}

\* maxParallelSteps: a plan without dependencies is executed in order, unless it came as
\* JSON.  The text of a plan that a recovery was merged into is two answers, and it
\* depends on them whether it can still be read as one.
Widths(p) ==
  IF \E s \in Steps(p) : Needs[s] # {} THEN {MaxParallel}
  ELSE IF \E s \in Steps(p) : p.state[s] = "skipped" THEN {1, MaxParallel}
  ELSE IF Structured THEN {MaxParallel} ELSE {1}

\* Variant with a bug: a step that waits for others is no reason to fail.
UnfinishedRunning(p) == {i \in 1..Len(p.steps) : p.state[p.steps[i]] = "running"}

Unfinished(p) == {i \in 1..Len(p.steps) : ~Finished(p.state[p.steps[i]])}

\* The steps at the first places of those that are ready.
Batch(p, width) == {p.steps[i] : i \in {j \in Ready(p) : Rank(Ready(p), j) <= width}}

\* mergeRecoveryPlan: the failed step is skipped, steps with a new title are added
\* at the end, the first of them whatever the length.  They get the order of their place
\* and keep their id and their references, which may mean an older step from now on.
MergeRecovery(p, steps, failed) ==
  LET new  == Filter(steps, Step \ Steps(p))
      room == IF MaxSteps > Len(p.steps) THEN MaxSteps - Len(p.steps) ELSE 1
      more == SubSeq(new, 1, IF Len(new) < room THEN Len(new) ELSE room)
  IN  [Mark(Mark(p, {failed}, "skipped"), ToSet(more), "pending") EXCEPT
         !.status = "running", !.steps = @ \o more]

Fault == faults < MaxFaults /\ faults' = faults + 1

\* The asynchronous write of a message with a copy of the session.
Later(p) == IF Len(writes) < MaxWrites THEN Append(writes, p) ELSE writes

Init ==
  /\ plan \in Captures(First) /\ live = plan /\ stored = plan
  /\ phase = "idle" /\ outcome = NoOutcome /\ cause = NoError
  /\ replacement = <<>> /\ replans = 0 /\ canceled = FALSE
  /\ writes = <<>> /\ answered = {} /\ givenUp = {}
  /\ faults = 0 /\ cancels = 0 /\ crashes = 0

-----------------------------------------------------------------------------
(* The execution.                                                           *)

\* savePlanState: the memory has the plan before the store is asked.  A failure
\* ends the execution; the store may have taken the plan all the same.
Save(p, next, index) ==
  /\ plan' = p /\ live' = p
  /\ \/ stored' = p /\ phase' = next /\ UNCHANGED <<cause, faults>>
     \/ /\ phase' = "error" /\ stored' \in {stored, p}
        /\ \/ canceled /\ cause' = [step |-> index, canceled |-> TRUE] /\ UNCHANGED faults
           \/ Fault /\ cause' = [step |-> index, canceled |-> FALSE]

Execute ==
  /\ phase = "idle" /\ IsExecutableStatus(live.status)
  /\ plan' = live /\ replans' = 0 /\ canceled' = FALSE
  /\ outcome' = NoOutcome /\ cause' = NoError /\ replacement' = <<>>
  /\ phase' = IF live.status = "approved" THEN "start" ELSE "approve"
  /\ UNCHANGED <<records, history, counters>>

\* The plan is approved; if that cannot be saved, Execute returns at once.
Approve ==
  LET p == [plan EXCEPT !.status = "approved"] IN
  /\ phase = "approve"
  /\ plan' = p /\ live' = p
  /\ \/ stored' = p /\ phase' = "start" /\ UNCHANGED faults
     \/ /\ phase' = "idle" /\ stored' \in {stored, p}
        /\ (canceled /\ UNCHANGED faults) \/ Fault
  /\ UNCHANGED <<outcome, cause, replacement, replans, canceled, writes, history, cancels,
                 crashes>>

StartPlan ==
  /\ phase = "start"
  /\ Save(Start(plan), "loop", 0)
  /\ UNCHANGED <<outcome, replacement, replans, canceled, writes, history, cancels, crashes>>

\* Variant with a bug: the loop goes round while the rest is blocked.
WaitBlocked ==
  /\ phase = "loop"
  /\ \/ canceled /\ phase' = "error" /\ cause' = [step |-> 0, canceled |-> TRUE]
     \/ /\ ~canceled /\ Ready(plan) = {} /\ Unfinished(plan) = {}
        /\ phase' = "done" /\ UNCHANGED cause
  /\ UNCHANGED <<plan, outcome, replacement, replans, canceled, records, history, counters>>

\* The loop ends: canceled, every step finished, or the rest is blocked.
LeaveLoop ==
  /\ phase = "loop"
  /\ \/ canceled /\ phase' = "error" /\ cause' = [step |-> 0, canceled |-> TRUE]
     \/ /\ ~canceled /\ Ready(plan) = {} /\ Unfinished(plan) = {}
        /\ phase' = "done" /\ UNCHANGED cause
     \/ /\ ~canceled /\ Ready(plan) = {} /\ Unfinished(plan) # {}
        /\ phase' = "error"
        /\ cause' = [step |-> Min(Unfinished(plan)), canceled |-> FALSE]
  /\ UNCHANGED <<plan, outcome, replacement, replans, canceled, records, history, counters>>

\* The next batch is marked running; each of its steps queues a copy of the session.
StartBatch ==
  /\ phase = "loop" /\ ~canceled /\ Ready(plan) # {}
  /\ \E width \in Widths(plan) :
       LET batch == Batch(plan, width)
           p     == Mark(plan, batch, "running")
       IN  /\ Save(p, "batch", Min(Ready(plan)))
           /\ outcome' = [s \in Step |-> IF s \in batch THEN "run" ELSE "none"]
           /\ writes' = IF phase' = "batch" THEN Later(p) ELSE writes
  /\ UNCHANGED <<replacement, replans, canceled, history, cancels, crashes>>

\* The turn of a step ends.  The session it answers in is a copy made before the
\* batch began.
StepEnds(s) ==
  /\ phase = "batch" /\ outcome[s] = "run"
  /\ \/ /\ outcome' = [outcome EXCEPT ![s] = "ok"]
        /\ answered' = answered \cup {s} /\ writes' = Later(plan)
        /\ UNCHANGED faults
     \/ /\ outcome' = [outcome EXCEPT ![s] = "error"] /\ Fault
        /\ UNCHANGED <<answered, writes>>
     \/ /\ canceled /\ outcome' = [outcome EXCEPT ![s] = "canceled"]
        /\ UNCHANGED <<answered, writes, faults>>
  /\ phase' = IF \E t \in Step : outcome'[t] = "run" THEN "batch" ELSE "judge"
  /\ UNCHANGED <<plan, cause, replacement, replans, canceled, live, stored, givenUp, cancels,
                 crashes>>

Judge ==
  /\ phase = "judge"
  /\ Save(Mark(plan, {s \in Step : outcome[s] = "ok"}, "done"), "settle", 0)
  /\ UNCHANGED <<outcome, replacement, replans, canceled, writes, history, cancels, crashes>>

Failed == {i \in 1..Len(plan.steps) : outcome[plan.steps[i]] \in {"error", "canceled"}}
FirstFailed == plan.steps[Min(Failed)]
WasCanceled == [step |-> Min(Failed), canceled |-> outcome[FirstFailed] = "canceled"]

BatchSucceeded ==
  /\ phase = "settle" /\ Failed = {}
  /\ phase' = "loop" /\ outcome' = NoOutcome
  /\ UNCHANGED <<plan, cause, replacement, replans, canceled, records, history, counters>>

\* More than one step failed: nothing is retried.
BatchFailed ==
  /\ phase = "settle" /\ Cardinality(Failed) > 1
  /\ IF canceled
     THEN phase' = "error" /\ cause' = WasCanceled /\ UNCHANGED <<plan, live, stored, faults>>
     ELSE Save([Mark(plan, {plan.steps[i] : i \in Failed}, "failed")
                  EXCEPT !.status = "failed"], "idle", Min(Failed))
  /\ UNCHANGED <<outcome, replacement, replans, canceled, writes, history, cancels, crashes>>

CanRetry == plan.tries[FirstFailed] < Retries[FirstFailed] /\ ~canceled
CanRecover == replans < MaxReplans /\ ~canceled

StepFailed ==
  /\ phase = "settle" /\ Cardinality(Failed) = 1
  /\ \/ CanRetry /\ Save(MarkStepRetry(plan, FirstFailed), "loop", Min(Failed))
     \/ /\ ~CanRetry /\ CanRecover
        /\ phase' = "recover" /\ UNCHANGED <<plan, cause, live, stored, faults>>
     \/ /\ ~CanRetry /\ ~CanRecover
        /\ phase' = "error" /\ cause' = WasCanceled
        /\ UNCHANGED <<plan, live, stored, faults>>
  /\ UNCHANGED <<outcome, replacement, replans, canceled, writes, history, cancels, crashes>>

Replacements == {r \in UNION {[1..n -> Step] : n \in 1..2} : IsInjective(r)}

\* The turn of the recovery planner: its commit makes the answer the plan of the
\* session.
Recover ==
  /\ phase = "recover"
  /\ \/ /\ \E r \in Replacements : replacement' = r /\ live' \in Captures(r)
        /\ phase' = "merge" /\ UNCHANGED <<cause, faults>>
     \/ /\ phase' = "error" /\ cause' = WasCanceled
        /\ (canceled /\ UNCHANGED faults) \/ Fault
        /\ UNCHANGED <<replacement, live>>
  /\ UNCHANGED <<plan, outcome, replans, canceled, stored, writes, history, cancels, crashes>>

Merge ==
  /\ phase = "merge"
  /\ Save(MergeRecovery(plan, replacement, FirstFailed), "loop", Min(Failed))
  /\ givenUp' = givenUp \cup {FirstFailed} /\ replans' = replans + 1
  /\ replacement' = <<>>
  /\ UNCHANGED <<outcome, canceled, writes, answered, cancels, crashes>>

MarkDone ==
  /\ phase = "done"
  /\ Save([plan EXCEPT !.status = "done"], "idle", 0)
  /\ UNCHANGED <<outcome, replacement, replans, canceled, writes, history, cancels, crashes>>

\* finishWithError: the memory has the final plan also when it cannot be saved.
FinishWithError ==
  LET p == IF cause.canceled THEN MarkCanceled(plan) ELSE MarkStepFailed(plan, cause.step) IN
  /\ phase = "error"
  /\ plan' = p /\ live' = p /\ phase' = "idle" /\ cause' = NoError /\ outcome' = NoOutcome
  /\ \/ stored' = p /\ UNCHANGED faults
     \/ stored' = stored /\ Fault
  /\ UNCHANGED <<replacement, replans, canceled, writes, history, cancels, crashes>>

-----------------------------------------------------------------------------
(* The user, the asynchronous writes and crashes.                           *)

Cancel ==
  /\ phase # "idle" /\ ~canceled
  /\ cancels < MaxCancels /\ cancels' = cancels + 1
  /\ canceled' = TRUE
  /\ UNCHANGED <<plan, phase, outcome, cause, replacement, replans, records, history, faults,
                 crashes>>

\* SaveUserMessage, SaveAssistantMessage: the copy of the session replaces the
\* stored one, whatever that has become meanwhile.
FlushWrite ==
  /\ writes # <<>> /\ writes' = Tail(writes)
  /\ \/ stored' = Head(writes) /\ UNCHANGED faults
     \/ UNCHANGED stored /\ Fault
  /\ UNCHANGED <<execution, live, history, cancels, crashes>>

\* What the next life knows of the answers is what the store says.
Crash ==
  /\ crashes < MaxCrashes /\ crashes' = crashes + 1
  /\ phase' = "idle" /\ cause' = NoError /\ canceled' = FALSE /\ replacement' = <<>>
  /\ outcome' = NoOutcome /\ replans' = 0
  /\ live' = stored /\ writes' = <<>>
  /\ answered' = {s \in answered : stored.state[s] = "done"}
  /\ UNCHANGED <<plan, stored, givenUp, faults, cancels>>

Process ==
  \/ Approve \/ StartPlan \/ LeaveLoop \/ StartBatch
  \/ (\E s \in Step : StepEnds(s))
  \/ Judge \/ BatchSucceeded \/ BatchFailed \/ StepFailed
  \/ Recover \/ Merge \/ MarkDone \/ FinishWithError

Next == Process \/ Execute \/ Cancel \/ FlushWrite \/ Crash

\* The goroutine of an execution runs on, and the turn of a step or of the recovery
\* planner is limited in rounds and time.
Spec == Init /\ [][Next]_vars /\ WF_vars(Process)

-----------------------------------------------------------------------------
\* What may count as finished in a plan: what was answered, what a recovery took the
\* place of, and what the model that wrote this plan said was finished.
Accounted(p) == answered \cup givenUp \cup p.claimed

(* Each step of a plan that says it is done was answered, or a recovery took its place,
   or it was finished already when this plan was captured; a step that a recovery added
   must have been executed, whatever the recovery said of it: over retries,
   cancellations, executions that begin again, late writes and crashes
   (execution_service.go:151-263, 575, state_service.go:20-35). *)
HonestDone ==
  \A p \in {live, stored} : p.status = "done" =>
    \A s \in Steps(p) : Finished(p.state[s]) /\ s \in Accounted(p)

Begun == {s \in Step : plan'.state[s] = "running" /\ plan.state[s] # "running"}

(* A step begins only when each of its references means a step of the plan as it is then,
   and that step was answered, given up for a recovery or captured as finished: no mark
   that an execution left behind is enough (execution_service.go:486-521). *)
DependenciesFirst ==
  [][phase = "loop" =>
       \A s \in Begun : \A ref \in Needs[s] :
         Matches(plan, ref) # {} /\ Meant(plan, ref) \in Accounted(plan)]_vars

(* A step whose turn was answered is not executed again in the same life of the
   process, however often the plan is taken up again (state_service.go:20-35). *)
DoneOnce == [][phase = "loop" => Begun \cap answered = {}]_vars

(* Every execution ends: batches, retries and recoveries are finite, and a blocked
   plan is an error and no wait (execution_service.go:151-250). *)
ExecutionEnds == (phase # "idle") ~> (phase = "idle")

\* How near its end an execution is.
Ending ==
  CASE phase = "done" -> 1 [] phase = "error" -> 2 [] phase = "idle" -> 3 [] OTHER -> 0

\* Where it is in the loop; a batch that succeeded is before the next one.
Place ==
  CASE phase = "approve" -> 0 [] phase = "start" -> 1 [] phase = "loop" -> 3
    [] phase = "batch" -> 4 [] phase = "judge" -> 5 [] phase = "recover" -> 7
    [] phase = "merge" -> 8 [] phase = "settle" -> IF Failed = {} THEN 2 ELSE 6
    [] OTHER -> 9

Over    == {s \in Steps(plan) : Finished(plan.state[s])}
Running == {s \in Step : outcome[s] = "run"}

StrictSubset(S, T) == S \subseteq T /\ S # T

RetriesMore ==
  /\ \A s \in Step : plan'.tries[s] >= plan.tries[s]
  /\ \E s \in Steps(plan) : plan'.tries[s] > plan.tries[s]

\* The end comes nearer, or else another recovery was made, or else another retry, or
\* else more steps are over, or else the loop goes on, or else a turn has ended.
Advances ==
  \/ Ending' > Ending
  \/ /\ Ending' = Ending
     /\ \/ replans' > replans
        \/ /\ replans' = replans /\ plan'.steps = plan.steps
           /\ \/ RetriesMore
              \/ /\ plan'.tries = plan.tries
                 /\ \/ StrictSubset(Over, Over')
                    \/ /\ Over' = Over
                       /\ Place' > Place \/ (Place' = Place /\ StrictSubset(Running', Running))

(* No step takes an execution back and its own steps take it on, in an order that has
   no infinite ascent: recoveries are limited (MaxReplans), a step's retries too
   (MaxRetries), and a plan without a new recovery has the same steps
   (execution_service.go:151-263). This is why ExecutionEnds needs no more than that the
   execution runs on. *)
ExecutionAdvances ==
  [][phase # "idle" => Advances \/ (UNCHANGED <<plan, phase, outcome, replans>> /\ ~Process)]_vars

(* execution_service.go:701: memory and store see the same plan, when nothing fails
   and no write waits. *)
PlanStored == phase = "idle" /\ writes = <<>> => stored = live

=============================================================================
