# myai: a TLA+ verification development

TLA+ models of the concurrent core of this repository, checked with TLC, and theorems about them
proved with TLAPS. The models are translated from the Go source; the comment above each definition says
which code it stands for, and `PROJECT.json` gives the lines.

1. The system and its parts
2. The modules, and how they correspond to the code
3. What each run checks, its bounds, and the fairness it assumes
4. What is proved
5. Where the code and its documents disagree
6. What is abstracted, and what is not modelled
7. The plan

## 1. The system and its parts

myai is an AI assistant: a Go core (`src/core`) with a chat service, an agent loop that calls a model and
its tools, sub-agents that run in the background, a knowledge base, a memory, and remote access through a
relay to a mobile client and to QQ (OneBot). With MongoDB several instances of the application share the
session and task stores; without it the stores are in memory and there is one.

| Part | State it keeps | Operations | What makes it hard | What makes it correct | Module |
| --- | --- | --- | --- | --- | --- |
| **Sub-agent task service** (`application/subagent/service`) | in the store: task, runs, mailbox, envelopes, lease, completion messages; in memory: `activeRuns`, contexts, `leaseLost` | Start, Followup, SendMessage, Cancel, Resume, ApplyChanges, DiscardChanges, WaitFor; `execute`, recovery | several instances, leases that expire under a running model turn, crashes, commands at any moment | one verdict per run, no message lost or delivered twice, a started task ends, the parent is told once | SubagentTask, TaskChanges |
| **Task store** (`port/subagent`, `adapter/subagent/memory`, `adapter/persistence/mongo/subagent`) | the records above | owned and unguarded saves, mailbox transactions, Acquire/Renew/Release | stale owners, partial writes | `ReconcileOwnedTaskTransition` admits only legal transitions; mailbox and envelopes agree | SubagentTask, TaskChanges |
| **Sub-agent scheduler** (`adapter/subagent/local/scheduler.go`) | queue, registry of active jobs, park counts | Submit, Cancel, Park, Unpark, Close | executions that block for their own descendants, Close racing everything | exact registry, every job ends, Close returns | SubagentScheduler |
| **Workspaces** (`adapter/workspace/snapshot`) | source, copy, manifest, checkpoints | prepare, collect, apply, roll back, discard | the user edits the source meanwhile; failure or crash at any file; operations of two instances | the user's edits are kept, an apply is whole or can be reverted, record and manifest agree | TaskChanges |
| **Parent completion** (`parent_completion.go`) | envelopes, `parentNotified` | notify, acknowledge, resume, recover | crashes and other instances between queue, store and conversation | a result is held until settled and applied once | ParentTurns |
| **Chat service and turn wake-up** (`service/chat*.go`) | pending wake-ups per session, pause flag, worker | send, continue, pause, resume, enqueue an agent message | wake-ups merged while the worker leaves; a continuation that fails | a pending message has a turn coming; a stop reaches every background turn | ParentTurns |
| **Session operation coordinator** (`service/session_operation_coordinator.go`) | one lock per session | lock, unlock | re-entrance by context | one operation per session at a time | ParentTurns |
| **Pending input queue** (`adapter/chat/pendinginput`) | queue and in-flight batch per session | enqueue, drain, requeue, acknowledge | retries with the same id, a full queue | an id is in one place, in the order of arrival | ParentTurns |
| **Agent loop** (`application/chat/generation`) | the turn in progress | run, drain input, acknowledge or release it | errors between two tool rounds | drained input is acknowledged only after an answer | ParentTurns |
| **Plan mode** (`application/chat/plan`, `application/plan`) | the plan of a session in memory and in the store | approve, execute in batches, retry, recover, cancel | steps side by side, a plan taken up again after any end, writes that come late | a plan that says done is done; dependencies come first; an execution ends | PlanExecution |
| **Relay** (`remote/relay`) | agents, connections and routes | register, route, forward, unregister | reconnection while the old connection is cleaned up, the phone away when the answer comes | the newest connection serves the device; answers find the phone | RemoteLink |
| **Remote agent** (`remote/agent`) | connection, runtime of a session with `cancel` and `mu` | read frames, run chats and plans, pause, set, ask for permission | one reader for everything, a lock held through a run | a pause reaches the run; every request ends | RemoteLink |
| **Memory extraction** (`application/memory/extraction`) | a job per agent run, candidates | enqueue, process, recover, retry, review | workers that stall, lapse or die between two inserts | candidates of one batch only; the user's decisions stay | MemoryExtraction |
| **Knowledge indexing** (`application/knowledge`) | documents, jobs, chunks, vectors, keyword entries | upload, index, recover, retry, delete | two instances on one job, one step of several failing, a deletion in between | a document is ready only when indexed; deleted stays deleted | KnowledgeIndex |
| **Session write queue, thread pool** (`adapter/chat/generation/session_queue.go`, `adapter/async/threadpool`) | tasks per session, workers | Submit, SubmitAndWait, drain, Shutdown | refusal while another caller appends | one writer per session, order of submission, an accepted write completes | parts of ParentTurns, PlanExecution, MemoryExtraction |
| **Tools, authorization** (`application/tool`) | pending permission requests | execute, ask, answer | answers that come late or never | a tool runs only when permitted | (the wait in RemoteLink) |
| **OneBot** (`remote/onebot`) | one slot with a bounded queue per chat | submit, cancel, drain | cancel between two queued tasks, submit while the slot is given up | one task per chat at a time, nothing accepted is left behind | - |
| **URL shortener** (`src/UrlShortener`) | links, pending visit counts | visit, flush, close | flush that fails, enqueue after close | visits are counted | - |
| **Session and history stores, compaction** | documents | save, load, summarise | stale session while the model summarises | - | - |
| **Skills, plugins, MCP, hooks, models** | loaded extensions | call | external processes | - | - |
| **Document processor, mobile client, web pages** | - | - | - | - | - |

How they interact. A chat turn runs the agent loop under the session's lock; its tools include the
sub-agent commands, which write the task store and hand an execution to the scheduler. The execution runs
the same agent loop on a child session, takes messages from the task's mailbox between tool rounds and
after its first turn, and records a completion envelope for the parent session. That envelope goes through
the pending input queue and the wake worker into a new turn of the parent. What the execution changed lies in its
copy of the workspace until the user applies or discards it. A phone reaches chats and plans through the relay and
the agent process. A finished agent run leaves a job that extracts memories. Tickers recover tasks and extraction
jobs whose process is gone; indexing jobs are recovered at start. `Application.Close` stops recovery first, then the
scheduler, then the thread pool.

`PROJECT.json` lists every component and every hazard that was found at its line.

## 2. The modules

Each module names, at its head, the actors it composes and what it leaves out. An action is one critical section,
one transaction of a store, or one step of a goroutine between two of them. Definitions commented "Variant with a
bug" are not part of a specification: each replaces the definition that follows it in a mutation run, to show that
the property it is paired with depends on the code.

### SubagentLifecycle - the promise

One task with no processes, leases or crashes: runs are opened in order, closed once with one verdict,
an accepted input is delivered at most once, success leaves no input behind, and a finished run is reported
at most once. A canceled run gives up the inputs of its task; nothing is promised about them from then on.
SubagentTask implements it.

### SubagentTask - the service

One task in a store that several instances (`Process`) share.

| Variables | In the code |
| --- | --- |
| `status`, `currentRun`, `runStatus`, `request` | `Task.Status`, `Task.CurrentRunID`, `Run.Status`, `Run.RequestID`; a run is named by its sequence number |
| `mailbox`, `envelope` | `Task.Mailbox` and the `AgentMessage` documents |
| `lease` | the execution lease; an expired and an absent one are the same to every operation, so `Expire` removes it |
| `completion` | completion envelopes recorded for the parent session |
| `active` | `Service.activeRuns` |
| `pc` | the point a goroutine of `execute` (or the admission before it) has reached |
| `lost`, `ctxDone` | `leaseLost` and the scheduler context of an execution |
| `claimed`, `followUp` | `injected` of `execute` together with the message of `deliverMailboxMessage`; `followUp` tells which of them has a turn of its own |
| `snapshot` | the record `prepareWorkspace` has read and not yet written back |
| `canceling` | the run and the mailbox of the record `Cancel` has read and not yet written back |
| `recovery` | the point a process has reached in `RecoverInterruptedTasks` |
| `closed` | `Scheduler.Close` was called |
| `crashes`, `faults` | counters for the bounds |

- commands: `Start`, `Followup`, `SendMessage`, `Cancel` (`CancelRead`, `CancelSave`: the whole record is written back, its
  mailbox included, with a check of the run and the status only);
- admission and start of an execution: `Schedule`, `ScheduleRefused`, `StartExecution`, `RefuseExecution`,
  `Begin`, `PrepareRead`, `PrepareSave`, `PrepareFail`;
- the first turn: `InjectMessage` (the hook between tool rounds), `ModelAnswers`, `ModelFails`,
  `AckInjected`, `InjectedSettled`; `WaitForChildren` and `RestoreRunning` are wait_agent's writes;
- the loop over the mailbox: `EnterLoop`, `FollowUpTurn`, `TurnAnswers`, `TurnFails`, `MailboxDrained`, then
  `FinishSuccess`, `MailboxPending` (once more), `FinishStale` or `CollectFails`;
- other ends: `ExitLost`, `LeaseKept` and `FinishError`, `Panic`; `NotifyParent` is the part of the final
  critical section after the save, so `mu` stays taken;
- deferred clean-up: `ReleaseInjected`, `CompleteActive`, `EndExecution`;
- the lease watcher and time: `LoseLease`, `ObserveCancel`, `Expire`;
- ends of a process: `Shutdown` and `Restart`, `Crash`;
- recovery: `RecoverScan`, `RecoverAcquire`, `RecoverSkip`, `RecoverRequeue`, `RecoverAbandon`,
  `RecoverSubmit`, `RecoverSubmitRefused`.

### SubagentScheduler - the scheduler

The channel `jobs`, the registry, park counts, the workers and the substitutes a `Park` starts. A job is any
function that parks and unparks and then returns. It implements **JobExecutor**, which knows nothing of parking: threads come and go, jobs begin in
the order of acceptance, an id is in hand once, and whoever goes leaves somebody for what waits.

### TaskChanges - the files of a task

The store (`status`, `run`, `changes` = the status of the change set, `unread`, `lease`, and `fresh`, the processes
whose copy of the task has the stored `UpdatedAt`), the disk (`source`, `snapshot`, `baseline` and `manifest` of the job's
manifest, `rollback` directory, `saved` checkpoints) and, per process, its execution (`at`, `mine`), the apply or discard in progress
(`op`) and the parent's answer to a result (`resuming`). `owed`, `taken`, `raced`, `orphaned`, `removed` and `unsaved` record what has
happened, for the properties. A checkpoint has the content of the files in `Text` only: of a binary or a file over 512 KB it keeps
the hash. `RemoveRollback` is what the next apply, and the preparation of a run after a discard, do to the rollback directory.

- an execution: `Admit`, `Prepare`, `CopyEnds`, `SetReference`, `Work` (per file), `Ends` with `Succeed`, `TurnFails` and
  `Finish`, `CleanUp`, `Leave`, `Cancel`;
- ApplyChanges: `OpRead`, `OpAdmit`, `Look` (the conflict check), `Backup` and `Write` per file, `Commit` of the
  checkpoint, `Mark` of the manifest, `Rollback`, `OpSave`; DiscardChanges: the same frame with `Discard`;
- Resume: `ResumeBegin`, `ResumeEnd`; the user: `Edit`; time and failure: `Expire`, `Crash`.

### ParentTurns - from a result to a turn of the parent

| Variables | In the code |
| --- | --- |
| `envelope`, `claimant`, `created`, `stopped`, `stored` | durable: the messages with their claims, the stored pause, the stored history |
| `life`, `up`, `recover` | the process, its `MessageOwnerID`, and `RecoverPendingAgentMessages` at its start |
| `notice`, `notified`, `resuming` | a call of Notify in progress, `parentNotified`, a Resume that waits |
| `queue`, `inflight` | the pending input queue and its claim set |
| `worker`, `requested` | the wake-up worker of the session and `pendingWakeState.requested` |
| `paused`, `canceled` | `continuationState.paused`, the context of the background turn |
| `turn`, `stage`, `batch`, `consumed`, `refused` | who holds the session's lock, how far the turn is, and what it has drained and must settle |
| `history`, `writes` | the session in memory and the queue of its asynchronous writes |

The actions are grouped: `Notify` (queue, schedule, finish), `Recovery` (the same for every undelivered message at
start), `Generation` (a turn of the worker, of a user or of a Resume: apply the batch, drain, answer, fail) and
`Settlement` (acknowledge or put back every message, commit the answer). Around them `NoteArrives`, `Pause`,
`FlushWrite`, `PeerDelivers` (another instance), `Crash` and `Boot`.

**ParentInbox** is what all of this promises the parent, with no queue, turn, claim or recovery: a result is `sent`, joins the `conversation` (`Read`),
is `kept` for the next start and is `settled`. `ImplementsInbox` maps it to ParentTurns: `envelope` gives what is sent and settled, `history` is the
conversation, `stored` what is kept. A task that ends is `Send`, every append of a turn `Read`, a write that reaches the store `Keep`, an
acknowledgement `Settle`, a delivery by another instance `SettledElsewhere`; the rest is invisible, or a failure. What is settled and not yet kept is
lost in a restart (`Sleep`, `Wake`): the acknowledgement does not wait for the write.

### PlanExecution - the execution of a plan

`plan` is the copy `Execute` works on, `live` the one in the session, `stored` the one in the store, `writes` the session
copies that wait to be written. `Save` is the state service's call that sets the first three in order and may fail
in between. `Captures` are the plans an answer may be captured as: steps keep the marks they have in the model's JSON, and an answer with a
result section is a plan that is done. A dependency is an id or an order number and means the first step that fits
(`Matches`, `Meant`); `MergeRecovery` gives the steps of a recovery new orders and leaves their ids and dependencies.
The actions follow the loop of `Execute`: `Execute`, `Approve`, `StartPlan`, `StartBatch`, `StepEnds` of each
step, `Judge`, `BatchSucceeded` or `BatchFailed`, `StepFailed` (retry, recovery or failure), `Recover` and `Merge`,
`WaitBlocked`, `LeaveLoop`, `MarkDone`, `FinishWithError`; beside it `Cancel`, `FlushWrite` and `Crash`.

### RemoteLink - phone, relay and agent

The phone's connections (`Peer`) and the agent's (`Conn`) with their state `link` and the frames on their way `down` and
`up`; the relay's `registry`, `routes` and `connections`; the agent's `current` connection, the reader of each (`blocked` when a
handler waits for the lock), the place `at` of each request and the runtime's `cancel` and `mu`. Handlers are one action
each (`ForwardToAgent`, `ForwardToClient`, `Register`, `Unregister`, `Read`, `StartUser`, `StartPlan`, `AskPermission`,
`AskEnds`, `RunEnds`, `Finish`); `PeerLost`, `ConnLost`, `AgentDrops` and `AuthorizationFails` are the faults.

### MemoryExtraction - a job and its candidates

The stored `job`, each holder's `copy` of it, and `fresh`, whose copy is at the stored revision: every write of the
job is a compare-and-swap (`Swap`). A candidate carries the attempt whose batch it is from. `Read`, `Claim`, `Extract`,
`SavePrepared`, `Insert` (one candidate), `Finish` and their failures are `Process`; `RecoverList`, `RecoverSave`,
`Retry`, `Review`, `LeaseLapses`, `Shutdown`, `Restart` and `Crash` meet it anywhere.

### KnowledgeIndex - a document and its job

The stored `doc`, `job` and `chunk`s, the marks and `vectors`, the `keywords` in each keyword index, and in each instance its execution (`at`, `next`
ordinal, `page`), its pool's `tasks` and the user's `request`. `Upload`, `SubmitJob`, `Schedule` and `IngestEnds` are
the upload; `Begin` to `Complete` the execution in its four stages, page by page; `StageFails`, `FailJob` and `Fail`
its failures; a job whose document `Begin` cannot load is marked failed alone ("unread"). The keyword index is an SQLite file of the host
and, by default, of the workspace: `Files` says which instances open the same one. `Retry`, `Delete` with `DeleteChunks`, `Crash` and `Restart` (with recovery) come in between.

### MC modules and proofs

`MCSubagentTask`, `MCParentTurns`, `MCTaskChanges` define symmetry sets, `MCPlanExecution` and `MCRemoteLink` the constants that a
.cfg cannot write. The eight modules `...Proofs` hold the theorems of the module they extend. `Filters` defines, by counting
places, what a loop that copies some elements of a list returns; ParentTurns and PlanExecution use it in place of `SelectSeq`,
which is recursive.

## 3. The runs

| Run | Instance | Question |
| --- | --- | --- |
| `SubagentTask` | 2 instances, 2 runs, direct workspace; any 3 of a queue message, a trigger_turn message, a crash or shutdown and a fault, a cancel whose record is in hand counting for two | safety of one task and the refinement of SubagentLifecycle |
| `SubagentTaskCrashLive` | 2 instances, no message, 1 run, 1 crash, any 2 of faults and cancels, isolated workspace | does a started task end? |
| `SubagentTaskMailboxLive` | 2 instances, 2 messages, 1 run, 1 fault or cancel | are tasks ended, messages settled and results reported? |
| `SubagentTaskLostMailbox` | 1 instance, 1 message, 1 crash, cancels | a message in delivery when its process dies (violated) |
| `SubagentScheduler` | 1 worker, 3 jobs, queue of 2, 2 substitutes, 2 parks, 4 submissions | substitutes, end of jobs and of Close; does it implement JobExecutor? |
| `TaskChanges` | 2 instances, 2 files (one a binary), 2 runs; any 2 of an edit, a failure and a crash, or an edit and a lease of the first run that runs out early | are the user's files, the manifest and the record kept together? |
| `ParentTurns` | 2 results, queue of 2; any 2 of an input of the user, a crash, a failure and a stop | wake-ups, claims, order, single application, and does it implement ParentInbox? |
| `PlanExecution` | 2 steps captured with any marks and 2 that recoveries may name, dependencies by id and by order, batches of 2, one retry, 2 recoveries, plans of at most 4 steps, 1 waiting write, 2 faults, 1 cancel, 1 crash | is a done plan done, in order, once, and does every execution end? |
| `RemoteLink` | a plan that asks for permission with a chat and a setting, a chat and a pause, or a setting and a pause; 2 phone and 2 agent connections, 1 fault | are runs cancellable, agents reachable, answers delivered, requests ended? |
| `RemoteBlocked` | the same mixes on one connection each, no fault | does the reader stay free? (violated) |
| `MemoryExtraction` | 2 workers, 2 candidates, 2 attempts, queue of 1, 1 failure, lapse, crash and retry | one batch, bounded attempts, reviews kept, end of the job |
| `KnowledgeIndex` | 2 instances with a keyword index each, 3 chunks in pages of 2, 2 failures, 1 crash, 1 retry | ready means indexed, deleted stays deleted, end of the job |

The properties, and the code they are about, are stated at the end of each module. What they say, by hazard:

- *Stale owners.* `ClaimExclusive`, `EnvelopeAgrees` and `RunAgrees` hold although two executions of one task work on the same
  mailbox and none of its operations checks the lease, the first two until the task is canceled (section 5); `OneExecutionPerProcess` sets the registry, the scheduler and recovery
  against each other; `BatchStored` and `ReviewKept` hold beside a worker that goes on without its lease; `EditsKept`
  holds even when two applies overlap.
- *Refinement.* `ImplementsLifecycle` says that all of the above is invisible: the service is one of SubagentLifecycle's behaviours.
  `SuccessDrained`, `CompletionSound`, `TerminalKept` and `VerdictFinal` are stated in SubagentTask and follow from it.
  `ImplementsInbox` says the same of everything between a finished task and the conversation of its parent; `AppliedOnce` is part of it.
  `ImplementsExecutor` says it of the scheduler's workers, substitutes and parks; `ActiveExact` and `CloseComplete`, on which it rests, are
  proved and not among the runs.
- *Coming and going of wake-ups, slots and connections.* `FreshIsWoken`, `StopHolds`, `SubstituteNeeded`, `ImplementsExecutor`,
  `AgentReachable`, `RunCancellable`.
- *Nothing lost, nothing twice, in order.* `NotifiedHeld`, `InflightExact`, `ClaimSettles`, `ImplementsInbox`, `NoOvertaking`, `DoneOnce`,
  `RefusedOnlyOffline`.
- *One step of several failing.* `BackedUp`, `AllOrNothing`, `ChangesAgree`, `HonestDone`, `ReadyIndexed`, `OutcomeAgrees`. `BackedUp` says where
  a replaced content is, and exactly which are lost with the rollback directory: those of files that checkpoints keep nothing of, and
  those of a crashed apply. `HonestDone` counts the marks a plan was captured with. `ReadyIndexed` says that a ready
  document is complete in one keyword index; in those of other instances it may be missing. `OutcomeAgrees` excepts a job
  failed alone because its document could not be loaded.
- *It ends.* `EventuallyTerminal`, `EndsUnlessHeld`, `TurnSettled`, `CompletionRecorded`, `JobsEnd`, `CloseEnds`, `ExecutionEnds`,
  `RequestsEnd` and `JobSettles` of the two job modules.

**Bounds.** Two instances are what a lease needs to be contended, and two runs what a stale owner needs to
meet a later run. One message distinguishes every state of a mailbox; order and batches need two. A crash counts once: it
returns a process to its initial memory and the stores keep no count of crashes. `MaxFaults` bounds
what has no cause in the model: a call that fails, an early lease expiry, a message that another instance
takes, and, through `CancelCost`, cancels in the liveness runs; in the safety run a cancel is free, and `Bounded` counts those between
their read and their write. In TaskChanges two files are what a half-done apply needs, and an early end of a lease (`MaxLapses`) is only taken
in behaviours without faults and crashes, because their products add states and no case. In the scheduler one
worker and three jobs give a parked execution, a job on its substitute and one that waits. In PlanExecution
`c` refers to the fourth step and `d` to an id and to orders, so that a reference means a step of the recovery, an older one, a later one, itself
or none, as the merges fall. In KnowledgeIndex three chunks in pages of two give a full page, a rest
and an empty one. RemoteBlocked has one connection because its disagreement needs no fault. The proofs have no bounds.

The constraint `Bounded` of `MCSubagentTask`, `MCParentTurns` and `MCTaskChanges` stops the exploration where more things have come
together than the table says. It is used with safety properties only, which TLC checks up to and including the first state beyond
it, and all of those properties are also proved, without it.

**Symmetry** of instances, queue messages and results is used by `SubagentTask`, `ParentTurns` and `TaskChanges`, which check no
liveness.

**Deadlock** is not checked: a bounded instance stops when its runs, requests, crashes and messages are used up.
The liveness properties say that it does not stop earlier.

**Fairness.** Where the code decides how often something is tried, a step is fair; the user, crashes, faults and other instances' commands
never are.

| Module | Fair | Because |
| --- | --- | --- |
| SubagentTask | every step of an execution, recovery, restart, `Expire` of a dead process's lease, `LoseLease` when it is lost | Go's scheduler, `TimeoutSeconds` of a turn, the recovery ticker of ten seconds, the operator, the renewal ticker |
| SubagentScheduler | `Take`, `EndJob`, `Leave`, `Unpark`, the return of Close | executions have a time limit, wait_agent a time-out |
| PlanExecution | the goroutine of the execution | turns are limited in rounds and time |
| RemoteLink | the agent's runs, a reader that waits for the lock, and the end of a permission request, which times out | Go's scheduler; nothing of the network |
| MemoryExtraction | workers, `LeaseLapses`, recovery, restart; `Claim` strongly | a claim fails only when recovery has just written the job, every thirty seconds |
| KnowledgeIndex | the work of each instance, its restart and recovery included | Go's scheduler, the operator |
| ParentTurns, TaskChanges | nothing | safety only: a message that a failed turn gave back waits for the next event, and nobody has to apply changes |

What the liveness runs show. `EventuallyTerminal`: whichever of the instances dies at whatever point, the
task ends; this does not depend on a cancel being kept. `EndsUnlessHeld`: with messages it ends too, unless an execution is left with a message injected
into a follow-up turn (section 5). `TurnSettled`: every other claimed message is settled.
`CompletionRecorded` is checked without crashes: a crash between the final save of a run and its completion
message loses the message, and no document promises otherwise. `ExecutionEnds` holds through retries, recoveries and plans whose
dependencies can never be met. `RequestsEnd` holds although the reader can be blocked, because a permission request times out. The two
`JobSettles` hold through crashes; an indexing job whose last outcome could not be stored is left until the next start.

## 4. What is proved

For all values of the constants. Besides the assumptions named below, the proofs use only the ASSUMEs of the modules, which TLC
evaluates in every run.

| Module | Theorems | Assumes |
| --- | --- | --- |
| `SubagentTaskProofs` | `TypeCorrect` | - |
| | `RunsAgree`, `EnvelopesAgree`, `SuccessIsDrained`, `CompletionsSound`, `TerminalStays`, `VerdictsFinal`, `Implements` (the refinement) | `SoleWriter` |
| | `OneExecution` | - |
| | `ClaimsExclusive` | `SoleWriter` |
| `SubagentSchedulerProofs` | `TypeCorrect`, `RegistryExact` (`ActiveExact`), `SubstitutesNeeded`, `CloseIsComplete`, `Implements` (the refinement of JobExecutor) | - |
| `TaskChangesProofs` | `TypeCorrect`, `UserKept` (`EditsKept`), `Exclusive` (`OperationsExclusive`) | - |
| | `UserBackedUp` (`BackedUp`), `AppliesWhole` (`AllOrNothing`), `RecordAgrees` (`ChangesAgree`) | - |
| `ParentTurnsProofs` | `TypeCorrect`, `StopReachesTurn` (`StopHolds`), `WakeUpIsComing` (`FreshIsWoken`), `NotifiedIsHeld`, `ClaimsAreExact` (`InflightExact`), `AppliedAtMostOnce` (`AppliedOnce`), `ClaimsSettle`, `ArrivalOrder` (`NoOvertaking`), `Implements` (the refinement of ParentInbox) | - |
| `PlanExecutionProofs` | `TypeCorrect`, `DoneIsEarned` (`HonestDone`), `NothingBeginsEarly` (`DependenciesFirst`), `NothingBeginsTwice` (`DoneOnce`), `ExecutionGetsOn` (`ExecutionAdvances`) | - |
| `RemoteLinkProofs` | `TypeCorrect`, `RunsCancellable`, `AgentsReachable`, `AnswersDelivered` (`RefusedOnlyOffline`) | - |
| `MemoryExtractionProofs` | `TypeCorrect`, `BatchIsStored`, `AttemptsStayBounded`, `ReviewsKept` | - |
| `KnowledgeIndexProofs` | `TypeCorrect`, `ReadyIsIndexed`, `OutcomesAgree`, `DeletionFinal` | - |

`SoleWriter` says that workspaces are direct or that there is a single instance. It is needed: with
an isolated workspace and two instances `prepareWorkspace` may write back a record that another instance has
changed, and undo a cancel (`CancelKept` of SubagentTask is false then).

**The task service.** `TypeOK` alone is not inductive: `PrepareSave` writes what `snapshot` holds and the recovery
steps index by `recovery[p].run`. `LocalOK` adds what those are. `SnapshotFresh` says that the record
prepareWorkspace holds is still the stored one; it holds under `SoleWriter` because every other
write of a process takes `mu`. With it, every action of the service does one of a few things to the durable records
(`RecordStep`: open a run, write the current run with its task, mark waiting, move inputs, report, or nothing),
which `RecordSteps` proves action by action; a cancel may write any mailbox, and closes the run. The invariants and the refinement are then proved from `RecordStep`,
once per kind of write instead of once per action. The inductive invariant is

    IInv == TypeOK /\ LocalOK /\ RunAgrees /\ EnvelopeAgrees
            /\ SnapshotFresh /\ SuccessDrained /\ CompletionSound

None of the parts relies on the lease: they rest on the guards of `Reconcile` and the checks made under `mu`
or in the store's transaction. That is why they survive stale owners.

**Its executions.** `Registry == TypeOK /\ LocalOK /\ OneExecutionPerProcess /\ RecoverySaved` is inductive:
what recovery has registered and not yet submitted has no goroutine that is at work, because the scheduler knows a run until its job
has returned. `Held == ClaimExclusive /\ TurnHeld` is inductive beside `IInv`: what an execution has in hand is in delivery, so that
no other execution can claim it.

**The scheduler.** `ActiveExact`, with `WaitsForParked` (a substitute waits for an execution that is still parked) and
`Leaving` (who has gone runs nothing, and went only when the queue was closed and empty). The refinement needs all of it: `ActiveExact` because the
executor's jobs in hand are what the registry names (`HandIsActive`), and `Leaving` because a worker stays as long as there may be
work, so that no substitute is the last to go (`StaysServed`), and because Close returns when nobody is left (`AllGone`).

**The files of a task.** `EditsKept` needs that whatever content of the user's lies in the copies, in an apply's list or in its backups was
copied or written during an apply (`CopiesSafe`, `TargetsSafe`): the conflict check compares with the copies, and only what passes it is written
over. The lease plays no part, so the theorem covers overlapping operations. `Held` is the other argument: while no lease
runs out early, whoever uses the task is the lease's holder, and `Exclusive` follows.

**Applies.** `BackedUp`, `AllOrNothing` and `ChangesAgree` are about that same case, and the invariant `TidyInv` keeps `Held` to use its
consequence `Alone`: nothing but the user changes the files, the copies, the rollback directory or the manifest under an apply. `Applies` then follows the apply
file by file: those it has not reached are as before or as the user has just written them, and those it has reached are replaced and were
backed up, once each. `Copied` says what of the applies' lists of backups, of checkpoints and of crashed applies is in the rollback directory or was when it
was removed. `Reached` says it of the files when no apply is under way, `Kept` where the user's contents are,
and `Recorded` compares the record and the manifest over the saves still to come. The theorems hold for any number of edits, where the run has one:
a user who writes a file twice during an apply can get the first content back in a roll-back, which is why `Users`
admits every content written meanwhile.

**Remote.** `RunCancellable` needs that a request is on its way at most once and not yet known to the agent (`Delivered`), and that what
blocks a reader is a setting (`BlockedOnSetting`). `AgentReachable` is inductive with the types. `RefusedOnlyOffline` needs that an answer on its
way is the only one to its request and that the relay still has the route (`Answers`), which comes from `Routed` (a request is routed until it is
answered), `BlockedOnce` (a setting blocks one reader, so it is answered once) and `Unused` (only the relay takes frames from a connection). It holds for any
number of connections because it excepts two that are gone: `forwardToClient` tries one replacement and no third connection.

**Extraction.** A fresh copy differs from the job by the lapse of its lease at most (`FreshCopies`); a batch in however old a copy is the stored one
(`OneBatch`), because `SavePrepared` is a compare-and-swap; `Attempts` says what a worker at each place has done; `AttemptLeft` bounds
attempts.

**Indexing.** `Achievements` says what an execution at each stage has done, for chunks below `next`, whoever did it; only its keywords must
be in the index of its own instance, which is the one `Indexed` finds complete;
`VectorsFirst` that marks come after vectors; `DocumentFirst` and `Unsubmitted` order documents, chunks and jobs.

**Messages to the parent.** None of the invariants of ParentTurns is inductive without the others, because a message moves between lists: the
queue, what the turn drained at its start (`batch`), what its loop drained (`consumed`), what could not be acknowledged (`refused`). The proofs
forget the lists but for what they hold (`ToSet`) and what is before what (`Before`); one lemma per operation (a concatenation, a tail, `Filter`)
says what it does to both, and `RanksExhaust`, that a filtered list has as many places as it numbers, is the only one that counts. Then

    IInv == TypeOK /\ Shape /\ StopHolds /\ FreshIsWoken /\ NotifiedHeld /\ NoticeHeld /\ Contents /\ Written

`Shape` ties the place of the turn to the lists that may be in use. `Contents` is the claim set as the disjoint union of the three lists
(`InflightExact`, `OneHolder`), what is settled being in the conversation (`HasApplied`), and `InOrder`. That last one is the reason for
`NoOvertaking`: what waits is `Line`, the drained batch before the queue as long as the batch is not applied, and two messages that both wait are in
`Line` in the order of their arrival. It holds through a failed turn because a requeue puts the batch in front (`Line` does not change), and
messages that were applied before they were put back no longer count. `Written` is what `AppliedOnce` needs of the store: a write that waits is in the
conversation and not stored, so it can be stored once; after a crash the conversation is what was stored, and nothing waits.

The refinement needs one more part, `InboxInv`, about the messages on their way (`Waiting`: queued, claimed by a turn, listed by the recovery or in a
notice): each was sent, and as long as nothing has failed one that is delivered is in the conversation already. Most steps only move messages
within `Waiting`; that is `Quiet`, and such a step is a stutter or a `Fail`. The others are one step of ParentInbox each. That a message is
kept once is `Written` again, and that it is settled after it was read is `HasApplied`.

**Plans.** The inductive invariant is `TypeOK`, `Sound` of each plan in use (a step that is done was answered or captured as done, one that is skipped was given up, and a
plan that is done has no other step), `Follows` and `BatchAgrees` (how the execution's copy, the batch and the outcomes agree at each place of the loop),
`AnswersKept` (an answered step is finished in the plan, or will be when the batch is judged), `CauseOK` (the step an error is about was not
answered) and `OneFailed` (a recovery is for one step that failed). Late writes are what makes `Sound` a statement about every plan in use: each of them
may become the stored plan, and the stored plan the one that a restart takes up.

`ExecutionAdvances` is the safety half of `ExecutionEnds`. Every step of an execution takes it up in the order `Advances` (nearer to its end; or a
recovery more; or a retry more; or more steps over; or on in the loop; or a turn fewer under way), and the steps of
others, late writes, cancels and saves, take it nowhere. It needs beside `IInv` that a batch being judged has outcomes and no turn under way (`Judged`): a
batch without one would leave the plan as it was and go round for ever. The order has no infinite ascent, because recoveries are at most `MaxReplans`, the
steps are the same until the next one, retries are at most `MaxRetries` each, and the rest are finite. That sentence is the
induction the prover cannot make, and that the execution runs on is fairness; TLC checks `ExecutionEnds` with both.

Only model-checked: liveness, which rests on fairness and is out of the prover's reach.

## 5. Where the code and its documents disagree

- **`SubagentTaskLostMailbox`.** Recovery makes messages in delivery pending again in its own copy of the
  task only; the save keeps the stored mailbox. The message is never delivered and the recovered run cannot
  finish: with a direct workspace its loop has no exit but a cancel or a lost lease.
- **`RemoteBlocked`.** The handlers of session settings take the runtime's lock on the websocket reader, and plans and regenerations
  hold it while they run. Until then the reader takes no frame: no pause, and no answer to the permission the plan may be waiting for.

Stated in the modules, false in the code, and not among the runs:

- `CancelKept` (SubagentTask, isolated workspace, two instances): prepareWorkspace reads and writes the task under `mu` alone; a
  cancel by another instance in between is undone.
- `ClaimSettled` (SubagentTask): the hook between tool rounds stays installed in follow-up turns, but what it
  injects there is acknowledged only after the first turn. Such a message keeps the run in the same loop.
- `TurnExecutedOnce` (SubagentTask): a trigger_turn id that was delivered through the mailbox is not found
  among the runs when it is retried after the run has ended, and is executed again.
- `EnvelopeAgrees` and `ClaimExclusive` without their condition on the status (SubagentTask, two instances): Cancel reads the task under
  a lock of its process and writes the whole record back (`task_service.go:408-440`). What another instance did to the mailbox in
  between is undone there: a message that is being delivered, or was, is pending again, and may be claimed a second time by an execution
  that has not noticed the cancel; a new one is in its envelope only. A canceled task stays canceled and is not executed again, so
  it is the late execution alone that sees this.
- `SlotsRespected` (SubagentScheduler): Unpark does not reacquire a slot; the execution goes on while its substitute
  still runs another job.
- `AckIdempotent` (ParentTurns): `parent_completion.go:39` wants the acknowledgement of a message that another instance has delivered to
  succeed, but the claim before it already fails, and the message is put back.
- `PlanStored` (PlanExecution): an asynchronous write of a step's messages carries an older copy of the session and may come
  after the synchronous save of a newer plan (`execution_service.go:685`); the comment at line 701 says that memory and store see the
  same plan.

Met while modelling:

- ParentTurns. A result is acknowledged once the model has answered (`agent_loop_service.go:330`), while its write to the history is only queued, or
  has failed: after a crash it is delivered, and the conversation that the next start loads does not have it.
- TaskChanges. A crash in the middle of an apply leaves files copied under a pending manifest: every later apply then reports a conflict, and
  a later apply or follow-up removes the backups of the crashed one (`AllOrNothing` and `BackedUp` name both exceptions). A crash between the
  creation of the job directory and its manifest makes every later preparation fail. A follow-up that fails discards the unapplied changes of the run before
  it. ApplyChanges keeps its lease on a state conflict until it expires (`task_service.go:616`). Leases of operations are not
  renewed; after an early end two applies may overlap, and the clean-up of a stale execution may discard a finished run's changes
  (`task_service.go:1132`).
- TaskChanges. What an apply replaces of a binary or a file over 512 KB is only in the rollback directory, which the next apply removes: after that the
  checkpoint cannot restore it (`snapshot_service.go:43-55`, `apply.go:54`).
- PlanExecution. Dependencies that a recovery states in its own numbering are resolved in the merged plan, where the first step with that id or order is often
  an older one; a step then begins earlier than the recovery meant (`execution_service.go:502-521`, `572-576`).
- KnowledgeIndex. A document may be ready while the keyword index of an instance other than the one that indexed it does not have it. One failed read
  of the document marks the job failed alone, even a completed one, and the document stays as it was (`indexing_service.go:98`). Chunks stored after the deletion of their document stay active as orphans; a crash between the upload and its job leaves
  the document without one; a Retry that a full pool refuses marks a completed job failed.
- MemoryExtraction. A crash before the job of a run is created loses its extraction (`service.go:222`).
- RemoteLink. One failed authorization lookup while an answer is forwarded closes all connections of the phone.
- PlanExecution. A recovery may make a plan one step longer than its limit; a replacement with the failed step's own title is dropped.

## 6. Abstractions

Everywhere, messages, results, files, chunks and errors have no content beyond what the properties tell apart.

SubagentTask:

- A claim may take any pending message, where the code takes the first. No property is about their order.
- The limit of 64 follow-up turns per round of the loop is not modelled. Reaching it fails the run, which
  `TurnFails` can do at any turn.
- Store calls fail where that changes the control: renewals and submissions (a fault), and every save through its
  guard. Errors of the final save or of a claim are not modelled otherwise; the code reports and leaves.
- Recovery's re-read of the task, registration and save are one action. Between them only a cancel or a
  message could intervene, and the save decides on the stored record.
- `prepareWorkspace` may also fail outside `mu` (`PrepareFail`); the reuse of an open sandbox skips its write and is not
  modelled (the reuse of a snapshot is `Prepare` of TaskChanges).
- Checks of a task's status in SendMessage and Followup and the write they guard are one action: both are made
  under `mu`, and the store repeats the check. The search of the runs for a trigger_turn id is made before `mu` is taken and not
  repeated: a run opened with that id in between is missed, which `SendMessage` admits (`NewInput` looks at the envelopes only, as
  the store does, at the cost of a fault when there is such a run).
- `wait_agent` is two writes, made any number of times during a turn. Restoring may be refused, so a turn may
  end while the task is waiting.
- `waiting_permission` is declared in `task.go` and set by no code.
- `Shutdown` takes one step; `Restart` follows when the workers have returned. Several calls that one persisting outage of the store fails
  while a run is admitted count as one fault.

SubagentScheduler: the execution ids are model values, and the wait group is the set of goroutines that exist.

TaskChanges: the copy of the source is one step, and so is collecting the changes with the end of the run; an error of the save in
prepareWorkspace counts as a failed turn; the read and the write of the record in prepareWorkspace and in Cancel are one step each
(`SetReference`, `Cancel`; SubagentTask has them apart: another instance's write in between is undone); the replacement of a file is one step, where a crash
between its removal and the rename leaves it missing (`apply.go:176-179`), which the exceptions for crashed applies cover; a file is a text
or not for good; a checkpoint that cannot be deleted is not modelled, it only keeps more; a roll-back that itself fails is not modelled; follow-ups, recovery and the ends of a run are reduced
to what the files depend on.

ParentTurns: the envelope exists when its task has ended (a creation that fails is not modelled); compaction, which may drop the source ids that
recognise an applied message, and the text of a user's own turn are left out; one session.

PlanExecution: how a text is read as steps and the prompts of recovery are left out; a recovery may answer one or two steps of `Step`. Of the marks
a step may come with, "skipped" is taken as "done", which every reader of the plan does, and the others as "pending", which Start makes of them. Two steps
have one title only when they are the same. Whether the text of a plan still counts as structured after a recovery was merged into it depends on that text;
`Widths` leaves it open.

RemoteLink: several sessions and devices, the thirty minutes a route lives, a request sent twice with one id, pairing and tokens
are left out, as are frames without a decision.

MemoryExtraction: a candidate is its ordinal and the attempt it is from; at a shutdown the pool drains its queue.

KnowledgeIndex: a keyword index is what the `Files` of an instance hold and is never deleted; the local vectors, which retrieval fills and indexing
does not use, are left out; the processor is taken to give the same chunks for the same profiles; with others, the check of a page of chunks fails for ever
or, at the boundary of a page, does not notice. Counters, the stored object and profiles are left out; a graceful stop lets an
execution finish.

**Not modelled.** `PROJECT.json` lists every component with the reason. The modules cover the parts whose correctness depends on the order of
steps of several actors, on failures and on restarts. Most of the source is of another kind, and a model of it would repeat it line by
line: the message types of the protocol and generated code, terminal and mobile user interfaces, adapters of models, vector and search
stores, conversions of documents, prompts and token counts, and the loading of skills and plugins. Storage adapters are modelled as the transactions they make.
Still to be modelled are the tree of tasks behind wait_agent, the session write queue against a closed executor, permission requests, the
guard of the OneBot bot and the visit counter (section 7).

Seen, and outside these models: input drained in the middle of a turn that then fails to be stored (`chat_handlers.go:36`); the commit of a
recovery's answer, which puts its draft into the plan of the session (`response_commit_service.go:51`); `SessionQueue`, which drops tasks
of other callers when the pool refuses the drain (`session_queue.go:58`).

## 7. The plan

Done: SubagentLifecycle, SubagentTask and SubagentScheduler with JobExecutor; then ParentTurns with ParentInbox, PlanExecution, RemoteLink, MemoryExtraction, KnowledgeIndex and
TaskChanges, with proofs about all of their safety properties. Next, in this order:

1. **Abstract specification**: one file system with atomic applies, implemented by TaskChanges while nothing crashes.
2. **SessionQueue** with the thread pool: order, one drain at a time, completion of accepted writes, refusal.
3. **SubagentTree**: the scheduler with parents and children, for the progress of wait_agent without its time-out.
4. **OneBotGuard**, **VisitSyncer**, then permission requests.
