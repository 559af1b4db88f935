---------------------------- MODULE SubagentTask ----------------------------
(***************************************************************************)
(* The life of one sub-agent task, shared by the application instances     *)
(* (Process) that use the same task store.  The durable part is the task   *)
(* record, its runs, its mailbox with one envelope per message, the        *)
(* execution lease and the completion messages for the parent session.     *)
(* Everything a process keeps in memory is lost when it exits.             *)
(*                                                                         *)
(* One action is one critical section of the service's lock `mu`, one      *)
(* transaction of the store, or one step of a goroutine between two of     *)
(* them.  A run is named by its sequence number.  An expired lease and an  *)
(* absent one are the same to every operation of the lease store, so       *)
(* expiry removes the lease.                                               *)
(***************************************************************************)
EXTENDS Integers, FiniteSets

CONSTANTS
  Process,        \* application instances
  QueueMessage,   \* ids of messages sent with the trigger "queue"
  TurnMessage,    \* ids of messages sent with the trigger "trigger_turn"
  NoMessage,      \* the request id of a run that carries none
  Exited,         \* owner of a lease whose process is gone
  NoLease,        \* the task has no live lease
  NoSnapshot,     \* the process is not inside prepareWorkspace, or not
                  \* inside Cancel
  Isolated,       \* TRUE: snapshot or sandbox workspace; FALSE: direct
  MaxRuns,        \* bound on the runs of the task
  MaxCrashes,     \* bound on process exits, with and without shutdown
  MaxFaults,      \* bound on early lease expiries, refused calls and
                  \* claims made while the old holder still cleans up
  CancelCost      \* what a cancel counts for among the faults, 0 when
                  \* cancels are not bounded

Message == QueueMessage \cup TurnMessage
Run     == 1..MaxRuns

ASSUME ConstantsAssumption ==
  /\ MaxRuns \in Nat \ {0}
  /\ MaxCrashes \in Nat
  /\ MaxFaults \in Nat
  /\ CancelCost \in Nat
  /\ Isolated \in BOOLEAN
  /\ NoMessage \notin Message
  /\ Exited \notin Process

VARIABLES
  status,      \* status of the task record, "none" before Start
  currentRun,  \* Task.CurrentRunID, 0 before Start
  runStatus,   \* status of each run record, "none" when it does not exist
  request,     \* Run.RequestID
  mailbox,     \* Task.Mailbox: "absent", "pending" or "delivering"
  envelope,    \* the AgentMessage record of each message
  lease,       \* the execution lease of the task
  completion,  \* runs whose completion message is recorded for the parent
  active,      \* activeRuns[task] of each process, 0 when absent
  pc,          \* where each process is with each run
  lost,        \* runs whose lease watcher has set leaseLost
  ctxDone,     \* runs whose scheduler context is canceled
  claimed,     \* messages an execution has claimed and not settled
  followUp,    \* the claimed message whose own follow-up turn is running
  snapshot,    \* the task record read by prepareWorkspace
  canceling,   \* the task record read by Cancel
  recovery,    \* where each process is in RecoverInterruptedTasks
  closed,      \* processes whose scheduler is closed
  crashes,     \* exits so far
  faults       \* cancels and faults so far

task      == <<status, currentRun, runStatus, request>>
messages  == <<mailbox, envelope, claimed, followUp>>
execution == <<active, pc, lost, ctxDone>>
inHand    == <<snapshot, canceling>>
local     == <<inHand, recovery, closed>>
bounds    == <<crashes, faults>>
vars == <<task, messages, lease, completion, execution, local, bounds>>

TerminalStatus == {"succeeded", "failed", "canceled"}
TaskStatus     == {"none", "queued", "running", "waiting"} \cup TerminalStatus
RunStatus      == {"none", "queued", "running"} \cup TerminalStatus
Mailbox        == [Message -> {"absent", "pending", "delivering"}]
Lease          == [owner : Process \cup {Exited}, run : Run]
Snapshot       == [status : TaskStatus, run : 0..MaxRuns, mailbox : Mailbox]
Canceling      == [run : Run, mailbox : Mailbox]
Recovery       == [step : {"idle", "scanned", "claimed", "saved"},
                   run : 0..MaxRuns]

\* An execution between its first renewal and its deferred clean-up: the
\* goroutine of watchExecutionLease runs.
Watched == {"begin", "prepare", "preparing", "model", "acking", "check", "loop",
            "turn", "closing", "failing", "erring", "panicked", "notifying"}
PC == Watched \cup {"idle", "admitted", "queued", "exiting", "releasing"}

TypeOK ==
  /\ status \in TaskStatus
  /\ currentRun \in 0..MaxRuns
  /\ runStatus \in [Run -> RunStatus]
  /\ request \in [Run -> TurnMessage \cup {NoMessage}]
  /\ mailbox \in Mailbox
  /\ envelope \in [Message -> {"none", "pending", "delivering", "delivered"}]
  /\ lease \in Lease \cup {NoLease}
  /\ completion \subseteq Run
  /\ active \in [Process -> 0..MaxRuns]
  /\ pc \in [Process -> [Run -> PC]]
  /\ lost \in [Process -> SUBSET Run]
  /\ ctxDone \in [Process -> SUBSET Run]
  /\ claimed \in [Process -> [Run -> SUBSET Message]]
  /\ followUp \in [Process -> [Run -> Message \cup {NoMessage}]]
  /\ snapshot \in [Process -> Snapshot \cup {NoSnapshot}]
  /\ canceling \in [Process -> Canceling \cup {NoSnapshot}]
  /\ recovery \in [Process -> Recovery]
  /\ closed \subseteq Process
  /\ crashes \in 0..MaxCrashes
  /\ faults \in 0..MaxFaults

ASSUME NullsAssumption ==
  /\ NoLease \notin Lease
  /\ NoSnapshot \notin Snapshot \cup Canceling

-----------------------------------------------------------------------------
Terminal    == status \in TerminalStatus
NonTerminal == status \in {"queued", "running", "waiting"}

\* Task.HasMailboxMessages is FALSE.
MailboxEmpty == \A m \in Message : mailbox[m] = "absent"

OwnsLease(p, r) == lease = [owner |-> p, run |-> r]

\* Acquire: no live lease, or the caller's own for the same run.
LeaseFree(p, r) == lease = NoLease \/ OwnsLease(p, r)

\* Release: only the lease of this owner and run is removed.
ReleaseLeaseOf(p, r) == lease' = IF OwnsLease(p, r) THEN NoLease ELSE lease

\* ReconcileOwnedTaskTransition, applied to the stored task inside the store's
\* transaction.
Reconcile(r, to) ==
  /\ currentRun \in {0, r} \/ (Terminal /\ to = "queued")
  /\ status = "canceled" => to = "canceled"
  /\ Terminal => to \in {"queued", status}
  /\ to = "succeeded" => MailboxEmpty

\* SaveOwnedTaskAndRun: the lease is checked and the task and its run are
\* written in one transaction; the mailbox is the stored one.
CanSave(p, r, to) == OwnsLease(p, r) /\ Reconcile(r, to)

\* Variant with a bug: the run is not written with its task.
SaveOwnedTaskOnly(p, r, to, runTo) ==
  CanSave(p, r, to) /\ status' = to /\ currentRun' = r /\ UNCHANGED runStatus

SaveOwned(p, r, to, runTo) ==
  /\ CanSave(p, r, to)
  /\ status' = to
  /\ currentRun' = r
  /\ runStatus' = [runStatus EXCEPT ![r] = runTo]

Goto(p, r, label) == pc' = [pc EXCEPT ![p][r] = label]

\* The execution moves on and changes nothing else.
Advance(p, r, label) ==
  /\ Goto(p, r, label)
  /\ UNCHANGED <<task, messages, lease, completion, active, lost, ctxDone,
                 local, bounds>>

\* `mu` is free: it is held across the two halves of prepareWorkspace and of
\* Cancel, and from the final save of a run to the end of
\* notifyParentCompletionLocked.
MuFree(p) ==
  /\ snapshot[p] = NoSnapshot /\ canceling[p] = NoSnapshot
  /\ \A r \in Run : pc[p][r] # "notifying"

\* `admissionMu` is free: RecoverInterruptedTasks holds it throughout.
AdmissionFree(p) == recovery[p].step = "idle"

Idle == [step |-> "idle", run |-> 0]

Fault == faults < MaxFaults /\ faults' = faults + 1

Init ==
  /\ status = "none"
  /\ currentRun = 0
  /\ runStatus = [r \in Run |-> "none"]
  /\ request = [r \in Run |-> NoMessage]
  /\ mailbox = [m \in Message |-> "absent"]
  /\ envelope = [m \in Message |-> "none"]
  /\ lease = NoLease
  /\ completion = {}
  /\ active = [p \in Process |-> 0]
  /\ pc = [p \in Process |-> [r \in Run |-> "idle"]]
  /\ lost = [p \in Process |-> {}]
  /\ ctxDone = [p \in Process |-> {}]
  /\ claimed = [p \in Process |-> [r \in Run |-> {}]]
  /\ followUp = [p \in Process |-> [r \in Run |-> NoMessage]]
  /\ snapshot = [p \in Process |-> NoSnapshot]
  /\ canceling = [p \in Process |-> NoSnapshot]
  /\ recovery = [p \in Process |-> Idle]
  /\ closed = {}
  /\ crashes = 0
  /\ faults = 0

-----------------------------------------------------------------------------
(* Commands of the parent session: Start, Followup, SendMessage, Cancel.   *)

\* Start: the new task takes the lease, is saved with its first run and is
\* registered before both locks are released.
Start(p) ==
  /\ status = "none" /\ lease = NoLease
  /\ AdmissionFree(p) /\ MuFree(p) /\ active[p] = 0
  /\ status' = "queued"
  /\ currentRun' = 1
  /\ runStatus' = [runStatus EXCEPT ![1] = "queued"]
  /\ lease' = [owner |-> p, run |-> 1]
  /\ active' = [active EXCEPT ![p] = 1]
  /\ Goto(p, 1, "admitted")
  /\ UNCHANGED <<request, messages, completion, lost, ctxDone, local, bounds>>

\* admitFollowup: a request id seen on an earlier run admits nothing; otherwise
\* the finished task gets a new run under a new lease.
Followup(p, id) ==
  LET next == currentRun + 1 IN
  /\ status \in {"succeeded", "failed"}
  /\ next \in Run
  /\ id # NoMessage => \A r \in Run : request[r] # id
  /\ AdmissionFree(p) /\ MuFree(p) /\ active[p] = 0
  /\ LeaseFree(p, next)
  /\ lease' = [owner |-> p, run |-> next]
  /\ status' = "queued"
  /\ currentRun' = next
  /\ runStatus' = [runStatus EXCEPT ![next] = "queued"]
  /\ request' = [request EXCEPT ![next] = id]
  /\ active' = [active EXCEPT ![p] = next]
  /\ Goto(p, next, "admitted")
  /\ UNCHANGED <<messages, completion, lost, ctxDone, local, bounds>>

\* Variant with a bug: an id is only compared with the waiting messages.
NewInputUnlessWaiting(m) == mailbox[m] = "absent"

\* The id was never sent to the task.
NewInput(m) == envelope[m] = "none"

\* SendMessage on a task that is not terminal: EnqueueChildAgentMessage writes
\* the mailbox entry and its envelope together; a known id changes nothing.  The
\* look for a run that carries the id comes before `mu` is taken, so that a
\* follow-up admitted in between goes unseen; that coincidence counts as a fault.
SendMessage(p, m) ==
  /\ MuFree(p)
  /\ NonTerminal
  /\ NewInput(m)
  /\ IF \E r \in Run : request[r] = m THEN Fault ELSE UNCHANGED faults
  /\ mailbox' = [mailbox EXCEPT ![m] = "pending"]
  /\ envelope' = [envelope EXCEPT ![m] = "pending"]
  /\ UNCHANGED <<task, claimed, followUp, lease, completion, execution, local,
                 crashes>>

\* Cancel, first half: GetTask and its check, `mu` taken; the local scheduler entry
\* of the run, if any, is canceled at once.
CancelRead(p) ==
  /\ MuFree(p)
  /\ NonTerminal
  /\ faults + CancelCost <= MaxFaults /\ faults' = faults + CancelCost
  /\ canceling' = [canceling EXCEPT ![p] = [run |-> currentRun, mailbox |-> mailbox]]
  /\ ctxDone' = IF pc[p][currentRun] \in {"idle", "admitted"} THEN ctxDone
                ELSE [ctxDone EXCEPT ![p] = @ \cup {currentRun}]
  /\ UNCHANGED <<task, messages, lease, completion, active, pc, lost, snapshot,
                 recovery, closed, crashes>>

\* SaveCanceledTaskAndRun refuses a task that has moved to another run or has
\* ended otherwise.
CanCancel(r) == currentRun = r /\ (Terminal => status = "canceled")

\* Cancel, second half: the whole record that was read is written back as canceled,
\* its mailbox included, without a lease or a version check; or the store refuses.
CancelSave(p) ==
  LET read == canceling[p] IN
  /\ read # NoSnapshot
  /\ \/ /\ CanCancel(read.run)
        /\ status' = "canceled"
        /\ runStatus' = [runStatus EXCEPT ![read.run] = "canceled"]
        /\ mailbox' = read.mailbox
        /\ UNCHANGED faults
     \/ /\ IF CanCancel(read.run) THEN Fault ELSE UNCHANGED faults
        /\ UNCHANGED <<status, runStatus, mailbox>>
  /\ canceling' = [canceling EXCEPT ![p] = NoSnapshot]
  /\ UNCHANGED <<currentRun, request, envelope, claimed, followUp, lease, completion,
                 execution, snapshot, recovery, closed, crashes>>

-----------------------------------------------------------------------------
(* Scheduling and execution of one run.                                    *)

\* scheduleRun: the scheduler accepts the run.
Schedule(p, r) ==
  /\ pc[p][r] = "admitted" /\ p \notin closed
  /\ Advance(p, r, "queued")

\* scheduleRun: the queue is full or closed.  The task fails if this run still
\* owns it; the registration and the lease are given up in any case.
ScheduleRefused(p, r) ==
  /\ pc[p][r] = "admitted"
  /\ MuFree(p)
  /\ IF p \in closed THEN UNCHANGED faults ELSE Fault
  /\ \/ /\ currentRun = r /\ ~Terminal
        /\ SaveOwned(p, r, "failed", "failed")
        /\ Goto(p, r, "notifying")
     \/ /\ ~(currentRun = r /\ ~Terminal /\ CanSave(p, r, "failed"))
        /\ Goto(p, r, "exiting")
        /\ UNCHANGED <<status, currentRun, runStatus>>
  /\ UNCHANGED <<request, messages, lease, completion, active, lost, ctxDone,
                 local, crashes>>

\* execute: the first renewal succeeds.  The in-memory store does not look at a
\* canceled context, the Mongo one refuses it (RefuseExecution).
StartExecution(p, r) ==
  /\ pc[p][r] = "queued"
  /\ OwnsLease(p, r)
  /\ Advance(p, r, "begin")

\* execute: the first renewal fails, because the lease is gone, the context is
\* canceled or the store does not answer.
RefuseExecution(p, r) ==
  /\ pc[p][r] = "queued"
  /\ \/ (~OwnsLease(p, r) \/ r \in ctxDone[p]) /\ UNCHANGED faults
     \/ OwnsLease(p, r) /\ r \notin ctxDone[p] /\ Fault
  /\ Goto(p, r, "exiting")
  /\ UNCHANGED <<task, messages, lease, completion, active, lost, ctxDone,
                 local, crashes>>

\* beginExecution: only a queued task that still points at this run starts.
Begin(p, r) ==
  /\ pc[p][r] = "begin"
  /\ MuFree(p)
  /\ \/ /\ currentRun = r /\ status = "queued"
        /\ SaveOwned(p, r, "running", "running")
        /\ Goto(p, r, IF Isolated THEN "prepare" ELSE "model")
     \/ /\ ~(currentRun = r /\ status = "queued" /\ CanSave(p, r, "running"))
        /\ Goto(p, r, "exiting")
        /\ UNCHANGED <<status, currentRun, runStatus>>
  /\ UNCHANGED <<request, messages, lease, completion, active, lost, ctxDone,
                 local, bounds>>

\* prepareWorkspace, first half: GetTask and its check, `mu` taken.
PrepareRead(p, r) ==
  /\ pc[p][r] = "prepare"
  /\ MuFree(p)
  /\ \/ /\ currentRun = r /\ ~Terminal
        /\ snapshot' = [snapshot EXCEPT ![p] =
             [status |-> status, run |-> currentRun, mailbox |-> mailbox]]
        /\ Goto(p, r, "preparing")
     \/ /\ ~(currentRun = r /\ ~Terminal)
        /\ Goto(p, r, "failing")
        /\ UNCHANGED snapshot
  /\ UNCHANGED <<task, messages, lease, completion, active, lost, ctxDone,
                 canceling, recovery, closed, bounds>>

\* prepareWorkspace, second half: SaveTask writes the record that was read,
\* without a lease or a version check.
PrepareSave(p, r) ==
  /\ pc[p][r] = "preparing"
  /\ status' = snapshot[p].status
  /\ currentRun' = snapshot[p].run
  /\ mailbox' = snapshot[p].mailbox
  /\ snapshot' = [snapshot EXCEPT ![p] = NoSnapshot]
  /\ Goto(p, r, "model")
  /\ UNCHANGED <<runStatus, request, envelope, claimed, followUp, lease, completion,
                 active, lost, ctxDone, canceling, recovery, closed, bounds>>

\* prepareWorkspace or Sessions.Create fails before the model is called.
PrepareFail(p, r) ==
  /\ pc[p][r] = "prepare"
  /\ Advance(p, r, "failing")

\* markWaitingForChildren and restoreRunningAfterChildren: a task-only write
\* under the lease of the run that called wait_agent.
Wait(p, r, from, to) ==
  /\ pc[p][r] \in {"model", "turn"}
  /\ MuFree(p)
  /\ status = from /\ currentRun = r /\ OwnsLease(p, r)
  /\ status' = to
  /\ UNCHANGED <<currentRun, runStatus, request, messages, lease, completion,
                 execution, local, bounds>>

WaitForChildren(p, r)         == Wait(p, r, "running", "waiting")
RestoreRunning(p, r)          == Wait(p, r, "waiting", "running")

-----------------------------------------------------------------------------
(* The mailbox: claim, acknowledge, release.  None of them looks at the    *)
(* lease or at the current run.                                            *)

\* Variant with a bug: a message that is being delivered is claimed again.
ClaimTaken(p, r, m) ==
  /\ MuFree(p)
  /\ mailbox[m] # "absent"
  /\ mailbox' = [mailbox EXCEPT ![m] = "delivering"]
  /\ envelope' = [envelope EXCEPT ![m] = "delivering"]
  /\ claimed' = [claimed EXCEPT ![p][r] = @ \cup {m}]

Claim(p, r, m) ==
  /\ MuFree(p)
  /\ mailbox[m] = "pending"
  /\ mailbox' = [mailbox EXCEPT ![m] = "delivering"]
  /\ envelope' = [envelope EXCEPT ![m] = "delivering"]
  /\ claimed' = [claimed EXCEPT ![p][r] = @ \cup {m}]

\* AcknowledgeChildAgentMessage: nothing to do for a delivered envelope, an
\* error when the mailbox does not hold the message as delivering.
CanAcknowledge(m) == envelope[m] = "delivered" \/ mailbox[m] = "delivering"

Acknowledge(p, r, m) ==
  /\ MuFree(p)
  /\ CanAcknowledge(m)
  /\ mailbox' = IF envelope[m] = "delivered" THEN mailbox
                ELSE [mailbox EXCEPT ![m] = "absent"]
  /\ envelope' = [envelope EXCEPT ![m] = "delivered"]
  /\ claimed' = [claimed EXCEPT ![p][r] = @ \ {m}]

\* Variant with a bug: the envelope stays as it was.
ReleaseMailboxOnly(p, r, ms) ==
  LET back == {m \in ms : mailbox[m] = "delivering"} IN
  /\ MuFree(p)
  /\ mailbox' = [m \in Message |-> IF m \in back THEN "pending" ELSE mailbox[m]]
  /\ claimed' = [claimed EXCEPT ![p][r] = @ \ ms]
  /\ UNCHANGED envelope

\* Variant with a bug: the execution forgets what it holds.
ReleaseForgotten(p, r, ms) ==
  /\ MuFree(p)
  /\ claimed' = [claimed EXCEPT ![p][r] = @ \ ms]
  /\ UNCHANGED <<mailbox, envelope>>

\* ReleaseChildMailboxMessage, for a set of messages one execution holds.
Release(p, r, ms) ==
  LET back == {m \in ms : mailbox[m] = "delivering"} IN
  /\ MuFree(p)
  /\ mailbox' = [m \in Message |-> IF m \in back THEN "pending" ELSE mailbox[m]]
  /\ envelope' = [m \in Message |-> IF m \in back THEN "pending" ELSE envelope[m]]
  /\ claimed' = [claimed EXCEPT ![p][r] = @ \ ms]

\* injectMailboxBetweenToolRounds, from the hook of a running model turn; the
\* context of a follow-up turn carries the hook too.
InjectMessage(p, r, m) ==
  /\ pc[p][r] \in {"model", "turn"}
  /\ Claim(p, r, m)
  /\ UNCHANGED <<task, followUp, lease, completion, execution, local, bounds>>

\* Runner.Run returns an answer; the injected messages are acknowledged next.
ModelAnswers(p, r) ==
  /\ pc[p][r] = "model"
  /\ Advance(p, r, "acking")

\* Runner.Run fails, times out, is canceled or returns an empty answer, or the
\* child session cannot be created.
ModelFails(p, r) ==
  /\ pc[p][r] = "model"
  /\ Advance(p, r, "failing")

AckInjected(p, r, m) ==
  /\ pc[p][r] = "acking"
  /\ m \in claimed[p][r]
  /\ \/ Acknowledge(p, r, m) /\ UNCHANGED <<followUp, pc>>
     \/ ~CanAcknowledge(m) /\ Goto(p, r, "failing") /\ UNCHANGED messages
  /\ UNCHANGED <<task, lease, completion, active, lost, ctxDone, local, bounds>>

InjectedSettled(p, r) ==
  /\ pc[p][r] = "acking"
  /\ claimed[p][r] = {}
  /\ Advance(p, r, "check")

\* The loop of execute begins with a look at leaseLost (ExitLost).
EnterLoop(p, r) ==
  /\ pc[p][r] = "check" /\ r \notin lost[p]
  /\ Advance(p, r, "loop")

\* runMailboxFollowUps: one message is claimed and given to the model.
FollowUpTurn(p, r, m) ==
  /\ pc[p][r] = "loop"
  /\ Claim(p, r, m)
  /\ followUp' = [followUp EXCEPT ![p][r] = m]
  /\ Goto(p, r, "turn")
  /\ UNCHANGED <<task, lease, completion, active, lost, ctxDone, local, bounds>>

TurnEnds(p, r) == followUp' = [followUp EXCEPT ![p][r] = NoMessage]

\* deliverMailboxMessage succeeds: its message is acknowledged, and none of the
\* messages the hook has injected into the turn.
TurnAnswers(p, r, m) ==
  /\ pc[p][r] = "turn" /\ m = followUp[p][r]
  /\ Acknowledge(p, r, m)
  /\ TurnEnds(p, r)
  /\ Goto(p, r, "loop")
  /\ UNCHANGED <<task, lease, completion, active, lost, ctxDone, local, bounds>>

\* deliverMailboxMessage fails: its message is released before the error is
\* handled.
TurnFails(p, r) ==
  /\ pc[p][r] = "turn"
  /\ Release(p, r, claimed[p][r] \cap {followUp[p][r]})
  /\ TurnEnds(p, r)
  /\ Goto(p, r, "failing")
  /\ UNCHANGED <<task, lease, completion, active, lost, ctxDone, local, bounds>>

\* runMailboxFollowUps returns when no message is left to claim.
MailboxDrained(p, r) ==
  /\ pc[p][r] = "loop" /\ MuFree(p)
  /\ \A m \in Message : mailbox[m] # "pending"
  /\ Advance(p, r, "closing")

\* A panic in the runner: the deferred releases run, then finishPanic.
Panic(p, r) ==
  /\ pc[p][r] \in {"model", "turn"}
  /\ Release(p, r, claimed[p][r])
  /\ TurnEnds(p, r)
  /\ Goto(p, r, "panicked")
  /\ UNCHANGED <<task, lease, completion, active, lost, ctxDone, local, bounds>>

-----------------------------------------------------------------------------
(* The end of an execution.                                                *)

\* finishSuccess: the run is still current, its task open and the mailbox empty.
FinishSuccess(p, r) ==
  /\ pc[p][r] = "closing"
  /\ MuFree(p)
  /\ currentRun = r /\ ~Terminal
  /\ SaveOwned(p, r, "succeeded", "succeeded")
  /\ Goto(p, r, "notifying")
  /\ UNCHANGED <<request, messages, lease, completion, active, lost, ctxDone,
                 local, bounds>>

\* finishSuccess: errMailboxPending sends the execution round its loop again.
MailboxPending(p, r) ==
  /\ pc[p][r] = "closing"
  /\ MuFree(p)
  /\ currentRun = r /\ ~Terminal /\ ~MailboxEmpty
  /\ Advance(p, r, "check")

\* finishSuccess of a run that is not current any more, whose task is terminal,
\* or whose lease is gone: nothing is written.
FinishStale(p, r) ==
  /\ pc[p][r] = "closing"
  /\ MuFree(p)
  /\ \/ currentRun # r \/ Terminal
     \/ MailboxEmpty /\ ~CanSave(p, r, "succeeded")
  /\ Advance(p, r, "exiting")

\* collectWorkspaceChanges fails; a direct workspace has nothing to collect.
CollectFails(p, r) ==
  /\ pc[p][r] = "closing"
  /\ Isolated
  /\ Advance(p, r, "failing")

\* The checks of leaseLost at the head of the loop, before finishError and in the
\* panic handler.
ExitLost(p, r) ==
  /\ pc[p][r] \in {"check", "failing", "panicked"} /\ r \in lost[p]
  /\ Advance(p, r, "exiting")

LeaseKept(p, r) ==
  /\ pc[p][r] = "failing" /\ r \notin lost[p]
  /\ Advance(p, r, "erring")

\* finishError: a canceled context cancels the task, unless the run's time limit
\* was reached before; any other error fails it.  finishPanic passes a context that
\* is never canceled.
Verdicts(p, r) ==
  {"failed"} \cup IF pc[p][r] = "erring" /\ r \in ctxDone[p] THEN {"canceled"} ELSE {}

FinishError(p, r) ==
  /\ pc[p][r] = "erring" \/ (pc[p][r] = "panicked" /\ r \notin lost[p])
  /\ MuFree(p)
  /\ \E v \in Verdicts(p, r) :
       \/ /\ currentRun = r /\ ~Terminal
          /\ SaveOwned(p, r, v, v)
          /\ Goto(p, r, IF v = "failed" THEN "notifying" ELSE "exiting")
       \/ /\ ~(currentRun = r /\ ~Terminal /\ CanSave(p, r, v))
          /\ Goto(p, r, "exiting")
          /\ UNCHANGED <<status, currentRun, runStatus>>
  /\ UNCHANGED <<request, messages, lease, completion, active, lost, ctxDone,
                 local, bounds>>

\* Variant with a bug: a failed run is not reported.
NotifySuccessOnly(p, r) ==
  /\ pc[p][r] = "notifying"
  /\ completion' = IF status = "succeeded" THEN completion \cup {r} ELSE completion
  /\ Goto(p, r, "exiting")
  /\ UNCHANGED <<task, messages, lease, active, lost, ctxDone, local, bounds>>

\* notifyParentCompletionLocked: EnqueueParentCompletion refuses an envelope
\* whose kind is not the one of the task's present status.
NotifyParent(p, r) ==
  /\ pc[p][r] = "notifying"
  /\ completion' = IF status = runStatus[r] /\ status \in {"succeeded", "failed"}
                   THEN completion \cup {r} ELSE completion
  /\ Goto(p, r, "exiting")
  /\ UNCHANGED <<task, messages, lease, active, lost, ctxDone, local, bounds>>

\* Deferred: injected messages that were not acknowledged are released.
ReleaseInjected(p, r) ==
  /\ pc[p][r] = "exiting" /\ claimed[p][r] # {}
  /\ Release(p, r, claimed[p][r])
  /\ UNCHANGED <<task, followUp, lease, completion, execution, local, bounds>>

\* Variant with a bug: the registration outlives the execution.
CompleteActiveKept(p, r) ==
  /\ pc[p][r] = "exiting" /\ claimed[p][r] = {}
  /\ Goto(p, r, "releasing")
  /\ UNCHANGED <<task, messages, lease, completion, active, lost, ctxDone, local, bounds>>

\* Deferred: completeActiveRun forgets the registration of this run.
CompleteActive(p, r) ==
  /\ pc[p][r] = "exiting" /\ claimed[p][r] = {}
  /\ MuFree(p)
  /\ active' = IF active[p] = r THEN [active EXCEPT ![p] = 0] ELSE active
  /\ Goto(p, r, "releasing")
  /\ UNCHANGED <<task, messages, lease, completion, lost, ctxDone, local, bounds>>

\* Deferred: releaseExecutionLease; the scheduler then forgets the job.
EndExecution(p, r) ==
  /\ pc[p][r] = "releasing"
  /\ ReleaseLeaseOf(p, r)
  /\ Goto(p, r, "idle")
  /\ lost' = [lost EXCEPT ![p] = @ \ {r}]
  /\ ctxDone' = [ctxDone EXCEPT ![p] = @ \ {r}]
  /\ UNCHANGED <<task, messages, completion, active, local, bounds>>

-----------------------------------------------------------------------------
(* The lease watcher, time, and the end of a process.                      *)

\* watchExecutionLease: a renewal fails, because the lease is gone or the store
\* does not answer; the flag is set before the context is canceled.
LoseLease(p, r) ==
  /\ pc[p][r] \in Watched /\ r \notin ctxDone[p]
  /\ IF OwnsLease(p, r) THEN Fault ELSE UNCHANGED faults
  /\ lost' = [lost EXCEPT ![p] = @ \cup {r}]
  /\ ctxDone' = [ctxDone EXCEPT ![p] = @ \cup {r}]
  /\ UNCHANGED <<task, messages, lease, completion, active, pc, local, crashes>>

\* watchExecutionLease: the renewal succeeds and the stored task shows a
\* cancellation, or another run.
ObserveCancel(p, r) ==
  /\ pc[p][r] \in Watched /\ r \notin ctxDone[p]
  /\ OwnsLease(p, r)
  /\ currentRun # r \/ status = "canceled"
  /\ ctxDone' = [ctxDone EXCEPT ![p] = @ \cup {r}]
  /\ UNCHANGED <<task, messages, lease, completion, active, pc, lost, local,
                 bounds>>

\* The lease's time is over.  While its owner runs this takes a stall of the
\* owner or a wait in the scheduler's queue.
Expire ==
  /\ lease # NoLease
  /\ IF lease.owner = Exited THEN UNCHANGED faults ELSE Fault
  /\ lease' = NoLease
  /\ UNCHANGED <<task, messages, completion, execution, local, crashes>>

\* Application.Close: the recovery loop is stopped, then Scheduler.Close cancels
\* the context of every scheduled job and refuses new ones.
Shutdown(p) ==
  /\ p \notin closed /\ AdmissionFree(p)
  /\ crashes < MaxCrashes
  /\ crashes' = crashes + 1
  /\ closed' = closed \cup {p}
  /\ ctxDone' = [ctxDone EXCEPT ![p] =
                   {r \in Run : pc[p][r] \notin {"idle", "admitted"}}]
  /\ UNCHANGED <<task, messages, lease, completion, active, pc, lost, inHand,
                 recovery, faults>>

\* The process is gone and started again.  The new instance draws a new lease
\* owner id, so a lease of the old one has to expire.
Reset(p) ==
  /\ lease' = IF lease # NoLease /\ lease.owner = p
              THEN [owner |-> Exited, run |-> lease.run] ELSE lease
  /\ active' = [active EXCEPT ![p] = 0]
  /\ pc' = [pc EXCEPT ![p] = [r \in Run |-> "idle"]]
  /\ lost' = [lost EXCEPT ![p] = {}]
  /\ ctxDone' = [ctxDone EXCEPT ![p] = {}]
  /\ claimed' = [claimed EXCEPT ![p] = [r \in Run |-> {}]]
  /\ followUp' = [followUp EXCEPT ![p] = [r \in Run |-> NoMessage]]
  /\ snapshot' = [snapshot EXCEPT ![p] = NoSnapshot]
  /\ canceling' = [canceling EXCEPT ![p] = NoSnapshot]
  /\ recovery' = [recovery EXCEPT ![p] = Idle]
  /\ closed' = closed \ {p}
  /\ UNCHANGED <<task, mailbox, envelope, completion, faults>>

\* The process dies at any point.
Crash(p) ==
  /\ crashes < MaxCrashes
  /\ crashes' = crashes + 1
  /\ Reset(p)

\* After Close the workers have drained the queue and returned.
Restart(p) ==
  /\ p \in closed
  /\ \A r \in Run : pc[p][r] = "idle"
  /\ Reset(p)
  /\ UNCHANGED crashes

-----------------------------------------------------------------------------
(* RecoverInterruptedTasks, at start-up and then every ten seconds.        *)

RecoveryTo(p, step) ==
  recovery' = [recovery EXCEPT ![p] = [step |-> step, run |-> recovery[p].run]]

RecoveryDone(p) == recovery' = [recovery EXCEPT ![p] = Idle]

\* Variant with a bug: only running tasks are taken up.
RecoverScanRunning(p) ==
  /\ p \notin closed /\ AdmissionFree(p) /\ MuFree(p)
  /\ status = "running" /\ active[p] = 0
  /\ recovery' = [recovery EXCEPT ![p] = [step |-> "scanned", run |-> currentRun]]
  /\ UNCHANGED <<task, messages, lease, completion, execution, inHand, closed, bounds>>

\* ListNonTerminalTasks and taskIsActive: the run of the listed record is kept.
RecoverScan(p) ==
  /\ p \notin closed /\ AdmissionFree(p) /\ MuFree(p)
  /\ NonTerminal /\ active[p] = 0
  /\ recovery' = [recovery EXCEPT ![p] = [step |-> "scanned", run |-> currentRun]]
  /\ UNCHANGED <<task, messages, lease, completion, execution, inHand, closed, bounds>>

\* The lease is claimed, perhaps while this process's own execution of the run has
\* left the registry and not yet given its lease back: the claim is re-entrant and
\* that late release removes it.  The coincidence of the ticker with this window
\* counts as a fault.
RecoverAcquire(p) ==
  LET r == recovery[p].run IN
  /\ recovery[p].step = "scanned"
  /\ LeaseFree(p, r)
  /\ IF pc[p][r] = "releasing" THEN Fault ELSE UNCHANGED faults
  /\ lease' = [owner |-> p, run |-> r]
  /\ RecoveryTo(p, "claimed")
  /\ UNCHANGED <<task, messages, completion, execution, inHand, closed, crashes>>

\* ErrExecutionLeaseNotAcquired: the task is left to the lease's owner.
RecoverSkip(p) ==
  /\ recovery[p].step = "scanned"
  /\ ~LeaseFree(p, recovery[p].run)
  /\ RecoveryDone(p)
  /\ UNCHANGED <<task, messages, lease, completion, execution, inHand, closed, bounds>>

\* The re-read under the lease and requeueInterruptedTask: the execution is
\* registered and task and run are saved as queued.  RecoverMailboxDeliveries
\* changes only the caller's copy: SaveOwnedTaskAndRun keeps the stored mailbox.
CanRequeue(p, r) ==
  ~Terminal /\ currentRun = r /\ active[p] = 0 /\ CanSave(p, r, "queued")

RecoverRequeue(p) ==
  LET r == recovery[p].run IN
  /\ recovery[p].step = "claimed"
  /\ MuFree(p)
  /\ ~Terminal /\ currentRun = r /\ active[p] = 0
  /\ SaveOwned(p, r, "queued", "queued")
  /\ active' = [active EXCEPT ![p] = r]
  /\ RecoveryTo(p, "saved")
  /\ UNCHANGED <<request, messages, lease, completion, pc, lost, ctxDone,
                 inHand, closed, bounds>>

\* The task moved on, or the save was refused: only the lease is given back.
RecoverAbandon(p) ==
  LET r == recovery[p].run IN
  /\ recovery[p].step = "claimed"
  /\ MuFree(p)
  /\ ~CanRequeue(p, r)
  /\ ReleaseLeaseOf(p, r)
  /\ RecoveryDone(p)
  /\ UNCHANGED <<task, messages, completion, execution, inHand, closed, bounds>>

\* Variant with a bug: the recovered run is registered and never submitted.
RecoverSubmitDropped(p) ==
  /\ recovery[p].step = "saved"
  /\ RecoveryDone(p)
  /\ UNCHANGED <<task, messages, lease, completion, execution, inHand, closed, bounds>>

\* Scheduler.Submit knows the run until its previous job has returned.
RecoverSubmit(p) ==
  LET r == recovery[p].run IN
  /\ recovery[p].step = "saved"
  /\ pc[p][r] = "idle"
  /\ Goto(p, r, "queued")
  /\ RecoveryDone(p)
  /\ UNCHANGED <<task, messages, lease, completion, active, lost, ctxDone,
                 inHand, closed, bounds>>

RecoverSubmitRefused(p) ==
  LET r == recovery[p].run IN
  /\ recovery[p].step = "saved"
  /\ MuFree(p)
  /\ IF pc[p][r] = "idle" THEN Fault ELSE UNCHANGED faults
  /\ active' = [active EXCEPT ![p] = 0]
  /\ ReleaseLeaseOf(p, r)
  /\ RecoveryDone(p)
  /\ UNCHANGED <<task, messages, completion, pc, lost, ctxDone, inHand,
                 closed, crashes>>

-----------------------------------------------------------------------------
Command(p) ==
  \/ Start(p) \/ CancelRead(p) \/ CancelSave(p)
  \/ \E id \in TurnMessage \cup {NoMessage} : Followup(p, id)
  \/ \E m \in Message : SendMessage(p, m)

Admit(p, r) == Schedule(p, r) \/ ScheduleRefused(p, r)

Enter(p, r) ==
  \/ StartExecution(p, r) \/ RefuseExecution(p, r) \/ Begin(p, r)
  \/ PrepareRead(p, r) \/ PrepareSave(p, r) \/ PrepareFail(p, r)

Turn(p, r) ==
  \/ ModelAnswers(p, r) \/ ModelFails(p, r) \/ TurnFails(p, r) \/ Panic(p, r)
  \/ InjectedSettled(p, r) \/ EnterLoop(p, r) \/ MailboxDrained(p, r)
  \/ \E m \in Message : \/ AckInjected(p, r, m) \/ FollowUpTurn(p, r, m)
                        \/ TurnAnswers(p, r, m)

Finish(p, r) ==
  \/ FinishSuccess(p, r) \/ MailboxPending(p, r) \/ FinishStale(p, r)
  \/ CollectFails(p, r)
  \/ ExitLost(p, r) \/ LeaseKept(p, r) \/ FinishError(p, r)
  \/ NotifyParent(p, r) \/ ReleaseInjected(p, r) \/ CompleteActive(p, r)
  \/ EndExecution(p, r)

\* Steps of the model's tools, taken any number of times during a turn.
Tool(p, r) ==
  \/ WaitForChildren(p, r) \/ RestoreRunning(p, r)
  \/ \E m \in Message : InjectMessage(p, r, m)

Watcher(p, r) == LoseLease(p, r) \/ ObserveCancel(p, r)

Recover(p) ==
  \/ RecoverScan(p) \/ RecoverAcquire(p) \/ RecoverSkip(p) \/ RecoverRequeue(p)
  \/ RecoverAbandon(p) \/ RecoverSubmit(p) \/ RecoverSubmitRefused(p)

Next ==
  \/ Expire
  \/ \E p \in Process :
       \/ Command(p) \/ Recover(p) \/ Shutdown(p) \/ Crash(p) \/ Restart(p)
       \/ \E r \in Run : \/ Admit(p, r) \/ Enter(p, r) \/ Turn(p, r)
                         \/ Finish(p, r) \/ Tool(p, r) \/ Watcher(p, r)

Spec == Init /\ [][Next]_vars

\* A goroutine that can take a step takes one: the Go scheduler is fair, calls
\* return because each runs under a deadline, the recovery ticker keeps firing,
\* and the lease of a process that is gone expires.
Fairness ==
  /\ WF_vars(Expire /\ faults' = faults)
  /\ \A p \in Process :
       /\ WF_vars(Recover(p)) /\ WF_vars(Restart(p)) /\ WF_vars(CancelSave(p))
       /\ \A r \in Run : WF_vars(Admit(p, r) \/ Enter(p, r) \/ Turn(p, r) \/ Finish(p, r))
       /\ \A r \in Run : WF_vars(LoseLease(p, r) /\ faults' = faults)

FairSpec == Spec /\ Fairness

-----------------------------------------------------------------------------
(* Properties.                                                             *)

Executions == Process \X Run

\* The task record and the record of its current run tell the same story, the
\* runs before it are finished and the ones after it do not exist.
RunAgrees ==
  \A r \in Run :
    /\ r < currentRun => runStatus[r] \in {"succeeded", "failed"}
    /\ r = currentRun => runStatus[r] = IF status = "waiting" THEN "running" ELSE status
    /\ r > currentRun => runStatus[r] = "none"

\* Until the task is canceled, a message in the hands of an execution is marked as
\* delivering in its mailbox, and no other execution, in this process or another,
\* holds it too.  A cancel may put an older mailbox back, from which the message is
\* claimed a second time.
ClaimExclusive ==
  status # "canceled" =>
    \A x, y \in Executions : \A m \in claimed[x[1]][x[2]] :
      /\ mailbox[m] = "delivering"
      /\ m \in claimed[y[1]][y[2]] => x = y

\* The mailbox of a task that is not canceled and the envelopes of its messages
\* agree.
EnvelopeAgrees ==
  status # "canceled" =>
    \A m \in Message :
      mailbox[m] = IF envelope[m] \in {"none", "delivered"} THEN "absent" ELSE envelope[m]

\* No input is left in the mailbox of a task that reports success.
SuccessDrained == status = "succeeded" => MailboxEmpty

\* A completion message is recorded only for a run that did finish.
CompletionSound == \A r \in completion : runStatus[r] \in {"succeeded", "failed"}

\* A process that still works on a run has it registered, so that neither a
\* follow-up nor recovery starts a second execution of the child session there;
\* and a registration without work is only held by a recovery in progress.
OneExecutionPerProcess ==
  \A p \in Process :
    /\ \A r \in Run : pc[p][r] \notin {"idle", "releasing"} => active[p] = r
    /\ active[p] # 0 => \/ pc[p][active[p]] \notin {"idle", "releasing"}
                        \/ recovery[p] = [step |-> "saved", run |-> active[p]]

\* A terminal task is only ever left by a follow-up that opens the next run;
\* a canceled one is never left.
TerminalKept ==
  [][Terminal /\ status' # status =>
       status # "canceled" /\ status' = "queued" /\ currentRun' = currentRun + 1]_vars

\* A verdict once written on a run is never changed.
VerdictFinal ==
  [][\A r \in Run : runStatus[r] \in TerminalStatus => runStatus'[r] = runStatus[r]]_vars

\* A trigger_turn id is executed once: it is not both an input of a run's
\* mailbox and the instruction of a run of its own.
TurnExecutedOnce ==
  \A m \in TurnMessage : envelope[m] = "delivered" => \A r \in Run : request[r] # m

\* A cancellation stays visible to the owner of the lease.
CancelKept == [][status = "canceled" => status' = "canceled"]_vars

\* A started task comes to an end.
EventuallyTerminal == NonTerminal ~> Terminal

\* A message an execution holds is settled: acknowledged when the turn it was
\* given to has succeeded, else made pending again.
ClaimSettled ==
  \A p \in Process, r \in Run, m \in Message :
    (m \in claimed[p][r]) ~> (m \notin claimed[p][r])

\* The part of it that holds: the messages injected into the run's first turn, and
\* those that are given a turn of their own.
TurnSettled ==
  \A p \in Process, r \in Run, m \in Message :
    (m \in claimed[p][r] /\ (pc[p][r] \in {"model", "acking"} \/ m = followUp[p][r]))
      ~> (mailbox[m] # "delivering")

\* A started task ends, unless an execution is left with a message that was
\* injected into a follow-up turn.
EndsUnlessHeld ==
  NonTerminal ~> (Terminal \/ \E x \in Executions : /\ pc[x[1]][x[2]] = "check"
                                                   /\ claimed[x[1]][x[2]] # {})

\* The same across a restart: while the task goes on, a message that was being
\* delivered when its process died is delivered or offered again.
ClaimRecovered ==
  \A m \in Message :
    (mailbox[m] = "delivering") ~> (mailbox[m] # "delivering" \/ Terminal)

\* A finished run is reported: its completion message is recorded.
CompletionRecorded ==
  \A r \in Run : (runStatus[r] \in {"succeeded", "failed"}) ~> (r \in completion)

-----------------------------------------------------------------------------
(* Refinement: queued, running and waiting are one open run, and a mailbox *)
(* entry is one input, whoever holds it, until the task is canceled.       *)

RunVerdict ==
  [r \in Run |-> IF runStatus[r] \in {"queued", "running"} THEN "open" ELSE runStatus[r]]

Lifecycle == INSTANCE SubagentLifecycle WITH
  current   <- currentRun,
  verdict   <- RunVerdict,
  waiting   <- {m \in Message : status # "canceled" /\ mailbox[m] # "absent"},
  delivered <- {m \in Message : status # "canceled" /\ envelope[m] = "delivered"},
  reported  <- completion

\* The service does what SubagentLifecycle promises.
ImplementsLifecycle == Lifecycle!Spec

=============================================================================
