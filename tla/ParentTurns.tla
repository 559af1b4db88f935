---------------------------- MODULE ParentTurns ----------------------------
(***************************************************************************)
(* How the results of sub-agents reach the conversation of their parent.   *)
(*                                                                         *)
(* A finished task leaves one durable message (an envelope) and puts it in *)
(* the pending input queue of the parent session.  A worker per session is *)
(* woken to run a background turn; a user turn or an explicit resume may   *)
(* take the message instead.  A turn holds the session lock, moves the     *)
(* queue to its claim set, appends what the session does not have yet, and *)
(* acknowledges the messages after the model answered, or puts them back.  *)
(* Queue, worker, pause flag and conversation are lost in a crash; the     *)
(* envelopes, the durable pause flag and the stored history are not, and   *)
(* the next start recovers the envelopes that were not delivered.          *)
(*                                                                         *)
(* One session is modelled: sessions share no state but the store.  The    *)
(* queue of asynchronous writes of that session is `writes`.               *)
(***************************************************************************)
EXTENDS Integers, Sequences, FiniteSets, SequencesExt, Filters

CONSTANTS
  Msg,         \* identified messages: one result of one task run each
  Note,        \* inputs a user sends while a turn runs; they have no id
  Nobody,
  MaxPending,  \* MaxPendingMessages
  MaxCrashes,  \* bound on crashes of the process
  MaxFaults,   \* bound on failures of the model, the tools and the store, and on
               \* messages another instance delivers
  MaxPauses    \* bound on explicit stops by the user

ASSUME ParentTurnsAssumption ==
  /\ MaxPending \in Nat \ {0}
  /\ MaxCrashes \in Nat /\ MaxFaults \in Nat /\ MaxPauses \in Nat
  /\ Msg \cap Note = {} /\ Nobody \notin Msg \cup Note

Item == Msg \cup Note

VARIABLES
  \* durable
  envelope,   \* AgentMessage.Status; "none" before the task ended
  claimant,   \* claim_owner_id of a delivering envelope: a life of the process
  created,    \* envelopes in the order of created_at
  stopped,    \* ContinuationControl.Paused
  stored,     \* inputs in the stored history of the session, oldest first
  \* the process
  life,       \* number of the current life: MessageOwnerID is new in each
  up,         \* "down", "boot" (recovering messages) or "on"
  recover,    \* messages RecoverPendingAgentMessages has still to look at
  notice,     \* the Notify in progress: its caller, its message, its next step
  resuming,   \* a Resume waits for the session lock in ContinuePending
  notified,   \* Service.parentNotified
  queue,      \* Queue.messages
  inflight,   \* Queue.inflight
  worker,     \* "none", "want" (the lock), "turn" or "decide"
  requested,  \* pendingWakeState.requested
  paused,     \* continuationState.paused
  canceled,   \* the context of the background turn is canceled
  turn,       \* who holds the session lock: "none", "user", "resume", "worker"
  stage,      \* where that turn is
  batch,      \* items continuePendingStreamForSession drained and must settle
  consumed,   \* items the agent loop drained and must settle
  refused,    \* batch items whose acknowledgement failed
  history,    \* inputs in the session in memory, oldest first
  writes,     \* inputs whose write to the store is queued
  \* what has happened
  arrived,    \* order in which messages were first queued in this life
  missed,     \* messages a paused wake-up left, or a turn gave back
  dropped,    \* messages a requeue found no room for
  faults, pauses

durable  == <<envelope, claimant, created, stopped, stored>>
mailbox  == <<queue, inflight>>
waking   == <<worker, requested>>
control  == <<paused, canceled>>
current  == <<turn, stage, batch, consumed, refused>>
records  == <<arrived, missed, dropped>>
counters == <<faults, pauses>>
process  == <<life, up, recover, notice, notified, resuming>>
vars == <<durable, process, mailbox, waking, control, current, history, writes,
          records, counters>>

NoNotice == [by |-> "nobody", msg |-> Nobody, next |-> "none"]
Stage == {"none", "apply", "run", "last", "failed", "unwind", "ack", "acking",
          "settle", "settling"}

TypeOK ==
  /\ envelope \in [Msg -> {"none", "pending", "delivering", "delivered"}]
  /\ claimant \in [Msg -> 0..MaxCrashes + 1]
  /\ created \in Seq(Msg) /\ stored \in Seq(Item) /\ history \in Seq(Item)
  /\ stopped \in BOOLEAN /\ paused \in BOOLEAN /\ canceled \in BOOLEAN
  /\ requested \in BOOLEAN
  /\ life \in 1..MaxCrashes + 1 /\ up \in {"down", "boot", "on"}
  /\ recover \in Seq(Msg) /\ notified \subseteq Msg
  /\ notice.by \in {"nobody", "task", "resume", "recovery"}
  /\ notice.msg \in Msg \cup {Nobody}
  /\ notice.next \in {"none", "queue", "schedule", "finish"}
  /\ resuming \in BOOLEAN
  /\ queue \in Seq(Item) /\ Len(queue) <= MaxPending /\ inflight \subseteq Msg
  /\ worker \in {"none", "want", "turn", "decide"}
  /\ turn \in {"none", "user", "resume", "worker"} /\ stage \in Stage
  /\ batch \in Seq(Item) /\ consumed \in Seq(Item) /\ refused \in Seq(Item)
  /\ writes \in Seq(Item) /\ arrived \in Seq(Msg)
  /\ missed \subseteq Msg /\ dropped \subseteq Item
  /\ faults \in 0..MaxFaults /\ pauses \in 0..MaxPauses

Init ==
  /\ envelope = [m \in Msg |-> "none"] /\ claimant = [m \in Msg |-> 0]
  /\ created = <<>> /\ stopped = FALSE /\ stored = <<>>
  /\ life = 1 /\ up = "boot" /\ recover = <<>> /\ notice = NoNotice
  /\ notified = {} /\ resuming = FALSE
  /\ queue = <<>> /\ inflight = {}
  /\ worker = "none" /\ requested = FALSE
  /\ paused = FALSE /\ canceled = FALSE
  /\ turn = "none" /\ stage = "none"
  /\ batch = <<>> /\ consumed = <<>> /\ refused = <<>>
  /\ history = <<>> /\ writes = <<>>
  /\ arrived = <<>> /\ missed = {} /\ dropped = {}
  /\ faults = 0 /\ pauses = 0

-----------------------------------------------------------------------------
(* The claims on an envelope: one conditional update each.                  *)

Fault == faults < MaxFaults /\ faults' = faults + 1

\* ClaimParentCompletion: pending, or delivering by a claim that lapsed or is
\* one's own.
CanClaim(m, lapsed) ==
  \/ envelope[m] = "pending"
  \/ envelope[m] = "delivering" /\ (lapsed \/ claimant[m] = life)

Claim(m) ==
  /\ envelope' = [envelope EXCEPT ![m] = "delivering"]
  /\ claimant' = [claimant EXCEPT ![m] = life]

\* ReleaseParentCompletion and CompleteParentCompletion refuse any other state.
HoldsClaim(m) == envelope[m] = "delivering" /\ claimant[m] = life

GiveUpClaim(m, status) ==
  /\ envelope' = [envelope EXCEPT ![m] = status]
  /\ claimant' = [claimant EXCEPT ![m] = 0]

(* The pending input queue: its lock is held for a whole operation.         *)
MsgsOf(items) == ToSet(items) \cap Msg
Identified(items) == Filter(items, Msg)

Known(m) == Contains(queue, m) \/ m \in inflight

\* Variants with a bug: the claims stay; the items replace the queue; they go to
\* its tail; what is still claimed is taken for a duplicate.
RequeueClaimed(items) ==
  /\ queue' = items \o queue /\ missed' = missed \cup MsgsOf(items)
  /\ UNCHANGED <<inflight, dropped>>
RequeueOver(items) ==
  /\ inflight' = inflight \ MsgsOf(items) /\ missed' = missed \cup MsgsOf(items)
  /\ queue' = items
  /\ UNCHANGED dropped
RequeueLast(items) ==
  /\ inflight' = inflight \ MsgsOf(items) /\ missed' = missed \cup MsgsOf(items)
  /\ queue' = queue \o items
  /\ UNCHANGED dropped
RequeueNew(items) ==
  /\ inflight' = inflight \ MsgsOf(items) /\ missed' = missed \cup MsgsOf(items)
  /\ queue' = Filter(items, Note) \o queue
  /\ UNCHANGED dropped

\* RequeueIdentified: items whose id is queued already are skipped, their claims
\* are dropped first, and the rest goes back to the head of the queue if all of
\* it fits.
Requeue(items) ==
  LET back == Filter(items, Note \cup (Msg \ ToSet(queue)))
      fits == Len(back) + Len(queue) <= MaxPending
  IN  /\ inflight' = inflight \ MsgsOf(items)
      /\ missed' = missed \cup MsgsOf(items)
      /\ queue' = IF fits THEN back \o queue ELSE queue
      /\ dropped' = IF fits THEN dropped ELSE dropped \cup ToSet(back)

(* The wake-up of an idle session.                                          *)
\* Variant with a bug: a wake-up is lost while a worker exists.
ScheduleIdle ==
  worker' = (IF worker = "none" THEN "want" ELSE worker) /\ UNCHANGED requested

Schedule ==
  IF worker = "none" THEN worker' = "want" /\ requested' = FALSE
                     ELSE requested' = TRUE /\ UNCHANGED worker

\* The process ends: only what is durable is left.
Stop ==
  /\ up' = "down" /\ recover' = <<>> /\ notice' = NoNotice
  /\ notified' = {} /\ resuming' = FALSE
  /\ queue' = <<>> /\ inflight' = {}
  /\ worker' = "none" /\ requested' = FALSE
  /\ paused' = FALSE /\ canceled' = FALSE
  /\ turn' = "none" /\ stage' = "none"
  /\ batch' = <<>> /\ consumed' = <<>> /\ refused' = <<>>
  /\ history' = <<>> /\ writes' = <<>>
  /\ arrived' = <<>> /\ missed' = {} /\ dropped' = {}
  /\ UNCHANGED life

-----------------------------------------------------------------------------
(* Notify: queue the message, then schedule the worker, under Service.mu.   *)

\* notifyParentCompletionLocked, when a task ended: its envelope is created.
TaskEnds(m) ==
  /\ up = "on" /\ notice = NoNotice
  /\ envelope[m] = "none"
  /\ envelope' = [envelope EXCEPT ![m] = "pending"]
  /\ created' = Append(created, m)
  /\ notice' = [by |-> "task", msg |-> m, next |-> "queue"]
  /\ UNCHANGED <<claimant, stopped, stored, life, up, recover, notified, resuming,
                 mailbox, waking, control, current, history, writes, records, counters>>

\* Variant with a bug: only this life knows that a result was delivered.
ResumeForgetful(m) ==
  /\ up = "on" /\ notice = NoNotice /\ ~resuming
  /\ envelope[m] # "none"
  /\ IF m \in notified
     THEN resuming' = TRUE /\ UNCHANGED <<notified, notice>>
     ELSE /\ notice' = [by |-> "resume", msg |-> m, next |-> "queue"]
          /\ UNCHANGED <<notified, resuming>>
  /\ UNCHANGED <<durable, life, up, recover, mailbox, waking, control, current, history,
                 writes, records, counters>>

\* Resume: the result is queued unless that was done in this life.
Resume(m) ==
  /\ up = "on" /\ notice = NoNotice /\ ~resuming
  /\ envelope[m] # "none"
  /\ IF m \in notified \/ envelope[m] = "delivered"
     THEN notified' = notified \cup {m} /\ resuming' = TRUE /\ UNCHANGED notice
     ELSE /\ notice' = [by |-> "resume", msg |-> m, next |-> "queue"]
          /\ UNCHANGED <<notified, resuming>>
  /\ UNCHANGED <<durable, life, up, recover, mailbox, waking, control, current, history,
                 writes, records, counters>>

\* RecoverPendingAgentMessages: the next message is claimed, or left to its claimant.
RecoverNext ==
  /\ up = "boot" /\ notice = NoNotice /\ recover # <<>>
  /\ recover' = Tail(recover)
  /\ LET m == Head(recover) IN
     \/ /\ \E lapsed \in BOOLEAN : CanClaim(m, lapsed)
        /\ Claim(m)
        /\ notice' = [by |-> "recovery", msg |-> m, next |-> "queue"]
     \/ /\ \E lapsed \in BOOLEAN : ~CanClaim(m, lapsed)
        /\ UNCHANGED <<envelope, claimant, notice>>
  /\ UNCHANGED <<created, stopped, stored, life, up, notified, resuming, mailbox, waking,
                 control, current, history, writes, records, counters>>

\* enqueueItem refuses the message: the recovery releases its claim and goes on.
NoticeRefused ==
  /\ notice.next = "queue"
  /\ ~Known(notice.msg) /\ Len(queue) >= MaxPending
  /\ notice' = NoNotice
  /\ IF notice.by = "recovery" /\ HoldsClaim(notice.msg)
     THEN GiveUpClaim(notice.msg, "pending")
     ELSE UNCHANGED <<envelope, claimant>>
  /\ UNCHANGED <<created, stopped, stored, life, up, recover, notified, resuming, mailbox,
                 waking, control, current, history, writes, records, counters>>

NoticeQueued ==
  /\ notice.next = "queue"
  /\ notice' = [notice EXCEPT !.next = "schedule"]
  /\ LET m == notice.msg IN
     IF Known(m)
     THEN UNCHANGED <<queue, arrived>>
     ELSE /\ Len(queue) < MaxPending
          /\ queue' = Append(queue, m)
          /\ arrived' = IF Contains(arrived, m) THEN arrived ELSE Append(arrived, m)
  /\ UNCHANGED <<durable, life, up, recover, notified, resuming, inflight, waking, control,
                 current, history, writes, missed, dropped, counters>>

\* schedulePendingTurn; the task or the Resume is done then.
NoticeScheduled ==
  /\ notice.next = "schedule"
  /\ Schedule
  /\ IF notice.by = "recovery"
     THEN notice' = [notice EXCEPT !.next = "finish"] /\ UNCHANGED <<notified, resuming>>
     ELSE /\ notice' = NoNotice
          /\ notified' = notified \cup {notice.msg}
          /\ resuming' = (resuming \/ notice.by = "resume")
  /\ UNCHANGED <<durable, life, up, recover, mailbox, control, current, history, writes,
                 records, counters>>

\* The recovery releases its claim.  That fails, and the start of the process with
\* it, when a turn has settled the message meanwhile.
RecoveryReleases ==
  /\ notice.next = "finish" /\ HoldsClaim(notice.msg)
  /\ GiveUpClaim(notice.msg, "pending")
  /\ notice' = NoNotice
  /\ notified' = notified \cup {notice.msg}
  /\ UNCHANGED <<created, stopped, stored, life, up, recover, resuming, mailbox, waking,
                 control, current, history, writes, records, counters>>

\* The start of the process panics: the claim is gone, or the store failed.
RecoverPanics ==
  /\ \/ /\ notice.next = "finish" /\ ~HoldsClaim(notice.msg)
        /\ UNCHANGED faults
     \/ up = "boot" /\ recover # <<>> /\ notice = NoNotice /\ Fault
  /\ Stop /\ UNCHANGED <<durable, pauses>>

BootDone ==
  /\ up = "boot" /\ recover = <<>> /\ notice = NoNotice
  /\ up' = "on"
  /\ UNCHANGED <<durable, life, recover, notice, notified, resuming, mailbox, waking,
                 control, current, history, writes, records, counters>>

-----------------------------------------------------------------------------
(* Turns: one at a time, under the lock of the session.                     *)

\* DrainIdentified: the whole queue moves to the claim set.
Drain ==
  /\ queue' = <<>>
  /\ inflight' = inflight \cup MsgsOf(queue)

\* runPendingTurnWorker: beginContinuation refuses a stopped session, and the turn
\* ends at once when nothing is pending.
WorkerBegin ==
  /\ worker = "want" /\ turn = "none"
  /\ \/ /\ paused \/ stopped \/ faults < MaxFaults
        /\ faults' = IF paused \/ stopped THEN faults ELSE faults + 1
        /\ worker' = "decide"
        /\ missed' = missed \cup MsgsOf(queue)
        /\ UNCHANGED <<mailbox, canceled, turn, stage, batch>>
     \/ /\ ~paused /\ ~stopped /\ queue = <<>>
        /\ worker' = "decide"
        /\ UNCHANGED <<mailbox, canceled, turn, stage, batch, missed, faults>>
     \/ /\ ~paused /\ ~stopped /\ queue # <<>>
        /\ worker' = "turn" /\ turn' = "worker" /\ stage' = "apply"
        /\ batch' = queue /\ Drain /\ canceled' = FALSE
        /\ UNCHANGED <<missed, faults>>
  /\ UNCHANGED <<durable, process, requested, paused, consumed, refused, history, writes,
                 arrived, dropped, pauses>>

\* resumeContinuations: explicit work of the user ends a stop.
ResumeContinuations == stopped' = FALSE /\ paused' = FALSE

StartUser ==
  /\ up = "on" /\ turn = "none"
  /\ ResumeContinuations
  /\ turn' = "user" /\ stage' = "run"
  /\ UNCHANGED <<envelope, claimant, created, stored, process, mailbox, waking, canceled,
                 batch, consumed, refused, history, writes, records, counters>>

\* ContinuePendingStreamForSession of a Resume; ErrNoPendingParentInput ends it.
StartResume ==
  /\ resuming /\ turn = "none"
  /\ resuming' = FALSE
  /\ \/ /\ Fault
        /\ UNCHANGED <<stopped, paused, mailbox, turn, stage, batch>>
     \/ /\ queue = <<>>
        /\ ResumeContinuations
        /\ UNCHANGED <<mailbox, turn, stage, batch, faults>>
     \/ /\ queue # <<>>
        /\ ResumeContinuations
        /\ turn' = "resume" /\ stage' = "apply" /\ batch' = queue /\ Drain
        /\ UNCHANGED faults
  /\ UNCHANGED <<envelope, claimant, created, stored, life, up, recover, notice, notified,
                 waking, canceled, consumed, refused, history, writes, records, pauses>>

\* AppendUserMessage, drainPendingInput: what the session does not have is appended
\* and its write is queued.
Apply(items) ==
  LET new == Filter(items, Note \cup (Msg \ ToSet(history)))
  IN  history' = history \o new /\ writes' = writes \o new

ApplyBatch ==
  /\ stage = "apply"
  /\ \/ stage' = "run" /\ Apply(batch) /\ UNCHANGED faults
     \/ /\ Fault
        /\ stage' = "unwind"
        /\ \E n \in 0..Len(batch) - 1 : Apply(SubSeq(batch, 1, n))
  /\ UNCHANGED <<durable, process, mailbox, waking, control, turn, batch, consumed, refused,
                 records, pauses>>

\* A round of the agent loop that takes pending input: after an answer or a wait.
LoopDrain ==
  /\ stage = "run" /\ queue # <<>> /\ ~canceled
  /\ Apply(queue) /\ consumed' = consumed \o queue /\ Drain
  /\ UNCHANGED <<durable, process, waking, control, turn, stage, batch, refused, records,
                 counters>>

\* The tool rounds are used up: what is pending joins the last request.
LimitDrain ==
  /\ stage = "run"
  /\ Apply(queue) /\ consumed' = consumed \o queue /\ Drain
  /\ stage' = "last"
  /\ UNCHANGED <<durable, process, waking, control, turn, batch, refused, records, counters>>

\* The final answer: nothing is pending, or it is the last request.  What has an id
\* is left to acknowledge.
Answer ==
  /\ (stage = "run" /\ queue = <<>>) \/ stage = "last"
  /\ stage' = "ack" /\ consumed' = Identified(consumed)
  /\ UNCHANGED <<durable, process, mailbox, waking, control, turn, batch, refused, history,
                 writes, records, counters>>

TurnFails ==
  /\ stage \in {"run", "last"}
  /\ \/ canceled /\ UNCHANGED faults
     \/ Fault
  /\ stage' = "failed"
  /\ UNCHANGED <<durable, process, mailbox, waking, control, turn, batch, consumed, refused,
                 history, writes, records, pauses>>

-----------------------------------------------------------------------------
(* The end of a turn.                                                       *)

EndTurn ==
  /\ turn' = "none" /\ stage' = "none" /\ batch' = <<>> /\ refused' = <<>>
  /\ canceled' = FALSE
  /\ worker' = IF turn = "worker" THEN "decide" ELSE worker

\* releasePendingInput of the loop that failed.
ReleaseConsumed ==
  /\ stage = "failed"
  /\ Requeue(consumed) /\ consumed' = <<>> /\ stage' = "unwind"
  /\ UNCHANGED <<durable, process, waking, control, turn, batch, refused, history, writes,
                 arrived, counters>>

\* requeue(pendingItems): the turn returns its error.
ReleaseBatch ==
  /\ stage = "unwind"
  /\ Requeue(batch) /\ EndTurn
  /\ UNCHANGED <<durable, process, requested, paused, consumed, history, writes, arrived,
                 counters>>

\* The loop acknowledges what it consumed, then the turn what it drained.
Unsettled == IF stage \in {"ack", "acking"} THEN consumed ELSE batch
SettleHead ==
  IF stage \in {"ack", "acking"}
  THEN consumed' = Tail(consumed) /\ UNCHANGED batch /\ stage' = "ack"
  ELSE batch' = Tail(batch) /\ UNCHANGED consumed /\ stage' = "settle"

\* AgentMessageAcknowledger.Acknowledge, first its claim.
AckClaim ==
  /\ stage \in {"ack", "settle"} /\ Unsettled # <<>>
  /\ \E lapsed \in BOOLEAN : CanClaim(Head(Unsettled), lapsed)
  /\ Claim(Head(Unsettled))
  /\ stage' = IF stage = "ack" THEN "acking" ELSE "settling"
  /\ UNCHANGED <<created, stopped, stored, process, mailbox, waking, control, turn, batch,
                 consumed, refused, history, writes, records, counters>>

AckComplete ==
  /\ stage \in {"acking", "settling"} /\ HoldsClaim(Head(Unsettled))
  /\ GiveUpClaim(Head(Unsettled), "delivered")
  /\ inflight' = inflight \ {Head(Unsettled)}
  /\ SettleHead
  /\ UNCHANGED <<created, stopped, stored, process, queue, waking, control, turn, refused,
                 history, writes, records, counters>>

\* The loop puts back each item as it fails; the turn all of them at its end.
AckFails ==
  LET m == Head(Unsettled) IN
  /\ stage \in {"ack", "acking", "settle", "settling"} /\ Unsettled # <<>>
  /\ \/ /\ stage \in {"ack", "settle"} /\ (\E lapsed \in BOOLEAN : ~CanClaim(m, lapsed))
        /\ UNCHANGED <<envelope, claimant, faults>>
     \/ /\ stage \in {"acking", "settling"} /\ ~HoldsClaim(m)
        /\ UNCHANGED <<envelope, claimant, faults>>
     \/ Fault /\ UNCHANGED <<envelope, claimant>>
     \/ /\ Fault /\ stage \in {"acking", "settling"} /\ HoldsClaim(m)
        /\ GiveUpClaim(m, "delivered")
  /\ SettleHead
  /\ IF stage \in {"ack", "acking"}
     THEN Requeue(<<m>>) /\ UNCHANGED refused
     ELSE refused' = Append(refused, m) /\ UNCHANGED <<mailbox, missed, dropped>>
  /\ UNCHANGED <<created, stopped, stored, process, waking, control, turn, history, writes,
                 arrived, pauses>>

\* ResponseCommitter.Commit: a turn that drained nothing is over.
Commit ==
  /\ stage = "ack" /\ consumed = <<>>
  /\ \/ stage' = "settle" /\ batch' = Identified(batch) /\ UNCHANGED faults
     \/ stage' = "unwind" /\ UNCHANGED batch /\ Fault
  /\ UNCHANGED <<durable, process, mailbox, waking, control, turn, consumed, refused, history, writes, records, pauses>>

FinishTurn ==
  /\ stage = "settle" /\ batch = <<>>
  /\ Requeue(refused) /\ EndTurn
  /\ UNCHANGED <<durable, process, requested, paused, consumed, history, writes, arrived,
                 counters>>

\* The worker looks for a wake-up that came in meanwhile, or ends.
Decide ==
  /\ worker = "decide"
  /\ worker' = IF requested THEN "want" ELSE "none"
  /\ requested' = FALSE
  /\ UNCHANGED <<durable, process, mailbox, control, current, history, writes, records,
                 counters>>

-----------------------------------------------------------------------------
(* The user, the store, other instances and crashes.                        *)

\* enqueueRunningTurnInput: an input sent while a turn of the user runs.
NoteArrives(n) ==
  /\ turn = "user" /\ Len(queue) < MaxPending
  /\ n \notin ToSet(queue \o consumed \o history) \cup dropped
  /\ queue' = Append(queue, n)
  /\ UNCHANGED <<durable, process, inflight, waking, control, current, history, writes,
                 records, counters>>

\* Variant with a bug: the turn that runs is not canceled.
PauseNext ==
  /\ up = "on" /\ pauses < MaxPauses /\ pauses' = pauses + 1
  /\ paused' = TRUE /\ stopped' = TRUE
  /\ UNCHANGED <<envelope, claimant, created, stored, process, mailbox, waking, canceled,
                 current, history, writes, records, faults>>

\* PauseSessionContinuations: the flag in memory holds also when the store fails.
Pause ==
  /\ up = "on" /\ pauses < MaxPauses /\ pauses' = pauses + 1
  /\ paused' = TRUE /\ canceled' = (turn = "worker")
  /\ \/ stopped' = TRUE /\ UNCHANGED faults
     \/ Fault /\ UNCHANGED stopped
  /\ UNCHANGED <<envelope, claimant, created, stored, process, mailbox, waking, current,
                 history, writes, records>>

FlushWrite ==
  /\ writes # <<>>
  /\ writes' = Tail(writes)
  /\ \/ stored' = Append(stored, Head(writes)) /\ UNCHANGED faults
     \/ Fault /\ UNCHANGED stored
  /\ UNCHANGED <<envelope, claimant, created, stopped, process, mailbox, waking, control,
                 current, history, records, pauses>>

\* Another instance on the same store recovered the message and delivered it.
PeerDelivers(m) ==
  /\ envelope[m] \in {"pending", "delivering"}
  /\ Fault
  /\ GiveUpClaim(m, "delivered")
  /\ UNCHANGED <<created, stopped, stored, process, mailbox, waking, control, current,
                 history, writes, records, pauses>>

Crash ==
  /\ up # "down" /\ life <= MaxCrashes
  /\ Stop /\ UNCHANGED <<durable, counters>>

\* The next start: the session is loaded from the store, the undelivered messages
\* are listed.
Boot ==
  /\ up = "down" /\ life <= MaxCrashes
  /\ life' = life + 1 /\ up' = "boot"
  /\ history' = stored
  /\ recover' = Filter(created, {m \in Msg : envelope[m] \in {"pending", "delivering"}})
  /\ UNCHANGED <<durable, notice, notified, resuming, mailbox, waking, control, current,
                 writes, records, counters>>

-----------------------------------------------------------------------------
Notify == NoticeRefused \/ NoticeQueued \/ NoticeScheduled \/ RecoveryReleases
Recovery == RecoverNext \/ RecoverPanics \/ BootDone
Generation == ApplyBatch \/ LoopDrain \/ LimitDrain \/ Answer \/ TurnFails
Settlement ==
  ReleaseConsumed \/ ReleaseBatch \/ AckClaim \/ AckComplete \/ AckFails
  \/ Commit \/ FinishTurn
Process ==
  Notify \/ Recovery \/ StartResume \/ Generation \/ Settlement \/ Decide \/ FlushWrite

Next ==
  \/ Process \/ WorkerBegin \/ StartUser \/ Pause \/ Crash \/ Boot
  \/ \E m \in Msg : TaskEnds(m) \/ Resume(m) \/ PeerDelivers(m)
  \/ \E n \in Note : NoteArrives(n)

Spec == Init /\ [][Next]_vars

-----------------------------------------------------------------------------
(* A message that was queued and that no turn has looked at has a worker coming for
   it: schedulePendingTurn merges the wake-ups of a session, and a merged one must
   not be the one the worker has just answered (chat.go:172-215). *)
FreshIsWoken ==
  \A m \in Msg : m \in ToSet(queue) \ missed =>
    worker = "want" \/ requested \/ (notice.msg = m /\ notice.next = "schedule")

(* parentNotified promises that a result need not be queued again in this life: it
   is queued, claimed by a turn, delivered, or was dropped by a full queue
   (parent_completion.go:53-109, queue.go:176-272). *)
NotifiedHeld ==
  \A m \in notified :
    envelope[m] = "delivered" \/ m \in ToSet(queue) \cup inflight \cup dropped

(* The claim set is what the current turn still has to settle, and nothing that is
   queued: else a retry is refused for ever, or queued beside the message that is
   being delivered (queue.go:110-122, 151-237). *)
InflightExact ==
  /\ inflight = MsgsOf(batch \o consumed \o refused)
  /\ inflight \cap ToSet(queue) = {}

(* The conversation holds a message at most once, in memory and in the store,
   however often it is tried, claimed back and recovered (SourceID checks of
   command_service.go:36-48 and agent_loop_service.go:288-306); it is part of
   ImplementsInbox. *)
AppliedOnce ==
  \A conversation \in {history, stored} : \A p, q \in DOMAIN conversation :
    conversation[p] = conversation[q] /\ conversation[p] \in Msg => p = q

(* An explicit stop reaches the background turn that runs, and none begins after it:
   registration and stop share a mutex (chat_continuation.go:26-90). *)
StopHolds == (paused \/ stopped) /\ turn = "worker" => canceled

(* A message leaves the claim set, other than in a crash, when it was delivered and
   the conversation has it, or when it is back in the queue, or when a full queue
   dropped it (agent_loop_service.go:330-363, chat.go:695-722). *)
ClaimSettles ==
  [][up' # "down" => \A m \in inflight \ inflight' :
       \/ envelope'[m] = "delivered" /\ m \in ToSet(history)
       \/ m \in ToSet(queue') \cup dropped']_vars

(* The conversation gets the messages in the order of their arrival, also when a
   turn that claimed some of them fails and puts them back (queue.go:231-236). *)
NoOvertaking ==
  [][up' = up => \A i, j \in 1..Len(arrived) :
       i < j /\ arrived[j] \in ToSet(history') \ ToSet(history)
         => \/ arrived[i] \in dropped'
            \/ \E p, q \in 1..Len(history') :
                 p < q /\ history'[p] = arrived[i] /\ history'[q] = arrived[j]]_vars

(* The queue, the claims, the turns and the recovery implement ParentInbox: an envelope
   that exists is a message sent, a delivered one is settled (parent_completion.go:27-109). *)
Inbox == INSTANCE ParentInbox WITH
  sent         <- {m \in Msg : envelope[m] # "none"},
  settled      <- {m \in Msg : envelope[m] = "delivered"},
  conversation <- history,
  kept         <- stored,
  awake        <- (up # "down"),
  failures     <- faults

\* The conversation of a session with its messages does what ParentInbox promises.
ImplementsInbox == Inbox!Spec

(* parent_completion.go:39-40: an acknowledgement that finds its message delivered
   by another worker succeeds; the message is not kept to be tried again. *)
AckIdempotent ==
  [][LET m == Head(Unsettled) IN
     (stage \in {"ack", "settle"} /\ Unsettled # <<>> /\ envelope[m] = "delivered")
       => m \notin ToSet(refused' \o queue')]_vars

=============================================================================
