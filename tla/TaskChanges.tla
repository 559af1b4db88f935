------------------------------ MODULE TaskChanges ------------------------------
(* The files of one sub-agent task with a snapshot workspace.

   A run works in a copy of the source directory (`snapshot`); what it changed goes
   to the source only when the user applies it. Executions, ApplyChanges,
   DiscardChanges and Resume of all instances (Process) share the task record, its
   lease and the disk: the source, the snapshot, the manifest that says what the
   snapshot was copied from and what has become of it, the directory in which an apply
   puts what it replaces, and the checkpoints from which it can be reverted. The user
   edits the source at any moment.

   A file has a content: the user's n-th edit or what run r left of it (which may be
   nothing: a deletion is copied and taken back like any other content).
   Followup, recovery and the ends of a run are as in SubagentTask, reduced to what
   the files depend on. *)
EXTENDS Integers

CONSTANTS
  Process,    \* instances of the application
  File,       \* files of the workspace: numbers, applied in this order
  Text,       \* those a checkpoint keeps the content of: no binaries, at most 512 KB
  None,       \* no process
  MaxRuns, MaxEdits,
  MaxFaults,  \* operations that fail, and turns
  MaxCrashes,
  MaxLapses   \* leases that run out while their holder is still at work, in a behaviour
              \* without faults and crashes

ASSUME NameAssumption == None \notin Process
ASSUME FileAssumption == File \subseteq Nat /\ Text \subseteq File
ASSUME BoundsAssumption ==
  MaxRuns \in Nat \ {0} /\ {MaxEdits, MaxFaults, MaxCrashes, MaxLapses} \subseteq Nat

VARIABLES
  \* the store
  status,     \* Task.Status; "open" while its run has not ended
  run,        \* Task.CurrentRunID, by its sequence number
  changes,    \* Task.ChangeSet.Status, as the last successful run or operation left it
  unread,     \* Task.Unread
  lease,      \* who holds the lease of the task, and for what
  fresh,      \* processes whose copy of the task has the stored UpdatedAt
  \* the disk
  source, snapshot,
  baseline,   \* manifest.BaselineFiles
  manifest,   \* manifest.Status; "partial": the job directory has no manifest
  rollback,   \* contents in the rollback directory
  saved,      \* contents in checkpoints
  \* the processes
  at,         \* [Process -> where its execution of the task is]
  mine,       \* [Process -> the run it executes]
  op,         \* [Process -> the apply or discard it is in the middle of]
  resuming,   \* processes in which the parent answers to the result
  \* what has happened
  owed,       \* contents of the user's that the user has not replaced
  taken,      \* contents of the user's that the snapshot was copied from
  raced,      \* contents the user wrote while an apply was under way
  orphaned,   \* contents an apply that crashed had backed up
  removed,    \* contents that were in a rollback directory, and no longer in the source,
              \* when it was removed
  unsaved,    \* the manifest was changed by an operation that could not save the task
  edits, faults, crashes, lapses

store  == <<status, run, changes, unread, lease, fresh>>
disk   == <<source, snapshot, baseline, manifest, rollback, saved>>
local  == <<at, mine, op, resuming>>
past   == <<owed, taken, raced, orphaned, removed, unsaved>>
bounds == <<edits, faults, crashes, lapses>>
vars   == <<store, disk, local, past, bounds>>

Absent    == <<"absent", 0>>
Edited(n) == <<"user", n>>
Wrote(r)  == <<"run", r>>

NoFiles == [f \in File |-> Absent]

Free == [by |-> None, use |-> "none"]
NoOp == [kind |-> "none", step |-> "none", todo |-> {}, backup |-> {}, base |-> NoFiles,
         result |-> "none"]

Init ==
  /\ status = "open" /\ run = 1 /\ changes = "none" /\ unread = FALSE
  /\ lease = Free /\ fresh = {}
  /\ source = [f \in File |-> Edited(0)]
  /\ snapshot = NoFiles /\ baseline = NoFiles
  /\ manifest = "none" /\ rollback = {} /\ saved = {}
  /\ at = [p \in Process |-> "none"] /\ mine = [p \in Process |-> 0]
  /\ op = [p \in Process |-> NoOp] /\ resuming = {}
  /\ owed = {<<f, Edited(0)>> : f \in File}
  /\ taken = {} /\ raced = {} /\ orphaned = {} /\ removed = {} /\ unsaved = FALSE
  /\ edits = 0 /\ faults = 0 /\ crashes = 0 /\ lapses = 0

Fault == faults < MaxFaults /\ lapses = 0 /\ faults' = faults + 1

\* Service.mu: operations hold it to their end, a failed run until it has cleaned up.
CanLock(p) == op[p] = NoOp /\ at[p] # "cleanup"

\* Between the look at the source and the new manifest.
Applying(p) == op[p].step \in {"backup", "write", "mark"}

\* snapshot.Manager.mu: a copy of the source holds it, and so does an apply.
CanTouch(p) == at[p] # "copying" /\ ~Applying(p)

Holds(p, use) == lease = [by |-> p, use |-> use]

\* Acquire: the lease is free or has expired. Release: it is one's own.
Acquire(p, use) == lease = Free /\ lease' = [by |-> p, use |-> use]
Release(p, use) == lease' = IF Holds(p, use) THEN Free ELSE lease

-----------------------------------------------------------------------------
(* Executions.                                                              *)

\* Followup opens the next run, recovery takes up an open one.
Admit(p) ==
  /\ CanLock(p) /\ at[p] = "none" /\ p \notin resuming
  /\ Acquire(p, "run")
  /\ \/ /\ status = "open" /\ UNCHANGED <<run, unread, unsaved>>
     \/ /\ status \in {"succeeded", "failed"} /\ run < MaxRuns
        /\ run' = run + 1 /\ unread' = FALSE /\ unsaved' = FALSE
  /\ status' = "open" /\ fresh' = {}
  /\ at' = [at EXCEPT ![p] = "begin"] /\ mine' = [mine EXCEPT ![p] = run']
  /\ UNCHANGED <<changes, disk, op, resuming, owed, taken, raced, orphaned, removed, bounds>>

\* An apply with changes removes the rollback directory before its first backup, and
\* Prepare the whole directory of a discarded job.
RemoveRollback ==
  /\ rollback' = {}
  /\ removed' = removed \cup {c \in rollback : source[c[1]] # c[2]}

\* execute checks its lease, and Manager.Prepare looks at the job directory: a
\* pending snapshot is used again, an applied one is its own baseline from now on,
\* a discarded one is removed, and a directory without a manifest is an error.
Prepare(p) ==
  /\ at[p] = "begin" /\ CanLock(p) /\ CanTouch(p)
  /\ IF ~Holds(p, "run") \/ status # "open" \/ run # mine[p]
     THEN at' = [at EXCEPT ![p] = "left"] /\ UNCHANGED <<baseline, manifest, rollback, removed>>
     ELSE \/ /\ manifest = "pending" /\ at' = [at EXCEPT ![p] = "prepared"]
             /\ UNCHANGED <<baseline, manifest, rollback, removed>>
          \/ /\ manifest = "applied" /\ at' = [at EXCEPT ![p] = "prepared"]
             /\ manifest' = "pending" /\ baseline' = snapshot /\ UNCHANGED <<rollback, removed>>
          \/ /\ manifest \in {"none", "discarded"} /\ at' = [at EXCEPT ![p] = "copying"]
             /\ manifest' = "partial" /\ RemoveRollback /\ UNCHANGED baseline
          \/ /\ manifest = "partial" /\ at' = [at EXCEPT ![p] = "failed"]
             /\ UNCHANGED <<baseline, manifest, rollback, removed>>
  /\ UNCHANGED <<store, source, snapshot, saved, mine, op, resuming, owed, taken, raced, orphaned,
                 unsaved, bounds>>

\* copyWorkspace has copied every file and its manifest is saved, or all is removed.
CopyEnds(p) ==
  /\ at[p] = "copying"
  /\ \/ /\ snapshot' = source /\ baseline' = source /\ manifest' = "pending"
        /\ taken' = taken \cup {<<f, source[f]>> : f \in File}
        /\ at' = [at EXCEPT ![p] = "prepared"] /\ UNCHANGED faults
     \/ /\ manifest' = "none" /\ at' = [at EXCEPT ![p] = "failed"] /\ Fault
        /\ UNCHANGED <<snapshot, baseline, taken>>
  /\ UNCHANGED <<store, source, rollback, saved, mine, op, resuming, owed, raced, orphaned, removed,
                 unsaved, edits, crashes, lapses>>

\* Manager.Discard of a pending snapshot, whose manifest stays without a baseline; an
\* applied one is an error.
Discarded ==
  IF manifest \in {"pending", "discarded"}
  THEN manifest' = "discarded" /\ snapshot' = NoFiles /\ baseline' = NoFiles
  ELSE UNCHANGED <<manifest, snapshot, baseline>>

\* prepareWorkspace writes the reference to the task, whoever has the lease; if the
\* run is over it discards what it has prepared.
SetReference(p) ==
  /\ at[p] = "prepared" /\ CanLock(p)
  /\ IF status = "open" /\ run = mine[p]
     THEN fresh' = {} /\ at' = [at EXCEPT ![p] = "work"]
          /\ UNCHANGED <<manifest, snapshot, baseline>>
     ELSE Discarded /\ at' = [at EXCEPT ![p] = "failed"] /\ UNCHANGED fresh
  /\ UNCHANGED <<status, run, changes, unread, lease, source, rollback, saved, mine, op, resuming,
                 past, bounds>>

\* A tool of the run writes or deletes a file of the snapshot.
Work(p, f) ==
  /\ at[p] = "work" /\ manifest \in {"pending", "applied"}
  /\ snapshot' = [snapshot EXCEPT ![f] = Wrote(mine[p])]
  /\ UNCHANGED <<store, source, baseline, manifest, rollback, saved, local, past, bounds>>

Ends(p) == at' = [at EXCEPT ![p] = "none"] /\ mine' = [mine EXCEPT ![p] = 0]

\* Variant with a bug: the record keeps the outcome of the run before.
SucceedOld(p) ==
  /\ at[p] = "work" /\ CanLock(p)
  /\ manifest \in {"pending", "applied", "discarded"}
  /\ status = "open" /\ run = mine[p] /\ Holds(p, "run")
  /\ status' = "succeeded" /\ unread' = TRUE /\ fresh' = {}
  /\ Release(p, "run") /\ Ends(p)
  /\ UNCHANGED <<run, changes, disk, op, resuming, past, bounds>>

\* collectWorkspaceChanges and finishSuccess: the outcome is saved under the lease.
Succeed(p) ==
  /\ at[p] = "work" /\ CanLock(p)
  /\ manifest \in {"pending", "applied", "discarded"}
  /\ status = "open" /\ run = mine[p] /\ Holds(p, "run")
  /\ status' = "succeeded" /\ changes' = manifest /\ unread' = TRUE /\ fresh' = {}
  /\ Release(p, "run") /\ Ends(p)
  /\ UNCHANGED <<run, disk, op, resuming, past, bounds>>

\* The turn fails.
TurnFails(p) ==
  /\ at[p] = "work" /\ Fault
  /\ at' = [at EXCEPT ![p] = "failed"]
  /\ UNCHANGED <<store, disk, mine, op, resuming, past, edits, crashes, lapses>>

\* finishError, and finishSuccess of a run that is over: a failure is saved under the
\* lease; the snapshot of a failed or canceled run is discarded if the lease is held.
Finish(p) ==
  /\ at[p] \in {"work", "failed"} /\ CanLock(p)
  /\ \/ /\ at[p] = "failed" /\ status = "open" /\ run = mine[p] /\ Holds(p, "run")
        /\ status' = "failed" /\ unread' = TRUE /\ fresh' = {}
        /\ at' = [at EXCEPT ![p] = "cleanup"]
     \/ /\ status # "open" \/ run # mine[p] \/ ~Holds(p, "run")
        /\ at' = [at EXCEPT ![p] =
             IF status \in {"failed", "canceled"} /\ run = mine[p] /\ Holds(p, "run")
             THEN "cleanup" ELSE "left"]
        /\ UNCHANGED <<status, unread, fresh>>
  /\ UNCHANGED <<run, changes, lease, disk, mine, op, resuming, past, bounds>>

\* discardFailedWorkspace
CleanUp(p) ==
  /\ at[p] = "cleanup"
  /\ Discarded /\ at' = [at EXCEPT ![p] = "left"]
  /\ UNCHANGED <<store, source, rollback, saved, mine, op, resuming, past, bounds>>

\* The deferred release of the execution.
Leave(p) ==
  /\ at[p] = "left"
  /\ Release(p, "run") /\ Ends(p)
  /\ UNCHANGED <<status, run, changes, unread, fresh, disk, op, resuming, past, bounds>>

\* Cancel needs no lease.
Cancel(p) ==
  /\ CanLock(p) /\ status = "open"
  /\ status' = "canceled" /\ unread' = FALSE /\ fresh' = {}
  /\ UNCHANGED <<run, changes, lease, disk, local, past, bounds>>

-----------------------------------------------------------------------------
(* ApplyChanges and DiscardChanges.                                         *)

CanApply == status = "succeeded"
CanDiscard == status \in {"succeeded", "failed", "canceled"}
Admits(kind) == IF kind = "apply" THEN CanApply ELSE CanDiscard

OpRead(p, kind) ==
  /\ CanLock(p) /\ Admits(kind)
  /\ op' = [op EXCEPT ![p] = [NoOp EXCEPT !.kind = kind, !.step = "admit"]]
  /\ fresh' = fresh \cup {p}
  /\ UNCHANGED <<status, run, changes, unread, lease, disk, at, mine, resuming, past, bounds>>

Returns(p) == op' = [op EXCEPT ![p] = NoOp] /\ fresh' = fresh \ {p}

\* The lease is refused, or the task is read again under it: if it has changed, the
\* operation returns and keeps the lease until it expires.
OpAdmit(p) ==
  /\ op[p].step = "admit"
  /\ \/ /\ Acquire(p, op[p].kind)
        /\ IF p \in fresh /\ Admits(op[p].kind)
           THEN op' = [op EXCEPT ![p].step = "look"] /\ UNCHANGED fresh ELSE Returns(p)
     \/ lease # Free /\ Returns(p) /\ UNCHANGED lease
  /\ UNCHANGED <<status, run, changes, unread, disk, at, mine, resuming, past, bounds>>

Changed == {f \in File : snapshot[f] # baseline[f]}
Conflicts == {f \in Changed : source[f] # baseline[f]}

\* The operation returns and its lease is released.
OpReturns(p) == Returns(p) /\ Release(p, op[p].kind)

GoOn(p, step, result) ==
  op' = [op EXCEPT ![p].step = step, ![p].result = result] /\ UNCHANGED <<lease, fresh>>

\* applyFiles returns at once if there is nothing to apply.
BeginApply(p) ==
  /\ op' = [op EXCEPT ![p].step = "backup", ![p].todo = Changed, ![p].base = baseline]
  /\ IF Changed # {} THEN RemoveRollback ELSE UNCHANGED <<rollback, removed>>
  /\ UNCHANGED <<lease, fresh>>

\* Variant with a bug: a conflict is no reason to stop.
LookPast(p) ==
  /\ op[p].kind = "apply" /\ op[p].step = "look" /\ CanTouch(p)
  /\ \/ /\ manifest \in {"none", "partial", "discarded"} /\ OpReturns(p)
        /\ UNCHANGED <<rollback, removed>>
     \/ manifest = "applied" /\ GoOn(p, "save", "applied") /\ UNCHANGED <<rollback, removed>>
     \/ /\ manifest = "pending"
        /\ BeginApply(p)
  /\ UNCHANGED <<status, run, changes, unread, source, snapshot, baseline, manifest, saved, at,
                 mine, resuming, owed, taken, raced, orphaned, unsaved, bounds>>

\* Manager.Apply up to applyFiles: an applied snapshot is reported as applied again.
Look(p) ==
  /\ op[p].kind = "apply" /\ op[p].step = "look" /\ CanTouch(p)
  /\ \/ /\ manifest \in {"none", "partial", "discarded"} /\ OpReturns(p)
        /\ UNCHANGED <<rollback, removed>>
     \/ manifest = "applied" /\ GoOn(p, "save", "applied") /\ UNCHANGED <<rollback, removed>>
     \/ /\ manifest = "pending" /\ Conflicts # {} /\ GoOn(p, "save", "conflict")
        /\ UNCHANGED <<rollback, removed>>
     \/ /\ manifest = "pending" /\ Conflicts = {}
        /\ BeginApply(p)
  /\ UNCHANGED <<status, run, changes, unread, source, snapshot, baseline, manifest, saved, at,
                 mine, resuming, owed, taken, raced, orphaned, unsaved, bounds>>

IsNext(p, f) == f \in op[p].todo /\ \A g \in op[p].todo : f <= g

\* Another apply, begun when the lease of this one ran out, has backed up the next file:
\* backupFile makes new files only.
Blocked(p) == op[p].step = "backup" /\ \E c \in rollback : IsNext(p, c[1])

\* The next file of the source is copied to the rollback directory.
Backup(p, f) ==
  /\ op[p].step = "backup" /\ IsNext(p, f) /\ ~Blocked(p)
  /\ op' = [op EXCEPT ![p].step = "write", ![p].backup = @ \cup {<<f, source[f]>>}]
  /\ rollback' = rollback \cup {<<f, source[f]>>}
  /\ UNCHANGED <<store, source, snapshot, baseline, manifest, saved, at, mine, resuming, past,
                 bounds>>

\* Its content in the snapshot replaces it.
Write(p, f) ==
  /\ op[p].step = "write" /\ IsNext(p, f) /\ manifest \in {"pending", "applied"}
  /\ source' = [source EXCEPT ![f] = snapshot[f]]
  /\ op' = [op EXCEPT ![p].step = "backup", ![p].todo = @ \ {f}]
  /\ UNCHANGED <<store, snapshot, baseline, manifest, rollback, saved, at, mine, resuming, past,
                 bounds>>

\* Variant with a bug: the checkpoint has the files as they are now.
CommitAfter(p) ==
  /\ op[p].step = "backup" /\ op[p].todo = {}
  /\ saved' = saved \cup {<<b[1], source[b[1]]>> : b \in op[p].backup}
  /\ op' = [op EXCEPT ![p].step = "mark"]
  /\ UNCHANGED <<store, source, snapshot, baseline, manifest, rollback, at, mine, resuming, past,
                 bounds>>

\* saveCheckpoint: all files are copied. Of a file that is not text it has the hash only.
Commit(p) ==
  /\ op[p].step = "backup" /\ op[p].todo = {}
  /\ saved' = saved \cup {b \in op[p].backup : b[1] \in Text}
  /\ op' = [op EXCEPT ![p].step = "mark"]
  /\ UNCHANGED <<store, source, snapshot, baseline, manifest, rollback, at, mine, resuming, past,
                 bounds>>

\* The manifest is saved: the changes are applied. The rollback directory stays.
Mark(p) ==
  /\ op[p].step = "mark" /\ manifest # "none"
  /\ manifest' = "applied" /\ baseline' = op[p].base
  /\ op' = [op EXCEPT ![p].step = "save", ![p].result = "applied", ![p].backup = {}]
  /\ UNCHANGED <<store, source, snapshot, rollback, saved, at, mine, resuming, past, bounds>>

\* The files of an apply as the rollback directory has them, where it still has them.
Restored(backup) ==
  [f \in File |-> IF (\E b \in backup : b[1] = f) /\ (\E c \in rollback : c[1] = f)
                  THEN (CHOOSE c \in rollback : c[1] = f)[2] ELSE source[f]]

\* Variant with a bug: the files that were copied stay.
StopApply(p) ==
  /\ Applying(p)
  /\ IF manifest \in {"pending", "applied"} /\ ~Blocked(p) THEN Fault ELSE UNCHANGED faults
  /\ saved' = saved \ (IF op[p].step = "mark" THEN op[p].backup ELSE {})
  /\ OpReturns(p)
  /\ UNCHANGED <<status, run, changes, unread, source, snapshot, baseline, manifest, rollback, at,
                 mine, resuming, past, edits, crashes, lapses>>

\* applyFiles or the save of the manifest fails: what was backed up is put back, and
\* the checkpoint, if there is one already, is deleted.
Rollback(p) ==
  LET backup == op[p].backup IN
  /\ Applying(p)
  /\ IF manifest \in {"pending", "applied"} /\ ~Blocked(p) THEN Fault ELSE UNCHANGED faults
  /\ source' = Restored(backup)
  /\ saved' = saved \ (IF op[p].step = "mark" THEN backup ELSE {})
  /\ OpReturns(p)
  /\ UNCHANGED <<status, run, changes, unread, snapshot, baseline, manifest, rollback, at, mine,
                 resuming, past, edits, crashes, lapses>>

\* Manager.Discard for the user.
Discard(p) ==
  /\ op[p].kind = "discard" /\ op[p].step = "look" /\ CanTouch(p)
  /\ Discarded
  /\ IF manifest \in {"pending", "discarded"} THEN GoOn(p, "save", "discarded")
                                              ELSE OpReturns(p)
  /\ UNCHANGED <<status, run, changes, unread, source, rollback, saved, at, mine,
                 resuming, past, bounds>>

\* saveTaskMutation, then the deferred release.
OpSave(p) ==
  /\ op[p].step = "save"
  /\ \/ /\ p \in fresh /\ Holds(p, op[p].kind)
        /\ changes' = op[p].result /\ fresh' = {} /\ unsaved' = FALSE /\ UNCHANGED faults
        /\ op' = [op EXCEPT ![p] = NoOp]
     \/ /\ IF p \in fresh /\ Holds(p, op[p].kind) THEN Fault ELSE UNCHANGED faults
        /\ unsaved' = (unsaved \/ op[p].result # "conflict")
        /\ Returns(p) /\ UNCHANGED changes
  /\ Release(p, op[p].kind)
  /\ UNCHANGED <<status, run, unread, disk, at, mine, resuming, owed, taken, raced, orphaned,
                 removed, edits, crashes, lapses>>

-----------------------------------------------------------------------------
(* Resume: the lease is held while the parent session answers.              *)

ResumeBegin(p) ==
  /\ CanLock(p) /\ p \notin resuming
  /\ status \in {"succeeded", "failed"} /\ unread
  /\ Acquire(p, "resume")
  /\ resuming' = resuming \cup {p}
  /\ UNCHANGED <<status, run, changes, unread, fresh, disk, at, mine, op, past, bounds>>

\* The result counts as read if the lease is still there to save that.
ResumeEnd(p) ==
  /\ p \in resuming /\ CanLock(p)
  /\ resuming' = resuming \ {p}
  /\ \/ Holds(p, "resume") /\ unread' = FALSE /\ fresh' = {} /\ UNCHANGED faults
     \/ UNCHANGED <<unread, fresh>> /\ IF Holds(p, "resume") THEN Fault ELSE UNCHANGED faults
  /\ Release(p, "resume")
  /\ UNCHANGED <<status, run, changes, disk, at, mine, op, past, edits, crashes, lapses>>

-----------------------------------------------------------------------------
(* The user, time and crashes.                                              *)

Edit(f) ==
  /\ edits < MaxEdits /\ edits' = edits + 1
  /\ source' = [source EXCEPT ![f] = Edited(edits + 1)]
  /\ owed' = (owed \ {<<f, source[f]>>}) \cup {<<f, Edited(edits + 1)>>}
  /\ raced' = IF \E p \in Process : Applying(p) THEN raced \cup {<<f, Edited(edits + 1)>>}
                                               ELSE raced
  /\ UNCHANGED <<store, snapshot, baseline, manifest, rollback, saved, local, taken, orphaned,
                 removed, unsaved, faults, crashes, lapses>>

\* Uses the lease that is held.
AtWork(p) ==
  \/ at[p] # "none" /\ Holds(p, "run")
  \/ op[p].step \notin {"none", "admit"} /\ Holds(p, op[p].kind)
  \/ p \in resuming /\ Holds(p, "resume")

Expire ==
  /\ lease # Free
  /\ IF \E p \in Process : AtWork(p)
     THEN lapses < MaxLapses /\ faults + crashes = 0 /\ lapses' = lapses + 1 ELSE UNCHANGED lapses
  /\ lease' = Free
  /\ UNCHANGED <<status, run, changes, unread, fresh, disk, local, past, edits, faults, crashes>>

\* The process dies and starts again; nobody goes back to the backups it was making.
Crash(p) ==
  /\ crashes < MaxCrashes /\ lapses = 0 /\ crashes' = crashes + 1
  /\ Ends(p) /\ op' = [op EXCEPT ![p] = NoOp]
  /\ fresh' = fresh \ {p} /\ resuming' = resuming \ {p}
  /\ orphaned' = orphaned \cup op[p].backup
  /\ unsaved' = (unsaved \/ (op[p].step = "save" /\ op[p].result # "conflict"))
  /\ UNCHANGED <<status, run, changes, unread, lease, disk, owed, taken, raced, removed, edits,
                 faults, lapses>>

Execution(p) ==
  \/ Admit(p) \/ Prepare(p) \/ CopyEnds(p) \/ SetReference(p)
  \/ (\E f \in File : Work(p, f))
  \/ Succeed(p) \/ TurnFails(p) \/ Finish(p) \/ CleanUp(p) \/ Leave(p) \/ Cancel(p)

Operation(p) ==
  \/ (\E kind \in {"apply", "discard"} : OpRead(p, kind))
  \/ OpAdmit(p) \/ Look(p) \/ (\E f \in File : Backup(p, f) \/ Write(p, f))
  \/ Commit(p) \/ Mark(p) \/ Rollback(p) \/ Discard(p) \/ OpSave(p) \/ ResumeBegin(p) \/ ResumeEnd(p)

Next ==
  \/ \E p \in Process : Execution(p) \/ Operation(p) \/ Crash(p)
  \/ \E f \in File : Edit(f)
  \/ Expire

Spec == Init /\ [][Next]_vars

-----------------------------------------------------------------------------
(* Properties.                                                              *)

Content == {Absent} \cup {Edited(n) : n \in 0..MaxEdits} \cup {Wrote(r) : r \in 0..MaxRuns}
Version == File \X Content
Outcome == {"none", "pending", "applied", "conflict", "discarded"}

OpState == [kind   : {"none", "apply", "discard"},
            step   : {"none", "admit", "look", "backup", "write", "mark", "save"},
            todo   : SUBSET File, backup : SUBSET Version, base : [File -> Content],
            result : Outcome]

\* The variables stay in their ranges: the steps of an execution, an operation and a
\* manifest are the ones the code has.
TypeOK ==
  /\ status \in {"open", "succeeded", "failed", "canceled"} /\ run \in 1..MaxRuns
  /\ changes \in Outcome /\ unread \in BOOLEAN /\ unsaved \in BOOLEAN
  /\ lease \in [by : Process \cup {None}, use : {"none", "run", "apply", "discard", "resume"}]
  /\ fresh \subseteq Process /\ resuming \subseteq Process
  /\ source \in [File -> Content] /\ snapshot \in [File -> Content]
  /\ baseline \in [File -> Content]
  /\ manifest \in {"none", "partial", "pending", "applied", "discarded"}
  /\ rollback \subseteq Version /\ removed \subseteq Version
  /\ saved \subseteq Version /\ owed \subseteq Version /\ taken \subseteq Version
  /\ raced \subseteq Version /\ orphaned \subseteq Version
  /\ at \in [Process -> {"none", "begin", "copying", "prepared", "work", "failed", "cleanup",
                          "left"}]
  /\ mine \in [Process -> 0..MaxRuns]
  /\ op \in [Process -> OpState]
  /\ edits \in 0..MaxEdits /\ faults \in 0..MaxFaults
  /\ crashes \in 0..MaxCrashes /\ lapses \in 0..MaxLapses

\* Manager.conflicts: what the user writes after the copy of the source was made is never
\* overwritten, unless it is written while an apply is under way, whichever operations of
\* however many instances fail, crash or go on without their lease.
EditsKept == \A o \in owed : source[o[1]] = o[2] \/ o \in raced \cup taken

\* applyFiles: a content of the user's that is no longer in the source is in a checkpoint or
\* in the rollback directory, whatever fails or crashes, until that directory is removed by
\* the next apply or after a discard; and then it is lost only if checkpoints keep nothing of
\* the file, or the apply that replaced it has crashed. (Not so when an apply goes on without
\* its lease: a second one then backs up what the first has written.)
BackedUp ==
  lapses = 0 =>
    \A o \in owed \ raced :
      source[o[1]] # o[2] =>
        \/ o \in saved \cup rollback
        \/ o \in removed /\ (o[1] \notin Text \/ o \in orphaned)

\* A file is as the user has it, or wrote it while an apply was under way: a roll-back
\* puts back what was backed up, also if the user has gone on meanwhile.
Users(f) == <<f, source[f]>> \in owed \cup raced

\* FEATURE_SUBAGENT_IMPLEMENTATION.md: an apply is rolled back as a whole. When none is
\* under way, the files that a pending manifest calls changed are as before the run or as
\* the user has them, unless an apply has crashed, and those of an applied one are as the
\* run or the user has them.
AllOrNothing ==
  (lapses = 0 /\ \A p \in Process : ~Applying(p)) =>
    \A f \in Changed :
      /\ manifest = "pending" => source[f] = baseline[f] \/ Users(f) \/ crashes > 0
      /\ manifest = "applied" => source[f] = snapshot[f] \/ Users(f)

\* What the record says of a finished run's changes is what the manifest says, once every
\* operation has saved what it did: ApplyChanges, DiscardChanges, prepareWorkspace and
\* finishSuccess of all instances keep the two together while no lease runs out early.
ChangesAgree ==
  LET says == IF changes = "conflict" THEN "pending" ELSE changes IN
  lapses = 0 /\ status = "succeeded" /\ ~unsaved /\ (\A p \in Process : op[p].step # "save")
    => says = manifest

Uses(p) ==
  (IF at[p] # "none" THEN {"run"} ELSE {})
    \cup (IF op[p].step \notin {"none", "admit"} THEN {op[p].kind} ELSE {})
    \cup (IF p \in resuming THEN {"resume"} ELSE {})

\* One lease for executions, applies, discards and resumes: as long as none runs out
\* early, at most one of them touches the task, in all instances together.
OperationsExclusive ==
  lapses = 0 =>
    \A p, q \in Process : \A u \in Uses(p), v \in Uses(q) : p = q /\ u = v
=============================================================================
