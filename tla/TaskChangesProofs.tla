--------------------------- MODULE TaskChangesProofs ---------------------------
(* Proofs about TaskChanges, for any set of instances, any files and any bounds. *)
EXTENDS TaskChanges, TLAPS

\* A content that is the user's is one the snapshot was copied from, or was written
\* while an apply was under way: an apply may replace it.
Safe(f, c) == c[1] = "user" => <<f, c>> \in raced \cup taken

\* The same after a step.
SafeNext(f, c) == c[1] = "user" => <<f, c>> \in raced' \cup taken'

OwedUsers == \A o \in owed : o[2][1] = "user"

\* Only an apply has backups.
Clean == \A p \in Process : ~Applying(p) => op[p].backup = {}

\* The copies and the backups hold nothing of the user's that may not be replaced.
CopiesSafe ==
  /\ \A c \in rollback : Safe(c[1], c[2])
  /\ \A f \in File : Safe(f, snapshot[f]) /\ Safe(f, baseline[f])
  /\ \A p \in Process : Applying(p) => \A f \in File : Safe(f, op[p].base[f])

\* What an apply is about to write over, and what it would put back.
TargetsSafe ==
  \A p \in Process : Applying(p) =>
    /\ \A f \in op[p].todo : Safe(f, source[f])
    /\ \A b \in op[p].backup : Safe(b[1], source[b[1]]) /\ Safe(b[1], b[2])

IInv == TypeOK /\ OwedUsers /\ Clean /\ CopiesSafe /\ TargetsSafe /\ EditsKept

\* While no lease has run out early, whoever touches the task has its lease.
Held ==
  /\ \A p \in Process : op[p].step # "none" => op[p].kind \in {"apply", "discard"}
  /\ lapses = 0 => \A p \in Process : \A u \in Uses(p) : Holds(p, u)

-----------------------------------------------------------------------------
\* Init establishes the invariants.
LEMMA InvInit == ASSUME Init PROVE IInv /\ Held
<1>1. Absent \in Content /\ Edited(0) \in Content /\ NoFiles \in [File -> Content]
  BY BoundsAssumption DEF Content, NoFiles
<1>2. TypeOK
  <2>1. op \in [Process -> OpState]
    BY <1>1 DEF Init, NoOp, OpState, Outcome
  <2>2. /\ source \in [File -> Content] /\ snapshot \in [File -> Content]
        /\ baseline \in [File -> Content] /\ owed \subseteq Version
        /\ rollback \subseteq Version /\ removed \subseteq Version
    BY <1>1 DEF Init, Version
  <2>3. unread \in BOOLEAN /\ unsaved \in BOOLEAN
    BY DEF Init
  <2>4. lease \in [by : Process \cup {None}, use : {"none", "run", "apply", "discard", "resume"}]
    BY DEF Init, Free
  <2>5. /\ edits \in 0..MaxEdits /\ faults \in 0..MaxFaults
        /\ crashes \in 0..MaxCrashes /\ lapses \in 0..MaxLapses
        /\ run \in 1..MaxRuns /\ mine \in [Process -> 0..MaxRuns]
    BY BoundsAssumption DEF Init
  <2> QED
    BY <2>1, <2>2, <2>3, <2>4, <2>5 DEF Init, TypeOK, Outcome
<1>3. OwedUsers /\ EditsKept
  BY DEF Init, OwedUsers, EditsKept, Edited
<1>4. Clean /\ CopiesSafe /\ TargetsSafe
  BY DEF Init, Clean, CopiesSafe, TargetsSafe, Applying, NoOp, NoFiles, Absent, Safe
<1>5. Held
  BY DEF Init, Held, Uses, NoOp
<1> QED
  BY <1>2, <1>3, <1>4, <1>5 DEF IInv

\* The contents there are, and the operation that is none, are well typed.
LEMMA Contents ==
  /\ Absent \in Content /\ NoFiles \in [File -> Content]
  /\ \A r \in 0..MaxRuns : Wrote(r) \in Content
  /\ \A n \in 0..MaxEdits : Edited(n) \in Content
  /\ NoOp \in OpState
<1>1. Absent \in Content /\ NoFiles \in [File -> Content]
  BY DEF Content, NoFiles
<1>2. NoOp \in OpState
  BY <1>1 DEF NoOp, OpState, Outcome
<1> QED
  BY <1>1, <1>2 DEF Content

\* What an execution does keeps the types.
LEMMA ExecutionTypes ==
  ASSUME TypeOK, NEW p \in Process, Execution(p)
  PROVE  TypeOK'
<1> USE BoundsAssumption, Contents
    DEF TypeOK, store, disk, local, past, bounds, Outcome, Acquire, Release, Free, Ends
<1>1. unread' \in BOOLEAN /\ unsaved' \in BOOLEAN
  <2>1. CASE Admit(p)
    BY <2>1 DEF Admit
  <2>2. CASE Finish(p)
    BY <2>2 DEF Finish
  <2>3. CASE Succeed(p) \/ Cancel(p) \/ Leave(p) \/ CleanUp(p) \/ SetReference(p) \/ TurnFails(p)
    BY <2>3 DEF Succeed, Cancel, Leave, CleanUp, SetReference, TurnFails
  <2>4. CASE Prepare(p) \/ CopyEnds(p) \/ \E f \in File : Work(p, f)
    BY <2>4 DEF Prepare, CopyEnds, Work
  <2> QED
    BY <2>1, <2>2, <2>3, <2>4 DEF Execution
<1>2. CASE Admit(p)
  BY <1>1, <1>2 DEF Admit
<1>3. CASE Prepare(p)
  BY <1>1, <1>3 DEF Prepare, RemoveRollback
<1>4. CASE CopyEnds(p)
  BY <1>1, <1>4 DEF CopyEnds, Fault, Version
<1>5. CASE SetReference(p)
  BY <1>1, <1>5 DEF SetReference, Discarded
<1>6. ASSUME NEW f \in File, Work(p, f) PROVE TypeOK'
  BY <1>1, <1>6 DEF Work
<1>7. CASE Succeed(p) \/ Leave(p) \/ Cancel(p)
  BY <1>1, <1>7 DEF Succeed, Leave, Cancel
<1>8. CASE TurnFails(p) \/ Finish(p) \/ CleanUp(p)
  BY <1>1, <1>8 DEF TurnFails, Finish, CleanUp, Fault, Discarded
<1> QED
  BY <1>2, <1>3, <1>4, <1>5, <1>6, <1>7, <1>8 DEF Execution

\* What an operation does keeps the types.
LEMMA OperationTypes ==
  ASSUME TypeOK, NEW p \in Process, Operation(p)
  PROVE  TypeOK'
<1>0. op \in [Process -> OpState] /\ op[p] \in OpState
  BY DEF TypeOK
<1>1. op' \in [Process -> OpState]
  <2>1. NoOp \in OpState /\ Changed \in SUBSET File
    BY Contents DEF Changed
  <2>2. ASSUME NEW kind \in {"apply", "discard"}, OpRead(p, kind) PROVE op' \in [Process -> OpState]
    <3>1. [NoOp EXCEPT !.kind = kind, !.step = "admit"] \in OpState
      BY <2>1 DEF OpState
    <3> QED
      BY <1>0, <2>2, <3>1 DEF OpRead
  <2>3. CASE OpAdmit(p)
    <3>1. [op[p] EXCEPT !.step = "look"] \in OpState
      BY <1>0 DEF OpState
    <3> QED
      BY <1>0, <2>1, <2>3, <3>1 DEF OpAdmit, Returns
  <2>4. CASE Look(p)
    <3>1. baseline \in [File -> Content]
      BY DEF TypeOK
    <3>2. /\ [op[p] EXCEPT !.step = "backup", !.todo = Changed, !.base = baseline] \in OpState
          /\ [op[p] EXCEPT !.step = "save", !.result = "applied"] \in OpState
          /\ [op[p] EXCEPT !.step = "save", !.result = "conflict"] \in OpState
      BY <1>0, <2>1, <3>1 DEF OpState, Outcome
    <3> QED
      BY <1>0, <2>1, <2>4, <3>2 DEF Look, BeginApply, GoOn, OpReturns, Returns
  <2>5. ASSUME NEW f \in File, Backup(p, f) PROVE op' \in [Process -> OpState]
    <3>1. <<f, source[f]>> \in Version
      BY DEF Version, TypeOK
    <3>2. [op[p] EXCEPT !.step = "write", !.backup = @ \cup {<<f, source[f]>>}] \in OpState
      BY <1>0, <3>1 DEF OpState
    <3> QED
      BY <1>0, <2>5, <3>2 DEF Backup
  <2>6. ASSUME NEW f \in File, Write(p, f) PROVE op' \in [Process -> OpState]
    <3>1. [op[p] EXCEPT !.step = "backup", !.todo = @ \ {f}] \in OpState
      BY <1>0 DEF OpState
    <3> QED
      BY <1>0, <2>6, <3>1 DEF Write
  <2>7. CASE Commit(p) \/ Mark(p)
    <3>1. /\ [op[p] EXCEPT !.step = "mark"] \in OpState
          /\ [op[p] EXCEPT !.step = "save", !.result = "applied", !.backup = {}] \in OpState
      BY <1>0 DEF OpState, Outcome
    <3> QED
      BY <1>0, <2>7, <3>1 DEF Commit, Mark
  <2>8. CASE Rollback(p) \/ OpSave(p)
    BY <1>0, <2>1, <2>8 DEF Rollback, OpSave, OpReturns, Returns
  <2>9. CASE Discard(p)
    <3>1. [op[p] EXCEPT !.step = "save", !.result = "discarded"] \in OpState
      BY <1>0 DEF OpState, Outcome
    <3> QED
      BY <1>0, <2>1, <2>9, <3>1 DEF Discard, GoOn, OpReturns, Returns
  <2>10. CASE ResumeBegin(p) \/ ResumeEnd(p)
    BY <1>0, <2>10 DEF ResumeBegin, ResumeEnd
  <2> QED
    BY <2>2, <2>3, <2>4, <2>5, <2>6, <2>7, <2>8, <2>9, <2>10 DEF Operation
<1>2. /\ op[p].kind \in {"none", "apply", "discard"} /\ op[p].backup \subseteq Version
      /\ op[p].base \in [File -> Content] /\ op[p].result \in Outcome
  BY <1>0 DEF OpState
<1> USE BoundsAssumption, Contents, <1>1, <1>2
    DEF TypeOK, store, disk, local, past, bounds, Acquire, Release, Free, Returns, OpReturns
<1>3. CASE \E kind \in {"apply", "discard"} : OpRead(p, kind)
  BY <1>3 DEF OpRead
<1>4. CASE OpAdmit(p)
  BY <1>4 DEF OpAdmit
<1>5. CASE Look(p)
  <2>1. rollback' \subseteq Version /\ removed' \subseteq Version
    BY <1>5 DEF Look, BeginApply, RemoveRollback
  <2>2. lease' \in [by : Process \cup {None}, use : {"none", "run", "apply", "discard", "resume"}]
    BY <1>5 DEF Look, BeginApply, GoOn
  <2>3. fresh' \subseteq Process
    BY <1>5 DEF Look, BeginApply, GoOn
  <2> QED
    BY <1>5, <2>1, <2>2, <2>3 DEF Look
<1>6. ASSUME NEW f \in File, Backup(p, f) \/ Write(p, f) PROVE TypeOK'
  <2>1. <<f, source[f]>> \in Version
    BY DEF Version
  <2> QED
    BY <1>6, <2>1 DEF Backup, Write
<1>7. CASE Commit(p) \/ Mark(p)
  BY <1>7 DEF Commit, Mark
<1>8. CASE Rollback(p)
  <2>1. \A c \in rollback : c[2] \in Content
    BY DEF Version
  <2>2. source' \in [File -> Content]
    BY <1>8, <2>1 DEF Rollback, Restored
  <2> QED
    BY <1>8, <2>2 DEF Rollback, Fault
<1>9. CASE Discard(p)
  BY <1>9 DEF Discard, GoOn, Discarded
<1>10. CASE OpSave(p)
  <2>1. unsaved' \in BOOLEAN
    BY <1>10 DEF OpSave
  <2> QED
    BY <1>10, <2>1 DEF OpSave, Fault
<1>11. CASE ResumeBegin(p) \/ ResumeEnd(p)
  <2>1. unread' \in BOOLEAN
    BY <1>11 DEF ResumeBegin, ResumeEnd
  <2> QED
    BY <1>11, <2>1 DEF ResumeBegin, ResumeEnd, Fault
<1> QED
  BY <1>3, <1>4, <1>5, <1>6, <1>7, <1>8, <1>9, <1>10, <1>11 DEF Operation

\* Every step keeps the types.
LEMMA TypeStep == ASSUME TypeOK, [Next]_vars PROVE TypeOK'
<1>1. CASE UNCHANGED vars
  BY <1>1 DEF vars, store, disk, local, past, bounds, TypeOK
<1>2. ASSUME NEW p \in Process, Crash(p) PROVE TypeOK'
  <2>1. op[p] \in OpState
    BY DEF TypeOK
  <2>2. op[p].backup \subseteq Version
    BY <2>1 DEF OpState
  <2>3. unsaved' \in BOOLEAN
    BY <1>2 DEF Crash, TypeOK
  <2> QED
    BY <1>2, <2>2, <2>3, Contents, BoundsAssumption DEF Crash, Ends, disk, TypeOK
<1>3. ASSUME NEW f \in File, Edit(f) PROVE TypeOK'
  <2>1. edits + 1 \in 0..MaxEdits
    BY <1>3, BoundsAssumption DEF Edit, TypeOK
  <2>2. <<f, Edited(edits + 1)>> \in Version
    BY <2>1, Contents DEF Version
  <2> QED
    BY <1>3, <2>1, <2>2, Contents DEF Edit, store, local, TypeOK
<1>4. CASE Expire
  BY <1>4, BoundsAssumption DEF Expire, Free, disk, local, past, TypeOK
<1> QED
  BY <1>1, <1>2, <1>3, <1>4, ExecutionTypes, OperationTypes DEF Next

-----------------------------------------------------------------------------
\* An execution touches neither the source nor what the user is owed, and what it puts
\* into the snapshot and its baseline was copied, or is the run's.
LEMMA ExecutionFiles ==
  ASSUME IInv, NEW p \in Process, Execution(p)
  PROVE  (OwedUsers /\ Clean /\ CopiesSafe /\ TargetsSafe /\ EditsKept)'
<1> USE DEF IInv
<1>1. /\ source' = source /\ op' = op /\ owed' = owed /\ raced' = raced
      /\ taken \subseteq taken' /\ rollback' \subseteq rollback
  <2>1. CASE Admit(p) \/ Prepare(p) \/ CopyEnds(p) \/ SetReference(p)
    BY <2>1 DEF Admit, Prepare, RemoveRollback, CopyEnds, SetReference, disk, past
  <2>2. ASSUME NEW f \in File, Work(p, f)
        PROVE  /\ source' = source /\ op' = op /\ owed' = owed /\ raced' = raced
               /\ taken \subseteq taken' /\ rollback' \subseteq rollback
    BY <2>2 DEF Work, local, past
  <2>3. CASE Succeed(p) \/ TurnFails(p) \/ Finish(p) \/ CleanUp(p) \/ Leave(p) \/ Cancel(p)
    BY <2>3 DEF Succeed, TurnFails, Finish, CleanUp, Leave, Cancel, disk, local, past
  <2> QED
    BY <2>1, <2>2, <2>3 DEF Execution
<1>2. \A f, c : Safe(f, c) => SafeNext(f, c)
  BY <1>1 DEF Safe, SafeNext
<1>3. \A f \in File : SafeNext(f, snapshot'[f]) /\ SafeNext(f, baseline'[f])
  <2>1. snapshot \in [File -> Content] /\ baseline \in [File -> Content]
    BY DEF TypeOK
  <2>2. \A f \in File : SafeNext(f, snapshot[f]) /\ SafeNext(f, baseline[f])
    BY <1>2 DEF CopiesSafe
  <2>3. \A f \in File : SafeNext(f, NoFiles[f])
    BY DEF SafeNext, NoFiles, Absent
  <2>4. CASE snapshot' = snapshot /\ baseline' \in {baseline, snapshot}
    BY <2>2, <2>4
  <2>5. CASE Discarded
    BY <2>2, <2>3, <2>5 DEF Discarded
  <2>6. CASE CopyEnds(p)
    <3>1. CASE snapshot' = snapshot /\ baseline' = baseline
      BY <2>2, <3>1
    <3>2. CASE /\ snapshot' = source /\ baseline' = source
               /\ taken' = taken \cup {<<f, source[f]>> : f \in File}
      BY <3>2 DEF SafeNext
    <3> QED
      BY <2>6, <3>1, <3>2 DEF CopyEnds
  <2>7. ASSUME NEW g \in File, Work(p, g)
        PROVE  \A f \in File : SafeNext(f, snapshot'[f]) /\ SafeNext(f, baseline'[f])
    <3>1. SafeNext(g, Wrote(mine[p]))
      BY DEF SafeNext, Wrote
    <3> QED
      BY <2>1, <2>2, <2>7, <3>1 DEF Work
  <2>8. CASE Admit(p) \/ Prepare(p) \/ Succeed(p) \/ TurnFails(p) \/ Finish(p) \/ Leave(p) \/ Cancel(p)
    BY <2>4, <2>8 DEF Admit, Prepare, Succeed, TurnFails, Finish, Leave, Cancel, disk
  <2>9. CASE SetReference(p) \/ CleanUp(p)
    BY <2>4, <2>5, <2>9 DEF SetReference, CleanUp
  <2> QED
    BY <2>6, <2>7, <2>8, <2>9 DEF Execution
<1>4. OwedUsers' /\ Clean' /\ EditsKept'
  BY <1>1 DEF OwedUsers, Clean, EditsKept, Applying
<1>5. CopiesSafe'
  BY <1>1, <1>2, <1>3 DEF CopiesSafe, Applying, Safe, SafeNext
<1>6. TargetsSafe'
  BY <1>1, <1>2 DEF TargetsSafe, Applying, Safe, SafeNext
<1> QED
  BY <1>4, <1>5, <1>6

\* The same for operations: only files that an apply has looked at, and not seen
\* changed since, are replaced, and what it puts back may be replaced again.
LEMMA OperationFiles ==
  ASSUME IInv, NEW p \in Process, Operation(p)
  PROVE  (OwedUsers /\ Clean /\ CopiesSafe /\ TargetsSafe /\ EditsKept)'
<1> USE DEF IInv
<1>0. /\ op \in [Process -> OpState] /\ op[p] \in OpState
      /\ source \in [File -> Content] /\ baseline \in [File -> Content]
      /\ owed \subseteq Version
  BY DEF TypeOK
<1>r. \A c \in rollback' : Safe(c[1], c[2])
  <2>1. \A c \in rollback : Safe(c[1], c[2])
    BY DEF CopiesSafe
  <2>2. ASSUME NEW f \in File, Backup(p, f) PROVE \A c \in rollback' : Safe(c[1], c[2])
    <3>1. rollback' = rollback \cup {<<f, source[f]>>} /\ f \in op[p].todo /\ Applying(p)
      BY <2>2 DEF Backup, IsNext, Applying
    <3>2. Safe(f, source[f])
      BY <3>1 DEF TargetsSafe
    <3> QED
      BY <2>1, <3>1, <3>2
  <2>3. CASE \E f \in File : Write(p, f)
    BY <2>1, <2>3 DEF Write
  <2>4. CASE OpAdmit(p) \/ Look(p) \/ Commit(p) \/ Mark(p) \/ Rollback(p) \/ Discard(p) \/ OpSave(p)
    <3>1. rollback' \subseteq rollback
      BY <2>4 DEF OpAdmit, Look, BeginApply, RemoveRollback, Commit, Mark, Rollback, Discard,
         OpSave, disk
    <3> QED
      BY <2>1, <3>1
  <2>5. CASE ResumeBegin(p) \/ ResumeEnd(p) \/ \E kind \in {"apply", "discard"} : OpRead(p, kind)
    BY <2>1, <2>5 DEF ResumeBegin, ResumeEnd, OpRead, disk
  <2> QED
    BY <2>2, <2>3, <2>4, <2>5 DEF Operation
<1> DEFINE saving(r) == [op[p] EXCEPT !.step = "save", !.result = r]
<1>a. NoOp.step = "none" /\ NoOp.backup = {}
  BY DEF NoOp
<1>b. \A r : saving(r).step = "save" /\ saving(r).backup = op[p].backup
  BY <1>0 DEF OpState
<1> HIDE DEF saving
<1>1. owed' = owed /\ raced' = raced /\ taken' = taken
  <2>1. CASE \E f \in File : Backup(p, f) \/ Write(p, f)
    BY <2>1 DEF Backup, Write, past
  <2>2. CASE OpAdmit(p) \/ Look(p) \/ Commit(p) \/ Mark(p) \/ Rollback(p) \/ Discard(p) \/ OpSave(p)
    BY <2>2 DEF OpAdmit, Look, Commit, Mark, Rollback, Discard, OpSave, past
  <2>3. CASE ResumeBegin(p) \/ ResumeEnd(p) \/ \E kind \in {"apply", "discard"} : OpRead(p, kind)
    BY <2>3 DEF ResumeBegin, ResumeEnd, OpRead, past
  <2> QED
    BY <2>1, <2>2, <2>3 DEF Operation
<1>2. \A f, c : Safe(f, c)' = Safe(f, c)
  BY <1>1 DEF Safe
<1>3. OwedUsers'
  BY <1>1 DEF OwedUsers
<1>4. \A q \in Process : q # p => op'[q] = op[q] /\ (Applying(q)' <=> Applying(q))
  <2>1. ASSUME NEW q \in Process, q # p PROVE op'[q] = op[q]
    <3>1. CASE \E f \in File : Backup(p, f) \/ Write(p, f)
      BY <1>0, <2>1, <3>1 DEF Backup, Write
    <3>2. CASE OpAdmit(p) \/ OpSave(p) \/ \E kind \in {"apply", "discard"} : OpRead(p, kind)
      BY <1>0, <2>1, <3>2 DEF OpAdmit, OpSave, OpRead, Returns
    <3>3. CASE Look(p) \/ Discard(p)
      BY <1>0, <2>1, <3>3 DEF Look, BeginApply, Discard, GoOn, OpReturns, Returns
    <3>4. CASE Commit(p) \/ Mark(p) \/ Rollback(p) \/ ResumeBegin(p) \/ ResumeEnd(p)
      BY <1>0, <2>1, <3>4 DEF Commit, Mark, Rollback, ResumeBegin, ResumeEnd, OpReturns, Returns
    <3> QED
      BY <2>1, <3>1, <3>2, <3>3, <3>4 DEF Operation
  <2> QED
    BY <2>1 DEF Applying
<1>5. \* the apply is over, or has not begun
      ASSUME source' = source, ~Applying(p)', op'[p].backup = {},
             \A f \in File : Safe(f, snapshot'[f]) /\ Safe(f, baseline'[f])
      PROVE  (Clean /\ CopiesSafe /\ TargetsSafe /\ EditsKept)'
  <2>1. Clean'
    BY <1>4, <1>5 DEF Clean
  <2>2. CopiesSafe'
    BY <1>2, <1>4, <1>5, <1>r DEF CopiesSafe
  <2>3. TargetsSafe'
    BY <1>2, <1>4, <1>5 DEF TargetsSafe
  <2>4. EditsKept'
    BY <1>1, <1>5 DEF EditsKept
  <2> QED
    BY <2>1, <2>2, <2>3, <2>4
<1>6. \A f \in File : Safe(f, snapshot[f]) /\ Safe(f, baseline[f]) /\ Safe(f, NoFiles[f])
  BY DEF CopiesSafe, Safe, NoFiles, Absent
<1>7. ASSUME NEW kind \in {"apply", "discard"}, OpRead(p, kind)
      PROVE  (Clean /\ CopiesSafe /\ TargetsSafe /\ EditsKept)'
  BY <1>0, <1>5, <1>6, <1>7 DEF OpRead, NoOp, Applying, disk
<1>8. CASE OpAdmit(p)
  <2>1. op'[p].backup = {} /\ ~Applying(p)'
    <3>1. op[p].backup = {}
      BY <1>8 DEF OpAdmit, Clean, Applying
    <3>2. op'[p] = NoOp \/ op'[p] = [op[p] EXCEPT !.step = "look"]
      BY <1>0, <1>8 DEF OpAdmit, Returns
    <3> QED
      BY <1>0, <3>1, <3>2 DEF NoOp, Applying, OpState
  <2> QED
    BY <1>3, <1>5, <1>6, <1>8, <2>1 DEF OpAdmit, disk
<1>9. CASE Look(p)
  <2>1. op[p].backup = {}
    BY <1>9 DEF Look, Clean, Applying
  <2>2. CASE op'[p].step # "backup"
    <3>1. op'[p].backup = {} /\ ~Applying(p)'
      <4>1. \/ op'[p] = NoOp
            \/ \E r \in Outcome : op'[p] = saving(r)
        <5>1. op'[p] # [op[p] EXCEPT !.step = "backup", !.todo = Changed, !.base = baseline]
          BY <1>0, <2>2 DEF OpState
        <5> QED
          BY <1>0, <1>9, <5>1 DEF Look, BeginApply, GoOn, OpReturns, Returns, Outcome, saving
      <4> QED
        BY <1>a, <1>b, <2>1, <4>1 DEF Applying
    <3> QED
      BY <1>3, <1>5, <1>6, <1>9, <3>1 DEF Look, disk
  <2>3. CASE op'[p].step = "backup"
    <3>1. /\ Conflicts = {}
          /\ op'[p].todo = Changed /\ op'[p].backup = {} /\ op'[p].base = baseline
          /\ source' = source /\ snapshot' = snapshot /\ baseline' = baseline
      <4>1. op'[p] # NoOp /\ \A r : op'[p] # saving(r)
        BY <1>a, <1>b, <2>3
      <4>2. /\ Conflicts = {}
            /\ op'[p] = [op[p] EXCEPT !.step = "backup", !.todo = Changed, !.base = baseline]
        BY <1>0, <1>9, <4>1 DEF Look, BeginApply, GoOn, OpReturns, Returns, saving
      <4> QED
        BY <1>0, <1>9, <2>1, <4>2 DEF Look, OpState, disk
    <3>2. \A f \in Changed : f \in File /\ source[f] = baseline[f]
      BY <3>1 DEF Conflicts, Changed
    <3>3. Clean'
      BY <1>4, <3>1 DEF Clean
    <3>4. CopiesSafe'
      BY <1>2, <1>4, <1>6, <1>r, <3>1 DEF CopiesSafe
    <3>5. TargetsSafe'
      BY <1>2, <1>4, <1>6, <3>1, <3>2 DEF TargetsSafe
    <3>6. EditsKept'
      BY <1>1, <3>1 DEF EditsKept
    <3> QED
      BY <1>3, <3>3, <3>4, <3>5, <3>6
  <2> QED
    BY <2>2, <2>3
<1>10. ASSUME NEW f \in File, Backup(p, f)
       PROVE  (Clean /\ CopiesSafe /\ TargetsSafe /\ EditsKept)'
  <2>1. /\ Applying(p) /\ Applying(p)'
        /\ op'[p].todo = op[p].todo /\ op'[p].base = op[p].base
        /\ op'[p].backup = op[p].backup \cup {<<f, source[f]>>} /\ f \in op[p].todo
        /\ source' = source /\ snapshot' = snapshot /\ baseline' = baseline
    BY <1>0, <1>10 DEF Backup, IsNext, Applying, OpState
  <2>2. Safe(f, source[f])
    BY <2>1 DEF TargetsSafe
  <2>3. TargetsSafe'
    <3>1. ASSUME NEW q \in Process, Applying(q)'
          PROVE  (/\ \A g \in op[q].todo : Safe(g, source[g])
                  /\ \A b \in op[q].backup : Safe(b[1], source[b[1]]) /\ Safe(b[1], b[2]))'
      <4>1. CASE q = p
        BY <1>2, <2>1, <2>2, <4>1 DEF TargetsSafe
      <4>2. CASE q # p
        BY <1>2, <1>4, <2>1, <3>1, <4>2 DEF TargetsSafe
      <4> QED
        BY <4>1, <4>2
    <3> QED
      BY <3>1 DEF TargetsSafe
  <2> QED
    BY <1>1, <1>2, <1>4, <1>r, <2>1, <2>3 DEF Clean, CopiesSafe, EditsKept
<1>11. \* files that may be replaced get contents that may be replaced
       ASSUME source' \in [File -> Content], snapshot' = snapshot, baseline' = baseline,
              \A f \in File : source'[f] # source[f] => Safe(f, source[f]) /\ Safe(f, source'[f]),
              Applying(p)' => Applying(p) /\ op'[p].todo \subseteq op[p].todo
                              /\ op'[p].backup = op[p].backup /\ op'[p].base = op[p].base,
              ~Applying(p)' => op'[p].backup = {}
       PROVE  (Clean /\ CopiesSafe /\ TargetsSafe /\ EditsKept)'
  <2>1. Clean'
    BY <1>4, <1>11 DEF Clean
  <2>2. CopiesSafe'
    BY <1>2, <1>4, <1>6, <1>11, <1>r DEF CopiesSafe
  <2>3. \A f \in File : Safe(f, source[f]) => Safe(f, source'[f])
    BY <1>11
  <2>4. ASSUME NEW q \in Process, Applying(q)'
        PROVE  (/\ \A g \in op[q].todo : Safe(g, source[g])
                /\ \A b \in op[q].backup : Safe(b[1], source[b[1]]) /\ Safe(b[1], b[2]))'
    <3>1. /\ Applying(q) /\ op'[q].todo \subseteq op[q].todo /\ op'[q].backup = op[q].backup
      BY <1>4, <1>11, <2>4
    <3>2. op[q].todo \subseteq File /\ op[q].backup \subseteq Version
      BY <1>0 DEF OpState
    <3>3. \A b \in op[q].backup : b[1] \in File
      BY <3>2 DEF Version
    <3> QED
      BY <1>2, <2>3, <3>1, <3>2, <3>3 DEF TargetsSafe
  <2>5. ASSUME NEW o \in owed, source'[o[1]] # o[2] PROVE o \in raced \cup taken
    <3>1. o[1] \in File /\ o = <<o[1], o[2]>> /\ o[2][1] = "user"
      BY <1>0 DEF Version, OwedUsers
    <3>2. CASE source[o[1]] = o[2]
      BY <1>11, <2>5, <3>1, <3>2 DEF Safe
    <3> QED
      BY <3>2 DEF EditsKept
  <2>6. EditsKept'
    BY <1>1, <2>5 DEF EditsKept
  <2> QED
    BY <2>1, <2>2, <2>4, <2>6 DEF TargetsSafe
<1>12. ASSUME NEW f \in File, Write(p, f)
       PROVE  (Clean /\ CopiesSafe /\ TargetsSafe /\ EditsKept)'
  <2>1. Safe(f, source[f]) /\ Safe(f, snapshot[f]) /\ snapshot[f] \in Content
    BY <1>6, <1>12 DEF Write, IsNext, Applying, TargetsSafe, TypeOK
  <2>2. source' = [source EXCEPT ![f] = snapshot[f]]
    BY <1>12 DEF Write
  <2>3. /\ Applying(p) /\ Applying(p)'
        /\ op'[p].todo \subseteq op[p].todo /\ op'[p].base = op[p].base
        /\ op'[p].backup = op[p].backup /\ snapshot' = snapshot /\ baseline' = baseline
    BY <1>0, <1>12 DEF Write, Applying, OpState
  <2> QED
    BY <1>0, <1>11, <2>1, <2>2, <2>3
<1>13. CASE Commit(p)
  <2>1. /\ Applying(p) /\ Applying(p)'
        /\ op'[p].todo = op[p].todo /\ op'[p].base = op[p].base
        /\ op'[p].backup = op[p].backup
        /\ source' = source /\ snapshot' = snapshot /\ baseline' = baseline
    BY <1>0, <1>13 DEF Commit, Applying, OpState
  <2> QED
    BY <1>3, <1>0, <1>11, <2>1
<1>14. CASE Mark(p)
  <2>1. /\ ~Applying(p)' /\ op'[p].backup = {}
        /\ Applying(p) /\ source' = source /\ snapshot' = snapshot /\ baseline' = op[p].base
    BY <1>0, <1>14 DEF Mark, Applying, OpState
  <2> QED
    BY <1>3, <1>5, <1>6, <2>1 DEF CopiesSafe
<1>15. CASE Rollback(p)
  <2>1. op[p].backup \subseteq Version /\ Applying(p)
    BY <1>0, <1>15 DEF OpState, Rollback
  <2>2. \A c \in rollback : c[1] \in File /\ c[2] \in Content
    BY DEF TypeOK, Version
  <2>3. ASSUME NEW f \in File, source'[f] # source[f]
        PROVE  Safe(f, source[f]) /\ Safe(f, source'[f])
    <3>1. /\ \E b \in op[p].backup : b[1] = f
          /\ \E c \in rollback : c[1] = f /\ source'[f] = c[2]
      BY <1>15, <2>3 DEF Rollback, Restored
    <3> QED
      BY <2>1, <3>1 DEF TargetsSafe, CopiesSafe
  <2>4. source' \in [File -> Content]
    BY <1>0, <1>15, <2>2 DEF Rollback, Restored
  <2>5. /\ ~Applying(p)' /\ op'[p].backup = {}
        /\ snapshot' = snapshot /\ baseline' = baseline
    BY <1>0, <1>15 DEF Rollback, OpReturns, Returns, NoOp, Applying
  <2> QED
    BY <1>3, <1>11, <2>3, <2>4, <2>5
<1>16. CASE Discard(p)
  <2>1. op'[p].backup = {} /\ ~Applying(p)'
    <3>1. op[p].backup = {}
      BY <1>16 DEF Discard, Clean, Applying
    <3>2. op'[p] = NoOp \/ op'[p] = saving("discarded")
      BY <1>0, <1>16 DEF Discard, GoOn, OpReturns, Returns, saving
    <3> QED
      BY <1>a, <1>b, <3>1, <3>2 DEF Applying
  <2> QED
    BY <1>3, <1>5, <1>6, <1>16, <2>1 DEF Discard, Discarded
<1>17. CASE OpSave(p)
  <2>1. op'[p].backup = {} /\ ~Applying(p)'
    BY <1>0, <1>17 DEF OpSave, Returns, NoOp, Applying
  <2> QED
    BY <1>3, <1>5, <1>6, <1>17, <2>1 DEF OpSave, disk
<1>18. CASE ResumeBegin(p) \/ ResumeEnd(p)
  BY <1>3, <1>1, <1>18 DEF ResumeBegin, ResumeEnd, disk, Clean, CopiesSafe, TargetsSafe, EditsKept,
     Applying, Safe
<1> QED
  BY <1>3, <1>7, <1>8, <1>9, <1>10, <1>12, <1>13, <1>14, <1>15, <1>16, <1>17, <1>18 DEF Operation

\* Every step keeps what is safe to replace apart from what is not.
LEMMA FilesStep == ASSUME IInv, [Next]_vars PROVE IInv'
<1>1. TypeOK'
  BY TypeStep DEF IInv
<1>2. CASE UNCHANGED vars
  BY <1>1, <1>2 DEF IInv, vars, disk, local, past, OwedUsers, Clean, CopiesSafe, TargetsSafe,
     EditsKept, Applying, Safe
<1>3. ASSUME NEW f \in File, Edit(f) PROVE IInv'
  <2> DEFINE c == Edited(edits + 1)
  <2>1. /\ op' = op /\ snapshot' = snapshot /\ baseline' = baseline /\ taken' = taken
        /\ source' = [source EXCEPT ![f] = c] /\ raced \subseteq raced' /\ rollback' = rollback
        /\ owed' = (owed \ {<<f, source[f]>>}) \cup {<<f, c>>}
    BY <1>3 DEF Edit, local
  <2>2. \A g, d : Safe(g, d) => SafeNext(g, d)
    BY <2>1 DEF Safe, SafeNext
  <2>3. (\E p \in Process : Applying(p)) => SafeNext(f, c)
    BY <1>3 DEF Edit, SafeNext
  <2>4. source \in [File -> Content] /\ owed \subseteq Version
    BY DEF IInv, TypeOK
  <2>5. OwedUsers'
    BY <2>1 DEF IInv, OwedUsers, Edited
  <2>6. Clean' /\ CopiesSafe'
    BY <2>1, <2>2 DEF IInv, Clean, CopiesSafe, Applying, Safe, SafeNext
  <2>7. ASSUME NEW p \in Process, Applying(p)
        PROVE  /\ \A g \in op[p].todo : SafeNext(g, source'[g])
               /\ \A b \in op[p].backup : SafeNext(b[1], source'[b[1]]) /\ SafeNext(b[1], b[2])
    <3>1. op[p].todo \subseteq File /\ op[p].backup \subseteq Version
      BY DEF IInv, TypeOK, OpState
    <3>2. \A b \in op[p].backup : b[1] \in File
      BY <3>1 DEF Version
    <3>3. \A g \in File : Safe(g, source[g]) => SafeNext(g, source'[g])
      BY <2>1, <2>2, <2>3, <2>4, <2>7
    <3> QED
      BY <2>2, <2>7, <3>1, <3>2, <3>3 DEF IInv, TargetsSafe
  <2>8. TargetsSafe'
    BY <2>1, <2>7 DEF TargetsSafe, Applying, Safe, SafeNext
  <2>9. ASSUME NEW o \in owed', source'[o[1]] # o[2] PROVE o \in raced' \cup taken'
    <3>1. c \in Content
      <4>1. edits + 1 \in 0..MaxEdits
        BY <1>3, BoundsAssumption DEF Edit, IInv, TypeOK
      <4> QED
        BY <4>1, Contents
    <3>2. o # <<f, c>>
      BY <2>1, <2>4, <2>9
    <3>3. o \in owed /\ o # <<f, source[f]>>
      BY <2>1, <3>2
    <3>4. o = <<o[1], o[2]>> /\ o[1] \in File
      BY <2>4, <3>3 DEF Version
    <3>5. source[o[1]] # o[2]
      BY <2>1, <2>4, <2>9, <3>3, <3>4
    <3> QED
      BY <2>1, <3>3, <3>5 DEF IInv, EditsKept
  <2>10. EditsKept'
    BY <2>9 DEF EditsKept
  <2> QED
    BY <1>1, <2>5, <2>6, <2>8, <2>10 DEF IInv
<1>4. CASE Expire
  BY <1>1, <1>4 DEF Expire, IInv, disk, local, past, OwedUsers, Clean, CopiesSafe, TargetsSafe,
     EditsKept, Applying, Safe
<1>5. ASSUME NEW p \in Process, Crash(p) PROVE IInv'
  <2>1. /\ source' = source /\ snapshot' = snapshot /\ baseline' = baseline /\ owed' = owed
        /\ raced' = raced /\ taken' = taken /\ rollback' = rollback
    BY <1>5 DEF Crash, disk
  <2>2. \A q \in Process : op'[q] = NoOp \/ op'[q] = op[q]
    BY <1>5 DEF Crash, IInv, TypeOK
  <2>3. NoOp.step = "none" /\ NoOp.backup = {}
    BY DEF NoOp
  <2>4. \A q \in Process : Applying(q)' => op'[q] = op[q] /\ Applying(q)
    BY <2>2, <2>3 DEF Applying
  <2>5. OwedUsers' /\ EditsKept'
    BY <2>1 DEF IInv, OwedUsers, EditsKept
  <2>6. Clean'
    BY <2>2, <2>3 DEF IInv, Clean, Applying
  <2>7. CopiesSafe'
    BY <2>1, <2>4 DEF IInv, CopiesSafe, Safe
  <2>8. TargetsSafe'
    BY <2>1, <2>4 DEF IInv, TargetsSafe, Safe
  <2> QED
    BY <1>1, <2>5, <2>6, <2>7, <2>8 DEF IInv
<1> QED
  BY <1>1, <1>2, <1>3, <1>4, <1>5, ExecutionFiles, OperationFiles DEF Next, IInv

\* Every variable stays in its range, for any instances, files and bounds.
THEOREM TypeCorrect == Spec => []TypeOK
<1>1. Init => IInv
  BY InvInit
<1>2. IInv /\ [Next]_vars => IInv'
  BY FilesStep
<1>3. IInv => TypeOK
  BY DEF IInv
<1> QED
  BY <1>1, <1>2, <1>3, PTL DEF Spec

\* Manager.Apply: what the user wrote after the copy was made is overwritten only if it
\* was written while an apply was under way, for any number of instances, files and runs,
\* with or without leases.
THEOREM UserKept == Spec => []EditsKept
<1>1. Init => IInv
  BY InvInit
<1>2. IInv /\ [Next]_vars => IInv'
  BY FilesStep
<1>3. IInv => EditsKept
  BY DEF IInv
<1> QED
  BY <1>1, <1>2, <1>3, PTL DEF Spec

-----------------------------------------------------------------------------
\* One lease. It is taken when nobody touches the task, for the use that begins, and
\* given back by its holder for the use that ends.
LEMMA HeldStep == ASSUME TypeOK, Held, [Next]_vars PROVE Held'
<1>0. /\ op \in [Process -> OpState] /\ op' \in [Process -> OpState]
      /\ at \in [Process -> {"none", "begin", "copying", "prepared", "work", "failed",
                             "cleanup", "left"}]
      /\ resuming \subseteq Process /\ lapses \in Nat
  BY TypeStep DEF TypeOK
<1>a. NoOp.step = "none" /\ NoOp.kind = "none"
  BY DEF NoOp
<1> DEFINE Kept == \A p \in Process : Uses(p)' \subseteq Uses(p)
           Kinds == \A p \in Process : op'[p].step # "none" => op'[p].kind \in {"apply", "discard"}
<1>1. ASSUME Kept, lease' = lease, lapses' = lapses, Kinds PROVE Held'
  BY <1>1 DEF Held, Holds
<1>2. ASSUME NEW p \in Process, NEW use, Acquire(p, use), lapses' = lapses, Kinds,
             \A q \in Process : Uses(q)' \subseteq Uses(q) \cup (IF q = p THEN {use} ELSE {})
      PROVE  Held'
  <2>1. lapses = 0 => \A q \in Process : Uses(q) = {}
    BY <1>2, NameAssumption DEF Held, Holds, Acquire, Free
  <2>2. lease' = [by |-> p, use |-> use]
    BY <1>2 DEF Acquire
  <2> QED
    BY <1>2, <2>1, <2>2 DEF Held, Holds
<1>3. ASSUME NEW p \in Process, NEW use, Release(p, use), lapses' = lapses, Kinds, Kept,
             use \notin Uses(p)'
      PROVE  Held'
  <2>1. ASSUME lapses = 0, NEW q \in Process, NEW v \in Uses(q)' PROVE lease' = [by |-> q, use |-> v]
    <3>1. lease = [by |-> q, use |-> v]
      BY <1>3, <2>1 DEF Held, Holds
    <3>2. ~(q = p /\ v = use)
      BY <1>3, <2>1
    <3>3. ~Holds(p, use)
      BY <3>1, <3>2 DEF Holds
    <3> QED
      BY <1>3, <3>1, <3>3 DEF Release
  <2> QED
    BY <1>3, <2>1 DEF Held, Holds
<1>4. CASE UNCHANGED vars
  BY <1>1, <1>4 DEF vars, store, local, bounds, Uses, Held
<1>5. ASSUME NEW p \in Process, Execution(p) PROVE Held'
  <2>1. CASE Admit(p)
    <3>1. /\ Acquire(p, "run") /\ op' = op /\ resuming' = resuming /\ lapses' = lapses
          /\ \A q \in Process : q # p => at'[q] = at[q]
      BY <1>0, <2>1 DEF Admit, bounds
    <3> QED
      BY <1>2, <3>1 DEF Uses, Held
  <2>2. CASE Prepare(p) \/ CopyEnds(p) \/ SetReference(p) \/ TurnFails(p) \/ Finish(p) \/ CleanUp(p)
             \/ Cancel(p) \/ (\E f \in File : Work(p, f))
    <3>1. /\ lease' = lease /\ op' = op /\ resuming' = resuming /\ lapses' = lapses
          /\ \A q \in Process : at'[q] # "none" => at[q] # "none"
      BY <1>0, <2>2 DEF Prepare, CopyEnds, SetReference, TurnFails, Finish, CleanUp, Cancel, Work,
         store, local, bounds
    <3> QED
      BY <1>1, <3>1 DEF Uses, Held
  <2>3. CASE Succeed(p) \/ Leave(p)
    <3>1. /\ Release(p, "run") /\ op' = op /\ resuming' = resuming /\ lapses' = lapses
          /\ at' = [at EXCEPT ![p] = "none"]
      BY <2>3 DEF Succeed, Leave, Ends, bounds
    <3>2. "run" \notin Uses(p)'
      BY <1>0, <3>1 DEF Uses, Held
    <3>3. Kept
      BY <1>0, <3>1 DEF Uses
    <3> QED
      BY <1>3, <3>1, <3>2, <3>3 DEF Held
  <2> QED
    BY <1>5, <2>1, <2>2, <2>3 DEF Execution
<1>6. ASSUME NEW p \in Process, Operation(p) PROVE Held'
  <2>0. op[p] \in OpState /\ \A q \in Process : q # p => op'[q] = op[q]
    <3>1. op[p] \in OpState
      BY <1>0
    <3>2. CASE \E f \in File : Backup(p, f) \/ Write(p, f)
      BY <1>0, <3>1, <3>2 DEF Backup, Write
    <3>3. CASE OpAdmit(p) \/ OpSave(p) \/ \E kind \in {"apply", "discard"} : OpRead(p, kind)
      BY <1>0, <3>1, <3>3 DEF OpAdmit, OpSave, OpRead, Returns
    <3>4. CASE Look(p) \/ Discard(p)
      BY <1>0, <3>1, <3>4 DEF Look, BeginApply, Discard, GoOn, OpReturns, Returns
    <3>5. CASE Commit(p) \/ Mark(p) \/ Rollback(p) \/ ResumeBegin(p) \/ ResumeEnd(p)
      BY <1>0, <3>1, <3>5 DEF Commit, Mark, Rollback, ResumeBegin, ResumeEnd, OpReturns, Returns
    <3> QED
      BY <1>6, <3>2, <3>3, <3>4, <3>5 DEF Operation
  <2>1. \* the step of an operation under way
        ASSUME at' = at, resuming' = resuming, lapses' = lapses, lease' = lease,
               op'[p].kind = op[p].kind, op[p].step \notin {"none", "admit"}
        PROVE  Held'
    <3>1. Kept
      BY <2>0, <2>1 DEF Uses
    <3>2. Kinds
      BY <2>0, <2>1 DEF Held
    <3> QED
      BY <1>1, <2>1, <3>1, <3>2
  <2>2. \* its return
        ASSUME at' = at, resuming' = resuming, lapses' = lapses, Release(p, op[p].kind),
               op'[p] = NoOp, op[p].step # "none"
        PROVE  Held'
    <3>1. Kept /\ Kinds
      BY <1>a, <2>0, <2>2 DEF Uses, Held
    <3>2. op[p].kind \notin Uses(p)'
      BY <1>a, <2>2 DEF Uses, Held
    <3> QED
      BY <1>3, <2>2, <3>1, <3>2
  <2>3. ASSUME NEW kind \in {"apply", "discard"}, OpRead(p, kind) PROVE Held'
    <3>1. /\ at' = at /\ resuming' = resuming /\ lapses' = lapses /\ lease' = lease
          /\ op'[p].kind = kind /\ op'[p].step = "admit"
      BY <1>0, <2>3 DEF OpRead, NoOp, bounds
    <3>2. Kept /\ Kinds
      BY <2>0, <3>1 DEF Uses, Held
    <3> QED
      BY <1>1, <3>1, <3>2
  <2>4. CASE OpAdmit(p)
    <3>0. at' = at /\ resuming' = resuming /\ lapses' = lapses /\ op[p].step = "admit"
      BY <2>4 DEF OpAdmit, bounds
    <3>1. CASE op'[p] = NoOp /\ lease' = lease
      <4>1. Kept /\ Kinds
        BY <1>a, <2>0, <3>0, <3>1 DEF Uses, Held
      <4> QED
        BY <1>1, <3>0, <3>1, <4>1
    <3>2. CASE /\ Acquire(p, op[p].kind)
               /\ op'[p] = NoOp \/ op'[p] = [op[p] EXCEPT !.step = "look"]
      <4>1. op'[p] = NoOp \/ (op'[p].kind = op[p].kind /\ op'[p].step = "look")
        BY <2>0, <3>2 DEF OpState
      <4>2. Kinds
        BY <1>a, <2>0, <3>0, <4>1 DEF Held
      <4>3. \A q \in Process :
              Uses(q)' \subseteq Uses(q) \cup (IF q = p THEN {op[p].kind} ELSE {})
        BY <1>a, <2>0, <3>0, <4>1 DEF Uses
      <4> QED
        BY <1>2, <3>0, <3>2, <4>2, <4>3
    <3>3. op'[p] = NoOp \/ op'[p] = [op[p] EXCEPT !.step = "look"]
      BY <1>0, <2>4 DEF OpAdmit, Returns
    <3>4. Acquire(p, op[p].kind) \/ (lease' = lease /\ op'[p] = NoOp)
      BY <1>0, <2>4 DEF OpAdmit, Returns
    <3> QED
      BY <3>1, <3>2, <3>3, <3>4
  <2>5. CASE Look(p) \/ Discard(p)
    <3>0. at' = at /\ resuming' = resuming /\ lapses' = lapses /\ op[p].step = "look"
      BY <2>5 DEF Look, Discard, bounds
    <3>1. CASE OpReturns(p)
      BY <1>0, <2>2, <3>0, <3>1 DEF OpReturns, Returns
    <3>2. CASE /\ lease' = lease
               /\ \/ \E r : op' = [op EXCEPT ![p].step = "save", ![p].result = r]
                  \/ op' = [op EXCEPT ![p].step = "backup", ![p].todo = Changed, ![p].base = baseline]
      <4>1. op'[p].kind = op[p].kind
        BY <1>0, <2>0, <3>2 DEF OpState
      <4> QED
        BY <2>1, <3>0, <3>2, <4>1
    <3> QED
      BY <2>5, <3>1, <3>2 DEF Look, BeginApply, Discard, GoOn
  <2>6. CASE Commit(p) \/ Mark(p) \/ \E f \in File : Backup(p, f) \/ Write(p, f)
    <3>1. op[p].step \notin {"none", "admit"} /\ op'[p].kind = op[p].kind
      BY <1>0, <2>0, <2>6 DEF Commit, Mark, Backup, Write, OpState
    <3>2. at' = at /\ resuming' = resuming /\ lapses' = lapses /\ lease' = lease
      BY <2>6 DEF Commit, Mark, Backup, Write, store, bounds
    <3> QED
      BY <2>1, <3>1, <3>2
  <2>7. CASE Rollback(p) \/ OpSave(p)
    <3>1. /\ at' = at /\ resuming' = resuming /\ lapses' = lapses /\ Release(p, op[p].kind)
          /\ op' = [op EXCEPT ![p] = NoOp] /\ op[p].step # "none"
      BY <2>7 DEF Rollback, OpSave, OpReturns, Returns, Applying
    <3> QED
      BY <1>0, <2>2, <3>1
  <2>8. CASE ResumeBegin(p)
    <3>1. /\ Acquire(p, "resume") /\ at' = at /\ op' = op /\ lapses' = lapses
          /\ resuming' = resuming \cup {p}
      BY <2>8 DEF ResumeBegin, bounds
    <3> QED
      BY <1>2, <3>1 DEF Uses, Held
  <2>9. CASE ResumeEnd(p)
    <3>1. /\ Release(p, "resume") /\ at' = at /\ op' = op /\ lapses' = lapses
          /\ resuming' = resuming \ {p}
      BY <2>9 DEF ResumeEnd
    <3>2. Kept /\ Kinds /\ "resume" \notin Uses(p)'
      BY <3>1 DEF Uses, Held
    <3> QED
      BY <1>3, <3>1, <3>2
  <2> QED
    BY <1>6, <2>3, <2>4, <2>5, <2>6, <2>7, <2>8, <2>9 DEF Operation
<1>7. ASSUME NEW p \in Process, Crash(p) PROVE Held'
  <2>1. /\ lease' = lease /\ lapses' = lapses
        /\ \A q \in Process : /\ at'[q] # "none" => at[q] # "none"
                              /\ op'[q] = op[q] \/ op'[q].step = "none"
                              /\ q \in resuming' => q \in resuming
    BY <1>0, <1>7, <1>a DEF Crash, Ends
  <2> QED
    BY <1>1, <2>1 DEF Uses, Held
<1>8. ASSUME NEW f \in File, Edit(f) PROVE Held'
  BY <1>1, <1>8 DEF Edit, store, local, Uses, Held
<1>9. CASE Expire
  <2>1. /\ at' = at /\ op' = op /\ resuming' = resuming
        /\ lapses' = lapses + 1 \/ \A p \in Process : ~AtWork(p)
      BY <1>9 DEF Expire, local
  <2>2. CASE lapses' = lapses + 1
    BY <1>0, <2>1, <2>2 DEF Held
  <2>3. CASE \A p \in Process : ~AtWork(p)
    <3>1. lapses = 0 => \A p \in Process : Uses(p) = {}
      BY <2>3 DEF Held, Uses, AtWork
    <3>2. lapses' = 0 => lapses = 0
      BY <1>0, <1>9 DEF Expire
    <3> QED
      BY <2>1, <3>1, <3>2 DEF Held, Uses
  <2> QED
    BY <2>1, <2>2, <2>3
<1> QED
  BY <1>4, <1>5, <1>6, <1>7, <1>8, <1>9 DEF Next

\* task_service.go, task_persistence.go: executions, applies, discards and resumes of one
\* task exclude each other, in all instances together, while no lease runs out early.
THEOREM Exclusive == Spec => []OperationsExclusive
<1>1. Init => IInv /\ Held
  BY InvInit
<1>2. IInv /\ Held /\ [Next]_vars => (IInv /\ Held)'
  BY FilesStep, HeldStep DEF IInv
<1>3. Held => OperationsExclusive
  BY DEF Held, Holds, OperationsExclusive
<1> QED
  BY <1>1, <1>2, <1>3, PTL DEF Spec
-----------------------------------------------------------------------------
(* Proofs about the applies of TaskChanges: what can be had back, what is left of
   an apply that fails, and that the task's record follows the manifest. They hold
   while no lease runs out early, and rest on the exclusion of operations. *)

\* A file is as before the run, or as the user has it.
Before(f) == source[f] = baseline[f] \/ Users(f)

\* A file is as the run left it, or as the user has it.
After(f) == source[f] = snapshot[f] \/ Users(f)

\* A backup of the file has been made.
HasBackup(p, f) == \E b \in op[p].backup : b[1] = f

\* What an apply has done: the files it has not reached are as before, but for what the
\* user writes meanwhile; the ones it has reached are backed up, once each, and replaced.
OnTrack(p) ==
  /\ manifest = "pending" /\ op[p].base = baseline /\ op[p].todo \subseteq Changed
  /\ \A f \in op[p].todo : source[f] = baseline[f] \/ <<f, source[f]>> \in raced
  /\ \A f \in Changed \ op[p].todo : After(f)
  /\ crashes = 0 => \A f \in File : HasBackup(p, f) \/ Before(f)
  /\ op[p].step = "write" => \A f \in File : IsNext(p, f) => HasBackup(p, f)
  /\ op[p].step = "mark" => op[p].todo = {} /\ {b \in op[p].backup : b[1] \in Text} \subseteq saved

BackupsOK(p) ==
  /\ \A b, c \in op[p].backup : b[1] = c[1] => b = c
  /\ \A b \in op[p].backup :
       /\ b[1] \in Changed
       /\ b[2] = baseline[b[1]] \/ b \in raced
       /\ <<b[1], source[b[1]]>> \in owed \ raced => b[2] = source[b[1]]
       /\ b[1] \in op[p].todo => op[p].step = "write" /\ IsNext(p, b[1])

Applies == \A p \in Process : Applying(p) => OnTrack(p) /\ BackupsOK(p)

\* What is changed was changed by a run.
RunsChange == \A f \in Changed : snapshot[f][1] = "run"

\* A run works on pending changes, and its task has not ended in success.
Works ==
  \A p \in Process : at[p] # "none" =>
    status # "succeeded" /\ (at[p] \in {"prepared", "work"} => manifest = "pending")

\* What the manifest says is what the source holds, when no apply is under way.
Reached ==
  (\A p \in Process : ~Applying(p)) =>
    /\ manifest = "pending" /\ crashes = 0 => \A f \in File : Before(f)
    /\ manifest = "applied" => \A f \in File : f \in Changed \/ crashes = 0 => After(f)

Says(outcome) == IF outcome = "conflict" THEN "pending" ELSE outcome

\* The record says what the manifest says, or an operation is about to save that.
Recorded ==
  /\ \A p \in Process : op[p].step = "save" => Says(op[p].result) = manifest
  /\ status = "succeeded" /\ ~unsaved
       /\ (\A p \in Process : op[p].step = "save" => op[p].result = "conflict")
       => Says(changes) = manifest

\* What the user wrote is in a checkpoint if that keeps it, or on its way there.
Kept ==
  \A o \in owed \ raced :
    source[o[1]] # o[2] /\ o[1] \in Text =>
      o \in saved \cup orphaned \/ \E p \in Process : o \in op[p].backup

\* What the user wrote has been in a rollback directory, which has one copy of a file, and
\* those that the apply under way has made.
Copied ==
  /\ \A c, d \in rollback : c[1] = d[1] => c = d
  /\ \A p \in Process : Applying(p) => op[p].backup \subseteq rollback
  /\ \A o \in owed \ raced : source[o[1]] # o[2] => o \in rollback \cup removed

Tidy == Applies /\ RunsChange /\ Works /\ Reached /\ Recorded /\ Kept

-----------------------------------------------------------------------------
\* While no lease has run out early, whoever uses the task is alone.
LEMMA Alone ==
  ASSUME TypeOK, Held, lapses = 0, NEW p \in Process, NEW q \in Process
  PROVE  /\ op[p].step \notin {"none", "admit"} =>
              at[q] = "none" /\ (q # p => op[q].step \in {"none", "admit"})
         /\ at[p] # "none" =>
              (q # p => at[q] = "none") /\ op[q].step \in {"none", "admit"}
<1>1. ASSUME NEW u \in Uses(p), NEW v \in Uses(q) PROVE p = q /\ u = v
  BY <1>1 DEF Held, Holds
<1>2. op[p].step \notin {"none", "admit"} => op[p].kind \in Uses(p) /\ op[p].kind # "run"
  BY DEF Uses, Held
<1>3. op[q].step \notin {"none", "admit"} => op[q].kind \in Uses(q) /\ op[q].kind # "run"
  BY DEF Uses, Held
<1>4. /\ at[p] # "none" => "run" \in Uses(p)
      /\ at[q] # "none" => "run" \in Uses(q)
  BY DEF Uses
<1> QED
  BY <1>1, <1>2, <1>3, <1>4

\* Where nobody is beyond the admission of an operation, nobody applies or has backups.
LEMMA NoApply ==
  ASSUME IInv, NEW p \in Process, op[p].step \notin {"backup", "write", "mark"}
  PROVE  ~Applying(p) /\ op[p].backup = {}
BY DEF IInv, Clean, Applying

\* Init establishes the invariant.
LEMMA TidyInit == ASSUME Init PROVE Tidy
<1>1. Applies /\ RunsChange /\ Works
  BY DEF Init, Applies, Applying, NoOp, RunsChange, Changed, NoFiles, Works
<1>2. Reached /\ Recorded
  BY DEF Init, Reached, Recorded, NoOp
<1>3. Kept
  BY DEF Init, Kept
<1> QED
  BY <1>1, <1>2, <1>3 DEF Tidy

LEMMA CopiedInit == ASSUME Init PROVE Copied
BY DEF Init, Copied, Applying, NoOp

\* A step that leaves the files and the applies alone.
LEMMA QuietStep ==
  ASSUME Tidy, UNCHANGED <<source, snapshot, baseline, manifest, saved>>,
         UNCHANGED <<owed, raced, orphaned, crashes>>,
         \A q \in Process : /\ Applying(q) => op'[q] = op[q]
                            /\ Applying(q)' => Applying(q)
                            /\ op'[q].backup = op[q].backup
  PROVE  Applies' /\ RunsChange' /\ Reached' /\ Kept'
<1> USE DEF disk
<1>1. ASSUME NEW q \in Process, Applying(q)' PROVE OnTrack(q)' /\ BackupsOK(q)'
  <2>1. op'[q] = op[q] /\ OnTrack(q) /\ BackupsOK(q)
    BY <1>1 DEF Tidy, Applies
  <2>2. OnTrack(q)'
    BY <2>1 DEF OnTrack, Changed, After, Before, Users, HasBackup, IsNext
  <2>3. BackupsOK(q)'
    BY <2>1 DEF BackupsOK, Changed, IsNext
  <2> QED
    BY <2>2, <2>3
<1>2. RunsChange'
  BY DEF Tidy, RunsChange, Changed
<1>3. Reached'
  <2>1. (\A q \in Process : ~Applying(q)') => \A q \in Process : ~Applying(q)
    BY DEF Applying
  <2> QED
    BY <2>1 DEF Tidy, Reached, Before, After, Users, Changed
<1>4. Kept'
  BY DEF Tidy, Kept
<1> QED
  BY <1>1, <1>2, <1>3, <1>4 DEF Applies

-----------------------------------------------------------------------------
\* An execution: it is alone, and no apply is under way.
LEMMA ExecutionTidy ==
  ASSUME IInv, Held, lapses = 0, Tidy, NEW p \in Process, Execution(p)
  PROVE  Tidy'
<1> USE DEF store, disk, local, past, bounds
<1>0. /\ TypeOK
      /\ at \in [Process -> {"none", "begin", "copying", "prepared", "work", "failed",
                             "cleanup", "left"}]
      /\ op' = op /\ owed' = owed /\ raced' = raced /\ orphaned' = orphaned
      /\ crashes' = crashes /\ source' = source
  BY DEF IInv, TypeOK, Execution, Admit, Prepare, RemoveRollback, CopyEnds, SetReference, Work,
     Succeed, TurnFails, Finish, CleanUp, Leave, Cancel
<1>1. ASSUME at[p] # "none"
      PROVE  /\ status # "succeeded"
             /\ \A q \in Process : op[q].step \in {"none", "admit"} /\ ~Applying(q)
             /\ \A q \in Process : q # p => at[q] = "none"
  <2>1. \A q \in Process : op[q].step \in {"none", "admit"} /\ (q # p => at[q] = "none")
    BY <1>0, <1>1, Alone
  <2> QED
    BY <1>1, <2>1 DEF Applying, Tidy, Works
<1>2. ASSUME UNCHANGED <<snapshot, baseline, manifest, saved>>
      PROVE  Applies' /\ RunsChange' /\ Reached' /\ Kept'
  BY <1>0, <1>2, QuietStep DEF Applying
<1>3. \* a copy changes: nobody has backups
      ASSUME at[p] # "none", saved' = saved PROVE Applies' /\ Kept'
  <2>1. \A q \in Process : ~Applying(q)'
    BY <1>0, <1>1, <1>3 DEF Applying
  <2> QED
    BY <1>0, <1>3, <2>1 DEF Tidy, Applies, Kept
<1>4. ASSUME at[p] # "none", status' # "succeeded" PROVE Recorded'
  BY <1>0, <1>1, <1>4 DEF Recorded
<1>5. CASE Admit(p)
  <2>1. UNCHANGED disk /\ status' = "open" /\ at' = [at EXCEPT ![p] = "begin"] /\ status' # "succeeded"
    BY <1>5 DEF Admit
  <2>2. Works'
    BY <1>0, <2>1 DEF Tidy, Works
  <2>3. Recorded'
    BY <1>0, <2>1 DEF Tidy, Recorded
  <2> QED
    BY <1>2, <2>1, <2>2, <2>3 DEF Tidy
<1>6. CASE Prepare(p)
  <2>0. /\ at[p] = "begin" /\ status' = status /\ saved' = saved /\ snapshot' = snapshot
    BY <1>6 DEF Prepare
  <2>1. Applies' /\ Kept' /\ Recorded' /\ status # "succeeded"
    BY <1>1, <1>3, <1>4, <2>0
  <2>2. CASE UNCHANGED <<manifest, baseline>> /\ (at'[p] = "prepared" => manifest = "pending")
             /\ at' \in {[at EXCEPT ![p] = l] : l \in {"left", "prepared", "failed"}}
    <3>1. Works'
      BY <1>0, <2>0, <2>1, <2>2 DEF Tidy, Works
    <3> QED
      BY <1>0, <1>2, <2>0, <2>1, <2>2, <3>1 DEF Tidy
  <2>3. CASE manifest = "applied" /\ manifest' = "pending" /\ baseline' = snapshot
             /\ at' = [at EXCEPT ![p] = "prepared"]
    <3>1. Works'
      BY <1>0, <1>1, <2>0, <2>1, <2>3 DEF Tidy, Works
    <3>2. RunsChange'
      BY <2>0, <2>3 DEF RunsChange, Changed
    <3>3. Reached'
      BY <1>0, <1>1, <2>0, <2>3 DEF Tidy, Reached, Before, After, Users
    <3> QED
      BY <2>1, <3>1, <3>2, <3>3 DEF Tidy
  <2>4. CASE manifest' = "partial" /\ baseline' = baseline /\ at' = [at EXCEPT ![p] = "copying"]
    <3>1. Works'
      BY <1>0, <1>1, <2>0, <2>1, <2>4 DEF Tidy, Works
    <3>2. RunsChange' /\ Reached'
      BY <1>0, <2>0, <2>4 DEF Tidy, RunsChange, Reached, Changed
    <3> QED
      BY <2>1, <3>1, <3>2 DEF Tidy
  <2> QED
    BY <1>0, <1>6, <2>2, <2>3, <2>4 DEF Prepare
<1>7. CASE CopyEnds(p)
  <2>0. at[p] = "copying" /\ status' = status /\ saved' = saved
    BY <1>7 DEF CopyEnds
  <2>1. Applies' /\ Kept' /\ Recorded' /\ status # "succeeded"
    BY <1>1, <1>3, <1>4, <2>0
  <2>2. CASE /\ manifest' = "pending" /\ snapshot' = source /\ baseline' = source
             /\ at' = [at EXCEPT ![p] = "prepared"]
    <3>1. Works' /\ RunsChange' /\ Reached'
      BY <1>0, <1>1, <2>0, <2>1, <2>2
         DEF Tidy, Works, RunsChange, Reached, Changed, Before
    <3> QED
      BY <2>1, <3>1 DEF Tidy
  <2>3. CASE /\ manifest' = "none" /\ snapshot' = snapshot /\ baseline' = baseline
             /\ at' = [at EXCEPT ![p] = "failed"]
    <3>1. Works' /\ RunsChange' /\ Reached'
      BY <1>0, <1>1, <2>0, <2>1, <2>3 DEF Tidy, Works, RunsChange, Reached, Changed
    <3> QED
      BY <2>1, <3>1 DEF Tidy
  <2> QED
    BY <1>7, <2>2, <2>3 DEF CopyEnds
<1>8. \* the copies may be discarded
      ASSUME at[p] # "none", at[p] # "none" => status' # "succeeded", saved' = saved,
             Discarded \/ UNCHANGED <<manifest, snapshot, baseline>>, status' = status,
             NEW l \in {"work", "failed", "left"}, at' = [at EXCEPT ![p] = l],
             l = "work" => at[p] = "prepared" /\ UNCHANGED <<manifest, snapshot, baseline>>
      PROVE  Tidy'
  <2>1. Applies' /\ Kept' /\ Recorded'
    BY <1>1, <1>3, <1>4, <1>8
  <2>2. Works'
    BY <1>0, <1>1, <1>8 DEF Tidy, Works
  <2>3. CASE UNCHANGED <<manifest, snapshot, baseline>>
    BY <1>0, <1>2, <1>8, <2>1, <2>2, <2>3 DEF Tidy
  <2>4. CASE manifest' = "discarded" /\ snapshot' = NoFiles /\ baseline' = NoFiles
    <3>1. RunsChange' /\ Reached'
      BY <2>4 DEF RunsChange, Reached, Changed
    <3> QED
      BY <2>1, <2>2, <3>1 DEF Tidy
  <2> QED
    BY <1>8, <2>3, <2>4 DEF Discarded
<1>9. CASE SetReference(p)
  <2>1. at[p] = "prepared" /\ saved' = saved /\ status' = status
    BY <1>9 DEF SetReference
  <2>2. \/ at' = [at EXCEPT ![p] = "work"] /\ UNCHANGED <<manifest, snapshot, baseline>>
        \/ at' = [at EXCEPT ![p] = "failed"] /\ Discarded
    BY <1>9 DEF SetReference
  <2> QED
    BY <1>1, <1>8, <2>1, <2>2
<1>10. CASE CleanUp(p)
  <2>1. /\ at[p] = "cleanup" /\ saved' = saved /\ status' = status /\ Discarded
        /\ at' = [at EXCEPT ![p] = "left"]
    BY <1>10 DEF CleanUp
  <2> QED
    BY <1>1, <1>8, <2>1
<1>11. ASSUME NEW f \in File, Work(p, f) PROVE Tidy'
  <2>1. /\ at[p] = "work" /\ status' = status /\ saved' = saved /\ at' = at
        /\ manifest' = manifest /\ baseline' = baseline
        /\ snapshot' = [snapshot EXCEPT ![f] = Wrote(mine[p])]
    BY <1>11 DEF Work
  <2>2. Applies' /\ Kept' /\ Recorded' /\ manifest = "pending"
    BY <1>1, <1>3, <1>4, <2>1 DEF Tidy, Works
  <2>3. Works'
    BY <2>1 DEF Tidy, Works
  <2>4. RunsChange'
    BY <1>0, <2>1 DEF Tidy, RunsChange, Changed, Wrote, IInv, TypeOK
  <2>5. Reached'
    BY <1>0, <1>1, <2>1, <2>2 DEF Tidy, Reached, Before, Users
  <2> QED
    BY <2>2, <2>3, <2>4, <2>5 DEF Tidy
<1>12. CASE Succeed(p)
  <2>1. /\ at[p] = "work" /\ UNCHANGED disk /\ changes' = manifest
        /\ at' = [at EXCEPT ![p] = "none"]
    BY <1>12 DEF Succeed, Ends
  <2>2. Works'
    BY <1>0, <1>1, <2>1 DEF Works
  <2>3. Recorded'
    BY <1>0, <1>1, <2>1 DEF Tidy, Recorded, Works, Says
  <2> QED
    BY <1>2, <2>1, <2>2, <2>3 DEF Tidy
<1>13. CASE TurnFails(p) \/ Finish(p) \/ Leave(p)
  <2>1. /\ at[p] # "none" /\ UNCHANGED disk /\ status' # "succeeded"
        /\ \E l \in {"failed", "cleanup", "left", "none"} : at' = [at EXCEPT ![p] = l]
    <3>1. at[p] # "none"
      BY <1>13 DEF TurnFails, Finish, Leave
    <3> QED
      BY <1>1, <1>13, <3>1 DEF TurnFails, Finish, Leave, Ends
  <2>2. Works'
    BY <1>0, <1>1, <2>1 DEF Works
  <2> QED
    BY <1>2, <1>4, <2>1, <2>2 DEF Tidy
<1>14. CASE Cancel(p)
  <2>1. UNCHANGED disk /\ status' = "canceled" /\ at' = at
    BY <1>14 DEF Cancel
  <2>2. Works' /\ Recorded'
    BY <1>0, <2>1 DEF Tidy, Works, Recorded
  <2> QED
    BY <1>2, <2>1, <2>2 DEF Tidy
<1> QED
  BY <1>5, <1>6, <1>7, <1>9, <1>10, <1>11, <1>12, <1>13, <1>14 DEF Execution

-----------------------------------------------------------------------------
\* Operations that leave the files alone.

\* Taking up, admission, the look, the save, and Resume.
LEMMA AdmissionTidy ==
  ASSUME IInv, Held, lapses = 0, Tidy, NEW p \in Process,
         \/ \E kind \in {"apply", "discard"} : OpRead(p, kind)
         \/ OpAdmit(p) \/ OpSave(p) \/ ResumeBegin(p) \/ ResumeEnd(p)
  PROVE  Tidy'
<1> USE DEF store, disk, local, past, bounds
<1>0. /\ TypeOK /\ op \in [Process -> OpState]
      /\ UNCHANGED <<disk, owed, raced, orphaned, crashes, at, status>>
  BY DEF IInv, TypeOK, OpRead, OpAdmit, OpSave, ResumeBegin, ResumeEnd
<1>1. /\ NoOp.step = "none" /\ NoOp.backup = {}
      /\ \A kind : /\ [NoOp EXCEPT !.kind = kind, !.step = "admit"].step = "admit"
                   /\ [NoOp EXCEPT !.kind = kind, !.step = "admit"].backup = {}
  BY DEF NoOp
<1>2. \A q \in Process : q # p => op'[q] = op[q]
  BY <1>0 DEF OpRead, OpAdmit, OpSave, ResumeBegin, ResumeEnd, Returns
<1>3. \/ op'[p] = op[p]
      \/ /\ op[p].step \in {"none", "admit", "save"} /\ op'[p].step \in {"none", "admit", "look"}
         /\ op'[p].backup = {} \/ op'[p].backup = op[p].backup
  <2>1. CASE \E kind \in {"apply", "discard"} : OpRead(p, kind)
    BY <1>0, <1>1, <2>1 DEF OpRead, CanLock
  <2>2. CASE OpAdmit(p)
    <3>1. op[p].step = "admit" /\ (op'[p] = NoOp \/ op'[p] = [op[p] EXCEPT !.step = "look"])
      BY <1>0, <2>2 DEF OpAdmit, Returns
    <3> QED
      BY <1>0, <1>1, <3>1 DEF OpState
  <2>3. CASE OpSave(p)
    BY <1>0, <1>1, <2>3 DEF OpSave, Returns
  <2>4. CASE ResumeBegin(p) \/ ResumeEnd(p)
    BY <2>4 DEF ResumeBegin, ResumeEnd
  <2> QED
    BY <2>1, <2>2, <2>3, <2>4
<1>4. \A q \in Process : /\ Applying(q) => op'[q] = op[q]
                         /\ Applying(q)' => Applying(q)
                         /\ op'[q].backup = op[q].backup
  BY <1>2, <1>3, NoApply DEF Applying
<1>5. Applies' /\ RunsChange' /\ Reached' /\ Kept'
  BY <1>0, <1>4, QuietStep
<1>6. Works'
  BY <1>0 DEF Tidy, Works
<1>7. Recorded'
  <2>1. CASE OpSave(p)
    <3>0. op[p].step = "save" /\ op'[p].step = "none"
      BY <1>0, <1>1, <2>1 DEF OpSave, Returns
    <3>1. \A q \in Process : op'[q].step # "save" /\ (q # p => op[q].step # "save")
      BY <1>0, <1>2, <3>0, Alone
    <3>2. Says(op[p].result) = manifest
      BY <3>0 DEF Tidy, Recorded
    <3>3. CASE changes' = op[p].result
      BY <1>0, <3>1, <3>2, <3>3 DEF Recorded
    <3>4. CASE changes' = changes /\ unsaved' = (unsaved \/ op[p].result # "conflict")
      BY <1>0, <3>1, <3>4 DEF Tidy, Recorded
    <3> QED
      BY <2>1, <3>3, <3>4 DEF OpSave
  <2>2. CASE ~OpSave(p)
    <3>1. UNCHANGED <<changes, unsaved>>
      BY <2>2 DEF OpRead, OpAdmit, ResumeBegin, ResumeEnd
    <3>2. op'[p] = op[p] \/ (op[p].step # "save" /\ op'[p].step # "save")
      <4>1. CASE \E kind \in {"apply", "discard"} : OpRead(p, kind)
        BY <1>0, <1>1, <4>1 DEF OpRead, CanLock
      <4>2. CASE OpAdmit(p)
        BY <1>3, <4>2 DEF OpAdmit
      <4>3. CASE ResumeBegin(p) \/ ResumeEnd(p)
        BY <4>3 DEF ResumeBegin, ResumeEnd
      <4> QED
        BY <2>2, <4>1, <4>2, <4>3
    <3>3. \A q \in Process : op'[q] = op[q] \/ (op[q].step # "save" /\ op'[q].step # "save")
      BY <1>2, <3>2
    <3> QED
      BY <1>0, <3>1, <3>3 DEF Tidy, Recorded
  <2> QED
    BY <2>1, <2>2
<1> QED
  BY <1>5, <1>6, <1>7 DEF Tidy

\* The look: an apply begins where nothing conflicts.
LEMMA LookTidy ==
  ASSUME IInv, Held, lapses = 0, Tidy, NEW p \in Process, Look(p)
  PROVE  Tidy'
<1> USE DEF store, disk, local, past, bounds
<1>0. /\ TypeOK /\ op \in [Process -> OpState] /\ op[p].step = "look"
      /\ UNCHANGED <<source, snapshot, baseline, manifest, saved, owed, raced, orphaned>>
      /\ UNCHANGED <<crashes, at, status, changes, unsaved>>
  BY DEF IInv, TypeOK, Look
<1>1. NoOp.step = "none" /\ NoOp.backup = {}
  BY DEF NoOp
<1>2. /\ \A q \in Process : q # p => op'[q] = op[q]
      /\ \A q \in Process : q # p => op[q].step \in {"none", "admit"}
      /\ \A q \in Process : ~Applying(q) /\ op[q].backup = {} /\ op[q].step # "save"
      /\ at[p] = "none"
  <2>1. \A q \in Process : q # p => op[q].step \in {"none", "admit"} /\ at[p] = "none"
    BY <1>0, Alone
  <2>2. at[p] = "none"
    BY <1>0, Alone
  <2>3. \A q \in Process : q # p => op'[q] = op[q]
    BY <1>0 DEF Look, BeginApply, OpReturns, Returns, GoOn
  <2> QED
    BY <1>0, <2>1, <2>2, <2>3, NoApply
<1>3. Works'
  BY <1>0 DEF Tidy, Works
<1>4. ASSUME op'[p].step \in {"none", "save"}, op'[p].backup = {},
             op'[p].step = "save" => Says(op'[p].result) = manifest
      PROVE  Tidy'
  <2>1. \A q \in Process : /\ Applying(q) => op'[q] = op[q]
                           /\ Applying(q)' => Applying(q)
                           /\ op'[q].backup = op[q].backup
    BY <1>2, <1>4 DEF Applying
  <2>2. Applies' /\ RunsChange' /\ Reached' /\ Kept'
    BY <1>0, <2>1, QuietStep
  <2>3. Recorded'
    BY <1>0, <1>2, <1>4 DEF Tidy, Recorded
  <2> QED
    BY <1>3, <2>2, <2>3 DEF Tidy
<1>5. CASE OpReturns(p)
  BY <1>0, <1>1, <1>4, <1>5 DEF OpReturns, Returns
<1>6. ASSUME NEW r \in {"applied", "conflict"}, GoOn(p, "save", r), Says(r) = manifest PROVE Tidy'
  <2>1. op'[p] = [op[p] EXCEPT !.step = "save", !.result = r]
    BY <1>0, <1>6 DEF GoOn
  <2>2. op'[p].step = "save" /\ op'[p].backup = op[p].backup /\ op'[p].result = r
    BY <1>0, <2>1 DEF OpState
  <2> QED
    BY <1>2, <1>4, <1>6, <2>2
<1>7. CASE /\ manifest = "pending" /\ Conflicts = {}
           /\ op' = [op EXCEPT ![p].step = "backup", ![p].todo = Changed, ![p].base = baseline]
  <2>1. op'[p] = [op[p] EXCEPT !.step = "backup", !.todo = Changed, !.base = baseline]
    BY <1>0, <1>7
  <2>2. /\ op'[p].step = "backup" /\ op'[p].todo = Changed /\ op'[p].base = baseline
        /\ op'[p].backup = {}
    BY <1>0, <1>2, <2>1 DEF OpState
  <2>3. \A f \in Changed : source[f] = baseline[f]
    BY <1>7 DEF Conflicts
  <2>4. crashes = 0 => \A f \in File : Before(f)
    BY <1>2, <1>7 DEF Tidy, Reached
  <2>5. OnTrack(p)'
    BY <1>0, <1>7, <2>2, <2>3, <2>4 DEF OnTrack, Changed, Before, Users
  <2>6. BackupsOK(p)'
    BY <2>2 DEF BackupsOK
  <2>7. Applies'
    BY <1>2, <2>5, <2>6 DEF Applies, Applying
  <2>8. RunsChange' /\ Kept'
    <3>1. \A q \in Process : op'[q].backup = op[q].backup
      BY <1>2, <2>2
    <3> QED
      BY <1>0, <3>1 DEF Tidy, RunsChange, Changed, Kept
  <2>9. Reached'
    BY <2>2 DEF Reached, Applying
  <2>10. Recorded'
    BY <1>0, <1>2, <2>2 DEF Tidy, Recorded
  <2> QED
    BY <1>3, <2>7, <2>8, <2>9, <2>10 DEF Tidy
<1> QED
  BY <1>5, <1>6, <1>7 DEF Look, BeginApply, Says

-----------------------------------------------------------------------------
\* The steps of an apply, of a discard, and what comes between.

\* Who applies is alone.
LEMMA Applier ==
  ASSUME IInv, Held, lapses = 0, Tidy, NEW p \in Process, Applying(p)
  PROVE  /\ OnTrack(p) /\ BackupsOK(p)
         /\ \A q \in Process : at[q] = "none"
         /\ \A q \in Process : q # p =>
              op[q].step \in {"none", "admit"} /\ ~Applying(q) /\ op[q].backup = {}
<1>1. op[p].step \notin {"none", "admit"}
  BY DEF Applying
<1>2. \A q \in Process : at[q] = "none" /\ (q # p => op[q].step \in {"none", "admit"})
  BY <1>1, Alone DEF IInv
<1> QED
  BY <1>2, NoApply DEF Tidy, Applies

\* What a step of an apply has to keep.
LEMMA ApplyTidy ==
  ASSUME IInv, Held, lapses = 0, Tidy, NEW p \in Process, Applying(p), Applying(p)',
         UNCHANGED <<at, status, changes, unsaved, manifest, snapshot, baseline>>,
         \A q \in Process : q # p => op'[q] = op[q],
         OnTrack(p)', BackupsOK(p)', Kept'
  PROVE  Tidy'
<1>1. Applies'
  BY Applier DEF Applies, Applying
<1>2. RunsChange' /\ Works'
  BY DEF Tidy, RunsChange, Changed, Works
<1>3. Reached'
  BY DEF Reached
<1>4. Recorded'
  BY DEF Tidy, Recorded, Applying
<1> QED
  BY <1>1, <1>2, <1>3, <1>4 DEF Tidy

\* The next file is the only one.
LEMMA NextFile ==
  ASSUME NEW p \in Process, NEW f \in File, IsNext(p, f), NEW g \in File, IsNext(p, g)
  PROVE  g = f
BY FileAssumption DEF IsNext

LEMMA BackupTidy ==
  ASSUME IInv, Held, lapses = 0, Tidy, NEW p \in Process, NEW f \in File, Backup(p, f)
  PROVE  Tidy'
<1> USE DEF store, disk, past, bounds
<1> DEFINE new == <<f, source[f]>>
<1>0. /\ op \in [Process -> OpState] /\ Applying(p) /\ op[p].step = "backup" /\ IsNext(p, f)
      /\ UNCHANGED <<store, source, snapshot, baseline, manifest, saved, at, past, crashes>>
  BY DEF IInv, TypeOK, Backup, Applying
<1>1. op'[p] = [op[p] EXCEPT !.step = "write", !.backup = @ \cup {new}]
  BY <1>0 DEF Backup
<1>2. /\ op'[p].step = "write" /\ op'[p].backup = op[p].backup \cup {new}
      /\ op'[p].todo = op[p].todo /\ op'[p].base = op[p].base
      /\ \A q \in Process : q # p => op'[q] = op[q]
  BY <1>0, <1>1 DEF OpState, Backup
<1>3. OnTrack(p) /\ BackupsOK(p)
  BY <1>0, Applier
<1>4. OnTrack(p)'
  <2>0. HasBackup(p, f)'
    <3>1. new \in op'[p].backup /\ new[1] = f
      BY <1>2
    <3> QED
      BY <3>1 DEF HasBackup
  <2>1. \A g \in File : HasBackup(p, g) \/ g = f => HasBackup(p, g)'
    BY <1>2, <2>0 DEF HasBackup
  <2>2. \A g \in File : IsNext(p, g)' => g = f
    BY <1>0, <1>2, NextFile DEF IsNext
  <2> QED
    BY <1>0, <1>2, <1>3, <2>1, <2>2 DEF OnTrack, Changed, After, Before, Users
<1>5. BackupsOK(p)'
  <2>1. \A b \in op[p].backup : b[1] # f
    BY <1>0, <1>3 DEF BackupsOK, IsNext
  <2>2. f \in Changed /\ (source[f] = baseline[f] \/ new \in raced)
    BY <1>0, <1>3 DEF OnTrack, IsNext
  <2>3. \A b, c \in op'[p].backup : b[1] = c[1] => b = c
    BY <1>2, <1>3, <2>1 DEF BackupsOK
  <2>4. ASSUME NEW b \in op'[p].backup
        PROVE  /\ b[1] \in Changed'
               /\ b[2] = baseline'[b[1]] \/ b \in raced'
               /\ <<b[1], source'[b[1]]>> \in owed' \ raced' => b[2] = source'[b[1]]
               /\ b[1] \in op'[p].todo => op'[p].step = "write" /\ IsNext(p, b[1])'
    <3>1. CASE b = new
      BY <1>0, <1>2, <2>2, <3>1 DEF Changed, IsNext
    <3>2. CASE b \in op[p].backup
      BY <1>0, <1>2, <1>3, <3>2 DEF BackupsOK, Changed
    <3> QED
      BY <1>2, <3>1, <3>2
  <2> QED
    BY <2>3, <2>4 DEF BackupsOK
<1>6. Kept'
  BY <1>0, <1>2 DEF Tidy, Kept
<1> QED
  BY <1>0, <1>2, <1>4, <1>5, <1>6, ApplyTidy DEF Applying

LEMMA WriteTidy ==
  ASSUME IInv, Held, lapses = 0, Tidy, NEW p \in Process, NEW f \in File, Write(p, f)
  PROVE  Tidy'
<1> USE DEF store, past, bounds
<1>0. /\ op \in [Process -> OpState] /\ Applying(p) /\ op[p].step = "write" /\ IsNext(p, f)
      /\ source \in [File -> Content] /\ owed \subseteq Version
      /\ UNCHANGED <<store, snapshot, baseline, manifest, saved, at, past, crashes>>
      /\ source' = [source EXCEPT ![f] = snapshot[f]]
  BY DEF IInv, TypeOK, Write, Applying
<1>1. op'[p] = [op[p] EXCEPT !.step = "backup", !.todo = @ \ {f}]
  BY <1>0 DEF Write
<1>2. /\ op'[p].step = "backup" /\ op'[p].backup = op[p].backup
      /\ op'[p].todo = op[p].todo \ {f} /\ op'[p].base = op[p].base
      /\ \A q \in Process : q # p => op'[q] = op[q]
  BY <1>0, <1>1 DEF OpState, Write
<1>3. OnTrack(p) /\ BackupsOK(p) /\ HasBackup(p, f) /\ f \in Changed
  BY <1>0, Applier DEF OnTrack, IsNext
<1>4. source'[f] = snapshot[f] /\ \A g \in File : g # f => source'[g] = source[g]
  BY <1>0
<1>5. <<f, snapshot[f]>> \notin owed
  <2>1. snapshot[f][1] = "run"
    BY <1>3 DEF Tidy, RunsChange
  <2> QED
    BY <2>1 DEF IInv, OwedUsers
<1>6. OnTrack(p)'
  <2>1. op'[p].todo \subseteq File /\ f \notin op'[p].todo
    BY <1>0, <1>2 DEF OpState
  <2>2. \A g \in op'[p].todo : source'[g] = baseline'[g] \/ <<g, source'[g]>> \in raced'
    BY <1>0, <1>2, <1>3, <1>4, <2>1 DEF OnTrack
  <2>3. \A g \in Changed' \ op'[p].todo : After(g)'
    BY <1>0, <1>2, <1>3, <1>4 DEF OnTrack, After, Users, Changed
  <2>4. crashes' = 0 => \A g \in File : HasBackup(p, g)' \/ Before(g)'
    BY <1>0, <1>2, <1>3, <1>4 DEF OnTrack, HasBackup, Before, Users
  <2> QED
    BY <1>0, <1>2, <1>3, <2>2, <2>3, <2>4 DEF OnTrack, Changed
<1>7. BackupsOK(p)'
  <2>1. ASSUME NEW b \in op[p].backup
        PROVE  /\ <<b[1], source'[b[1]]>> \in owed' \ raced' => b[2] = source'[b[1]]
               /\ b[1] \notin op'[p].todo
    <3>1. b[1] \in File
      BY <1>3 DEF BackupsOK, Changed
    <3>2. b[1] = f \/ b[1] \notin op[p].todo
      BY <1>0, <1>3, <3>1, NextFile DEF BackupsOK
    <3> QED
      BY <1>0, <1>2, <1>3, <1>4, <1>5, <3>1, <3>2 DEF BackupsOK
  <2> QED
    BY <1>0, <1>2, <1>3, <2>1 DEF BackupsOK, Changed
<1>8. Kept'
  <2>1. ASSUME NEW o \in owed \ raced, source'[o[1]] # o[2]
        PROVE  o[1] \in Text => o \in saved \cup orphaned \/ \E q \in Process : o \in op'[q].backup
    <3>1. o = <<o[1], o[2]>> /\ o[1] \in File
      BY <1>0 DEF Version
    <3>2. CASE o[1] = f /\ source[f] = o[2]
      <4>1. PICK b \in op[p].backup : b[1] = f
        BY <1>3 DEF HasBackup
      <4>2. b[2] = source[f]
        BY <1>3, <2>1, <3>1, <3>2, <4>1 DEF BackupsOK
      <4>3. b = <<b[1], b[2]>>
        BY <4>1 DEF IInv, TypeOK, OpState, Version
      <4> QED
        BY <1>2, <3>1, <3>2, <4>1, <4>2, <4>3
    <3>3. CASE source[o[1]] # o[2]
      <4>1. o[1] \in Text => o \in saved \cup orphaned \/ \E q \in Process : o \in op[q].backup
        BY <3>3 DEF Tidy, Kept
      <4> QED
        BY <1>2, <4>1
    <3> QED
      BY <1>4, <2>1, <3>1, <3>2, <3>3
  <2> QED
    BY <1>0, <2>1 DEF Kept
<1> QED
  BY <1>0, <1>2, <1>6, <1>7, <1>8, ApplyTidy DEF Applying

LEMMA CommitTidy ==
  ASSUME IInv, Held, lapses = 0, Tidy, NEW p \in Process, Commit(p)
  PROVE  Tidy'
<1> USE DEF store, past, bounds
<1>0. /\ op \in [Process -> OpState] /\ Applying(p) /\ op[p].step = "backup" /\ op[p].todo = {}
      /\ UNCHANGED <<store, source, snapshot, baseline, manifest, at, past, crashes>>
      /\ saved' = saved \cup {b \in op[p].backup : b[1] \in Text}
  BY DEF IInv, TypeOK, Commit, Applying
<1>1. op'[p] = [op[p] EXCEPT !.step = "mark"]
  BY <1>0 DEF Commit
<1>2. /\ op'[p].step = "mark" /\ op'[p].backup = op[p].backup
      /\ op'[p].todo = {} /\ op'[p].base = op[p].base
      /\ \A q \in Process : q # p => op'[q] = op[q]
  BY <1>0, <1>1 DEF OpState, Commit
<1>3. OnTrack(p) /\ BackupsOK(p)
  BY <1>0, Applier
<1>4. OnTrack(p)'
  BY <1>0, <1>2, <1>3 DEF OnTrack, Changed, After, Before, Users, HasBackup
<1>5. BackupsOK(p)'
  BY <1>0, <1>2, <1>3 DEF BackupsOK, Changed
<1>6. Kept'
  BY <1>0, <1>2 DEF Tidy, Kept
<1> QED
  BY <1>0, <1>2, <1>4, <1>5, <1>6, ApplyTidy DEF Applying

LEMMA MarkTidy ==
  ASSUME IInv, Held, lapses = 0, Tidy, NEW p \in Process, Mark(p)
  PROVE  Tidy'
<1> USE DEF store, past, bounds
<1>0. /\ op \in [Process -> OpState] /\ Applying(p) /\ op[p].step = "mark"
      /\ UNCHANGED <<store, source, snapshot, saved, at, past, crashes>>
      /\ manifest' = "applied" /\ baseline' = op[p].base
  BY DEF IInv, TypeOK, Mark, Applying
<1>1. op'[p] = [op[p] EXCEPT !.step = "save", !.result = "applied", !.backup = {}]
  BY <1>0 DEF Mark
<1>2. /\ op'[p].step = "save" /\ op'[p].backup = {} /\ op'[p].result = "applied"
      /\ \A q \in Process : q # p => op'[q] = op[q]
  BY <1>0, <1>1 DEF OpState, Mark
<1>3. /\ OnTrack(p) /\ BackupsOK(p) /\ baseline' = baseline
      /\ op[p].todo = {} /\ {b \in op[p].backup : b[1] \in Text} \subseteq saved
      /\ \A q \in Process : at[q] = "none" /\ (q # p => op[q].step # "save" /\ ~Applying(q))
  BY <1>0, Applier DEF OnTrack
<1>4. \A q \in Process : ~Applying(q)'
  BY <1>2, <1>3 DEF Applying
<1>5. Applies' /\ RunsChange' /\ Works'
  BY <1>0, <1>3, <1>4 DEF Tidy, Applies, RunsChange, Changed, Works
<1>6. Reached'
  <2>1. ASSUME NEW f \in File, f \in Changed \/ crashes = 0 PROVE After(f)
    <3>1. CASE f \in Changed
      BY <1>3, <3>1 DEF OnTrack
    <3>2. CASE f \notin Changed
      <4>1. ~HasBackup(p, f)
        BY <1>3, <3>2 DEF HasBackup, BackupsOK
      <4>2. Before(f) /\ snapshot[f] = baseline[f]
        BY <1>3, <2>1, <3>2, <4>1 DEF OnTrack, Changed
      <4> QED
        BY <4>2 DEF Before, After
    <3> QED
      BY <3>1, <3>2
  <2> QED
    BY <1>0, <1>3, <2>1 DEF Reached, Changed, After, Users
<1>7. Recorded'
  BY <1>0, <1>2, <1>3 DEF Recorded, Says
<1>8. Kept'
  BY <1>0, <1>2, <1>3 DEF Tidy, Kept
<1> QED
  BY <1>5, <1>6, <1>7, <1>8 DEF Tidy

\* A roll-back: what was backed up is back.
LEMMA RollbackTidy ==
  ASSUME IInv, Held, lapses = 0, Tidy, Copied, NEW p \in Process, Rollback(p)
  PROVE  Tidy'
<1> USE DEF store, past, bounds
<1> DEFINE backup == op[p].backup
<1>0. /\ op \in [Process -> OpState] /\ Applying(p)
      /\ owed \subseteq Version /\ backup \subseteq Version
      /\ UNCHANGED <<snapshot, baseline, manifest, at, past, crashes, status, changes>>
      /\ source' = Restored(backup) /\ saved' = saved \ (IF op[p].step = "mark" THEN backup ELSE {})
  BY DEF IInv, TypeOK, OpState, Rollback
<1>1. /\ op'[p].step = "none" /\ op'[p].backup = {}
      /\ \A q \in Process : q # p => op'[q] = op[q]
  BY <1>0 DEF Rollback, OpReturns, Returns, NoOp
<1>2. /\ OnTrack(p) /\ BackupsOK(p) /\ manifest = "pending"
      /\ \A q \in Process : at[q] = "none" /\ (q # p => op[q].step # "save" /\ ~Applying(q))
      /\ \A q \in Process : q # p => op[q].backup = {}
  BY <1>0, Applier DEF OnTrack
<1>3. ASSUME NEW b \in backup PROVE source'[b[1]] = b[2] /\ b = <<b[1], source'[b[1]]>>
  <2>1. b[1] \in File /\ b = <<b[1], b[2]>>
    BY <1>0 DEF Version
  <2>2. b \in rollback /\ (CHOOSE c \in rollback : c[1] = b[1]) = b
    BY <1>0 DEF Copied
  <2> QED
    BY <1>0, <2>1, <2>2 DEF Restored
<1>4. ASSUME NEW f \in File, ~HasBackup(p, f) PROVE source'[f] = source[f]
  BY <1>0, <1>4 DEF Restored, HasBackup
<1>5. Applies' /\ RunsChange' /\ Works'
  BY <1>0, <1>1, <1>2 DEF Tidy, Applies, RunsChange, Changed, Works, Applying
<1>6. Reached'
  <2>1. ASSUME crashes = 0, NEW f \in File PROVE Before(f)'
    <3>1. CASE HasBackup(p, f)
      <4>1. PICK b \in backup : b[1] = f
        BY <3>1 DEF HasBackup
      <4>2. b[2] = baseline[f] \/ b \in raced
        BY <1>2, <4>1 DEF BackupsOK
      <4> QED
        BY <1>0, <1>3, <4>1, <4>2 DEF Before, Users
    <3>2. CASE ~HasBackup(p, f)
      BY <1>0, <1>2, <1>4, <2>1, <3>2 DEF OnTrack, Before, Users
    <3> QED
      BY <3>1, <3>2
  <2> QED
    BY <1>0, <1>2, <2>1 DEF Reached
<1>7. Recorded'
  BY <1>0, <1>1, <1>2 DEF Tidy, Recorded, Applying
<1>8. Kept'
  <2>1. ASSUME NEW o \in owed \ raced, source'[o[1]] # o[2], o[1] \in Text
        PROVE  o \in saved' \cup orphaned
    <3>1. o = <<o[1], o[2]>> /\ o[1] \in File
      BY <1>0 DEF Version
    <3>2. o \notin backup
      BY <1>3, <2>1
    <3>3. source[o[1]] # o[2]
      <4>1. CASE HasBackup(p, o[1])
        <5>1. PICK b \in backup : b[1] = o[1]
          BY <4>1 DEF HasBackup
        <5>2. b[2] # o[2]
          BY <1>3, <2>1, <5>1
        <5> QED
          BY <1>2, <2>1, <3>1, <5>1, <5>2 DEF BackupsOK
      <4>2. CASE ~HasBackup(p, o[1])
        BY <1>4, <2>1, <3>1, <4>2
      <4> QED
        BY <4>1, <4>2
    <3>4. o \in saved \cup orphaned
      BY <1>2, <2>1, <3>2, <3>3 DEF Tidy, Kept
    <3> QED
      BY <1>0, <3>2, <3>4
  <2> QED
    BY <1>0, <2>1 DEF Kept
<1> QED
  BY <1>5, <1>6, <1>7, <1>8 DEF Tidy

LEMMA DiscardTidy ==
  ASSUME IInv, Held, lapses = 0, Tidy, NEW p \in Process, Discard(p)
  PROVE  Tidy'
<1> USE DEF store, past, bounds
<1>0. /\ op \in [Process -> OpState] /\ op[p].step = "look"
      /\ UNCHANGED <<source, saved, at, past, crashes, status, changes>>
  BY DEF IInv, TypeOK, Discard
<1>1. /\ \A q \in Process : q # p => op'[q] = op[q]
      /\ \A q \in Process : at[q] = "none" /\ ~Applying(q) /\ op[q].backup = {} /\ op[q].step # "save"
  <2>1. \A q \in Process : at[q] = "none" /\ (q # p => op[q].step \in {"none", "admit"})
    BY <1>0, Alone DEF IInv
  <2>2. \A q \in Process : ~Applying(q) /\ op[q].backup = {} /\ op[q].step # "save"
    BY <1>0, <2>1, NoApply
  <2>3. \A q \in Process : q # p => op'[q] = op[q]
    BY <1>0 DEF Discard, OpReturns, Returns, GoOn
  <2> QED
    BY <2>1, <2>2, <2>3
<1>2. /\ op'[p].step \in {"none", "save"} /\ op'[p].backup = {}
      /\ \/ /\ op'[p].step = "none" /\ UNCHANGED <<manifest, snapshot, baseline>>
         \/ /\ op'[p].step = "save" /\ op'[p].result = "discarded"
            /\ manifest' = "discarded" /\ snapshot' = NoFiles /\ baseline' = NoFiles
  <2>1. CASE manifest \in {"pending", "discarded"}
    <3>1. op'[p] = [op[p] EXCEPT !.step = "save", !.result = "discarded"]
      BY <1>0, <2>1 DEF Discard, GoOn
    <3>2. op'[p].step = "save" /\ op'[p].result = "discarded" /\ op'[p].backup = op[p].backup
      BY <1>0, <3>1 DEF OpState
    <3> QED
      BY <1>1, <2>1, <3>2 DEF Discard, Discarded
  <2>2. CASE manifest \notin {"pending", "discarded"}
    BY <1>0, <2>2 DEF Discard, Discarded, OpReturns, Returns, NoOp
  <2> QED
    BY <2>1, <2>2
<1>3. \A q \in Process : ~Applying(q)'
  BY <1>1, <1>2 DEF Applying
<1>4. Applies' /\ Works' /\ Kept'
  BY <1>0, <1>1, <1>2, <1>3 DEF Tidy, Applies, Works, Kept
<1>5. RunsChange' /\ Reached'
  BY <1>0, <1>1, <1>2 DEF Tidy, RunsChange, Reached, Changed, Before, After, Users
<1>6. Recorded'
  BY <1>0, <1>1, <1>2 DEF Tidy, Recorded, Says
<1> QED
  BY <1>4, <1>5, <1>6 DEF Tidy

-----------------------------------------------------------------------------
\* The user, time and crashes.

LEMMA EditTidy ==
  ASSUME IInv, Held, lapses = 0, Tidy, NEW f \in File, Edit(f)
  PROVE  Tidy'
<1> USE DEF store, local
<1> DEFINE new == <<f, Edited(edits + 1)>>
<1>0. /\ source \in [File -> Content] /\ owed \subseteq Version /\ op \in [Process -> OpState]
      /\ UNCHANGED <<store, local, snapshot, baseline, manifest, saved, orphaned, crashes, unsaved>>
      /\ source' = [source EXCEPT ![f] = Edited(edits + 1)]
      /\ owed' = (owed \ {<<f, source[f]>>}) \cup {new}
      /\ raced \subseteq raced'
      /\ (\E p \in Process : Applying(p)) => new \in raced'
  BY DEF IInv, TypeOK, Edit
<1>1. source'[f] = new[2] /\ new[1] = f /\ \A g \in File : g # f => source'[g] = source[g]
  BY <1>0
<1>2. \A g \in File : /\ g = f => Users(g)'
                      /\ g # f /\ Users(g) => Users(g)'
  BY <1>0, <1>1 DEF Users
<1>3. \A g \in File : (After(g) => After(g)') /\ (Before(g) => Before(g)')
  BY <1>0, <1>1, <1>2 DEF After, Before
<1>4. ASSUME NEW p \in Process, Applying(p)' PROVE OnTrack(p)' /\ BackupsOK(p)'
  <2>1. OnTrack(p) /\ BackupsOK(p) /\ new \in raced' /\ op[p].todo \subseteq File
    BY <1>0, <1>4, Applier DEF Applying, OpState
  <2>2. OnTrack(p)'
    <3>1. \A g \in op[p].todo : source'[g] = baseline[g] \/ <<g, source'[g]>> \in raced'
      BY <1>0, <1>1, <2>1 DEF OnTrack
    <3>2. \A g \in Changed' \ op'[p].todo : After(g)'
      BY <1>0, <1>3, <2>1 DEF OnTrack, Changed
    <3>3. crashes' = 0 => \A g \in File : HasBackup(p, g)' \/ Before(g)'
      BY <1>0, <1>3, <2>1 DEF OnTrack, HasBackup
    <3> QED
      BY <1>0, <2>1, <3>1, <3>2, <3>3 DEF OnTrack, Changed, IsNext, HasBackup
  <2>3. BackupsOK(p)'
    <3>1. ASSUME NEW b \in op[p].backup, <<b[1], source'[b[1]]>> \in owed' \ raced'
          PROVE  b[2] = source'[b[1]]
      <4>1. b[1] \in File
        BY <2>1 DEF BackupsOK, Changed
      <4>2. b[1] # f
        BY <1>1, <2>1, <3>1
      <4>3. <<b[1], source[b[1]]>> \in owed \ raced
        BY <1>0, <1>1, <3>1, <4>1, <4>2
      <4> QED
        BY <1>1, <2>1, <4>1, <4>2, <4>3 DEF BackupsOK
    <3> QED
      BY <1>0, <2>1, <3>1 DEF BackupsOK, Changed, IsNext
  <2> QED
    BY <2>2, <2>3
<1>5. RunsChange' /\ Works' /\ Recorded'
  BY <1>0 DEF Tidy, RunsChange, Changed, Works, Recorded
<1>6. Reached'
  BY <1>0, <1>3 DEF Tidy, Reached, Changed, Applying
<1>7. Kept'
  <2>1. ASSUME NEW o \in owed' \ raced', source'[o[1]] # o[2], o[1] \in Text
        PROVE  o \in saved \cup orphaned \/ \E p \in Process : o \in op[p].backup
    <3>1. o # new
      BY <1>1, <2>1
    <3>2. o \in owed \ raced /\ o # <<f, source[f]>>
      BY <1>0, <2>1, <3>1
    <3>3. o = <<o[1], o[2]>> /\ o[1] \in File
      BY <1>0, <3>2 DEF Version
    <3>4. source[o[1]] # o[2]
      BY <1>1, <2>1, <3>2, <3>3
    <3> QED
      BY <2>1, <3>2, <3>4 DEF Tidy, Kept
  <2> QED
    BY <1>0, <2>1 DEF Kept
<1> QED
  BY <1>4, <1>5, <1>6, <1>7 DEF Tidy, Applies

LEMMA CrashTidy ==
  ASSUME IInv, Held, lapses = 0, Tidy, NEW p \in Process, Crash(p)
  PROVE  Tidy'
<1> USE DEF disk
<1>0. /\ op \in [Process -> OpState]
      /\ at \in [Process -> {"none", "begin", "copying", "prepared", "work", "failed",
                             "cleanup", "left"}]
      /\ UNCHANGED <<disk, status, changes, owed, raced>>
      /\ orphaned' = orphaned \cup op[p].backup
      /\ unsaved' = (unsaved \/ (op[p].step = "save" /\ op[p].result # "conflict"))
      /\ crashes \in Nat /\ crashes' = crashes + 1
      /\ at'[p] = "none" /\ \A q \in Process : q # p => at'[q] = at[q]
      /\ op'[p].step = "none" /\ op'[p].backup = {}
      /\ \A q \in Process : q # p => op'[q] = op[q]
  BY DEF IInv, TypeOK, Crash, Ends, NoOp
<1>1. crashes' # 0
  BY <1>0
<1>2. ASSUME NEW q \in Process, Applying(q)' PROVE OnTrack(q)' /\ BackupsOK(q)'
  <2>1. op'[q] = op[q] /\ OnTrack(q) /\ BackupsOK(q)
    BY <1>0, <1>2 DEF Applying, Tidy, Applies
  <2>2. OnTrack(q)'
    BY <1>0, <1>1, <2>1 DEF OnTrack, Changed, After, Users, IsNext, HasBackup
  <2>3. BackupsOK(q)'
    BY <1>0, <2>1 DEF BackupsOK, Changed, IsNext
  <2> QED
    BY <2>2, <2>3
<1>3. RunsChange' /\ Works'
  BY <1>0 DEF Tidy, RunsChange, Changed, Works
<1>4. Reached'
  <2>1. CASE Applying(p)
    <3>1. manifest = "pending"
      BY <2>1, Applier DEF OnTrack
    <3> QED
      BY <1>0, <1>1, <3>1 DEF Reached
  <2>2. CASE ~Applying(p)
    <3>1. (\A q \in Process : ~Applying(q)') => \A q \in Process : ~Applying(q)
      BY <1>0, <2>2 DEF Applying
    <3> QED
      BY <1>0, <1>1, <3>1 DEF Tidy, Reached, After, Users, Changed
  <2> QED
    BY <2>1, <2>2
<1>5. Recorded'
  <2>1. op[p].step = "save" => unsaved' \/ op[p].result = "conflict"
    BY <1>0
  <2>2. \A q \in Process : op'[q].step = "save" => op'[q] = op[q]
    BY <1>0
  <2>3. unsaved => unsaved'
    BY <1>0
  <2> QED
    BY <1>0, <2>1, <2>2, <2>3 DEF Tidy, Recorded
<1>6. Kept'
  BY <1>0 DEF Tidy, Kept
<1> QED
  BY <1>2, <1>3, <1>4, <1>5, <1>6 DEF Tidy, Applies

\* A stutter, and a lease that runs out after its holder is gone.
LEMMA ExpireTidy ==
  ASSUME Tidy, Expire \/ UNCHANGED vars
  PROVE  Tidy'
<1>1. UNCHANGED <<disk, owed, raced, orphaned, crashes, op, at, status, changes, unsaved>>
  BY DEF Expire, vars, store, local, past, bounds
<1>2. Applies' /\ RunsChange' /\ Reached' /\ Kept'
  BY <1>1, QuietStep DEF Applying, disk
<1>3. Works' /\ Recorded'
  BY <1>1 DEF Tidy, Works, Recorded, disk
<1> QED
  BY <1>2, <1>3 DEF Tidy

-----------------------------------------------------------------------------
\* The rollback directory. A step that leaves it and the source alone.
LEMMA CopiedStays ==
  ASSUME Copied, UNCHANGED <<source, owed, raced, rollback, removed>>,
         \A q \in Process : Applying(q)' => Applying(q) /\ op'[q].backup = op[q].backup
  PROVE  Copied'
BY DEF Copied

\* It is removed while nobody has backups there.
LEMMA CopiedRemoved ==
  ASSUME Copied, UNCHANGED <<source, owed, raced>>, RemoveRollback,
         \A q \in Process : Applying(q)' => op'[q].backup = {}
  PROVE  Copied'
BY DEF Copied, RemoveRollback

LEMMA CopiedExecution ==
  ASSUME IInv, Held, lapses = 0, Copied, NEW p \in Process, Execution(p)
  PROVE  Copied'
<1>1. /\ op' = op /\ owed' = owed /\ raced' = raced /\ source' = source
      /\ UNCHANGED <<rollback, removed>> \/ (at[p] # "none" /\ RemoveRollback)
  BY DEF Execution, Admit, Prepare, CopyEnds, SetReference, Work, Succeed, TurnFails, Finish,
     CleanUp, Leave, Cancel, disk, local, past
<1>2. CASE UNCHANGED <<rollback, removed>>
  BY <1>1, <1>2, CopiedStays DEF Applying
<1>3. CASE at[p] # "none" /\ RemoveRollback
  <2>1. \A q \in Process : ~Applying(q)
    BY <1>3, Alone DEF IInv, Applying
  <2> QED
    BY <1>1, <1>3, <2>1, CopiedRemoved DEF Applying
<1> QED
  BY <1>1, <1>2, <1>3

\* The next file is backed up once; then it is replaced, or put back as it was.
LEMMA CopiedOperation ==
  ASSUME IInv, Held, lapses = 0, Tidy, Copied, NEW p \in Process, Operation(p)
  PROVE  Copied'
<1>0. /\ op \in [Process -> OpState] /\ owed \subseteq Version /\ source \in [File -> Content]
      /\ op[p] \in OpState
  BY DEF IInv, TypeOK
<1>1. NoOp.step = "none" /\ NoOp.backup = {}
  BY DEF NoOp
<1>2. CASE OpAdmit(p) \/ OpSave(p) \/ \E kind \in {"apply", "discard"} : OpRead(p, kind)
  <2>1. UNCHANGED <<source, owed, raced, rollback, removed>>
    BY <1>2 DEF OpAdmit, OpSave, OpRead, disk, past
  <2>2. /\ \A q \in Process : q # p => op'[q] = op[q]
        /\ op'[p].step \in {"none", "admit", "look"}
    <3>1. [NoOp EXCEPT !.step = "admit"].step = "admit"
      BY DEF NoOp
    <3>2. CASE \E kind \in {"apply", "discard"} : OpRead(p, kind)
      BY <1>0, <3>2 DEF OpRead, NoOp
    <3>3. CASE OpAdmit(p)
      BY <1>0, <1>1, <3>3 DEF OpAdmit, Returns, OpState
    <3>4. CASE OpSave(p)
      BY <1>0, <1>1, <3>4 DEF OpSave, Returns
    <3> QED
      BY <1>2, <3>2, <3>3, <3>4
  <2> QED
    BY <2>1, <2>2, CopiedStays DEF Applying
<1>3. CASE ResumeBegin(p) \/ ResumeEnd(p)
  BY <1>3, CopiedStays DEF ResumeBegin, ResumeEnd, Applying, disk, past
<1>4. CASE Look(p)
  <2>1. /\ UNCHANGED <<source, owed, raced>>
        /\ UNCHANGED <<rollback, removed>> \/ RemoveRollback
        /\ op[p].step = "look"
    BY <1>4 DEF Look, BeginApply
  <2>2. \A q \in Process : ~Applying(q) /\ op[q].backup = {}
    <3>1. \A q \in Process : q # p => op[q].step \in {"none", "admit"}
      BY <2>1, Alone DEF IInv
    <3> QED
      BY <2>1, <3>1, NoApply
  <2>3. \A q \in Process : op'[q].backup = {}
    <3>1. op'[p] = NoOp \/ op'[p].backup = op[p].backup
      <4>1. /\ \A r : [op[p] EXCEPT !.step = "save", !.result = r].backup = op[p].backup
            /\ [op[p] EXCEPT !.step = "backup", !.todo = Changed, !.base = baseline].backup
                 = op[p].backup
        BY <1>0 DEF OpState
      <4>2. OpReturns(p) \/ GoOn(p, "save", "applied") \/ GoOn(p, "save", "conflict") \/ BeginApply(p)
        BY <1>4 DEF Look
      <4>3. CASE OpReturns(p)
        BY <1>0, <4>3 DEF OpReturns, Returns
      <4>4. ASSUME NEW r, GoOn(p, "save", r) PROVE op'[p].backup = op[p].backup
        <5>1. op'[p] = [op[p] EXCEPT !.step = "save", !.result = r]
          BY <1>0, <4>4 DEF GoOn
        <5> QED
          BY <4>1, <5>1
      <4>5. ASSUME BeginApply(p) PROVE op'[p].backup = op[p].backup
        <5>1. op'[p] = [op[p] EXCEPT !.step = "backup", !.todo = Changed, !.base = baseline]
          BY <1>0, <4>5 DEF BeginApply
        <5> QED
          BY <4>1, <5>1
      <4> QED
        BY <4>2, <4>3, <4>4, <4>5
    <3>2. \A q \in Process : q # p => op'[q] = op[q]
      BY <1>0, <1>4 DEF Look, BeginApply, GoOn, OpReturns, Returns
    <3> QED
      BY <1>1, <2>2, <3>1, <3>2
  <2>4. CASE RemoveRollback
    BY <2>1, <2>3, <2>4, CopiedRemoved
  <2>5. CASE UNCHANGED <<rollback, removed>>
    BY <2>1, <2>3, <2>5 DEF Copied
  <2> QED
    BY <2>1, <2>4, <2>5
<1>5. ASSUME NEW f \in File, Backup(p, f) PROVE Copied'
  <2>1. /\ Applying(p) /\ UNCHANGED <<source, owed, raced, removed>>
        /\ rollback' = rollback \cup {<<f, source[f]>>}
        /\ \A c \in rollback : c[1] # f
    BY <1>5 DEF Backup, Blocked, Applying, past
  <2>2. \A q \in Process : q # p => ~Applying(q) /\ op'[q] = op[q]
    BY <1>0, <1>5, <2>1, Applier DEF Backup
  <2>3. op'[p].backup = op[p].backup \cup {<<f, source[f]>>}
    BY <1>0, <1>5 DEF Backup, OpState
  <2>4. op[p].backup \subseteq rollback
    BY <2>1 DEF Copied
  <2>5. \A q \in Process : Applying(q)' => op'[q].backup \subseteq rollback'
    BY <2>1, <2>2, <2>3, <2>4 DEF Applying
  <2>6. \A c, d \in rollback' : c[1] = d[1] => c = d
    BY <2>1 DEF Copied
  <2> QED
    BY <2>1, <2>5, <2>6 DEF Copied
<1>6. ASSUME NEW f \in File, Write(p, f) PROVE Copied'
  <2>1. /\ Applying(p) /\ UNCHANGED <<owed, raced, rollback, removed>>
        /\ op[p].step = "write" /\ IsNext(p, f) /\ source' = [source EXCEPT ![f] = snapshot[f]]
    BY <1>6 DEF Write, Applying, past
  <2>2. /\ op'[p].backup = op[p].backup
        /\ \A q \in Process : q # p => op'[q] = op[q]
    BY <1>0, <1>6 DEF Write, OpState
  <2>3. OnTrack(p) /\ BackupsOK(p) /\ op[p].backup \subseteq rollback
    BY <2>1, Applier DEF Copied
  <2>4. PICK b \in op[p].backup : b[1] = f
    BY <2>1, <2>3 DEF OnTrack, HasBackup
  <2>5. ASSUME NEW o \in owed \ raced, source'[o[1]] # o[2] PROVE o \in rollback \cup removed
    <3>1. o = <<o[1], o[2]>> /\ o[1] \in File
      BY <1>0 DEF Version
    <3>2. CASE o[1] = f /\ source[f] = o[2]
      <4>1. b[2] = source[f]
        BY <2>3, <2>4, <2>5, <3>1, <3>2 DEF BackupsOK
      <4>2. b = <<b[1], b[2]>>
        BY <1>0 DEF OpState, Version
      <4> QED
        BY <2>3, <2>4, <3>1, <3>2, <4>1, <4>2
    <3>3. CASE source[o[1]] # o[2]
      BY <2>5, <3>3 DEF Copied
    <3> QED
      BY <1>0, <2>1, <2>5, <3>1, <3>2, <3>3
  <2>6. \A q \in Process : Applying(q)' => op'[q].backup \subseteq rollback
    BY <2>2, <2>3 DEF Copied, Applying
  <2> QED
    BY <2>1, <2>5, <2>6 DEF Copied
<1>7. CASE Commit(p) \/ Mark(p)
  <2>1. UNCHANGED <<source, owed, raced, rollback, removed>> /\ Applying(p)
    BY <1>7 DEF Commit, Mark, Applying, past
  <2>2. /\ op'[p].step = "save" \/ op'[p].backup = op[p].backup
        /\ \A q \in Process : q # p => op'[q] = op[q]
    BY <1>0, <1>7 DEF Commit, Mark, OpState
  <2> QED
    BY <2>1, <2>2, CopiedStays DEF Applying
<1>8. CASE Discard(p)
  <2>1. UNCHANGED <<source, owed, raced, rollback, removed>>
    BY <1>8 DEF Discard, past
  <2>2. /\ op'[p].step \in {"none", "save"}
        /\ \A q \in Process : q # p => op'[q] = op[q]
    BY <1>0, <1>1, <1>8 DEF Discard, OpReturns, Returns, GoOn, OpState
  <2> QED
    BY <2>1, <2>2, CopiedStays DEF Applying
<1>9. CASE Rollback(p)
  <2>1. /\ Applying(p) /\ UNCHANGED <<owed, raced, rollback, removed>>
        /\ source' = Restored(op[p].backup)
        /\ op'[p] = NoOp /\ \A q \in Process : q # p => op'[q] = op[q]
    BY <1>0, <1>9 DEF Rollback, OpReturns, Returns, past
  <2>2. BackupsOK(p) /\ op[p].backup \subseteq rollback /\ op[p].backup \subseteq Version
    BY <1>0, <2>1, Applier DEF Copied, OpState
  <2>3. ASSUME NEW o \in owed \ raced, source'[o[1]] # o[2] PROVE o \in rollback \cup removed
    <3>1. o = <<o[1], o[2]>> /\ o[1] \in File
      BY <1>0 DEF Version
    <3>2. CASE source[o[1]] # o[2]
      BY <2>3, <3>2 DEF Copied
    <3>3. CASE source[o[1]] = o[2]
      <4>1. PICK b \in op[p].backup : b[1] = o[1]
        BY <2>1, <2>3, <3>1, <3>3 DEF Restored
      <4>2. b[2] = o[2] /\ b = <<b[1], b[2]>>
        BY <2>2, <2>3, <3>1, <3>3, <4>1 DEF BackupsOK, Version
      <4> QED
        BY <2>2, <3>1, <4>1, <4>2
    <3> QED
      BY <3>2, <3>3
  <2>4. \A q \in Process : Applying(q)' => op'[q].backup \subseteq rollback
    BY <1>1, <2>1 DEF Copied, Applying
  <2> QED
    BY <2>1, <2>3, <2>4 DEF Copied
<1> QED
  BY <1>2, <1>3, <1>4, <1>5, <1>6, <1>7, <1>8, <1>9 DEF Operation

\* Every step keeps what the rollback directory is for.
LEMMA CopiedStep ==
  ASSUME IInv, Held, lapses = 0, Tidy, Copied, [Next]_vars
  PROVE  Copied'
<1>0. op \in [Process -> OpState] /\ owed \subseteq Version /\ source \in [File -> Content]
  BY DEF IInv, TypeOK
<1>1. CASE Expire \/ UNCHANGED vars
  BY <1>1, CopiedStays DEF Expire, vars, disk, local, past, Applying
<1>2. ASSUME NEW p \in Process, Crash(p) PROVE Copied'
  <2>1. UNCHANGED <<source, owed, raced, rollback, removed>>
    BY <1>2 DEF Crash, disk
  <2>2. op'[p].step = "none" /\ \A q \in Process : q # p => op'[q] = op[q]
    BY <1>0, <1>2 DEF Crash, NoOp
  <2> QED
    BY <2>1, <2>2, CopiedStays DEF Applying
<1>3. ASSUME NEW f \in File, Edit(f) PROVE Copied'
  <2> DEFINE new == <<f, Edited(edits + 1)>>
  <2>1. /\ source' = [source EXCEPT ![f] = new[2]] /\ op' = op
        /\ owed' = (owed \ {<<f, source[f]>>}) \cup {new}
        /\ raced \subseteq raced' /\ UNCHANGED <<rollback, removed>>
    BY <1>3 DEF Edit, local
  <2>2. source'[f] = new[2] /\ \A g \in File : g # f => source'[g] = source[g]
    BY <1>0, <2>1
  <2>3. ASSUME NEW o \in owed' \ raced', source'[o[1]] # o[2] PROVE o \in rollback \cup removed
    <3>1. o # new
      BY <2>2, <2>3
    <3>2. o \in owed \ raced /\ o # <<f, source[f]>>
      BY <2>1, <2>3, <3>1
    <3>3. o = <<o[1], o[2]>> /\ o[1] \in File
      BY <1>0, <3>2 DEF Version
    <3>4. source[o[1]] # o[2]
      BY <2>2, <2>3, <3>2, <3>3
    <3> QED
      BY <3>2, <3>4 DEF Copied
  <2> QED
    BY <2>1, <2>3 DEF Copied, Applying
<1> QED
  BY <1>1, <1>2, <1>3, CopiedExecution, CopiedOperation DEF Next

-----------------------------------------------------------------------------
TidyInv == IInv /\ Held /\ (lapses = 0 => Tidy /\ Copied)

\* An early end of a lease is never undone.
LEMMA LapsesKept == ASSUME TypeOK, [Next]_vars, lapses' = 0 PROVE lapses = 0
<1>0. lapses \in Nat
  BY BoundsAssumption DEF TypeOK
<1>1. CASE UNCHANGED vars
  BY <1>1 DEF vars, bounds
<1>2. CASE Expire
  BY <1>0, <1>2 DEF Expire
<1>3. ASSUME NEW f \in File, Edit(f) PROVE lapses' = lapses
  BY <1>3 DEF Edit
<1>4. ASSUME NEW p \in Process, Crash(p) \/ Execution(p) PROVE lapses' = lapses
  BY <1>4 DEF Crash, Execution, Admit, Prepare, CopyEnds, SetReference, Work, Succeed, TurnFails,
     Finish, CleanUp, Leave, Cancel, past, bounds
<1>5. ASSUME NEW p \in Process, Operation(p) PROVE lapses' = lapses
  BY <1>5 DEF Operation, OpRead, OpAdmit, Look, Backup, Write, Commit, Mark, Rollback, Discard,
     OpSave, ResumeBegin, ResumeEnd, past, bounds
<1> QED
  BY <1>1, <1>2, <1>3, <1>4, <1>5 DEF Next

LEMMA TidyStep == ASSUME TidyInv, [Next]_vars PROVE TidyInv'
<1>1. IInv' /\ Held'
  BY FilesStep, HeldStep DEF TidyInv, IInv
<1>2. ASSUME lapses' = 0 PROVE Tidy'
  <2>1. IInv /\ Held /\ lapses = 0 /\ Tidy /\ Copied
    BY <1>2, LapsesKept DEF TidyInv, IInv
  <2>2. ASSUME NEW p \in Process, Operation(p) PROVE Tidy'
    <3>1. CASE \/ \E kind \in {"apply", "discard"} : OpRead(p, kind)
               \/ OpAdmit(p) \/ OpSave(p) \/ ResumeBegin(p) \/ ResumeEnd(p)
      BY <2>1, <3>1, AdmissionTidy
    <3>2. CASE \E f \in File : Backup(p, f) \/ Write(p, f)
      BY <2>1, <3>2, BackupTidy, WriteTidy
    <3>3. CASE Look(p) \/ Commit(p) \/ Mark(p) \/ Rollback(p) \/ Discard(p)
      BY <2>1, <3>3, LookTidy, CommitTidy, MarkTidy, RollbackTidy, DiscardTidy
    <3> QED
      BY <2>2, <3>1, <3>2, <3>3 DEF Operation
  <2>3. ASSUME NEW p \in Process, Execution(p) \/ Crash(p) PROVE Tidy'
    BY <2>1, <2>3, ExecutionTidy, CrashTidy
  <2>4. ASSUME NEW f \in File, Edit(f) PROVE Tidy'
    BY <2>1, <2>4, EditTidy
  <2>5. CASE Expire \/ UNCHANGED vars
    BY <2>1, <2>5, ExpireTidy
  <2> QED
    BY <2>2, <2>3, <2>4, <2>5 DEF Next
<1>3. ASSUME lapses' = 0 PROVE Copied'
  <2>1. IInv /\ Held /\ lapses = 0 /\ Tidy /\ Copied
    BY <1>3, LapsesKept DEF TidyInv, IInv
  <2> QED
    BY <2>1, CopiedStep
<1> QED
  BY <1>1, <1>2, <1>3 DEF TidyInv

LEMMA TidyAlways == Spec => []TidyInv
<1>1. Init => TidyInv
  BY InvInit, TidyInit, CopiedInit DEF TidyInv
<1>2. TidyInv /\ [Next]_vars => TidyInv'
  BY TidyStep
<1> QED
  BY <1>1, <1>2, PTL DEF Spec

\* applyFiles, saveCheckpoint: what the user wrote before an apply is in the source, a
\* checkpoint or the rollback directory, wherever applies fail or crash; once that directory
\* is removed, it is gone only if checkpoints keep nothing of the file or a crash left it there.
THEOREM UserBackedUp == Spec => []BackedUp
<1>1. ASSUME TidyInv PROVE BackedUp
  <2>1. ASSUME lapses = 0, NEW o \in owed \ raced, source[o[1]] # o[2],
               o \notin saved \cup rollback
        PROVE  o \in removed /\ (o[1] \notin Text \/ o \in orphaned)
    <3>1. o \in removed
      BY <1>1, <2>1 DEF TidyInv, Copied
    <3>2. \A p \in Process : o \notin op[p].backup
      BY <1>1, <2>1 DEF TidyInv, Copied, IInv, Clean
    <3> QED
      BY <1>1, <2>1, <3>1, <3>2 DEF TidyInv, Tidy, Kept
  <2> QED
    BY <2>1 DEF BackedUp
<1> QED
  BY <1>1, TidyAlways, PTL

\* FEATURE_SUBAGENT_IMPLEMENTATION.md: an apply is done or undone as a whole, for any number
\* of files and of edits by the user in the middle of it.
THEOREM AppliesWhole == Spec => []AllOrNothing
<1>1. ASSUME TidyInv PROVE AllOrNothing
  <2>1. ASSUME lapses = 0, \A p \in Process : ~Applying(p), NEW f \in Changed
        PROVE  /\ manifest = "pending" => Before(f) \/ crashes > 0
               /\ manifest = "applied" => After(f)
    <3>1. Reached /\ f \in File /\ crashes \in Nat
      BY <1>1, <2>1, BoundsAssumption DEF TidyInv, Tidy, Changed, IInv, TypeOK
    <3> QED
      BY <2>1, <3>1 DEF Reached
  <2> QED
    BY <2>1 DEF AllOrNothing, Before, After
<1> QED
  BY <1>1, TidyAlways, PTL

\* saveTaskMutation, finishSuccess: the record of a finished run's changes is what the
\* manifest says, once every operation has saved what it did.
THEOREM RecordAgrees == Spec => []ChangesAgree
<1>1. TidyInv => ChangesAgree
  BY DEF TidyInv, Tidy, Recorded, ChangesAgree, Says
<1> QED
  BY <1>1, TidyAlways, PTL
===============================================================================
