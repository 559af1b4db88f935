------------------------- MODULE SubagentTaskProofs -------------------------
(***************************************************************************)
(* Proofs about SubagentTask, for any set of processes and messages and    *)
(* any bounds.                                                             *)
(***************************************************************************)
EXTENDS SubagentTask, TLAPS

\* What a process has in memory: a record read by prepareWorkspace or a run found
\* by recovery is a run of the task, and prepareWorkspace holds `mu` while it has
\* the record in hand, so that no other execution of the process is at that point,
\* nor a cancel.
LocalOK ==
  /\ status = "none" <=> currentRun = 0
  /\ \A p \in Process :
       /\ snapshot[p] # NoSnapshot =>
            snapshot[p].run \in Run /\ snapshot[p].status # "none"
       /\ canceling[p] # NoSnapshot => snapshot[p] = NoSnapshot
       /\ recovery[p].step # "idle" => recovery[p].run \in Run
       /\ \A r \in Run : pc[p][r] = "preparing" =>
            /\ snapshot[p] # NoSnapshot
            /\ \A s \in Run : pc[p][s] = "preparing" => r = s

\* The type of every variable is one that Init establishes.
LEMMA TypeInit == ASSUME Init PROVE TypeOK /\ LocalOK
  BY ConstantsAssumption DEF Init, TypeOK, LocalOK, Run, Mailbox, Recovery,
     Idle, PC, TaskStatus, RunStatus

\* Moving an execution keeps the type of pc.
LEMMA GotoType ==
  ASSUME TypeOK, NEW p \in Process, NEW r \in Run, NEW l \in PC, Goto(p, r, l)
  PROVE  pc' \in [Process -> [Run -> PC]]
  BY DEF TypeOK, Goto

\* Making messages pending again keeps the types of the mailbox and its envelopes.
LEMMA ReleaseType ==
  ASSUME TypeOK, NEW p \in Process, NEW r \in Run, NEW ms, Release(p, r, ms)
  PROVE  /\ mailbox' \in Mailbox
         /\ envelope' \in [Message -> {"none", "pending", "delivering", "delivered"}]
         /\ claimed' \in [Process -> [Run -> SUBSET Message]]
<1>1. mailbox' \in Mailbox
  BY DEF TypeOK, Release, Mailbox
<1>2. envelope' \in [Message -> {"none", "pending", "delivering", "delivered"}]
  BY DEF TypeOK, Release
<1>3. claimed' \in [Process -> [Run -> SUBSET Message]]
  BY DEF TypeOK, Release
<1> QED
  BY <1>1, <1>2, <1>3

\* A save under the lease keeps the types of the task and its runs.
LEMMA SaveType ==
  ASSUME TypeOK, NEW p, NEW r \in Run, NEW v \in TaskStatus \ {"none", "waiting"},
         SaveOwned(p, r, v, v)
  PROVE  /\ status' \in TaskStatus /\ currentRun' \in 0..MaxRuns
         /\ runStatus' \in [Run -> RunStatus]
  BY ConstantsAssumption
     DEF TypeOK, SaveOwned, TaskStatus, RunStatus, TerminalStatus, Run

\* Every action of the service keeps the types.
LEMMA TypeStep ==
  ASSUME TypeOK, LocalOK, [Next]_vars PROVE TypeOK'
<1> USE ConstantsAssumption, NullsAssumption
    DEF TypeOK, task, messages, execution, local, inHand, bounds, Run, Mailbox, Lease,
        TaskStatus, RunStatus, TerminalStatus, Goto, Fault
<1>1. CASE UNCHANGED vars
  BY <1>1 DEF vars
<1>2. CASE Expire
  BY <1>2 DEF Expire
<1>3. ASSUME NEW p \in Process, Start(p) PROVE TypeOK'
  BY <1>3 DEF Start, PC, Watched
<1>4. ASSUME NEW p \in Process, CancelRead(p) \/ CancelSave(p) PROVE TypeOK'
  <2>1. CASE CancelRead(p)
    <3>1. currentRun \in Run
      BY <2>1 DEF CancelRead, NonTerminal, LocalOK
    <3>2. canceling' \in [Process -> Canceling \cup {NoSnapshot}]
      BY <2>1, <3>1 DEF CancelRead, Canceling
    <3>3. faults' \in 0..MaxFaults
      BY <2>1 DEF CancelRead
    <3>4. ctxDone' \in [Process -> SUBSET Run]
      BY <2>1, <3>1 DEF CancelRead
    <3> QED
      BY <2>1, <3>2, <3>3, <3>4 DEF CancelRead
  <2>2. CASE CancelSave(p)
    <3>1. canceling[p].run \in Run /\ canceling[p].mailbox \in Mailbox
      BY <2>2 DEF CancelSave, Canceling
    <3>2. /\ mailbox' \in Mailbox /\ status' \in TaskStatus
          /\ runStatus' \in [Run -> RunStatus]
      BY <2>2, <3>1 DEF CancelSave
    <3>4. faults' \in 0..MaxFaults
      BY <2>2 DEF CancelSave
    <3>3. canceling' \in [Process -> Canceling \cup {NoSnapshot}]
      BY <2>2 DEF CancelSave
    <3> QED
      BY <2>2, <3>2, <3>3, <3>4 DEF CancelSave
  <2> QED
    BY <1>4, <2>1, <2>2
<1>5. ASSUME NEW p \in Process, Shutdown(p) PROVE TypeOK'
  BY <1>5 DEF Shutdown
<1>6. ASSUME NEW p \in Process, Crash(p) PROVE TypeOK'
  BY <1>6 DEF Crash, Reset, Recovery, Idle, PC
<1>7. ASSUME NEW p \in Process, Restart(p) PROVE TypeOK'
  BY <1>7 DEF Restart, Reset, Recovery, Idle, PC
<1>8. ASSUME NEW p \in Process, RecoverScan(p) PROVE TypeOK'
  BY <1>8 DEF RecoverScan, Recovery
<1>9. ASSUME NEW p \in Process, RecoverAcquire(p) PROVE TypeOK'
  BY <1>9 DEF RecoverAcquire, LocalOK, RecoveryTo, Recovery
<1>10. ASSUME NEW p \in Process, RecoverSkip(p) PROVE TypeOK'
  BY <1>10 DEF RecoverSkip, RecoveryDone, Recovery, Idle
<1>11. ASSUME NEW p \in Process, RecoverRequeue(p) PROVE TypeOK'
  BY <1>11 DEF RecoverRequeue, LocalOK, RecoveryTo, Recovery, SaveOwned
<1>12. ASSUME NEW p \in Process, RecoverAbandon(p) PROVE TypeOK'
  BY <1>12 DEF RecoverAbandon, ReleaseLeaseOf, RecoveryDone, Recovery, Idle
<1>13. ASSUME NEW p \in Process, RecoverSubmit(p) PROVE TypeOK'
  BY <1>13 DEF RecoverSubmit, LocalOK, RecoveryDone, Recovery, Idle, PC, Watched
<1>14. ASSUME NEW p \in Process, RecoverSubmitRefused(p) PROVE TypeOK'
  BY <1>14 DEF RecoverSubmitRefused, ReleaseLeaseOf, RecoveryDone, Recovery, Idle
<1>15. ASSUME NEW p \in Process, NEW id \in TurnMessage \cup {NoMessage}, Followup(p, id)
     PROVE TypeOK'
  BY <1>15 DEF Followup, PC, Watched
<1>16. ASSUME NEW p \in Process, NEW m \in Message, SendMessage(p, m) PROVE TypeOK'
  BY <1>16 DEF SendMessage
<1>17. ASSUME NEW p \in Process, NEW r \in Run, Schedule(p, r) PROVE TypeOK'
  BY <1>17 DEF Schedule, Advance, PC, Watched
<1>18. ASSUME NEW p \in Process, NEW r \in Run, ScheduleRefused(p, r) PROVE TypeOK'
  <2> HIDE DEF TypeOK, Goto
  <2>1. PICK l \in PC : Goto(p, r, l)
    BY <1>18 DEF ScheduleRefused, PC, Watched
  <2>2. pc' \in [Process -> [Run -> PC]]
    BY <2>1, GotoType
  <2>3. CASE SaveOwned(p, r, "failed", "failed")
    <3>1. /\ status' \in TaskStatus /\ currentRun' \in 0..MaxRuns
          /\ runStatus' \in [Run -> RunStatus]
      BY <2>3, SaveType
    <3> QED
      BY <1>18, <2>2, <3>1 DEF ScheduleRefused, TypeOK
  <2>4. CASE UNCHANGED <<status, currentRun, runStatus>>
    BY <1>18, <2>2, <2>4 DEF ScheduleRefused, TypeOK
  <2> QED
    BY <1>18, <2>3, <2>4 DEF ScheduleRefused
<1>19. ASSUME NEW p \in Process, NEW r \in Run, StartExecution(p, r) PROVE TypeOK'
  BY <1>19 DEF StartExecution, Advance, PC, Watched
<1>20. ASSUME NEW p \in Process, NEW r \in Run, RefuseExecution(p, r) PROVE TypeOK'
  BY <1>20 DEF RefuseExecution, PC, Watched
<1>21. ASSUME NEW p \in Process, NEW r \in Run, Begin(p, r) PROVE TypeOK'
  <2> HIDE DEF TypeOK, Goto
  <2>1. PICK l \in PC : Goto(p, r, l)
    BY <1>21 DEF Begin, PC, Watched
  <2>2. pc' \in [Process -> [Run -> PC]]
    BY <2>1, GotoType
  <2>3. CASE SaveOwned(p, r, "running", "running")
    <3>1. /\ status' \in TaskStatus /\ currentRun' \in 0..MaxRuns
          /\ runStatus' \in [Run -> RunStatus]
      BY <2>3, SaveType
    <3> QED
      BY <1>21, <2>2, <3>1 DEF Begin, TypeOK
  <2>4. CASE UNCHANGED <<status, currentRun, runStatus>>
    BY <1>21, <2>2, <2>4 DEF Begin, TypeOK
  <2> QED
    BY <1>21, <2>3, <2>4 DEF Begin
<1>22. ASSUME NEW p \in Process, NEW r \in Run, PrepareRead(p, r) PROVE TypeOK'
  <2> HIDE DEF TypeOK, Goto
  <2>1. PICK l \in PC : Goto(p, r, l)
    BY <1>22 DEF PrepareRead, PC, Watched
  <2>2. pc' \in [Process -> [Run -> PC]]
    BY <2>1, GotoType
  <2>3. status \in TaskStatus /\ currentRun \in 0..MaxRuns /\ mailbox \in Mailbox
        /\ snapshot \in [Process -> Snapshot \cup {NoSnapshot}]
    BY DEF TypeOK
  <2>4. snapshot' \in [Process -> Snapshot \cup {NoSnapshot}]
    BY <1>22, <2>3 DEF PrepareRead, Snapshot
  <2> QED
    BY <1>22, <2>2, <2>4 DEF PrepareRead, TypeOK
<1>23. ASSUME NEW p \in Process, NEW r \in Run, PrepareSave(p, r) PROVE TypeOK'
  BY <1>23 DEF LocalOK, PrepareSave, Snapshot, PC, Watched
<1>24. ASSUME NEW p \in Process, NEW r \in Run, PrepareFail(p, r) PROVE TypeOK'
  BY <1>24 DEF PrepareFail, Advance, PC, Watched
<1>25. ASSUME NEW p \in Process, NEW r \in Run, ModelAnswers(p, r) PROVE TypeOK'
  BY <1>25 DEF ModelAnswers, Advance, PC, Watched
<1>26. ASSUME NEW p \in Process, NEW r \in Run, ModelFails(p, r) PROVE TypeOK'
  BY <1>26 DEF ModelFails, Advance, PC, Watched
<1>27. ASSUME NEW p \in Process, NEW r \in Run, TurnFails(p, r) PROVE TypeOK'
  <2> HIDE DEF TypeOK, Goto
  <2>1. pc' \in [Process -> [Run -> PC]]
    <3>1. Goto(p, r, "failing") /\ "failing" \in PC
      BY <1>27 DEF TurnFails, PC, Watched
    <3> QED
      BY <3>1, GotoType
  <2>2. followUp' \in [Process -> [Run -> Message \cup {NoMessage}]]
    BY <1>27 DEF TurnFails, TurnEnds, TypeOK
  <2>3. Release(p, r, claimed[p][r] \cap {followUp[p][r]})
    BY <1>27 DEF TurnFails
  <2> QED
    BY <1>27, <2>1, <2>2, <2>3, ReleaseType DEF TurnFails, TypeOK
<1>28. ASSUME NEW p \in Process, NEW r \in Run, Panic(p, r) PROVE TypeOK'
  <2> HIDE DEF TypeOK, Goto
  <2>1. pc' \in [Process -> [Run -> PC]]
    <3>1. Goto(p, r, "panicked") /\ "panicked" \in PC
      BY <1>28 DEF Panic, PC, Watched
    <3> QED
      BY <3>1, GotoType
  <2>2. followUp' \in [Process -> [Run -> Message \cup {NoMessage}]]
    BY <1>28 DEF Panic, TurnEnds, TypeOK
  <2>3. Release(p, r, claimed[p][r])
    BY <1>28 DEF Panic
  <2> QED
    BY <1>28, <2>1, <2>2, <2>3, ReleaseType DEF Panic, TypeOK
<1>29. ASSUME NEW p \in Process, NEW r \in Run, InjectedSettled(p, r) PROVE TypeOK'
  BY <1>29 DEF InjectedSettled, Advance, PC, Watched
<1>30. ASSUME NEW p \in Process, NEW r \in Run, FinishSuccess(p, r) PROVE TypeOK'
  BY <1>30 DEF FinishSuccess, SaveOwned, PC, Watched
<1>31. ASSUME NEW p \in Process, NEW r \in Run, FinishStale(p, r) PROVE TypeOK'
  BY <1>31 DEF FinishStale, Advance, PC, Watched
<1>32. ASSUME NEW p \in Process, NEW r \in Run, CollectFails(p, r) PROVE TypeOK'
  BY <1>32 DEF CollectFails, Advance, PC, Watched
<1>33. ASSUME NEW p \in Process, NEW r \in Run, ExitLost(p, r) PROVE TypeOK'
  BY <1>33 DEF ExitLost, Advance, PC, Watched
<1>34. ASSUME NEW p \in Process, NEW r \in Run, LeaseKept(p, r) PROVE TypeOK'
  BY <1>34 DEF LeaseKept, Advance, PC, Watched
<1>35. ASSUME NEW p \in Process, NEW r \in Run, FinishError(p, r) PROVE TypeOK'
  <2> HIDE DEF TypeOK, Goto
  <2>1. PICK l \in PC : Goto(p, r, l)
    BY <1>35 DEF FinishError, PC, Watched
  <2>2. pc' \in [Process -> [Run -> PC]]
    BY <2>1, GotoType
  <2>3. ASSUME NEW v \in Verdicts(p, r), SaveOwned(p, r, v, v) PROVE TypeOK'
    <3>1. /\ status' \in TaskStatus /\ currentRun' \in 0..MaxRuns
          /\ runStatus' \in [Run -> RunStatus]
      BY <2>3, SaveType DEF Verdicts
    <3> QED
      BY <1>35, <2>2, <3>1 DEF FinishError, TypeOK
  <2>4. CASE UNCHANGED <<status, currentRun, runStatus>>
    BY <1>35, <2>2, <2>4 DEF FinishError, TypeOK
  <2> QED
    BY <1>35, <2>3, <2>4 DEF FinishError
<1>36. ASSUME NEW p \in Process, NEW r \in Run, NotifyParent(p, r) PROVE TypeOK'
  BY <1>36 DEF NotifyParent, PC, Watched
<1>37. ASSUME NEW p \in Process, NEW r \in Run, ReleaseInjected(p, r) PROVE TypeOK'
  BY <1>37 DEF ReleaseInjected, Release, PC, Watched
<1>38. ASSUME NEW p \in Process, NEW r \in Run, CompleteActive(p, r) PROVE TypeOK'
  BY <1>38 DEF CompleteActive, PC, Watched
<1>39. ASSUME NEW p \in Process, NEW r \in Run, EndExecution(p, r) PROVE TypeOK'
  BY <1>39 DEF EndExecution, ReleaseLeaseOf, PC, Watched
<1>40. ASSUME NEW p \in Process, NEW r \in Run, WaitForChildren(p, r) PROVE TypeOK'
  BY <1>40 DEF WaitForChildren, Wait, PC, Watched
<1>41. ASSUME NEW p \in Process, NEW r \in Run, RestoreRunning(p, r) PROVE TypeOK'
  BY <1>41 DEF RestoreRunning, Wait, PC, Watched
<1>42. ASSUME NEW p \in Process, NEW r \in Run, LoseLease(p, r) PROVE TypeOK'
  BY <1>42 DEF LoseLease, PC, Watched
<1>43. ASSUME NEW p \in Process, NEW r \in Run, ObserveCancel(p, r) PROVE TypeOK'
  BY <1>43 DEF ObserveCancel, PC, Watched
<1>44. ASSUME NEW p \in Process, NEW r \in Run, NEW m \in Message, AckInjected(p, r, m)
     PROVE TypeOK'
  <2>1. pc' \in [Process -> [Run -> PC]]
    <3>1. CASE UNCHANGED pc
      BY <3>1
    <3>2. CASE Goto(p, r, "failing")
      BY <3>2, GotoType DEF PC, Watched
    <3> QED
      BY <1>44, <3>1, <3>2 DEF AckInjected
  <2>2. CASE Acknowledge(p, r, m)
    BY <1>44, <2>1, <2>2 DEF AckInjected, Acknowledge
  <2>3. CASE UNCHANGED messages
    BY <1>44, <2>1, <2>3 DEF AckInjected
  <2> QED
    BY <1>44, <2>2, <2>3 DEF AckInjected
<1>45. ASSUME NEW p \in Process, NEW r \in Run, NEW m \in Message, FollowUpTurn(p, r, m)
     PROVE TypeOK'
  BY <1>45 DEF FollowUpTurn, Claim, PC, Watched
<1>46. ASSUME NEW p \in Process, NEW r \in Run, NEW m \in Message, TurnAnswers(p, r, m)
     PROVE TypeOK'
  <2> HIDE DEF TypeOK, Goto
  <2>1. pc' \in [Process -> [Run -> PC]]
    <3>1. Goto(p, r, "loop") /\ "loop" \in PC
      BY <1>46 DEF TurnAnswers, PC, Watched
    <3> QED
      BY <3>1, GotoType
  <2>2. followUp' \in [Process -> [Run -> Message \cup {NoMessage}]]
    BY <1>46 DEF TurnAnswers, TurnEnds, TypeOK
  <2>3. Acknowledge(p, r, m)
    BY <1>46 DEF TurnAnswers
  <2>4. /\ mailbox' \in Mailbox
        /\ envelope' \in [Message -> {"none", "pending", "delivering", "delivered"}]
        /\ claimed' \in [Process -> [Run -> SUBSET Message]]
    BY <2>3 DEF Acknowledge, TypeOK, Mailbox
  <2> QED
    BY <1>46, <2>1, <2>2, <2>4 DEF TurnAnswers, TypeOK
<1>47. ASSUME NEW p \in Process, NEW r \in Run, NEW m \in Message, InjectMessage(p, r, m)
     PROVE TypeOK'
  BY <1>47 DEF InjectMessage, Claim, PC, Watched
<1>48. ASSUME NEW p \in Process, NEW r \in Run, EnterLoop(p, r) PROVE TypeOK'
  BY <1>48 DEF EnterLoop, Advance, PC, Watched
<1>49. ASSUME NEW p \in Process, NEW r \in Run, MailboxDrained(p, r) PROVE TypeOK'
  BY <1>49 DEF MailboxDrained, Advance, PC, Watched
<1>50. ASSUME NEW p \in Process, NEW r \in Run, MailboxPending(p, r) PROVE TypeOK'
  BY <1>50 DEF MailboxPending, Advance, PC, Watched
<1> QED
  BY <1>1, <1>2, <1>3, <1>4, <1>5, <1>6, <1>7, <1>8, <1>9, <1>10, <1>11, <1>12,
     <1>13, <1>14, <1>15, <1>16, <1>17, <1>18, <1>19, <1>20, <1>21, <1>22, <1>23,
     <1>24, <1>25, <1>26, <1>27, <1>28, <1>29, <1>30, <1>31, <1>32, <1>33, <1>34,
     <1>35, <1>36, <1>37, <1>38, <1>39, <1>40, <1>41, <1>42, <1>43, <1>44, <1>45,
     <1>46, <1>47, <1>48, <1>49, <1>50, ZenonT(40)
     DEF Next, Command, Admit, Enter, Turn, Finish, Tool, Watcher, Recover

\* A step that moves one execution and leaves the memory of the processes alone.
LEMMA GotoLocal ==
  ASSUME TypeOK, LocalOK, NEW p \in Process, NEW r \in Run,
         NEW l \in PC \ {"preparing"}, Goto(p, r, l),
         status' = "none" <=> currentRun' = 0, UNCHANGED <<inHand, recovery>>
  PROVE  LocalOK'
  BY DEF TypeOK, LocalOK, Goto, Run, inHand

\* What a process has in memory stays sound.
LEMMA LocalStep ==
  ASSUME TypeOK, LocalOK, [Next]_vars PROVE LocalOK'
<1> USE ConstantsAssumption, NullsAssumption
    DEF TypeOK, LocalOK, task, messages, execution, local, inHand, bounds, Run, Goto
<1>1. CASE UNCHANGED vars
  BY <1>1 DEF vars
<1>2. CASE Expire
  BY <1>2 DEF Expire
<1>3. ASSUME NEW p \in Process, Start(p) PROVE LocalOK'
  BY <1>3 DEF Start
<1>4. ASSUME NEW p \in Process, CancelRead(p) \/ CancelSave(p) PROVE LocalOK'
  <2>1. CASE CancelRead(p)
    BY <2>1 DEF CancelRead, MuFree
  <2>2. CASE CancelSave(p)
    <3>1. canceling[p].run \in Run
      BY <2>2 DEF CancelSave, Canceling
    <3> QED
      BY <2>2, <3>1 DEF CancelSave, CanCancel
  <2> QED
    BY <1>4, <2>1, <2>2
<1>5. ASSUME NEW p \in Process, Shutdown(p) PROVE LocalOK'
  BY <1>5 DEF Shutdown
<1>6. ASSUME NEW p \in Process, Crash(p) PROVE LocalOK'
  BY <1>6 DEF Crash, Reset, Idle, Recovery
<1>7. ASSUME NEW p \in Process, Restart(p) PROVE LocalOK'
  BY <1>7 DEF Restart, Reset, Idle, Recovery
<1>8. ASSUME NEW p \in Process, RecoverScan(p) PROVE LocalOK'
  BY <1>8 DEF RecoverScan, NonTerminal, Recovery
<1>9. ASSUME NEW p \in Process, RecoverAcquire(p) PROVE LocalOK'
  BY <1>9 DEF RecoverAcquire, RecoveryTo, Recovery
<1>10. ASSUME NEW p \in Process, RecoverSkip(p) PROVE LocalOK'
  BY <1>10 DEF RecoverSkip, RecoveryDone, Idle, Recovery
<1>11. ASSUME NEW p \in Process, RecoverRequeue(p) PROVE LocalOK'
  BY <1>11 DEF RecoverRequeue, RecoveryTo, SaveOwned, Recovery
<1>12. ASSUME NEW p \in Process, RecoverAbandon(p) PROVE LocalOK'
  BY <1>12 DEF RecoverAbandon, RecoveryDone, Idle, Recovery
<1>13. ASSUME NEW p \in Process, RecoverSubmit(p) PROVE LocalOK'
  BY <1>13 DEF RecoverSubmit, RecoveryDone, Idle, Recovery
<1>14. ASSUME NEW p \in Process, RecoverSubmitRefused(p) PROVE LocalOK'
  BY <1>14 DEF RecoverSubmitRefused, RecoveryDone, Idle, Recovery
<1>15. ASSUME NEW p \in Process, NEW id \in TurnMessage \cup {NoMessage}, Followup(p, id)
     PROVE LocalOK'
  BY <1>15 DEF Followup
<1>16. ASSUME NEW p \in Process, NEW m \in Message, SendMessage(p, m) PROVE LocalOK'
  BY <1>16 DEF SendMessage, NonTerminal
<1>17. ASSUME NEW p \in Process, NEW r \in Run, Schedule(p, r) PROVE LocalOK'
  BY <1>17 DEF Schedule, Advance
<1>18. ASSUME NEW p \in Process, NEW r \in Run, ScheduleRefused(p, r) PROVE LocalOK'
  <2> HIDE DEF TypeOK, LocalOK, Goto
  <2>1. PICK l \in PC \ {"preparing"} : Goto(p, r, l)
    BY <1>18 DEF ScheduleRefused, PC, Watched
  <2>2. UNCHANGED <<inHand, recovery>>
    BY <1>18 DEF ScheduleRefused
  <2>3. CASE SaveOwned(p, r, "failed", "failed")
    BY <2>1, <2>2, <2>3, GotoLocal DEF SaveOwned
  <2>4. CASE UNCHANGED <<status, currentRun, runStatus>>
    BY <2>1, <2>2, <2>4, GotoLocal DEF LocalOK
  <2> QED
    BY <1>18, <2>3, <2>4 DEF ScheduleRefused
<1>19. ASSUME NEW p \in Process, NEW r \in Run, StartExecution(p, r) PROVE LocalOK'
  BY <1>19 DEF StartExecution, Advance
<1>20. ASSUME NEW p \in Process, NEW r \in Run, RefuseExecution(p, r) PROVE LocalOK'
  BY <1>20 DEF RefuseExecution
<1>21. ASSUME NEW p \in Process, NEW r \in Run, Begin(p, r) PROVE LocalOK'
  <2> HIDE DEF TypeOK, LocalOK, Goto
  <2>1. PICK l \in PC \ {"preparing"} : Goto(p, r, l)
    BY <1>21 DEF Begin, PC, Watched
  <2>2. UNCHANGED <<inHand, recovery>>
    BY <1>21 DEF Begin
  <2>3. CASE SaveOwned(p, r, "running", "running")
    BY <2>1, <2>2, <2>3, GotoLocal DEF SaveOwned
  <2>4. CASE UNCHANGED <<status, currentRun, runStatus>>
    BY <2>1, <2>2, <2>4, GotoLocal DEF LocalOK
  <2> QED
    BY <1>21, <2>3, <2>4 DEF Begin
<1>22. ASSUME NEW p \in Process, NEW r \in Run, PrepareRead(p, r) PROVE LocalOK'
  <2>1. CASE Goto(p, r, "failing") /\ UNCHANGED snapshot
    <3> HIDE DEF TypeOK, LocalOK, Goto
    <3> QED
      BY <1>22, <2>1, GotoLocal DEF PrepareRead, LocalOK, PC, Watched
  <2>2. CASE Goto(p, r, "preparing")
    <3>1. /\ snapshot[p] = NoSnapshot /\ canceling[p] = NoSnapshot
          /\ \A s \in Run : pc[p][s] # "preparing"
      BY <1>22 DEF PrepareRead, MuFree
    <3>2. /\ status # "none"
          /\ snapshot' = [snapshot EXCEPT ![p] =
               [status |-> status, run |-> r, mailbox |-> mailbox]]
          /\ [status |-> status, run |-> r, mailbox |-> mailbox] # NoSnapshot
      BY <1>22, <2>2 DEF PrepareRead, Snapshot
    <3>3. /\ snapshot'[p] # NoSnapshot /\ snapshot'[p].run = r /\ snapshot'[p].status # "none"
          /\ \A q \in Process : q # p => snapshot'[q] = snapshot[q]
      BY <3>2
    <3>4. /\ \A s \in Run : pc'[p][s] = "preparing" => s = r
          /\ \A q \in Process : q # p => pc'[q] = pc[q]
      BY <2>2, <3>1
    <3>5. UNCHANGED <<status, currentRun, canceling, recovery>>
      BY <1>22 DEF PrepareRead
    <3>6. LocalOK /\ r \in Run
      BY <1>22
    <3> HIDE DEF TypeOK, Goto, Run
    <3> QED
      BY <3>1, <3>3, <3>4, <3>5, <3>6
  <2> QED
    BY <1>22, <2>1, <2>2 DEF PrepareRead
<1>23. ASSUME NEW p \in Process, NEW r \in Run, PrepareSave(p, r) PROVE LocalOK'
  BY <1>23 DEF PrepareSave
<1>24. ASSUME NEW p \in Process, NEW r \in Run, PrepareFail(p, r) PROVE LocalOK'
  BY <1>24 DEF PrepareFail, Advance
<1>25. ASSUME NEW p \in Process, NEW r \in Run, ModelAnswers(p, r) PROVE LocalOK'
  BY <1>25 DEF ModelAnswers, Advance
<1>26. ASSUME NEW p \in Process, NEW r \in Run, ModelFails(p, r) PROVE LocalOK'
  BY <1>26 DEF ModelFails, Advance
<1>27. ASSUME NEW p \in Process, NEW r \in Run, TurnFails(p, r) PROVE LocalOK'
  <2> HIDE DEF TypeOK, LocalOK, Goto
  <2> QED
    BY <1>27, GotoLocal DEF TurnFails, LocalOK, PC, Watched
<1>28. ASSUME NEW p \in Process, NEW r \in Run, Panic(p, r) PROVE LocalOK'
  <2> HIDE DEF TypeOK, LocalOK, Goto
  <2> QED
    BY <1>28, GotoLocal DEF Panic, LocalOK, PC, Watched
<1>29. ASSUME NEW p \in Process, NEW r \in Run, InjectedSettled(p, r) PROVE LocalOK'
  BY <1>29 DEF InjectedSettled, Advance
<1>30. ASSUME NEW p \in Process, NEW r \in Run, FinishSuccess(p, r) PROVE LocalOK'
  BY <1>30 DEF FinishSuccess, SaveOwned
<1>31. ASSUME NEW p \in Process, NEW r \in Run, FinishStale(p, r) PROVE LocalOK'
  BY <1>31 DEF FinishStale, Advance
<1>32. ASSUME NEW p \in Process, NEW r \in Run, CollectFails(p, r) PROVE LocalOK'
  BY <1>32 DEF CollectFails, Advance
<1>33. ASSUME NEW p \in Process, NEW r \in Run, ExitLost(p, r) PROVE LocalOK'
  BY <1>33 DEF ExitLost, Advance
<1>34. ASSUME NEW p \in Process, NEW r \in Run, LeaseKept(p, r) PROVE LocalOK'
  BY <1>34 DEF LeaseKept, Advance
<1>35. ASSUME NEW p \in Process, NEW r \in Run, FinishError(p, r) PROVE LocalOK'
  <2> HIDE DEF TypeOK, LocalOK, Goto
  <2>1. PICK l \in PC \ {"preparing"} : Goto(p, r, l)
    BY <1>35 DEF FinishError, PC, Watched
  <2>2. UNCHANGED <<inHand, recovery>>
    BY <1>35 DEF FinishError
  <2>3. ASSUME NEW v \in Verdicts(p, r), SaveOwned(p, r, v, v) PROVE LocalOK'
    BY <2>1, <2>2, <2>3, GotoLocal DEF SaveOwned, Verdicts
  <2>4. CASE UNCHANGED <<status, currentRun, runStatus>>
    BY <2>1, <2>2, <2>4, GotoLocal DEF LocalOK
  <2> QED
    BY <1>35, <2>3, <2>4 DEF FinishError
<1>36. ASSUME NEW p \in Process, NEW r \in Run, NotifyParent(p, r) PROVE LocalOK'
  BY <1>36 DEF NotifyParent
<1>37. ASSUME NEW p \in Process, NEW r \in Run, ReleaseInjected(p, r) PROVE LocalOK'
  BY <1>37 DEF ReleaseInjected, Release
<1>38. ASSUME NEW p \in Process, NEW r \in Run, CompleteActive(p, r) PROVE LocalOK'
  BY <1>38 DEF CompleteActive
<1>39. ASSUME NEW p \in Process, NEW r \in Run, EndExecution(p, r) PROVE LocalOK'
  BY <1>39 DEF EndExecution
<1>40. ASSUME NEW p \in Process, NEW r \in Run, WaitForChildren(p, r) PROVE LocalOK'
  BY <1>40 DEF WaitForChildren, Wait
<1>41. ASSUME NEW p \in Process, NEW r \in Run, RestoreRunning(p, r) PROVE LocalOK'
  BY <1>41 DEF RestoreRunning, Wait
<1>42. ASSUME NEW p \in Process, NEW r \in Run, LoseLease(p, r) PROVE LocalOK'
  BY <1>42 DEF LoseLease
<1>43. ASSUME NEW p \in Process, NEW r \in Run, ObserveCancel(p, r) PROVE LocalOK'
  BY <1>43 DEF ObserveCancel
<1>44. ASSUME NEW p \in Process, NEW r \in Run, NEW m \in Message, AckInjected(p, r, m)
     PROVE LocalOK'
  <2>1. CASE UNCHANGED pc
    BY <1>44, <2>1 DEF AckInjected
  <2>2. CASE Goto(p, r, "failing")
    <3> HIDE DEF TypeOK, LocalOK, Goto
    <3> QED
      BY <1>44, <2>2, GotoLocal DEF AckInjected, LocalOK, PC, Watched
  <2> QED
    BY <1>44, <2>1, <2>2 DEF AckInjected
<1>45. ASSUME NEW p \in Process, NEW r \in Run, NEW m \in Message, FollowUpTurn(p, r, m)
     PROVE LocalOK'
  BY <1>45 DEF FollowUpTurn, Claim
<1>46. ASSUME NEW p \in Process, NEW r \in Run, NEW m \in Message, TurnAnswers(p, r, m)
     PROVE LocalOK'
  <2> HIDE DEF TypeOK, LocalOK, Goto
  <2> QED
    BY <1>46, GotoLocal DEF TurnAnswers, LocalOK, PC, Watched
<1>47. ASSUME NEW p \in Process, NEW r \in Run, NEW m \in Message, InjectMessage(p, r, m)
     PROVE LocalOK'
  BY <1>47 DEF InjectMessage, Claim
<1>48. ASSUME NEW p \in Process, NEW r \in Run, EnterLoop(p, r) PROVE LocalOK'
  BY <1>48 DEF EnterLoop, Advance
<1>49. ASSUME NEW p \in Process, NEW r \in Run, MailboxDrained(p, r) PROVE LocalOK'
  BY <1>49 DEF MailboxDrained, Advance
<1>50. ASSUME NEW p \in Process, NEW r \in Run, MailboxPending(p, r) PROVE LocalOK'
  BY <1>50 DEF MailboxPending, Advance
<1> QED
  BY <1>1, <1>2, <1>3, <1>4, <1>5, <1>6, <1>7, <1>8, <1>9, <1>10, <1>11, <1>12,
     <1>13, <1>14, <1>15, <1>16, <1>17, <1>18, <1>19, <1>20, <1>21, <1>22, <1>23,
     <1>24, <1>25, <1>26, <1>27, <1>28, <1>29, <1>30, <1>31, <1>32, <1>33, <1>34,
     <1>35, <1>36, <1>37, <1>38, <1>39, <1>40, <1>41, <1>42, <1>43, <1>44, <1>45,
     <1>46, <1>47, <1>48, <1>49, <1>50, ZenonT(60)
     DEF Next, Command, Admit, Enter, Turn, Finish, Tool, Watcher, Recover

\* Every reachable state has the types of TypeOK, for any processes, messages and
\* bounds: no interleaving of instances, crashes and late goroutines writes a value
\* that the records or the registry cannot hold.
THEOREM TypeCorrect == Spec => []TypeOK
<1>1. Init => TypeOK /\ LocalOK
  BY TypeInit
<1>2. TypeOK /\ LocalOK /\ [Next]_vars => (TypeOK /\ LocalOK)'
  BY TypeStep, LocalStep
<1> QED
  BY <1>1, <1>2, PTL DEF Spec

-----------------------------------------------------------------------------
(* What a step does to the records that outlive a process.  The unguarded  *)
(* SaveTask of prepareWorkspace can write any record back that another     *)
(* instance has changed meanwhile (see CancelKept), so these results are   *)
(* about direct workspaces and about a single instance, whose `mu` keeps   *)
(* the record as it was read.                                              *)

SoleWriter == ~Isolated \/ \A p, q \in Process : p = q

\* The record prepareWorkspace has in hand is the stored one.
SnapshotFresh ==
  \A p \in Process :
    /\ snapshot[p] # NoSnapshot =>
         snapshot[p] = [status |-> status, run |-> currentRun, mailbox |-> mailbox]
    /\ ~Isolated =>
         snapshot[p] = NoSnapshot /\ \A r \in Run : pc[p][r] \notin {"prepare", "preparing"}

\* The service writes the records in few ways: it opens the next run, ...
OpenRun ==
  /\ status \in {"none", "succeeded", "failed"}
  /\ currentRun + 1 \in Run
  /\ status' = "queued"
  /\ currentRun' = currentRun + 1
  /\ runStatus' = [runStatus EXCEPT ![currentRun + 1] = "queued"]

\* ... writes the task and its current run together while the task is not terminal, ...
WriteRun(v) ==
  /\ NonTerminal
  /\ v = "succeeded" => MailboxEmpty
  /\ status' = v
  /\ currentRun' = currentRun
  /\ runStatus' = [runStatus EXCEPT ![currentRun] = v]

\* ... or only the task, while its run waits for its children, ...
MarkWaiting ==
  /\ status \in {"running", "waiting"} /\ status' \in {"running", "waiting"}
  /\ UNCHANGED <<currentRun, runStatus>>

\* ... or, canceled, with whatever mailbox the task had when Cancel read it, ...
CancelRun ==
  /\ NonTerminal \/ status = "canceled"
  /\ status' = "canceled"
  /\ currentRun' = currentRun
  /\ runStatus' = [runStatus EXCEPT ![currentRun] = "canceled"]
  /\ UNCHANGED <<envelope, completion>>

TaskStep ==
  /\ \/ OpenRun \/ MarkWaiting
     \/ \E v \in RunStatus \ {"none"} : WriteRun(v)
  /\ UNCHANGED <<mailbox, envelope, completion>>

\* ... accepts an input, moves inputs between pending and delivering, settles one, ...
SetInputs(ms, box, env) ==
  /\ mailbox' = [m \in Message |-> IF m \in ms THEN box ELSE mailbox[m]]
  /\ envelope' = [m \in Message |-> IF m \in ms THEN env ELSE envelope[m]]

MessageStep ==
  /\ \/ \E m \in Message : /\ NonTerminal /\ envelope[m] = "none"
                           /\ SetInputs({m}, "pending", "pending")
     \/ \E ms \in SUBSET Message, v \in {"pending", "delivering"} :
          /\ \A m \in ms : mailbox[m] # "absent"
          /\ SetInputs(ms, v, v)
     \/ \E m \in Message : /\ mailbox[m] = "delivering"
                           /\ SetInputs({m}, "absent", "delivered")
  /\ UNCHANGED <<status, currentRun, runStatus, completion>>

\* ... and records the completion of a finished run.
ReportStep ==
  /\ \E r \in Run : /\ runStatus[r] \in {"succeeded", "failed"}
                    /\ completion' = completion \cup {r}
  /\ UNCHANGED <<status, currentRun, runStatus, mailbox, envelope>>

RecordStep ==
  \/ UNCHANGED <<status, currentRun, runStatus, mailbox, envelope, completion>>
  \/ TaskStep \/ CancelRun \/ MessageStep \/ ReportStep

\* A save under the lease by the run that is current writes that run.
LEMMA SaveRecord ==
  ASSUME TypeOK, LocalOK, NEW p, NEW r \in Run, NEW v \in RunStatus \ {"none"},
         SaveOwned(p, r, v, v), currentRun = r, ~Terminal,
         UNCHANGED <<mailbox, envelope, completion>>
  PROVE  TaskStep
<1>1. NonTerminal
  BY DEF TypeOK, LocalOK, Terminal, NonTerminal, TaskStatus, TerminalStatus, Run
<1>2. WriteRun(v)
  BY <1>1 DEF SaveOwned, CanSave, Reconcile, WriteRun
<1> QED
  BY <1>2 DEF TaskStep

\* Claim, Acknowledge and Release are message steps, or leave the records alone.
LEMMA ClaimRecord ==
  ASSUME TypeOK, NEW p, NEW r, NEW m \in Message, Claim(p, r, m),
         UNCHANGED <<status, currentRun, runStatus, completion>>
  PROVE  MessageStep
<1>1. SetInputs({m}, "delivering", "delivering")
  BY DEF Claim, SetInputs, TypeOK, Mailbox
<1>2. {m} \in SUBSET Message /\ \A x \in {m} : mailbox[x] # "absent"
  BY DEF Claim
<1> QED
  BY <1>1, <1>2 DEF MessageStep

\* An acknowledgement settles its message, or finds it already delivered.
LEMMA AcknowledgeRecord ==
  ASSUME TypeOK, NEW p, NEW r, NEW m \in Message, Acknowledge(p, r, m),
         UNCHANGED <<status, currentRun, runStatus, completion>>
  PROVE  RecordStep
<1>1. CASE envelope[m] = "delivered"
  BY <1>1 DEF Acknowledge, RecordStep, TypeOK
<1>2. CASE envelope[m] # "delivered"
  <2>1. mailbox[m] = "delivering" /\ SetInputs({m}, "absent", "delivered")
    BY <1>2 DEF Acknowledge, CanAcknowledge, SetInputs, TypeOK, Mailbox
  <2> QED
    BY <2>1 DEF RecordStep, MessageStep
<1> QED
  BY <1>1, <1>2

\* A release makes the messages that are still being delivered pending again.
LEMMA ReleaseRecord ==
  ASSUME TypeOK, NEW p, NEW r, NEW ms, ms \subseteq Message, Release(p, r, ms),
         UNCHANGED <<status, currentRun, runStatus, completion>>
  PROVE  MessageStep
<1> DEFINE back == {m \in ms : mailbox[m] = "delivering"}
<1>1. back \in SUBSET Message /\ \A m \in back : mailbox[m] # "absent"
  OBVIOUS
<1>2. SetInputs(back, "pending", "pending")
  BY DEF Release, SetInputs
<1> QED
  BY <1>1, <1>2 DEF MessageStep

\* Nothing else happens to the records.
LEMMA RecordSteps ==
  ASSUME TypeOK, LocalOK, SnapshotFresh, [Next]_vars PROVE RecordStep
<1> USE ConstantsAssumption, NullsAssumption
    DEF RecordStep, task, messages, execution, local, inHand, bounds
<1>1. CASE UNCHANGED vars
  BY <1>1 DEF vars
<1>2. CASE Expire
  BY <1>2 DEF Expire
<1>3. ASSUME NEW p \in Process, Start(p) PROVE RecordStep
  BY <1>3 DEF Start, TaskStep, OpenRun, LocalOK, Run
<1>4. ASSUME NEW p \in Process, CancelRead(p) \/ CancelSave(p) PROVE RecordStep
  <2>1. CASE CancelRead(p)
    BY <2>1 DEF CancelRead
  <2>2. CASE CancelSave(p)
    <3>1. canceling[p].run \in Run
      BY <2>2 DEF CancelSave, Canceling, TypeOK
    <3>2. CASE UNCHANGED <<status, runStatus, mailbox>>
      BY <2>2, <3>2 DEF CancelSave
    <3>3. CASE CanCancel(canceling[p].run) /\ status' = "canceled"
               /\ runStatus' = [runStatus EXCEPT ![canceling[p].run] = "canceled"]
      <4>1. NonTerminal \/ status = "canceled"
        BY <3>1, <3>3 DEF CanCancel, Terminal, NonTerminal, TypeOK, LocalOK, TaskStatus,
           TerminalStatus, Run
      <4> QED
        BY <2>2, <3>3, <4>1 DEF CancelSave, CanCancel, CancelRun
    <3> QED
      BY <2>2, <3>2, <3>3 DEF CancelSave
  <2> QED
    BY <1>4, <2>1, <2>2
<1>5. ASSUME NEW p \in Process, Shutdown(p) PROVE RecordStep
  BY <1>5 DEF Shutdown
<1>6. ASSUME NEW p \in Process, Crash(p) PROVE RecordStep
  BY <1>6 DEF Crash, Reset
<1>7. ASSUME NEW p \in Process, Restart(p) PROVE RecordStep
  BY <1>7 DEF Restart, Reset
<1>8. ASSUME NEW p \in Process, RecoverScan(p) PROVE RecordStep
  BY <1>8 DEF RecoverScan, NonTerminal
<1>9. ASSUME NEW p \in Process, RecoverAcquire(p) PROVE RecordStep
  BY <1>9 DEF RecoverAcquire, RecoveryTo
<1>10. ASSUME NEW p \in Process, RecoverSkip(p) PROVE RecordStep
  BY <1>10 DEF RecoverSkip, RecoveryDone
<1>11. ASSUME NEW p \in Process, RecoverRequeue(p) PROVE RecordStep
  <2>1. recovery[p].run \in Run
    BY <1>11 DEF RecoverRequeue, LocalOK
  <2> QED
    BY <1>11, <2>1, SaveRecord DEF RecoverRequeue, RunStatus
<1>12. ASSUME NEW p \in Process, RecoverAbandon(p) PROVE RecordStep
  BY <1>12 DEF RecoverAbandon, RecoveryDone
<1>13. ASSUME NEW p \in Process, RecoverSubmit(p) PROVE RecordStep
  BY <1>13 DEF RecoverSubmit, RecoveryDone
<1>14. ASSUME NEW p \in Process, RecoverSubmitRefused(p) PROVE RecordStep
  BY <1>14 DEF RecoverSubmitRefused, RecoveryDone
<1>15. ASSUME NEW p \in Process, NEW id \in TurnMessage \cup {NoMessage}, Followup(p, id)
     PROVE RecordStep
  BY <1>15 DEF Followup, TaskStep, OpenRun
<1>16. ASSUME NEW p \in Process, NEW m \in Message, SendMessage(p, m) PROVE RecordStep
  <2>1. SetInputs({m}, "pending", "pending")
    BY <1>16 DEF SendMessage, SetInputs, TypeOK, Mailbox
  <2> QED
    BY <1>16, <2>1 DEF SendMessage, NewInput, MessageStep
<1>17. ASSUME NEW p \in Process, NEW r \in Run, Schedule(p, r) PROVE RecordStep
  BY <1>17 DEF Schedule, Advance
<1>18. ASSUME NEW p \in Process, NEW r \in Run, ScheduleRefused(p, r) PROVE RecordStep
  BY <1>18, SaveRecord DEF ScheduleRefused, RunStatus, TerminalStatus
<1>19. ASSUME NEW p \in Process, NEW r \in Run, StartExecution(p, r) PROVE RecordStep
  BY <1>19 DEF StartExecution, Advance
<1>20. ASSUME NEW p \in Process, NEW r \in Run, RefuseExecution(p, r) PROVE RecordStep
  BY <1>20 DEF RefuseExecution
<1>21. ASSUME NEW p \in Process, NEW r \in Run, Begin(p, r) PROVE RecordStep
  BY <1>21, SaveRecord DEF Begin, RunStatus, TerminalStatus, Terminal
<1>22. ASSUME NEW p \in Process, NEW r \in Run, PrepareRead(p, r) PROVE RecordStep
  BY <1>22 DEF PrepareRead
<1>23. ASSUME NEW p \in Process, NEW r \in Run, PrepareSave(p, r) PROVE RecordStep
  BY <1>23 DEF PrepareSave, SnapshotFresh, LocalOK
<1>24. ASSUME NEW p \in Process, NEW r \in Run, PrepareFail(p, r) PROVE RecordStep
  BY <1>24 DEF PrepareFail, Advance
<1>25. ASSUME NEW p \in Process, NEW r \in Run, ModelAnswers(p, r) PROVE RecordStep
  BY <1>25 DEF ModelAnswers, Advance
<1>26. ASSUME NEW p \in Process, NEW r \in Run, ModelFails(p, r) PROVE RecordStep
  BY <1>26 DEF ModelFails, Advance
<1>27. ASSUME NEW p \in Process, NEW r \in Run, TurnFails(p, r) PROVE RecordStep
  BY <1>27, ReleaseRecord DEF TurnFails, TypeOK
<1>28. ASSUME NEW p \in Process, NEW r \in Run, Panic(p, r) PROVE RecordStep
  BY <1>28, ReleaseRecord DEF Panic, TypeOK
<1>29. ASSUME NEW p \in Process, NEW r \in Run, InjectedSettled(p, r) PROVE RecordStep
  BY <1>29 DEF InjectedSettled, Advance
<1>30. ASSUME NEW p \in Process, NEW r \in Run, FinishSuccess(p, r) PROVE RecordStep
  BY <1>30, SaveRecord DEF FinishSuccess, RunStatus, TerminalStatus
<1>31. ASSUME NEW p \in Process, NEW r \in Run, FinishStale(p, r) PROVE RecordStep
  BY <1>31 DEF FinishStale, Advance
<1>32. ASSUME NEW p \in Process, NEW r \in Run, CollectFails(p, r) PROVE RecordStep
  BY <1>32 DEF CollectFails, Advance
<1>33. ASSUME NEW p \in Process, NEW r \in Run, ExitLost(p, r) PROVE RecordStep
  BY <1>33 DEF ExitLost, Advance
<1>34. ASSUME NEW p \in Process, NEW r \in Run, LeaseKept(p, r) PROVE RecordStep
  BY <1>34 DEF LeaseKept, Advance
<1>35. ASSUME NEW p \in Process, NEW r \in Run, FinishError(p, r) PROVE RecordStep
  BY <1>35, SaveRecord DEF FinishError, RunStatus, TerminalStatus, Verdicts
<1>36. ASSUME NEW p \in Process, NEW r \in Run, NotifyParent(p, r) PROVE RecordStep
  BY <1>36 DEF NotifyParent, ReportStep
<1>37. ASSUME NEW p \in Process, NEW r \in Run, ReleaseInjected(p, r) PROVE RecordStep
  BY <1>37, ReleaseRecord DEF ReleaseInjected, TypeOK
<1>38. ASSUME NEW p \in Process, NEW r \in Run, CompleteActive(p, r) PROVE RecordStep
  BY <1>38 DEF CompleteActive
<1>39. ASSUME NEW p \in Process, NEW r \in Run, EndExecution(p, r) PROVE RecordStep
  BY <1>39 DEF EndExecution
<1>40. ASSUME NEW p \in Process, NEW r \in Run, WaitForChildren(p, r) PROVE RecordStep
  BY <1>40 DEF WaitForChildren, Wait, TaskStep, MarkWaiting
<1>41. ASSUME NEW p \in Process, NEW r \in Run, RestoreRunning(p, r) PROVE RecordStep
  BY <1>41 DEF RestoreRunning, Wait, TaskStep, MarkWaiting
<1>42. ASSUME NEW p \in Process, NEW r \in Run, LoseLease(p, r) PROVE RecordStep
  BY <1>42 DEF LoseLease
<1>43. ASSUME NEW p \in Process, NEW r \in Run, ObserveCancel(p, r) PROVE RecordStep
  BY <1>43 DEF ObserveCancel
<1>44. ASSUME NEW p \in Process, NEW r \in Run, NEW m \in Message, AckInjected(p, r, m)
     PROVE RecordStep
  BY <1>44, AcknowledgeRecord DEF AckInjected
<1>45. ASSUME NEW p \in Process, NEW r \in Run, NEW m \in Message, FollowUpTurn(p, r, m)
     PROVE RecordStep
  BY <1>45, ClaimRecord DEF FollowUpTurn
<1>46. ASSUME NEW p \in Process, NEW r \in Run, NEW m \in Message, TurnAnswers(p, r, m)
     PROVE RecordStep
  BY <1>46, AcknowledgeRecord DEF TurnAnswers
<1>47. ASSUME NEW p \in Process, NEW r \in Run, NEW m \in Message, InjectMessage(p, r, m)
     PROVE RecordStep
  BY <1>47, ClaimRecord DEF InjectMessage
<1>48. ASSUME NEW p \in Process, NEW r \in Run, EnterLoop(p, r) PROVE RecordStep
  BY <1>48 DEF EnterLoop, Advance
<1>49. ASSUME NEW p \in Process, NEW r \in Run, MailboxDrained(p, r) PROVE RecordStep
  BY <1>49 DEF MailboxDrained, Advance
<1>50. ASSUME NEW p \in Process, NEW r \in Run, MailboxPending(p, r) PROVE RecordStep
  BY <1>50 DEF MailboxPending, Advance
<1> QED
  BY <1>1, <1>2, <1>3, <1>4, <1>5, <1>6, <1>7, <1>8, <1>9, <1>10, <1>11, <1>12,
     <1>13, <1>14, <1>15, <1>16, <1>17, <1>18, <1>19, <1>20, <1>21, <1>22, <1>23,
     <1>24, <1>25, <1>26, <1>27, <1>28, <1>29, <1>30, <1>31, <1>32, <1>33, <1>34,
     <1>35, <1>36, <1>37, <1>38, <1>39, <1>40, <1>41, <1>42, <1>43, <1>44, <1>45,
     <1>46, <1>47, <1>48, <1>49, <1>50
     DEF Next, Command, Admit, Enter, Turn, Finish, Tool, Watcher, Recover

\* A step that moves one execution and writes the records under `mu`, or not at all.
LEMMA GotoFresh ==
  ASSUME TypeOK, SnapshotFresh, NEW p \in Process, NEW r \in Run, NEW l, Goto(p, r, l),
         Isolated \/ l \notin {"prepare", "preparing"}, UNCHANGED snapshot,
         \/ \A q \in Process : snapshot[q] = NoSnapshot
         \/ UNCHANGED <<status, currentRun, mailbox>>
  PROVE  SnapshotFresh'
  BY DEF TypeOK, SnapshotFresh, Goto

\* Only an isolated workspace is prepared.
LEMMA BeginTarget ==
  ASSUME NEW p, NEW r, Begin(p, r)
  PROVE  \/ Goto(p, r, "model") \/ Goto(p, r, "exiting")
         \/ Isolated /\ Goto(p, r, "prepare")
<1>1. CASE Isolated
  <2>1. (IF Isolated THEN "prepare" ELSE "model") = "prepare"
    BY <1>1
  <2> QED
    BY <1>1, <2>1, Zenon DEF Begin
<1>2. CASE ~Isolated
  <2>1. (IF Isolated THEN "prepare" ELSE "model") = "model"
    BY <1>2
  <2> QED
    BY <1>2, <2>1, Zenon DEF Begin
<1> QED
  BY <1>1, <1>2

\* With a single writer every step keeps the record in hand the stored one: the
\* others write under `mu`.
LEMMA FreshStep ==
  ASSUME SoleWriter, TypeOK, LocalOK, SnapshotFresh, [Next]_vars PROVE SnapshotFresh'
<1> USE ConstantsAssumption, NullsAssumption
    DEF SoleWriter, SnapshotFresh, task, messages, execution, local, inHand, bounds, Goto,
       TypeOK,
        MuFree
<1>1. CASE UNCHANGED vars
  BY <1>1 DEF vars
<1>2. CASE Expire
  BY <1>2 DEF Expire
<1>3. ASSUME NEW p \in Process, Start(p) PROVE SnapshotFresh'
  BY <1>3 DEF Start
<1>4. ASSUME NEW p \in Process, CancelRead(p) \/ CancelSave(p) PROVE SnapshotFresh'
  <2>1. CASE CancelRead(p)
    BY <2>1 DEF CancelRead
  <2>2. CASE CancelSave(p)
    <3>1. \A q \in Process : snapshot[q] = NoSnapshot
      BY <2>2 DEF CancelSave, LocalOK
    <3> QED
      BY <2>2, <3>1 DEF CancelSave
  <2> QED
    BY <1>4, <2>1, <2>2
<1>5. ASSUME NEW p \in Process, Shutdown(p) PROVE SnapshotFresh'
  BY <1>5 DEF Shutdown
<1>6. ASSUME NEW p \in Process, Crash(p) PROVE SnapshotFresh'
  BY <1>6 DEF Crash, Reset
<1>7. ASSUME NEW p \in Process, Restart(p) PROVE SnapshotFresh'
  BY <1>7 DEF Restart, Reset
<1>8. ASSUME NEW p \in Process, RecoverScan(p) PROVE SnapshotFresh'
  BY <1>8 DEF RecoverScan, NonTerminal
<1>9. ASSUME NEW p \in Process, RecoverAcquire(p) PROVE SnapshotFresh'
  BY <1>9 DEF RecoverAcquire, RecoveryTo
<1>10. ASSUME NEW p \in Process, RecoverSkip(p) PROVE SnapshotFresh'
  BY <1>10 DEF RecoverSkip, RecoveryDone
<1>11. ASSUME NEW p \in Process, RecoverRequeue(p) PROVE SnapshotFresh'
  BY <1>11 DEF RecoverRequeue, RecoveryTo, SaveOwned
<1>12. ASSUME NEW p \in Process, RecoverAbandon(p) PROVE SnapshotFresh'
  BY <1>12 DEF RecoverAbandon, RecoveryDone
<1>13. ASSUME NEW p \in Process, RecoverSubmit(p) PROVE SnapshotFresh'
  BY <1>13 DEF RecoverSubmit, RecoveryDone
<1>14. ASSUME NEW p \in Process, RecoverSubmitRefused(p) PROVE SnapshotFresh'
  BY <1>14 DEF RecoverSubmitRefused, RecoveryDone
<1>15. ASSUME NEW p \in Process, NEW id \in TurnMessage \cup {NoMessage}, Followup(p, id)
     PROVE SnapshotFresh'
  BY <1>15 DEF Followup
<1>16. ASSUME NEW p \in Process, NEW m \in Message, SendMessage(p, m)
     PROVE SnapshotFresh'
  BY <1>16 DEF SendMessage, NonTerminal
<1>17. ASSUME NEW p \in Process, NEW r \in Run, Schedule(p, r) PROVE SnapshotFresh'
  BY <1>17 DEF Schedule, Advance
<1>18. ASSUME NEW p \in Process, NEW r \in Run, ScheduleRefused(p, r)
     PROVE SnapshotFresh'
  <2>1. \A q \in Process : snapshot[q] = NoSnapshot
    BY <1>18 DEF ScheduleRefused
  <2> HIDE DEF SnapshotFresh, TypeOK, Goto
  <2>2. Goto(p, r, "notifying") \/ Goto(p, r, "exiting")
    BY <1>18 DEF ScheduleRefused
  <2> QED
    BY <1>18, <2>1, <2>2, GotoFresh DEF ScheduleRefused
<1>19. ASSUME NEW p \in Process, NEW r \in Run, StartExecution(p, r)
     PROVE SnapshotFresh'
  BY <1>19 DEF StartExecution, Advance
<1>20. ASSUME NEW p \in Process, NEW r \in Run, RefuseExecution(p, r)
     PROVE SnapshotFresh'
  BY <1>20 DEF RefuseExecution
<1>21. ASSUME NEW p \in Process, NEW r \in Run, Begin(p, r) PROVE SnapshotFresh'
  <2>1. \A q \in Process : snapshot[q] = NoSnapshot
    BY <1>21 DEF Begin
  <2> HIDE DEF SnapshotFresh, TypeOK, Goto
  <2>2. \/ Goto(p, r, "model") \/ Goto(p, r, "exiting")
        \/ Isolated /\ Goto(p, r, "prepare")
    BY <1>21, BeginTarget
  <2> QED
    BY <1>21, <2>1, <2>2, GotoFresh DEF Begin
<1>22. ASSUME NEW p \in Process, NEW r \in Run, PrepareRead(p, r) PROVE SnapshotFresh'
  BY <1>22 DEF PrepareRead
<1>23. ASSUME NEW p \in Process, NEW r \in Run, PrepareSave(p, r) PROVE SnapshotFresh'
  BY <1>23 DEF PrepareSave
<1>24. ASSUME NEW p \in Process, NEW r \in Run, PrepareFail(p, r) PROVE SnapshotFresh'
  BY <1>24 DEF PrepareFail, Advance
<1>25. ASSUME NEW p \in Process, NEW r \in Run, ModelAnswers(p, r) PROVE SnapshotFresh'
  BY <1>25 DEF ModelAnswers, Advance
<1>26. ASSUME NEW p \in Process, NEW r \in Run, ModelFails(p, r) PROVE SnapshotFresh'
  BY <1>26 DEF ModelFails, Advance
<1>27. ASSUME NEW p \in Process, NEW r \in Run, TurnFails(p, r) PROVE SnapshotFresh'
  <2>1. \A q \in Process : snapshot[q] = NoSnapshot
    BY <1>27 DEF TurnFails, Release
  <2>2. Goto(p, r, "failing") /\ UNCHANGED snapshot
    BY <1>27 DEF TurnFails
  <2> HIDE DEF SnapshotFresh, TypeOK, Goto
  <2> QED
    BY <2>1, <2>2, GotoFresh
<1>28. ASSUME NEW p \in Process, NEW r \in Run, Panic(p, r) PROVE SnapshotFresh'
  <2>1. \A q \in Process : snapshot[q] = NoSnapshot
    BY <1>28 DEF Panic, Release
  <2>2. Goto(p, r, "panicked") /\ UNCHANGED snapshot
    BY <1>28 DEF Panic
  <2> HIDE DEF SnapshotFresh, TypeOK, Goto
  <2> QED
    BY <2>1, <2>2, GotoFresh
<1>29. ASSUME NEW p \in Process, NEW r \in Run, InjectedSettled(p, r)
     PROVE SnapshotFresh'
  BY <1>29 DEF InjectedSettled, Advance
<1>30. ASSUME NEW p \in Process, NEW r \in Run, FinishSuccess(p, r) PROVE SnapshotFresh'
  BY <1>30 DEF FinishSuccess, SaveOwned
<1>31. ASSUME NEW p \in Process, NEW r \in Run, FinishStale(p, r) PROVE SnapshotFresh'
  BY <1>31 DEF FinishStale, Advance
<1>32. ASSUME NEW p \in Process, NEW r \in Run, CollectFails(p, r) PROVE SnapshotFresh'
  BY <1>32 DEF CollectFails, Advance
<1>33. ASSUME NEW p \in Process, NEW r \in Run, ExitLost(p, r) PROVE SnapshotFresh'
  BY <1>33 DEF ExitLost, Advance
<1>34. ASSUME NEW p \in Process, NEW r \in Run, LeaseKept(p, r) PROVE SnapshotFresh'
  BY <1>34 DEF LeaseKept, Advance
<1>35. ASSUME NEW p \in Process, NEW r \in Run, FinishError(p, r) PROVE SnapshotFresh'
  <2>1. \A q \in Process : snapshot[q] = NoSnapshot
    BY <1>35 DEF FinishError
  <2> HIDE DEF SnapshotFresh, TypeOK, Goto
  <2>2. Goto(p, r, "notifying") \/ Goto(p, r, "exiting")
    BY <1>35 DEF FinishError
  <2> QED
    BY <1>35, <2>1, <2>2, GotoFresh DEF FinishError
<1>36. ASSUME NEW p \in Process, NEW r \in Run, NotifyParent(p, r) PROVE SnapshotFresh'
  BY <1>36 DEF NotifyParent
<1>37. ASSUME NEW p \in Process, NEW r \in Run, ReleaseInjected(p, r)
     PROVE SnapshotFresh'
  BY <1>37 DEF ReleaseInjected, Release
<1>38. ASSUME NEW p \in Process, NEW r \in Run, CompleteActive(p, r)
     PROVE SnapshotFresh'
  BY <1>38 DEF CompleteActive
<1>39. ASSUME NEW p \in Process, NEW r \in Run, EndExecution(p, r) PROVE SnapshotFresh'
  BY <1>39 DEF EndExecution
<1>40. ASSUME NEW p \in Process, NEW r \in Run, WaitForChildren(p, r)
     PROVE SnapshotFresh'
  BY <1>40 DEF WaitForChildren, Wait
<1>41. ASSUME NEW p \in Process, NEW r \in Run, RestoreRunning(p, r)
     PROVE SnapshotFresh'
  BY <1>41 DEF RestoreRunning, Wait
<1>42. ASSUME NEW p \in Process, NEW r \in Run, LoseLease(p, r) PROVE SnapshotFresh'
  BY <1>42 DEF LoseLease
<1>43. ASSUME NEW p \in Process, NEW r \in Run, ObserveCancel(p, r) PROVE SnapshotFresh'
  BY <1>43 DEF ObserveCancel
<1>44. ASSUME NEW p \in Process, NEW r \in Run, NEW m \in Message, AckInjected(p, r, m)
     PROVE SnapshotFresh'
  <2>1. \A q \in Process : snapshot[q] = NoSnapshot \/ UNCHANGED <<status, currentRun, mailbox>>
    BY <1>44 DEF AckInjected, Acknowledge
  <2>2. CASE UNCHANGED pc
    BY <1>44, <2>2 DEF AckInjected, Acknowledge
  <2>3. CASE Goto(p, r, "failing")
    <3> HIDE DEF SnapshotFresh, TypeOK, Goto
    <3> QED
      BY <1>44, <2>1, <2>3, GotoFresh DEF AckInjected
  <2> QED
    BY <1>44, <2>2, <2>3 DEF AckInjected
<1>45. ASSUME NEW p \in Process, NEW r \in Run, NEW m \in Message, FollowUpTurn(p, r, m)
     PROVE SnapshotFresh'
  BY <1>45 DEF FollowUpTurn, Claim
<1>46. ASSUME NEW p \in Process, NEW r \in Run, NEW m \in Message, TurnAnswers(p, r, m)
     PROVE SnapshotFresh'
  <2>1. \A q \in Process : snapshot[q] = NoSnapshot
    BY <1>46 DEF TurnAnswers, Acknowledge
  <2>2. Goto(p, r, "loop") /\ UNCHANGED snapshot
    BY <1>46 DEF TurnAnswers
  <2> HIDE DEF SnapshotFresh, TypeOK, Goto
  <2> QED
    BY <2>1, <2>2, GotoFresh
<1>47. ASSUME NEW p \in Process, NEW r \in Run, NEW m \in Message, InjectMessage(p, r, m)
     PROVE SnapshotFresh'
  BY <1>47 DEF InjectMessage, Claim
<1>48. ASSUME NEW p \in Process, NEW r \in Run, EnterLoop(p, r) PROVE SnapshotFresh'
  BY <1>48 DEF EnterLoop, Advance
<1>49. ASSUME NEW p \in Process, NEW r \in Run, MailboxDrained(p, r) PROVE SnapshotFresh'
  BY <1>49 DEF MailboxDrained, Advance
<1>50. ASSUME NEW p \in Process, NEW r \in Run, MailboxPending(p, r) PROVE SnapshotFresh'
  BY <1>50 DEF MailboxPending, Advance
<1> QED
  BY <1>1, <1>2, <1>3, <1>4, <1>5, <1>6, <1>7, <1>8, <1>9, <1>10, <1>11, <1>12,
     <1>13, <1>14, <1>15, <1>16, <1>17, <1>18, <1>19, <1>20, <1>21, <1>22, <1>23,
     <1>24, <1>25, <1>26, <1>27, <1>28, <1>29, <1>30, <1>31, <1>32, <1>33, <1>34,
     <1>35, <1>36, <1>37, <1>38, <1>39, <1>40, <1>41, <1>42, <1>43, <1>44, <1>45,
     <1>46, <1>47, <1>48, <1>49, <1>50, ZenonT(40)
     DEF Next, Command, Admit, Enter, Turn, Finish, Tool, Watcher, Recover

-----------------------------------------------------------------------------
(* Invariants of the records, each preserved by the few ways to write them. *)

Records == TypeOK /\ LocalOK /\ RunAgrees /\ EnvelopeAgrees

\* Opening a run needs a finished one before it; every other write of the task writes
\* its current run with it, or waits for children while that run goes on.
LEMMA RunAgreesStep == ASSUME Records, RecordStep PROVE RunAgrees'
<1> USE ConstantsAssumption
    DEF Records, TypeOK, LocalOK, RunAgrees, Run, RunStatus, TerminalStatus, TaskStatus
<1>1. CASE UNCHANGED <<status, currentRun, runStatus>>
  BY <1>1
<1>2. CASE OpenRun
  BY <1>2 DEF OpenRun
<1>3. ASSUME NEW v \in RunStatus \ {"none"}, WriteRun(v) PROVE RunAgrees'
  BY <1>3 DEF WriteRun, NonTerminal
<1>4. CASE MarkWaiting
  BY <1>4 DEF MarkWaiting
<1>5. CASE CancelRun
  BY <1>5 DEF CancelRun, NonTerminal
<1> QED
  BY <1>1, <1>2, <1>3, <1>4, <1>5 DEF RecordStep, TaskStep, MessageStep, ReportStep

\* Every write of the mailbox writes the envelopes of the same messages, but for the
\* write of a cancel, and a canceled task stays canceled.
LEMMA EnvelopeAgreesStep == ASSUME Records, RecordStep PROVE EnvelopeAgrees'
<1> USE DEF Records, TypeOK, EnvelopeAgrees
<1>1. CASE UNCHANGED <<status, mailbox, envelope>>
  BY <1>1
<1>2. CASE MessageStep
  BY <1>2, ZenonT(40) DEF MessageStep, SetInputs
<1>3. CASE TaskStep
  <2>1. status # "canceled" /\ UNCHANGED <<mailbox, envelope>>
    BY <1>3 DEF TaskStep, OpenRun, MarkWaiting, WriteRun, NonTerminal
  <2> QED
    BY <2>1
<1>4. CASE CancelRun
  BY <1>4 DEF CancelRun
<1> QED
  BY <1>1, <1>2, <1>3, <1>4 DEF RecordStep, ReportStep

\* Success is written over an empty mailbox, and a terminal task accepts no message.
LEMMA SuccessDrainedStep ==
  ASSUME Records, SuccessDrained, RecordStep PROVE SuccessDrained'
<1> USE DEF Records, SuccessDrained, MailboxEmpty
<1>1. CASE UNCHANGED <<status, mailbox>>
  BY <1>1
<1>2. CASE TaskStep
  BY <1>2 DEF TaskStep, OpenRun, MarkWaiting, WriteRun, MailboxEmpty
<1>3. CASE MessageStep
  BY <1>3 DEF MessageStep, SetInputs, NonTerminal
<1>4. CASE CancelRun
  BY <1>4 DEF CancelRun
<1> QED
  BY <1>1, <1>2, <1>3, <1>4 DEF RecordStep, ReportStep

\* A completion is recorded for a finished run, which is not written again.
LEMMA CompletionSoundStep ==
  ASSUME Records, CompletionSound, RecordStep PROVE CompletionSound'
<1> USE ConstantsAssumption DEF Records, TypeOK, LocalOK, CompletionSound, RunAgrees
<1>1. CASE UNCHANGED <<runStatus, completion>>
  BY <1>1
<1>2. CASE ReportStep
  BY <1>2 DEF ReportStep
<1>3. CASE OpenRun /\ UNCHANGED completion
  BY <1>3 DEF OpenRun, Run
<1>4. ASSUME NEW v \in RunStatus \ {"none"}, WriteRun(v), UNCHANGED completion
      PROVE  CompletionSound'
  BY <1>4 DEF WriteRun, NonTerminal, Run
<1>5. CASE CancelRun
  BY <1>5 DEF CancelRun, NonTerminal, Run
<1> QED
  BY <1>1, <1>2, <1>3, <1>4, <1>5 DEF RecordStep, TaskStep, MarkWaiting, MessageStep

\* All of it together is inductive when the task has a single writer.
IInv == Records /\ SnapshotFresh /\ SuccessDrained /\ CompletionSound

\* IInv holds initially and is preserved by every step, which is a record step.
LEMMA Inductive ==
  ASSUME SoleWriter
  PROVE  (Init => IInv) /\ (IInv /\ [Next]_vars => IInv' /\ RecordStep)
<1>1. Init => IInv
  <2> SUFFICES ASSUME Init PROVE IInv
    OBVIOUS
  <2>1. TypeOK /\ LocalOK
    BY TypeInit
  <2> QED
    BY <2>1 DEF Init, IInv, Records, SnapshotFresh, RunAgrees, EnvelopeAgrees,
       SuccessDrained, MailboxEmpty, CompletionSound, Run
<1>2. IInv /\ [Next]_vars => IInv' /\ RecordStep
  <2> SUFFICES ASSUME IInv, [Next]_vars PROVE IInv' /\ RecordStep
    OBVIOUS
  <2>1. TypeOK' /\ LocalOK' /\ SnapshotFresh'
    BY TypeStep, LocalStep, FreshStep DEF IInv, Records
  <2>2. RecordStep
    BY RecordSteps DEF IInv, Records
  <2> QED
    BY <2>1, <2>2, RunAgreesStep, EnvelopeAgreesStep, SuccessDrainedStep,
       CompletionSoundStep DEF IInv, Records
<1> QED
  BY <1>1, <1>2

\* The task record and its runs never tell different stories: neither a late save of
\* a stale execution, nor recovery, nor a cancel from another instance leaves them
\* apart.
THEOREM RunsAgree == ASSUME SoleWriter PROVE Spec => []RunAgrees
<1>1. IInv => RunAgrees
  BY DEF IInv, Records
<1> QED
  BY Inductive, <1>1, PTL DEF Spec

\* Until the task is canceled, mailbox and envelopes agree after every claim,
\* acknowledgement, release and send: what a cancel puts back into the mailbox cannot
\* come back to a task that goes on.
THEOREM EnvelopesAgree == ASSUME SoleWriter PROVE Spec => []EnvelopeAgrees
<1>1. IInv => EnvelopeAgrees
  BY DEF IInv, Records
<1> QED
  BY Inductive, <1>1, PTL DEF Spec

\* No input that was accepted before a task succeeded is left in its mailbox.
THEOREM SuccessIsDrained == ASSUME SoleWriter PROVE Spec => []SuccessDrained
<1>1. IInv => SuccessDrained
  BY DEF IInv
<1> QED
  BY Inductive, <1>1, PTL DEF Spec

\* The parent is never told of a result that the run does not have.
THEOREM CompletionsSound == ASSUME SoleWriter PROVE Spec => []CompletionSound
<1>1. IInv => CompletionSound
  BY DEF IInv
<1> QED
  BY Inductive, <1>1, PTL DEF Spec

\* A terminal task is left by a follow-up only, a canceled one never.
THEOREM TerminalStays == ASSUME SoleWriter PROVE Spec => TerminalKept
<1>1. IInv /\ RecordStep /\ Terminal /\ status' # status =>
        status # "canceled" /\ status' = "queued" /\ currentRun' = currentRun + 1
  BY DEF RecordStep, TaskStep, OpenRun, MarkWaiting, WriteRun, CancelRun, MessageStep,
     ReportStep, NonTerminal, Terminal, TerminalStatus
<1>2. IInv /\ [Next]_vars =>
        [Terminal /\ status' # status =>
           status # "canceled" /\ status' = "queued" /\ currentRun' = currentRun + 1]_vars
  BY <1>1, Inductive
<1> QED
  BY Inductive, <1>2, PTL DEF Spec, TerminalKept

\* The verdict of a run is written once: a stale execution, a recovery or a second
\* cancel never replaces it.
THEOREM VerdictsFinal == ASSUME SoleWriter PROVE Spec => VerdictFinal
<1> DEFINE Final ==
      \A r \in Run : runStatus[r] \in TerminalStatus => runStatus'[r] = runStatus[r]
<1>1. IInv /\ RecordStep => Final
  BY ConstantsAssumption
     DEF IInv, Records, RunAgrees, TypeOK, LocalOK, RecordStep, TaskStep, OpenRun,
         MarkWaiting, WriteRun, CancelRun, MessageStep, ReportStep, NonTerminal,
         TerminalStatus, Run
<1>2. IInv /\ [Next]_vars => [Final]_vars
  BY <1>1, Inductive
<1> QED
  BY Inductive, <1>2, PTL DEF Spec, VerdictFinal

-----------------------------------------------------------------------------
(* The service implements SubagentLifecycle: opening, closing, reporting a *)
(* run, accepting and delivering an input are steps of it, everything else *)
(* stutters.                                                               *)

\* Start and Followup open a run of the abstract lifecycle.
LEMMA OpenImplements ==
  ASSUME IInv, OpenRun, UNCHANGED <<mailbox, envelope, completion>>
  PROVE  Lifecycle!Open
<1> USE ConstantsAssumption DEF IInv, Records, TypeOK, LocalOK, RunAgrees, OpenRun, Run
<1>1. currentRun = 0 \/ Lifecycle!Finished(currentRun)
  BY DEF Lifecycle!Finished, RunVerdict
<1>2. RunVerdict' = [RunVerdict EXCEPT ![currentRun + 1] = "open"]
  BY DEF RunVerdict
<1> QED
  BY <1>1, <1>2 DEF Lifecycle!Open

\* A save of the current run closes it with a verdict, or leaves it open.
LEMMA WriteImplements ==
  ASSUME IInv, NEW v \in RunStatus \ {"none"}, WriteRun(v),
         UNCHANGED <<mailbox, envelope, completion>>
  PROVE  [Lifecycle!Next]_(Lifecycle!vars)
<1> USE ConstantsAssumption
    DEF IInv, Records, TypeOK, LocalOK, RunAgrees, WriteRun, NonTerminal, Run
<1>1. currentRun \in Run /\ runStatus[currentRun] \in {"queued", "running"}
  OBVIOUS
<1>2. CASE v \in {"queued", "running"}
  <2>1. RunVerdict' = RunVerdict
    BY <1>1, <1>2 DEF RunVerdict
  <2>2. status # "canceled" /\ status' # "canceled"
    BY <1>2
  <2>3. UNCHANGED <<currentRun, mailbox, envelope, completion>>
    OBVIOUS
  <2> HIDE DEF IInv, Records, TypeOK, LocalOK, RunAgrees, WriteRun
  <2> QED
    BY <2>1, <2>2, <2>3 DEF Lifecycle!vars
<1>3. CASE v \in TerminalStatus
  <2>1. RunVerdict' = [RunVerdict EXCEPT ![currentRun] = v]
    BY <1>1, <1>3 DEF RunVerdict, TerminalStatus
  <2>2. Lifecycle!IsOpen
    BY <1>1 DEF Lifecycle!IsOpen, RunVerdict
  <2>3. Lifecycle!Close(v)
    BY <2>1, <2>2 DEF Lifecycle!Close, MailboxEmpty
  <2> QED
    BY <1>3, <2>3 DEF Lifecycle!Next, TerminalStatus
<1> QED
  BY <1>2, <1>3 DEF RunStatus

\* A cancel closes the open run and gives up the inputs; canceling again stutters.
LEMMA CancelImplements ==
  ASSUME IInv, CancelRun PROVE [Lifecycle!Next]_(Lifecycle!vars)
<1> USE ConstantsAssumption
    DEF IInv, Records, TypeOK, LocalOK, RunAgrees, CancelRun, Run
<1>1. CASE status = "canceled"
  <2>1. RunVerdict' = RunVerdict
    <3>1. runStatus[currentRun] = "canceled" /\ currentRun \in Run
      BY <1>1
    <3>2. runStatus' = runStatus
      BY <3>1
    <3> QED
      BY <3>2 DEF RunVerdict
  <2> QED
    BY <1>1, <2>1 DEF Lifecycle!vars
<1>2. CASE NonTerminal
  <2>1. currentRun \in Run /\ runStatus[currentRun] \in {"queued", "running"}
    BY <1>2 DEF NonTerminal
  <2>2. RunVerdict' = [RunVerdict EXCEPT ![currentRun] = "canceled"]
    BY <2>1 DEF RunVerdict
  <2>3. Lifecycle!IsOpen
    BY <2>1 DEF Lifecycle!IsOpen, RunVerdict
  <2>4. Lifecycle!Close("canceled")
    BY <2>2, <2>3 DEF Lifecycle!Close
  <2> QED
    BY <2>4 DEF Lifecycle!Next
<1> QED
  BY <1>1, <1>2

\* An accepted message is a new input, an acknowledged one is delivered; claims and
\* releases stutter, and so does everything about the inputs of a canceled task.
LEMMA MessageImplements ==
  ASSUME IInv, MessageStep PROVE [Lifecycle!Next]_(Lifecycle!vars)
<1> USE ConstantsAssumption DEF IInv, Records, TypeOK, LocalOK, RunAgrees, EnvelopeAgrees
<1>0. /\ RunVerdict' = RunVerdict /\ currentRun' = currentRun
      /\ completion' = completion /\ status' = status
  BY DEF MessageStep, RunVerdict
<1>4. CASE status = "canceled"
  BY <1>0, <1>4 DEF Lifecycle!vars
<1>1. ASSUME NEW m \in Message, NonTerminal, envelope[m] = "none",
             SetInputs({m}, "pending", "pending")
      PROVE  Lifecycle!Accept(m)
  <2>1. Lifecycle!IsOpen
    <3>1. currentRun \in 0..MaxRuns /\ currentRun # 0 /\ RunAgrees
      BY <1>1 DEF NonTerminal
    <3>2. currentRun \in Run
      BY <3>1, ConstantsAssumption DEF Run
    <3>3. runStatus[currentRun] = IF status = "waiting" THEN "running" ELSE status
      BY <3>1, <3>2, Zenon
    <3>4. runStatus[currentRun] \in {"queued", "running"}
      BY <1>1, <3>3, Zenon DEF NonTerminal
    <3> HIDE DEF IInv, Records, TypeOK, LocalOK, RunAgrees, EnvelopeAgrees
    <3> QED
      BY <3>2, <3>4 DEF Lifecycle!IsOpen, RunVerdict
  <2> QED
    BY <1>0, <1>1, <2>1 DEF Lifecycle!Accept, SetInputs, NonTerminal
<1>2. ASSUME NEW ms \in SUBSET Message, NEW v \in {"pending", "delivering"},
             \A m \in ms : mailbox[m] # "absent", SetInputs(ms, v, v)
      PROVE  UNCHANGED Lifecycle!vars
  BY <1>0, <1>2 DEF Lifecycle!vars, SetInputs
<1>3. ASSUME NEW m \in Message, mailbox[m] = "delivering", status # "canceled",
             SetInputs({m}, "absent", "delivered")
      PROVE  Lifecycle!Deliver(m)
  BY <1>0, <1>3 DEF Lifecycle!Deliver, SetInputs
<1> QED
  BY <1>1, <1>2, <1>3, <1>4, ZenonT(40) DEF MessageStep, Lifecycle!Next

\* A recorded completion reports the run; recording it again stutters.
LEMMA ReportImplements ==
  ASSUME IInv, ReportStep PROVE [Lifecycle!Next]_(Lifecycle!vars)
<1>1. PICK r \in Run : /\ runStatus[r] \in {"succeeded", "failed"}
                       /\ completion' = completion \cup {r}
  BY DEF ReportStep
<1>2. RunVerdict' = RunVerdict
  BY DEF ReportStep, RunVerdict
<1>3. CASE r \in completion
  BY <1>1, <1>2, <1>3 DEF ReportStep, Lifecycle!vars
<1>4. CASE r \notin completion
  BY <1>1, <1>2, <1>4
     DEF ReportStep, Lifecycle!Next, Lifecycle!Report, Lifecycle!Finished, RunVerdict
<1> QED
  BY <1>3, <1>4

\* The whole service, with its leases, crashes and late goroutines, does what
\* SubagentLifecycle promises: a run ends once, an input of a task that is not canceled
\* is delivered at most once and only after it was accepted, success leaves none
\* behind, and a finished run is reported at most once.
THEOREM Implements == ASSUME SoleWriter PROVE Spec => ImplementsLifecycle
<1>1. Init => Lifecycle!Init
  BY ConstantsAssumption DEF Init, Lifecycle!Init, RunVerdict
<1>2. IInv /\ RecordStep => [Lifecycle!Next]_(Lifecycle!vars)
  <2> SUFFICES ASSUME IInv, RecordStep PROVE [Lifecycle!Next]_(Lifecycle!vars)
    OBVIOUS
  <2>1. CASE UNCHANGED <<status, currentRun, runStatus, mailbox, envelope, completion>>
    BY <2>1 DEF Lifecycle!vars, RunVerdict
  <2>2. CASE TaskStep
    <3>1. CASE OpenRun
      BY <2>2, <3>1, OpenImplements DEF TaskStep, Lifecycle!Next
    <3>2. CASE MarkWaiting
      BY <2>2, <3>2 DEF TaskStep, MarkWaiting, Lifecycle!vars, RunVerdict
    <3> QED
      BY <2>2, <3>1, <3>2, WriteImplements DEF TaskStep
  <2> QED
    BY <2>1, <2>2, CancelImplements, MessageImplements, ReportImplements DEF RecordStep
<1>3. IInv /\ [Next]_vars => [Lifecycle!Next]_(Lifecycle!vars)
  BY <1>2, Inductive
<1> QED
  BY Inductive, <1>1, <1>3, PTL DEF Spec, ImplementsLifecycle, Lifecycle!Spec

-----------------------------------------------------------------------------
(***************************************************************************)
(* Proofs about the executions of SubagentTask: the registry of each       *)
(* process, and the messages executions have in hand.                      *)
(***************************************************************************)

Resting == {"idle", "releasing"}
Working == PC \ Resting

\* What recovery has registered and not yet submitted is not executed: Scheduler.Submit
\* knows a run until its job has returned.
RecoverySaved ==
  \A p \in Process : recovery[p].step = "saved" =>
    active[p] = recovery[p].run /\ pc[p][active[p]] \in Resting

\* An execution goes on, and the registry stays.
Works(p, r) ==
  /\ pc[p][r] \in Working
  /\ \E l \in Working : Goto(p, r, l)
  /\ UNCHANGED <<active, recovery>>

\* A command opens a run in a process that has none registered.
Opens(p) ==
  /\ active[p] = 0 /\ recovery[p].step = "idle"
  /\ \E r \in Run : active' = [active EXCEPT ![p] = r] /\ Goto(p, r, "admitted")
  /\ UNCHANGED recovery

Registry == TypeOK /\ LocalOK /\ OneExecutionPerProcess /\ RecoverySaved

LEMMA RegistryInit == ASSUME Init PROVE OneExecutionPerProcess /\ RecoverySaved
BY DEF Init, OneExecutionPerProcess, RecoverySaved, Idle, Run

\* Steps that only move an execution on.
LEMMA AdvanceWorks ==
  ASSUME NEW p \in Process, NEW r \in Run,
         \/ Schedule(p, r) \/ StartExecution(p, r) \/ PrepareFail(p, r)
         \/ ModelAnswers(p, r) \/ ModelFails(p, r) \/ InjectedSettled(p, r)
         \/ EnterLoop(p, r) \/ MailboxDrained(p, r) \/ MailboxPending(p, r)
         \/ FinishStale(p, r) \/ CollectFails(p, r) \/ ExitLost(p, r) \/ LeaseKept(p, r)
  PROVE  Works(p, r)
BY DEF Schedule, StartExecution, PrepareFail, ModelAnswers, ModelFails, InjectedSettled,
       EnterLoop, MailboxDrained, MailboxPending, FinishStale, CollectFails, ExitLost,
       LeaseKept, Advance, Works, Working, Resting, PC, Watched, local

\* Steps that write the records as an execution moves on.
LEMMA WriteWorks ==
  ASSUME NEW p \in Process, NEW r \in Run,
         \/ ScheduleRefused(p, r) \/ RefuseExecution(p, r) \/ Begin(p, r)
         \/ PrepareRead(p, r) \/ PrepareSave(p, r) \/ FinishSuccess(p, r)
         \/ FinishError(p, r) \/ NotifyParent(p, r) \/ TurnFails(p, r) \/ Panic(p, r)
         \/ \E m \in Message : FollowUpTurn(p, r, m) \/ TurnAnswers(p, r, m)
  PROVE  Works(p, r)
<1> USE DEF Works, Working, Resting, PC, Watched, local
<1>1. CASE ScheduleRefused(p, r)
  BY <1>1 DEF ScheduleRefused
<1>2. CASE RefuseExecution(p, r)
  BY <1>2 DEF RefuseExecution
<1>3. CASE Begin(p, r)
  BY <1>3 DEF Begin
<1>4. CASE PrepareRead(p, r)
  BY <1>4 DEF PrepareRead
<1>5. CASE PrepareSave(p, r)
  BY <1>5 DEF PrepareSave
<1>6. CASE FinishSuccess(p, r)
  BY <1>6 DEF FinishSuccess
<1>7. CASE FinishError(p, r)
  BY <1>7 DEF FinishError
<1>8. CASE NotifyParent(p, r)
  BY <1>8 DEF NotifyParent
<1>9. CASE TurnFails(p, r)
  BY <1>9 DEF TurnFails
<1>10. CASE Panic(p, r)
  BY <1>10 DEF Panic
<1>11. CASE \E m \in Message : FollowUpTurn(p, r, m) \/ TurnAnswers(p, r, m)
  BY <1>11 DEF FollowUpTurn, TurnAnswers
<1> QED
  BY <1>1, <1>2, <1>3, <1>4, <1>5, <1>6, <1>7, <1>8, <1>9, <1>10, <1>11

\* A working execution is the registered one, so its next point is too.
LEMMA WorksRegistry ==
  ASSUME Registry, NEW p \in Process, NEW r \in Run, Works(p, r)
  PROVE  OneExecutionPerProcess' /\ RecoverySaved'
<1> USE DEF Registry, TypeOK, OneExecutionPerProcess, RecoverySaved, Works, Working, Resting, Goto
<1>1. active[p] = r /\ recovery[p].step # "saved"
  BY DEF LocalOK
<1>2. \A q \in Process, s \in Run : q # p \/ s # r => pc'[q][s] = pc[q][s]
  OBVIOUS
<1>3. pc'[p][r] \notin Resting
  OBVIOUS
<1>4. active' = active /\ recovery' = recovery /\ \A q \in Process : active[q] # 0 => active[q] \in Run
  BY ConstantsAssumption DEF Run
<1> HIDE DEF TypeOK, Works, Goto, Working
<1>5. OneExecutionPerProcess'
  BY <1>1, <1>2, <1>3, <1>4
<1>6. RecoverySaved'
  <2> SUFFICES ASSUME NEW q \in Process, recovery[q].step = "saved"
               PROVE  pc'[q][active[q]] \in Resting
    BY <1>4
  <2>1. q # p
    BY <1>1
  <2>2. active[q] \in Run
    BY DEF LocalOK
  <2> QED
    BY <2>1, <2>2, <1>2
<1> QED
  BY <1>5, <1>6

\* A new run is registered where nothing was, and nothing works.
LEMMA OpensRegistry ==
  ASSUME Registry, NEW p \in Process, Opens(p)
  PROVE  OneExecutionPerProcess' /\ RecoverySaved'
<1> USE ConstantsAssumption DEF Registry, TypeOK, OneExecutionPerProcess, RecoverySaved, Opens, Resting, Goto, Run
<1>1. PICK r \in Run : active' = [active EXCEPT ![p] = r] /\ pc' = [pc EXCEPT ![p][r] = "admitted"]
  OBVIOUS
<1>2. \A s \in Run : pc[p][s] \in Resting
  OBVIOUS
<1> QED
  BY <1>1, <1>2 DEF LocalOK

\* The process is gone, and its registry and executions with it.
LEMMA ResetRegistry ==
  ASSUME Registry, NEW p \in Process, Reset(p)
  PROVE  OneExecutionPerProcess' /\ RecoverySaved'
BY DEF Registry, TypeOK, OneExecutionPerProcess, RecoverySaved, Reset, Resting, Idle, Recovery

\* No step starts a second execution in a process, or loses the first.
LEMMA RegistryStep ==
  ASSUME Registry, [Next]_vars
  PROVE  OneExecutionPerProcess' /\ RecoverySaved'
<1> DEFINE Exact == OneExecutionPerProcess /\ RecoverySaved
<1> USE ConstantsAssumption, NullsAssumption
<1>1. ASSUME UNCHANGED <<active, pc, recovery>> PROVE Exact'
  BY <1>1 DEF Registry, OneExecutionPerProcess, RecoverySaved
<1>2. CASE UNCHANGED vars \/ Expire
  BY <1>1, <1>2 DEF vars, Expire, execution, local
<1>3. ASSUME NEW p \in Process,
             \/ CancelRead(p) \/ CancelSave(p) \/ Shutdown(p) \/ \E m \in Message : SendMessage(p, m)
             \/ \E r \in Run : \/ ReleaseInjected(p, r) \/ WaitForChildren(p, r)
                               \/ RestoreRunning(p, r) \/ LoseLease(p, r) \/ ObserveCancel(p, r)
                               \/ \E m \in Message : InjectMessage(p, r, m)
      PROVE  Exact'
  BY <1>1, <1>3 DEF CancelRead, CancelSave, Shutdown, SendMessage, ReleaseInjected,
     WaitForChildren, Wait, RestoreRunning, LoseLease, ObserveCancel, InjectMessage, execution, local
<1>4. ASSUME NEW p \in Process, Start(p) \/ \E id \in TurnMessage \cup {NoMessage} : Followup(p, id)
      PROVE  Exact'
  <2>1. Opens(p)
    BY <1>4 DEF Start, Followup, Opens, AdmissionFree, local, Run
  <2> QED
    BY <2>1, OpensRegistry
<1>5. ASSUME NEW p \in Process, Crash(p) \/ Restart(p) PROVE Exact'
  BY <1>5, ResetRegistry DEF Crash, Restart
<1>6. ASSUME NEW p \in Process, NEW r \in Run, Works(p, r) PROVE Exact'
  BY <1>6, WorksRegistry
<1>7. ASSUME NEW p \in Process, NEW r \in Run, NEW m \in Message, AckInjected(p, r, m) PROVE Exact'
  <2>1. CASE UNCHANGED pc
    BY <1>1, <1>7, <2>1 DEF AckInjected, local
  <2>2. CASE Goto(p, r, "failing")
    BY <1>6, <1>7, <2>2 DEF AckInjected, Works, Working, Resting, PC, Watched, local
  <2> QED
    BY <1>7, <2>1, <2>2 DEF AckInjected
<1>8. ASSUME NEW p \in Process, NEW r \in Run, CompleteActive(p, r) PROVE Exact'
  BY <1>8 DEF CompleteActive, Registry, TypeOK, LocalOK, OneExecutionPerProcess, RecoverySaved,
     Goto, Resting, local, Run
<1>9. ASSUME NEW p \in Process, NEW r \in Run, EndExecution(p, r) PROVE Exact'
  BY <1>9 DEF EndExecution, Registry, TypeOK, LocalOK, OneExecutionPerProcess, RecoverySaved,
     Goto, Resting, local, Run
<1>10. ASSUME NEW p \in Process,
              RecoverScan(p) \/ RecoverAcquire(p) \/ RecoverSkip(p) \/ RecoverAbandon(p)
       PROVE  Exact'
  <2>1. /\ UNCHANGED <<active, pc>> /\ recovery[p].step # "saved"
        /\ \E new \in Recovery : recovery' = [recovery EXCEPT ![p] = new] /\ new.step # "saved"
    BY <1>10 DEF RecoverScan, RecoverAcquire, RecoverSkip, RecoverAbandon, AdmissionFree,
       RecoveryTo, RecoveryDone, Idle, Recovery, execution, Registry, TypeOK
  <2> QED
    BY <2>1 DEF Registry, TypeOK, OneExecutionPerProcess, RecoverySaved, Recovery
<1>11. ASSUME NEW p \in Process, RecoverRequeue(p) PROVE Exact'
  <2> DEFINE r == recovery[p].run
  <2>1. r \in Run /\ active[p] = 0 /\ pc' = pc
    BY <1>11 DEF RecoverRequeue, Registry, LocalOK
  <2>2. active' = [active EXCEPT ![p] = r]
    BY <1>11 DEF RecoverRequeue
  <2>3. recovery' = [recovery EXCEPT ![p] = [step |-> "saved", run |-> r]]
    BY <1>11 DEF RecoverRequeue, RecoveryTo
  <2>4. \A s \in Run : pc[p][s] \in Resting
    <3>1. \A s \in Run : s # 0
      BY DEF Run
    <3> QED
      BY <2>1, <3>1 DEF Registry, OneExecutionPerProcess, Resting
  <2> HIDE DEF r
  <2> QED
    BY <2>1, <2>2, <2>3, <2>4 DEF Registry, TypeOK, OneExecutionPerProcess, RecoverySaved,
       Resting, Run
<1>12. ASSUME NEW p \in Process, RecoverSubmit(p) PROVE Exact'
  BY <1>12 DEF RecoverSubmit, RecoveryDone, Idle, Registry, TypeOK, LocalOK,
     OneExecutionPerProcess, RecoverySaved, Resting, Recovery, Run, Goto
<1>13. ASSUME NEW p \in Process, RecoverSubmitRefused(p) PROVE Exact'
  BY <1>13 DEF RecoverSubmitRefused, RecoveryDone, Idle, Registry, TypeOK, LocalOK,
     OneExecutionPerProcess, RecoverySaved, Resting, Recovery, Run
<1> QED
  BY <1>2, <1>3, <1>4, <1>5, <1>6, <1>7, <1>8, <1>9, <1>10, <1>11, <1>12, <1>13,
     AdvanceWorks, WriteWorks
     DEF Next, Command, Admit, Enter, Turn, Finish, Tool, Watcher, Recover

\* The registry of a process names exactly the run it works on, whatever executions,
\* recovery, commands and crashes do: neither a follow-up nor recovery starts a second
\* execution beside one. It holds without any assumption on the workspace or the lease.
THEOREM OneExecution == Spec => []OneExecutionPerProcess
<1>1. Init => Registry
  BY TypeInit, RegistryInit DEF Registry
<1>2. Registry /\ [Next]_vars => Registry'
  BY TypeStep, LocalStep, RegistryStep DEF Registry
<1>3. Registry => OneExecutionPerProcess
  BY DEF Registry
<1> QED
  BY <1>1, <1>2, <1>3, PTL DEF Spec

-----------------------------------------------------------------------------
(* The messages executions have in hand.                                    *)

\* The message that has a turn of its own is in the hands of that execution.
TurnHeld ==
  \A p \in Process, r \in Run : pc[p][r] = "turn" => followUp[p][r] \in claimed[p][r]

\* ClaimExclusive with processes and runs instead of pairs, whatever the status.
Exclusive ==
  \A p, q \in Process, r, s \in Run : \A m \in claimed[p][r] :
    mailbox[m] = "delivering" /\ (m \in claimed[q][s] => p = q /\ r = s)

Held == Exclusive /\ TurnHeld

LEMMA ExclusivePairs == ASSUME Exclusive PROVE ClaimExclusive
BY DEF ClaimExclusive, Exclusive, Executions

LEMMA HeldInit == ASSUME Init PROVE Held
BY DEF Init, Held, Exclusive, TurnHeld

\* No execution enters a turn of a message except by claiming it.
NoNewTurn == \A p \in Process, r \in Run : pc'[p][r] = "turn" => pc[p][r] = "turn"

LEMMA GotoNoTurn ==
  ASSUME TypeOK, NEW p \in Process, NEW r \in Run, NEW l, l # "turn", Goto(p, r, l)
  PROVE  NoNewTurn /\ pc'[p][r] # "turn"
BY DEF TypeOK, Goto, NoNewTurn

LEMMA QuietHeld ==
  ASSUME Held, NoNewTurn, UNCHANGED <<mailbox, claimed, followUp>> PROVE Held'
BY DEF Held, Exclusive, TurnHeld, NoNewTurn

\* A claimed message was pending, so nobody had it.
LEMMA ClaimHeld ==
  ASSUME TypeOK, Held, NEW p \in Process, NEW r \in Run, NEW m \in Message, Claim(p, r, m),
         \/ NoNewTurn /\ UNCHANGED followUp
         \/ Goto(p, r, "turn") /\ followUp' = [followUp EXCEPT ![p][r] = m]
  PROVE  Held'
<1> USE DEF Held, TypeOK, Mailbox
<1>1. \A q \in Process, s \in Run : m \notin claimed[q][s]
  BY DEF Exclusive, Claim
<1>2. \A q \in Process, s \in Run :
        claimed'[q][s] = IF q = p /\ s = r THEN claimed[q][s] \cup {m} ELSE claimed[q][s]
  BY DEF Claim
<1>3. \A n \in Message : mailbox'[n] = IF n = m THEN "delivering" ELSE mailbox[n]
  BY DEF Claim
<1>4. \A q \in Process, s \in Run : claimed[q][s] \subseteq Message
  OBVIOUS
<1> HIDE DEF TypeOK, Mailbox
<1>5. Exclusive'
  <2> SUFFICES ASSUME NEW q \in Process, NEW q2 \in Process, NEW s \in Run, NEW s2 \in Run,
                      NEW n \in claimed'[q][s]
               PROVE  mailbox'[n] = "delivering" /\ (n \in claimed'[q2][s2] => q = q2 /\ s = s2)
    BY DEF Exclusive
  <2>3. ASSUME NEW x \in Process, NEW y \in Run, n \in claimed'[x][y]
        PROVE  n \in claimed[x][y] \/ (n = m /\ x = p /\ y = r)
    <3>1. claimed'[x][y] = IF x = p /\ y = r THEN claimed[x][y] \cup {m} ELSE claimed[x][y]
      BY <1>2
    <3> QED
      BY <2>3, <3>1
  <2>1. CASE n = m
    BY <1>1, <1>3, <2>1, <2>3
  <2>2. CASE n # m
    <3>1. n \in claimed[q][s] /\ n \in Message
      BY <1>4, <2>2, <2>3
    <3>2. mailbox[n] = "delivering" /\ (n \in claimed[q2][s2] => q = q2 /\ s = s2)
      BY <3>1 DEF Exclusive
    <3> QED
      BY <1>3, <2>2, <2>3, <3>1, <3>2
  <2> QED
    BY <2>1, <2>2
<1>6. TurnHeld'
  <2>1. CASE NoNewTurn /\ UNCHANGED followUp
    BY <1>2, <2>1 DEF TurnHeld, NoNewTurn
  <2>2. CASE Goto(p, r, "turn") /\ followUp' = [followUp EXCEPT ![p][r] = m]
    BY <1>2, <2>2, ZenonT(40) DEF TurnHeld, Goto, TypeOK
  <2> QED
    BY <2>1, <2>2
<1> QED
  BY <1>5, <1>6

\* What an execution gives back, or has acknowledged, was in no other hands.
LEMMA SettleHeld ==
  ASSUME TypeOK, Held, NEW p \in Process, NEW r \in Run, NEW ms \in SUBSET claimed[p][r],
         claimed' = [claimed EXCEPT ![p][r] = @ \ ms],
         \A m \in Message \ ms : mailbox'[m] = mailbox[m],
         NoNewTurn,
         pc'[p][r] = "turn" => followUp'[p][r] \in claimed'[p][r],
         \A q \in Process, s \in Run : q # p \/ s # r => followUp'[q][s] = followUp[q][s]
  PROVE  Held'
<1> USE DEF Held, TypeOK
<1>1. \A q \in Process, s \in Run :
        claimed'[q][s] = IF q = p /\ s = r THEN claimed[q][s] \ ms ELSE claimed[q][s]
  OBVIOUS
<1>2. \A q \in Process, s \in Run : claimed[q][s] \subseteq Message
  OBVIOUS
<1> HIDE DEF TypeOK
<1>3. Exclusive'
  <2> SUFFICES ASSUME NEW q \in Process, NEW q2 \in Process, NEW s \in Run, NEW s2 \in Run,
                      NEW n \in claimed'[q][s]
               PROVE  mailbox'[n] = "delivering" /\ (n \in claimed'[q2][s2] => q = q2 /\ s = s2)
    BY DEF Exclusive
  <2>1. n \in claimed[q][s] /\ n \in Message
    BY <1>1, <1>2
  <2>2. n \notin ms
    BY <1>1, <2>1, SMTT(30) DEF Exclusive
  <2> QED
    BY <1>1, <2>1, <2>2 DEF Exclusive
<1>4. TurnHeld'
  BY <1>1 DEF TurnHeld, NoNewTurn
<1> QED
  BY <1>3, <1>4

\* The same for Release.
LEMMA ReleaseHeld ==
  ASSUME TypeOK, Held, NEW p \in Process, NEW r \in Run, NEW ms \in SUBSET claimed[p][r],
         Release(p, r, ms), NoNewTurn, pc'[p][r] # "turn",
         \/ UNCHANGED followUp
         \/ TurnEnds(p, r)
  PROVE  Held'
<1>1. \A q \in Process, s \in Run : q # p \/ s # r => followUp'[q][s] = followUp[q][s]
  BY DEF TurnEnds, TypeOK
<1>2. \A m \in Message \ ms : mailbox'[m] = mailbox[m]
  BY DEF Release
<1> QED
  BY <1>1, <1>2, SettleHeld DEF Release

\* ... and for Acknowledge.
LEMMA AcknowledgeHeld ==
  ASSUME TypeOK, Held, NEW p \in Process, NEW r \in Run, NEW m \in claimed[p][r],
         Acknowledge(p, r, m), NoNewTurn, pc'[p][r] # "turn",
         \/ UNCHANGED followUp
         \/ TurnEnds(p, r)
  PROVE  Held'
<1>1. \A q \in Process, s \in Run : q # p \/ s # r => followUp'[q][s] = followUp[q][s]
  BY DEF TurnEnds, TypeOK
<1>2. \A n \in Message \ {m} : mailbox'[n] = mailbox[n]
  BY DEF Acknowledge, TypeOK, Mailbox
<1>3. {m} \in SUBSET claimed[p][r]
  OBVIOUS
<1>4. claimed' = [claimed EXCEPT ![p][r] = @ \ {m}]
  BY DEF Acknowledge
<1> QED
  BY <1>1, <1>2, <1>3, <1>4, SettleHeld

\* A new message is in nobody's hands.
LEMMA SendHeld ==
  ASSUME TypeOK, EnvelopeAgrees, Held, NEW p \in Process, NEW m \in Message, SendMessage(p, m)
  PROVE  Held'
<1> USE DEF Held, TypeOK, Mailbox
<1>1. mailbox[m] = "absent"
  BY DEF SendMessage, NonTerminal, NewInput, EnvelopeAgrees
<1>2. \A n \in Message \ {m} : mailbox'[n] = mailbox[n]
  BY DEF SendMessage
<1>3. UNCHANGED <<claimed, followUp, pc>>
  BY DEF SendMessage, execution
<1>4. Exclusive'
  BY <1>1, <1>2, <1>3 DEF Exclusive
<1> QED
  BY <1>3, <1>4 DEF TurnHeld

\* A process that is gone has nothing in hand.
LEMMA ResetHeld == ASSUME TypeOK, Held, NEW p \in Process, Reset(p) PROVE Held'
<1> USE DEF Held, TypeOK
<1>1. \A q \in Process, s \in Run :
        claimed'[q][s] = (IF q = p THEN {} ELSE claimed[q][s]) /\ pc'[q][s] = (IF q = p THEN "idle" ELSE pc[q][s])
        /\ (q # p => followUp'[q][s] = followUp[q][s])
  BY DEF Reset
<1>2. mailbox' = mailbox
  BY DEF Reset
<1> HIDE DEF TypeOK
<1>5. \A q \in Process, s \in Run : claimed'[q][s] \subseteq claimed[q][s]
  BY <1>1
<1>3. Exclusive'
  BY <1>5, <1>2 DEF Exclusive
<1>4. TurnHeld'
  BY <1>1 DEF TurnHeld
<1> QED
  BY <1>3, <1>4

\* Every action but the write of a cancel leaves each message in one pair of hands.
LEMMA HeldStep ==
  ASSUME TypeOK, LocalOK, SnapshotFresh, EnvelopeAgrees, Held, [Next]_vars
  PROVE  status' = "canceled" \/ Held'
<1> DEFINE Still == UNCHANGED <<mailbox, claimed, followUp>>
<1> USE ConstantsAssumption, NullsAssumption
<1>1. ASSUME Still, UNCHANGED pc PROVE Held'
  BY <1>1, QuietHeld DEF NoNewTurn
<1>2. ASSUME NEW p \in Process, NEW r \in Run, NEW l, l # "turn", Goto(p, r, l), Still PROVE Held'
  BY <1>2, GotoNoTurn, QuietHeld
<1>3. CASE UNCHANGED vars \/ Expire
  BY <1>1, <1>3 DEF vars, Expire, messages, execution
<1>4. ASSUME NEW p \in Process, CancelRead(p) \/ CancelSave(p) \/ Shutdown(p)
      PROVE  status' = "canceled" \/ Held'
  BY <1>1, <1>4 DEF CancelRead, CancelSave, Shutdown, messages, execution
<1>5. ASSUME NEW p \in Process, NEW r \in Run,
             \/ WaitForChildren(p, r) \/ RestoreRunning(p, r) \/ LoseLease(p, r) \/ ObserveCancel(p, r)
      PROVE  Held'
  BY <1>1, <1>5 DEF WaitForChildren, Wait, RestoreRunning, LoseLease, ObserveCancel, messages, execution
<1>6. ASSUME NEW p \in Process, Start(p) \/ \E id \in TurnMessage \cup {NoMessage} : Followup(p, id)
      PROVE  Held'
  <2>1. Still /\ \E r \in Run : Goto(p, r, "admitted")
    BY <1>6 DEF Start, Followup, messages, Run
  <2> QED
    BY <1>2, <2>1
<1>7. ASSUME NEW p \in Process, Recover(p) PROVE Held'
  <2>1. CASE RecoverSubmit(p)
    <3>1. Still /\ Goto(p, recovery[p].run, "queued") /\ recovery[p].run \in Run
      BY <2>1 DEF RecoverSubmit, LocalOK, messages
    <3> QED
      BY <1>2, <3>1
  <2>2. CASE ~RecoverSubmit(p)
    BY <1>1, <1>7, <2>2 DEF Recover, RecoverScan, RecoverAcquire, RecoverSkip, RecoverRequeue,
       RecoverAbandon, RecoverSubmitRefused, messages, execution
  <2> QED
    BY <2>1, <2>2
<1>8. ASSUME NEW p \in Process, Crash(p) \/ Restart(p) PROVE Held'
  BY <1>8, ResetHeld DEF Crash, Restart
<1>9. ASSUME NEW p \in Process, NEW m \in Message, SendMessage(p, m) PROVE Held'
  BY <1>9, SendHeld
<1>10. ASSUME NEW p \in Process, NEW r \in Run, NEW l, l # "turn", Advance(p, r, l) PROVE Held'
  BY <1>2, <1>10 DEF Advance, messages
<1>11. ASSUME NEW p \in Process, NEW r \in Run,
         \/ Schedule(p, r) \/ StartExecution(p, r) \/ PrepareFail(p, r)
         \/ ModelAnswers(p, r) \/ ModelFails(p, r) \/ InjectedSettled(p, r)
         \/ EnterLoop(p, r) \/ MailboxDrained(p, r) \/ MailboxPending(p, r)
         \/ FinishStale(p, r) \/ CollectFails(p, r) \/ ExitLost(p, r) \/ LeaseKept(p, r)
       PROVE Held'
  BY <1>10, <1>11 DEF Schedule, StartExecution, PrepareFail, ModelAnswers, ModelFails,
     InjectedSettled, EnterLoop, MailboxDrained, MailboxPending, FinishStale, CollectFails,
     ExitLost, LeaseKept
<1>12. ASSUME NEW p \in Process, NEW r \in Run,
         \/ ScheduleRefused(p, r) \/ RefuseExecution(p, r) \/ Begin(p, r)
         \/ PrepareRead(p, r) \/ FinishSuccess(p, r) \/ FinishError(p, r)
         \/ NotifyParent(p, r) \/ CompleteActive(p, r) \/ EndExecution(p, r)
       PROVE Held'
  <2>1. Still /\ \E l : l # "turn" /\ Goto(p, r, l)
    BY <1>12 DEF ScheduleRefused, RefuseExecution, Begin, PrepareRead, FinishSuccess, FinishError,
       NotifyParent, CompleteActive, EndExecution, messages
  <2> QED
    BY <1>2, <2>1
<1>13. ASSUME NEW p \in Process, NEW r \in Run, PrepareSave(p, r) PROVE Held'
  <2>1. mailbox' = mailbox
    BY <1>13 DEF PrepareSave, SnapshotFresh, LocalOK
  <2> QED
    BY <1>2, <1>13, <2>1 DEF PrepareSave
<1>14. ASSUME NEW p \in Process, NEW r \in Run, NEW m \in Message, InjectMessage(p, r, m) PROVE Held'
  BY <1>14, ClaimHeld DEF InjectMessage, NoNewTurn, execution
<1>15. ASSUME NEW p \in Process, NEW r \in Run, NEW m \in Message, FollowUpTurn(p, r, m) PROVE Held'
  BY <1>15, ClaimHeld DEF FollowUpTurn
<1>16. ASSUME NEW p \in Process, NEW r \in Run, NEW m \in Message, AckInjected(p, r, m) PROVE Held'
  <2>1. CASE Acknowledge(p, r, m) /\ UNCHANGED <<followUp, pc>>
    <3>1. NoNewTurn /\ pc'[p][r] # "turn"
      BY <1>16, <2>1 DEF AckInjected, NoNewTurn
    <3> QED
      BY <1>16, <2>1, <3>1, AcknowledgeHeld DEF AckInjected
  <2>2. CASE Goto(p, r, "failing") /\ UNCHANGED messages
    BY <1>2, <2>2 DEF messages
  <2> QED
    BY <1>16, <2>1, <2>2 DEF AckInjected
<1>17. ASSUME NEW p \in Process, NEW r \in Run, NEW m \in Message, TurnAnswers(p, r, m) PROVE Held'
  <2>1. NoNewTurn /\ pc'[p][r] # "turn"
    BY <1>17, GotoNoTurn DEF TurnAnswers
  <2>2. m \in claimed[p][r]
    BY <1>17 DEF TurnAnswers, Held, TurnHeld
  <2> QED
    BY <1>17, <2>1, <2>2, AcknowledgeHeld DEF TurnAnswers
<1>18. ASSUME NEW p \in Process, NEW r \in Run, TurnFails(p, r) \/ Panic(p, r) PROVE Held'
  <2>1. NoNewTurn /\ pc'[p][r] # "turn"
    BY <1>18, GotoNoTurn DEF TurnFails, Panic
  <2>2. \E ms \in SUBSET claimed[p][r] : Release(p, r, ms)
    BY <1>18 DEF TurnFails, Panic
  <2> QED
    BY <1>18, <2>1, <2>2, ReleaseHeld DEF TurnFails, Panic
<1>19. ASSUME NEW p \in Process, NEW r \in Run, ReleaseInjected(p, r) PROVE Held'
  <2>1. NoNewTurn /\ pc'[p][r] # "turn"
    BY <1>19 DEF ReleaseInjected, NoNewTurn, execution
  <2> QED
    BY <1>19, <2>1, ReleaseHeld DEF ReleaseInjected
<1> QED
  BY <1>3, <1>4, <1>5, <1>6, <1>7, <1>8, <1>9, <1>11, <1>12, <1>13, <1>14, <1>15, <1>16,
     <1>17, <1>18, <1>19 DEF Next, Command, Admit, Enter, Turn, Finish, Tool, Watcher

\* Until the task is canceled a message is in the hands of one execution at most, of all
\* instances, and the store knows it as being delivered: although claim, acknowledgement and release look at no
\* lease, stale executions beside new ones never deliver or settle each other's messages.
THEOREM ClaimsExclusive == ASSUME SoleWriter PROVE Spec => []ClaimExclusive
<1> DEFINE HeldOpen == status # "canceled" => Held
<1>1. Init => IInv /\ HeldOpen
  BY Inductive, HeldInit
<1>2. IInv /\ HeldOpen /\ [Next]_vars => (IInv /\ HeldOpen)'
  <2> SUFFICES ASSUME IInv, HeldOpen, [Next]_vars PROVE IInv' /\ HeldOpen'
    OBVIOUS
  <2>1. IInv' /\ RecordStep
    BY Inductive
  <2>2. CASE status = "canceled"
    <3>1. status' = "canceled"
      BY <2>1, <2>2 DEF RecordStep, TaskStep, OpenRun, MarkWaiting, WriteRun, CancelRun,
         MessageStep, ReportStep, NonTerminal
    <3> QED
      BY <2>1, <3>1
  <2>3. CASE status # "canceled"
    BY <2>1, <2>3, HeldStep DEF IInv, Records
  <2> QED
    BY <2>2, <2>3
<1>3. HeldOpen => ClaimExclusive
  BY ExclusivePairs DEF Held, ClaimExclusive
<1> QED
  BY <1>1, <1>2, <1>3, PTL DEF Spec
=============================================================================
