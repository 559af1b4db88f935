------------------------ MODULE SubagentSchedulerProofs ------------------------
(* Proofs about SubagentScheduler, for any jobs, workers, substitutes and any
   length of the queue. *)
EXTENDS SubagentScheduler, SequenceTheorems, TLAPS

\* A substitute waits for an execution that is still parked.
WaitsForParked == \A s \in Substitute : waitsFor[s] # NoJob => parkCount[waitsFor[s]] > 0

\* A goroutine that does not exist runs nothing; a worker only goes when the closed
\* queue is drained, and Close only returns when all have gone.
Leaving ==
  /\ \A g \in Goroutine : life[g] # "idle" => runs[g] = NoJob
  /\ \A w \in Worker : life[w] # "unborn" /\ (life[w] = "gone" => closed /\ queue = <<>>)
  /\ returned => closed /\ \A g \in Goroutine : life[g] # "idle"

IInv == TypeOK /\ ActiveExact /\ WaitsForParked /\ Leaving

-----------------------------------------------------------------------------
LEMMA InvInit == ASSUME Init PROVE IInv
<1> USE SchedulerAssumption
<1>1. TypeOK
  <2>1. closed \in BOOLEAN /\ returned \in BOOLEAN
    BY DEF Init
  <2>2. queue \in Seq(Job) /\ Len(queue) = 0
    BY EmptySeq DEF Init
  <2> QED
    BY <2>1, <2>2 DEF Init, TypeOK, Goroutine
<1>2. ActiveExact
  BY EmptySeq DEF Init, ActiveExact, Queued, Running, Goroutine
<1>3. WaitsForParked /\ Leaving
  BY DEF Init, WaitsForParked, Leaving, Goroutine
<1> QED
  BY <1>1, <1>2, <1>3 DEF IInv

\* What is queued after a job is put at the end of the channel or received from it.
LEMMA AppendQueue ==
  ASSUME queue \in Seq(Job), NEW j \in Job, queue' = Append(queue, j)
  PROVE  /\ queue' \in Seq(Job) /\ Len(queue') = Len(queue) + 1
         /\ queue'[Len(queue) + 1] = j
         /\ \A i \in 1 .. Len(queue) : queue'[i] = queue[i]
BY AppendProperties

LEMMA TakeQueue ==
  ASSUME queue \in Seq(Job), queue # <<>>, queue' = Tail(queue)
  PROVE  /\ queue' \in Seq(Job) /\ Len(queue') = Len(queue) - 1 /\ Len(queue) \in Nat \ {0}
         /\ \A i \in 1 .. Len(queue') : queue'[i] = queue[i + 1]
         /\ Head(queue) \in Job /\ Head(queue) = queue[1]
BY HeadTailProperties, EmptySeq

\* Every action keeps the types.
LEMMA TypeStep == ASSUME TypeOK, [Next]_vars PROVE TypeOK'
<1>1. closed' \in BOOLEAN /\ returned' \in BOOLEAN
  <2>1. CASE UNCHANGED vars \/ Close \/ CloseReturns
    BY <2>1, Zenon DEF TypeOK, vars, Close, CloseReturns
  <2>2. ASSUME NEW j \in Job, Submit(j) \/ Cancel(j) \/ Unpark(j) \/ \E s \in Substitute : Park(j, s)
        PROVE  closed' = closed /\ returned' = returned
    BY <2>2 DEF Submit, Enqueue, Cancel, Unpark, Park
  <2>3. ASSUME NEW g \in Goroutine, Take(g) \/ EndJob(g) \/ Leave(g)
        PROVE  closed' = closed /\ returned' = returned
    BY <2>3 DEF Take, EndJob, Leave
  <2> QED
    BY <2>1, <2>2, <2>3, Zenon DEF TypeOK, Next
<1> USE <1>1, SchedulerAssumption DEF TypeOK, Goroutine
<1>2. CASE UNCHANGED vars
  BY <1>2 DEF vars
<1>3. ASSUME NEW j \in Job, Submit(j) PROVE TypeOK'
  BY <1>3, AppendQueue, LenProperties DEF Submit, Enqueue
<1>4. ASSUME NEW j \in Job, Cancel(j) \/ Unpark(j) PROVE TypeOK'
  <2>1. CASE Cancel(j)
    BY <2>1 DEF Cancel
  <2>2. CASE Unpark(j)
    <3>1. parkCount' \in [Job -> 0 .. MaxParks]
      BY <2>2 DEF Unpark
    <3>2. waitsFor' \in [Substitute -> Job \cup {NoJob}]
      BY <2>2 DEF Unpark
    <3> QED
      BY <2>2, <3>1, <3>2 DEF Unpark
  <2> QED
    BY <1>4, <2>1, <2>2
<1>5. ASSUME NEW j \in Job, NEW s \in Substitute, Park(j, s) PROVE TypeOK'
  BY <1>5 DEF Park
<1>6. ASSUME NEW g \in Goroutine, Take(g) PROVE TypeOK'
  BY <1>6, TakeQueue DEF Take
<1>7. ASSUME NEW g \in Goroutine, EndJob(g) \/ Leave(g) PROVE TypeOK'
  BY <1>7 DEF EndJob, Leave
<1>8. CASE Close \/ CloseReturns
  BY <1>8 DEF Close, CloseReturns
<1> QED
  BY <1>2, <1>3, <1>4, <1>5, <1>6, <1>7, <1>8 DEF Next

\* The registry is exact: a job enters it with the queue and leaves it with its end.
LEMMA ActiveStep == ASSUME TypeOK, TypeOK', ActiveExact, [Next]_vars PROVE ActiveExact'
<1> USE SchedulerAssumption DEF TypeOK
<1>1. CASE UNCHANGED <<queue, active, runs>>
  BY <1>1 DEF ActiveExact, Queued, Running
<1>2. ASSUME NEW j \in Job, Submit(j) PROVE ActiveExact'
  <2>1. queue' = Append(queue, j) /\ active' = active \cup {j} /\ runs' = runs /\ j \notin active
    BY <1>2 DEF Submit, Enqueue
  <2>2. Queued' = Queued \cup {j}
    BY <2>1, AppendQueue, LenProperties DEF Queued
  <2>3. Running' = Running
    BY <2>1 DEF Running
  <2>4. \A i \in 1 .. Len(queue) : queue[i] \in Queued
    BY ElementOfSeq DEF Queued
  <2>5. ASSUME NEW i \in 1 .. Len(queue'), NEW k \in 1 .. Len(queue'), queue'[i] = queue'[k]
        PROVE  i = k
    BY <2>1, <2>4, <2>5, AppendQueue, LenProperties, SMTT(30) DEF ActiveExact
  <2> QED
    BY <2>1, <2>2, <2>3, <2>5, SMTT(30) DEF ActiveExact
<1>3. ASSUME NEW g \in Goroutine, Take(g) PROVE ActiveExact'
  <2>1. /\ queue # <<>> /\ queue' = Tail(queue) /\ active' = active
        /\ runs' = [runs EXCEPT ![g] = Head(queue)] /\ runs[g] = NoJob
    BY <1>3 DEF Take
  <2> DEFINE h == Head(queue)
  <2>2. h \in Queued /\ h \notin Running
    BY <2>1, TakeQueue DEF ActiveExact, Queued
  <2>3. Running' = Running \cup {h}
    BY <2>1, TakeQueue DEF Running
  <2>4. Queued' = Queued \ {h}
    <3>1. ASSUME NEW i \in 1 .. Len(queue), i # 1
          PROVE  i - 1 \in 1 .. Len(queue') /\ queue'[i - 1] = queue[i]
      BY <2>1, <3>1, TakeQueue
    <3>2. ASSUME NEW j \in Queued', j = h PROVE FALSE
      BY <2>1, <3>2, TakeQueue DEF Queued, ActiveExact
    <3>3. Queued' \subseteq Queued
      BY <2>1, TakeQueue DEF Queued
    <3>4. Queued \ {h} \subseteq Queued'
      BY <2>1, <3>1, TakeQueue, ZenonT(40) DEF Queued
    <3> QED
      BY <3>2, <3>3, <3>4
  <2>5. ASSUME NEW i \in 1 .. Len(queue'), NEW k \in 1 .. Len(queue'), queue'[i] = queue'[k]
        PROVE  i = k
    BY <2>1, <2>5, TakeQueue DEF ActiveExact
  <2>6. ASSUME NEW a \in Goroutine, NEW b \in Goroutine, runs'[a] = runs'[b], runs'[a] # NoJob
        PROVE  a = b
    BY <2>1, <2>2, <2>6, TakeQueue DEF ActiveExact, Running
  <2>7. Queued' \cap Running' = {}
    BY <2>3, <2>4 DEF ActiveExact
  <2>8. active' = Queued' \cup Running'
    BY <2>1, <2>2, <2>3, <2>4 DEF ActiveExact
  <2> QED
    BY <2>5, <2>6, <2>7, <2>8 DEF ActiveExact
<1>4. ASSUME NEW g \in Goroutine, EndJob(g) PROVE ActiveExact'
  <2>1. /\ runs[g] # NoJob /\ queue' = queue /\ active' = active \ {runs[g]}
        /\ runs' = [runs EXCEPT ![g] = NoJob]
    BY <1>4 DEF EndJob
  <2>2. Queued' = Queued
    BY <2>1 DEF Queued
  <2>3. Running' = Running \ {runs[g]} /\ runs[g] \in Running
    BY <2>1 DEF Running, ActiveExact
  <2> QED
    BY <2>1, <2>2, <2>3 DEF ActiveExact
<1>5. ASSUME NEW j \in Job, Cancel(j) \/ Unpark(j) \/ \E s \in Substitute : Park(j, s)
      PROVE  UNCHANGED <<queue, active, runs>>
  BY <1>5 DEF Cancel, Unpark, Park
<1>6. ASSUME NEW g \in Goroutine, Leave(g) PROVE UNCHANGED <<queue, active, runs>>
  BY <1>6 DEF Leave
<1>7. CASE UNCHANGED vars \/ Close \/ CloseReturns
  BY <1>7, <1>1 DEF vars, Close, CloseReturns
<1> QED
  BY <1>1, <1>2, <1>3, <1>4, <1>5, <1>6, <1>7 DEF Next

\* The last Unpark of an execution releases the substitutes that stand in for it.
LEMMA WaitsStep == ASSUME TypeOK, WaitsForParked, [Next]_vars PROVE WaitsForParked'
<1> USE SchedulerAssumption DEF TypeOK, WaitsForParked
<1>1. CASE UNCHANGED vars \/ Close \/ CloseReturns
  BY <1>1 DEF vars, Close, CloseReturns
<1>2. ASSUME NEW j \in Job, Unpark(j) PROVE WaitsForParked'
  BY <1>2 DEF Unpark
<1>3. ASSUME NEW j \in Job, NEW s \in Substitute, Park(j, s) PROVE WaitsForParked'
  BY <1>3 DEF Park
<1>4. ASSUME NEW j \in Job, Submit(j) \/ Cancel(j) PROVE WaitsForParked'
  BY <1>4 DEF Submit, Enqueue, Cancel
<1>5. ASSUME NEW g \in Goroutine, Take(g) \/ EndJob(g) \/ Leave(g) PROVE WaitsForParked'
  BY <1>5 DEF Take, EndJob, Leave
<1> QED
  BY <1>1, <1>2, <1>3, <1>4, <1>5 DEF Next

\* No goroutine leaves while there is work for it.
LEMMA LeavingStep == ASSUME TypeOK, TypeOK', Leaving, [Next]_vars PROVE Leaving'
<1> USE SchedulerAssumption DEF TypeOK, Leaving, Goroutine
<1>1. CASE UNCHANGED vars \/ Close \/ CloseReturns
  BY <1>1 DEF vars, Close, CloseReturns
<1>2. ASSUME NEW j \in Job, Submit(j) PROVE Leaving'
  BY <1>2 DEF Submit, Enqueue
<1>3. ASSUME NEW j \in Job, Cancel(j) \/ Unpark(j) PROVE Leaving'
  BY <1>3 DEF Cancel, Unpark
<1>4. ASSUME NEW j \in Job, NEW s \in Substitute, Park(j, s) PROVE Leaving'
  BY <1>4 DEF Park
<1>5. ASSUME NEW g \in Goroutine, Take(g) PROVE Leaving'
  BY <1>5, TakeQueue DEF Take
<1>6. ASSUME NEW g \in Goroutine, EndJob(g) PROVE Leaving'
  BY <1>6 DEF EndJob
<1>7. ASSUME NEW g \in Goroutine, Leave(g) PROVE Leaving'
  BY <1>7 DEF Leave
<1> QED
  BY <1>1, <1>2, <1>3, <1>4, <1>5, <1>6, <1>7 DEF Next

LEMMA Invariant == Spec => []IInv
<1>1. Init => IInv
  BY InvInit
<1>2. IInv /\ [Next]_vars => IInv'
  BY TypeStep, ActiveStep, WaitsStep, LeavingStep DEF IInv
<1> QED
  BY <1>1, <1>2, PTL DEF Spec

-----------------------------------------------------------------------------
\* A call of Close that has returned has waited for every goroutine, and these for
\* what was queued.
LEMMA AllGone ==
  ASSUME IInv, \A g \in Goroutine : life[g] # "idle"
  PROVE  active = {} /\ queue = <<>>
<1>1. \A g \in Goroutine : runs[g] = NoJob
  BY DEF IInv, Leaving
<1>2. queue = <<>>
  BY SchedulerAssumption DEF IInv, TypeOK, Leaving, Goroutine
<1>3. Running = {} /\ Queued = {}
  BY <1>1, <1>2, SchedulerAssumption DEF Running, Queued
<1> QED
  BY <1>2, <1>3 DEF IInv, ActiveExact

-----------------------------------------------------------------------------
\* Every variable has its type; no channel holds more than it can.
THEOREM TypeCorrect == Spec => []TypeOK
<1>1. IInv => TypeOK
  BY DEF IInv
<1> QED
  BY <1>1, Invariant, PTL

\* The registry names the jobs that wait or run, each once (Submit, runJob): an
\* execution id that is accepted runs at most once.
THEOREM RegistryExact == Spec => []ActiveExact
<1>1. IInv => ActiveExact
  BY DEF IInv
<1> QED
  BY <1>1, Invariant, PTL

\* No substitute outlives the wait it was started for (Park, Unpark).
THEOREM SubstitutesNeeded == Spec => []SubstituteNeeded
<1>1. IInv => SubstituteNeeded
  BY DEF IInv, WaitsForParked, SubstituteNeeded
<1> QED
  BY <1>1, Invariant, PTL

\* When Close returns nothing is left behind (Close, worker, substituteWorker).
THEOREM CloseIsComplete == Spec => []CloseComplete
<1>1. ASSUME IInv PROVE CloseComplete
  <2>1. returned => \A g \in Goroutine : life[g] # "idle"
    BY <1>1 DEF IInv, Leaving
  <2> QED
    BY <1>1, <2>1, AllGone DEF CloseComplete
<1> QED
  BY <1>1, Invariant, PTL

-----------------------------------------------------------------------------
(* The refinement of JobExecutor.                                          *)

\* What is in hand of the executor is what the registry names.
LEMMA HandIsActive == ASSUME IInv PROVE Executor!InHand = active
BY DEF IInv, ActiveExact, Queued, Running, Executor!InHand

\* No goroutine is the last to leave what waits: a worker stays for it.
LEMMA StaysServed == ASSUME IInv', queue' = queue, closed' = closed PROVE Executor!Served
<1>1. PICK w \in Worker : TRUE
  BY SchedulerAssumption
<1>2. w \in Goroutine /\ life'[w] \in {"unborn", "idle", "gone"} /\ life'[w] # "unborn"
  BY <1>1 DEF IInv, TypeOK, Leaving, Goroutine
<1>3. CASE life'[w] = "idle"
  BY <1>2, <1>3 DEF Alive, Executor!Served
<1>4. CASE life'[w] = "gone"
  BY <1>4, <1>1 DEF IInv, Leaving, Executor!Served
<1> QED
  BY <1>2, <1>3, <1>4

LEMMA ExecutorInit == ASSUME Init PROVE Executor!Init
<1>1. Alive \subseteq Goroutine /\ Alive # {}
  BY SchedulerAssumption DEF Init, Alive, Goroutine
<1> QED
  BY <1>1 DEF Init, Executor!Init

\* A step of the scheduler is one of the executor, or moves a park count only.
LEMMA ExecutorStep ==
  ASSUME IInv, IInv', [Next]_vars PROVE [Executor!Next]_(Executor!vars)
<1>1. ASSUME NEW j \in Job, Submit(j) PROVE Executor!Accept(j)
  BY <1>1, HandIsActive DEF Submit, Enqueue, Alive, Executor!Accept
<1>2. ASSUME NEW j \in Job, Cancel(j) PROVE Executor!Abort(j)
  BY <1>2, HandIsActive DEF Cancel, Alive, Executor!Abort
<1>3. ASSUME NEW j \in Job, Unpark(j) PROVE UNCHANGED Executor!vars
  BY <1>3 DEF Unpark, Alive, Executor!vars
<1>4. ASSUME NEW j \in Job, NEW s \in Substitute, Park(j, s) PROVE Executor!Join(s)
  <2>1. s \in Goroutine /\ life \in [Goroutine -> {"unborn", "idle", "gone"}]
    BY DEF IInv, TypeOK, Goroutine
  <2>2. s \notin Alive /\ Alive' = Alive \cup {s}
    BY <1>4, <2>1 DEF Park, Alive
  <2> QED
    BY <1>4, <2>2 DEF Park, Executor!Join
<1>5. ASSUME NEW g \in Goroutine, Take(g) PROVE Executor!Begin(g)
  BY <1>5 DEF Take, Alive, Executor!Begin
<1>6. ASSUME NEW g \in Goroutine, EndJob(g) PROVE Executor!End(g)
  <2>1. life \in [Goroutine -> {"unborn", "idle", "gone"}] /\ runs[g] # NoJob /\ life[g] = "idle"
    BY <1>6 DEF EndJob, IInv, TypeOK, Leaving
  <2>2. Alive' \in {Alive, Alive \ {g}}
    BY <1>6, <2>1 DEF EndJob, Alive
  <2>3. Executor!Served
    BY <1>6, StaysServed DEF EndJob
  <2> QED
    BY <1>6, <2>1, <2>2, <2>3 DEF EndJob, Alive, Executor!End
<1>7. ASSUME NEW g \in Goroutine, Leave(g) PROVE Executor!Quit(g)
  <2>1. life \in [Goroutine -> {"unborn", "idle", "gone"}] /\ life[g] = "idle"
    BY <1>7 DEF Leave, IInv, TypeOK
  <2>2. g \in Alive /\ Alive' = Alive \ {g}
    BY <1>7, <2>1 DEF Leave, Alive
  <2>3. Executor!Served
    BY <1>7, StaysServed DEF Leave
  <2> QED
    BY <1>7, <2>2, <2>3 DEF Leave, Executor!Quit
<1>8. ASSUME Close PROVE Executor!Shut
  BY <1>8, HandIsActive DEF Close, Alive, Executor!Shut
<1>9. ASSUME CloseReturns PROVE Executor!Return
  <2>1. Executor!InHand = {} /\ Alive = {}
    BY <1>9, AllGone, HandIsActive DEF CloseReturns, Alive
  <2> QED
    BY <1>9, <2>1 DEF CloseReturns, Alive, Executor!Return
<1>10. ASSUME UNCHANGED vars PROVE UNCHANGED Executor!vars
  BY <1>10 DEF vars, Alive, Executor!vars
<1>11. \A s \in Substitute : s \in Goroutine
  BY DEF Goroutine
<1> QED
  BY <1>1, <1>2, <1>3, <1>4, <1>5, <1>6, <1>7, <1>8, <1>9, <1>10, <1>11 DEF Next, Executor!Next

\* Every behaviour of the scheduler, with its parks and substitutes, is one of the
\* executor (Submit, Cancel, Park, Unpark, Close, worker, substituteWorker, runJob).
THEOREM Implements == Spec => ImplementsExecutor
<1>1. Init => Executor!Init
  BY ExecutorInit
<1>2. IInv /\ IInv' /\ [Next]_vars => [Executor!Next]_(Executor!vars)
  BY ExecutorStep
<1> QED
  BY <1>1, <1>2, Invariant, PTL DEF Spec, ImplementsExecutor, Executor!Spec
=============================================================================
