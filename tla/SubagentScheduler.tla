------------------------- MODULE SubagentScheduler -------------------------
(***************************************************************************)
(* The in-process scheduler of sub-agent executions: a bounded queue, a    *)
(* fixed number of workers, a registry of the jobs that are queued or run, *)
(* and a substitute goroutine for every Park, which takes at most one job  *)
(* while the parked execution blocks in wait_agent.                        *)
(*                                                                         *)
(* Submit, Cancel, Park, Unpark and Close are one critical section of the  *)
(* scheduler's lock each.  A job is what the sub-agent service hands over: *)
(* a function that parks and unparks, one or several times, and returns.   *)
(***************************************************************************)
EXTENDS Integers, Sequences, FiniteSets

CONSTANTS
  Job,         \* execution ids
  Worker,      \* goroutines started by NewScheduler
  Substitute,  \* goroutines Park may start: the bound on calls of Park
  QueueSize,   \* capacity of the channel `jobs`
  MaxParks,    \* wait_agent calls one execution has open at the same time
  MaxSubmits,  \* bound on accepted submissions
  NoJob

ASSUME SchedulerAssumption ==
  /\ QueueSize \in Nat \ {0} /\ MaxParks \in Nat /\ MaxSubmits \in Nat
  /\ NoJob \notin Job
  /\ Worker # {}
  /\ Worker \cap Substitute = {}

VARIABLES
  queue,      \* the channel `jobs`
  active,     \* keys of the map `active`
  canceled,   \* active jobs whose context is canceled
  parkCount,  \* activeJob.parkCount
  runs,       \* the job each goroutine runs
  life,       \* "unborn", "idle" or "gone": whether a goroutine exists
  waitsFor,   \* the parked job whose channel `unpark` a substitute selects on
  closed,     \* closed and closedCh
  returned,   \* Close has returned
  submits     \* submissions so far

vars == <<queue, active, canceled, parkCount, runs, life, waitsFor, closed,
          returned, submits>>

Goroutine == Worker \cup Substitute
Running   == {j \in Job : \E g \in Goroutine : runs[g] = j}
Queued    == {j \in Job : \E i \in 1 .. Len(queue) : queue[i] = j}

TypeOK ==
  /\ queue \in Seq(Job) /\ Len(queue) <= QueueSize
  /\ active \subseteq Job /\ canceled \subseteq active
  /\ parkCount \in [Job -> 0..MaxParks]
  /\ runs \in [Goroutine -> Job \cup {NoJob}]
  /\ life \in [Goroutine -> {"unborn", "idle", "gone"}]
  /\ waitsFor \in [Substitute -> Job \cup {NoJob}]
  /\ closed \in BOOLEAN /\ returned \in BOOLEAN
  /\ submits \in 0..MaxSubmits

Init ==
  /\ queue = <<>> /\ active = {} /\ canceled = {}
  /\ parkCount = [j \in Job |-> 0]
  /\ runs = [g \in Goroutine |-> NoJob]
  /\ life = [g \in Goroutine |-> IF g \in Worker THEN "idle" ELSE "unborn"]
  /\ waitsFor = [s \in Substitute |-> NoJob]
  /\ closed = FALSE /\ returned = FALSE /\ submits = 0

-----------------------------------------------------------------------------
Enqueue(j) ==
  /\ submits < MaxSubmits /\ submits' = submits + 1
  /\ queue' = Append(queue, j)
  /\ active' = active \cup {j}
  /\ UNCHANGED <<canceled, parkCount, runs, life, waitsFor, closed, returned>>

\* A closed scheduler, a known id and a full queue are refused.
Submit(j) == ~closed /\ j \notin active /\ Len(queue) < QueueSize /\ Enqueue(j)

Cancel(j) ==
  /\ j \in active
  /\ canceled' = canceled \cup {j}
  /\ UNCHANGED <<queue, active, parkCount, runs, life, waitsFor, closed,
                 returned, submits>>

\* A running execution is about to block in wait_agent; a closed scheduler starts
\* no substitute, and the execution then blocks without being parked.
Park(j, s) ==
  /\ ~closed
  /\ j \in Running /\ parkCount[j] < MaxParks
  /\ life[s] = "unborn"
  /\ parkCount' = [parkCount EXCEPT ![j] = @ + 1]
  /\ life' = [life EXCEPT ![s] = "idle"]
  /\ waitsFor' = [waitsFor EXCEPT ![s] = j]
  /\ UNCHANGED <<queue, active, canceled, runs, closed, returned, submits>>

\* Variant with a bug: the channel stays open after the last Unpark.
UnparkSilently(j) ==
  /\ parkCount[j] > 0
  /\ parkCount' = [parkCount EXCEPT ![j] = @ - 1]
  /\ UNCHANGED <<queue, active, canceled, runs, life, waitsFor, closed,
                 returned, submits>>

\* The last Unpark closes the channel `unpark`: every substitute that selects on
\* it may leave.
Unpark(j) ==
  /\ parkCount[j] > 0
  /\ parkCount' = [parkCount EXCEPT ![j] = @ - 1]
  /\ waitsFor' = IF parkCount[j] > 1 THEN waitsFor
                 ELSE [s \in Substitute |-> IF waitsFor[s] = j THEN NoJob ELSE waitsFor[s]]
  /\ UNCHANGED <<queue, active, canceled, runs, life, closed, returned, submits>>

\* Receive from `jobs`: a worker ranges over it, also after it was closed; the
\* select of a substitute may prefer it to a channel that is closed too.
Take(g) ==
  /\ life[g] = "idle" /\ runs[g] = NoJob /\ queue # <<>>
  /\ runs' = [runs EXCEPT ![g] = Head(queue)]
  /\ queue' = Tail(queue)
  /\ UNCHANGED <<active, canceled, parkCount, life, waitsFor, closed, returned,
                 submits>>

\* Variant with a bug: the worker does not survive its job.
EndJobAndWorker(g) ==
  LET j == runs[g] IN
  /\ j # NoJob /\ parkCount[j] = 0
  /\ runs' = [runs EXCEPT ![g] = NoJob]
  /\ active' = active \ {j}
  /\ canceled' = canceled \ {j}
  /\ life' = [life EXCEPT ![g] = "gone"]
  /\ UNCHANGED <<queue, parkCount, waitsFor, closed, returned, submits>>

\* The job returns or panics, after its deferred Unpark calls; a substitute ends
\* with its one job.
EndJob(g) ==
  LET j == runs[g] IN
  /\ j # NoJob /\ parkCount[j] = 0
  /\ runs' = [runs EXCEPT ![g] = NoJob]
  /\ active' = active \ {j}
  /\ canceled' = canceled \ {j}
  /\ life' = [life EXCEPT ![g] = IF g \in Worker THEN "idle" ELSE "gone"]
  /\ waitsFor' = [s \in Substitute |-> IF s = g THEN NoJob ELSE waitsFor[s]]
  /\ UNCHANGED <<queue, parkCount, closed, returned, submits>>

\* Variant with a bug: Close leaves the channel `jobs` open, and the workers go on
\* receiving from it.
LeaveSubstitutes(g) ==
  /\ life[g] = "idle" /\ runs[g] = NoJob
  /\ g \in Substitute /\ (closed \/ waitsFor[g] = NoJob)
  /\ life' = [life EXCEPT ![g] = "gone"]
  /\ waitsFor' = [s \in Substitute |-> IF s = g THEN NoJob ELSE waitsFor[s]]
  /\ UNCHANGED <<queue, active, canceled, parkCount, runs, closed, returned, submits>>

\* A worker leaves when the closed channel is drained, a substitute when it may.
Leave(g) ==
  /\ life[g] = "idle" /\ runs[g] = NoJob
  /\ \/ closed /\ (queue = <<>> \/ g \in Substitute)
     \/ g \in Substitute /\ waitsFor[g] = NoJob
  /\ life' = [life EXCEPT ![g] = "gone"]
  /\ waitsFor' = [s \in Substitute |-> IF s = g THEN NoJob ELSE waitsFor[s]]
  /\ UNCHANGED <<queue, active, canceled, parkCount, runs, closed, returned, submits>>

\* Close cancels every active job; it returns when the wait group is empty.
Close ==
  /\ ~closed
  /\ closed' = TRUE
  /\ canceled' = active
  /\ UNCHANGED <<queue, active, parkCount, runs, life, waitsFor, returned, submits>>

\* Variant with a bug: the substitutes are not counted by the wait group.
CloseReturnsWorkersGone ==
  /\ closed /\ ~returned
  /\ \A w \in Worker : life[w] # "idle"
  /\ returned' = TRUE
  /\ UNCHANGED <<queue, active, canceled, parkCount, runs, life, waitsFor, closed, submits>>

\* The wait group counts the workers and the substitutes.
CloseReturns ==
  /\ closed /\ ~returned
  /\ \A g \in Goroutine : life[g] # "idle"
  /\ returned' = TRUE
  /\ UNCHANGED <<queue, active, canceled, parkCount, runs, life, waitsFor, closed, submits>>

Next ==
  \/ \E j \in Job : \/ Submit(j) \/ Cancel(j) \/ Unpark(j)
                    \/ \E s \in Substitute : Park(j, s)
  \/ \E g \in Goroutine : Take(g) \/ EndJob(g) \/ Leave(g)
  \/ Close \/ CloseReturns

Spec == Init /\ [][Next]_vars

\* wait_agent returns at its timeout, an execution at the run's time limit.
Fairness ==
  /\ \A j \in Job : WF_vars(Unpark(j))
  /\ \A g \in Goroutine : WF_vars(Take(g)) /\ WF_vars(EndJob(g)) /\ WF_vars(Leave(g))
  /\ WF_vars(CloseReturns)

FairSpec == Spec /\ Fairness

-----------------------------------------------------------------------------
(* Properties.                                                             *)

\* The registry names exactly the jobs that wait or run, and no execution id is in
\* the queue twice, run twice or both.
ActiveExact ==
  /\ active = Queued \cup Running /\ Queued \cap Running = {}
  /\ \A i, k \in 1 .. Len(queue) : queue[i] = queue[k] => i = k
  /\ \A g, h \in Goroutine : runs[g] = runs[h] /\ runs[g] # NoJob => g = h

\* A substitute that can only leave by taking a job stands in for a parked
\* execution: none outlives the wait it was started for.
SubstituteNeeded ==
  \A s \in Substitute :
    life[s] = "idle" /\ runs[s] = NoJob /\ waitsFor[s] # NoJob => parkCount[waitsFor[s]] > 0

\* When Close has returned no job is queued or running and no goroutine is left.
CloseComplete ==
  returned => active = {} /\ queue = <<>> /\ \A g \in Goroutine : life[g] # "idle"

\* Every accepted job ends, whoever is parked and also when the scheduler closes.
JobsEnd == \A j \in Job : (j \in active) ~> (j \notin active)

\* Close returns.
CloseEnds == closed ~> returned

\* To the service the scheduler is a JobExecutor: workers and substitutes are
\* threads that come and go, and parking is invisible.
Alive == {g \in Goroutine : life[g] = "idle"}

Executor == INSTANCE JobExecutor
              WITH Thread <- Goroutine, waiting <- queue, held <- runs, present <- Alive

ImplementsExecutor == Executor!Spec

\* Unpark gives the execution a slot back before it goes on: no more executions
\* are at work than there are workers.
SlotsRespected == Cardinality({j \in Running : parkCount[j] = 0}) <= Cardinality(Worker)

=============================================================================
