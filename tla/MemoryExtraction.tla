--------------------------- MODULE MemoryExtraction ---------------------------
(* The extraction of memory candidates from one finished agent run: the durable
   job, the pool workers that process it, the recovery that runs at start and
   every 30 seconds, and the user who retries a failed job and reviews candidates.

   Every write of the job is a compare-and-swap on its Revision. Revisions are
   only ever compared for equality, so they are represented by `fresh`: whose copy
   of the job is at the stored revision. A candidate is named by its ordinal in
   the batch it was extracted in, and a batch by the attempt that extracted it:
   two extractions of one run need not agree. *)
EXTENDS Naturals

CONSTANTS
  Worker,      \* pool workers
  Ordinal,     \* positions of the candidates of a batch
  MaxAttempts, \* maxAutomaticExtractionAttempts
  QueueSize,   \* capacity of the pool's queue
  MaxFaults,   \* store errors and panics
  MaxLapses,   \* leases that run out under a live worker (the machine slept)
  MaxCrashes, MaxRetries

ASSUME BoundsAssumption == MaxAttempts \in Nat \ {0} /\ QueueSize \in Nat
ASSUME NameAssumption == "recovery" \notin Worker

VARIABLES
  job,      \* the stored job
  fresh,    \* whose copy of the job is at the stored revision
  copy,     \* [Worker \cup {"recovery"} -> its copy of the job]
  at,       \* [Worker -> where it is in Process]
  left,     \* [Worker -> the candidates of its copy it has not yet inserted]
  stored,   \* [Ordinal -> the batch the stored candidate is from, 0 if there is none]
  reviewed, \* candidates the user has approved or rejected
  recovering, \* recovery holds a job it has listed
  queue,    \* Process tasks waiting in the pool
  closed,   \* the pool accepts no more tasks
  faults, lapses, crashes, retries

pool   == <<queue, closed>>
local  == <<copy, at, left, recovering>>
bounds == <<faults, lapses, crashes, retries>>
vars   == <<job, fresh, local, stored, reviewed, pool, bounds>>

NoJob == [status |-> "none", attempts |-> 0, lease |-> FALSE, batch |-> 0]
Place == {"idle", "read", "extract", "prepared", "insert", "succeed", "fail"}
Owning == Place \ {"idle", "read"}

Init ==
  /\ job = NoJob /\ fresh = {}
  /\ copy = [h \in Worker \cup {"recovery"} |-> NoJob]
  /\ at = [w \in Worker |-> "idle"] /\ left = [w \in Worker |-> {}]
  /\ stored = [i \in Ordinal |-> 0] /\ reviewed = {}
  /\ recovering = FALSE
  /\ queue = 0 /\ closed = FALSE
  /\ faults = 0 /\ lapses = 0 /\ crashes = 0 /\ retries = 0

Fault == faults < MaxFaults /\ faults' = faults + 1

\* CompareAndSwapExtractionJob: h writes j over the revision it has; its copy is
\* then the stored job, and every other copy is stale.
Swap(h, j) ==
  /\ h \in fresh
  /\ job' = j
  /\ fresh' = {h}
  /\ copy' = [copy EXCEPT ![h] = j]

\* Executor.Submit: a full or closed pool refuses, and the job stays pending.
Submit == queue' = IF closed \/ queue = QueueSize THEN queue ELSE queue + 1

-----------------------------------------------------------------------------
\* AgentRunCompleted, EnqueueRun: the job is stored before it is submitted.
EnqueueRun ==
  /\ job.status = "none" /\ ~closed
  /\ job' = [NoJob EXCEPT !.status = "pending"]
  /\ Submit
  /\ UNCHANGED <<fresh, local, stored, reviewed, closed, bounds>>

\* Process leaves a job alone that is done, that another worker holds, or whose
\* attempts are used up (a job the user retries is pending again).
Skips(j) == \/ j.status = "succeeded"
            \/ j.status = "running" /\ j.lease
            \/ j.status # "pending" /\ j.attempts >= MaxAttempts

Read(w) ==
  /\ at[w] = "idle" /\ queue > 0
  /\ queue' = queue - 1
  /\ IF Skips(job) THEN UNCHANGED <<fresh, copy, at>>
     ELSE /\ fresh' = fresh \cup {w}
          /\ copy' = [copy EXCEPT ![w] = job]
          /\ at' = [at EXCEPT ![w] = "read"]
  /\ UNCHANGED <<job, left, stored, reviewed, recovering, closed, bounds>>

Begin(w, j) ==
  IF j.batch = 0 THEN at' = [at EXCEPT ![w] = "extract"] /\ UNCHANGED left
  ELSE at' = [at EXCEPT ![w] = "insert"] /\ left' = [left EXCEPT ![w] = Ordinal]

\* The claim: one of the workers that read the same revision gets it.
Claim(w) ==
  /\ at[w] = "read"
  /\ LET j == [copy[w] EXCEPT !.status = "running", !.attempts = @ + 1, !.lease = TRUE] IN
       Swap(w, j) /\ Begin(w, j)
  /\ UNCHANGED <<stored, reviewed, recovering, pool, bounds>>

\* The claim conflicts, or the store fails: Process returns.
ClaimLost(w) ==
  /\ at[w] = "read"
  /\ (w \in fresh /\ Fault) \/ (w \notin fresh /\ UNCHANGED faults)
  /\ at' = [at EXCEPT ![w] = "idle"]
  /\ fresh' = fresh \ {w}
  /\ UNCHANGED <<job, copy, left, stored, reviewed, recovering, pool, lapses, crashes, retries>>

\* prepareCandidates answers, fails, or runs into the four-minute limit.
Extract(w) ==
  /\ at[w] = "extract"
  /\ \/ at' = [at EXCEPT ![w] = "prepared"]
     \/ at' = [at EXCEPT ![w] = "fail"]
  /\ UNCHANGED <<job, fresh, copy, left, stored, reviewed, recovering, pool, bounds>>

\* Variant with a bug: the batch is inserted although it could not be stored with the job.
SavePreparedAnyway(w) ==
  LET j == [copy[w] EXCEPT !.batch = copy[w].attempts] IN
  /\ at[w] = "prepared"
  /\ at' = [at EXCEPT ![w] = "insert"]
  /\ left' = [left EXCEPT ![w] = Ordinal]
  /\ IF w \in fresh THEN Swap(w, j)
     ELSE copy' = [copy EXCEPT ![w] = j] /\ UNCHANGED <<job, fresh>>
  /\ UNCHANGED <<stored, reviewed, recovering, pool, bounds>>

\* The whole batch is stored with the job before its first candidate is inserted.
SavePrepared(w) ==
  LET j == [copy[w] EXCEPT !.batch = copy[w].attempts] IN
  /\ at[w] = "prepared"
  /\ at' = [at EXCEPT ![w] = "insert"]
  /\ left' = [left EXCEPT ![w] = Ordinal]
  /\ Swap(w, j)
  /\ UNCHANGED <<stored, reviewed, recovering, pool, bounds>>

SavePreparedLost(w) ==
  /\ at[w] = "prepared"
  /\ IF w \in fresh THEN Fault ELSE UNCHANGED faults
  /\ at' = [at EXCEPT ![w] = "idle"]
  /\ fresh' = fresh \ {w}
  /\ UNCHANGED <<job, copy, left, stored, reviewed, recovering, pool, lapses, crashes, retries>>

\* Variant with a bug: a candidate is written over the one that is there.
InsertOver(w) ==
  /\ at[w] = "insert"
  /\ \E i \in left[w] :
       /\ \A j \in left[w] : i <= j
       /\ stored' = [stored EXCEPT ![i] = copy[w].batch]
       /\ reviewed' = reviewed \ {i}
       /\ left' = [left EXCEPT ![w] = @ \ {i}]
  /\ UNCHANGED <<job, fresh, copy, at, recovering, pool, bounds>>

\* InsertCandidateIfAbsent, in the order of the batch: a candidate that is there,
\* reviewed or not, is left as it is. A store error or the limit ends the attempt.
Insert(w) ==
  /\ at[w] = "insert"
  /\ \E i \in left[w] :
       /\ \A j \in left[w] : i <= j
       /\ stored' = [stored EXCEPT ![i] = IF @ = 0 THEN copy[w].batch ELSE @]
       /\ left' = [left EXCEPT ![w] = @ \ {i}]
  /\ UNCHANGED <<job, fresh, copy, at, reviewed, recovering, pool, bounds>>

InsertFails(w) ==
  /\ at[w] = "insert" /\ left[w] # {}
  /\ Fault
  /\ at' = [at EXCEPT ![w] = "fail"]
  /\ UNCHANGED <<job, fresh, copy, left, stored, reviewed, recovering, pool, lapses, crashes, retries>>

Inserted(w) ==
  /\ at[w] = "insert" /\ left[w] = {}
  /\ at' = [at EXCEPT ![w] = "succeed"]
  /\ UNCHANGED <<job, fresh, copy, left, stored, reviewed, recovering, pool, bounds>>

\* finishJob: the outcome is stored if the worker still holds the revision.
Finish(w) ==
  /\ at[w] \in {"succeed", "fail"}
  /\ Swap(w, [copy[w] EXCEPT !.status = IF at[w] = "succeed" THEN "succeeded" ELSE "failed",
                             !.lease = FALSE])
  /\ at' = [at EXCEPT ![w] = "idle"]
  /\ UNCHANGED <<left, stored, reviewed, recovering, pool, bounds>>

\* The outcome conflicts or cannot be stored, or the task panics: the worker goes
\* on with other tasks and leaves the job as it is.
Drop(w) ==
  /\ at[w] \in Owning
  /\ IF at[w] \in {"succeed", "fail"} /\ w \notin fresh THEN UNCHANGED faults ELSE Fault
  /\ at' = [at EXCEPT ![w] = "idle"]
  /\ fresh' = fresh \ {w}
  /\ UNCHANGED <<job, copy, left, stored, reviewed, recovering, pool, lapses, crashes, retries>>

\* The five minutes of the lease are over. Work is limited to four, so a live owner
\* only sees it when the clock jumps.
LeaseLapses ==
  /\ job.status = "running" /\ job.lease
  /\ IF \E w \in Worker : at[w] \in Owning /\ w \in fresh
       THEN lapses < MaxLapses /\ lapses' = lapses + 1 ELSE UNCHANGED lapses
  /\ job' = [job EXCEPT !.lease = FALSE]
  /\ UNCHANGED <<fresh, local, stored, reviewed, pool, faults, crashes, retries>>

-----------------------------------------------------------------------------
(* Recovery, at start and by the ticker. *)

\* Variant with a bug: a job whose lease has run out is not taken up.
RecoverableUnlessRunning(j) ==
  j.status = "pending" \/ (j.status = "failed" /\ j.attempts < MaxAttempts)

\* ListRecoverableExtractionJobs.
Recoverable(j) == \/ j.status = "pending"
                  \/ j.status = "failed" /\ j.attempts < MaxAttempts
                  \/ j.status = "running" /\ ~j.lease

RecoverList ==
  /\ ~recovering /\ ~closed /\ Recoverable(job)
  /\ recovering' = TRUE
  /\ copy' = [copy EXCEPT !["recovery"] = job]
  /\ fresh' = fresh \cup {"recovery"}
  /\ UNCHANGED <<job, at, left, stored, reviewed, pool, bounds>>

\* Variant with a bug: an interrupted last attempt is submitted again.
ExhaustedNever(j) == FALSE

Exhausted(j) == j.status # "pending" /\ j.attempts >= MaxAttempts

\* A job with attempts left is made pending and submitted, the others fail.
RecoverSave ==
  /\ recovering
  /\ recovering' = FALSE
  /\ LET j == copy["recovery"] IN
       /\ Swap("recovery", [j EXCEPT !.status = IF Exhausted(j) THEN "failed" ELSE "pending",
                                     !.lease = FALSE])
       /\ IF Exhausted(j) THEN UNCHANGED queue ELSE Submit
  /\ UNCHANGED <<at, left, stored, reviewed, closed, bounds>>

RecoverLost ==
  /\ recovering
  /\ IF "recovery" \in fresh THEN Fault ELSE UNCHANGED faults
  /\ recovering' = FALSE
  /\ fresh' = fresh \ {"recovery"}
  /\ UNCHANGED <<job, copy, at, left, stored, reviewed, pool, lapses, crashes, retries>>

-----------------------------------------------------------------------------
\* The user submits a failed job again; its attempts go on counting.
Retry ==
  /\ job.status = "failed" /\ ~closed /\ retries < MaxRetries
  /\ retries' = retries + 1
  /\ job' = [job EXCEPT !.status = "pending"]
  /\ fresh' = {}
  /\ Submit
  /\ UNCHANGED <<local, stored, reviewed, closed, faults, lapses, crashes>>

\* The user approves or rejects a stored candidate.
Review(i) ==
  /\ stored[i] # 0 /\ i \notin reviewed
  /\ reviewed' = reviewed \cup {i}
  /\ UNCHANGED <<job, fresh, local, stored, pool, bounds>>

\* Close: recovery has stopped; the pool drains its queue.
Shutdown ==
  /\ ~closed /\ ~recovering /\ crashes < MaxCrashes
  /\ closed' = TRUE
  /\ crashes' = crashes + 1
  /\ UNCHANGED <<job, fresh, local, stored, reviewed, queue, faults, lapses, retries>>

Restart ==
  /\ closed /\ queue = 0 /\ \A w \in Worker : at[w] = "idle"
  /\ closed' = FALSE
  /\ UNCHANGED <<job, fresh, local, stored, reviewed, queue, bounds>>

\* The process dies and starts again.
Crash ==
  /\ crashes < MaxCrashes
  /\ crashes' = crashes + 1
  /\ at' = [w \in Worker |-> "idle"] /\ left' = [w \in Worker |-> {}]
  /\ recovering' = FALSE
  /\ fresh' = {} /\ queue' = 0 /\ closed' = FALSE
  /\ UNCHANGED <<job, copy, stored, reviewed, faults, lapses, retries>>

-----------------------------------------------------------------------------
Work(w) == \/ Read(w) \/ Claim(w) \/ ClaimLost(w) \/ Extract(w) \/ SavePrepared(w)
           \/ SavePreparedLost(w) \/ Insert(w) \/ InsertFails(w) \/ Inserted(w) \/ Finish(w) \/ Drop(w)

Recovery == RecoverList \/ RecoverSave \/ RecoverLost

Next == \/ EnqueueRun \/ LeaseLapses \/ Recovery \/ Retry
        \/ Shutdown \/ Restart \/ Crash
        \/ \E w \in Worker : Work(w)
        \/ \E i \in Ordinal : Review(i)

\* Workers run, leases run out, the ticker ticks, and the program is started again.
\* A claim is not overtaken for ever by the ticker, which is 30 seconds apart.
Fairness ==
  /\ WF_vars(LeaseLapses) /\ WF_vars(Recovery) /\ WF_vars(Restart)
  /\ \A w \in Worker : WF_vars(Work(w)) /\ SF_vars(Claim(w))

Spec == Init /\ [][Next]_vars /\ Fairness

-----------------------------------------------------------------------------
Job == [status : {"none", "pending", "running", "succeeded", "failed"},
        attempts : Nat, lease : BOOLEAN, batch : Nat]

\* Every variable has its type.
TypeOK ==
  /\ job \in Job /\ copy \in [Worker \cup {"recovery"} -> Job]
  /\ fresh \subseteq Worker \cup {"recovery"}
  /\ at \in [Worker -> Place] /\ left \in [Worker -> SUBSET Ordinal]
  /\ stored \in [Ordinal -> Nat] /\ reviewed \subseteq Ordinal
  /\ recovering \in BOOLEAN /\ closed \in BOOLEAN
  /\ queue \in 0 .. QueueSize
  /\ faults \in Nat /\ lapses \in Nat /\ crashes \in Nat /\ retries \in Nat

\* All stored candidates of a job are from the one batch that is stored with it,
\* whoever extracted and inserted, and a job that succeeded has stored all of them
\* (Process, persistPreparedCandidates, finishJob).
BatchStored ==
  /\ \A i \in Ordinal : stored[i] # 0 => stored[i] = job.batch
  /\ job.status = "succeeded" => job.batch # 0 /\ \A i \in Ordinal : stored[i] # 0

\* The model is not asked more often than the automatic limit and the user's
\* retries allow, however often workers die and are recovered.
AttemptsBounded == job.attempts <= MaxAttempts + retries

\* What the user decided about a candidate stays decided, and the candidate stays
\* the one the decision was about: no later attempt of the job, and none that is
\* still under way, writes over it (InsertCandidateIfAbsent).
ReviewKept == [][\A i \in reviewed : i \in reviewed' /\ stored'[i] = stored[i]]_vars

\* A job is done in the end: it succeeds, or fails with its attempts used up.
JobSettles ==
  job.status # "none" ~>
    job.status = "succeeded" \/ (job.status = "failed" /\ job.attempts >= MaxAttempts)
=============================================================================
