------------------------ MODULE MemoryExtractionProofs ------------------------
(* Proofs about MemoryExtraction, for any set of workers, any batch, any size of
   the pool's queue and any bounds. *)
EXTENDS MemoryExtraction, TLAPS

Holder == Worker \cup {"recovery"}

\* Before there is a job nobody has a copy of it and nothing is queued.
Unstarted == job.status = "none" => queue = 0 /\ fresh = {} /\ job.batch = 0

\* A copy at the stored revision differs from the job by the lapse of its lease at most.
FreshCopies == \A h \in fresh :
  copy[h].status = job.status /\ copy[h].attempts = job.attempts /\ copy[h].batch = job.batch

\* However old a copy is, a batch it carries is the one that is stored.
OneBatch == \A h \in Holder : copy[h].batch # 0 => copy[h].batch = job.batch

\* What a worker knows of its attempt, whether or not it still owns the job.
Attempt(w) ==
  /\ at[w] = "read" => copy[w].status = "pending" \/ copy[w].attempts < MaxAttempts
  /\ at[w] \in {"extract", "prepared"} => copy[w].batch = 0 /\ copy[w].attempts # 0
  /\ at[w] \in {"insert", "succeed"} =>
       copy[w].batch # 0 /\ \A i \in Ordinal : i \in left[w] \/ stored[i] # 0
  /\ at[w] = "succeed" => left[w] = {}

Attempts == \A w \in Worker : Attempt(w)

\* Only what is stored is reviewed.
ReviewedStored == \A i \in reviewed : stored[i] # 0

\* A job that waits for an attempt has one left.
AttemptLeft ==
  /\ job.attempts <= MaxAttempts + retries
  /\ job.status = "pending" => job.attempts < MaxAttempts + retries

IInv == /\ TypeOK /\ Unstarted /\ FreshCopies /\ OneBatch /\ Attempts
        /\ BatchStored /\ ReviewedStored /\ AttemptLeft

-----------------------------------------------------------------------------
LEMMA InvInit == ASSUME Init PROVE IInv
<1>1. TypeOK
  <2>1. recovering \in BOOLEAN /\ closed \in BOOLEAN
    BY DEF Init
  <2> QED
    BY <2>1, BoundsAssumption DEF Init, TypeOK, Job, NoJob, Place
<1>2. Unstarted /\ FreshCopies /\ OneBatch /\ Attempts
  BY DEF Init, NoJob, Holder, Unstarted, FreshCopies, OneBatch, Attempts, Attempt
<1>3. BatchStored /\ ReviewedStored /\ AttemptLeft
  BY BoundsAssumption DEF Init, NoJob, BatchStored, ReviewedStored, AttemptLeft
<1> QED
  BY <1>1, <1>2, <1>3 DEF IInv

\* The two flags keep their type: each action sets or leaves them.
LEMMA FlagStep ==
  ASSUME recovering \in BOOLEAN, closed \in BOOLEAN, [Next]_vars
  PROVE  recovering' \in BOOLEAN /\ closed' \in BOOLEAN
<1> USE DEF vars, local, pool
<1>1. CASE UNCHANGED vars
  BY <1>1
<1>2. ASSUME NEW w \in Worker, Work(w) PROVE recovering' = recovering /\ closed' = closed
  BY <1>2 DEF Work, Read, Claim, ClaimLost, Extract, SavePrepared, SavePreparedLost, Insert,
     InsertFails, Inserted, Finish, Drop
<1>3. CASE EnqueueRun \/ LeaseLapses \/ Retry \/ \E i \in Ordinal : Review(i)
  BY <1>3 DEF EnqueueRun, LeaseLapses, Retry, Review
<1>4. CASE Recovery
  BY <1>4 DEF Recovery, RecoverList, RecoverSave, RecoverLost
<1>5. CASE Shutdown \/ Restart \/ Crash
  BY <1>5 DEF Shutdown, Restart, Crash
<1> QED
  BY <1>1, <1>2, <1>3, <1>4, <1>5, Zenon DEF Next

\* The updates of a job record that claim it, save a batch with it and end it.
LEMMA Updated ==
  ASSUME NEW j \in Job, NEW s \in {"pending", "running", "succeeded", "failed"}, NEW n \in Nat,
         NEW b \in BOOLEAN
  PROVE  /\ [j EXCEPT !.status = s] \in Job
         /\ [j EXCEPT !.batch = n] \in Job
         /\ [j EXCEPT !.lease = b] \in Job
         /\ [j EXCEPT !.status = s, !.lease = b] \in Job
         /\ [j EXCEPT !.status = s, !.attempts = n, !.lease = b] \in Job
BY DEF Job

\* Every action keeps the types.
LEMMA TypeStep == ASSUME TypeOK, [Next]_vars PROVE TypeOK'
<1>1. recovering' \in BOOLEAN /\ closed' \in BOOLEAN
  BY FlagStep, Zenon DEF TypeOK
<1> USE <1>1, BoundsAssumption, NameAssumption
    DEF TypeOK, Place, Fault, Swap, local, pool, bounds
<1>2. CASE UNCHANGED vars
  BY <1>2 DEF vars
<1>3. CASE EnqueueRun
  <2>1. job' \in Job
    BY <1>3 DEF EnqueueRun, NoJob, Job
  <2> QED
    BY <1>3, <2>1 DEF EnqueueRun, Submit
<1>4. CASE Retry
  <2>1. job' \in Job
    BY <1>4, Updated DEF Retry
  <2> QED
    BY <1>4, <2>1 DEF Retry, Submit
<1>5. ASSUME NEW w \in Worker, Read(w) PROVE TypeOK'
  BY <1>5 DEF Read
<1>6. ASSUME NEW w \in Worker, Claim(w) PROVE TypeOK'
  <2>1. job' \in Job /\ copy' \in [Holder -> Job]
    <3>1. copy[w] \in Job
      BY DEF Holder
    <3>2. copy[w].attempts + 1 \in Nat
      BY <3>1 DEF Job
    <3> QED
      BY <1>6, <3>1, <3>2, Updated DEF Claim, Holder
  <2> QED
    BY <1>6, <2>1 DEF Claim, Begin, Holder
<1>7. ASSUME NEW w \in Worker, ClaimLost(w) \/ Extract(w) PROVE TypeOK'
  BY <1>7 DEF ClaimLost, Extract
<1>8. ASSUME NEW w \in Worker, SavePrepared(w) PROVE TypeOK'
  <2>1. job' \in Job /\ copy' \in [Holder -> Job]
    <3>1. copy[w] \in Job /\ copy[w].attempts \in Nat
      BY DEF Holder, Job
    <3> QED
      BY <1>8, <3>1, Updated DEF SavePrepared, Holder
  <2> QED
    BY <1>8, <2>1 DEF SavePrepared, Holder
<1>9. ASSUME NEW w \in Worker, Insert(w) PROVE TypeOK'
  <2>1. copy[w].batch \in Nat
    BY DEF Job
  <2> QED
    BY <1>9, <2>1 DEF Insert
<1>10. ASSUME NEW w \in Worker, SavePreparedLost(w) \/ InsertFails(w) \/ Inserted(w) \/ Drop(w)
       PROVE  TypeOK'
  BY <1>10 DEF SavePreparedLost, InsertFails, Inserted, Drop
<1>11. ASSUME NEW w \in Worker, Finish(w) PROVE TypeOK'
  <2>1. job' \in Job /\ copy' \in [Holder -> Job]
    <3>1. copy[w] \in Job /\ copy[w].attempts \in Nat
      BY DEF Holder, Job
    <3> QED
      BY <1>11, <3>1, Updated DEF Finish, Holder
  <2> QED
    BY <1>11, <2>1 DEF Finish, Holder
<1>12. CASE LeaseLapses
  <2>1. job' \in Job
    BY <1>12, Updated DEF LeaseLapses
  <2> QED
    BY <1>12, <2>1 DEF LeaseLapses
<1>13. CASE RecoverList \/ RecoverLost
  BY <1>13 DEF RecoverList, RecoverLost
<1>14. CASE RecoverSave
  <2>1. job' \in Job /\ copy' \in [Holder -> Job]
    <3>1. copy["recovery"] \in Job
      BY DEF Holder
    <3> QED
      BY <1>14, <3>1, Updated DEF RecoverSave, Holder
  <2> QED
    BY <1>14, <2>1 DEF RecoverSave, Submit, Holder
<1>15. CASE Shutdown \/ Restart \/ Crash \/ \E i \in Ordinal : Review(i)
  BY <1>15 DEF Shutdown, Restart, Crash, Review
<1> QED
  BY <1>2, <1>3, <1>4, <1>5, <1>6, <1>7, <1>8, <1>9, <1>10, <1>11, <1>12, <1>13, <1>14, <1>15
     DEF Next, Work, Recovery

\* What the writes of the job leave alone: an attempt changes no batch but its own,
\* and no write takes the job back to where it is not there.
LEMMA Written ==
  ASSUME TypeOK, TypeOK', Unstarted, FreshCopies, OneBatch, Attempts, BatchStored, [Next]_vars
  PROVE  /\ job'.batch # job.batch =>
              job.batch = 0 /\ job.status # "succeeded" /\ \E w \in Worker : SavePrepared(w)
         /\ job'.status = "none" => job' = job /\ queue' = 0 /\ fresh' = {}
<1> DEFINE Goal ==
      /\ job'.batch # job.batch =>
           job.batch = 0 /\ job.status # "succeeded" /\ \E w \in Worker : SavePrepared(w)
      /\ job'.status = "none" => job' = job /\ queue' = 0 /\ fresh' = {}
<1> USE NameAssumption, BoundsAssumption
    DEF TypeOK, Job, Unstarted, FreshCopies, Fault, Swap, local, pool, bounds
<1>1. CASE UNCHANGED vars
  BY <1>1 DEF vars
<1>2. CASE EnqueueRun
  BY <1>2 DEF EnqueueRun, NoJob
<1>3. CASE Retry \/ LeaseLapses
  BY <1>3 DEF Retry, LeaseLapses
<1>4. ASSUME NEW w \in Worker, Read(w) \/ ClaimLost(w) \/ Extract(w) PROVE Goal
  BY <1>4 DEF Read, ClaimLost, Extract, Skips
<1>5. ASSUME NEW w \in Worker, Claim(w) \/ Finish(w) PROVE Goal
  <2>1. w \in fresh /\ copy[w].batch = job.batch /\ copy[w] \in Job
    BY <1>5 DEF Claim, Finish
  <2>2. job'.batch = copy[w].batch
    <3>1. CASE Claim(w)
      BY <3>1, <2>1 DEF Claim
    <3>2. CASE Finish(w)
      BY <3>2, <2>1 DEF Finish
    <3> QED
      BY <1>5, <3>1, <3>2
  <2>3. job'.status \in {"running", "succeeded", "failed"}
    <3>1. CASE Claim(w)
      BY <3>1, <2>1 DEF Claim, Job
    <3>2. CASE Finish(w)
      BY <3>2, <2>1 DEF Finish, Job
    <3> QED
      BY <1>5, <3>1, <3>2
  <2> QED
    BY <2>1, <2>2, <2>3
<1>6. ASSUME NEW w \in Worker, SavePrepared(w) PROVE Goal
  <2>1. w \in fresh /\ copy[w].batch = 0 /\ job' = [copy[w] EXCEPT !.batch = copy[w].attempts]
    BY <1>6 DEF SavePrepared, Attempts, Attempt
  <2>2. job.batch = 0 /\ job'.status = job.status /\ job.status # "none"
    BY <2>1
  <2>3. job.status # "succeeded"
    BY <2>1, <2>2, <1>6 DEF Attempts, Attempt, SavePrepared, BatchStored
  <2> QED
    BY <1>6, <2>2, <2>3
<1>7. ASSUME NEW w \in Worker,
             SavePreparedLost(w) \/ Insert(w) \/ InsertFails(w) \/ Inserted(w) \/ Drop(w)
      PROVE  Goal
  BY <1>7 DEF SavePreparedLost, Insert, InsertFails, Inserted, Drop
<1>8. CASE RecoverList \/ RecoverLost
  BY <1>8 DEF RecoverList, RecoverLost, Recoverable
<1>9. CASE RecoverSave
  BY <1>9 DEF RecoverSave
<1>10. CASE Shutdown \/ Restart \/ Crash \/ \E i \in Ordinal : Review(i)
  BY <1>10 DEF Shutdown, Restart, Crash, Review
<1> QED
  BY <1>1, <1>2, <1>3, <1>4, <1>5, <1>6, <1>7, <1>8, <1>9, <1>10 DEF Next, Work, Recovery

LEMMA CopiesStep ==
  ASSUME TypeOK, TypeOK', Unstarted, FreshCopies, [Next]_vars
  PROVE  FreshCopies'
<1> USE NameAssumption, BoundsAssumption
    DEF TypeOK, Job, Unstarted, FreshCopies, Fault, Swap, local, pool, bounds
<1>1. CASE UNCHANGED vars
  BY <1>1 DEF vars
<1>2. CASE EnqueueRun
  BY <1>2 DEF EnqueueRun, NoJob
<1>3. CASE Retry \/ LeaseLapses
  BY <1>3 DEF Retry, LeaseLapses
<1>4. ASSUME NEW w \in Worker, Read(w) \/ ClaimLost(w) \/ Extract(w) PROVE FreshCopies'
  BY <1>4 DEF Read, ClaimLost, Extract
<1>5. ASSUME NEW w \in Worker, Claim(w) \/ Finish(w) \/ SavePrepared(w) PROVE FreshCopies'
  BY <1>5 DEF Claim, Finish, SavePrepared
<1>6. ASSUME NEW w \in Worker,
             SavePreparedLost(w) \/ Insert(w) \/ InsertFails(w) \/ Inserted(w) \/ Drop(w)
      PROVE  FreshCopies'
  BY <1>6 DEF SavePreparedLost, Insert, InsertFails, Inserted, Drop
<1>7. CASE RecoverList \/ RecoverLost
  BY <1>7 DEF RecoverList, RecoverLost
<1>8. CASE RecoverSave
  BY <1>8 DEF RecoverSave
<1>9. CASE Shutdown \/ Restart \/ Crash \/ \E i \in Ordinal : Review(i)
  BY <1>9 DEF Shutdown, Restart, Crash, Review
<1> QED
  BY <1>1, <1>2, <1>3, <1>4, <1>5, <1>6, <1>7, <1>8, <1>9 DEF Next, Work, Recovery

\* A copy changes when it is read or when it is written, and a batch that is stored
\* is never replaced.
LEMMA OneBatchStep ==
  ASSUME TypeOK, TypeOK', Unstarted, FreshCopies, OneBatch, Attempts, BatchStored, [Next]_vars
  PROVE  OneBatch'
<1> DEFINE Read1 == \A h \in Holder :
             copy'[h].batch \in {copy[h].batch, job.batch, job'.batch}
<1>1. Read1
  <2> USE NameAssumption DEF TypeOK, Job, Holder, FreshCopies, Fault, Swap, local, pool, bounds
  <2>1. CASE UNCHANGED vars
    BY <2>1 DEF vars
  <2>2. ASSUME NEW w \in Worker, Work(w) PROVE Read1
    <3>1. CASE Read(w) \/ ClaimLost(w) \/ Extract(w) \/ Insert(w) \/ InsertFails(w)
      BY <3>1 DEF Read, ClaimLost, Extract, Insert, InsertFails
    <3>2. CASE Claim(w) \/ SavePrepared(w) \/ Finish(w)
      BY <3>2 DEF Claim, SavePrepared, Finish
    <3>3. CASE SavePreparedLost(w) \/ Inserted(w) \/ Drop(w)
      BY <3>3 DEF SavePreparedLost, Inserted, Drop
    <3> QED
      BY <2>2, <3>1, <3>2, <3>3 DEF Work
  <2>3. CASE Recovery
    BY <2>3 DEF Recovery, RecoverList, RecoverSave, RecoverLost
  <2>4. CASE \/ EnqueueRun \/ LeaseLapses \/ Retry \/ Shutdown \/ Restart \/ Crash
             \/ \E i \in Ordinal : Review(i)
    BY <2>4 DEF EnqueueRun, LeaseLapses, Retry, Shutdown, Restart, Crash, Review
  <2> QED
    BY <2>1, <2>2, <2>3, <2>4 DEF Next
<1> QED
  BY <1>1, Written DEF OneBatch

\* Stored candidates are never changed, and a new one comes from the batch that is
\* stored with the job.
LEMMA StoredStep ==
  ASSUME TypeOK, OneBatch, Attempts, [Next]_vars
  PROVE  \A i \in Ordinal : \/ stored'[i] = stored[i]
                            \/ stored[i] = 0 /\ stored'[i] = job.batch /\ job' = job
<1> USE DEF TypeOK, Fault, Swap, local, pool, bounds
<1>1. CASE UNCHANGED vars
  BY <1>1 DEF vars
<1>2. ASSUME NEW w \in Worker, Insert(w)
      PROVE  \A i \in Ordinal : \/ stored'[i] = stored[i]
                                \/ stored[i] = 0 /\ stored'[i] = job.batch /\ job' = job
  BY <1>2 DEF Insert, OneBatch, Attempts, Attempt, Holder
<1>3. ASSUME NEW w \in Worker, Work(w), ~Insert(w) PROVE stored' = stored
  BY <1>3 DEF Work, Read, Claim, ClaimLost, Extract, SavePrepared, SavePreparedLost,
     InsertFails, Inserted, Finish, Drop
<1>4. CASE Recovery
  BY <1>4 DEF Recovery, RecoverList, RecoverSave, RecoverLost
<1>5. CASE \/ EnqueueRun \/ LeaseLapses \/ Retry \/ Shutdown \/ Restart \/ Crash
           \/ \E i \in Ordinal : Review(i)
  BY <1>5 DEF EnqueueRun, LeaseLapses, Retry, Shutdown, Restart, Crash, Review
<1> QED
  BY <1>1, <1>2, <1>3, <1>4, <1>5 DEF Next

\* An attempt of another worker does not disturb what a worker knows of its own.
LEMMA AttemptsStep ==
  ASSUME TypeOK, TypeOK', FreshCopies, OneBatch, Attempts, [Next]_vars
  PROVE  Attempts'
<1>1. \A i \in Ordinal : stored[i] # 0 => stored'[i] # 0
  BY StoredStep
<1> USE NameAssumption, BoundsAssumption
    DEF TypeOK, Job, Attempt, Fault, Swap, local, pool, bounds
<1>2. ASSUME NEW w \in Worker, at'[w] = at[w], left'[w] = left[w], copy'[w] = copy[w]
      PROVE  Attempt(w)'
  BY <1>1, <1>2 DEF Attempts
<1>3. ASSUME NEW w \in Worker, at'[w] \in {"idle", "fail"} PROVE Attempt(w)'
  BY <1>3
<1>4. ASSUME NEW w \in Worker, Work(w) PROVE Attempt(w)'
  <2>1. CASE Read(w)
    BY <2>1, <1>2 DEF Read, Skips
  <2>2. CASE Claim(w)
    BY <2>2 DEF Claim, Begin
  <2>3. CASE Extract(w)
    BY <2>3 DEF Extract, Attempts
  <2>4. CASE SavePrepared(w)
    BY <2>4 DEF SavePrepared, Attempts
  <2>5. CASE Insert(w)
    BY <2>5, <1>1 DEF Insert, Attempts
  <2>6. CASE Inserted(w)
    BY <2>6 DEF Inserted, Attempts
  <2>7. CASE ClaimLost(w) \/ SavePreparedLost(w) \/ InsertFails(w) \/ Finish(w) \/ Drop(w)
    BY <2>7, <1>3 DEF ClaimLost, SavePreparedLost, InsertFails, Finish, Drop
  <2> QED
    BY <1>4, <2>1, <2>2, <2>3, <2>4, <2>5, <2>6, <2>7 DEF Work
<1>5. ASSUME NEW w \in Worker, NEW v \in Worker, Work(v), v # w
      PROVE  at'[w] = at[w] /\ left'[w] = left[w] /\ copy'[w] = copy[w]
  BY <1>5 DEF Work, Read, Claim, Begin, ClaimLost, Extract, SavePrepared, SavePreparedLost,
     Insert, InsertFails, Inserted, Finish, Drop
<1>6. ASSUME NEW w \in Worker, Recovery
      PROVE  at'[w] = at[w] /\ left'[w] = left[w] /\ copy'[w] = copy[w]
  BY <1>6 DEF Recovery, RecoverList, RecoverSave, RecoverLost
<1>7. CASE UNCHANGED local
  BY <1>7, <1>2 DEF Attempts
<1>8. CASE EnqueueRun \/ LeaseLapses \/ Retry \/ Shutdown \/ Restart \/ \E i \in Ordinal : Review(i)
  BY <1>8, <1>7 DEF EnqueueRun, LeaseLapses, Retry, Shutdown, Restart, Review
<1>9. CASE Crash
  BY <1>9, <1>3 DEF Crash, Attempts
<1>10. CASE UNCHANGED vars
  BY <1>10, <1>7 DEF vars
<1> QED
  BY <1>2, <1>4, <1>5, <1>6, <1>8, <1>9, <1>10 DEF Next, Attempts

LEMMA BatchStep ==
  ASSUME TypeOK, TypeOK', Unstarted, FreshCopies, OneBatch, Attempts, BatchStored, [Next]_vars
  PROVE  BatchStored'
<1>1. ASSUME NEW i \in Ordinal, stored'[i] # 0 PROVE stored'[i] = job'.batch
  BY <1>1, StoredStep, Written DEF BatchStored
<1>2. CASE job'.status = "succeeded" /\ job.status = "succeeded"
  BY <1>1, <1>2, StoredStep, Written DEF BatchStored
<1>3. ASSUME job'.status = "succeeded", job.status # "succeeded"
      PROVE  \E w \in Worker : Finish(w) /\ at[w] = "succeed"
  <2> USE NameAssumption DEF TypeOK, Job, Unstarted, FreshCopies, Fault, Swap, local, pool, bounds
  <2>1. CASE UNCHANGED vars
    BY <1>3, <2>1 DEF vars
  <2>2. ASSUME NEW w \in Worker, Work(w) PROVE Finish(w) /\ at[w] = "succeed"
    <3>1. CASE Claim(w) \/ SavePrepared(w)
      <4>1. ASSUME Claim(w) PROVE FALSE
        <5>1. copy[w] \in Job /\ w \in fresh
          BY <4>1 DEF Claim
        <5>2. job' = [copy[w] EXCEPT !.status = "running", !.attempts = copy[w].attempts + 1, !.lease = TRUE]
          BY <4>1 DEF Claim
        <5>3. job'.status = "running"
          BY <5>1, <5>2
        <5> QED
          BY <1>3, <5>3
      <4> QED
        BY <1>3, <3>1, <4>1 DEF SavePrepared
    <3>2. CASE Finish(w)
      BY <1>3, <3>2 DEF Finish
    <3>3. CASE Read(w) \/ ClaimLost(w) \/ Extract(w) \/ SavePreparedLost(w) \/ Insert(w)
      BY <1>3, <3>3 DEF Read, ClaimLost, Extract, SavePreparedLost, Insert
    <3>4. CASE InsertFails(w) \/ Inserted(w) \/ Drop(w)
      BY <1>3, <3>4 DEF InsertFails, Inserted, Drop
    <3> QED
      BY <2>2, <3>1, <3>2, <3>3, <3>4 DEF Work
  <2>3. ~Recovery
    BY <1>3, ZenonT(40) DEF Recovery, RecoverList, RecoverSave, RecoverLost
  <2>4. ~(EnqueueRun \/ LeaseLapses \/ Retry)
    BY <1>3 DEF EnqueueRun, LeaseLapses, Retry, NoJob
  <2>5. ~(Shutdown \/ Restart \/ Crash \/ \E i \in Ordinal : Review(i))
    BY <1>3 DEF Shutdown, Restart, Crash, Review
  <2> QED
    BY <2>1, <2>2, <2>3, <2>4, <2>5 DEF Next
<1>4. ASSUME NEW w \in Worker, Finish(w), at[w] = "succeed"
      PROVE  job'.batch # 0 /\ \A i \in Ordinal : stored'[i] # 0
  <2>1. w \in fresh /\ job' = [copy[w] EXCEPT !.status = "succeeded", !.lease = FALSE]
    BY <1>4 DEF Finish, Swap
  <2>2. job'.batch = copy[w].batch /\ copy[w].batch # 0
    BY <1>4, <2>1 DEF TypeOK, Job, Attempts, Attempt
  <2> QED
    BY <1>4, <2>2, StoredStep DEF Attempts, Attempt
<1> QED
  BY <1>1, <1>2, <1>3, <1>4 DEF BatchStored

\* The user's decisions stand (InsertCandidateIfAbsent).
LEMMA ReviewStep ==
  ASSUME TypeOK, OneBatch, Attempts, ReviewedStored, reviewed \subseteq Ordinal, [Next]_vars
  PROVE  /\ \A i \in reviewed : i \in reviewed' /\ stored'[i] = stored[i]
         /\ ReviewedStored'
<1>1. CASE \E i \in Ordinal : Review(i)
  BY <1>1 DEF Review, ReviewedStored
<1>2. CASE UNCHANGED vars
  BY <1>2 DEF vars, ReviewedStored
<1>3. CASE \E w \in Worker : Work(w)
  <2>1. reviewed' = reviewed
    BY <1>3 DEF Work, Read, Claim, ClaimLost, Extract, SavePrepared, SavePreparedLost,
       Insert, InsertFails, Inserted, Finish, Drop
  <2> QED
    BY <2>1, StoredStep DEF ReviewedStored
<1>4. CASE \/ EnqueueRun \/ LeaseLapses \/ Recovery \/ Retry \/ Shutdown \/ Restart \/ Crash
  <2>1. reviewed' = reviewed
    BY <1>4 DEF EnqueueRun, LeaseLapses, Recovery, RecoverList, RecoverSave, RecoverLost, Retry,
       Shutdown, Restart, Crash
  <2> QED
    BY <2>1, StoredStep DEF ReviewedStored
<1> QED
  BY <1>1, <1>2, <1>3, <1>4 DEF Next

LEMMA AttemptLeftStep ==
  ASSUME TypeOK, TypeOK', FreshCopies, Attempts, AttemptLeft, [Next]_vars
  PROVE  AttemptLeft'
<1> USE NameAssumption, BoundsAssumption
    DEF TypeOK, Job, FreshCopies, AttemptLeft, Fault, Swap, local, pool, bounds
<1>1. CASE UNCHANGED vars
  BY <1>1 DEF vars
<1>2. CASE EnqueueRun
  <2>1. job'.attempts = 0 /\ retries' = retries
    BY <1>2 DEF EnqueueRun, NoJob
  <2> QED
    BY <2>1
<1>3. CASE Retry \/ LeaseLapses
  BY <1>3 DEF Retry, LeaseLapses
<1>4. ASSUME NEW w \in Worker, Claim(w) PROVE AttemptLeft'
  <2>1. copy[w].attempts = job.attempts /\ copy[w].attempts < MaxAttempts + retries
    BY <1>4 DEF Claim, Attempts, Attempt
  <2>2. job'.attempts = job.attempts + 1 /\ job'.status = "running" /\ retries' = retries
    BY <1>4, <2>1 DEF Claim
  <2> QED
    BY <2>1, <2>2
<1>5. ASSUME NEW w \in Worker, SavePrepared(w) PROVE AttemptLeft'
  BY <1>5 DEF SavePrepared
<1>6. ASSUME NEW w \in Worker, Finish(w) PROVE AttemptLeft'
  <2>1. job'.attempts = job.attempts /\ job'.status # "pending" /\ retries' = retries
    BY <1>6 DEF Finish
  <2> QED
    BY <2>1
<1>7. ASSUME NEW w \in Worker, Work(w), ~Claim(w), ~SavePrepared(w), ~Finish(w) PROVE AttemptLeft'
  BY <1>7 DEF Work, Read, ClaimLost, Extract, SavePreparedLost, Insert, InsertFails, Inserted, Drop
<1>8. CASE RecoverList \/ RecoverLost
  BY <1>8 DEF RecoverList, RecoverLost
<1>9. CASE RecoverSave
  <2>1. /\ job'.attempts = job.attempts /\ retries' = retries
        /\ job'.status = "pending" => ~Exhausted(copy["recovery"])
    BY <1>9 DEF RecoverSave
  <2>2. copy["recovery"].attempts = job.attempts /\ copy["recovery"].status = job.status
    BY <1>9 DEF RecoverSave
  <2> QED
    BY <2>1, <2>2 DEF Exhausted
<1>10. CASE Shutdown \/ Restart \/ Crash \/ \E i \in Ordinal : Review(i)
  BY <1>10 DEF Shutdown, Restart, Crash, Review
<1> QED
  BY <1>1, <1>2, <1>3, <1>4, <1>5, <1>6, <1>7, <1>8, <1>9, <1>10 DEF Next, Recovery

\* The invariant is inductive.
LEMMA InvStep == ASSUME IInv, [Next]_vars PROVE IInv'
<1>1. TypeOK'
  BY TypeStep DEF IInv
<1>2. Unstarted'
  BY <1>1, Written DEF IInv, Unstarted
<1>3. FreshCopies' /\ OneBatch' /\ Attempts'
  BY <1>1, CopiesStep, OneBatchStep, AttemptsStep DEF IInv
<1>4. BatchStored' /\ ReviewedStored' /\ AttemptLeft'
  <2>1. reviewed \subseteq Ordinal
    BY DEF IInv, TypeOK
  <2> QED
    BY <1>1, <2>1, BatchStep, ReviewStep, AttemptLeftStep DEF IInv
<1> QED
  BY <1>1, <1>2, <1>3, <1>4 DEF IInv

LEMMA Invariant == Spec => []IInv
<1>1. Init => IInv
  BY InvInit
<1>2. IInv /\ [Next]_vars => IInv'
  BY InvStep
<1> QED
  BY <1>1, <1>2, PTL DEF Spec

-----------------------------------------------------------------------------
\* Every variable has its type (the job record, the pool and the workers).
THEOREM TypeCorrect == Spec => []TypeOK
<1>1. IInv => TypeOK
  BY DEF IInv
<1> QED
  BY <1>1, Invariant, PTL

\* All stored candidates are from the batch stored with the job, and a job that
\* succeeded has stored all of it, whatever workers crash, stall or overlap
\* (Process, persistPreparedCandidates, finishJob).
THEOREM BatchIsStored == Spec => []BatchStored
<1>1. IInv => BatchStored
  BY DEF IInv
<1> QED
  BY <1>1, Invariant, PTL

\* No chain of crashes and recoveries asks the model more often than allowed
\* (Process, RecoverPending).
THEOREM AttemptsStayBounded == Spec => []AttemptsBounded
<1>1. IInv => AttemptsBounded
  BY DEF IInv, AttemptLeft, AttemptsBounded
<1> QED
  BY <1>1, Invariant, PTL

\* A decision of the user and the candidate it was about are never written over
\* (InsertCandidateIfAbsent).
THEOREM ReviewsKept == Spec => ReviewKept
<1>1. IInv /\ [Next]_vars => [\A i \in reviewed : i \in reviewed' /\ stored'[i] = stored[i]]_vars
  <2>1. IInv => reviewed \subseteq Ordinal
    BY DEF IInv, TypeOK
  <2> QED
    BY <2>1, ReviewStep DEF IInv
<1> QED
  BY <1>1, Invariant, PTL DEF Spec, ReviewKept
=============================================================================
