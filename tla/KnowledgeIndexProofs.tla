------------------------- MODULE KnowledgeIndexProofs -------------------------
(* Proofs about KnowledgeIndex, for any set of instances, any number of chunks,
   any page size and any bounds. *)
EXTENDS KnowledgeIndex, FiniteSetTheorems, TLAPS

\* Before there is a job nothing executes it, and the one request that has
\* uploaded the document is the one that submits the job.
Unsubmitted ==
  /\ doc = "absent" => job = "none" /\ \A p \in Process : request[p] # "uploaded"
  /\ job = "none" => \A p \in Process : at[p] = "idle" /\ tasks[p] = 0 /\ request[p] # "submitted"
  /\ \A p \in Process : request[p] = "uploaded" =>
       job = "none" /\ \A q \in Process : request[q] = "uploaded" => p = q

\* Chunks are deleted only once their document is.
DocumentFirst ==
  /\ \A p \in Process : request[p] = "deleting" => doc = "deleted"
  /\ \A i \in Ordinal : chunk[i] = "deleted" => doc = "deleted"

\* What an execution has done of its job, unless the document is deleted.
Achieved(p) ==
  /\ at[p] = "chunks" => \A i \in Ordinal : i < next[p] => chunk[i] = "active"
  /\ at[p] \in {"embed", "vectors", "mark", "count", "keywords"} =>
       \A i \in Ordinal : chunk[i] = "active"
  /\ at[p] \in {"embed", "count"} => \A i \in Ordinal : i < next[p] => i \in marked
  /\ at[p] \in {"vectors", "mark"} =>
       \A i \in Ordinal : i < next[p] => i \in marked \cup page[p]
  /\ at[p] = "keywords" =>
       \A i \in Ordinal : i \in marked /\ (i < next[p] => i \in keywords[File(p)])

Achievements == doc = "deleted" \/ \A p \in Process : Achieved(p)

\* A mark is written after its vector.
VectorsFirst ==
  /\ marked \subseteq vectors
  /\ \A p \in Process : at[p] = "mark" => page[p] \subseteq vectors

\* The instance that made the document ready has it in its own keyword index.
Indexed == doc = "ready" =>
  /\ \A i \in Ordinal : chunk[i] = "active" /\ i \in marked
  /\ \E p \in Process : keywords[File(p)] = Ordinal

IInv == /\ TypeOK /\ Unsubmitted /\ DocumentFirst /\ Achievements
        /\ VectorsFirst /\ Indexed /\ OutcomeAgrees

-----------------------------------------------------------------------------
\* A page without a gap ends where the next one begins, within the document.
LEMMA PageBounds ==
  ASSUME NEW n \in 0 .. Chunks, Whole(n)
  PROVE  /\ Cardinality(Page(n)) \in Nat
         /\ Page(n) # {} => n + Cardinality(Page(n)) \in 0 .. Chunks
         /\ \A i \in Ordinal : i < n + Cardinality(Page(n)) => i < n \/ i \in Page(n)
<1> DEFINE c == Cardinality(Page(n))
<1>1. Page(n) \subseteq Ordinal
  BY DEF Page
<1>2. IsFiniteSet(Ordinal)
  BY BoundsAssumption, FS_Interval DEF Ordinal
<1>3. c \in Nat
  BY <1>1, <1>2, FS_Subset, FS_CardinalityType
<1>4. Page(n) = n .. n + c - 1
  BY DEF Whole
<1>5. ASSUME Page(n) # {} PROVE n + c \in 0 .. Chunks
  <2>1. n + c - 1 \in Page(n)
    BY <1>3, <1>4, <1>5
  <2> QED
    BY <2>1, <1>1, <1>3, BoundsAssumption DEF Ordinal
<1>6. ASSUME NEW i \in Ordinal, i < n + c, ~(i < n) PROVE i \in Page(n)
  BY <1>3, <1>4, <1>6, BoundsAssumption DEF Ordinal
<1> QED
  BY <1>3, <1>5, <1>6

\* Every instance has opened a keyword index.
LEMMA FileOpened == ASSUME NEW p \in Process PROVE File(p) \in Files
  BY FilesAssumption DEF File

\* Init establishes the invariant.
LEMMA InvInit == ASSUME Init PROVE IInv
<1>1. TypeOK
  <2>1. unsaved \in BOOLEAN
    BY DEF Init
  <2> QED
    BY <2>1, BoundsAssumption DEF Init, TypeOK, Place
<1>2. Unsubmitted /\ DocumentFirst
  BY DEF Init, Unsubmitted, DocumentFirst
<1>3. Achievements /\ VectorsFirst
  BY DEF Init, Achievements, Achieved, VectorsFirst
<1>4. Indexed /\ OutcomeAgrees
  BY DEF Init, Indexed, OutcomeAgrees
<1> QED
  BY <1>1, <1>2, <1>3, <1>4 DEF IInv

\* Every action keeps the types.
LEMMA TypeStep == ASSUME TypeOK, [Next]_vars PROVE TypeOK'
<1> USE BoundsAssumption
    DEF TypeOK, Place, Go, SaveBoth, SaveLost, CanSave, Fault, Progress, stores, run, host, bounds
<1>1. CASE UNCHANGED vars
  BY <1>1 DEF vars
<1>2. ASSUME NEW p \in Process, Upload(p) \/ Delete(p) \/ DeleteChunks(p) \/ Crash(p) PROVE TypeOK'
  BY <1>2 DEF Upload, Delete, DeleteChunks, Crash
<1>3. ASSUME NEW p \in Process, SubmitJob(p) PROVE TypeOK'
  BY <1>3 DEF SubmitJob
<1>4. ASSUME NEW p \in Process, IngestEnds(p) \/ Retry(p) \/ Restart(p) PROVE TypeOK'
  <2>1. ASSUME Schedule(p)
        PROVE  /\ tasks' \in [Process -> Nat] /\ faults' \in Nat
               /\ doc' \in {doc, "failed"} /\ job' \in {job, "failed"}
               /\ unsaved' \in BOOLEAN
    <3>1. unsaved' \in BOOLEAN
      BY <2>1 DEF Schedule
    <3> QED
      BY <2>1, <3>1 DEF Schedule
  <2>2. CASE IngestEnds(p)
    BY <2>1, <2>2 DEF IngestEnds
  <2>3. CASE Retry(p)
    BY <2>1, <2>3 DEF Retry
  <2>4. CASE Restart(p)
    BY <2>1, <2>4 DEF Restart
  <2> QED
    BY <1>4, <2>2, <2>3, <2>4
<1>5. ASSUME NEW p \in Process, Begin(p) PROVE TypeOK'
  <2>1. tasks' \in [Process -> Nat]
    BY <1>5 DEF Begin
  <2>2. at' \in [Process -> Place] /\ job' \in {job, "unread"} /\ faults' \in Nat
    BY <1>5 DEF Begin
  <2>3. unsaved' \in BOOLEAN
    BY <1>5 DEF Begin
  <2> QED
    BY <1>5, <2>1, <2>2, <2>3 DEF Begin
<1>6. ASSUME NEW p \in Process, Start(p) \/ FirstBatch(p) \/ Processed(p) \/ Embedded(p) \/ Complete(p)
      PROVE  TypeOK'
  BY <1>6 DEF Start, FirstBatch, Processed, Embedded, Complete
<1>7. ASSUME NEW p \in Process, StoreChunk(p) PROVE TypeOK'
  <2>1. at' \in [Process -> Place]
    BY <1>7 DEF StoreChunk
  <2>2. next' \in [Process -> 0 .. Chunks]
    BY <1>7 DEF StoreChunk
  <2>3. chunk' \in [Ordinal -> {"none", "active", "deleted"}]
    BY <1>7 DEF StoreChunk
  <2> QED
    BY <1>7, <2>1, <2>2, <2>3 DEF StoreChunk
<1>8. ASSUME NEW p \in Process, EmbedPage(p) PROVE TypeOK'
  <2>1. next[p] \in 0 .. Chunks /\ Page(next[p]) \subseteq Ordinal
    BY DEF Page
  <2>2. next[p] + Cardinality(Page(next[p])) \in 0 .. Chunks
    BY <1>8, <2>1, PageBounds DEF EmbedPage, PageRead
  <2> QED
    BY <1>8, <2>1, <2>2 DEF EmbedPage, PageRead
<1>9. ASSUME NEW p \in Process, IndexPage(p) PROVE TypeOK'
  <2>1. next[p] \in 0 .. Chunks /\ Page(next[p]) \subseteq Ordinal
    BY DEF Page
  <2>2. next[p] + Cardinality(Page(next[p])) \in 0 .. Chunks
    BY <1>9, <2>1, PageBounds DEF IndexPage, PageRead
  <2> QED
    BY <1>9, <2>1, <2>2, FileOpened DEF IndexPage, PageRead
<1>10. ASSUME NEW p \in Process, PageInvalid(p) \/ SaveCount(p) \/ StageFails(p)
       PROVE  TypeOK'
  BY <1>10 DEF PageInvalid, SaveCount, StageFails
<1>12. ASSUME NEW p \in Process, Fail(p) PROVE TypeOK'
  <2>1. unsaved' \in BOOLEAN
    BY <1>12 DEF Fail
  <2> QED
    BY <1>12, <2>1 DEF Fail
<1>11. ASSUME NEW p \in Process, StoreVectors(p) \/ Mark(p) PROVE TypeOK'
  BY <1>11 DEF StoreVectors, Mark
<1> QED
  BY <1>1, <1>2, <1>3, <1>4, <1>5, <1>6, <1>7, <1>8, <1>9, <1>10, <1>11, <1>12 DEF Next, Work

\* The submission of the job comes first, and only once.
LEMMA UnsubmittedStep ==
  ASSUME TypeOK, Unsubmitted, DocumentFirst, [Next]_vars PROVE Unsubmitted'
<1> USE DEF TypeOK, Unsubmitted, Go, SaveBoth, SaveLost, CanSave, Fault, Progress,
            stores, run, host, bounds
<1>1. CASE UNCHANGED vars
  BY <1>1 DEF vars
<1>2. ASSUME NEW p \in Process, Upload(p) PROVE Unsubmitted'
  BY <1>2 DEF Upload
<1>3. ASSUME NEW p \in Process, SubmitJob(p) PROVE Unsubmitted'
  BY <1>3 DEF SubmitJob
<1>4. ASSUME NEW p \in Process, IngestEnds(p) \/ Retry(p) \/ Restart(p) PROVE Unsubmitted'
  BY <1>4 DEF IngestEnds, Retry, Restart, Schedule, Recoverable
<1>5. ASSUME NEW p \in Process, Delete(p) \/ DeleteChunks(p) \/ Crash(p) PROVE Unsubmitted'
  BY <1>5 DEF Delete, DeleteChunks, Crash
<1>6. ASSUME NEW p \in Process, Begin(p) PROVE Unsubmitted'
  BY <1>6 DEF Begin
<1>7. ASSUME NEW p \in Process, Start(p) \/ FirstBatch(p) \/ Processed(p) \/ Embedded(p) \/ Complete(p)
      PROVE  Unsubmitted'
  BY <1>7 DEF Start, FirstBatch, Processed, Embedded, Complete
<1>8. ASSUME NEW p \in Process,
             StoreChunk(p) \/ PageInvalid(p) \/ EmbedPage(p) \/ StoreVectors(p) \/ Mark(p) \/ IndexPage(p)
      PROVE  Unsubmitted'
  BY <1>8 DEF StoreChunk, PageInvalid, EmbedPage, StoreVectors, Mark, IndexPage
<1>9. ASSUME NEW p \in Process, SaveCount(p) \/ StageFails(p) \/ Fail(p) PROVE Unsubmitted'
  BY <1>9 DEF SaveCount, StageFails, Fail
<1> QED
  BY <1>1, <1>2, <1>3, <1>4, <1>5, <1>6, <1>7, <1>8, <1>9 DEF Next, Work

\* A document stays deleted, and no save, however late, takes a mark, a vector or a
\* keyword entry away.
LEMMA Monotone ==
  ASSUME TypeOK, [Next]_vars
  PROVE  /\ doc = "deleted" => doc' = "deleted"
         /\ marked \subseteq marked' /\ vectors \subseteq vectors'
         /\ \A f \in Files : keywords[f] \subseteq keywords'[f]
         /\ \A i \in Ordinal : chunk[i] = "deleted" => chunk'[i] = "deleted"
         /\ \A i \in Ordinal : chunk[i] = "active" => chunk'[i] = "active" \/ chunk'[i] = "deleted"
<1> USE DEF TypeOK, Go, SaveBoth, SaveLost, CanSave, Fault, Progress, stores, run, host, bounds
<1> DEFINE Goal ==
      /\ doc = "deleted" => doc' = "deleted"
      /\ marked \subseteq marked' /\ vectors \subseteq vectors'
      /\ \A f \in Files : keywords[f] \subseteq keywords'[f]
      /\ \A i \in Ordinal : chunk[i] = "deleted" => chunk'[i] = "deleted"
      /\ \A i \in Ordinal : chunk[i] = "active" => chunk'[i] = "active" \/ chunk'[i] = "deleted"
<1>1. CASE UNCHANGED vars
  BY <1>1 DEF vars
<1>2. ASSUME NEW p \in Process, Upload(p) \/ Delete(p) \/ DeleteChunks(p) \/ Crash(p) PROVE Goal
  BY <1>2 DEF Upload, Delete, DeleteChunks, Crash
<1>3. ASSUME NEW p \in Process, SubmitJob(p) PROVE Goal
  BY <1>3 DEF SubmitJob
<1>4. ASSUME NEW p \in Process, IngestEnds(p) \/ Retry(p) \/ Restart(p) PROVE Goal
  BY <1>4 DEF IngestEnds, Retry, Restart, Schedule
<1>5. ASSUME NEW p \in Process, Start(p) \/ FirstBatch(p) \/ Processed(p) \/ Embedded(p) \/ Complete(p)
      PROVE  Goal
  BY <1>5 DEF Start, FirstBatch, Processed, Embedded, Complete
<1>6. ASSUME NEW p \in Process, StoreChunk(p) PROVE Goal
  BY <1>6 DEF StoreChunk
<1>7. ASSUME NEW p \in Process, StoreVectors(p) \/ Mark(p) \/ IndexPage(p) \/ EmbedPage(p) PROVE Goal
  BY <1>7 DEF StoreVectors, Mark, IndexPage, EmbedPage
<1>8. ASSUME NEW p \in Process, Begin(p) \/ PageInvalid(p) \/ SaveCount(p) \/ StageFails(p) \/ Fail(p)
      PROVE  Goal
  BY <1>8 DEF Begin, PageInvalid, SaveCount, StageFails, Fail
<1> QED
  BY <1>1, <1>2, <1>3, <1>4, <1>5, <1>6, <1>7, <1>8 DEF Next, Work

\* Chunks are deleted after their document.
LEMMA DocumentFirstStep ==
  ASSUME TypeOK, DocumentFirst, [Next]_vars PROVE DocumentFirst'
<1> DEFINE Begun ==
      \A p \in Process : request'[p] = "deleting" => request[p] = "deleting" \/ doc' = "deleted"
           Gone ==
      \A i \in Ordinal : chunk'[i] = "deleted" =>
        chunk[i] = "deleted" \/ \E p \in Process : request[p] = "deleting"
<1>1. Begun
  <2> USE DEF TypeOK, stores, run, host, bounds
  <2>1. CASE UNCHANGED vars
    BY <2>1 DEF vars
  <2>2. ASSUME NEW p \in Process, Work(p) PROVE Begun
    BY <2>2 DEF Work, SubmitJob, IngestEnds, DeleteChunks, Restart, Begin, Start, FirstBatch,
       StoreChunk, Processed, PageInvalid, EmbedPage, StoreVectors, Mark, SaveCount, Embedded,
       IndexPage, Complete, StageFails, Fail
  <2>3. ASSUME NEW p \in Process, Upload(p) \/ Retry(p) \/ Delete(p) \/ Crash(p) PROVE Begun
    BY <2>3 DEF Upload, Retry, Delete, Crash
  <2> QED
    BY <2>1, <2>2, <2>3 DEF Next
<1>2. Gone
  <2> USE DEF TypeOK, stores, run, host, bounds
  <2>1. CASE UNCHANGED vars
    BY <2>1 DEF vars
  <2>2. ASSUME NEW p \in Process, Work(p) PROVE Gone
    BY <2>2 DEF Work, SubmitJob, IngestEnds, DeleteChunks, Restart, Begin, Start, FirstBatch,
       StoreChunk, Processed, PageInvalid, EmbedPage, StoreVectors, Mark, SaveCount, Embedded,
       IndexPage, Complete, StageFails, Fail
  <2>3. ASSUME NEW p \in Process, Upload(p) \/ Retry(p) \/ Delete(p) \/ Crash(p) PROVE Gone
    BY <2>3 DEF Upload, Retry, Delete, Crash
  <2> QED
    BY <2>1, <2>2, <2>3 DEF Next
<1> QED
  BY <1>1, <1>2, Monotone DEF DocumentFirst

\* The writes of the executions that move the index on.
LEMMA VectorsFirstStep ==
  ASSUME TypeOK, VectorsFirst, [Next]_vars PROVE VectorsFirst'
<1> USE DEF TypeOK, VectorsFirst, Go, SaveBoth, SaveLost, Fault, Progress, stores, run, host, bounds
<1>1. CASE UNCHANGED vars
  BY <1>1 DEF vars
<1>2. ASSUME NEW p \in Process, Upload(p) \/ Retry(p) \/ Delete(p) \/ Crash(p) PROVE VectorsFirst'
  BY <1>2 DEF Upload, Retry, Delete, Crash
<1>3. ASSUME NEW p \in Process, EmbedPage(p) PROVE VectorsFirst'
  BY <1>3 DEF EmbedPage
<1>4. ASSUME NEW p \in Process, StoreVectors(p) PROVE VectorsFirst'
  BY <1>4 DEF StoreVectors
<1>5. ASSUME NEW p \in Process, Mark(p) PROVE VectorsFirst'
  BY <1>5 DEF Mark
<1>6. ASSUME NEW p \in Process,
             \/ SubmitJob(p) \/ IngestEnds(p) \/ DeleteChunks(p) \/ Restart(p) \/ Begin(p)
             \/ Start(p) \/ FirstBatch(p) \/ StoreChunk(p) \/ Processed(p) \/ PageInvalid(p)
             \/ SaveCount(p) \/ Embedded(p) \/ IndexPage(p) \/ Complete(p) \/ StageFails(p) \/ Fail(p)
      PROVE  VectorsFirst'
  BY <1>6 DEF SubmitJob, IngestEnds, DeleteChunks, Restart, Begin, Start, FirstBatch, StoreChunk,
     Processed, PageInvalid, SaveCount, Embedded, IndexPage, Complete, StageFails, Fail
<1> QED
  BY <1>1, <1>2, <1>3, <1>4, <1>5, <1>6 DEF Next, Work

\* An execution whose place does not change keeps what it has achieved, whatever the
\* others do, unless the document is deleted.
LEMMA AchievedKept ==
  ASSUME TypeOK, DocumentFirst', [Next]_vars, doc' # "deleted",
         NEW q \in Process, Achieved(q), at'[q] = at[q], next'[q] = next[q], page'[q] = page[q]
  PROVE  Achieved(q)'
<1>1. \A i \in Ordinal : chunk[i] = "active" => chunk'[i] = "active"
  BY Monotone DEF DocumentFirst
<1> QED
  BY <1>1, Monotone, FileOpened DEF Achieved

\* A step of one process leaves the executions of the others where they are.
LEMMA OthersStay ==
  ASSUME TypeOK, NEW p \in Process, NEW q \in Process, p # q,
         Work(p) \/ Upload(p) \/ Retry(p) \/ Delete(p) \/ Crash(p)
  PROVE  at'[q] = at[q] /\ next'[q] = next[q] /\ page'[q] = page[q]
<1> USE DEF TypeOK, Go, Progress, PageRead, stores, run, host, bounds
<1>1. CASE Upload(p) \/ Retry(p) \/ Delete(p) \/ Crash(p)
  BY <1>1 DEF Upload, Retry, Delete, Crash
<1>2. CASE Work(p)
  BY <1>2 DEF Work, SubmitJob, IngestEnds, DeleteChunks, Restart, Begin, Start, FirstBatch,
     StoreChunk, Processed, PageInvalid, EmbedPage, StoreVectors, Mark, SaveCount, Embedded,
     IndexPage, Complete, StageFails, Fail
<1> QED
  BY <1>1, <1>2

\* The step of an execution adds to what it has achieved what its new place says.
LEMMA AchievedStep ==
  ASSUME TypeOK, TypeOK', DocumentFirst', [Next]_vars, doc' # "deleted",
         NEW p \in Process, Work(p) \/ Upload(p) \/ Retry(p) \/ Delete(p) \/ Crash(p), Achieved(p)
  PROVE  Achieved(p)'
<1> USE BoundsAssumption
    DEF TypeOK, Place, Go, SaveBoth, SaveLost, Fault, Progress, stores, run, host, bounds
<1>1. \A i \in Ordinal : chunk[i] = "active" => chunk'[i] = "active"
  BY Monotone DEF DocumentFirst
<1>2. CASE at'[p] \in {"idle", "begin", "process", "fail"}
  BY <1>2 DEF Achieved
<1>3. CASE UNCHANGED <<at, next, page>>
  BY <1>3, AchievedKept
<1>4. CASE FirstBatch(p)
  BY <1>4 DEF FirstBatch, Achieved, Ordinal
<1>5. CASE StoreChunk(p)
  BY <1>5, <1>1 DEF StoreChunk, Achieved, Ordinal
<1>6. CASE Processed(p)
  BY <1>6, <1>1 DEF Processed, Achieved, Ordinal
<1>7. CASE EmbedPage(p)
  <2>1. \A i \in Ordinal : i < next[p] + Cardinality(Page(next[p])) => i < next[p] \/ i \in Page(next[p])
    BY <1>7, PageBounds DEF EmbedPage, PageRead
  <2> QED
    BY <1>7, <2>1 DEF EmbedPage, PageRead, Achieved
<1>8. CASE StoreVectors(p)
  BY <1>8 DEF StoreVectors, Achieved
<1>9. CASE Mark(p)
  BY <1>9 DEF Mark, Achieved
<1>10. CASE SaveCount(p)
  BY <1>10 DEF SaveCount, Achieved
<1>11. CASE Embedded(p)
  BY <1>11 DEF Embedded, PagesDone, Achieved, Ordinal
<1>12. CASE IndexPage(p)
  <2>1. \A i \in Ordinal : i < next[p] + Cardinality(Page(next[p])) => i < next[p] \/ i \in Page(next[p])
    BY <1>12, PageBounds DEF IndexPage, PageRead
  <2> QED
    BY <1>12, <2>1, FileOpened DEF IndexPage, PageRead, Achieved
<1>13. CASE Begin(p) \/ Start(p) \/ PageInvalid(p) \/ Complete(p) \/ StageFails(p) \/ Fail(p) \/ Crash(p)
  BY <1>13, <1>2, <1>3 DEF Begin, Start, PageInvalid, Complete, StageFails, Fail, Crash
<1>14. CASE \/ SubmitJob(p) \/ IngestEnds(p) \/ DeleteChunks(p) \/ Restart(p)
            \/ Upload(p) \/ Retry(p) \/ Delete(p)
  BY <1>14, <1>3 DEF SubmitJob, IngestEnds, DeleteChunks, Restart, Upload, Retry, Delete
<1> QED
  BY <1>4, <1>5, <1>6, <1>7, <1>8, <1>9, <1>10, <1>11, <1>12, <1>13, <1>14 DEF Work

LEMMA AchievementsStep ==
  ASSUME TypeOK, TypeOK', DocumentFirst', Achievements, [Next]_vars PROVE Achievements'
<1>1. CASE UNCHANGED vars
  BY <1>1 DEF vars, stores, run, Achievements, Achieved
<1>2. ASSUME doc' # "deleted", Next, NEW q \in Process PROVE Achieved(q)'
  <2>1. Achieved(q)
    BY <1>2, Monotone DEF Achievements
  <2>2. PICK p \in Process : Work(p) \/ Upload(p) \/ Retry(p) \/ Delete(p) \/ Crash(p)
    BY <1>2 DEF Next
  <2>3. CASE p = q
    BY <1>2, <2>1, <2>2, <2>3, AchievedStep
  <2>4. CASE p # q
    BY <1>2, <2>1, <2>2, <2>4, OthersStay, AchievedKept
  <2> QED
    BY <2>3, <2>4
<1> QED
  BY <1>1, <1>2 DEF Achievements

\* A document becomes ready by the last save of an execution that has marked and
\* indexed every chunk; while it stays ready nothing is taken away.
LEMMA IndexedStep ==
  ASSUME TypeOK, DocumentFirst', Achievements, Indexed, [Next]_vars PROVE Indexed'
<1> USE BoundsAssumption
    DEF TypeOK, Go, SaveBoth, SaveLost, Fault, Progress, stores, run, host, bounds
<1>1. ASSUME NEW p \in Process, Complete(p), doc' = "ready" PROVE Indexed'
  <2>1. Achieved(p) /\ at[p] = "keywords" /\ next[p] = Chunks
    BY <1>1, Monotone DEF Complete, PagesDone, Achievements
  <2>2. \A i \in Ordinal : chunk[i] = "active" /\ i \in marked
    BY <2>1 DEF Achieved, Ordinal
  <2>3. keywords[File(p)] = Ordinal
    <3>1. \A i \in Ordinal : i \in keywords[File(p)]
      BY <2>1 DEF Achieved, Ordinal
    <3>2. keywords[File(p)] \subseteq Ordinal
      BY FileOpened
    <3> QED
      BY <3>1, <3>2
  <2> QED
    BY <1>1, <2>2, <2>3 DEF Complete, Indexed
<1>2. CASE doc = "ready" /\ doc' = "ready"
  <2>1. PICK p \in Process : keywords[File(p)] = Ordinal
    BY <1>2 DEF Indexed
  <2>2. keywords'[File(p)] = Ordinal
    BY <2>1, TypeStep, Monotone, FileOpened DEF Ordinal
  <2>3. \A i \in Ordinal : chunk'[i] = "active" /\ i \in marked'
    BY <1>2, Monotone DEF Indexed, DocumentFirst
  <2> QED
    BY <2>2, <2>3 DEF Indexed
<1>3. ASSUME doc # "ready", doc' = "ready" PROVE \E p \in Process : Complete(p)
  <2>1. CASE UNCHANGED vars
    BY <1>3, <2>1 DEF vars
  <2>2. ASSUME NEW p \in Process, Upload(p) \/ Retry(p) \/ Delete(p) \/ Crash(p) PROVE FALSE
    BY <1>3, <2>2 DEF Upload, Retry, Delete, Crash, Schedule
  <2>3. ASSUME NEW p \in Process, SubmitJob(p) \/ IngestEnds(p) \/ DeleteChunks(p) \/ Restart(p)
        PROVE  FALSE
    BY <1>3, <2>3 DEF SubmitJob, IngestEnds, DeleteChunks, Restart, Schedule
  <2>4. ASSUME NEW p \in Process,
               \/ Begin(p) \/ Start(p) \/ FirstBatch(p) \/ StoreChunk(p) \/ Processed(p)
               \/ PageInvalid(p) \/ EmbedPage(p) \/ StoreVectors(p) \/ Mark(p) \/ SaveCount(p)
               \/ Embedded(p) \/ IndexPage(p) \/ StageFails(p) \/ Fail(p)
        PROVE  FALSE
    BY <1>3, <2>4 DEF Begin, Start, FirstBatch, StoreChunk, Processed, PageInvalid, EmbedPage,
       StoreVectors, Mark, SaveCount, Embedded, IndexPage, StageFails, Fail
  <2> QED
    BY <2>1, <2>2, <2>3, <2>4 DEF Next, Work
<1> QED
  BY <1>1, <1>2, <1>3 DEF Indexed

\* Document and job are written together, or the document is deleted, or there is no
\* job yet.
LEMMA OutcomeStep ==
  ASSUME TypeOK, Unsubmitted, OutcomeAgrees, [Next]_vars PROVE OutcomeAgrees'
<1> USE DEF TypeOK, OutcomeAgrees, Go, SaveBoth, SaveLost, CanSave, Fault, Progress,
            stores, run, host, bounds
<1>1. CASE UNCHANGED vars
  BY <1>1 DEF vars
<1>2. ASSUME NEW p \in Process, Upload(p) PROVE OutcomeAgrees'
  BY <1>2 DEF Upload, Unsubmitted
<1>3. ASSUME NEW p \in Process, SubmitJob(p) PROVE OutcomeAgrees'
  BY <1>3 DEF SubmitJob, Unsubmitted
<1>4. ASSUME NEW p \in Process, IngestEnds(p) \/ Retry(p) \/ Restart(p) PROVE OutcomeAgrees'
  BY <1>4 DEF IngestEnds, Retry, Restart, Schedule
<1>5. ASSUME NEW p \in Process, Delete(p) \/ DeleteChunks(p) \/ Crash(p) PROVE OutcomeAgrees'
  BY <1>5 DEF Delete, DeleteChunks, Crash
<1>6. ASSUME NEW p \in Process, Begin(p) PROVE OutcomeAgrees'
  BY <1>6 DEF Begin
<1>7. ASSUME NEW p \in Process, Start(p) \/ FirstBatch(p) \/ Processed(p) \/ Embedded(p) \/ Complete(p)
      PROVE  OutcomeAgrees'
  BY <1>7 DEF Start, FirstBatch, Processed, Embedded, Complete
<1>8. ASSUME NEW p \in Process,
             StoreChunk(p) \/ PageInvalid(p) \/ EmbedPage(p) \/ StoreVectors(p) \/ Mark(p) \/ IndexPage(p)
      PROVE  OutcomeAgrees'
  BY <1>8 DEF StoreChunk, PageInvalid, EmbedPage, StoreVectors, Mark, IndexPage
<1>9. ASSUME NEW p \in Process, SaveCount(p) \/ StageFails(p) \/ Fail(p) PROVE OutcomeAgrees'
  BY <1>9 DEF SaveCount, StageFails, Fail
<1> QED
  BY <1>1, <1>2, <1>3, <1>4, <1>5, <1>6, <1>7, <1>8, <1>9 DEF Next, Work

\* The invariant is inductive.
LEMMA InvStep == ASSUME IInv, [Next]_vars PROVE IInv'
<1>1. TypeOK' /\ Unsubmitted' /\ DocumentFirst'
  BY TypeStep, UnsubmittedStep, DocumentFirstStep DEF IInv
<1>2. Achievements' /\ VectorsFirst'
  BY <1>1, AchievementsStep, VectorsFirstStep DEF IInv
<1>3. Indexed' /\ OutcomeAgrees'
  BY <1>1, IndexedStep, OutcomeStep DEF IInv
<1> QED
  BY <1>1, <1>2, <1>3 DEF IInv

LEMMA Invariant == Spec => []IInv
<1>1. Init => IInv
  BY InvInit
<1>2. IInv /\ [Next]_vars => IInv'
  BY InvStep
<1> QED
  BY <1>1, <1>2, PTL DEF Spec

-----------------------------------------------------------------------------
\* Every variable has its type (IndexingService and the stores).
THEOREM TypeCorrect == Spec => []TypeOK
<1>1. IInv => TypeOK
  BY DEF IInv
<1> QED
  BY <1>1, Invariant, PTL

\* A document that search may use has all its chunks, with their vectors and all of
\* them in one keyword index, however many instances execute its job at once (Run,
\* embedChunks, indexKeywords).
THEOREM ReadyIsIndexed == Spec => []ReadyIndexed
<1>1. IInv => ReadyIndexed
  BY FileOpened DEF IInv, Indexed, VectorsFirst, ReadyIndexed
<1> QED
  BY <1>1, Invariant, PTL

\* A job that is over agrees with its document, unless it was failed alone because the
\* document could not be loaded (SaveDocumentAndJob, fail).
THEOREM OutcomesAgree == Spec => []OutcomeAgrees
<1>1. IInv => OutcomeAgrees
  BY DEF IInv
<1> QED
  BY <1>1, Invariant, PTL

\* What is deleted stays deleted, beside any execution (Save, SaveAll).
THEOREM DeletionFinal == Spec => DeleteFinal
<1>1. IInv /\ [Next]_vars =>
        [/\ doc = "deleted" => doc' = "deleted"
         /\ \A i \in Ordinal : chunk[i] = "deleted" => chunk'[i] = "deleted"]_vars
  BY Monotone DEF IInv
<1> QED
  BY <1>1, Invariant, PTL DEF Spec, DeleteFinal
=============================================================================
