---------------------------- MODULE KnowledgeIndex ----------------------------
(* The indexing of one uploaded document of a knowledge base: the request that
   uploads it, the execution of its indexing job (parse, chunk, embed, index), the
   recovery at start, and the user who retries the job or deletes the document.

   The instances of the application (Process) share the document, the job, the
   chunks and the vectors. The keyword index is a file of the host and, unless one
   is configured, of the workspace: only the instances of one element of Files open
   the same one. Nothing excludes two instances from executing the job at the same
   time: only an execution in the same process is refused, and recovery takes up
   every job that another instance may still be working on.

   Parsing the same document with the same profiles gives the same chunks
   (validateProcessingSummary compares the versions), so a chunk is its ordinal.
   The counters of a job are written but decide nothing; they are left out, as are
   the stored object and the profiles. *)
EXTENDS Naturals, FiniteSets

CONSTANTS
  Process,   \* instances of the application
  Files,     \* keyword indexes, each given by the instances that open it
  Chunks,    \* chunks of the document
  PageSize,  \* chunks a page of ListByDocumentPage holds
  MaxFaults, \* store, processor, embedding and pool errors
  MaxCrashes, MaxRetries

ASSUME BoundsAssumption == Chunks \in Nat \ {0} /\ PageSize \in Nat \ {0}
ASSUME FilesAssumption == \A p \in Process : \E f \in Files : p \in f

VARIABLES
  doc,      \* status of the stored document
  job,      \* status of the stored job; "unread": failed, its document not loaded
  chunk,    \* [Ordinal -> "none", "active", "deleted"]: the stored chunk
  marked,   \* chunks marked as embedded
  vectors,  \* chunks with a vector
  keywords, \* [Files -> chunks in that keyword index]
  at,       \* [Process -> where its execution of the job is]
  next,     \* [Process -> the ordinal its execution expects next]
  page,     \* [Process -> chunks of the page it has read that are to be embedded]
  tasks,    \* [Process -> executions its pool has accepted and not begun]
  request,  \* [Process -> the request of the user it is in the middle of]
  live,     \* processes that run
  unsaved,  \* an execution or its refusal could not be stored, and none has begun since
  faults, crashes, retries

stores == <<doc, job, chunk, marked, vectors, keywords>>
run    == <<at, next, page>>
host   == <<tasks, request, live>>
bounds == <<faults, crashes, retries>>
vars   == <<stores, run, host, unsaved, bounds>>

Ordinal == 0 .. Chunks - 1
Place   == {"idle", "begin", "process", "chunks", "embed", "vectors", "mark", "count",
            "keywords", "fail"}

\* The keyword index that p has opened.
File(p) == CHOOSE f \in Files : p \in f

Init ==
  /\ doc = "absent" /\ job = "none"
  /\ chunk = [i \in Ordinal |-> "none"]
  /\ marked = {} /\ vectors = {} /\ keywords = [f \in Files |-> {}]
  /\ at = [p \in Process |-> "idle"] /\ next = [p \in Process |-> 0]
  /\ page = [p \in Process |-> {}]
  /\ tasks = [p \in Process |-> 0] /\ request = [p \in Process |-> "none"]
  /\ live = Process /\ unsaved = FALSE
  /\ faults = 0 /\ crashes = 0 /\ retries = 0

Fault == faults < MaxFaults /\ faults' = faults + 1

Go(p, place) == at' = [at EXCEPT ![p] = place]

-----------------------------------------------------------------------------
(* The stores. *)

\* Variant with a bug: the document is written by its id, deleted or not.
CanSaveAny == TRUE

\* Documents.Save matches only a document that is not deleted, and its upsert
\* then collides with the deleted one.
CanSave == doc # "deleted"

\* SaveDocumentAndJob: both in one transaction.
SaveBoth(d, j) == CanSave /\ doc' = d /\ job' = j

\* Neither is written: the document is deleted, or the store fails.
SaveLost == IF CanSave THEN Fault ELSE UNCHANGED faults

\* saveProgress: the execution goes on at `place`, or fails.
Progress(p, d, j, place) ==
  \/ SaveBoth(d, j) /\ Go(p, place) /\ UNCHANGED faults
  \/ SaveLost /\ Go(p, "fail") /\ UNCHANGED <<doc, job>>

\* ListByDocumentPage: the active chunks from n on, at most a page of them.
Page(n) ==
  LET from == {i \in Ordinal : chunk[i] = "active" /\ i >= n} IN
    {i \in from : Cardinality({k \in from : k < i}) < PageSize}

\* validateChunkPage: no ordinal is missing.
Whole(n) == Page(n) = n .. n + Cardinality(Page(n)) - 1

-----------------------------------------------------------------------------
(* Requests of the user. *)

\* Ingest stores the document before there is a job for it.
Upload(p) ==
  /\ p \in live /\ request[p] = "none" /\ doc = "absent"
  /\ doc' = "uploaded"
  /\ request' = [request EXCEPT ![p] = "uploaded"]
  /\ UNCHANGED <<job, chunk, marked, vectors, keywords, run, tasks, live, unsaved, bounds>>

\* Submit stores the job; when it cannot, the document is to be marked failed.
SubmitJob(p) ==
  /\ request[p] = "uploaded"
  /\ \/ /\ SaveBoth(doc, "pending")
        /\ request' = [request EXCEPT ![p] = "submitted"]
        /\ UNCHANGED faults
     \/ /\ SaveLost
        /\ doc' \in IF CanSave THEN {"failed", doc} ELSE {doc}
        /\ request' = [request EXCEPT ![p] = "none"]
        /\ UNCHANGED job
  /\ UNCHANGED <<chunk, marked, vectors, keywords, run, tasks, live, unsaved, crashes, retries>>

\* startIndexing: the pool accepts the job, or refuses it, and document and job
\* are marked failed, whatever has become of them meanwhile, if that can be saved.
Schedule(p) ==
  \/ /\ tasks' = [tasks EXCEPT ![p] = @ + 1]
     /\ UNCHANGED <<doc, job, unsaved, faults>>
  \/ /\ Fault
     /\ \/ SaveBoth("failed", "failed") /\ UNCHANGED unsaved
        \/ unsaved' = TRUE /\ UNCHANGED <<doc, job>>
     /\ UNCHANGED tasks

IngestEnds(p) ==
  /\ request[p] = "submitted"
  /\ Schedule(p)
  /\ request' = [request EXCEPT ![p] = "none"]
  /\ UNCHANGED <<chunk, marked, vectors, keywords, run, live, crashes, retries>>

\* Retry submits the job again in whatever state it is.
Retry(p) ==
  /\ p \in live /\ request[p] = "none" /\ job # "none"
  /\ retries < MaxRetries /\ retries' = retries + 1
  /\ Schedule(p)
  /\ UNCHANGED <<chunk, marked, vectors, keywords, run, request, live, crashes>>

\* Delete marks the document, then its chunks. The indexes keep their entries.
Delete(p) ==
  /\ p \in live /\ request[p] = "none" /\ doc \notin {"absent", "deleted"}
  /\ doc' = "deleted"
  /\ request' = [request EXCEPT ![p] = "deleting"]
  /\ UNCHANGED <<job, chunk, marked, vectors, keywords, run, tasks, live, unsaved, bounds>>

DeleteChunks(p) ==
  /\ request[p] = "deleting"
  /\ request' = [request EXCEPT ![p] = "none"]
  /\ \/ /\ chunk' = [i \in Ordinal |-> IF chunk[i] = "active" THEN "deleted" ELSE chunk[i]]
        /\ UNCHANGED faults
     \/ UNCHANGED chunk /\ Fault
  /\ UNCHANGED <<doc, job, marked, vectors, keywords, run, tasks, live, unsaved, crashes, retries>>

-----------------------------------------------------------------------------
(* The execution of the job: IndexingService.Run. *)

\* A task of the pool begins. The job runs in this process already: nothing happens.
\* It cannot be read: it stays as it is. Its document is deleted or cannot be read:
\* the job alone is marked failed, a completed one too, if that can be saved. It is
\* completed: nothing happens.
Begin(p) ==
  /\ tasks[p] > 0
  /\ tasks' = [tasks EXCEPT ![p] = @ - 1]
  /\ \/ /\ at[p] # "idle" \/ (job = "completed" /\ doc # "deleted")
        /\ UNCHANGED <<job, at, unsaved, faults>>
     \/ /\ at[p] = "idle" /\ Fault /\ unsaved' = TRUE
        /\ UNCHANGED <<job, at>>
     \/ /\ at[p] = "idle"
        /\ IF doc = "deleted" THEN UNCHANGED faults ELSE Fault
        /\ job' = "unread"
        /\ UNCHANGED <<at, unsaved>>
     \/ /\ at[p] = "idle" /\ doc # "deleted" /\ job # "completed"
        /\ Go(p, "begin") /\ unsaved' = FALSE
        /\ UNCHANGED <<job, faults>>
  /\ UNCHANGED <<doc, chunk, marked, vectors, keywords, next, page, request, live,
                 crashes, retries>>

Start(p) ==
  /\ at[p] = "begin"
  /\ Progress(p, "parsing", "running", "process")
  /\ UNCHANGED <<chunk, marked, vectors, keywords, next, page, host, unsaved, crashes, retries>>

\* The processor hands over the chunks; the first batch moves the document on.
FirstBatch(p) ==
  /\ at[p] = "process"
  /\ Progress(p, "chunking", "running", "chunks")
  /\ next' = [next EXCEPT ![p] = 0]
  /\ UNCHANGED <<chunk, marked, vectors, keywords, page, host, unsaved, crashes, retries>>

\* Chunks are written one by one; a chunk that is there keeps its mark, and one
\* that was deleted cannot be written.
StoreChunk(p) ==
  /\ at[p] = "chunks" /\ next[p] < Chunks
  /\ IF chunk[next[p]] = "deleted"
       THEN Go(p, "fail") /\ UNCHANGED <<chunk, next>>
       ELSE /\ chunk' = [chunk EXCEPT ![next[p]] = "active"]
            /\ next' = [next EXCEPT ![p] = @ + 1]
            /\ UNCHANGED at
  /\ UNCHANGED <<doc, job, marked, vectors, keywords, page, host, unsaved, bounds>>

Processed(p) ==
  /\ at[p] = "chunks" /\ next[p] = Chunks
  /\ Progress(p, "embedding", "running", "embed")
  /\ next' = [next EXCEPT ![p] = 0]
  /\ UNCHANGED <<chunk, marked, vectors, keywords, page, host, unsaved, crashes, retries>>

\* A page that lacks a chunk, or ends too early, fails the execution.
PageInvalid(p) ==
  /\ at[p] \in {"embed", "keywords"}
  /\ ~Whole(next[p]) \/ (Page(next[p]) = {} /\ next[p] # Chunks)
  /\ Go(p, "fail")
  /\ UNCHANGED <<stores, next, page, host, unsaved, bounds>>

PageRead(p) ==
  /\ Page(next[p]) # {} /\ Whole(next[p])
  /\ next' = [next EXCEPT ![p] = @ + Cardinality(Page(@))]

PagesDone(p) == Page(next[p]) = {} /\ next[p] = Chunks

\* Variant with a bug: the chunks of the page are marked before they are embedded.
EmbedPageMarked(p) ==
  /\ at[p] = "embed" /\ PageRead(p)
  /\ LET missing == Page(next[p]) \ marked IN
       /\ page' = [page EXCEPT ![p] = missing]
       /\ marked' = marked \cup missing
       /\ Go(p, IF missing = {} THEN "count" ELSE "vectors")
  /\ UNCHANGED <<doc, job, chunk, vectors, keywords, host, unsaved, bounds>>

\* Only the chunks of a page that have no mark are embedded.
EmbedPage(p) ==
  /\ at[p] = "embed" /\ PageRead(p)
  /\ LET missing == Page(next[p]) \ marked IN
       /\ page' = [page EXCEPT ![p] = missing]
       /\ Go(p, IF missing = {} THEN "count" ELSE "vectors")
  /\ UNCHANGED <<stores, host, unsaved, bounds>>

StoreVectors(p) ==
  /\ at[p] = "vectors"
  /\ vectors' = vectors \cup page[p]
  /\ Go(p, "mark")
  /\ UNCHANGED <<doc, job, chunk, marked, keywords, next, page, host, unsaved, bounds>>

\* MarkEmbedded passes over chunks that were deleted.
Mark(p) ==
  /\ at[p] = "mark"
  /\ marked' = marked \cup {i \in page[p] : chunk[i] = "active"}
  /\ page' = [page EXCEPT ![p] = {}]
  /\ Go(p, "count")
  /\ UNCHANGED <<doc, job, chunk, vectors, keywords, next, host, unsaved, bounds>>

\* The count is saved with the job alone, which is running for this execution.
SaveCount(p) ==
  /\ at[p] = "count"
  /\ job' = "running"
  /\ Go(p, "embed")
  /\ UNCHANGED <<doc, chunk, marked, vectors, keywords, next, page, host, unsaved, bounds>>

Embedded(p) ==
  /\ at[p] = "embed" /\ PagesDone(p)
  /\ Progress(p, "indexing", "running", "keywords")
  /\ next' = [next EXCEPT ![p] = 0]
  /\ UNCHANGED <<chunk, marked, vectors, keywords, page, host, unsaved, crashes, retries>>

IndexPage(p) ==
  /\ at[p] = "keywords" /\ PageRead(p)
  /\ keywords' = [keywords EXCEPT ![File(p)] = @ \cup Page(next[p])]
  /\ UNCHANGED <<doc, job, chunk, marked, vectors, at, page, host, unsaved, bounds>>

Complete(p) ==
  /\ at[p] = "keywords" /\ PagesDone(p)
  /\ Progress(p, "ready", "completed", "idle")
  /\ next' = [next EXCEPT ![p] = 0]
  /\ UNCHANGED <<chunk, marked, vectors, keywords, page, host, unsaved, crashes, retries>>

\* The profiles, the processor, the embedding model or a store fails.
StageFails(p) ==
  /\ at[p] \in Place \ {"idle", "fail"}
  /\ Fault
  /\ Go(p, "fail")
  /\ UNCHANGED <<stores, next, page, host, unsaved, crashes, retries>>

\* Variant with a bug: a failed execution saves its job alone.
FailJob(p) ==
  /\ at[p] = "fail"
  /\ Go(p, "idle")
  /\ next' = [next EXCEPT ![p] = 0] /\ page' = [page EXCEPT ![p] = {}]
  /\ job' = "failed"
  /\ UNCHANGED <<doc, chunk, marked, vectors, keywords, host, unsaved, bounds>>

\* fail: document and job are marked failed, if that can be saved.
Fail(p) ==
  /\ at[p] = "fail"
  /\ Go(p, "idle")
  /\ \/ SaveBoth("failed", "failed") /\ UNCHANGED <<unsaved, faults>>
     \/ SaveLost /\ unsaved' = TRUE /\ UNCHANGED <<doc, job>>
  /\ next' = [next EXCEPT ![p] = 0] /\ page' = [page EXCEPT ![p] = {}]
  /\ UNCHANGED <<chunk, marked, vectors, keywords, host, crashes, retries>>

-----------------------------------------------------------------------------
\* The process ends with everything it was in the middle of.
Crash(p) ==
  /\ p \in live /\ crashes < MaxCrashes /\ crashes' = crashes + 1
  /\ live' = live \ {p}
  /\ at' = [at EXCEPT ![p] = "idle"] /\ page' = [page EXCEPT ![p] = {}]
  /\ next' = [next EXCEPT ![p] = 0]
  /\ tasks' = [tasks EXCEPT ![p] = 0] /\ request' = [request EXCEPT ![p] = "none"]
  /\ UNCHANGED <<stores, unsaved, faults, retries>>

\* Variant with a bug: recovery takes up only what had not begun.
RecoverableUnbegun == job = "pending"

\* ListPending.
Recoverable == job \in {"pending", "running"}

\* The process starts; RecoverPending submits the job whoever executes it.
Restart(p) ==
  /\ p \notin live
  /\ live' = live \cup {p}
  /\ IF Recoverable THEN Schedule(p) ELSE UNCHANGED <<tasks, doc, job, unsaved, faults>>
  /\ UNCHANGED <<chunk, marked, vectors, keywords, run, request, crashes, retries>>

-----------------------------------------------------------------------------
Work(p) ==
  \/ SubmitJob(p) \/ IngestEnds(p) \/ DeleteChunks(p) \/ Restart(p)
  \/ Begin(p) \/ Start(p) \/ FirstBatch(p) \/ StoreChunk(p) \/ Processed(p)
  \/ PageInvalid(p) \/ EmbedPage(p) \/ StoreVectors(p) \/ Mark(p) \/ SaveCount(p) \/ Embedded(p)
  \/ IndexPage(p) \/ Complete(p) \/ StageFails(p) \/ Fail(p)

Next == \E p \in Process : Work(p) \/ Upload(p) \/ Retry(p) \/ Delete(p) \/ Crash(p)

\* Requests and executions go on, and the program is started again.
Spec == Init /\ [][Next]_vars /\ \A p \in Process : WF_vars(Work(p))

-----------------------------------------------------------------------------
\* Every variable has its type.
TypeOK ==
  /\ doc \in {"absent", "uploaded", "parsing", "chunking", "embedding", "indexing", "ready",
              "failed", "deleted"}
  /\ job \in {"none", "pending", "running", "completed", "failed", "unread"}
  /\ chunk \in [Ordinal -> {"none", "active", "deleted"}]
  /\ marked \subseteq Ordinal /\ vectors \subseteq Ordinal
  /\ keywords \in [Files -> SUBSET Ordinal]
  /\ at \in [Process -> Place] /\ next \in [Process -> 0 .. Chunks]
  /\ page \in [Process -> SUBSET Ordinal]
  /\ tasks \in [Process -> Nat]
  /\ request \in [Process -> {"none", "uploaded", "submitted", "deleting"}]
  /\ live \subseteq Process /\ unsaved \in BOOLEAN
  /\ faults \in Nat /\ crashes \in Nat /\ retries \in Nat

\* A document that search may use (hydrate.go:71) has all its chunks, each with its
\* vector and all of them in one keyword index, however many executions ran side by
\* side, failed half-way and were repeated elsewhere: the marks a later one relies on
\* are never without their vectors (embedding.go:43-50), while the keywords another
\* instance wrote are in a file it does not have (progress.go:85-129).
ReadyIndexed ==
  /\ marked \subseteq vectors
  /\ doc = "ready" =>
       /\ \A i \in Ordinal : chunk[i] = "active" /\ i \in marked
       /\ \E f \in Files : keywords[f] = Ordinal

\* A job that is over agrees with its document, whoever wrote last, unless the job
\* was failed because its document could not be loaded: then it alone was written
\* (indexing_state_repository.go:40-66, indexing_service.go:98-100).
OutcomeAgrees ==
  /\ job = "completed" => doc \in {"ready", "deleted"}
  /\ job = "failed" => doc \in {"failed", "deleted"}

\* No execution that began before a document was deleted brings it or one of its
\* deleted chunks back (document_repository.go:71-106, chunk_repository.go:40-95).
DeleteFinal ==
  [][/\ doc = "deleted" => doc' = "deleted"
     /\ \A i \in Ordinal : chunk[i] = "deleted" => chunk'[i] = "deleted"]_vars

\* A submitted job comes to an end: completed, failed, or its document deleted, or
\* the last execution said it could not store its outcome (document_service.go:142-192).
JobSettles ==
  job \in {"pending", "running"} ~>
    job \in {"completed", "failed", "unread"} \/ doc = "deleted" \/ unsaved
=============================================================================
