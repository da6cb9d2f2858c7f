--------------------------- MODULE KnowledgeBase ---------------------------
(***************************************************************************)
(* The two durable queues of a knowledge base: documents are parsed and     *)
(* indexed, and indexed documents are written up as pages of a wiki.        *)
(*                                                                         *)
(*   core/kb/index_queue.py, index_worker.py    the queue of documents      *)
(*   core/content/kb_processing.py              what indexing commits       *)
(*   api/routes/v1/kb.py, kb_service.py         upload, re-index, delete    *)
(*   core/kb/wiki/jobs.py, worker.py            the queue of wiki jobs      *)
(*   core/kb/wiki/pipeline.py, finalize.py      what a wiki job commits     *)
(*                                                                         *)
(* One knowledge base with its wiki on.  Each process has a loop that hands *)
(* documents to a pool of threads, and one wiki worker.  An action is what  *)
(* is done up to a commit.  A document has one page, which cites it.        *)
(***************************************************************************)
EXTENDS Naturals, FiniteSets

CONSTANTS
    Docs,         \* documents
    Procs,        \* server processes
    Slots,        \* KB_INDEX_CONCURRENCY: threads of each process's pool
    Batch,        \* batch_size of the wiki: ingest jobs done together
    None,
    Disturbances, \* the kinds of fault and outside event that may happen
    MaxAttempts,  \* MAX_ATTEMPTS of the index, max_attempts of a wiki job
    MaxJobs,      \* bound on rows of kb_wiki_jobs that are open, or held
    MaxReindex,   \* bound on requests to index a document anew
    MaxCrashes    \* bound on crashes

Kinds == {"crash", "delete", "early", "index", "model", "quick", "reindex", "slow", "storage"}

ASSUME KBAssumption ==
    /\ Disturbances \subseteq Kinds
    /\ MaxAttempts \in Nat \ {0} /\ Batch \in Nat \ {0}
    /\ MaxJobs \in Nat /\ MaxReindex \in Nat /\ MaxCrashes \in Nat
    /\ None \notin Procs /\ "finalize" \notin Docs

Threads == Procs \X Slots
JobIds  == 1 .. MaxJobs

VARIABLES
    doc,      \* kb_documents: indexing_status, deleted_at, the claim in the metadata
    chunks,   \* copies of a document's chunks that are stored
    request,  \* the request about a document that is between two commits
    proc,     \* processes: up, starting, down
    thread,   \* what each thread of the pools does, to which document
    inflight, \* _inflight of each process: documents it sends heartbeats for
    job,      \* kb_wiki_jobs; nobody reads a row that has ended, and its place is free
    wiki,     \* the wiki worker of each process, the jobs and documents it has
    cited,    \* documents with a live page
    listed,   \* documents whose page the index page lists
    dropped,  \* what no job will do: a retraction, or the finalize of a wiki
    redone, crashes

pages == <<cited, listed>>
vars == <<doc, chunks, request, proc, thread, inflight, job, wiki, pages, dropped,
          redone, crashes>>

Queued == {"processing", "indexing"}
Open   == {"pending", "running"}
Busy   == {"claimed", "batched", "loaded", "snapped", "written", "done"}
ThreadsOf(p) == {t \in Threads : t[1] = p}

KBTypeOK ==
    /\ doc \in [Docs -> [st: {"absent", "completed", "failed"} \cup Queued,
                         live: BOOLEAN, attempt: 0 .. MaxAttempts,
                         beat: {None, "fresh", "stale"}]]
    /\ chunks \in [Docs -> Nat]
    /\ request \in [Docs -> [pc: {"none", "stored", "purged", "deleted"},
                             at: Procs \cup {None}]]
    /\ proc \in [Procs -> {"up", "starting", "down"}]
    /\ thread \in [Threads -> [pc: {"idle", "claimed", "indexing", "chunked", "completed"},
                               doc: Docs \cup {None}]]
    /\ inflight \in [Procs -> SUBSET Docs]
    /\ job \in [JobIds -> [type: {None, "ingest", "retract", "finalize"}, docs: SUBSET Docs,
                            st: {"ended"} \cup Open, attempt: Nat,
                            beat: {None, "fresh", "stale"}]]
    /\ Cardinality({j \in JobIds : job[j].type = "finalize" /\ job[j].st \in Open}) <= 1
    /\ \A p \in Procs : /\ wiki[p].pc \in {"idle", "picked"} \cup Busy
                        /\ wiki[p].jobs \subseteq JobIds
                        /\ wiki[p].docs \subseteq Docs
                        /\ proc[p] # "up" => wiki[p].pc = "idle" /\ inflight[p] = {}
    /\ cited \subseteq Docs /\ listed \subseteq Docs
    /\ dropped \subseteq Docs \cup {"finalize"}
    /\ redone \in 0 .. MaxReindex /\ crashes \in 0 .. MaxCrashes

NoDoc     == [st |-> "absent", live |-> FALSE, attempt |-> 0, beat |-> None]
NoRequest == [pc |-> "none", at |-> None]
Free      == [pc |-> "idle", doc |-> None]
NoJob     == [type |-> None, docs |-> {}, st |-> "ended", attempt |-> 0, beat |-> None]
Rest      == [pc |-> "idle", job |-> 0, seen |-> None, jobs |-> {}, docs |-> {}]

Init ==
    /\ doc = [d \in Docs |-> NoDoc]
    /\ chunks = [d \in Docs |-> 0]
    /\ request = [d \in Docs |-> NoRequest]
    /\ proc = [p \in Procs |-> "up"]
    /\ thread = [t \in Threads |-> Free]
    /\ inflight = [p \in Procs |-> {}]
    /\ job = [j \in JobIds |-> NoJob]
    /\ wiki = [p \in Procs |-> Rest]
    /\ cited = {} /\ listed = {} /\ dropped = {}
    /\ redone = 0 /\ crashes = 0

-----------------------------------------------------------------------------
(* Requests. *)

asked == <<request, redone>>
index == <<doc, chunks, thread, inflight>>
wikiV == <<job, wiki, pages, dropped>>

\* KBService.upload_document: the row can be claimed before it is queued.
Upload(p, d) ==
    /\ proc[p] = "up" /\ doc[d].st = "absent"
    /\ doc' = [doc EXCEPT ![d] = [NoDoc EXCEPT !.st = "processing", !.live = TRUE]]
    /\ request' = [request EXCEPT ![d] = [pc |-> "stored", at |-> p]]
    /\ UNCHANGED <<chunks, thread, inflight, redone, proc, wikiV, crashes>>

\* reindex_document: the chunks go and the status changes.
Purge(p, d) ==
    /\ "reindex" \in Disturbances /\ redone < MaxReindex
    /\ proc[p] = "up" /\ doc[d].live /\ request[d].pc = "none"
    /\ redone' = redone + 1
    /\ chunks' = [chunks EXCEPT ![d] = 0]
    /\ doc' = [doc EXCEPT ![d].st = "processing"]
    /\ request' = [request EXCEPT ![d] = [pc |-> "purged", at |-> p]]
    /\ UNCHANGED <<thread, inflight, proc, wikiV, crashes>>

\* index_queue.enqueue, whatever became of the row in between
Enqueue(d) ==
    /\ request[d].pc \in {"stored", "purged"}
    /\ doc' = [doc EXCEPT ![d].st = "processing", ![d].attempt = 0, ![d].beat = None]
    /\ request' = [request EXCEPT ![d] = NoRequest]
    /\ UNCHANGED <<chunks, thread, inflight, redone, proc, wikiV, crashes>>

\* A new row of kb_wiki_jobs, where no row is that matters.
FreeIds == {j \in JobIds :
    job[j].st = "ended" /\ \A p \in Procs : j \notin wiki[p].jobs \cup {wiki[p].job}}
NewId   == CHOOSE j \in FreeIds : \A i \in FreeIds : j <= i

Enqueued(type, ds) == [job EXCEPT ![NewId] =
    [type |-> type, docs |-> ds, st |-> "pending", attempt |-> 0, beat |-> None]]

\* KBService.delete_document, then the retraction, in a second transaction.
Delete(p, d) ==
    /\ "delete" \in Disturbances
    /\ proc[p] = "up" /\ doc[d].live /\ request[d].pc = "none"
    /\ doc' = [doc EXCEPT ![d].live = FALSE]
    /\ request' = [request EXCEPT ![d] = [pc |-> "deleted", at |-> p]]
    /\ UNCHANGED <<chunks, thread, inflight, redone, proc, wikiV, crashes>>

EnqueueRetract(d) ==
    /\ request[d].pc = "deleted"
    /\ FreeIds # {}
    /\ job' = Enqueued("retract", {d})
    /\ request' = [request EXCEPT ![d] = NoRequest]
    /\ UNCHANGED <<index, redone, proc, wiki, pages, dropped, crashes>>

-----------------------------------------------------------------------------
(* The index: the loop of a process, and the threads of its pool. *)

\* claim_next, first transaction: the candidate, and the change of its status.
ClaimDocument(t, d) ==
    /\ proc[t[1]] = "up" /\ thread[t].pc = "idle"
    /\ \A u \in ThreadsOf(t[1]) : thread[u].pc # "claimed"
    /\ doc[d].st = "processing" /\ doc[d].live
    /\ "early" \in Disturbances \/ request[d].pc \notin {"stored", "purged"}
    /\ doc' = [doc EXCEPT ![d].st = "indexing"]
    /\ thread' = [thread EXCEPT ![t] = [pc |-> "claimed", doc |-> d]]
    /\ UNCHANGED <<chunks, inflight, asked, proc, wikiV, crashes>>

\* claim_next, second transaction: the attempt is counted, or was the last.
BeginIndex(t) ==
    LET d == thread[t].doc
        p == t[1]
    IN /\ thread[t].pc = "claimed"
       /\ IF doc[d].attempt >= MaxAttempts
          THEN /\ doc' = [doc EXCEPT ![d].st = "failed", ![d].beat = None]
               /\ thread' = [thread EXCEPT ![t] = Free]
               /\ UNCHANGED inflight
          ELSE /\ doc' = [doc EXCEPT ![d].attempt = @ + 1, ![d].beat = "fresh"]
               /\ thread' = [thread EXCEPT ![t].pc = "indexing"]
               /\ inflight' = [inflight EXCEPT ![p] = @ \cup {d}]
       /\ UNCHANGED <<chunks, asked, proc, wikiV, crashes>>

\* The thread ends; its process forgets the document, even one that another of
\* its threads works on.
Leave(t) ==
    /\ thread' = [thread EXCEPT ![t] = Free]
    /\ inflight' = [inflight EXCEPT ![t[1]] = @ \ {thread[t].doc}]

\* The original cannot be read: give_up_or_requeue.
Unreadable(t) ==
    LET d == thread[t].doc
    IN /\ "storage" \in Disturbances /\ thread[t].pc = "indexing"
       /\ doc' = [doc EXCEPT ![d].beat = None,
                             ![d].st = IF doc[d].attempt < MaxAttempts
                                       THEN "processing" ELSE "failed"]
       /\ Leave(t)
       /\ UNCHANGED <<chunks, asked, proc, wikiV, crashes>>

\* One transaction with all the chunks; those of an earlier attempt stay.
StoreChunks(t) ==
    /\ thread[t].pc = "indexing"
    /\ chunks' = [chunks EXCEPT ![thread[t].doc] = @ + 1]
    /\ thread' = [thread EXCEPT ![t].pc = "chunked"]
    /\ UNCHANGED <<doc, inflight, asked, proc, wikiV, crashes>>

\* Deviation: no text found is no reason to write a status.
EmptyReturns(d) == doc

\* update_document_status with an error: nothing parsed, or an exception.
Rejected(d) == [doc EXCEPT ![d].st = "failed", ![d].beat = None]

IndexFails(t) ==
    /\ "index" \in Disturbances /\ thread[t].pc \in {"indexing", "chunked"}
    /\ doc' = Rejected(thread[t].doc)
    /\ Leave(t)
    /\ UNCHANGED <<chunks, asked, proc, wikiV, crashes>>

Complete(t) ==
    /\ thread[t].pc = "chunked"
    /\ doc' = [doc EXCEPT ![thread[t].doc].st = "completed", ![thread[t].doc].beat = None]
    /\ thread' = [thread EXCEPT ![t].pc = "completed"]
    /\ UNCHANGED <<chunks, inflight, asked, proc, wikiV, crashes>>

EnqueueIngest(t) ==
    /\ thread[t].pc = "completed"
    /\ FreeIds # {}
    /\ job' = Enqueued("ingest", {thread[t].doc})
    /\ Leave(t)
    /\ UNCHANGED <<doc, chunks, asked, proc, wiki, pages, dropped, crashes>>

\* release_stale, in the first round of a process only.
FirstRound(p) ==
    /\ proc[p] = "starting"
    /\ doc' = [d \in Docs |-> IF doc[d].st = "indexing" /\ doc[d].live /\ doc[d].beat # "fresh"
                              THEN [doc[d] EXCEPT !.st = "processing"] ELSE doc[d]]
    /\ proc' = [proc EXCEPT ![p] = "up"]
    /\ UNCHANGED <<chunks, thread, inflight, asked, wikiV, crashes>>

\* Nobody has sent a heartbeat for STALE_AFTER.
DocumentLapses(d) ==
    /\ doc[d].beat = "fresh" /\ \A p \in Procs : d \notin inflight[p]
    /\ doc' = [doc EXCEPT ![d].beat = "stale"]
    /\ UNCHANGED <<chunks, thread, inflight, asked, proc, wikiV, crashes>>

-----------------------------------------------------------------------------
(* The wiki: jobs, one worker in each process. *)

\* Deviation: a finalize that has begun does not count.
FinalizePending == \E j \in JobIds : job[j].type = "finalize" /\ job[j].st = "pending"

\* _find_open_finalize, and the partial unique index
FinalizeOpen == \E j \in JobIds : job[j].type = "finalize" /\ job[j].st \in Open

\* Deviation: nobody looks for jobs whose holder has died.
ClaimablePending(j) == job[j].st = "pending"

Claimable(j) == \/ job[j].st = "pending"
                \/ job[j].st = "running" /\ job[j].beat = "stale"

\* job_type desc; among those of one type, created_at
Rank(j) == CASE job[j].type = "retract" -> 1 [] job[j].type = "ingest" -> 2 [] OTHER -> 3

Claimed(js) == [j \in JobIds |->
    IF j \in js THEN [job[j] EXCEPT !.st = "running", !.attempt = @ + 1, !.beat = "fresh"]
    ELSE job[j]]

\* claim_next_job: the candidate, then the change of its row if its status is
\* still the one that was seen.
PickJob(p, j) ==
    /\ proc[p] = "up" /\ wiki[p].pc = "idle"
    /\ Claimable(j) /\ \A i \in JobIds : Claimable(i) => Rank(j) <= Rank(i)
    /\ wiki' = [wiki EXCEPT ![p] = [Rest EXCEPT !.pc = "picked", !.job = j,
                                                !.seen = job[j].st]]
    /\ UNCHANGED <<index, asked, proc, job, pages, dropped, crashes>>

ClaimJob(p) ==
    LET j == wiki[p].job
    IN /\ wiki[p].pc = "picked"
       /\ IF job[j].st = wiki[p].seen
          THEN /\ job' = Claimed({j})
               /\ wiki' = [wiki EXCEPT ![p].pc = "claimed", ![p].jobs = {j},
                                       ![p].docs = job[j].docs]
          ELSE /\ wiki' = [wiki EXCEPT ![p] = Rest]
               /\ UNCHANGED job
       /\ UNCHANGED <<index, asked, proc, pages, dropped, crashes>>

Type(p) == job[wiki[p].job].type

\* claim_sibling_ingest_jobs: as many as the batch has room for.
TakeSiblings(p, siblings) ==
    LET pending == {j \in JobIds : job[j].type = "ingest" /\ job[j].st = "pending"}
    IN /\ siblings \subseteq pending
       /\ Cardinality(siblings) < Batch
       /\ Cardinality(siblings) = Batch - 1 \/ siblings = pending
       /\ wiki[p].pc = "claimed" /\ Type(p) = "ingest"
       /\ job' = Claimed(siblings)
       /\ wiki' = [wiki EXCEPT ![p].pc = "batched", ![p].jobs = @ \cup siblings,
                               ![p].docs = @ \cup UNION {job[j].docs : j \in siblings}]
       /\ UNCHANGED <<index, asked, proc, pages, dropped, crashes>>

\* Deviation: a document is read whether or not it was deleted.
WorksDeleted(ds) == {d \in ds : chunks[d] > 0}

\* _load_documents
Works(ds) == {d \in ds : doc[d].live /\ chunks[d] > 0}

LoadDocuments(p) ==
    /\ wiki[p].pc = "batched"
    /\ wiki' = [wiki EXCEPT ![p].docs = Works(@),
                            ![p].pc = IF Works(wiki[p].docs) = {} THEN "written" ELSE "loaded"]
    /\ UNCHANGED <<index, asked, proc, job, pages, dropped, crashes>>

\* run_ingest commits the pages it has written from what it loaded.
WritePages(p) ==
    /\ wiki[p].pc = "loaded"
    /\ cited' = cited \cup wiki[p].docs
    /\ wiki' = [wiki EXCEPT ![p].pc = "written"]
    /\ UNCHANGED <<index, asked, proc, job, listed, dropped, crashes>>

\* run_retract
Retract(p) ==
    /\ wiki[p].pc = "claimed" /\ Type(p) = "retract"
    /\ cited' = cited \ wiki[p].docs
    /\ wiki' = [wiki EXCEPT ![p].pc = "written"]
    /\ UNCHANGED <<index, asked, proc, job, listed, dropped, crashes>>

\* finalize_kb_wiki reads all pages, and later writes the index page.
Snapshot(p) ==
    /\ wiki[p].pc = "claimed" /\ Type(p) = "finalize"
    /\ wiki' = [wiki EXCEPT ![p].pc = "snapped", ![p].docs = cited]
    /\ UNCHANGED <<index, asked, proc, job, pages, dropped, crashes>>

WriteIndexPage(p) ==
    /\ wiki[p].pc = "snapped"
    /\ listed' = wiki[p].docs
    /\ wiki' = [wiki EXCEPT ![p].pc = "written"]
    /\ UNCHANGED <<index, asked, proc, job, cited, dropped, crashes>>

\* The row of a job that ends: it stays while another worker holds it.
Ended(p, j) ==
    IF \E q \in Procs \ {p} : j \in wiki[q].jobs \cup {wiki[q].job}
    THEN [job[j] EXCEPT !.st = "ended"] ELSE NoJob

\* Deviation: a retraction is not followed by a finalize.
IngestIsFollowed(p) == Type(p) = "ingest"

\* _dispatch: what enqueue_finalize comes after
IsFollowed(p) == Type(p) # "finalize"

\* finish_job, finish_jobs
FinishJobs(p) ==
    /\ wiki[p].pc = "written"
    /\ job' = [j \in JobIds |-> IF j \in wiki[p].jobs THEN Ended(p, j) ELSE job[j]]
    /\ wiki' = [wiki EXCEPT ![p] = IF IsFollowed(p) THEN [Rest EXCEPT !.pc = "done"] ELSE Rest]
    /\ UNCHANGED <<index, asked, proc, pages, dropped, crashes>>

\* enqueue_finalize
EnqueueFinalize(p) ==
    /\ wiki[p].pc = "done"
    /\ FinalizeOpen \/ FreeIds # {}
    /\ job' = IF FinalizeOpen THEN job ELSE Enqueued("finalize", {})
    /\ dropped' = dropped \ {"finalize"}
    /\ wiki' = [wiki EXCEPT ![p] = Rest]
    /\ UNCHANGED <<index, asked, proc, pages, crashes>>

\* The partial unique index refuses to open a finalize beside another.
Refused(j) == job[j].type = "finalize" /\
    \E i \in JobIds \ {j} : job[i].type = "finalize" /\ job[i].st \in Open

\* An exception ends a job, after its pages were committed perhaps: fail_job
\* knows only the job that was claimed first, and may find its row ended.
JobFails(p) ==
    LET j == wiki[p].job
        last == job[j].attempt >= MaxAttempts
    IN /\ "model" \in Disturbances
       /\ \/ wiki[p].pc \in {"loaded", "snapped"}
          \/ wiki[p].pc = "written" /\ Type(p) = "ingest" /\ wiki[p].docs # {}
       /\ job' = [job EXCEPT ![j] = IF last THEN Ended(p, j) ELSE IF Refused(j) THEN @
                                    ELSE [@ EXCEPT !.st = "pending", !.beat = None]]
       /\ dropped' = IF last THEN dropped \cup {"finalize"} ELSE dropped
       /\ wiki' = [wiki EXCEPT ![p] = Rest]
       /\ UNCHANGED <<index, asked, proc, pages, crashes>>

\* Nobody has sent a heartbeat for STALE_AFTER: the holder has died, has dropped
\* the job, or sits in one model call.
JobLapses(j) ==
    /\ job[j].st = "running" /\ job[j].beat = "fresh"
    /\ \/ "slow" \in Disturbances
       \/ \A p \in Procs : j \notin wiki[p].jobs
    /\ job' = [job EXCEPT ![j].beat = "stale"]
    /\ UNCHANGED <<index, asked, proc, wiki, pages, dropped, crashes>>

-----------------------------------------------------------------------------
(* Processes. *)

Crash(p) ==
    LET broken == {d \in Docs : request[d].at = p}
    IN /\ "crash" \in Disturbances /\ crashes < MaxCrashes /\ proc[p] # "down"
       /\ crashes' = crashes + 1
       /\ proc' = [proc EXCEPT ![p] = "down"]
       /\ thread' = [t \in Threads |-> IF t[1] = p THEN Free ELSE thread[t]]
       /\ inflight' = [inflight EXCEPT ![p] = {}]
       /\ request' = [d \in Docs |-> IF d \in broken THEN NoRequest ELSE request[d]]
       /\ wiki' = [wiki EXCEPT ![p] = Rest]
       /\ dropped' = dropped \cup {d \in broken : request[d].pc = "deleted"}
                             \cup (IF wiki[p].pc = "done" THEN {"finalize"} ELSE {})
       /\ UNCHANGED <<doc, chunks, redone, job, pages>>

\* A restart within STALE_AFTER of the last heartbeat is a "quick" one.
Restart(p) ==
    /\ proc[p] = "down"
    /\ \/ "quick" \in Disturbances
       \/ \A d \in Docs : doc[d].beat = "fresh" => \E q \in Procs : d \in inflight[q]
    /\ proc' = [proc EXCEPT ![p] = "starting"]
    /\ UNCHANGED <<index, asked, wikiV, crashes>>

-----------------------------------------------------------------------------
Work(t) == BeginIndex(t) \/ StoreChunks(t) \/ Complete(t) \/ EnqueueIngest(t)

WikiStep(p) ==
    \/ \E j \in JobIds : PickJob(p, j)
    \/ ClaimJob(p) \/ (\E js \in SUBSET JobIds : TakeSiblings(p, js)) \/ LoadDocuments(p) \/ WritePages(p)
    \/ Retract(p) \/ Snapshot(p) \/ WriteIndexPage(p) \/ FinishJobs(p)
    \/ EnqueueFinalize(p)

Next ==
    \/ \E p \in Procs, d \in Docs : Upload(p, d) \/ Purge(p, d) \/ Delete(p, d)
    \/ \E d \in Docs : Enqueue(d) \/ EnqueueRetract(d) \/ DocumentLapses(d)
    \/ \E t \in Threads, d \in Docs : ClaimDocument(t, d)
    \/ \E t \in Threads : Work(t) \/ Unreadable(t) \/ IndexFails(t)
    \/ \E p \in Procs : WikiStep(p) \/ JobFails(p) \/ FirstRound(p) \/ Crash(p) \/ Restart(p)
    \/ \E j \in JobIds : JobLapses(j)

Spec == Init /\ [][Next]_vars

\* The loops poll, their threads and requests come to an end, time passes, and a
\* process that died is started again.
Fairness ==
    /\ \A d \in Docs : /\ WF_vars(Enqueue(d)) /\ WF_vars(EnqueueRetract(d))
                       /\ WF_vars(DocumentLapses(d))
                       /\ SF_vars(\E t \in Threads : ClaimDocument(t, d))
    /\ \A t \in Threads : WF_vars(Work(t))
    /\ \A p \in Procs : WF_vars(WikiStep(p)) /\ WF_vars(FirstRound(p)) /\ WF_vars(Restart(p))
    /\ WF_vars(\E j \in JobIds : JobLapses(j))

FairSpec == Spec /\ Fairness

-----------------------------------------------------------------------------
(* What a job is still going to do. *)

Owed(type, d) == \E j \in JobIds : job[j].type = type /\ job[j].st \in Open /\ d \in job[j].docs

\* KBService._enqueue_wiki_retract, run_ingest, run_retract: a deleted document is
\* cited by no page, unless its retraction is still to come; only a crash of the
\* request between its two transactions loses that.
DeletedIsForgotten == \A d \in cited :
    doc[d].live \/ request[d].pc = "deleted" \/ Owed("retract", d) \/ d \in dropped

\* enqueue_finalize, finalize_kb_wiki: the index page lists the pages there are, or
\* some job or worker is going to make it; a finalize is lost only to a crash
\* between finish_job and enqueue_finalize, or when a job gives up.
IndexPageCurrent ==
    \/ listed = cited
    \/ \E j \in JobIds : job[j].st \in Open
    \/ \E p \in Procs : wiki[p].pc = "done"
    \/ "finalize" \in dropped

\* vectorise_document_background, release_stale: a document that waits for its
\* index gets a terminal status, unless it is deleted.
DocumentSettles == \A d \in Docs :
    doc[d].st \in Queued /\ doc[d].live ~> doc[d].st \in {"completed", "failed"} \/ ~doc[d].live

\* claim_next_job, fail_job: every job of the wiki ends, whatever failed or died
\* while it held the job, alone or together with others.
WikiJobsEnd == (\E j \in JobIds : job[j].st \in Open) ~> (\A j \in JobIds : job[j].st \notin Open)

\* index_queue.claim_next, test_kb_index_queue.py:103: no two threads index one
\* document.
OneIndexer == \A t, u \in Threads :
    thread[t].pc = "indexing" /\ thread[u].pc = "indexing" /\ thread[t].doc = thread[u].doc
    => t = u

\* claim_next_job, jobs.py:117-118: of those that try for a job, one gets it.
ClaimedByOne == \A p, q \in Procs :
    wiki[p].pc \in Busy /\ wiki[q].pc \in Busy /\ wiki[p].jobs \cap wiki[q].jobs # {} => p = q

\* reindex_document, update_document_status: a document that is ready has chunks,
\* or a request is about to queue it again.
ReadyHasChunks == \A d \in Docs :
    doc[d].st = "completed" /\ request[d].pc = "none" => chunks[d] > 0
=============================================================================
