------------------------- MODULE KnowledgeBaseProofs ------------------------
(***************************************************************************)
(* Proofs about KnowledgeBase, for any sets of documents, threads and jobs, *)
(* any disturbances and any numbers of attempts, requests and crashes: its  *)
(* types, and for one process that a deleted document is forgotten and that *)
(* the index page is kept current.                                          *)
(***************************************************************************)
EXTENDS KnowledgeBase, FiniteSetTheorems, WellFoundedInduction, TLAPS

-----------------------------------------------------------------------------
(* Types.                                                                   *)

Beats == {None, "fresh", "stale"}

Doc == [st: {"absent", "completed", "failed"} \cup Queued, live: BOOLEAN,
        attempt: 0 .. MaxAttempts, beat: Beats]
Request == [pc: {"none", "stored", "purged", "deleted"}, at: Procs \cup {None}]
Thread == [pc: {"idle", "claimed", "indexing", "chunked", "completed"}, doc: Docs \cup {None}]
Job == [type: {None, "ingest", "retract", "finalize"}, docs: SUBSET Docs, st: {"ended"} \cup Open,
        attempt: Nat, beat: Beats]
Worker == [pc: {"idle", "picked"} \cup Busy, job: JobIds \cup {0}, seen: Open \cup {None},
           jobs: SUBSET JobIds, docs: SUBSET Docs]

DocsTyped == doc \in [Docs -> Doc] /\ chunks \in [Docs -> Nat] /\ request \in [Docs -> Request]

\* A thread that works has a document, in a process that is up.
PoolsTyped ==
    /\ proc \in [Procs -> {"up", "starting", "down"}]
    /\ thread \in [Threads -> Thread] /\ inflight \in [Procs -> SUBSET Docs]
    /\ \A t \in Threads : thread[t].pc # "idle" => thread[t].doc \in Docs /\ proc[t[1]] = "up"

\* So does a wiki worker, and has a job until it only has a finalize to enqueue.
WikiTyped ==
    /\ job \in [JobIds -> Job] /\ wiki \in [Procs -> Worker]
    /\ \A p \in Procs : wiki[p].pc \notin {"idle", "done"} => wiki[p].job \in JobIds

RestTyped ==
    /\ cited \subseteq Docs /\ listed \subseteq Docs
    /\ dropped \subseteq Docs \cup {"finalize"}
    /\ redone \in 0 .. MaxReindex /\ crashes \in 0 .. MaxCrashes

\* What dies with a process.
DownIsIdle == \A p \in Procs : proc[p] # "up" => wiki[p].pc = "idle" /\ inflight[p] = {}

Typed == DocsTyped /\ PoolsTyped /\ WikiTyped /\ RestTyped /\ DownIsIdle

-----------------------------------------------------------------------------
(* One finalize.                                                            *)

OneFinalize ==
    \A i, j \in JobIds : /\ job[i].type = "finalize" /\ job[i].st \in Open
                         /\ job[j].type = "finalize" /\ job[j].st \in Open
                         => i = j

\* Only an open job is picked.
PickedOpen == \A p \in Procs : wiki[p].pc = "picked" => wiki[p].seen \in Open

FinalizeInv == OneFinalize /\ PickedOpen

-----------------------------------------------------------------------------
(* One process.                                                             *)

\* Several processes take over each other's jobs while they are worked on.
OneProcess == \A p, q \in Procs : p = q

Working(p) == wiki[p].pc \in Busy \ {"done"}

\* The jobs of a worker run, and are of the type of the first.
JobsHeld == \A p \in Procs : Working(p) =>
    wiki[p].job \in wiki[p].jobs
    /\ \A j \in wiki[p].jobs : job[j].st = "running" /\ job[j].type = Type(p)

\* Each type of job takes its own course.
Courses == \A p \in Procs :
    /\ wiki[p].pc \in {"batched", "loaded"} => Type(p) = "ingest"
    /\ wiki[p].pc = "snapped" => Type(p) = "finalize"

\* A document that is live, or that somebody is going to retract, or was meant to.
Accounted(d) == doc[d].live \/ request[d].pc = "deleted" \/ Owed("retract", d) \/ d \in dropped

\* A worker writes pages of no other documents, ...
LoadedAccounted == \A p \in Procs : wiki[p].pc = "loaded" => \A d \in wiki[p].docs : Accounted(d)

\* ... and one that retracts has all its documents, until no page cites them.
RetractsAll == \A p \in Procs :
    /\ wiki[p].pc \in {"claimed", "written"} /\ Type(p) = "retract" =>
          wiki[p].jobs = {wiki[p].job} /\ job[wiki[p].job].docs = wiki[p].docs
    /\ wiki[p].pc = "written" /\ Type(p) = "retract" => wiki[p].docs \cap cited = {}

\* The pages that a finalize has read, and those it has listed, are those there are.
SnapshotCurrent == \A p \in Procs :
    /\ wiki[p].pc = "snapped" => wiki[p].docs = cited
    /\ wiki[p].pc = "written" /\ Type(p) = "finalize" => listed = cited

WikiInv == JobsHeld /\ Courses
ForgetInv == LoadedAccounted /\ RetractsAll /\ DeletedIsForgotten
PageInv == SnapshotCurrent /\ IndexPageCurrent

-----------------------------------------------------------------------------
(* The steps keep the types.                                                *)

\* A row that is replaced by a row.
LEMMA RowPut ==
    ASSUME NEW I, NEW T, NEW f \in [I -> T], NEW i \in I, NEW v \in T
    PROVE  [f EXCEPT ![i] = v] \in [I -> T]
  OBVIOUS

\* What the assumption on the constants says of single values.
LEMMA Bounds ==
    ASSUME KBAssumption
    PROVE  /\ MaxAttempts \in Nat \ {0} /\ MaxJobs \in Nat /\ 0 \in 0 .. MaxAttempts
           /\ JobIds \subseteq Nat /\ 0 \notin JobIds /\ "finalize" \notin Docs
           /\ \A t \in Threads : t[1] \in Procs
  BY DEF KBAssumption, JobIds, Threads

\* A set of numbers has a least one: the row that is free next.
LEMMA LeastNumber ==
    ASSUME NEW N \in SUBSET Nat, N # {}
    PROVE  \E n \in N : \A m \in N : n <= m
  <1> DEFINE R == {ss \in Nat \X Nat : ss[1] < ss[2]}
  <1>1. IsWellFoundedOn(R, Nat)
    BY NatLessThanWellFounded DEF OpToRel
  <1>2. \E n \in N : \A m \in N : ~(<<m, n>> \in R)
    <2> HIDE DEF R
    <2> QED BY <1>1, WFMin
  <1>3. \A n, m \in N : ~(<<m, n>> \in R) => n <= m
    OBVIOUS
  <1> QED BY <1>2, <1>3

\* A new job has a place where no job is that matters.
LEMMA NewIdFree ==
    ASSUME KBAssumption, FreeIds # {}
    PROVE  NewId \in FreeIds /\ NewId \in JobIds
  <1>1. FreeIds \in SUBSET Nat
    BY Bounds DEF FreeIds
  <1>2. \E j \in FreeIds : \A i \in FreeIds : j <= i
    BY <1>1, LeastNumber
  <1>3. NewId \in FreeIds
    BY <1>2 DEF NewId
  <1> QED BY <1>3 DEF FreeIds

\* A document's row after each kind of write.
LEMMA DocWrites ==
    ASSUME KBAssumption, NEW r \in Doc
    PROVE  /\ \A st \in {"completed", "failed"} \cup Queued :
                 /\ [r EXCEPT !.st = st] \in Doc
                 /\ [r EXCEPT !.st = st, !.beat = None] \in Doc
                 /\ [r EXCEPT !.beat = None, !.st = st] \in Doc
                 /\ [r EXCEPT !.st = st, !.attempt = 0, !.beat = None] \in Doc
           /\ [r EXCEPT !.live = FALSE] \in Doc /\ [r EXCEPT !.beat = "stale"] \in Doc
           /\ r.attempt < MaxAttempts => [r EXCEPT !.attempt = r.attempt + 1, !.beat = "fresh"] \in Doc
           /\ [NoDoc EXCEPT !.st = "processing", !.live = TRUE] \in Doc
  <1> USE Bounds DEF Doc, Beats
  <1>1. \A st \in {"completed", "failed"} \cup Queued :
                 /\ [r EXCEPT !.st = st] \in Doc
                 /\ [r EXCEPT !.st = st, !.beat = None] \in Doc
                 /\ [r EXCEPT !.beat = None, !.st = st] \in Doc
                 /\ [r EXCEPT !.st = st, !.attempt = 0, !.beat = None] \in Doc
    OBVIOUS
  <1>2. [r EXCEPT !.live = FALSE] \in Doc /\ [r EXCEPT !.beat = "stale"] \in Doc
    OBVIOUS
  <1>3. ASSUME r.attempt < MaxAttempts
        PROVE  [r EXCEPT !.attempt = r.attempt + 1, !.beat = "fresh"] \in Doc
    <2>1. r.attempt \in Nat /\ MaxAttempts \in Nat
      OBVIOUS
    <2>2. r.attempt + 1 \in 0 .. MaxAttempts
      BY <1>3, <2>1
    <2> QED BY <2>2
  <1>4. [NoDoc EXCEPT !.st = "processing", !.live = TRUE] \in Doc
    BY DEF NoDoc, Queued
  <1> QED BY <1>1, <1>2, <1>3, <1>4

\* A thread that works has a document and a process.
LEMMA ThreadBusy ==
    ASSUME KBAssumption, Typed, NEW t \in Threads, thread[t].pc # "idle"
    PROVE  /\ thread[t].doc \in Docs /\ proc[t[1]] = "up" /\ t[1] \in Procs
           /\ doc[thread[t].doc] \in Doc
  BY Bounds DEF Typed, PoolsTyped, DocsTyped

\* A transaction that writes one document.
LEMMA DocPut ==
    ASSUME Typed, NEW d \in Docs, NEW r \in Doc, doc' = [doc EXCEPT ![d] = r]
    PROVE  doc' \in [Docs -> Doc]
  BY RowPut DEF Typed, DocsTyped


\* Every step keeps the types of the documents and requests.
LEMMA DocsTypedStep ==
    ASSUME KBAssumption, Typed, Next
    PROVE  DocsTyped'
  <1>1. ASSUME NEW p \in Procs, NEW d \in Docs, Upload(p, d) PROVE DocsTyped'
    <2>1. d \in Docs /\ doc[d] \in Doc
      BY <1>1 DEF Upload, Typed, DocsTyped
    <2>2. doc' = [doc EXCEPT ![d] = [NoDoc EXCEPT !.st = "processing", !.live = TRUE]]
      BY <1>1 DEF Upload, Typed, DocsTyped
    <2>3. [NoDoc EXCEPT !.st = "processing", !.live = TRUE] \in Doc
      BY <1>1, <2>1, DocWrites DEF Upload, Queued
    <2>4. doc' \in [Docs -> Doc]
      BY <2>1, <2>2, <2>3, DocPut
    <2> QED BY <1>1, <2>4 DEF Upload, asked, Typed, DocsTyped, Request
  <1>2. ASSUME NEW p \in Procs, NEW d \in Docs, Purge(p, d) PROVE DocsTyped'
    <2>1. d \in Docs /\ doc[d] \in Doc
      BY <1>2 DEF Purge, Typed, DocsTyped
    <2>2. doc' = [doc EXCEPT ![d] = [doc[d] EXCEPT !.st = "processing"]]
      BY <1>2 DEF Purge, Typed, DocsTyped
    <2>3. [doc[d] EXCEPT !.st = "processing"] \in Doc
      BY <1>2, <2>1, DocWrites DEF Purge, Queued
    <2>4. doc' \in [Docs -> Doc]
      BY <2>1, <2>2, <2>3, DocPut
    <2> QED BY <1>2, <2>4 DEF Purge, asked, Typed, DocsTyped, Request
  <1>3. ASSUME NEW p \in Procs, NEW d \in Docs, Delete(p, d) PROVE DocsTyped'
    <2>1. d \in Docs /\ doc[d] \in Doc
      BY <1>3 DEF Delete, Typed, DocsTyped
    <2>2. doc' = [doc EXCEPT ![d] = [doc[d] EXCEPT !.live = FALSE]]
      BY <1>3 DEF Delete, Typed, DocsTyped
    <2>3. [doc[d] EXCEPT !.live = FALSE] \in Doc
      BY <1>3, <2>1, DocWrites DEF Delete, Queued
    <2>4. doc' \in [Docs -> Doc]
      BY <2>1, <2>2, <2>3, DocPut
    <2> QED BY <1>3, <2>4 DEF Delete, asked, Typed, DocsTyped, Request
  <1>4. ASSUME NEW d \in Docs, Enqueue(d) PROVE DocsTyped'
    <2>1. d \in Docs /\ doc[d] \in Doc
      BY <1>4 DEF Enqueue, Typed, DocsTyped
    <2>2. doc' = [doc EXCEPT ![d] = [doc[d] EXCEPT !.st = "processing", !.attempt = 0, !.beat = None]]
      BY <1>4 DEF Enqueue, Typed, DocsTyped
    <2>3. [doc[d] EXCEPT !.st = "processing", !.attempt = 0, !.beat = None] \in Doc
      BY <1>4, <2>1, DocWrites DEF Enqueue, Queued
    <2>4. doc' \in [Docs -> Doc]
      BY <2>1, <2>2, <2>3, DocPut
    <2> QED BY <1>4, <2>4 DEF Enqueue, asked, Typed, DocsTyped, Request, NoRequest
  <1>5. ASSUME NEW d \in Docs, EnqueueRetract(d) PROVE DocsTyped'
    BY <1>5 DEF EnqueueRetract, index, Typed, DocsTyped, Request, NoRequest
  <1>6. ASSUME NEW d \in Docs, DocumentLapses(d) PROVE DocsTyped'
    <2>1. d \in Docs /\ doc[d] \in Doc
      BY <1>6 DEF DocumentLapses, Typed, DocsTyped
    <2>2. doc' = [doc EXCEPT ![d] = [doc[d] EXCEPT !.beat = "stale"]]
      BY <1>6 DEF DocumentLapses, Typed, DocsTyped
    <2>3. [doc[d] EXCEPT !.beat = "stale"] \in Doc
      BY <1>6, <2>1, DocWrites DEF DocumentLapses, Queued
    <2>4. doc' \in [Docs -> Doc]
      BY <2>1, <2>2, <2>3, DocPut
    <2> QED BY <1>6, <2>4 DEF DocumentLapses, asked, Typed, DocsTyped, Request
  <1>7. ASSUME NEW t \in Threads, NEW d \in Docs, ClaimDocument(t, d) PROVE DocsTyped'
    <2>1. d \in Docs /\ doc[d] \in Doc
      BY <1>7 DEF ClaimDocument, Typed, DocsTyped
    <2>2. doc' = [doc EXCEPT ![d] = [doc[d] EXCEPT !.st = "indexing"]]
      BY <1>7 DEF ClaimDocument, Typed, DocsTyped
    <2>3. [doc[d] EXCEPT !.st = "indexing"] \in Doc
      BY <1>7, <2>1, DocWrites DEF ClaimDocument, Queued
    <2>4. doc' \in [Docs -> Doc]
      BY <2>1, <2>2, <2>3, DocPut
    <2> QED BY <1>7, <2>4 DEF ClaimDocument, asked, Typed, DocsTyped, Request
  <1>8. ASSUME NEW t \in Threads, BeginIndex(t) PROVE DocsTyped'
    <2>1. thread[t].doc \in Docs /\ doc[thread[t].doc] \in Doc
      BY <1>8, ThreadBusy DEF BeginIndex
    <2> DEFINE r == doc[thread[t].doc]
    <2>2. \/ doc' = [doc EXCEPT ![thread[t].doc] = [r EXCEPT !.st = "failed", !.beat = None]]
          \/ /\ r.attempt < MaxAttempts
             /\ doc' = [doc EXCEPT ![thread[t].doc] = [r EXCEPT !.attempt = r.attempt + 1, !.beat = "fresh"]]
      <3>1. r.attempt \in Nat /\ MaxAttempts \in Nat
        BY <2>1, Bounds DEF Doc
      <3>2. CASE r.attempt >= MaxAttempts
        BY <1>8, <3>2 DEF BeginIndex
      <3>3. CASE ~(r.attempt >= MaxAttempts)
        <4>1. r.attempt < MaxAttempts
          BY <3>1, <3>3
        <4> QED BY <1>8, <3>3, <4>1 DEF BeginIndex
      <3> QED BY <3>2, <3>3
    <2>3. /\ [r EXCEPT !.st = "failed", !.beat = None] \in Doc
          /\ r.attempt < MaxAttempts => [r EXCEPT !.attempt = r.attempt + 1, !.beat = "fresh"] \in Doc
      BY <2>1, DocWrites
    <2>4. doc' \in [Docs -> Doc]
      BY <2>1, <2>2, <2>3, DocPut
    <2> QED BY <1>8, <2>4 DEF BeginIndex, asked, Typed, DocsTyped
  <1>9. ASSUME NEW t \in Threads, StoreChunks(t) PROVE DocsTyped'
    <2>1. thread[t].doc \in Docs
      BY <1>9, ThreadBusy DEF StoreChunks
    <2> QED BY <1>9, <2>1 DEF StoreChunks, asked, Typed, DocsTyped
  <1>10. ASSUME NEW t \in Threads, Complete(t) PROVE DocsTyped'
    <2>1. thread[t].doc \in Docs /\ doc[thread[t].doc] \in Doc
      BY <1>10, ThreadBusy DEF Complete, Typed, DocsTyped
    <2>2. doc' = [doc EXCEPT ![thread[t].doc] = [doc[thread[t].doc] EXCEPT !.st = "completed", !.beat = None]]
      BY <1>10 DEF Complete, Typed, DocsTyped
    <2>3. [doc[thread[t].doc] EXCEPT !.st = "completed", !.beat = None] \in Doc
      BY <1>10, <2>1, DocWrites DEF Complete, Queued
    <2>4. doc' \in [Docs -> Doc]
      BY <2>1, <2>2, <2>3, DocPut
    <2> QED BY <1>10, <2>4 DEF Complete, asked, Typed, DocsTyped, Request
  <1>11. ASSUME NEW t \in Threads, Unreadable(t) PROVE DocsTyped'
    <2>1. thread[t].doc \in Docs /\ doc[thread[t].doc] \in Doc
      BY <1>11, ThreadBusy DEF Unreadable
    <2>2. PICK st \in {"processing", "failed"} :
              doc' = [doc EXCEPT ![thread[t].doc] = [doc[thread[t].doc] EXCEPT !.beat = None, !.st = st]]
      BY <1>11 DEF Unreadable, Typed, DocsTyped
    <2>3. [doc[thread[t].doc] EXCEPT !.beat = None, !.st = st] \in Doc
      BY <2>1, DocWrites DEF Queued
    <2>4. doc' \in [Docs -> Doc]
      BY <2>1, <2>2, <2>3, DocPut
    <2> QED BY <1>11, <2>4 DEF Unreadable, asked, Typed, DocsTyped
  <1>12. ASSUME NEW t \in Threads, IndexFails(t) PROVE DocsTyped'
    <2>1. thread[t].doc \in Docs /\ doc[thread[t].doc] \in Doc
      BY <1>12, ThreadBusy DEF IndexFails, Typed, DocsTyped
    <2>2. doc' = [doc EXCEPT ![thread[t].doc] = [doc[thread[t].doc] EXCEPT !.st = "failed", !.beat = None]]
      BY <1>12 DEF IndexFails, Rejected, Typed, DocsTyped
    <2>3. [doc[thread[t].doc] EXCEPT !.st = "failed", !.beat = None] \in Doc
      BY <1>12, <2>1, DocWrites DEF IndexFails, Queued
    <2>4. doc' \in [Docs -> Doc]
      BY <2>1, <2>2, <2>3, DocPut
    <2> QED BY <1>12, <2>4 DEF IndexFails, asked, Typed, DocsTyped, Request
  <1>13. ASSUME NEW p \in Procs, FirstRound(p) PROVE DocsTyped'
    <2>1. \A d \in Docs : doc'[d] = doc[d] \/ doc'[d] = [doc[d] EXCEPT !.st = "processing"]
      BY <1>13 DEF FirstRound, Typed, DocsTyped
    <2>2. ASSUME NEW d \in Docs PROVE doc'[d] \in Doc
      <3>1. doc[d] \in Doc
        BY DEF Typed, DocsTyped
      <3>2. [doc[d] EXCEPT !.st = "processing"] \in Doc
        BY <3>1, DocWrites DEF Queued
      <3> QED BY <2>1, <3>1, <3>2
    <2>3. doc' = [d \in Docs |-> doc'[d]]
      BY <1>13 DEF FirstRound
    <2> QED BY <1>13, <2>2, <2>3 DEF FirstRound, asked, Typed, DocsTyped
  <1>14. ASSUME NEW p \in Procs, Crash(p) PROVE DocsTyped'
    BY <1>14 DEF Crash, Typed, DocsTyped, Request, NoRequest
  <1>15. ASSUME NEW t \in Threads, EnqueueIngest(t)
       PROVE  UNCHANGED <<doc, chunks, request>>
    BY <1>15 DEF EnqueueIngest, asked, index, wikiV, pages
  <1>16. ASSUME NEW p \in Procs, NEW j \in JobIds, PickJob(p, j)
       PROVE  UNCHANGED <<doc, chunks, request>>
    BY <1>16 DEF PickJob, asked, index, wikiV, pages
  <1>17. ASSUME NEW p \in Procs, ClaimJob(p) \/ LoadDocuments(p) \/ WritePages(p) \/
    Retract(p) \/ Snapshot(p) \/ WriteIndexPage(p) \/ FinishJobs(p) \/
    EnqueueFinalize(p) \/ JobFails(p) \/ Restart(p)
       PROVE  UNCHANGED <<doc, chunks, request>>
    BY <1>17 DEF ClaimJob, asked, index, wikiV, pages, LoadDocuments, WritePages,
      Retract, Snapshot, WriteIndexPage, FinishJobs, EnqueueFinalize, JobFails,
      Restart
  <1>18. ASSUME NEW p \in Procs, NEW js \in SUBSET JobIds, TakeSiblings(p, js)
       PROVE  UNCHANGED <<doc, chunks, request>>
    BY <1>18 DEF TakeSiblings, asked, index, wikiV, pages
  <1>19. ASSUME NEW j \in JobIds, JobLapses(j)
       PROVE  UNCHANGED <<doc, chunks, request>>
    BY <1>19 DEF JobLapses, asked, index, wikiV, pages
  <1>20. ASSUME UNCHANGED <<doc, chunks, request>> PROVE DocsTyped'
    BY <1>20 DEF Typed, DocsTyped
  <1>21. QED
    BY <1>1, <1>2, <1>3, <1>4, <1>5, <1>6, <1>7, <1>8, <1>9, <1>10, <1>11, <1>12,
      <1>13, <1>14, <1>15, <1>16, <1>17, <1>18, <1>19, <1>20 DEF Next, Work, WikiStep

\* And of the processes and their threads.
LEMMA PoolsTypedStep ==
    ASSUME KBAssumption, Typed, Next
    PROVE  PoolsTyped'
  <1>1. ASSUME NEW t \in Threads, NEW d \in Docs, ClaimDocument(t, d) PROVE
    PoolsTyped'
    BY <1>1, Bounds DEF ClaimDocument, Typed, PoolsTyped, Thread
  <1>2. ASSUME NEW t \in Threads, BeginIndex(t) PROVE PoolsTyped'
    <2>1. thread[t].doc \in Docs /\ proc[t[1]] = "up" /\ t[1] \in Procs
      BY <1>2, ThreadBusy DEF BeginIndex
    <2> QED BY <1>2, <2>1 DEF BeginIndex, index, asked, Typed, PoolsTyped, Thread, Free
  <1>3. ASSUME NEW t \in Threads, StoreChunks(t) PROVE PoolsTyped'
    <2>1. thread[t].doc \in Docs /\ proc[t[1]] = "up" /\ t[1] \in Procs
      BY <1>3, ThreadBusy DEF StoreChunks
    <2> QED BY <1>3, <2>1 DEF StoreChunks, index, asked, Typed, PoolsTyped, Thread, Free
  <1>4. ASSUME NEW t \in Threads, Complete(t) PROVE PoolsTyped'
    <2>1. thread[t].doc \in Docs /\ proc[t[1]] = "up" /\ t[1] \in Procs
      BY <1>4, ThreadBusy DEF Complete
    <2> QED BY <1>4, <2>1 DEF Complete, index, asked, Typed, PoolsTyped, Thread, Free
  <1>5. ASSUME NEW t \in Threads, EnqueueIngest(t) PROVE PoolsTyped'
    <2>1. thread[t].doc \in Docs /\ proc[t[1]] = "up" /\ t[1] \in Procs
      BY <1>5, ThreadBusy DEF EnqueueIngest
    <2> QED BY <1>5, <2>1 DEF EnqueueIngest, Leave, index, asked, Typed, PoolsTyped, Thread, Free
  <1>6. ASSUME NEW t \in Threads, Unreadable(t) PROVE PoolsTyped'
    <2>1. thread[t].doc \in Docs /\ proc[t[1]] = "up" /\ t[1] \in Procs
      BY <1>6, ThreadBusy DEF Unreadable
    <2> QED BY <1>6, <2>1 DEF Unreadable, Leave, index, asked, Typed, PoolsTyped, Thread, Free
  <1>7. ASSUME NEW t \in Threads, IndexFails(t) PROVE PoolsTyped'
    <2>1. thread[t].doc \in Docs /\ proc[t[1]] = "up" /\ t[1] \in Procs
      BY <1>7, ThreadBusy DEF IndexFails
    <2> QED BY <1>7, <2>1 DEF IndexFails, Leave, index, asked, Typed, PoolsTyped, Thread, Free
  <1>8. ASSUME NEW p \in Procs, FirstRound(p) PROVE PoolsTyped'
    BY <1>8 DEF FirstRound, index, Typed, PoolsTyped
  <1>9. ASSUME NEW p \in Procs, Crash(p) PROVE PoolsTyped'
    BY <1>9, Bounds DEF Crash, Typed, PoolsTyped, Thread, Free
  <1>10. ASSUME NEW p \in Procs, Restart(p) PROVE PoolsTyped'
    BY <1>10 DEF Restart, index, Typed, PoolsTyped
  <1>11. ASSUME NEW p \in Procs, NEW d \in Docs, Upload(p, d) \/ Purge(p, d) \/
    Delete(p, d)
       PROVE  UNCHANGED <<proc, thread, inflight>>
    BY <1>11 DEF Upload, asked, index, wikiV, pages, Purge, Delete
  <1>12. ASSUME NEW d \in Docs, Enqueue(d) \/ EnqueueRetract(d) \/ DocumentLapses(d)
       PROVE  UNCHANGED <<proc, thread, inflight>>
    BY <1>12 DEF Enqueue, asked, index, wikiV, pages, EnqueueRetract, DocumentLapses
  <1>13. ASSUME NEW p \in Procs, NEW j \in JobIds, PickJob(p, j)
       PROVE  UNCHANGED <<proc, thread, inflight>>
    BY <1>13 DEF PickJob, asked, index, wikiV, pages
  <1>14. ASSUME NEW p \in Procs, ClaimJob(p) \/ LoadDocuments(p) \/ WritePages(p) \/
    Retract(p) \/ Snapshot(p) \/ WriteIndexPage(p) \/ FinishJobs(p) \/
    EnqueueFinalize(p) \/ JobFails(p)
       PROVE  UNCHANGED <<proc, thread, inflight>>
    BY <1>14 DEF ClaimJob, asked, index, wikiV, pages, LoadDocuments, WritePages,
      Retract, Snapshot, WriteIndexPage, FinishJobs, EnqueueFinalize, JobFails
  <1>15. ASSUME NEW p \in Procs, NEW js \in SUBSET JobIds, TakeSiblings(p, js)
       PROVE  UNCHANGED <<proc, thread, inflight>>
    BY <1>15 DEF TakeSiblings, asked, index, wikiV, pages
  <1>16. ASSUME NEW j \in JobIds, JobLapses(j)
       PROVE  UNCHANGED <<proc, thread, inflight>>
    BY <1>16 DEF JobLapses, asked, index, wikiV, pages
  <1>17. ASSUME UNCHANGED <<proc, thread, inflight>> PROVE PoolsTyped'
    BY <1>17 DEF Typed, PoolsTyped
  <1>18. QED
    BY <1>1, <1>2, <1>3, <1>4, <1>5, <1>6, <1>7, <1>8, <1>9, <1>10, <1>11, <1>12,
      <1>13, <1>14, <1>15, <1>16, <1>17 DEF Next, Work, WikiStep

\* A worker has a row, and a job until it only has a finalize to enqueue.
LEMMA WorkerBusy ==
    ASSUME KBAssumption, Typed, NEW p \in Procs
    PROVE  /\ wiki[p] \in Worker
           /\ wiki[p].jobs \subseteq JobIds /\ wiki[p].docs \subseteq Docs
           /\ wiki[p].pc \notin {"idle", "done"} =>
                 /\ wiki[p].job \in JobIds /\ job[wiki[p].job] \in Job
                 /\ job[wiki[p].job].docs \subseteq Docs
  BY DEF Typed, WikiTyped, Worker, Job

\* A job's row after each kind of write.
LEMMA JobWrites ==
    ASSUME NEW r \in Job
    PROVE  /\ [r EXCEPT !.st = "running", !.attempt = r.attempt + 1, !.beat = "fresh"] \in Job
           /\ [r EXCEPT !.st = "pending", !.beat = None] \in Job
           /\ [r EXCEPT !.st = "ended"] \in Job /\ [r EXCEPT !.beat = "stale"] \in Job
           /\ NoJob \in Job
           /\ \A type \in {"ingest", "retract", "finalize"}, ds \in SUBSET Docs :
                 [type |-> type, docs |-> ds, st |-> "pending", attempt |-> 0, beat |-> None] \in Job
  <1> USE DEF Job, Beats, Open
  <1>1. [r EXCEPT !.st = "running", !.attempt = r.attempt + 1, !.beat = "fresh"] \in Job
    <2>1. r.attempt + 1 \in Nat
      OBVIOUS
    <2> QED BY <2>1
  <1>2. [r EXCEPT !.st = "pending", !.beat = None] \in Job
    OBVIOUS
  <1>3. [r EXCEPT !.st = "ended"] \in Job /\ [r EXCEPT !.beat = "stale"] \in Job
    OBVIOUS
  <1>4. NoJob \in Job
    BY DEF NoJob
  <1>5. ASSUME NEW type \in {"ingest", "retract", "finalize"}, NEW ds \in SUBSET Docs
        PROVE  [type |-> type, docs |-> ds, st |-> "pending", attempt |-> 0, beat |-> None] \in Job
    OBVIOUS
  <1> QED BY <1>1, <1>2, <1>3, <1>4, <1>5

\* New jobs, claimed ones and those that end are rows of jobs.
LEMMA JobsPut ==
    ASSUME KBAssumption, Typed
    PROVE  /\ \A type \in {"ingest", "retract", "finalize"}, ds \in SUBSET Docs :
                 FreeIds # {} => Enqueued(type, ds) \in [JobIds -> Job]
           /\ \A js \in SUBSET JobIds : Claimed(js) \in [JobIds -> Job]
           /\ \A p \in Procs, j \in JobIds : Ended(p, j) \in Job
  <1>0. job \in [JobIds -> Job]
    BY DEF Typed, WikiTyped
  <1>1. ASSUME NEW type \in {"ingest", "retract", "finalize"}, NEW ds \in SUBSET Docs, FreeIds # {}
        PROVE  Enqueued(type, ds) \in [JobIds -> Job]
    <2>1. NewId \in JobIds
      BY <1>1, NewIdFree
    <2>2. PICK r \in Job : r = [type |-> type, docs |-> ds, st |-> "pending", attempt |-> 0, beat |-> None]
      BY JobWrites, <1>0, <2>1
    <2>3. Enqueued(type, ds) = [job EXCEPT ![NewId] = r]
      BY <2>2 DEF Enqueued
    <2> QED BY <1>0, <2>1, <2>3, RowPut
  <1>2. ASSUME NEW js \in SUBSET JobIds PROVE Claimed(js) \in [JobIds -> Job]
    <2>1. ASSUME NEW j \in JobIds
          PROVE  [job[j] EXCEPT !.st = "running", !.attempt = job[j].attempt + 1, !.beat = "fresh"] \in Job
      BY <1>0, JobWrites
    <2> QED BY <1>0, <2>1 DEF Claimed
  <1>3. ASSUME NEW p \in Procs, NEW j \in JobIds PROVE Ended(p, j) \in Job
    <2>1. NoJob \in Job /\ [job[j] EXCEPT !.st = "ended"] \in Job
      BY <1>0, JobWrites
    <2> QED BY <2>1 DEF Ended
  <1> QED BY <1>1, <1>2, <1>3

\* A step of a worker that writes its row.
LEMMA WorkerPut ==
    ASSUME Typed, NEW p \in Procs, NEW r \in Worker, wiki' = [wiki EXCEPT ![p] = r],
           r.pc \notin {"idle", "done"} => r.job \in JobIds, job' \in [JobIds -> Job]
    PROVE  WikiTyped'
  BY DEF Typed, WikiTyped

\* A worker that has let go of everything.
LEMMA RestTypedRow ==
    /\ Rest \in Worker /\ [Rest EXCEPT !.pc = "done"] \in Worker
    /\ Rest.pc = "idle" /\ [Rest EXCEPT !.pc = "done"].pc = "done"
  BY DEF Rest, Worker, Busy

\* And of the jobs and their workers.
LEMMA WikiTypedStep ==
    ASSUME KBAssumption, Typed, Next
    PROVE  WikiTyped'
  <1>1. ASSUME NEW d \in Docs, EnqueueRetract(d) PROVE WikiTyped'
    <2>1. job' \in [JobIds -> Job]
      BY <1>1, JobsPut DEF EnqueueRetract
    <2> QED BY <1>1, <2>1 DEF EnqueueRetract, Typed, WikiTyped
  <1>2. ASSUME NEW t \in Threads, EnqueueIngest(t) PROVE WikiTyped'
    <2>1. job' \in [JobIds -> Job]
      BY <1>2, JobsPut, ThreadBusy DEF EnqueueIngest
    <2> QED BY <1>2, <2>1 DEF EnqueueIngest, Typed, WikiTyped
  <1>3. ASSUME NEW p \in Procs, NEW j \in JobIds, PickJob(p, j) PROVE WikiTyped'
    <2>1. wiki[p] \in Worker /\ (wiki[p].pc \notin {"idle", "done"} => wiki[p].job \in JobIds)
      BY WorkerBusy
    <2>2. PICK r \in Worker : r = [Rest EXCEPT !.pc = "picked", !.job = j, !.seen = job[j].st]
      BY <1>3, <2>1 DEF PickJob, Worker, Rest, Claimable, Open
    <2>3. wiki' = [wiki EXCEPT ![p] = r]
      BY <1>3, <2>2 DEF PickJob, Typed, WikiTyped
    <2>4. r.pc \notin {"idle", "done"} => r.job \in JobIds
      BY <1>3, <2>1, <2>2 DEF PickJob, Worker, Rest
    <2>5. job' \in [JobIds -> Job]
      BY <1>3 DEF PickJob, Typed, WikiTyped
    <2> QED BY <2>2, <2>3, <2>4, <2>5, WorkerPut
  <1>4. ASSUME NEW p \in Procs, ClaimJob(p) PROVE WikiTyped'
    <2>1. wiki[p] \in Worker /\ wiki[p].job \in JobIds /\ job[wiki[p].job].docs \subseteq Docs
      BY <1>4, WorkerBusy DEF ClaimJob
    <2>2. CASE job[wiki[p].job].st = wiki[p].seen
      <3>1. PICK r \in Worker : r = [wiki[p] EXCEPT !.pc = "claimed", !.jobs = {wiki[p].job},
                                                   !.docs = job[wiki[p].job].docs]
        BY <2>1 DEF Worker, Busy
      <3>2. wiki' = [wiki EXCEPT ![p] = r]
        BY <1>4, <2>2, <3>1 DEF ClaimJob, Typed, WikiTyped
      <3>3. job' \in [JobIds -> Job]
        BY <1>4, <2>1, <2>2, JobsPut DEF ClaimJob
      <3> QED BY <2>1, <3>1, <3>2, <3>3, WorkerPut DEF Worker
    <2>3. CASE job[wiki[p].job].st # wiki[p].seen
      BY <1>4, <2>3, WorkerPut, RestTypedRow DEF ClaimJob, Typed, WikiTyped
    <2> QED BY <2>2, <2>3
  <1>5. ASSUME NEW p \in Procs, NEW js \in SUBSET JobIds, TakeSiblings(p, js) PROVE
    WikiTyped'
    <2>1. wiki[p] \in Worker /\ wiki[p].job \in JobIds /\ wiki[p].jobs \subseteq JobIds /\ wiki[p].docs \subseteq Docs
      BY <1>5, WorkerBusy DEF TakeSiblings
    <2>2. UNION {job[j].docs : j \in js} \subseteq Docs
      BY DEF Typed, WikiTyped, Job
    <2>3. PICK r \in Worker : r = [wiki[p] EXCEPT !.pc = "batched", !.jobs = wiki[p].jobs \cup js,
                                   !.docs = wiki[p].docs \cup UNION {job[j].docs : j \in js}]
      BY <2>1, <2>2 DEF Worker, Busy
    <2>4. wiki' = [wiki EXCEPT ![p] = r]
      BY <1>5, <2>3 DEF TakeSiblings, Typed, WikiTyped
    <2>5. job' \in [JobIds -> Job]
      BY <1>5, JobsPut DEF TakeSiblings
    <2> QED BY <2>1, <2>3, <2>4, <2>5, WorkerPut DEF Worker
  <1>6. ASSUME NEW p \in Procs, LoadDocuments(p) PROVE WikiTyped'
    <2>1. wiki[p] \in Worker /\ wiki[p].job \in JobIds /\ Works(wiki[p].docs) \subseteq Docs
      BY <1>6, WorkerBusy DEF LoadDocuments, Works
    <2>2. PICK pc \in {"written", "loaded"} :
              wiki' = [wiki EXCEPT ![p] = [wiki[p] EXCEPT !.docs = Works(wiki[p].docs), !.pc = pc]]
      BY <1>6 DEF LoadDocuments, Typed, WikiTyped
    <2>3. PICK r \in Worker : r = [wiki[p] EXCEPT !.docs = Works(wiki[p].docs), !.pc = pc]
      BY <2>1 DEF Worker, Busy
    <2>4. job' \in [JobIds -> Job]
      BY <1>6 DEF LoadDocuments, Typed, WikiTyped
    <2> QED BY <2>1, <2>2, <2>3, <2>4, WorkerPut DEF Worker
  <1>7. ASSUME NEW p \in Procs, WritePages(p) PROVE WikiTyped'
    <2>1. wiki[p] \in Worker /\ (wiki[p].pc \notin {"idle", "done"} => wiki[p].job \in JobIds)
      BY WorkerBusy
    <2>2. PICK r \in Worker : r = [wiki[p] EXCEPT !.pc = "written"]
      BY <1>7, <2>1 DEF WritePages, Worker, Busy
    <2>3. wiki' = [wiki EXCEPT ![p] = r]
      BY <1>7, <2>2 DEF WritePages, Typed, WikiTyped
    <2>4. r.pc \notin {"idle", "done"} => r.job \in JobIds
      BY <1>7, <2>1, <2>2 DEF WritePages, Worker
    <2>5. job' \in [JobIds -> Job]
      BY <1>7 DEF WritePages, Typed, WikiTyped
    <2> QED BY <2>2, <2>3, <2>4, <2>5, WorkerPut
  <1>8. ASSUME NEW p \in Procs, Retract(p) PROVE WikiTyped'
    <2>1. wiki[p] \in Worker /\ (wiki[p].pc \notin {"idle", "done"} => wiki[p].job \in JobIds)
      BY WorkerBusy
    <2>2. PICK r \in Worker : r = [wiki[p] EXCEPT !.pc = "written"]
      BY <1>8, <2>1 DEF Retract, Worker, Busy
    <2>3. wiki' = [wiki EXCEPT ![p] = r]
      BY <1>8, <2>2 DEF Retract, Typed, WikiTyped
    <2>4. r.pc \notin {"idle", "done"} => r.job \in JobIds
      BY <1>8, <2>1, <2>2 DEF Retract, Worker
    <2>5. job' \in [JobIds -> Job]
      BY <1>8 DEF Retract, Typed, WikiTyped
    <2> QED BY <2>2, <2>3, <2>4, <2>5, WorkerPut
  <1>9. ASSUME NEW p \in Procs, Snapshot(p) PROVE WikiTyped'
    <2>1. wiki[p] \in Worker /\ wiki[p].job \in JobIds /\ cited \subseteq Docs
      BY <1>9, WorkerBusy DEF Snapshot, Typed, RestTyped
    <2>2. PICK r \in Worker : r = [wiki[p] EXCEPT !.pc = "snapped", !.docs = cited]
      BY <2>1 DEF Worker, Busy
    <2>3. wiki' = [wiki EXCEPT ![p] = r]
      BY <1>9, <2>2 DEF Snapshot, Typed, WikiTyped
    <2>4. job' \in [JobIds -> Job]
      BY <1>9 DEF Snapshot, Typed, WikiTyped
    <2> QED BY <2>1, <2>2, <2>3, <2>4, WorkerPut DEF Worker
  <1>10. ASSUME NEW p \in Procs, WriteIndexPage(p) PROVE WikiTyped'
    <2>1. wiki[p] \in Worker /\ (wiki[p].pc \notin {"idle", "done"} => wiki[p].job \in JobIds)
      BY WorkerBusy
    <2>2. PICK r \in Worker : r = [wiki[p] EXCEPT !.pc = "written"]
      BY <1>10, <2>1 DEF WriteIndexPage, Worker, Busy
    <2>3. wiki' = [wiki EXCEPT ![p] = r]
      BY <1>10, <2>2 DEF WriteIndexPage, Typed, WikiTyped
    <2>4. r.pc \notin {"idle", "done"} => r.job \in JobIds
      BY <1>10, <2>1, <2>2 DEF WriteIndexPage, Worker
    <2>5. job' \in [JobIds -> Job]
      BY <1>10 DEF WriteIndexPage, Typed, WikiTyped
    <2> QED BY <2>2, <2>3, <2>4, <2>5, WorkerPut
  <1>11. ASSUME NEW p \in Procs, FinishJobs(p) PROVE WikiTyped'
    <2>1. job' \in [JobIds -> Job]
      <3>1. \A j \in JobIds : Ended(p, j) \in Job
        BY JobsPut
      <3> QED BY <1>11, <3>1 DEF FinishJobs, Typed, WikiTyped
    <2>2. PICK r \in {Rest, [Rest EXCEPT !.pc = "done"]} : wiki' = [wiki EXCEPT ![p] = r]
      BY <1>11 DEF FinishJobs
    <2> QED BY <2>1, <2>2, RestTypedRow, WorkerPut
  <1>12. ASSUME NEW p \in Procs, EnqueueFinalize(p) PROVE WikiTyped'
    <2>1. job' \in [JobIds -> Job]
      BY <1>12, JobsPut DEF EnqueueFinalize, Typed, WikiTyped
    <2>2. PICK r \in {Rest, [Rest EXCEPT !.pc = "done"]} : wiki' = [wiki EXCEPT ![p] = r]
      BY <1>12 DEF EnqueueFinalize
    <2> QED BY <2>1, <2>2, RestTypedRow, WorkerPut
  <1>13. ASSUME NEW p \in Procs, JobFails(p) PROVE WikiTyped'
    <2>1. job' \in [JobIds -> Job]
      <3> DEFINE j == wiki[p].job
      <3>1. j \in JobIds /\ job[j] \in Job
        BY <1>13, WorkerBusy DEF JobFails
      <3>2. PICK r \in {Ended(p, j), job[j], [job[j] EXCEPT !.st = "pending", !.beat = None]} :
                job' = [job EXCEPT ![j] = r]
        BY <1>13, <3>1 DEF JobFails, Typed, WikiTyped
      <3>3. Ended(p, j) \in Job
        BY <3>1, JobsPut
      <3>4. [job[j] EXCEPT !.st = "pending", !.beat = None] \in Job
        BY <3>1, JobWrites
      <3> QED BY <3>1, <3>2, <3>3, <3>4, RowPut DEF Typed, WikiTyped
    <2>2. PICK r \in {Rest, [Rest EXCEPT !.pc = "done"]} : wiki' = [wiki EXCEPT ![p] = r]
      BY <1>13 DEF JobFails
    <2> QED BY <2>1, <2>2, RestTypedRow, WorkerPut
  <1>14. ASSUME NEW p \in Procs, Crash(p) PROVE WikiTyped'
    <2>1. job' \in [JobIds -> Job]
      BY <1>14 DEF Crash, Typed, WikiTyped
    <2>2. PICK r \in {Rest, [Rest EXCEPT !.pc = "done"]} : wiki' = [wiki EXCEPT ![p] = r]
      BY <1>14 DEF Crash
    <2> QED BY <2>1, <2>2, RestTypedRow, WorkerPut
  <1>15. ASSUME NEW j \in JobIds, JobLapses(j) PROVE WikiTyped'
    <2>1. [job[j] EXCEPT !.beat = "stale"] \in Job
      BY JobWrites DEF Typed, WikiTyped
    <2>2. job' = [job EXCEPT ![j] = [job[j] EXCEPT !.beat = "stale"]]
      BY <1>15 DEF JobLapses, Typed, WikiTyped
    <2> QED BY <1>15, <2>1, <2>2, RowPut DEF JobLapses, Typed, WikiTyped
  <1>16. ASSUME NEW p \in Procs, NEW d \in Docs, Upload(p, d) \/ Purge(p, d) \/
    Delete(p, d)
       PROVE  UNCHANGED <<job, wiki>>
    BY <1>16 DEF Upload, asked, index, wikiV, pages, Purge, Delete
  <1>17. ASSUME NEW d \in Docs, Enqueue(d) \/ DocumentLapses(d)
       PROVE  UNCHANGED <<job, wiki>>
    BY <1>17 DEF Enqueue, asked, index, wikiV, pages, DocumentLapses
  <1>18. ASSUME NEW t \in Threads, NEW d \in Docs, ClaimDocument(t, d)
       PROVE  UNCHANGED <<job, wiki>>
    BY <1>18 DEF ClaimDocument, asked, index, wikiV, pages
  <1>19. ASSUME NEW t \in Threads, BeginIndex(t) \/ StoreChunks(t) \/ Complete(t) \/
    Unreadable(t) \/ IndexFails(t)
       PROVE  UNCHANGED <<job, wiki>>
    BY <1>19 DEF BeginIndex, asked, index, wikiV, pages, StoreChunks, Complete,
      Unreadable, IndexFails
  <1>20. ASSUME NEW p \in Procs, FirstRound(p) \/ Restart(p)
       PROVE  UNCHANGED <<job, wiki>>
    BY <1>20 DEF FirstRound, asked, index, wikiV, pages, Restart
  <1>21. ASSUME UNCHANGED <<job, wiki>> PROVE WikiTyped'
    BY <1>21 DEF Typed, WikiTyped
  <1>22. QED
    BY <1>1, <1>2, <1>3, <1>4, <1>5, <1>6, <1>7, <1>8, <1>9, <1>10, <1>11, <1>12,
      <1>13, <1>14, <1>15, <1>16, <1>17, <1>18, <1>19, <1>20, <1>21 DEF Next, Work,
      WikiStep

\* And of the pages, what was dropped and the bounds.
LEMMA RestTypedStep ==
    ASSUME KBAssumption, Typed, Next
    PROVE  RestTyped'
  <1>1. ASSUME NEW p \in Procs, NEW d \in Docs, Purge(p, d) PROVE RestTyped'
    BY <1>1 DEF Purge, KBAssumption, wikiV, pages, Typed, RestTyped
  <1>2. ASSUME NEW p \in Procs, WritePages(p) PROVE RestTyped'
    BY <1>2, WorkerBusy DEF WritePages, asked, Typed, RestTyped
  <1>3. ASSUME NEW p \in Procs, Retract(p) PROVE RestTyped'
    BY <1>3, WorkerBusy DEF Retract, asked, Typed, RestTyped
  <1>4. ASSUME NEW p \in Procs, WriteIndexPage(p) PROVE RestTyped'
    BY <1>4, WorkerBusy DEF WriteIndexPage, asked, Typed, RestTyped
  <1>5. ASSUME NEW p \in Procs, EnqueueFinalize(p) PROVE RestTyped'
    BY <1>5 DEF EnqueueFinalize, asked, pages, Typed, RestTyped
  <1>6. ASSUME NEW p \in Procs, JobFails(p) PROVE RestTyped'
    BY <1>6 DEF JobFails, asked, pages, Typed, RestTyped
  <1>7. ASSUME NEW p \in Procs, Crash(p) PROVE RestTyped'
    <2>1. crashes' \in 0 .. MaxCrashes
      BY <1>7 DEF Crash, KBAssumption, Typed, RestTyped
    <2>2. dropped' \subseteq Docs \cup {"finalize"}
      BY <1>7 DEF Crash, Typed, RestTyped
    <2> QED BY <1>7, <2>1, <2>2 DEF Crash, pages, Typed, RestTyped
  <1>8. ASSUME NEW p \in Procs, NEW d \in Docs, Upload(p, d) \/ Delete(p, d)
       PROVE  UNCHANGED <<cited, listed, dropped, redone, crashes>>
    BY <1>8 DEF Upload, asked, index, wikiV, pages, Delete
  <1>9. ASSUME NEW d \in Docs, Enqueue(d) \/ EnqueueRetract(d) \/ DocumentLapses(d)
       PROVE  UNCHANGED <<cited, listed, dropped, redone, crashes>>
    BY <1>9 DEF Enqueue, asked, index, wikiV, pages, EnqueueRetract, DocumentLapses
  <1>10. ASSUME NEW t \in Threads, NEW d \in Docs, ClaimDocument(t, d)
       PROVE  UNCHANGED <<cited, listed, dropped, redone, crashes>>
    BY <1>10 DEF ClaimDocument, asked, index, wikiV, pages
  <1>11. ASSUME NEW t \in Threads, BeginIndex(t) \/ StoreChunks(t) \/ Complete(t) \/
    EnqueueIngest(t) \/ Unreadable(t) \/ IndexFails(t)
       PROVE  UNCHANGED <<cited, listed, dropped, redone, crashes>>
    BY <1>11 DEF BeginIndex, asked, index, wikiV, pages, StoreChunks, Complete,
      EnqueueIngest, Unreadable, IndexFails
  <1>12. ASSUME NEW p \in Procs, NEW j \in JobIds, PickJob(p, j)
       PROVE  UNCHANGED <<cited, listed, dropped, redone, crashes>>
    BY <1>12 DEF PickJob, asked, index, wikiV, pages
  <1>13. ASSUME NEW p \in Procs, ClaimJob(p) \/ LoadDocuments(p) \/ Snapshot(p) \/
    FinishJobs(p) \/ FirstRound(p) \/ Restart(p)
       PROVE  UNCHANGED <<cited, listed, dropped, redone, crashes>>
    BY <1>13 DEF ClaimJob, asked, index, wikiV, pages, LoadDocuments, Snapshot,
      FinishJobs, FirstRound, Restart
  <1>14. ASSUME NEW p \in Procs, NEW js \in SUBSET JobIds, TakeSiblings(p, js)
       PROVE  UNCHANGED <<cited, listed, dropped, redone, crashes>>
    BY <1>14 DEF TakeSiblings, asked, index, wikiV, pages
  <1>15. ASSUME NEW j \in JobIds, JobLapses(j)
       PROVE  UNCHANGED <<cited, listed, dropped, redone, crashes>>
    BY <1>15 DEF JobLapses, asked, index, wikiV, pages
  <1>16. ASSUME UNCHANGED <<cited, listed, dropped, redone, crashes>> PROVE RestTyped'
    BY <1>16 DEF Typed, RestTyped
  <1>17. QED
    BY <1>1, <1>2, <1>3, <1>4, <1>5, <1>6, <1>7, <1>8, <1>9, <1>10, <1>11, <1>12,
      <1>13, <1>14, <1>15, <1>16 DEF Next, Work, WikiStep

\* What dies with a process stays dead until it is up again.
LEMMA DownIsIdleStep ==
    ASSUME KBAssumption, Typed, Next
    PROVE  DownIsIdle'
  <1>1. ASSUME NEW t \in Threads, BeginIndex(t) PROVE DownIsIdle'
    <2>1. proc[t[1]] = "up" /\ t[1] \in Procs
      BY <1>1, ThreadBusy DEF BeginIndex
    <2> QED BY <1>1, <2>1 DEF BeginIndex, asked, wikiV, Typed, DownIsIdle, PoolsTyped
  <1>2. ASSUME NEW t \in Threads, EnqueueIngest(t) PROVE DownIsIdle'
    <2>1. proc[t[1]] = "up" /\ t[1] \in Procs
      BY <1>2, ThreadBusy DEF EnqueueIngest
    <2> QED BY <1>2, <2>1 DEF EnqueueIngest, Leave, asked, wikiV, Typed, DownIsIdle, PoolsTyped
  <1>3. ASSUME NEW t \in Threads, Unreadable(t) PROVE DownIsIdle'
    <2>1. proc[t[1]] = "up" /\ t[1] \in Procs
      BY <1>3, ThreadBusy DEF Unreadable
    <2> QED BY <1>3, <2>1 DEF Unreadable, Leave, asked, wikiV, Typed, DownIsIdle, PoolsTyped
  <1>4. ASSUME NEW t \in Threads, IndexFails(t) PROVE DownIsIdle'
    <2>1. proc[t[1]] = "up" /\ t[1] \in Procs
      BY <1>4, ThreadBusy DEF IndexFails
    <2> QED BY <1>4, <2>1 DEF IndexFails, Leave, asked, wikiV, Typed, DownIsIdle, PoolsTyped
  <1>5. ASSUME NEW p \in Procs, NEW j \in JobIds, PickJob(p, j) PROVE DownIsIdle'
    BY <1>5, RestTypedRow DEF PickJob, index, asked, Typed, DownIsIdle, WikiTyped, PoolsTyped, Busy
  <1>6. ASSUME NEW p \in Procs, ClaimJob(p) PROVE DownIsIdle'
    BY <1>6, RestTypedRow DEF ClaimJob, index, asked, Typed, DownIsIdle, WikiTyped, PoolsTyped, Busy
  <1>7. ASSUME NEW p \in Procs, NEW js \in SUBSET JobIds, TakeSiblings(p, js) PROVE
    DownIsIdle'
    BY <1>7, RestTypedRow DEF TakeSiblings, index, asked, Typed, DownIsIdle, WikiTyped, PoolsTyped, Busy
  <1>8. ASSUME NEW p \in Procs, LoadDocuments(p) PROVE DownIsIdle'
    BY <1>8, RestTypedRow DEF LoadDocuments, index, asked, Typed, DownIsIdle, WikiTyped, PoolsTyped, Busy
  <1>9. ASSUME NEW p \in Procs, WritePages(p) PROVE DownIsIdle'
    BY <1>9, RestTypedRow DEF WritePages, index, asked, Typed, DownIsIdle, WikiTyped, PoolsTyped, Busy
  <1>10. ASSUME NEW p \in Procs, Retract(p) PROVE DownIsIdle'
    BY <1>10, RestTypedRow DEF Retract, index, asked, Typed, DownIsIdle, WikiTyped, PoolsTyped, Busy
  <1>11. ASSUME NEW p \in Procs, Snapshot(p) PROVE DownIsIdle'
    BY <1>11, RestTypedRow DEF Snapshot, index, asked, Typed, DownIsIdle, WikiTyped, PoolsTyped, Busy
  <1>12. ASSUME NEW p \in Procs, WriteIndexPage(p) PROVE DownIsIdle'
    BY <1>12, RestTypedRow DEF WriteIndexPage, index, asked, Typed, DownIsIdle, WikiTyped, PoolsTyped, Busy
  <1>13. ASSUME NEW p \in Procs, FinishJobs(p) PROVE DownIsIdle'
    BY <1>13, RestTypedRow DEF FinishJobs, index, asked, Typed, DownIsIdle, WikiTyped, PoolsTyped, Busy
  <1>14. ASSUME NEW p \in Procs, EnqueueFinalize(p) PROVE DownIsIdle'
    BY <1>14, RestTypedRow DEF EnqueueFinalize, index, asked, Typed, DownIsIdle, WikiTyped, PoolsTyped, Busy
  <1>15. ASSUME NEW p \in Procs, JobFails(p) PROVE DownIsIdle'
    BY <1>15, RestTypedRow DEF JobFails, index, asked, Typed, DownIsIdle, WikiTyped, PoolsTyped, Busy
  <1>16. ASSUME NEW p \in Procs, FirstRound(p) PROVE DownIsIdle'
    BY <1>16 DEF FirstRound, index, wikiV, Typed, DownIsIdle, PoolsTyped
  <1>17. ASSUME NEW p \in Procs, Crash(p) PROVE DownIsIdle'
    BY <1>17, RestTypedRow DEF Crash, index, asked, Typed, DownIsIdle, WikiTyped, PoolsTyped, Busy
  <1>18. ASSUME NEW p \in Procs, Restart(p) PROVE DownIsIdle'
    BY <1>18 DEF Restart, index, wikiV, Typed, DownIsIdle, PoolsTyped
  <1>19. ASSUME NEW p \in Procs, NEW d \in Docs, Upload(p, d) \/ Purge(p, d) \/
    Delete(p, d)
       PROVE  UNCHANGED <<proc, wiki, inflight>>
    BY <1>19 DEF Upload, asked, index, wikiV, pages, Purge, Delete
  <1>20. ASSUME NEW d \in Docs, Enqueue(d) \/ EnqueueRetract(d) \/ DocumentLapses(d)
       PROVE  UNCHANGED <<proc, wiki, inflight>>
    BY <1>20 DEF Enqueue, asked, index, wikiV, pages, EnqueueRetract, DocumentLapses
  <1>21. ASSUME NEW t \in Threads, NEW d \in Docs, ClaimDocument(t, d)
       PROVE  UNCHANGED <<proc, wiki, inflight>>
    BY <1>21 DEF ClaimDocument, asked, index, wikiV, pages
  <1>22. ASSUME NEW t \in Threads, StoreChunks(t) \/ Complete(t)
       PROVE  UNCHANGED <<proc, wiki, inflight>>
    BY <1>22 DEF StoreChunks, asked, index, wikiV, pages, Complete
  <1>23. ASSUME NEW j \in JobIds, JobLapses(j)
       PROVE  UNCHANGED <<proc, wiki, inflight>>
    BY <1>23 DEF JobLapses, asked, index, wikiV, pages
  <1>24. ASSUME UNCHANGED <<proc, wiki, inflight>> PROVE DownIsIdle'
    BY <1>24 DEF Typed, DownIsIdle
  <1>25. QED
    BY <1>1, <1>2, <1>3, <1>4, <1>5, <1>6, <1>7, <1>8, <1>9, <1>10, <1>11, <1>12,
      <1>13, <1>14, <1>15, <1>16, <1>17, <1>18, <1>19, <1>20, <1>21, <1>22, <1>23,
      <1>24 DEF Next, Work, WikiStep

\* The row of a job that nobody reads.
LEMMA JobIdle == NoJob \in Job
  BY DEF NoJob, Job, Beats

\* The first states are typed.
LEMMA InitTyped ==
    ASSUME KBAssumption, Init
    PROVE  Typed
  <1> USE Bounds DEF Init
  <1>1. DocsTyped
    BY DEF DocsTyped, Doc, Request, NoDoc, NoRequest, Beats
  <1>2. PoolsTyped
    BY DEF PoolsTyped, Thread, Free
  <1>3. WikiTyped
    BY RestTypedRow, JobIdle DEF WikiTyped
  <1>4. RestTyped
    BY DEF RestTyped, KBAssumption
  <1>5. DownIsIdle
    BY DEF DownIsIdle, Rest
  <1> QED BY <1>1, <1>2, <1>3, <1>4, <1>5 DEF Typed

\* Every state of every behaviour is typed.
THEOREM TypedAlways == ASSUME KBAssumption PROVE Spec => []Typed
  <1>1. Typed /\ [Next]_vars => Typed'
    <2> SUFFICES ASSUME Typed, [Next]_vars PROVE Typed'
      OBVIOUS
    <2>1. CASE Next
      BY <2>1, DocsTypedStep, PoolsTypedStep, WikiTypedStep, RestTypedStep, DownIsIdleStep DEF Typed
    <2>2. CASE UNCHANGED vars
      BY <2>2 DEF vars, pages, Typed, DocsTyped, PoolsTyped, WikiTyped, RestTyped, DownIsIdle
    <2> QED BY <2>1, <2>2
  <1> QED BY <1>1, InitTyped, PTL DEF Spec

-----------------------------------------------------------------------------
(* What the steps do to the rows of jobs and to the worker.                 *)

\* The only worker goes from a step to the next, or lets go of everything.
Keeps(p, pcs) ==
    /\ wiki'[p].pc \in pcs /\ wiki'[p].job = wiki[p].job
    /\ wiki'[p].jobs = wiki[p].jobs
Rests(p) == wiki'[p].pc \in {"idle", "done"}

\* A new row takes a place that nobody holds, and leaves the other rows alone.
LEMMA NewRow ==
    ASSUME KBAssumption, Typed, FreeIds # {}
    PROVE  /\ NewId \in JobIds /\ job[NewId].st = "ended"
           /\ \A p \in Procs : NewId \notin wiki[p].jobs /\ NewId # wiki[p].job
           /\ \A type, ds : \A j \in JobIds :
                 /\ j = NewId => /\ Enqueued(type, ds)[j].type = type
                                 /\ Enqueued(type, ds)[j].docs = ds
                                 /\ Enqueued(type, ds)[j].st = "pending"
                 /\ j # NewId => Enqueued(type, ds)[j] = job[j]
  <1>1. NewId \in FreeIds /\ NewId \in JobIds
    BY NewIdFree
  <1>2. job[NewId].st = "ended" /\ \A p \in Procs : NewId \notin wiki[p].jobs /\ NewId # wiki[p].job
    BY <1>1 DEF FreeIds
  <1> QED BY <1>1, <1>2 DEF Enqueued, Typed, WikiTyped

\* A claim changes neither the type nor the documents of a job.
LEMMA ClaimedRow ==
    ASSUME Typed, NEW js \in SUBSET JobIds, NEW j \in JobIds
    PROVE  /\ Claimed(js)[j].type = job[j].type /\ Claimed(js)[j].docs = job[j].docs
           /\ j \in js => Claimed(js)[j].st = "running"
           /\ j \notin js => Claimed(js)[j] = job[j]
  BY DEF Claimed, Typed, WikiTyped, Job

\* A job that has ended is not open.
LEMMA EndedRow ==
    ASSUME Typed, NEW p \in Procs, NEW j \in JobIds
    PROVE  Ended(p, j).st = "ended" /\ Ended(p, j).st \notin Open
  <1>1. [job[j] EXCEPT !.st = "ended"].st = "ended"
    BY DEF Typed, WikiTyped, Job
  <1> QED BY <1>1 DEF Ended, NoJob, Open

\* The row of a worker after each of its steps.
LEMMA Moves ==
    ASSUME KBAssumption, Typed, NEW p \in Procs
    PROVE  /\ \A j \in JobIds : PickJob(p, j) =>
                 wiki'[p].pc = "picked" /\ wiki'[p].job = j /\ wiki'[p].seen = job[j].st
           /\ ClaimJob(p) => \/ UNCHANGED job /\ Rests(p)
                             \/ /\ job[wiki[p].job].st = wiki[p].seen
                                /\ job' = Claimed({wiki[p].job})
                                /\ wiki'[p].pc = "claimed" /\ wiki'[p].job = wiki[p].job
                                /\ wiki'[p].jobs = {wiki[p].job}
                                /\ wiki'[p].docs = job[wiki[p].job].docs
           /\ \A js \in SUBSET JobIds : TakeSiblings(p, js) =>
                 /\ wiki'[p].pc = "batched" /\ wiki'[p].job = wiki[p].job
                 /\ wiki'[p].jobs = wiki[p].jobs \cup js
           /\ LoadDocuments(p) => Keeps(p, {"written", "loaded"}) /\ wiki'[p].docs = Works(wiki[p].docs)
           /\ WritePages(p) => Keeps(p, {"written"}) /\ wiki'[p].docs = wiki[p].docs
           /\ Retract(p) => Keeps(p, {"written"}) /\ wiki'[p].docs = wiki[p].docs
           /\ WriteIndexPage(p) => Keeps(p, {"written"}) /\ wiki'[p].docs = wiki[p].docs
           /\ Snapshot(p) => Keeps(p, {"snapped"}) /\ wiki'[p].docs = cited
           /\ FinishJobs(p) \/ EnqueueFinalize(p) \/ JobFails(p) \/ Crash(p) => Rests(p)
  <1> USE WorkerBusy DEF Keeps, Rests, Worker
  <1>w. wiki \in [Procs -> Worker] /\ wiki[p] \in Worker
    BY DEF Typed, WikiTyped
  <1>1. ASSUME NEW j \in JobIds, PickJob(p, j)
        PROVE  wiki'[p].pc = "picked" /\ wiki'[p].job = j /\ wiki'[p].seen = job[j].st
    BY <1>1, <1>w DEF PickJob, Rest
  <1>2. ASSUME ClaimJob(p)
        PROVE  \/ UNCHANGED job /\ Rests(p)
               \/ /\ job[wiki[p].job].st = wiki[p].seen
                  /\ job' = Claimed({wiki[p].job})
                  /\ wiki'[p].pc = "claimed" /\ wiki'[p].job = wiki[p].job
                  /\ wiki'[p].jobs = {wiki[p].job}
                  /\ wiki'[p].docs = job[wiki[p].job].docs
    <2>1. CASE job[wiki[p].job].st = wiki[p].seen
      BY <1>2, <1>w, <2>1 DEF ClaimJob
    <2>2. CASE job[wiki[p].job].st # wiki[p].seen
      BY <1>2, <1>w, <2>2 DEF ClaimJob, Rest
    <2> QED BY <2>1, <2>2
  <1>3. ASSUME NEW js \in SUBSET JobIds, TakeSiblings(p, js)
        PROVE  /\ wiki'[p].pc = "batched" /\ wiki'[p].job = wiki[p].job
               /\ wiki'[p].jobs = wiki[p].jobs \cup js
    BY <1>3, <1>w DEF TakeSiblings
  <1>4. ASSUME LoadDocuments(p)
        PROVE  Keeps(p, {"written", "loaded"}) /\ wiki'[p].docs = Works(wiki[p].docs)
    BY <1>4, <1>w DEF LoadDocuments
  <1>5. ASSUME WritePages(p) \/ Retract(p) \/ WriteIndexPage(p)
        PROVE  Keeps(p, {"written"}) /\ wiki'[p].docs = wiki[p].docs
    BY <1>5, <1>w DEF WritePages, Retract, WriteIndexPage
  <1>6. ASSUME Snapshot(p)
        PROVE  Keeps(p, {"snapped"}) /\ wiki'[p].docs = cited
    BY <1>6, <1>w DEF Snapshot
  <1>7. ASSUME FinishJobs(p) \/ EnqueueFinalize(p) \/ JobFails(p) \/ Crash(p)
        PROVE  Rests(p)
    BY <1>7, <1>w, RestTypedRow DEF FinishJobs, EnqueueFinalize, JobFails, Crash
  <1> HIDE DEF Keeps, Rests, Worker
  <1> QED BY <1>1, <1>2, <1>3, <1>4, <1>5, <1>6, <1>7

\* No step queues a second finalize, or opens one that has ended.
LEMMA OneFinalizeStep ==
    ASSUME KBAssumption, Typed, FinalizeInv, Next
    PROVE  OneFinalize'
  <1>1. ASSUME NEW d \in Docs, EnqueueRetract(d) PROVE OneFinalize'
    <2>1. \A i \in JobIds : job'[i].type = "finalize" /\ job'[i].st \in Open =>
                             job[i].type = "finalize" /\ job[i].st \in Open
      BY <1>1, NewRow DEF EnqueueRetract
    <2> QED BY <2>1 DEF FinalizeInv, OneFinalize
  <1>2. ASSUME NEW t \in Threads, EnqueueIngest(t) PROVE OneFinalize'
    <2>1. \A i \in JobIds : job'[i].type = "finalize" /\ job'[i].st \in Open =>
                             job[i].type = "finalize" /\ job[i].st \in Open
      BY <1>2, NewRow DEF EnqueueIngest
    <2> QED BY <2>1 DEF FinalizeInv, OneFinalize
  <1>3. ASSUME NEW p \in Procs, ClaimJob(p) PROVE OneFinalize'
    <2>0. wiki[p].job \in JobIds /\ {wiki[p].job} \in SUBSET JobIds /\ wiki[p].seen \in Open
      BY <1>3, WorkerBusy DEF ClaimJob, FinalizeInv, PickedOpen
    <2>1. \A i \in JobIds : job'[i].type = "finalize" /\ job'[i].st \in Open =>
                             job[i].type = "finalize" /\ job[i].st \in Open
      <3>1. CASE UNCHANGED job
        BY <3>1
      <3>2. CASE job' # job
        <4>1. job' = Claimed({wiki[p].job}) /\ job[wiki[p].job].st \in Open
          BY <1>3, <2>0, <3>2, Moves
        <4> QED BY <2>0, <4>1, ClaimedRow
      <3> QED BY <3>1, <3>2
    <2> QED BY <2>1 DEF FinalizeInv, OneFinalize
  <1>4. ASSUME NEW p \in Procs, NEW js \in SUBSET JobIds, TakeSiblings(p, js) PROVE
    OneFinalize'
    <2>1. \A i \in JobIds : job'[i].type = "finalize" /\ job'[i].st \in Open =>
                             job[i].type = "finalize" /\ job[i].st \in Open
      BY <1>4, ClaimedRow DEF TakeSiblings, Open
    <2> QED BY <2>1 DEF FinalizeInv, OneFinalize
  <1>5. ASSUME NEW p \in Procs, FinishJobs(p) PROVE OneFinalize'
    <2>1. \A i \in JobIds : job'[i].type = "finalize" /\ job'[i].st \in Open =>
                             job[i].type = "finalize" /\ job[i].st \in Open
      BY <1>5, EndedRow DEF FinishJobs
    <2> QED BY <2>1 DEF FinalizeInv, OneFinalize
  <1>6. ASSUME NEW p \in Procs, EnqueueFinalize(p) PROVE OneFinalize'
    <2>1. CASE FinalizeOpen
      BY <1>6, <2>1 DEF EnqueueFinalize, FinalizeInv, OneFinalize
    <2>2. CASE ~FinalizeOpen
      BY <1>6, <2>2, NewRow DEF EnqueueFinalize, FinalizeOpen, FinalizeInv, OneFinalize
    <2> QED BY <2>1, <2>2
  <1>7. ASSUME NEW p \in Procs, JobFails(p) PROVE OneFinalize'
    <2> DEFINE k == wiki[p].job
    <2>0. k \in JobIds /\ job[k] \in Job
      BY <1>7, WorkerBusy DEF JobFails
    <2>1. \A i \in JobIds : i # k => job'[i] = job[i]
      BY <1>7 DEF JobFails, Typed, WikiTyped
    <2>2. CASE job'[k] = Ended(p, k) \/ job'[k] = job[k]
      <3>1. \A i \in JobIds : job'[i].st \in Open => job'[i] = job[i]
        BY <2>0, <2>1, <2>2, EndedRow
      <3> QED BY <3>1 DEF FinalizeInv, OneFinalize
    <2>3. CASE ~Refused(k) /\ job'[k].type = job[k].type
      <3>1. CASE job[k].type = "finalize"
        <4>1. \A i \in JobIds : i # k => ~(job'[i].type = "finalize" /\ job'[i].st \in Open)
          BY <2>1, <2>3, <3>1 DEF Refused
        <4> QED BY <4>1 DEF OneFinalize
      <3>2. CASE job[k].type # "finalize"
        BY <2>1, <2>3, <3>2 DEF FinalizeInv, OneFinalize
      <3> QED BY <3>1, <3>2
    <2> QED
      <3>1. [job[k] EXCEPT !.st = "pending", !.beat = None].type = job[k].type
        BY <2>0 DEF Job
      <3>2. \/ job'[k] = Ended(p, k) \/ job'[k] = job[k]
            \/ ~Refused(k) /\ job'[k] = [job[k] EXCEPT !.st = "pending", !.beat = None]
        BY <1>7, <2>0 DEF JobFails, Typed, WikiTyped
      <3> QED BY <2>2, <2>3, <3>1, <3>2
  <1>8. ASSUME NEW j \in JobIds, JobLapses(j) PROVE OneFinalize'
    <2>1. \A i \in JobIds : job'[i].type = job[i].type /\ job'[i].st = job[i].st /\ job'[i].docs = job[i].docs
      BY <1>8 DEF JobLapses, Typed, WikiTyped, Job
    <2> QED BY <2>1 DEF FinalizeInv, OneFinalize
  <1>9. ASSUME NEW p \in Procs, NEW d \in Docs, Upload(p, d) \/ Purge(p, d) \/
    Delete(p, d)
       PROVE  UNCHANGED <<job>>
    BY <1>9 DEF Upload, asked, index, wikiV, pages, Purge, Delete
  <1>10. ASSUME NEW d \in Docs, Enqueue(d) \/ DocumentLapses(d)
       PROVE  UNCHANGED <<job>>
    BY <1>10 DEF Enqueue, asked, index, wikiV, pages, DocumentLapses
  <1>11. ASSUME NEW t \in Threads, NEW d \in Docs, ClaimDocument(t, d)
       PROVE  UNCHANGED <<job>>
    BY <1>11 DEF ClaimDocument, asked, index, wikiV, pages
  <1>12. ASSUME NEW t \in Threads, BeginIndex(t) \/ StoreChunks(t) \/ Complete(t) \/
    Unreadable(t) \/ IndexFails(t)
       PROVE  UNCHANGED <<job>>
    BY <1>12 DEF BeginIndex, asked, index, wikiV, pages, StoreChunks, Complete,
      Unreadable, IndexFails
  <1>13. ASSUME NEW p \in Procs, NEW j \in JobIds, PickJob(p, j)
       PROVE  UNCHANGED <<job>>
    BY <1>13 DEF PickJob, asked, index, wikiV, pages
  <1>14. ASSUME NEW p \in Procs, LoadDocuments(p) \/ WritePages(p) \/ Retract(p) \/
    Snapshot(p) \/ WriteIndexPage(p) \/ FirstRound(p) \/ Crash(p) \/ Restart(p)
       PROVE  UNCHANGED <<job>>
    BY <1>14 DEF LoadDocuments, asked, index, wikiV, pages, WritePages, Retract,
      Snapshot, WriteIndexPage, FirstRound, Crash, Restart
  <1>15. ASSUME UNCHANGED <<job>> PROVE OneFinalize'
    BY <1>15 DEF FinalizeInv, OneFinalize
  <1>16. QED
    BY <1>1, <1>2, <1>3, <1>4, <1>5, <1>6, <1>7, <1>8, <1>9, <1>10, <1>11, <1>12,
      <1>13, <1>14, <1>15 DEF Next, Work, WikiStep

\* What a worker picks was open when it looked.
LEMMA PickedOpenStep ==
    ASSUME KBAssumption, Typed, FinalizeInv, Next
    PROVE  PickedOpen'
  <1>1. ASSUME NEW p \in Procs, NEW j \in JobIds, PickJob(p, j) PROVE PickedOpen'
    <2>1. wiki'[p].pc = "picked" /\ wiki'[p].seen = job[j].st
      BY <1>1, Moves
    <2>2. job[j].st \in Open
      BY <1>1 DEF PickJob, Claimable, Open
    <2>3. \A q \in Procs : q # p => wiki'[q] = wiki[q]
      BY <1>1 DEF PickJob, Typed, WikiTyped
    <2> QED BY <2>1, <2>2, <2>3 DEF FinalizeInv, PickedOpen
  <1>2. ASSUME NEW p \in Procs, ClaimJob(p) PROVE PickedOpen'
    <2>1. wiki'[p].pc # "picked"
      BY <1>2, Moves DEF Keeps, Rests
    <2>2. \A q \in Procs : q # p => wiki'[q] = wiki[q]
      BY <1>2 DEF ClaimJob, Typed, WikiTyped
    <2> QED BY <2>1, <2>2 DEF FinalizeInv, PickedOpen
  <1>3. ASSUME NEW p \in Procs, NEW js \in SUBSET JobIds, TakeSiblings(p, js) PROVE
    PickedOpen'
    <2>1. wiki'[p].pc # "picked"
      BY <1>3, Moves DEF Keeps, Rests
    <2>2. \A q \in Procs : q # p => wiki'[q] = wiki[q]
      BY <1>3 DEF TakeSiblings, Typed, WikiTyped
    <2> QED BY <2>1, <2>2 DEF FinalizeInv, PickedOpen
  <1>4. ASSUME NEW p \in Procs, LoadDocuments(p) PROVE PickedOpen'
    <2>1. wiki'[p].pc # "picked"
      BY <1>4, Moves DEF Keeps, Rests
    <2>2. \A q \in Procs : q # p => wiki'[q] = wiki[q]
      BY <1>4 DEF LoadDocuments, Typed, WikiTyped
    <2> QED BY <2>1, <2>2 DEF FinalizeInv, PickedOpen
  <1>5. ASSUME NEW p \in Procs, WritePages(p) PROVE PickedOpen'
    <2>1. wiki'[p].pc # "picked"
      BY <1>5, Moves DEF Keeps, Rests
    <2>2. \A q \in Procs : q # p => wiki'[q] = wiki[q]
      BY <1>5 DEF WritePages, Typed, WikiTyped
    <2> QED BY <2>1, <2>2 DEF FinalizeInv, PickedOpen
  <1>6. ASSUME NEW p \in Procs, Retract(p) PROVE PickedOpen'
    <2>1. wiki'[p].pc # "picked"
      BY <1>6, Moves DEF Keeps, Rests
    <2>2. \A q \in Procs : q # p => wiki'[q] = wiki[q]
      BY <1>6 DEF Retract, Typed, WikiTyped
    <2> QED BY <2>1, <2>2 DEF FinalizeInv, PickedOpen
  <1>7. ASSUME NEW p \in Procs, Snapshot(p) PROVE PickedOpen'
    <2>1. wiki'[p].pc # "picked"
      BY <1>7, Moves DEF Keeps, Rests
    <2>2. \A q \in Procs : q # p => wiki'[q] = wiki[q]
      BY <1>7 DEF Snapshot, Typed, WikiTyped
    <2> QED BY <2>1, <2>2 DEF FinalizeInv, PickedOpen
  <1>8. ASSUME NEW p \in Procs, WriteIndexPage(p) PROVE PickedOpen'
    <2>1. wiki'[p].pc # "picked"
      BY <1>8, Moves DEF Keeps, Rests
    <2>2. \A q \in Procs : q # p => wiki'[q] = wiki[q]
      BY <1>8 DEF WriteIndexPage, Typed, WikiTyped
    <2> QED BY <2>1, <2>2 DEF FinalizeInv, PickedOpen
  <1>9. ASSUME NEW p \in Procs, FinishJobs(p) PROVE PickedOpen'
    <2>1. wiki'[p].pc # "picked"
      BY <1>9, Moves DEF Keeps, Rests
    <2>2. \A q \in Procs : q # p => wiki'[q] = wiki[q]
      BY <1>9 DEF FinishJobs, Typed, WikiTyped
    <2> QED BY <2>1, <2>2 DEF FinalizeInv, PickedOpen
  <1>10. ASSUME NEW p \in Procs, EnqueueFinalize(p) PROVE PickedOpen'
    <2>1. wiki'[p].pc # "picked"
      BY <1>10, Moves DEF Keeps, Rests
    <2>2. \A q \in Procs : q # p => wiki'[q] = wiki[q]
      BY <1>10 DEF EnqueueFinalize, Typed, WikiTyped
    <2> QED BY <2>1, <2>2 DEF FinalizeInv, PickedOpen
  <1>11. ASSUME NEW p \in Procs, JobFails(p) PROVE PickedOpen'
    <2>1. wiki'[p].pc # "picked"
      BY <1>11, Moves DEF Keeps, Rests
    <2>2. \A q \in Procs : q # p => wiki'[q] = wiki[q]
      BY <1>11 DEF JobFails, Typed, WikiTyped
    <2> QED BY <2>1, <2>2 DEF FinalizeInv, PickedOpen
  <1>12. ASSUME NEW p \in Procs, Crash(p) PROVE PickedOpen'
    <2>1. wiki'[p].pc # "picked"
      BY <1>12, Moves DEF Keeps, Rests
    <2>2. \A q \in Procs : q # p => wiki'[q] = wiki[q]
      BY <1>12 DEF Crash, Typed, WikiTyped
    <2> QED BY <2>1, <2>2 DEF FinalizeInv, PickedOpen
  <1>13. ASSUME NEW p \in Procs, NEW d \in Docs, Upload(p, d) \/ Purge(p, d) \/
    Delete(p, d)
       PROVE  UNCHANGED <<wiki>>
    BY <1>13 DEF Upload, asked, index, wikiV, pages, Purge, Delete
  <1>14. ASSUME NEW d \in Docs, Enqueue(d) \/ EnqueueRetract(d) \/ DocumentLapses(d)
       PROVE  UNCHANGED <<wiki>>
    BY <1>14 DEF Enqueue, asked, index, wikiV, pages, EnqueueRetract, DocumentLapses
  <1>15. ASSUME NEW t \in Threads, NEW d \in Docs, ClaimDocument(t, d)
       PROVE  UNCHANGED <<wiki>>
    BY <1>15 DEF ClaimDocument, asked, index, wikiV, pages
  <1>16. ASSUME NEW t \in Threads, BeginIndex(t) \/ StoreChunks(t) \/ Complete(t) \/
    EnqueueIngest(t) \/ Unreadable(t) \/ IndexFails(t)
       PROVE  UNCHANGED <<wiki>>
    BY <1>16 DEF BeginIndex, asked, index, wikiV, pages, StoreChunks, Complete,
      EnqueueIngest, Unreadable, IndexFails
  <1>17. ASSUME NEW p \in Procs, FirstRound(p) \/ Restart(p)
       PROVE  UNCHANGED <<wiki>>
    BY <1>17 DEF FirstRound, asked, index, wikiV, pages, Restart
  <1>18. ASSUME NEW j \in JobIds, JobLapses(j)
       PROVE  UNCHANGED <<wiki>>
    BY <1>18 DEF JobLapses, asked, index, wikiV, pages
  <1>19. ASSUME UNCHANGED <<wiki>> PROVE PickedOpen'
    BY <1>19 DEF FinalizeInv, PickedOpen
  <1>20. QED
    BY <1>1, <1>2, <1>3, <1>4, <1>5, <1>6, <1>7, <1>8, <1>9, <1>10, <1>11, <1>12,
      <1>13, <1>14, <1>15, <1>16, <1>17, <1>18, <1>19 DEF Next, Work, WikiStep

\* The worker holds on to its jobs while it works.
LEMMA JobsHeldStep ==
    ASSUME KBAssumption, OneProcess, Typed, WikiInv, Next
    PROVE  JobsHeld'
  <1>1. ASSUME NEW d \in Docs, EnqueueRetract(d) PROVE JobsHeld'
    <2>1. \A i \in JobIds : i # NewId => job'[i] = job[i]
      BY <1>1, NewRow DEF EnqueueRetract
    <2>2. \A p \in Procs : NewId \notin wiki[p].jobs /\ NewId # wiki[p].job /\ wiki[p].jobs \subseteq JobIds
      BY <1>1, NewRow, WorkerBusy DEF EnqueueRetract
    <2>3. UNCHANGED wiki
      BY <1>1 DEF EnqueueRetract, index, asked
    <2>4. ASSUME NEW p \in Procs, Working(p)
          PROVE  /\ wiki[p].job \in wiki[p].jobs
                 /\ \A j \in wiki[p].jobs : job'[j].st = "running" /\ job'[j].type = job'[wiki[p].job].type
      BY <2>1, <2>2, <2>4 DEF WikiInv, JobsHeld, Working, Type
    <2> QED BY <2>3, <2>4 DEF JobsHeld, Working, Type
  <1>2. ASSUME NEW t \in Threads, EnqueueIngest(t) PROVE JobsHeld'
    <2>1. \A i \in JobIds : i # NewId => job'[i] = job[i]
      BY <1>2, NewRow DEF EnqueueIngest
    <2>2. \A p \in Procs : NewId \notin wiki[p].jobs /\ NewId # wiki[p].job /\ wiki[p].jobs \subseteq JobIds
      BY <1>2, NewRow, WorkerBusy DEF EnqueueIngest
    <2>3. UNCHANGED wiki
      BY <1>2 DEF EnqueueIngest, index, asked
    <2>4. ASSUME NEW p \in Procs, Working(p)
          PROVE  /\ wiki[p].job \in wiki[p].jobs
                 /\ \A j \in wiki[p].jobs : job'[j].st = "running" /\ job'[j].type = job'[wiki[p].job].type
      BY <2>1, <2>2, <2>4 DEF WikiInv, JobsHeld, Working, Type
    <2> QED BY <2>3, <2>4 DEF JobsHeld, Working, Type
  <1>3. ASSUME NEW p \in Procs, NEW j \in JobIds, PickJob(p, j) PROVE JobsHeld'
    <2>1. wiki'[p].pc = "picked"
      BY <1>3, Moves
    <2> QED BY <2>1 DEF OneProcess, JobsHeld, Working, Busy
  <1>4. ASSUME NEW p \in Procs, ClaimJob(p) PROVE JobsHeld'
    <2>1. wiki[p].job \in JobIds /\ {wiki[p].job} \in SUBSET JobIds
      BY <1>4, WorkerBusy DEF ClaimJob
    <2>2. CASE Rests(p)
      BY <2>2 DEF Rests, OneProcess, JobsHeld, Working, Busy
    <2>3. CASE ~Rests(p)
      <3>1. /\ job' = Claimed({wiki[p].job}) /\ wiki'[p].job = wiki[p].job
            /\ wiki'[p].jobs = {wiki[p].job}
        BY <1>4, <2>3, Moves
      <3>2. job'[wiki[p].job].st = "running"
        BY <2>1, <3>1, ClaimedRow
      <3> QED BY <3>1, <3>2 DEF OneProcess, JobsHeld, Type
    <2> QED BY <2>2, <2>3
  <1>5. ASSUME NEW p \in Procs, NEW js \in SUBSET JobIds, TakeSiblings(p, js) PROVE
    JobsHeld'
    <2>1. wiki[p].job \in JobIds /\ wiki[p].jobs \subseteq JobIds /\ Working(p)
      BY <1>5, WorkerBusy DEF TakeSiblings, Working, Busy
    <2>2. /\ wiki'[p].job = wiki[p].job /\ wiki'[p].jobs = wiki[p].jobs \cup js
      BY <1>5, Moves
    <2>3. job' = Claimed(js) /\ job[wiki[p].job].type = "ingest" /\ \A j \in js : job[j].type = "ingest"
      BY <1>5 DEF TakeSiblings, Type
    <2>4. wiki[p].job \in wiki[p].jobs /\ \A j \in wiki[p].jobs : job[j].st = "running" /\ job[j].type = "ingest"
      BY <2>1, <2>3 DEF WikiInv, JobsHeld, Type
    <2>5. \A j \in wiki[p].jobs \cup js : job'[j].st = "running" /\ job'[j].type = "ingest"
      BY <2>1, <2>3, <2>4, ClaimedRow
    <2> QED BY <2>2, <2>4, <2>5 DEF OneProcess, JobsHeld, Type
  <1>6. ASSUME NEW p \in Procs, LoadDocuments(p) PROVE JobsHeld'
    <2>1. UNCHANGED job /\ wiki'[p].job = wiki[p].job /\ wiki'[p].jobs = wiki[p].jobs
      BY <1>6, Moves DEF LoadDocuments, Keeps
    <2>2. Working(p)
      BY <1>6 DEF LoadDocuments, Working, Busy
    <2> QED BY <2>1, <2>2 DEF OneProcess, WikiInv, JobsHeld, Type
  <1>7. ASSUME NEW p \in Procs, WritePages(p) PROVE JobsHeld'
    <2>1. UNCHANGED job /\ wiki'[p].job = wiki[p].job /\ wiki'[p].jobs = wiki[p].jobs
      BY <1>7, Moves DEF WritePages, Keeps
    <2>2. Working(p)
      BY <1>7 DEF WritePages, Working, Busy
    <2> QED BY <2>1, <2>2 DEF OneProcess, WikiInv, JobsHeld, Type
  <1>8. ASSUME NEW p \in Procs, Retract(p) PROVE JobsHeld'
    <2>1. UNCHANGED job /\ wiki'[p].job = wiki[p].job /\ wiki'[p].jobs = wiki[p].jobs
      BY <1>8, Moves DEF Retract, Keeps
    <2>2. Working(p)
      BY <1>8 DEF Retract, Working, Busy
    <2> QED BY <2>1, <2>2 DEF OneProcess, WikiInv, JobsHeld, Type
  <1>9. ASSUME NEW p \in Procs, Snapshot(p) PROVE JobsHeld'
    <2>1. UNCHANGED job /\ wiki'[p].job = wiki[p].job /\ wiki'[p].jobs = wiki[p].jobs
      BY <1>9, Moves DEF Snapshot, Keeps
    <2>2. Working(p)
      BY <1>9 DEF Snapshot, Working, Busy
    <2> QED BY <2>1, <2>2 DEF OneProcess, WikiInv, JobsHeld, Type
  <1>10. ASSUME NEW p \in Procs, WriteIndexPage(p) PROVE JobsHeld'
    <2>1. UNCHANGED job /\ wiki'[p].job = wiki[p].job /\ wiki'[p].jobs = wiki[p].jobs
      BY <1>10, Moves DEF WriteIndexPage, Keeps
    <2>2. Working(p)
      BY <1>10 DEF WriteIndexPage, Working, Busy
    <2> QED BY <2>1, <2>2 DEF OneProcess, WikiInv, JobsHeld, Type
  <1>11. ASSUME NEW p \in Procs, FinishJobs(p) PROVE JobsHeld'
    <2>1. wiki'[p].pc \in {"idle", "done"}
      BY <1>11, Moves DEF Rests
    <2> QED BY <2>1 DEF OneProcess, JobsHeld, Working, Busy
  <1>12. ASSUME NEW p \in Procs, EnqueueFinalize(p) PROVE JobsHeld'
    <2>1. wiki'[p].pc \in {"idle", "done"}
      BY <1>12, Moves DEF Rests
    <2> QED BY <2>1 DEF OneProcess, JobsHeld, Working, Busy
  <1>13. ASSUME NEW p \in Procs, JobFails(p) PROVE JobsHeld'
    <2>1. wiki'[p].pc \in {"idle", "done"}
      BY <1>13, Moves DEF Rests
    <2> QED BY <2>1 DEF OneProcess, JobsHeld, Working, Busy
  <1>14. ASSUME NEW p \in Procs, Crash(p) PROVE JobsHeld'
    <2>1. wiki'[p].pc \in {"idle", "done"}
      BY <1>14, Moves DEF Rests
    <2> QED BY <2>1 DEF OneProcess, JobsHeld, Working, Busy
  <1>15. ASSUME NEW j \in JobIds, JobLapses(j) PROVE JobsHeld'
    <2>0. \A p \in Procs : wiki[p].jobs \subseteq JobIds /\ (Working(p) => wiki[p].job \in JobIds)
      BY WorkerBusy DEF Working, Busy
    <2>1. \A i \in JobIds : job'[i].type = job[i].type /\ job'[i].st = job[i].st /\ job'[i].docs = job[i].docs
      BY <1>15 DEF JobLapses, Typed, WikiTyped, Job
    <2> QED BY <1>15, <2>0, <2>1 DEF JobLapses, WikiInv, JobsHeld, Working, Type
  <1>16. ASSUME NEW p \in Procs, NEW d \in Docs, Upload(p, d) \/ Purge(p, d) \/
    Delete(p, d)
       PROVE  UNCHANGED <<job, wiki>>
    BY <1>16 DEF Upload, asked, index, wikiV, pages, Purge, Delete
  <1>17. ASSUME NEW d \in Docs, Enqueue(d) \/ DocumentLapses(d)
       PROVE  UNCHANGED <<job, wiki>>
    BY <1>17 DEF Enqueue, asked, index, wikiV, pages, DocumentLapses
  <1>18. ASSUME NEW t \in Threads, NEW d \in Docs, ClaimDocument(t, d)
       PROVE  UNCHANGED <<job, wiki>>
    BY <1>18 DEF ClaimDocument, asked, index, wikiV, pages
  <1>19. ASSUME NEW t \in Threads, BeginIndex(t) \/ StoreChunks(t) \/ Complete(t) \/
    Unreadable(t) \/ IndexFails(t)
       PROVE  UNCHANGED <<job, wiki>>
    BY <1>19 DEF BeginIndex, asked, index, wikiV, pages, StoreChunks, Complete,
      Unreadable, IndexFails
  <1>20. ASSUME NEW p \in Procs, FirstRound(p) \/ Restart(p)
       PROVE  UNCHANGED <<job, wiki>>
    BY <1>20 DEF FirstRound, asked, index, wikiV, pages, Restart
  <1>21. ASSUME UNCHANGED <<job, wiki>> PROVE JobsHeld'
    BY <1>21 DEF WikiInv, JobsHeld, Working, Type
  <1>22. QED
    BY <1>1, <1>2, <1>3, <1>4, <1>5, <1>6, <1>7, <1>8, <1>9, <1>10, <1>11, <1>12,
      <1>13, <1>14, <1>15, <1>16, <1>17, <1>18, <1>19, <1>20, <1>21 DEF Next, Work,
      WikiStep

\* A job keeps to the course of its type.
LEMMA CoursesStep ==
    ASSUME KBAssumption, OneProcess, Typed, WikiInv, Next
    PROVE  Courses'
  <1>1. ASSUME NEW d \in Docs, EnqueueRetract(d) PROVE Courses'
    <2>0. \A q \in Procs : wiki[q].pc \in {"batched", "loaded", "snapped"} => wiki[q].job \in JobIds
      BY WorkerBusy
    <2>1. \A i \in JobIds : i # NewId => job'[i] = job[i]
      BY <1>1, NewRow DEF EnqueueRetract
    <2>2. \A p \in Procs : NewId # wiki[p].job
      BY <1>1, NewRow DEF EnqueueRetract
    <2> QED BY <1>1, <2>0, <2>1, <2>2 DEF EnqueueRetract, index, asked, WikiInv, Courses, Type
  <1>2. ASSUME NEW t \in Threads, EnqueueIngest(t) PROVE Courses'
    <2>0. \A q \in Procs : wiki[q].pc \in {"batched", "loaded", "snapped"} => wiki[q].job \in JobIds
      BY WorkerBusy
    <2>1. \A i \in JobIds : i # NewId => job'[i] = job[i]
      BY <1>2, NewRow DEF EnqueueIngest
    <2>2. \A p \in Procs : NewId # wiki[p].job
      BY <1>2, NewRow DEF EnqueueIngest
    <2> QED BY <1>2, <2>0, <2>1, <2>2 DEF EnqueueIngest, index, asked, WikiInv, Courses, Type
  <1>3. ASSUME NEW p \in Procs, NEW j \in JobIds, PickJob(p, j) PROVE Courses'
    <2>1. wiki'[p].pc = "picked"
      BY <1>3, Moves
    <2> QED BY <2>1 DEF OneProcess, Courses
  <1>4. ASSUME NEW p \in Procs, ClaimJob(p) PROVE Courses'
    <2>1. wiki'[p].pc \in {"idle", "done", "claimed"}
      BY <1>4, Moves DEF Rests
    <2> QED BY <2>1 DEF OneProcess, Courses
  <1>5. ASSUME NEW p \in Procs, NEW js \in SUBSET JobIds, TakeSiblings(p, js) PROVE
    Courses'
    <2>1. wiki'[p].pc = "batched" /\ wiki'[p].job = wiki[p].job /\ job[wiki[p].job].type = "ingest"
      BY <1>5, Moves DEF TakeSiblings, Type
    <2>2. wiki[p].job \in JobIds /\ job' = Claimed(js)
      BY <1>5, WorkerBusy DEF TakeSiblings
    <2>3. job'[wiki[p].job].type = "ingest"
      BY <2>1, <2>2, ClaimedRow
    <2> QED BY <2>1, <2>3 DEF OneProcess, Courses, Type
  <1>6. ASSUME NEW p \in Procs, LoadDocuments(p) PROVE Courses'
    <2>1. UNCHANGED job /\ wiki'[p].job = wiki[p].job /\ wiki'[p].pc \in {"written", "loaded"}
      BY <1>6, Moves DEF LoadDocuments, Keeps
    <2> QED BY <1>6, <2>1 DEF LoadDocuments, OneProcess, WikiInv, Courses, Type
  <1>7. ASSUME NEW p \in Procs, WritePages(p) PROVE Courses'
    <2>1. wiki'[p].pc = "written"
      BY <1>7, Moves DEF Keeps
    <2> QED BY <2>1 DEF OneProcess, Courses
  <1>8. ASSUME NEW p \in Procs, Retract(p) PROVE Courses'
    <2>1. wiki'[p].pc = "written"
      BY <1>8, Moves DEF Keeps
    <2> QED BY <2>1 DEF OneProcess, Courses
  <1>9. ASSUME NEW p \in Procs, Snapshot(p) PROVE Courses'
    <2>1. UNCHANGED job /\ wiki'[p].job = wiki[p].job /\ wiki'[p].pc \in {"snapped"}
      BY <1>9, Moves DEF Snapshot, Keeps
    <2> QED BY <1>9, <2>1 DEF Snapshot, OneProcess, WikiInv, Courses, Type
  <1>10. ASSUME NEW p \in Procs, WriteIndexPage(p) PROVE Courses'
    <2>1. wiki'[p].pc = "written"
      BY <1>10, Moves DEF Keeps
    <2> QED BY <2>1 DEF OneProcess, Courses
  <1>11. ASSUME NEW p \in Procs, FinishJobs(p) PROVE Courses'
    <2>1. wiki'[p].pc \in {"idle", "done"}
      BY <1>11, Moves DEF Rests
    <2> QED BY <2>1 DEF OneProcess, Courses
  <1>12. ASSUME NEW p \in Procs, EnqueueFinalize(p) PROVE Courses'
    <2>1. wiki'[p].pc \in {"idle", "done"}
      BY <1>12, Moves DEF Rests
    <2> QED BY <2>1 DEF OneProcess, Courses
  <1>13. ASSUME NEW p \in Procs, JobFails(p) PROVE Courses'
    <2>1. wiki'[p].pc \in {"idle", "done"}
      BY <1>13, Moves DEF Rests
    <2> QED BY <2>1 DEF OneProcess, Courses
  <1>14. ASSUME NEW p \in Procs, Crash(p) PROVE Courses'
    <2>1. wiki'[p].pc \in {"idle", "done"}
      BY <1>14, Moves DEF Rests
    <2> QED BY <2>1 DEF OneProcess, Courses
  <1>15. ASSUME NEW j \in JobIds, JobLapses(j) PROVE Courses'
    <2>0. \A q \in Procs : wiki[q].pc \in {"batched", "loaded", "snapped"} => wiki[q].job \in JobIds
      BY WorkerBusy
    <2>1. \A i \in JobIds : job'[i].type = job[i].type /\ job'[i].st = job[i].st /\ job'[i].docs = job[i].docs
      BY <1>15 DEF JobLapses, Typed, WikiTyped, Job
    <2> QED BY <1>15, <2>0, <2>1 DEF JobLapses, WikiInv, Courses, Type
  <1>16. ASSUME NEW p \in Procs, NEW d \in Docs, Upload(p, d) \/ Purge(p, d) \/
    Delete(p, d)
       PROVE  UNCHANGED <<job, wiki>>
    BY <1>16 DEF Upload, asked, index, wikiV, pages, Purge, Delete
  <1>17. ASSUME NEW d \in Docs, Enqueue(d) \/ DocumentLapses(d)
       PROVE  UNCHANGED <<job, wiki>>
    BY <1>17 DEF Enqueue, asked, index, wikiV, pages, DocumentLapses
  <1>18. ASSUME NEW t \in Threads, NEW d \in Docs, ClaimDocument(t, d)
       PROVE  UNCHANGED <<job, wiki>>
    BY <1>18 DEF ClaimDocument, asked, index, wikiV, pages
  <1>19. ASSUME NEW t \in Threads, BeginIndex(t) \/ StoreChunks(t) \/ Complete(t) \/
    Unreadable(t) \/ IndexFails(t)
       PROVE  UNCHANGED <<job, wiki>>
    BY <1>19 DEF BeginIndex, asked, index, wikiV, pages, StoreChunks, Complete,
      Unreadable, IndexFails
  <1>20. ASSUME NEW p \in Procs, FirstRound(p) \/ Restart(p)
       PROVE  UNCHANGED <<job, wiki>>
    BY <1>20 DEF FirstRound, asked, index, wikiV, pages, Restart
  <1>21. ASSUME UNCHANGED <<job, wiki>> PROVE Courses'
    BY <1>21 DEF WikiInv, Courses, Type
  <1>22. QED
    BY <1>1, <1>2, <1>3, <1>4, <1>5, <1>6, <1>7, <1>8, <1>9, <1>10, <1>11, <1>12,
      <1>13, <1>14, <1>15, <1>16, <1>17, <1>18, <1>19, <1>20, <1>21 DEF Next, Work,
      WikiStep

-----------------------------------------------------------------------------
(* Deleted documents.                                                       *)

\* A retraction that is still to come for a document, in one row.
OwedBy(j, d) == job[j].type = "retract" /\ job[j].st \in Open /\ d \in job[j].docs

\* No retraction of the document is about to end.
NotEnding(d) == \A p \in Procs :
    wiki[p].pc = "written" /\ Type(p) = "retract" => d \notin wiki[p].docs

\* A retraction stays until it is done.
LEMMA OwedKept ==
    ASSUME KBAssumption, OneProcess, Typed, WikiInv, RetractsAll, NEW c \in Docs, NotEnding(c),
           NEW k \in JobIds, OwedBy(k, c), Next
    PROVE  OwedBy(k, c)'
  <1>1. ASSUME NEW d \in Docs, EnqueueRetract(d) PROVE OwedBy(k, c)'
    <2>1. job'[k].type = job[k].type /\ job'[k].docs = job[k].docs /\ job'[k].st \in Open
      <3>1. k # NewId
        BY <1>1, NewRow DEF EnqueueRetract, OwedBy, Open
      <3> QED BY <1>1, <3>1, NewRow DEF EnqueueRetract, OwedBy
    <2> QED BY <2>1 DEF OwedBy
  <1>2. ASSUME NEW t \in Threads, EnqueueIngest(t) PROVE OwedBy(k, c)'
    <2>1. job'[k].type = job[k].type /\ job'[k].docs = job[k].docs /\ job'[k].st \in Open
      <3>1. k # NewId
        BY <1>2, NewRow DEF EnqueueIngest, OwedBy, Open
      <3> QED BY <1>2, <3>1, NewRow DEF EnqueueIngest, OwedBy
    <2> QED BY <2>1 DEF OwedBy
  <1>3. ASSUME NEW p \in Procs, ClaimJob(p) PROVE OwedBy(k, c)'
    <2>1. job'[k].type = job[k].type /\ job'[k].docs = job[k].docs /\ job'[k].st \in Open
      <3>1. CASE UNCHANGED job
        BY <3>1 DEF OwedBy
      <3>2. CASE job' # job
        <4>1. wiki[p].job \in JobIds
          BY <1>3, WorkerBusy DEF ClaimJob
        <4>2. job' = Claimed({wiki[p].job})
          BY <1>3, <3>2, Moves
        <4> QED BY <4>1, <4>2, ClaimedRow DEF OwedBy, Open
      <3> QED BY <3>1, <3>2
    <2> QED BY <2>1 DEF OwedBy
  <1>4. ASSUME NEW p \in Procs, NEW js \in SUBSET JobIds, TakeSiblings(p, js) PROVE
    OwedBy(k, c)'
    <2>1. job'[k].type = job[k].type /\ job'[k].docs = job[k].docs /\ job'[k].st \in Open
      BY <1>4, ClaimedRow DEF TakeSiblings, OwedBy, Open
    <2> QED BY <2>1 DEF OwedBy
  <1>5. ASSUME NEW p \in Procs, FinishJobs(p) PROVE OwedBy(k, c)'
    <2>1. job'[k].type = job[k].type /\ job'[k].docs = job[k].docs /\ job'[k].st \in Open
      <3>1. wiki[p].pc = "written" /\ wiki[p].jobs \subseteq JobIds /\ Working(p)
        BY <1>5, WorkerBusy DEF FinishJobs, Working, Busy
      <3>2. k \notin wiki[p].jobs
        <4>1. \A i \in wiki[p].jobs : job[i].type = Type(p)
          BY <3>1 DEF WikiInv, JobsHeld
        <4>2. CASE Type(p) = "retract"
          <5>1. wiki[p].jobs = {wiki[p].job} /\ job[wiki[p].job].docs = wiki[p].docs
            BY <3>1, <4>2 DEF RetractsAll
          <5> QED BY <3>1, <4>2, <5>1 DEF OwedBy, NotEnding
        <4>3. CASE Type(p) # "retract"
          BY <4>1, <4>3 DEF OwedBy
        <4> QED BY <4>2, <4>3
      <3> QED BY <1>5, <3>2 DEF FinishJobs, OwedBy
    <2> QED BY <2>1 DEF OwedBy
  <1>6. ASSUME NEW p \in Procs, EnqueueFinalize(p) PROVE OwedBy(k, c)'
    <2>1. job'[k].type = job[k].type /\ job'[k].docs = job[k].docs /\ job'[k].st \in Open
      <3>1. CASE FinalizeOpen
        BY <1>6, <3>1 DEF EnqueueFinalize, OwedBy
      <3>2. CASE ~FinalizeOpen
        <4>1. FreeIds # {} /\ job' = Enqueued("finalize", {})
          BY <1>6, <3>2 DEF EnqueueFinalize
        <4>2. k # NewId
          BY <4>1, NewRow DEF OwedBy, Open
        <4> QED BY <4>1, <4>2, NewRow DEF OwedBy
      <3> QED BY <3>1, <3>2
    <2> QED BY <2>1 DEF OwedBy
  <1>7. ASSUME NEW p \in Procs, JobFails(p) PROVE OwedBy(k, c)'
    <2>1. job'[k].type = job[k].type /\ job'[k].docs = job[k].docs /\ job'[k].st \in Open
      <3>1. Type(p) # "retract"
        BY <1>7 DEF JobFails, WikiInv, Courses
      <3>2. k # wiki[p].job
        BY <3>1 DEF OwedBy, Type
      <3> QED BY <1>7, <3>2 DEF JobFails, OwedBy, Typed, WikiTyped
    <2> QED BY <2>1 DEF OwedBy
  <1>8. ASSUME NEW j \in JobIds, JobLapses(j) PROVE OwedBy(k, c)'
    <2>1. job'[k].type = job[k].type /\ job'[k].docs = job[k].docs /\ job'[k].st \in Open
      BY <1>8 DEF JobLapses, OwedBy, Typed, WikiTyped, Job
    <2> QED BY <2>1 DEF OwedBy
  <1>9. ASSUME NEW p \in Procs, NEW d \in Docs, Upload(p, d) \/ Purge(p, d) \/
    Delete(p, d)
       PROVE  UNCHANGED <<job>>
    BY <1>9 DEF Upload, asked, index, wikiV, pages, Purge, Delete
  <1>10. ASSUME NEW d \in Docs, Enqueue(d) \/ DocumentLapses(d)
       PROVE  UNCHANGED <<job>>
    BY <1>10 DEF Enqueue, asked, index, wikiV, pages, DocumentLapses
  <1>11. ASSUME NEW t \in Threads, NEW d \in Docs, ClaimDocument(t, d)
       PROVE  UNCHANGED <<job>>
    BY <1>11 DEF ClaimDocument, asked, index, wikiV, pages
  <1>12. ASSUME NEW t \in Threads, BeginIndex(t) \/ StoreChunks(t) \/ Complete(t) \/
    Unreadable(t) \/ IndexFails(t)
       PROVE  UNCHANGED <<job>>
    BY <1>12 DEF BeginIndex, asked, index, wikiV, pages, StoreChunks, Complete,
      Unreadable, IndexFails
  <1>13. ASSUME NEW p \in Procs, NEW j \in JobIds, PickJob(p, j)
       PROVE  UNCHANGED <<job>>
    BY <1>13 DEF PickJob, asked, index, wikiV, pages
  <1>14. ASSUME NEW p \in Procs, LoadDocuments(p) \/ WritePages(p) \/ Retract(p) \/
    Snapshot(p) \/ WriteIndexPage(p) \/ FirstRound(p) \/ Crash(p) \/ Restart(p)
       PROVE  UNCHANGED <<job>>
    BY <1>14 DEF LoadDocuments, asked, index, wikiV, pages, WritePages, Retract,
      Snapshot, WriteIndexPage, FirstRound, Crash, Restart
  <1>15. ASSUME UNCHANGED <<job>> PROVE OwedBy(k, c)'
    BY <1>15 DEF OwedBy
  <1>16. QED
    BY <1>1, <1>2, <1>3, <1>4, <1>5, <1>6, <1>7, <1>8, <1>9, <1>10, <1>11, <1>12,
      <1>13, <1>14, <1>15 DEF Next, Work, WikiStep

\* A document is live, or its retraction is to be queued, or was dropped.
Noted(d) == doc[d].live \/ request[d].pc = "deleted" \/ d \in dropped

\* What is known of a deleted document is kept, or becomes a retraction.
LEMMA NotedKept ==
    ASSUME KBAssumption, Typed, NEW c \in Docs, Noted(c), Next
    PROVE  Accounted(c)'
  <1>1. ASSUME NEW p \in Procs, NEW d \in Docs, Upload(p, d) PROVE Accounted(c)'
    <2>1. doc[c].live => doc'[c].live \/ request'[c].pc = "deleted"
      BY <1>1 DEF Upload, Typed, DocsTyped, Doc, Request, NoDoc, wikiV
    <2>2. request[c].pc = "deleted" => doc'[c].live \/ request'[c].pc = "deleted"
      BY <1>1 DEF Upload, asked, Typed, DocsTyped, Doc, Request, NoDoc, wikiV
    <2>3. UNCHANGED dropped
      BY <1>1 DEF Upload, wikiV
    <2> QED BY <2>1, <2>2, <2>3 DEF Noted, Accounted
  <1>2. ASSUME NEW p \in Procs, NEW d \in Docs, Purge(p, d) PROVE Accounted(c)'
    <2>1. doc[c].live => doc'[c].live \/ request'[c].pc = "deleted"
      BY <1>2 DEF Purge, Typed, DocsTyped, Doc, Request, NoDoc, wikiV
    <2>2. request[c].pc = "deleted" => doc'[c].live \/ request'[c].pc = "deleted"
      BY <1>2 DEF Purge, asked, Typed, DocsTyped, Doc, Request, NoDoc, wikiV
    <2>3. UNCHANGED dropped
      BY <1>2 DEF Purge, wikiV
    <2> QED BY <2>1, <2>2, <2>3 DEF Noted, Accounted
  <1>3. ASSUME NEW p \in Procs, NEW d \in Docs, Delete(p, d) PROVE Accounted(c)'
    <2>1. doc[c].live => doc'[c].live \/ request'[c].pc = "deleted"
      BY <1>3 DEF Delete, Typed, DocsTyped, Doc, Request, NoDoc, wikiV
    <2>2. request[c].pc = "deleted" => doc'[c].live \/ request'[c].pc = "deleted"
      BY <1>3 DEF Delete, asked, Typed, DocsTyped, Doc, Request, NoDoc, wikiV
    <2>3. UNCHANGED dropped
      BY <1>3 DEF Delete, wikiV
    <2> QED BY <2>1, <2>2, <2>3 DEF Noted, Accounted
  <1>4. ASSUME NEW d \in Docs, Enqueue(d) PROVE Accounted(c)'
    <2>1. doc[c].live => doc'[c].live \/ request'[c].pc = "deleted"
      BY <1>4 DEF Enqueue, Typed, DocsTyped, Doc, Request, NoDoc, wikiV
    <2>2. request[c].pc = "deleted" => doc'[c].live \/ request'[c].pc = "deleted"
      BY <1>4 DEF Enqueue, asked, Typed, DocsTyped, Doc, Request, NoDoc, wikiV
    <2>3. UNCHANGED dropped
      BY <1>4 DEF Enqueue, wikiV
    <2> QED BY <2>1, <2>2, <2>3 DEF Noted, Accounted
  <1>5. ASSUME NEW d \in Docs, EnqueueRetract(d) PROVE Accounted(c)'
    <2>1. UNCHANGED <<doc, dropped>>
      BY <1>5 DEF EnqueueRetract, index
    <2>2. CASE c = d
      <3>0. PICK k \in JobIds : k = NewId
        BY <1>5, NewRow DEF EnqueueRetract
      <3>1. OwedBy(k, c)'
        BY <1>5, <2>2, <3>0, NewRow DEF EnqueueRetract, OwedBy, Open
      <3> QED BY <3>1 DEF OwedBy, Owed, Accounted
    <2>3. CASE c # d
      BY <1>5, <2>1, <2>3 DEF EnqueueRetract, Noted, Accounted, Typed, DocsTyped
    <2> QED BY <2>2, <2>3
  <1>6. ASSUME NEW d \in Docs, DocumentLapses(d) PROVE Accounted(c)'
    <2>1. doc[c].live => doc'[c].live \/ request'[c].pc = "deleted"
      BY <1>6 DEF DocumentLapses, Typed, DocsTyped, Doc, Request, NoDoc, wikiV
    <2>2. request[c].pc = "deleted" => doc'[c].live \/ request'[c].pc = "deleted"
      BY <1>6 DEF DocumentLapses, asked, Typed, DocsTyped, Doc, Request, NoDoc, wikiV
    <2>3. UNCHANGED dropped
      BY <1>6 DEF DocumentLapses, wikiV
    <2> QED BY <2>1, <2>2, <2>3 DEF Noted, Accounted
  <1>7. ASSUME NEW t \in Threads, NEW d \in Docs, ClaimDocument(t, d) PROVE
    Accounted(c)'
    <2>1. doc[c].live => doc'[c].live \/ request'[c].pc = "deleted"
      BY <1>7 DEF ClaimDocument, Typed, DocsTyped, Doc, Request, NoDoc, wikiV
    <2>2. request[c].pc = "deleted" => doc'[c].live \/ request'[c].pc = "deleted"
      BY <1>7 DEF ClaimDocument, asked, Typed, DocsTyped, Doc, Request, NoDoc, wikiV
    <2>3. UNCHANGED dropped
      BY <1>7 DEF ClaimDocument, wikiV
    <2> QED BY <2>1, <2>2, <2>3 DEF Noted, Accounted
  <1>8. ASSUME NEW t \in Threads, BeginIndex(t) PROVE Accounted(c)'
    <2>1. doc[c].live => doc'[c].live
      <3>1. CASE doc[thread[t].doc].attempt >= MaxAttempts
        BY <1>8, <3>1 DEF BeginIndex, Typed, DocsTyped, Doc
      <3>2. CASE ~(doc[thread[t].doc].attempt >= MaxAttempts)
        BY <1>8, <3>2 DEF BeginIndex, Typed, DocsTyped, Doc
      <3> QED BY <3>1, <3>2
    <2>2. UNCHANGED <<request, dropped>>
      BY <1>8 DEF BeginIndex, asked, wikiV
    <2> QED BY <2>1, <2>2 DEF Noted, Accounted
  <1>9. ASSUME NEW t \in Threads, Complete(t) PROVE Accounted(c)'
    <2>1. doc[c].live => doc'[c].live \/ request'[c].pc = "deleted"
      BY <1>9 DEF Complete, Typed, DocsTyped, Doc, Request, NoDoc, wikiV
    <2>2. request[c].pc = "deleted" => doc'[c].live \/ request'[c].pc = "deleted"
      BY <1>9 DEF Complete, asked, Typed, DocsTyped, Doc, Request, NoDoc, wikiV
    <2>3. UNCHANGED dropped
      BY <1>9 DEF Complete, wikiV
    <2> QED BY <2>1, <2>2, <2>3 DEF Noted, Accounted
  <1>10. ASSUME NEW t \in Threads, Unreadable(t) PROVE Accounted(c)'
    <2>1. doc[c].live => doc'[c].live \/ request'[c].pc = "deleted"
      BY <1>10 DEF Unreadable, Typed, DocsTyped, Doc, Request, NoDoc, wikiV
    <2>2. request[c].pc = "deleted" => doc'[c].live \/ request'[c].pc = "deleted"
      BY <1>10 DEF Unreadable, asked, Typed, DocsTyped, Doc, Request, NoDoc, wikiV
    <2>3. UNCHANGED dropped
      BY <1>10 DEF Unreadable, wikiV
    <2> QED BY <2>1, <2>2, <2>3 DEF Noted, Accounted
  <1>11. ASSUME NEW t \in Threads, IndexFails(t) PROVE Accounted(c)'
    <2>1. doc[c].live => doc'[c].live \/ request'[c].pc = "deleted"
      BY <1>11 DEF IndexFails, Typed, DocsTyped, Doc, Request, NoDoc, Rejected, wikiV
    <2>2. request[c].pc = "deleted" => doc'[c].live \/ request'[c].pc = "deleted"
      BY <1>11 DEF IndexFails, asked, Typed, DocsTyped, Doc, Request, NoDoc, Rejected, wikiV
    <2>3. UNCHANGED dropped
      BY <1>11 DEF IndexFails, wikiV
    <2> QED BY <2>1, <2>2, <2>3 DEF Noted, Accounted
  <1>12. ASSUME NEW p \in Procs, EnqueueFinalize(p) PROVE Accounted(c)'
    <2>1. UNCHANGED <<doc, request>> /\ (c \in dropped => c \in dropped')
      BY <1>12, Bounds DEF EnqueueFinalize, index, asked
    <2> QED BY <2>1 DEF Noted, Accounted
  <1>13. ASSUME NEW p \in Procs, JobFails(p) PROVE Accounted(c)'
    <2>1. UNCHANGED <<doc, request>> /\ (c \in dropped => c \in dropped')
      BY <1>13 DEF JobFails, index, asked
    <2> QED BY <2>1 DEF Noted, Accounted
  <1>14. ASSUME NEW p \in Procs, FirstRound(p) PROVE Accounted(c)'
    <2>1. doc[c].live => doc'[c].live
      BY <1>14 DEF FirstRound, Typed, DocsTyped, Doc
    <2>2. UNCHANGED <<request, dropped>>
      BY <1>14 DEF FirstRound, asked, wikiV
    <2> QED BY <2>1, <2>2 DEF Noted, Accounted
  <1>15. ASSUME NEW p \in Procs, Crash(p) PROVE Accounted(c)'
    <2>1. UNCHANGED doc /\ (c \in dropped => c \in dropped')
      BY <1>15 DEF Crash
    <2>2. request[c].pc = "deleted" => request'[c].pc = "deleted" \/ c \in dropped'
      BY <1>15 DEF Crash, Typed, DocsTyped
    <2> QED BY <2>1, <2>2 DEF Noted, Accounted
  <1>16. ASSUME NEW t \in Threads, StoreChunks(t) \/ EnqueueIngest(t)
       PROVE  UNCHANGED <<doc, request, dropped>>
    BY <1>16 DEF StoreChunks, asked, index, wikiV, pages, EnqueueIngest
  <1>17. ASSUME NEW p \in Procs, NEW j \in JobIds, PickJob(p, j)
       PROVE  UNCHANGED <<doc, request, dropped>>
    BY <1>17 DEF PickJob, asked, index, wikiV, pages
  <1>18. ASSUME NEW p \in Procs, ClaimJob(p) \/ LoadDocuments(p) \/ WritePages(p) \/
    Retract(p) \/ Snapshot(p) \/ WriteIndexPage(p) \/ FinishJobs(p) \/ Restart(p)
       PROVE  UNCHANGED <<doc, request, dropped>>
    BY <1>18 DEF ClaimJob, asked, index, wikiV, pages, LoadDocuments, WritePages,
      Retract, Snapshot, WriteIndexPage, FinishJobs, Restart
  <1>19. ASSUME NEW p \in Procs, NEW js \in SUBSET JobIds, TakeSiblings(p, js)
       PROVE  UNCHANGED <<doc, request, dropped>>
    BY <1>19 DEF TakeSiblings, asked, index, wikiV, pages
  <1>20. ASSUME NEW j \in JobIds, JobLapses(j)
       PROVE  UNCHANGED <<doc, request, dropped>>
    BY <1>20 DEF JobLapses, asked, index, wikiV, pages
  <1>21. ASSUME UNCHANGED <<doc, request, dropped>> PROVE Accounted(c)'
    BY <1>21 DEF Noted, Accounted
  <1>22. QED
    BY <1>1, <1>2, <1>3, <1>4, <1>5, <1>6, <1>7, <1>8, <1>9, <1>10, <1>11, <1>12,
      <1>13, <1>14, <1>15, <1>16, <1>17, <1>18, <1>19, <1>20, <1>21 DEF Next, Work,
      WikiStep

\* A document stays accounted for, unless its retraction ends.
LEMMA AccountedKept ==
    ASSUME KBAssumption, OneProcess, Typed, WikiInv, RetractsAll, Next,
           NEW d \in Docs, Accounted(d), NotEnding(d)
    PROVE  Accounted(d)'
  <1>1. CASE Noted(d)
    BY <1>1, NotedKept
  <1>2. CASE ~Noted(d)
    <2>1. PICK k \in JobIds : OwedBy(k, d)
      BY <1>2 DEF Accounted, Noted, Owed, OwedBy
    <2>2. OwedBy(k, d)'
      BY <2>1, OwedKept
    <2> QED BY <2>2 DEF Accounted, Owed, OwedBy
  <1> QED BY <1>1, <1>2

\* What a worker has loaded it had loaded before, or it is live.
LoadedLive(q) == wiki'[q].pc = "loaded" =>
    \/ wiki[q].pc = "loaded" /\ wiki'[q].docs = wiki[q].docs
    \/ \A d \in wiki'[q].docs : doc'[d].live

\* Only live documents are loaded.
LEMMA LoadedBefore ==
    ASSUME KBAssumption, OneProcess, Typed, NEW q \in Procs, Next
    PROVE  LoadedLive(q)
  <1>1. ASSUME NEW p \in Procs, NEW j \in JobIds, PickJob(p, j) PROVE LoadedLive(q)
    <2>1. wiki'[p].pc # "loaded"
      BY <1>1, Moves DEF Keeps, Rests
    <2> QED BY <2>1 DEF OneProcess, LoadedLive
  <1>2. ASSUME NEW p \in Procs, ClaimJob(p) PROVE LoadedLive(q)
    <2>1. wiki'[p].pc # "loaded"
      BY <1>2, Moves DEF Keeps, Rests
    <2> QED BY <2>1 DEF OneProcess, LoadedLive
  <1>3. ASSUME NEW p \in Procs, NEW js \in SUBSET JobIds, TakeSiblings(p, js) PROVE
    LoadedLive(q)
    <2>1. wiki'[p].pc # "loaded"
      BY <1>3, Moves DEF Keeps, Rests
    <2> QED BY <2>1 DEF OneProcess, LoadedLive
  <1>4. ASSUME NEW p \in Procs, LoadDocuments(p) PROVE LoadedLive(q)
    <2>1. wiki'[p].docs = Works(wiki[p].docs) /\ UNCHANGED doc
      BY <1>4, Moves DEF LoadDocuments, index
    <2> QED BY <2>1 DEF OneProcess, LoadedLive, Works
  <1>5. ASSUME NEW p \in Procs, WritePages(p) PROVE LoadedLive(q)
    <2>1. wiki'[p].pc # "loaded"
      BY <1>5, Moves DEF Keeps, Rests
    <2> QED BY <2>1 DEF OneProcess, LoadedLive
  <1>6. ASSUME NEW p \in Procs, Retract(p) PROVE LoadedLive(q)
    <2>1. wiki'[p].pc # "loaded"
      BY <1>6, Moves DEF Keeps, Rests
    <2> QED BY <2>1 DEF OneProcess, LoadedLive
  <1>7. ASSUME NEW p \in Procs, Snapshot(p) PROVE LoadedLive(q)
    <2>1. wiki'[p].pc # "loaded"
      BY <1>7, Moves DEF Keeps, Rests
    <2> QED BY <2>1 DEF OneProcess, LoadedLive
  <1>8. ASSUME NEW p \in Procs, WriteIndexPage(p) PROVE LoadedLive(q)
    <2>1. wiki'[p].pc # "loaded"
      BY <1>8, Moves DEF Keeps, Rests
    <2> QED BY <2>1 DEF OneProcess, LoadedLive
  <1>9. ASSUME NEW p \in Procs, FinishJobs(p) PROVE LoadedLive(q)
    <2>1. wiki'[p].pc # "loaded"
      BY <1>9, Moves DEF Keeps, Rests
    <2> QED BY <2>1 DEF OneProcess, LoadedLive
  <1>10. ASSUME NEW p \in Procs, EnqueueFinalize(p) PROVE LoadedLive(q)
    <2>1. wiki'[p].pc # "loaded"
      BY <1>10, Moves DEF Keeps, Rests
    <2> QED BY <2>1 DEF OneProcess, LoadedLive
  <1>11. ASSUME NEW p \in Procs, JobFails(p) PROVE LoadedLive(q)
    <2>1. wiki'[p].pc # "loaded"
      BY <1>11, Moves DEF Keeps, Rests
    <2> QED BY <2>1 DEF OneProcess, LoadedLive
  <1>12. ASSUME NEW p \in Procs, Crash(p) PROVE LoadedLive(q)
    <2>1. wiki'[p].pc # "loaded"
      BY <1>12, Moves DEF Keeps, Rests
    <2> QED BY <2>1 DEF OneProcess, LoadedLive
  <1>13. ASSUME NEW p \in Procs, NEW d \in Docs, Upload(p, d) \/ Purge(p, d) \/
    Delete(p, d)
       PROVE  UNCHANGED <<wiki>>
    BY <1>13 DEF Upload, asked, index, wikiV, pages, Purge, Delete
  <1>14. ASSUME NEW d \in Docs, Enqueue(d) \/ EnqueueRetract(d) \/ DocumentLapses(d)
       PROVE  UNCHANGED <<wiki>>
    BY <1>14 DEF Enqueue, asked, index, wikiV, pages, EnqueueRetract, DocumentLapses
  <1>15. ASSUME NEW t \in Threads, NEW d \in Docs, ClaimDocument(t, d)
       PROVE  UNCHANGED <<wiki>>
    BY <1>15 DEF ClaimDocument, asked, index, wikiV, pages
  <1>16. ASSUME NEW t \in Threads, BeginIndex(t) \/ StoreChunks(t) \/ Complete(t) \/
    EnqueueIngest(t) \/ Unreadable(t) \/ IndexFails(t)
       PROVE  UNCHANGED <<wiki>>
    BY <1>16 DEF BeginIndex, asked, index, wikiV, pages, StoreChunks, Complete,
      EnqueueIngest, Unreadable, IndexFails
  <1>17. ASSUME NEW p \in Procs, FirstRound(p) \/ Restart(p)
       PROVE  UNCHANGED <<wiki>>
    BY <1>17 DEF FirstRound, asked, index, wikiV, pages, Restart
  <1>18. ASSUME NEW j \in JobIds, JobLapses(j)
       PROVE  UNCHANGED <<wiki>>
    BY <1>18 DEF JobLapses, asked, index, wikiV, pages
  <1>19. ASSUME UNCHANGED <<wiki>> PROVE LoadedLive(q)
    BY <1>19 DEF LoadedLive
  <1>20. QED
    BY <1>1, <1>2, <1>3, <1>4, <1>5, <1>6, <1>7, <1>8, <1>9, <1>10, <1>11, <1>12,
      <1>13, <1>14, <1>15, <1>16, <1>17, <1>18, <1>19 DEF Next, Work, WikiStep

\* A worker writes pages of accounted documents only.
LEMMA LoadedAccountedStep ==
    ASSUME KBAssumption, OneProcess, Typed, WikiInv, ForgetInv, Next
    PROVE  LoadedAccounted'
  <1> SUFFICES ASSUME NEW q \in Procs, (wiki[q].pc = "loaded")', NEW d \in wiki'[q].docs
               PROVE  Accounted(d)'
    BY DEF LoadedAccounted
  <1>1. CASE wiki[q].pc = "loaded" /\ wiki'[q].docs = wiki[q].docs
    <2>1. d \in Docs /\ Accounted(d)
      BY <1>1, WorkerBusy DEF ForgetInv, LoadedAccounted
    <2>2. NotEnding(d)
      BY <1>1 DEF OneProcess, NotEnding
    <2> QED BY <2>1, <2>2, AccountedKept DEF ForgetInv
  <1>2. CASE doc'[d].live
    BY <1>2 DEF Accounted
  <1> QED BY <1>1, <1>2, LoadedBefore DEF LoadedLive

\* Pages are written of what was loaded.
CitedLoaded == \A d \in cited' \ cited : \E p \in Procs : wiki[p].pc = "loaded" /\ d \in wiki[p].docs

\* Only a worker that has loaded a document writes its page.
LEMMA CitedBefore ==
    ASSUME Typed, Next
    PROVE  CitedLoaded
  <1>1. ASSUME NEW p \in Procs, WritePages(p) PROVE CitedLoaded
    BY <1>1 DEF WritePages, CitedLoaded
  <1>2. ASSUME NEW p \in Procs, Retract(p) PROVE CitedLoaded
    BY <1>2 DEF Retract, CitedLoaded
  <1>3. ASSUME NEW p \in Procs, NEW d \in Docs, Upload(p, d) \/ Purge(p, d) \/
    Delete(p, d)
       PROVE  UNCHANGED <<cited>>
    BY <1>3 DEF Upload, asked, index, wikiV, pages, Purge, Delete
  <1>4. ASSUME NEW d \in Docs, Enqueue(d) \/ EnqueueRetract(d) \/ DocumentLapses(d)
       PROVE  UNCHANGED <<cited>>
    BY <1>4 DEF Enqueue, asked, index, wikiV, pages, EnqueueRetract, DocumentLapses
  <1>5. ASSUME NEW t \in Threads, NEW d \in Docs, ClaimDocument(t, d)
       PROVE  UNCHANGED <<cited>>
    BY <1>5 DEF ClaimDocument, asked, index, wikiV, pages
  <1>6. ASSUME NEW t \in Threads, BeginIndex(t) \/ StoreChunks(t) \/ Complete(t) \/
    EnqueueIngest(t) \/ Unreadable(t) \/ IndexFails(t)
       PROVE  UNCHANGED <<cited>>
    BY <1>6 DEF BeginIndex, asked, index, wikiV, pages, StoreChunks, Complete,
      EnqueueIngest, Unreadable, IndexFails
  <1>7. ASSUME NEW p \in Procs, NEW j \in JobIds, PickJob(p, j)
       PROVE  UNCHANGED <<cited>>
    BY <1>7 DEF PickJob, asked, index, wikiV, pages
  <1>8. ASSUME NEW p \in Procs, ClaimJob(p) \/ LoadDocuments(p) \/ Snapshot(p) \/
    WriteIndexPage(p) \/ FinishJobs(p) \/ EnqueueFinalize(p) \/ JobFails(p) \/
    FirstRound(p) \/ Crash(p) \/ Restart(p)
       PROVE  UNCHANGED <<cited>>
    BY <1>8 DEF ClaimJob, asked, index, wikiV, pages, LoadDocuments, Snapshot,
      WriteIndexPage, FinishJobs, EnqueueFinalize, JobFails, FirstRound, Crash,
      Restart
  <1>9. ASSUME NEW p \in Procs, NEW js \in SUBSET JobIds, TakeSiblings(p, js)
       PROVE  UNCHANGED <<cited>>
    BY <1>9 DEF TakeSiblings, asked, index, wikiV, pages
  <1>10. ASSUME NEW j \in JobIds, JobLapses(j)
       PROVE  UNCHANGED <<cited>>
    BY <1>10 DEF JobLapses, asked, index, wikiV, pages
  <1>11. ASSUME UNCHANGED <<cited>> PROVE CitedLoaded
    BY <1>11 DEF CitedLoaded
  <1>12. QED
    BY <1>1, <1>2, <1>3, <1>4, <1>5, <1>6, <1>7, <1>8, <1>9, <1>10, <1>11 DEF Next,
      Work, WikiStep

\* A deleted document is cited by no page, unless it is accounted for.
LEMMA DeletedIsForgottenStep ==
    ASSUME KBAssumption, OneProcess, Typed, WikiInv, ForgetInv, Next
    PROVE  DeletedIsForgotten'
  <1> SUFFICES ASSUME NEW d \in cited' PROVE Accounted(d)'
    BY DEF DeletedIsForgotten, Accounted
  <1>1. d \in Docs /\ Accounted(d) /\ NotEnding(d)
    <2>1. CASE d \in cited
      <3>1. d \in Docs /\ Accounted(d)
        BY <2>1 DEF Typed, RestTyped, ForgetInv, DeletedIsForgotten, Accounted
      <3>2. NotEnding(d)
        BY <2>1 DEF ForgetInv, RetractsAll, NotEnding
      <3> QED BY <3>1, <3>2
    <2>2. CASE d \notin cited
      <3>1. PICK p \in Procs : wiki[p].pc = "loaded" /\ d \in wiki[p].docs
        BY <2>2, CitedBefore DEF CitedLoaded
      <3>2. d \in Docs /\ Accounted(d)
        BY <3>1, WorkerBusy DEF ForgetInv, LoadedAccounted
      <3>3. NotEnding(d)
        BY <3>1 DEF OneProcess, NotEnding
      <3> QED BY <3>2, <3>3
    <2> QED BY <2>1, <2>2
  <1> QED BY <1>1, AccountedKept DEF ForgetInv

\* The documents of a retraction stay together, and its pages are gone at its end.
LEMMA RetractsAllStep ==
    ASSUME KBAssumption, OneProcess, Typed, WikiInv, ForgetInv, Next
    PROVE  RetractsAll'
  <1>1. ASSUME NEW d \in Docs, EnqueueRetract(d) PROVE RetractsAll'
    <2>1. \A i \in JobIds : i # NewId => job'[i] = job[i]
      BY <1>1, NewRow DEF EnqueueRetract
    <2>2. \A q \in Procs : /\ NewId # wiki[q].job
                           /\ wiki[q].pc \in {"claimed", "written"} => wiki[q].job \in JobIds
      BY <1>1, NewRow, WorkerBusy DEF EnqueueRetract
    <2>3. UNCHANGED <<wiki, cited>>
      BY <1>1 DEF EnqueueRetract, index, asked, pages
    <2>4. ASSUME NEW q \in Procs, wiki[q].pc \in {"claimed", "written"}
          PROVE  job'[wiki[q].job] = job[wiki[q].job]
      BY <2>1, <2>2, <2>4
    <2> QED BY <2>3, <2>4 DEF ForgetInv, RetractsAll, Type
  <1>2. ASSUME NEW t \in Threads, EnqueueIngest(t) PROVE RetractsAll'
    <2>1. \A i \in JobIds : i # NewId => job'[i] = job[i]
      BY <1>2, NewRow DEF EnqueueIngest
    <2>2. \A q \in Procs : /\ NewId # wiki[q].job
                           /\ wiki[q].pc \in {"claimed", "written"} => wiki[q].job \in JobIds
      BY <1>2, NewRow, WorkerBusy DEF EnqueueIngest
    <2>3. UNCHANGED <<wiki, cited>>
      BY <1>2 DEF EnqueueIngest, index, asked, pages
    <2>4. ASSUME NEW q \in Procs, wiki[q].pc \in {"claimed", "written"}
          PROVE  job'[wiki[q].job] = job[wiki[q].job]
      BY <2>1, <2>2, <2>4
    <2> QED BY <2>3, <2>4 DEF ForgetInv, RetractsAll, Type
  <1>3. ASSUME NEW p \in Procs, NEW j \in JobIds, PickJob(p, j) PROVE RetractsAll'
    <2>1. wiki'[p].pc \notin {"claimed", "written"}
      BY <1>3, Moves DEF Keeps, Rests
    <2> QED BY <2>1 DEF OneProcess, RetractsAll
  <1>4. ASSUME NEW p \in Procs, ClaimJob(p) PROVE RetractsAll'
    <2>1. wiki[p].job \in JobIds
      BY <1>4, WorkerBusy DEF ClaimJob
    <2>2. CASE Rests(p)
      BY <2>2 DEF Rests, OneProcess, RetractsAll
    <2>3. CASE ~Rests(p)
      <3>1. /\ job' = Claimed({wiki[p].job}) /\ wiki'[p].job = wiki[p].job
            /\ wiki'[p].pc = "claimed"
            /\ wiki'[p].jobs = {wiki[p].job} /\ wiki'[p].docs = job[wiki[p].job].docs
        BY <1>4, <2>3, Moves
      <3>2. job'[wiki[p].job].docs = job[wiki[p].job].docs
        <4>1. {wiki[p].job} \in SUBSET JobIds
          BY <2>1
        <4>2. Claimed({wiki[p].job})[wiki[p].job].docs = job[wiki[p].job].docs
          BY <2>1, <4>1, ClaimedRow
        <4> QED BY <3>1, <4>2
      <3> QED BY <3>1, <3>2 DEF OneProcess, RetractsAll
    <2> QED BY <2>2, <2>3
  <1>5. ASSUME NEW p \in Procs, NEW js \in SUBSET JobIds, TakeSiblings(p, js) PROVE
    RetractsAll'
    <2>1. wiki'[p].pc \notin {"claimed", "written"}
      BY <1>5, Moves DEF Keeps, Rests
    <2> QED BY <2>1 DEF OneProcess, RetractsAll
  <1>6. ASSUME NEW p \in Procs, LoadDocuments(p) PROVE RetractsAll'
    <2>1. Type(p) = "ingest"
      BY <1>6 DEF LoadDocuments, WikiInv, Courses
    <2>2. wiki'[p].job = wiki[p].job /\ UNCHANGED job
      BY <1>6, Moves DEF Keeps, LoadDocuments
    <2> QED BY <2>1, <2>2 DEF OneProcess, RetractsAll, Type
  <1>7. ASSUME NEW p \in Procs, WritePages(p) PROVE RetractsAll'
    <2>1. Type(p) = "ingest"
      BY <1>7 DEF WritePages, WikiInv, Courses
    <2>2. wiki'[p].job = wiki[p].job /\ UNCHANGED job
      BY <1>7, Moves DEF Keeps, WritePages
    <2> QED BY <2>1, <2>2 DEF OneProcess, RetractsAll, Type
  <1>8. ASSUME NEW p \in Procs, Retract(p) PROVE RetractsAll'
    <2>1. Keeps(p, {"written"}) /\ wiki'[p].docs = wiki[p].docs
      BY <1>8, Moves
    <2>2. UNCHANGED job /\ cited' = cited \ wiki[p].docs /\ wiki[p].pc = "claimed"
      BY <1>8 DEF Retract
    <2> QED BY <2>1, <2>2 DEF OneProcess, Keeps, ForgetInv, RetractsAll, Type
  <1>9. ASSUME NEW p \in Procs, Snapshot(p) PROVE RetractsAll'
    <2>1. wiki'[p].pc \notin {"claimed", "written"}
      BY <1>9, Moves DEF Keeps, Rests
    <2> QED BY <2>1 DEF OneProcess, RetractsAll
  <1>10. ASSUME NEW p \in Procs, WriteIndexPage(p) PROVE RetractsAll'
    <2>1. Type(p) = "finalize"
      BY <1>10 DEF WriteIndexPage, WikiInv, Courses
    <2>2. wiki'[p].job = wiki[p].job /\ UNCHANGED job
      BY <1>10, Moves DEF Keeps, WriteIndexPage
    <2> QED BY <2>1, <2>2 DEF OneProcess, RetractsAll, Type
  <1>11. ASSUME NEW p \in Procs, FinishJobs(p) PROVE RetractsAll'
    <2>1. wiki'[p].pc \notin {"claimed", "written"}
      BY <1>11, Moves DEF Keeps, Rests
    <2> QED BY <2>1 DEF OneProcess, RetractsAll
  <1>12. ASSUME NEW p \in Procs, EnqueueFinalize(p) PROVE RetractsAll'
    <2>1. wiki'[p].pc \notin {"claimed", "written"}
      BY <1>12, Moves DEF Keeps, Rests
    <2> QED BY <2>1 DEF OneProcess, RetractsAll
  <1>13. ASSUME NEW p \in Procs, JobFails(p) PROVE RetractsAll'
    <2>1. wiki'[p].pc \notin {"claimed", "written"}
      BY <1>13, Moves DEF Keeps, Rests
    <2> QED BY <2>1 DEF OneProcess, RetractsAll
  <1>14. ASSUME NEW p \in Procs, Crash(p) PROVE RetractsAll'
    <2>1. wiki'[p].pc \notin {"claimed", "written"}
      BY <1>14, Moves DEF Keeps, Rests
    <2> QED BY <2>1 DEF OneProcess, RetractsAll
  <1>15. ASSUME NEW j \in JobIds, JobLapses(j) PROVE RetractsAll'
    <2>0. \A q \in Procs : wiki[q].pc \in {"claimed", "written"} => wiki[q].job \in JobIds
      BY WorkerBusy
    <2>1. \A i \in JobIds : job'[i].type = job[i].type /\ job'[i].st = job[i].st /\ job'[i].docs = job[i].docs
      BY <1>15 DEF JobLapses, Typed, WikiTyped, Job
    <2>2. UNCHANGED <<wiki, cited>>
      BY <1>15 DEF JobLapses, pages
    <2> QED BY <2>0, <2>1, <2>2 DEF ForgetInv, RetractsAll, Type
  <1>16. ASSUME NEW p \in Procs, NEW d \in Docs, Upload(p, d) \/ Purge(p, d) \/
    Delete(p, d)
       PROVE  UNCHANGED <<job, wiki, cited>>
    BY <1>16 DEF Upload, asked, index, wikiV, pages, Purge, Delete
  <1>17. ASSUME NEW d \in Docs, Enqueue(d) \/ DocumentLapses(d)
       PROVE  UNCHANGED <<job, wiki, cited>>
    BY <1>17 DEF Enqueue, asked, index, wikiV, pages, DocumentLapses
  <1>18. ASSUME NEW t \in Threads, NEW d \in Docs, ClaimDocument(t, d)
       PROVE  UNCHANGED <<job, wiki, cited>>
    BY <1>18 DEF ClaimDocument, asked, index, wikiV, pages
  <1>19. ASSUME NEW t \in Threads, BeginIndex(t) \/ StoreChunks(t) \/ Complete(t) \/
    Unreadable(t) \/ IndexFails(t)
       PROVE  UNCHANGED <<job, wiki, cited>>
    BY <1>19 DEF BeginIndex, asked, index, wikiV, pages, StoreChunks, Complete,
      Unreadable, IndexFails
  <1>20. ASSUME NEW p \in Procs, FirstRound(p) \/ Restart(p)
       PROVE  UNCHANGED <<job, wiki, cited>>
    BY <1>20 DEF FirstRound, asked, index, wikiV, pages, Restart
  <1>21. ASSUME UNCHANGED <<job, wiki, cited>> PROVE RetractsAll'
    BY <1>21 DEF ForgetInv, RetractsAll, Type
  <1>22. QED
    BY <1>1, <1>2, <1>3, <1>4, <1>5, <1>6, <1>7, <1>8, <1>9, <1>10, <1>11, <1>12,
      <1>13, <1>14, <1>15, <1>16, <1>17, <1>18, <1>19, <1>20, <1>21 DEF Next, Work,
      WikiStep

-----------------------------------------------------------------------------
(* The index page.                                                          *)

\* The pages change neither between the snapshot and the index page nor before its job ends.
LEMMA SnapshotCurrentStep ==
    ASSUME KBAssumption, OneProcess, Typed, WikiInv, PageInv, Next
    PROVE  SnapshotCurrent'
  <1>1. ASSUME NEW d \in Docs, EnqueueRetract(d) PROVE SnapshotCurrent'
    <2>1. \A i \in JobIds : i # NewId => job'[i] = job[i]
      BY <1>1, NewRow DEF EnqueueRetract
    <2>2. \A q \in Procs : /\ NewId # wiki[q].job
                           /\ wiki[q].pc = "written" => wiki[q].job \in JobIds
      BY <1>1, NewRow, WorkerBusy DEF EnqueueRetract
    <2>3. UNCHANGED <<wiki, cited, listed>>
      BY <1>1 DEF EnqueueRetract, index, asked, pages
    <2> QED BY <2>1, <2>2, <2>3 DEF PageInv, SnapshotCurrent, Type
  <1>2. ASSUME NEW t \in Threads, EnqueueIngest(t) PROVE SnapshotCurrent'
    <2>1. \A i \in JobIds : i # NewId => job'[i] = job[i]
      BY <1>2, NewRow DEF EnqueueIngest
    <2>2. \A q \in Procs : /\ NewId # wiki[q].job
                           /\ wiki[q].pc = "written" => wiki[q].job \in JobIds
      BY <1>2, NewRow, WorkerBusy DEF EnqueueIngest
    <2>3. UNCHANGED <<wiki, cited, listed>>
      BY <1>2 DEF EnqueueIngest, index, asked, pages
    <2> QED BY <2>1, <2>2, <2>3 DEF PageInv, SnapshotCurrent, Type
  <1>3. ASSUME NEW p \in Procs, NEW j \in JobIds, PickJob(p, j) PROVE SnapshotCurrent'
    <2>1. wiki'[p].pc \notin {"snapped", "written"}
      BY <1>3, Moves DEF Rests
    <2> QED BY <2>1 DEF OneProcess, SnapshotCurrent
  <1>4. ASSUME NEW p \in Procs, ClaimJob(p) PROVE SnapshotCurrent'
    <2>1. wiki'[p].pc \notin {"snapped", "written"}
      BY <1>4, Moves DEF Rests
    <2> QED BY <2>1 DEF OneProcess, SnapshotCurrent
  <1>5. ASSUME NEW p \in Procs, NEW js \in SUBSET JobIds, TakeSiblings(p, js) PROVE
    SnapshotCurrent'
    <2>1. wiki'[p].pc \notin {"snapped", "written"}
      BY <1>5, Moves DEF Rests
    <2> QED BY <2>1 DEF OneProcess, SnapshotCurrent
  <1>6. ASSUME NEW p \in Procs, LoadDocuments(p) PROVE SnapshotCurrent'
    <2>1. Type(p) = "ingest"
      BY <1>6 DEF LoadDocuments, WikiInv, Courses
    <2>2. wiki'[p].job = wiki[p].job /\ UNCHANGED job /\ wiki'[p].pc # "snapped"
      BY <1>6, Moves DEF Keeps, LoadDocuments
    <2> QED BY <2>1, <2>2 DEF OneProcess, SnapshotCurrent, Type
  <1>7. ASSUME NEW p \in Procs, WritePages(p) PROVE SnapshotCurrent'
    <2>1. Type(p) = "ingest"
      BY <1>7 DEF WritePages, WikiInv, Courses
    <2>2. wiki'[p].job = wiki[p].job /\ UNCHANGED job /\ wiki'[p].pc # "snapped"
      BY <1>7, Moves DEF Keeps, WritePages
    <2> QED BY <2>1, <2>2 DEF OneProcess, SnapshotCurrent, Type
  <1>8. ASSUME NEW p \in Procs, Retract(p) PROVE SnapshotCurrent'
    <2>1. Type(p) = "retract"
      BY <1>8 DEF Retract, WikiInv, Courses
    <2>2. wiki'[p].job = wiki[p].job /\ UNCHANGED job /\ wiki'[p].pc # "snapped"
      BY <1>8, Moves DEF Keeps, Retract
    <2> QED BY <2>1, <2>2 DEF OneProcess, SnapshotCurrent, Type
  <1>9. ASSUME NEW p \in Procs, Snapshot(p) PROVE SnapshotCurrent'
    <2>1. wiki'[p].pc = "snapped" /\ wiki'[p].docs = cited /\ UNCHANGED cited
      BY <1>9, Moves DEF Keeps, Snapshot, pages
    <2> QED BY <2>1 DEF OneProcess, SnapshotCurrent
  <1>10. ASSUME NEW p \in Procs, WriteIndexPage(p) PROVE SnapshotCurrent'
    <2>1. wiki'[p].pc = "written"
      BY <1>10, Moves DEF Keeps
    <2>2. listed' = cited /\ UNCHANGED cited
      BY <1>10 DEF WriteIndexPage, PageInv, SnapshotCurrent
    <2> QED BY <2>1, <2>2 DEF OneProcess, SnapshotCurrent
  <1>11. ASSUME NEW p \in Procs, FinishJobs(p) PROVE SnapshotCurrent'
    <2>1. wiki'[p].pc \notin {"snapped", "written"}
      BY <1>11, Moves DEF Rests
    <2> QED BY <2>1 DEF OneProcess, SnapshotCurrent
  <1>12. ASSUME NEW p \in Procs, EnqueueFinalize(p) PROVE SnapshotCurrent'
    <2>1. wiki'[p].pc \notin {"snapped", "written"}
      BY <1>12, Moves DEF Rests
    <2> QED BY <2>1 DEF OneProcess, SnapshotCurrent
  <1>13. ASSUME NEW p \in Procs, JobFails(p) PROVE SnapshotCurrent'
    <2>1. wiki'[p].pc \notin {"snapped", "written"}
      BY <1>13, Moves DEF Rests
    <2> QED BY <2>1 DEF OneProcess, SnapshotCurrent
  <1>14. ASSUME NEW p \in Procs, Crash(p) PROVE SnapshotCurrent'
    <2>1. wiki'[p].pc \notin {"snapped", "written"}
      BY <1>14, Moves DEF Rests
    <2> QED BY <2>1 DEF OneProcess, SnapshotCurrent
  <1>15. ASSUME NEW j \in JobIds, JobLapses(j) PROVE SnapshotCurrent'
    <2>0. \A q \in Procs : wiki[q].pc = "written" => wiki[q].job \in JobIds
      BY WorkerBusy
    <2>1. \A i \in JobIds : job'[i].type = job[i].type /\ job'[i].st = job[i].st /\ job'[i].docs = job[i].docs
      BY <1>15 DEF JobLapses, Typed, WikiTyped, Job
    <2>2. UNCHANGED <<wiki, cited, listed>>
      BY <1>15 DEF JobLapses, pages
    <2> QED BY <2>0, <2>1, <2>2 DEF PageInv, SnapshotCurrent, Type
  <1>16. ASSUME NEW p \in Procs, NEW d \in Docs, Upload(p, d) \/ Purge(p, d) \/
    Delete(p, d)
       PROVE  UNCHANGED <<job, wiki, cited, listed>>
    BY <1>16 DEF Upload, asked, index, wikiV, pages, Purge, Delete
  <1>17. ASSUME NEW d \in Docs, Enqueue(d) \/ DocumentLapses(d)
       PROVE  UNCHANGED <<job, wiki, cited, listed>>
    BY <1>17 DEF Enqueue, asked, index, wikiV, pages, DocumentLapses
  <1>18. ASSUME NEW t \in Threads, NEW d \in Docs, ClaimDocument(t, d)
       PROVE  UNCHANGED <<job, wiki, cited, listed>>
    BY <1>18 DEF ClaimDocument, asked, index, wikiV, pages
  <1>19. ASSUME NEW t \in Threads, BeginIndex(t) \/ StoreChunks(t) \/ Complete(t) \/
    Unreadable(t) \/ IndexFails(t)
       PROVE  UNCHANGED <<job, wiki, cited, listed>>
    BY <1>19 DEF BeginIndex, asked, index, wikiV, pages, StoreChunks, Complete,
      Unreadable, IndexFails
  <1>20. ASSUME NEW p \in Procs, FirstRound(p) \/ Restart(p)
       PROVE  UNCHANGED <<job, wiki, cited, listed>>
    BY <1>20 DEF FirstRound, asked, index, wikiV, pages, Restart
  <1>21. ASSUME UNCHANGED <<job, wiki, cited, listed>> PROVE SnapshotCurrent'
    BY <1>21 DEF PageInv, SnapshotCurrent, Type
  <1>22. QED
    BY <1>1, <1>2, <1>3, <1>4, <1>5, <1>6, <1>7, <1>8, <1>9, <1>10, <1>11, <1>12,
      <1>13, <1>14, <1>15, <1>16, <1>17, <1>18, <1>19, <1>20, <1>21 DEF Next, Work,
      WikiStep

\* Somebody is going to make the index page, or was meant to.
SomeOpen == \E j \in JobIds : job[j].st \in Open
SomeDone == \E p \in Procs : wiki[p].pc = "done"
PageDue == SomeOpen \/ SomeDone \/ "finalize" \in dropped

\* The index page lists what there is, or somebody is going to make it.
LEMMA PageDueStep ==
    ASSUME KBAssumption, OneProcess, Typed, WikiInv, PageInv, Next
    PROVE  PageDue' \/ listed' = cited'
  <1>1. ASSUME NEW d \in Docs, EnqueueRetract(d) PROVE PageDue' \/ listed' = cited'
    <2>1. SomeOpen'
      <3>0. PICK k \in JobIds : k = NewId
        BY <1>1, NewRow DEF EnqueueRetract
      <3>1. job'[k].st = "pending"
        BY <1>1, <3>0, NewRow DEF EnqueueRetract
      <3> QED BY <3>1 DEF SomeOpen, Open
    <2> QED BY <2>1 DEF PageDue
  <1>2. ASSUME NEW t \in Threads, EnqueueIngest(t) PROVE PageDue' \/ listed' = cited'
    <2>1. SomeOpen'
      <3>0. PICK k \in JobIds : k = NewId
        BY <1>2, NewRow DEF EnqueueIngest
      <3>1. job'[k].st = "pending"
        BY <1>2, <3>0, NewRow DEF EnqueueIngest
      <3> QED BY <3>1 DEF SomeOpen, Open
    <2> QED BY <2>1 DEF PageDue
  <1>3. ASSUME NEW p \in Procs, NEW j \in JobIds, PickJob(p, j) PROVE PageDue' \/
    listed' = cited'
    <2>1. SomeOpen'
      BY <1>3 DEF PickJob, Claimable, SomeOpen, Open
    <2> QED BY <2>1 DEF PageDue
  <1>4. ASSUME NEW p \in Procs, ClaimJob(p) PROVE PageDue' \/ listed' = cited'
    <2>0. wiki[p].job \in JobIds
      BY <1>4, WorkerBusy DEF ClaimJob
    <2>1. CASE job[wiki[p].job].st = wiki[p].seen
      <3>1. job' = Claimed({wiki[p].job})
        BY <1>4, <2>1 DEF ClaimJob
      <3>2. job'[wiki[p].job].st = "running"
        BY <2>0, <3>1, ClaimedRow
      <3> QED BY <2>0, <3>2 DEF PageDue, SomeOpen, Open
    <2>2. CASE job[wiki[p].job].st # wiki[p].seen
      <3>1. UNCHANGED <<job, dropped, listed, cited>> /\ wiki[p].pc = "picked"
        BY <1>4, <2>2 DEF ClaimJob, pages
      <3>2. ~SomeDone
        BY <3>1 DEF OneProcess, SomeDone
      <3> QED BY <3>1, <3>2 DEF PageInv, IndexPageCurrent, PageDue, SomeOpen, SomeDone
    <2> QED BY <2>1, <2>2
  <1>5. ASSUME NEW p \in Procs, NEW js \in SUBSET JobIds, TakeSiblings(p, js) PROVE
    PageDue' \/ listed' = cited'
    <2>1. SomeOpen'
      <3>1. Working(p) /\ wiki[p].job \in JobIds
        BY <1>5, WorkerBusy DEF TakeSiblings, Working, Busy
      <3>2. job[wiki[p].job].st = "running" /\ job' = Claimed(js)
        BY <1>5, <3>1 DEF TakeSiblings, WikiInv, JobsHeld
      <3>3. job'[wiki[p].job].st = "running"
        BY <3>1, <3>2, ClaimedRow
      <3> QED BY <3>1, <3>3 DEF SomeOpen, Open
    <2> QED BY <2>1 DEF PageDue
  <1>6. ASSUME NEW p \in Procs, LoadDocuments(p) PROVE PageDue' \/ listed' = cited'
    <2>1. SomeOpen'
      <3>1. Working(p) /\ wiki[p].job \in JobIds
        BY <1>6, WorkerBusy DEF LoadDocuments, Working, Busy
      <3>2. job[wiki[p].job].st \in Open
        BY <3>1 DEF WikiInv, JobsHeld, Open
      <3>3. UNCHANGED job
        BY <1>6 DEF LoadDocuments
      <3> QED BY <3>1, <3>2, <3>3 DEF SomeOpen
    <2> QED BY <2>1 DEF PageDue
  <1>7. ASSUME NEW p \in Procs, WritePages(p) PROVE PageDue' \/ listed' = cited'
    <2>1. SomeOpen'
      <3>1. Working(p) /\ wiki[p].job \in JobIds
        BY <1>7, WorkerBusy DEF WritePages, Working, Busy
      <3>2. job[wiki[p].job].st \in Open
        BY <3>1 DEF WikiInv, JobsHeld, Open
      <3>3. UNCHANGED job
        BY <1>7 DEF WritePages
      <3> QED BY <3>1, <3>2, <3>3 DEF SomeOpen
    <2> QED BY <2>1 DEF PageDue
  <1>8. ASSUME NEW p \in Procs, Retract(p) PROVE PageDue' \/ listed' = cited'
    <2>1. SomeOpen'
      <3>1. Working(p) /\ wiki[p].job \in JobIds
        BY <1>8, WorkerBusy DEF Retract, Working, Busy
      <3>2. job[wiki[p].job].st \in Open
        BY <3>1 DEF WikiInv, JobsHeld, Open
      <3>3. UNCHANGED job
        BY <1>8 DEF Retract
      <3> QED BY <3>1, <3>2, <3>3 DEF SomeOpen
    <2> QED BY <2>1 DEF PageDue
  <1>9. ASSUME NEW p \in Procs, Snapshot(p) PROVE PageDue' \/ listed' = cited'
    <2>1. SomeOpen'
      <3>1. Working(p) /\ wiki[p].job \in JobIds
        BY <1>9, WorkerBusy DEF Snapshot, Working, Busy
      <3>2. job[wiki[p].job].st \in Open
        BY <3>1 DEF WikiInv, JobsHeld, Open
      <3>3. UNCHANGED job
        BY <1>9 DEF Snapshot
      <3> QED BY <3>1, <3>2, <3>3 DEF SomeOpen
    <2> QED BY <2>1 DEF PageDue
  <1>10. ASSUME NEW p \in Procs, WriteIndexPage(p) PROVE PageDue' \/ listed' = cited'
    <2>1. SomeOpen'
      <3>1. Working(p) /\ wiki[p].job \in JobIds
        BY <1>10, WorkerBusy DEF WriteIndexPage, Working, Busy
      <3>2. job[wiki[p].job].st \in Open
        BY <3>1 DEF WikiInv, JobsHeld, Open
      <3>3. UNCHANGED job
        BY <1>10 DEF WriteIndexPage
      <3> QED BY <3>1, <3>2, <3>3 DEF SomeOpen
    <2> QED BY <2>1 DEF PageDue
  <1>11. ASSUME NEW p \in Procs, FinishJobs(p) PROVE PageDue' \/ listed' = cited'
    <2>0. wiki[p].pc = "written" /\ UNCHANGED <<cited, listed>>
      BY <1>11 DEF FinishJobs, pages
    <2>1. CASE Type(p) = "finalize"
      BY <2>0, <2>1 DEF PageInv, SnapshotCurrent
    <2>2. CASE Type(p) # "finalize"
      <3>1. wiki'[p].pc = "done"
        BY <1>11, <2>2, RestTypedRow DEF FinishJobs, IsFollowed, Typed, WikiTyped
      <3> QED BY <3>1 DEF SomeDone, PageDue
    <2> QED BY <2>1, <2>2
  <1>12. ASSUME NEW p \in Procs, EnqueueFinalize(p) PROVE PageDue' \/ listed' = cited'
    <2>1. SomeOpen'
      <3>1. CASE FinalizeOpen
        BY <1>12, <3>1 DEF EnqueueFinalize, FinalizeOpen, SomeOpen
      <3>2. CASE ~FinalizeOpen
        <4>0. FreeIds # {} /\ job' = Enqueued("finalize", {})
          BY <1>12, <3>2 DEF EnqueueFinalize
        <4>1. PICK k \in JobIds : k = NewId
          BY <4>0, NewRow
        <4>2. job'[k].st = "pending"
          BY <4>0, <4>1, NewRow
        <4> QED BY <4>2 DEF SomeOpen, Open
      <3> QED BY <3>1, <3>2
    <2> QED BY <2>1 DEF PageDue
  <1>13. ASSUME NEW p \in Procs, JobFails(p) PROVE PageDue' \/ listed' = cited'
    <2>0. wiki[p].job \in JobIds /\ job[wiki[p].job] \in Job
      BY <1>13, WorkerBusy DEF JobFails
    <2>1. CASE job[wiki[p].job].attempt >= MaxAttempts
      BY <1>13, <2>1 DEF JobFails, PageDue
    <2>2. CASE ~(job[wiki[p].job].attempt >= MaxAttempts)
      <3>1. CASE Refused(wiki[p].job)
        <4>1. PICK i \in JobIds : job[i].st \in Open /\ i # wiki[p].job
          BY <3>1 DEF Refused
        <4>2. job'[i] = job[i]
          BY <1>13, <4>1 DEF JobFails, Typed, WikiTyped
        <4> QED BY <4>1, <4>2 DEF PageDue, SomeOpen
      <3>2. CASE ~Refused(wiki[p].job)
        <4>1. job' = [job EXCEPT ![wiki[p].job] = [job[wiki[p].job] EXCEPT !.st = "pending", !.beat = None]]
          BY <1>13, <2>2, <3>2 DEF JobFails, Typed, WikiTyped
        <4>2. job'[wiki[p].job].st = "pending"
          BY <2>0, <4>1 DEF Typed, WikiTyped, Job
        <4> QED BY <2>0, <4>2 DEF PageDue, SomeOpen, Open
      <3> QED BY <3>1, <3>2
    <2> QED BY <2>1, <2>2
  <1>14. ASSUME NEW p \in Procs, Crash(p) PROVE PageDue' \/ listed' = cited'
    <2>1. UNCHANGED <<job, cited, listed>> /\ ("finalize" \in dropped => "finalize" \in dropped')
      BY <1>14 DEF Crash, pages
    <2>2. ASSUME SomeDone PROVE "finalize" \in dropped'
      <3>1. wiki[p].pc = "done"
        BY <2>2 DEF OneProcess, SomeDone
      <3> QED BY <1>14, <3>1 DEF Crash
    <2> QED BY <2>1, <2>2 DEF PageInv, IndexPageCurrent, PageDue, SomeOpen, SomeDone
  <1>15. ASSUME NEW j \in JobIds, JobLapses(j) PROVE PageDue' \/ listed' = cited'
    <2>1. SomeOpen'
      BY <1>15 DEF JobLapses, SomeOpen, Open, Typed, WikiTyped, Job
    <2> QED BY <2>1 DEF PageDue
  <1>16. ASSUME NEW p \in Procs, NEW d \in Docs, Upload(p, d) \/ Purge(p, d) \/
    Delete(p, d)
       PROVE  UNCHANGED <<job, wiki, cited, listed, dropped>>
    BY <1>16 DEF Upload, asked, index, wikiV, pages, Purge, Delete
  <1>17. ASSUME NEW d \in Docs, Enqueue(d) \/ DocumentLapses(d)
       PROVE  UNCHANGED <<job, wiki, cited, listed, dropped>>
    BY <1>17 DEF Enqueue, asked, index, wikiV, pages, DocumentLapses
  <1>18. ASSUME NEW t \in Threads, NEW d \in Docs, ClaimDocument(t, d)
       PROVE  UNCHANGED <<job, wiki, cited, listed, dropped>>
    BY <1>18 DEF ClaimDocument, asked, index, wikiV, pages
  <1>19. ASSUME NEW t \in Threads, BeginIndex(t) \/ StoreChunks(t) \/ Complete(t) \/
    Unreadable(t) \/ IndexFails(t)
       PROVE  UNCHANGED <<job, wiki, cited, listed, dropped>>
    BY <1>19 DEF BeginIndex, asked, index, wikiV, pages, StoreChunks, Complete,
      Unreadable, IndexFails
  <1>20. ASSUME NEW p \in Procs, FirstRound(p) \/ Restart(p)
       PROVE  UNCHANGED <<job, wiki, cited, listed, dropped>>
    BY <1>20 DEF FirstRound, asked, index, wikiV, pages, Restart
  <1>21. ASSUME UNCHANGED <<job, wiki, cited, listed, dropped>> PROVE PageDue' \/ listed' = cited'
    BY <1>21 DEF PageInv, IndexPageCurrent, PageDue, SomeOpen, SomeDone
  <1>22. QED
    BY <1>1, <1>2, <1>3, <1>4, <1>5, <1>6, <1>7, <1>8, <1>9, <1>10, <1>11, <1>12,
      <1>13, <1>14, <1>15, <1>16, <1>17, <1>18, <1>19, <1>20, <1>21 DEF Next, Work,
      WikiStep

-----------------------------------------------------------------------------
(* The theorems.                                                            *)

\* The first states have nothing to account for.
LEMMA InitInvs ==
    ASSUME KBAssumption, Init
    PROVE  WikiInv /\ ForgetInv /\ PageInv
  <1> USE DEF Init, NoJob, Rest, Open, Working, Busy
  <1>1. WikiInv
    BY DEF WikiInv, JobsHeld, Courses
  <1>2. ForgetInv
    BY DEF ForgetInv, LoadedAccounted, RetractsAll, DeletedIsForgotten
  <1>3. PageInv
    BY DEF PageInv, SnapshotCurrent, IndexPageCurrent
  <1> QED BY <1>1, <1>2, <1>3

\* The invariant of one process.
OneProcessInv == Typed /\ WikiInv /\ ForgetInv /\ PageInv

\* Every state of every behaviour of one process has that invariant: what it forgets,
\* and what its index page lists, follow from it.
THEOREM OneProcessInvAlways == ASSUME KBAssumption, OneProcess PROVE Spec => []OneProcessInv
  <1>1. Init => OneProcessInv
    BY InitTyped, InitInvs DEF OneProcessInv
  <1>2. OneProcessInv /\ [Next]_vars => OneProcessInv'
    <2> SUFFICES ASSUME OneProcessInv, [Next]_vars PROVE OneProcessInv'
      OBVIOUS
    <2>0. Typed /\ WikiInv /\ ForgetInv /\ PageInv
      BY DEF OneProcessInv
    <2>1. CASE Next
      <3>1. Typed'
        BY <2>0, <2>1, DocsTypedStep, PoolsTypedStep, WikiTypedStep, RestTypedStep,
           DownIsIdleStep DEF Typed
      <3>2. WikiInv'
        BY <2>0, <2>1, JobsHeldStep, CoursesStep DEF WikiInv
      <3>3. ForgetInv'
        BY <2>0, <2>1, LoadedAccountedStep, RetractsAllStep, DeletedIsForgottenStep DEF ForgetInv
      <3>4. PageInv'
        <4>1. PageDue' \/ listed' = cited'
          BY <2>0, <2>1, PageDueStep
        <4>2. IndexPageCurrent'
          BY <4>1 DEF IndexPageCurrent, PageDue, SomeOpen, SomeDone
        <4> QED BY <2>0, <2>1, <4>2, SnapshotCurrentStep DEF PageInv
      <3> QED BY <3>1, <3>2, <3>3, <3>4 DEF OneProcessInv
    <2>2. CASE UNCHANGED vars
      <3>1. Typed'
        BY <2>0, <2>2 DEF vars, pages, Typed, DocsTyped, PoolsTyped, WikiTyped, RestTyped, DownIsIdle
      <3>2. WikiInv'
        BY <2>0, <2>2 DEF vars, WikiInv, JobsHeld, Courses, Working, Type
      <3>3. ForgetInv'
        BY <2>0, <2>2 DEF vars, pages, ForgetInv, LoadedAccounted, RetractsAll, DeletedIsForgotten,
           Accounted, Owed, Type
      <3>4. PageInv'
        BY <2>0, <2>2 DEF vars, pages, PageInv, SnapshotCurrent, IndexPageCurrent, Type
      <3> QED BY <3>1, <3>2, <3>3, <3>4 DEF OneProcessInv
    <2> QED BY <2>1, <2>2
  <1> QED BY <1>1, <1>2, PTL DEF Spec

\* Of a set without two elements, the number of elements.
LEMMA AtMostOne ==
    ASSUME NEW S, \A x, y \in S : x = y
    PROVE  Cardinality(S) <= 1
  <1>1. CASE S = {}
    BY <1>1, FS_EmptySet
  <1>2. CASE S # {}
    <2>1. PICK x : S = {x}
      BY <1>2
    <2> QED BY <2>1, FS_Singleton
  <1> QED BY <1>1, <1>2

\* The types of the queues: at no time two finalizes are open for the knowledge
\* base (the partial unique index of kb_wiki_jobs), and a process that is not up
\* works on nothing.
THEOREM KBTypeCorrect == ASSUME KBAssumption PROVE Spec => []KBTypeOK
  <1>1. ASSUME Typed, FinalizeInv PROVE KBTypeOK
    <2>0. Typed /\ OneFinalize
      BY <1>1 DEF FinalizeInv
    <2>1. Cardinality({j \in JobIds : job[j].type = "finalize" /\ job[j].st \in Open}) <= 1
      <3> DEFINE S == {j \in JobIds : job[j].type = "finalize" /\ job[j].st \in Open}
      <3>1. \A x, y \in S : x = y
        BY <2>0 DEF OneFinalize
      <3> HIDE DEF S
      <3>2. Cardinality(S) <= 1
        BY <3>1, AtMostOne
      <3> QED BY <3>2 DEF S
    <2>2. doc \in [Docs -> Doc] /\ chunks \in [Docs -> Nat] /\ request \in [Docs -> Request]
      BY <2>0 DEF Typed, DocsTyped
    <2>3. /\ proc \in [Procs -> {"up", "starting", "down"}]
          /\ thread \in [Threads -> Thread] /\ inflight \in [Procs -> SUBSET Docs]
      BY <2>0 DEF Typed, PoolsTyped
    <2>4. job \in [JobIds -> Job]
      BY <2>0 DEF Typed, WikiTyped
    <2>5. \A p \in Procs : /\ wiki[p].pc \in {"idle", "picked"} \cup Busy
                           /\ wiki[p].jobs \subseteq JobIds
                           /\ wiki[p].docs \subseteq Docs
                           /\ proc[p] # "up" => wiki[p].pc = "idle" /\ inflight[p] = {}
      BY <2>0 DEF Typed, WikiTyped, DownIsIdle, Worker
    <2>6. /\ cited \subseteq Docs /\ listed \subseteq Docs
          /\ dropped \subseteq Docs \cup {"finalize"}
          /\ redone \in 0 .. MaxReindex /\ crashes \in 0 .. MaxCrashes
      BY <2>0 DEF Typed, RestTyped
    <2> QED BY <2>1, <2>2, <2>3, <2>4, <2>5, <2>6 DEF KBTypeOK, Doc, Request, Thread, Job, Beats
  <1>2. Typed /\ FinalizeInv /\ [Next]_vars => FinalizeInv'
    <2> SUFFICES ASSUME Typed, FinalizeInv, [Next]_vars PROVE FinalizeInv'
      OBVIOUS
    <2>1. CASE Next
      BY <2>1, OneFinalizeStep, PickedOpenStep DEF FinalizeInv
    <2>2. CASE UNCHANGED vars
      BY <2>2 DEF vars, FinalizeInv, OneFinalize, PickedOpen
    <2> QED BY <2>1, <2>2
  <1>3. Init => FinalizeInv
    BY DEF Init, NoJob, Rest, Open, FinalizeInv, OneFinalize, PickedOpen
  <1> QED BY <1>1, <1>2, <1>3, TypedAlways, PTL DEF Spec

\* KBService._enqueue_wiki_retract, run_ingest, run_retract: a page cites a deleted
\* document only while its retraction is still to come, or was lost to a crash of
\* the request between its two transactions.
THEOREM DeletedIsForgottenAlways ==
    ASSUME KBAssumption, OneProcess PROVE Spec => []DeletedIsForgotten
  <1>1. OneProcessInv => DeletedIsForgotten
    BY DEF OneProcessInv, ForgetInv
  <1> QED BY <1>1, OneProcessInvAlways, PTL

\* enqueue_finalize, finalize_kb_wiki: the index page lists the pages there are,
\* or a job or a worker is going to make it, or a finalize was lost to a crash or
\* to a job that gave up.
THEOREM IndexPageCurrentAlways ==
    ASSUME KBAssumption, OneProcess PROVE Spec => []IndexPageCurrent
  <1>1. OneProcessInv => IndexPageCurrent
    BY DEF OneProcessInv, PageInv
  <1> QED BY <1>1, OneProcessInvAlways, PTL

=============================================================================
