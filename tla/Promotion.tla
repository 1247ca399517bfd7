------------------------------ MODULE Promotion ------------------------------
(***************************************************************************)
(* The promotion of documents from a staging corpus into the main corpus   *)
(* (agentic/promotion_executor.py), the queue that drives it               *)
(* (agentic/topic_clusters.py) and the embedding drain that shares the     *)
(* corpora with it (ingestion/fast_path_cli.py, indexes/lancedb_index.py). *)
(*                                                                         *)
(* A corpus is three stores that no transaction spans: the DocumentStore,  *)
(* the BM25 index and the LanceDB table.  A promotion pass is a sequence   *)
(* of commits to six of them, any of which may fail, with a process crash  *)
(* possible between every two.  The idle scheduler runs a pass under the   *)
(* job lease (agentic/embedding_maintenance.py); the dashboard routes only *)
(* look at the lease before they start one.                                *)
(***************************************************************************)
EXTENDS Naturals, FiniteSets

CONSTANTS
  Docs, Chunks,
  DocOf,           \* the document of each chunk
  Manual,          \* promotion passes started by the dashboard routes
  BatchSize,       \* process_promotion_queue(batch_size=...)
  RequireVectors,  \* IPA_PROMOTION_REQUIRE_VECTORS
  Tombstoned,      \* documents whose row in main is a tombstone at the start
  MaxFaults        \* bound: crashes and failed steps in one behaviour

Corpora   == {"staging", "main"}
Executors == {"idle"} \cup Manual

ASSUME ChunksAssumption == DocOf \in [Chunks -> Docs]
ASSUME ManualAssumption == "idle" \notin Manual
ASSUME BoundsAssumption == /\ BatchSize \in Nat \ {0}
                           /\ MaxFaults \in Nat
ASSUME SwitchAssumption == RequireVectors \in BOOLEAN /\ Tombstoned \subseteq Docs

VARIABLES
  store,       \* per corpus, the documents row: absent, live or tombstoned
  fts,         \* per corpus, documents whose chunks the BM25 index serves
  vec,         \* per corpus, the number of LanceDB rows of each chunk
  queue,       \* promotion_queue.status
  lease,       \* the owner in the job lock, or "none"
  drain,       \* the corpus the embedding drain works on, or "off"
  known,       \* the drain's own set of chunk ids already in LanceDB
  backlog,     \* the drain's pending_queue snapshot
  adding,      \* chunks between the delete and the add of LanceDBIndex.add_chunks
  pc,          \* per pass, the next step
  todo,        \* per pass, documents of the pending snapshot not yet handled
  batch,       \* per pass, the documents of the current batch
  copied,      \* per pass, documents put in main by this batch
  rows,        \* per pass, source vectors selected for the merge into main
  confirmed,   \* per pass, documents of the batch that are live in main
  incomplete,  \* per pass, whether a purge step failed
  torn,        \* history: documents whose copy was cut between the two commits
  faults       \* failed steps and crashes so far

corpusVars == <<store, fts, vec>>
drainVars  == <<drain, known, backlog, adding>>
passVars   == <<pc, todo, batch, copied, rows, confirmed, incomplete>>
vars == <<corpusVars, queue, lease, drainVars, passVars, torn, faults>>

ChunksOf(D)   == {c \in Chunks : DocOf[c] \in D}
LiveDocs(k)   == {d \in Docs : store[k][d] = "live"}
LiveChunks(k) == ChunksOf(LiveDocs(k))
Vectors(k)    == {c \in Chunks : vec[k][c] > 0}
Pending       == {d \in Docs : queue[d] = "pending"}

RowState  == {"absent", "live", "dead"}
PassSteps == {"rest", "admitted", "next", "copy", "copyFts", "lance", "merge",
              "preflight", "confirm", "purgeStore", "purgeFts", "purgeLance",
              "settle", "mark"}

\* Type invariant of the promotion state.
TypeOK ==
  /\ store \in [Corpora -> [Docs -> RowState]]
  /\ fts \in [Corpora -> SUBSET Docs]
  /\ vec \in [Corpora -> [Chunks -> Nat]]
  /\ queue \in [Docs -> {"none", "pending", "promoted"}]
  /\ lease \in {"none", "idle", "drain"}
  /\ drain \in Corpora \cup {"off"}
  /\ known \subseteq Chunks /\ backlog \subseteq Chunks /\ adding \subseteq Chunks
  /\ pc \in [Executors -> PassSteps]
  /\ todo \in [Executors -> SUBSET Docs]
  /\ batch \in [Executors -> SUBSET Docs]
  /\ copied \in [Executors -> SUBSET Docs]
  /\ rows \in [Executors -> SUBSET Chunks]
  /\ confirmed \in [Executors -> SUBSET Docs]
  /\ incomplete \in [Executors -> BOOLEAN]
  /\ torn \subseteq Docs
  /\ faults \in Nat

\* Main may hold some of the documents already, fully indexed; a tombstone has
\* no index entries (corpus_dedupe.tombstone_documents removes them).
Init ==
  /\ \E held \in SUBSET (Docs \ Tombstoned) :
       /\ store = [k \in Corpora |-> [d \in Docs |->
                     IF k = "staging" THEN "absent"
                     ELSE IF d \in Tombstoned THEN "dead"
                     ELSE IF d \in held THEN "live" ELSE "absent"]]
       /\ fts = [k \in Corpora |-> IF k = "main" THEN held ELSE {}]
       /\ vec = [k \in Corpora |-> [c \in Chunks |->
                   IF k = "main" /\ DocOf[c] \in held THEN 1 ELSE 0]]
  /\ queue = [d \in Docs |-> "none"]
  /\ lease = "none"
  /\ drain = "off" /\ known = {} /\ backlog = {} /\ adding = {}
  /\ pc = [e \in Executors |-> "rest"]
  /\ todo = [e \in Executors |-> {}]
  /\ batch = [e \in Executors |-> {}]
  /\ copied = [e \in Executors |-> {}]
  /\ rows = [e \in Executors |-> {}]
  /\ confirmed = [e \in Executors |-> {}]
  /\ incomplete = [e \in Executors |-> FALSE]
  /\ torn = {}
  /\ faults = 0

SetRows(k, D, state) ==
  store' = [store EXCEPT ![k] = [d \in Docs |-> IF d \in D THEN state ELSE @[d]]]

AddVectors(k, C) ==
  vec' = [vec EXCEPT ![k] = [c \in Chunks |-> IF c \in C THEN @[c] + 1 ELSE @[c]]]

DropVectors(k, C) ==
  vec' = [vec EXCEPT ![k] = [c \in Chunks |-> IF c \in C THEN 0 ELSE @[c]]]

Goto(e, step) == pc' = [pc EXCEPT ![e] = step]

Fault == faults < MaxFaults /\ faults' = faults + 1

\* The locals of promote_documents_to_main, which die with the call.
Forget(E) ==
  /\ batch' = [e \in Executors |-> IF e \in E THEN {} ELSE batch[e]]
  /\ copied' = [e \in Executors |-> IF e \in E THEN {} ELSE copied[e]]
  /\ rows' = [e \in Executors |-> IF e \in E THEN {} ELSE rows[e]]
  /\ confirmed' = [e \in Executors |-> IF e \in E THEN {} ELSE confirmed[e]]
  /\ incomplete' = [e \in Executors |-> IF e \in E THEN FALSE ELSE incomplete[e]]

\* On to the next batch; what was not marked done stays pending.
EndBatch(e) == Goto(e, "next") /\ Forget({e})

-----------------------------------------------------------------------------
(* The staging corpus fills and its documents are queued.                  *)

\* The fast path stores a document and indexes its chunks.  One step here: only a
\* queued document concerns a pass, and it is queued after it has a vector.
Ingest(d) ==
  /\ store["staging"][d] = "absent"
  /\ SetRows("staging", {d}, "live")
  /\ fts' = [fts EXCEPT !["staging"] = @ \cup {d}]
  /\ UNCHANGED <<vec, queue, lease, drainVars, passVars, torn, faults>>

\* Level-1 enrichment, run inside an idle cycle, queues a document the queue has
\* never seen once the document has a centroid, that is once it has a vector.
Enqueue(d) ==
  /\ lease = "none"
  /\ store["staging"][d] = "live"
  /\ ChunksOf({d}) \cap Vectors("staging") # {}
  /\ queue[d] = "none"
  /\ queue' = [queue EXCEPT ![d] = "pending"]
  /\ UNCHANGED <<corpusVars, lease, drainVars, passVars, torn, faults>>

-----------------------------------------------------------------------------
(* The embedding drain, a process of its own.                              *)

DrainStart(k) ==
  /\ drain = "off" /\ lease = "none"
  /\ lease' = "drain" /\ drain' = k
  /\ known' = Vectors(k)
  /\ backlog' = LiveChunks(k) \ Vectors(k)
  /\ UNCHANGED <<corpusVars, queue, adding, passVars, torn, faults>>

\* add_chunks deletes the rows of the batch before it adds them.
DrainDelete ==
  /\ drain # "off" /\ adding = {}
  /\ \E C \in SUBSET backlog :
       /\ C # {}
       /\ adding' = C
       /\ backlog' = backlog \ C
       /\ DropVectors(drain, C)
  /\ UNCHANGED <<store, fts, queue, lease, drain, known, passVars, torn, faults>>

DrainAdd ==
  /\ drain # "off" /\ adding # {}
  /\ AddVectors(drain, adding)
  /\ known' = known \cup adding
  /\ adding' = {}
  /\ UNCHANGED <<store, fts, queue, lease, drain, backlog, passVars, torn, faults>>

\* An empty queue is refilled from the store minus the drain's own known set.
DrainRefill ==
  /\ drain # "off" /\ adding = {} /\ backlog = {}
  /\ LiveChunks(drain) \ known # {}
  /\ backlog' = LiveChunks(drain) \ known
  /\ UNCHANGED <<corpusVars, queue, lease, drain, known, adding, passVars, torn, faults>>

DrainStop ==
  /\ drain # "off" /\ adding = {} /\ backlog = {}
  /\ LiveChunks(drain) \subseteq known
  /\ drain' = "off" /\ known' = {} /\ lease' = "none"
  /\ UNCHANGED <<corpusVars, queue, backlog, adding, passVars, torn, faults>>

\* A stop request is honoured between two batches.
DrainCancel ==
  /\ drain # "off" /\ adding = {}
  /\ drain' = "off" /\ known' = {} /\ backlog' = {} /\ lease' = "none"
  /\ UNCHANGED <<corpusVars, queue, adding, passVars, torn, faults>>

\* A failed add ends the drain, which gives the lease back; so does a crash, since
\* the next reader takes over the lock of a dead pid.
DrainCrash ==
  /\ drain # "off" /\ Fault
  /\ drain' = "off" /\ known' = {} /\ backlog' = {} /\ adding' = {} /\ lease' = "none"
  /\ UNCHANGED <<corpusVars, queue, passVars, torn>>

-----------------------------------------------------------------------------
(* One promotion pass: process_promotion_queue.                            *)

\* The route checks that nobody holds the lease and does not take it.
Admit(e) ==
  /\ e \in Manual /\ pc[e] = "rest" /\ lease = "none"
  /\ Goto(e, "admitted")
  /\ UNCHANGED <<corpusVars, queue, lease, drainVars, todo, batch, copied, rows,
                 confirmed, incomplete, torn, faults>>

\* Reads the pending entries; the idle cycle holds the lease for the pass.
Start(e) ==
  /\ Pending # {}
  /\ \/ e = "idle" /\ pc[e] = "rest" /\ lease = "none" /\ lease' = "idle"
     \/ e \in Manual /\ pc[e] = "admitted" /\ UNCHANGED lease
  /\ todo' = [todo EXCEPT ![e] = Pending]
  /\ Goto(e, "next")
  /\ UNCHANGED <<corpusVars, queue, drainVars, batch, copied, rows, confirmed,
                 incomplete, torn, faults>>

NextBatch(e) ==
  /\ pc[e] = "next"
  /\ \E B \in SUBSET todo[e] :
       /\ B # {} /\ Cardinality(B) <= BatchSize
       /\ B = todo[e] \/ Cardinality(B) = BatchSize
       /\ batch' = [batch EXCEPT ![e] = B]
       /\ todo' = [todo EXCEPT ![e] = @ \ B]
  /\ Goto(e, "copy")
  /\ UNCHANGED <<corpusVars, queue, lease, drainVars, copied, rows, confirmed,
                 incomplete, torn, faults>>

\* Seeded fault: the idle cycle forgets to give the lease back.
FinishKeepsLease(e) ==
  /\ pc[e] = "next" /\ todo[e] = {}
  /\ Goto(e, "rest")
  /\ UNCHANGED <<corpusVars, queue, lease, drainVars, todo, batch, copied, rows,
                 confirmed, incomplete, torn, faults>>

Finish(e) ==
  /\ pc[e] = "next" /\ todo[e] = {}
  /\ Goto(e, "rest")
  /\ lease' = IF e = "idle" THEN "none" ELSE lease
  /\ UNCHANGED <<corpusVars, queue, drainVars, todo, batch, copied, rows, confirmed,
                 incomplete, torn, faults>>

\* Phase 1, first commit: a document that has any row in main is skipped.
CopyStore(e) ==
  LET fresh == {d \in batch[e] : store["staging"][d] = "live"
                                 /\ store["main"][d] = "absent"}
  IN /\ pc[e] = "copy"
     /\ SetRows("main", fresh, "live")
     /\ copied' = [copied EXCEPT ![e] = fresh]
     /\ Goto(e, "copyFts")
     /\ UNCHANGED <<fts, vec, queue, lease, drainVars, todo, batch, rows, confirmed,
                    incomplete, torn, faults>>

\* Seeded fault: add_chunks(commit=False) without the later commit.
CopyFtsUncommitted(e) ==
  /\ pc[e] = "copyFts"
  /\ Goto(e, "lance")
  /\ UNCHANGED <<corpusVars, queue, lease, drainVars, todo, batch, copied, rows,
                 confirmed, incomplete, torn, faults>>

\* Phase 1, second commit.
CopyFts(e) ==
  /\ pc[e] = "copyFts"
  /\ fts' = [fts EXCEPT !["main"] = @ \cup copied[e]]
  /\ Goto(e, "lance")
  /\ UNCHANGED <<store, vec, queue, lease, drainVars, todo, batch, copied, rows,
                 confirmed, incomplete, torn, faults>>

\* Seeded fault: the merge does not look at the ids main already has.
LanceReadAll(e) ==
  /\ pc[e] = "lance"
  /\ rows' = [rows EXCEPT ![e] = ChunksOf(batch[e]) \cap Vectors("staging")]
  /\ Goto(e, "merge")
  /\ UNCHANGED <<corpusVars, queue, lease, drainVars, todo, batch, copied, confirmed,
                 incomplete, torn, faults>>

\* Phase 2: the rows of the batch that main does not have yet are read ...
LanceRead(e) ==
  /\ pc[e] = "lance"
  /\ rows' = [rows EXCEPT ![e] =
                (ChunksOf(batch[e]) \cap Vectors("staging")) \ Vectors("main")]
  /\ Goto(e, "merge")
  /\ UNCHANGED <<corpusVars, queue, lease, drainVars, todo, batch, copied, confirmed,
                 incomplete, torn, faults>>

\* ... and added.
LanceAdd(e) ==
  /\ pc[e] = "merge"
  /\ AddVectors("main", rows[e])
  /\ Goto(e, "preflight")
  /\ UNCHANGED <<store, fts, queue, lease, drainVars, todo, batch, copied, rows,
                 confirmed, incomplete, torn, faults>>

\* Seeded fault: after a failed merge the preflight is skipped.
LanceFailsUnchecked(e) ==
  /\ pc[e] \in {"lance", "merge"} /\ Fault
  /\ Goto(e, "confirm")
  /\ UNCHANGED <<corpusVars, queue, lease, drainVars, todo, batch, copied, rows,
                 confirmed, incomplete, torn>>

\* A failed merge is logged; the pass goes on to the preflight.
LanceFails(e) ==
  /\ pc[e] \in {"lance", "merge"} /\ Fault
  /\ Goto(e, "preflight")
  /\ UNCHANGED <<corpusVars, queue, lease, drainVars, todo, batch, copied, rows,
                 confirmed, incomplete, torn>>

\* Seeded fault: one vector is taken to cover the whole document.
UncoveredDocuments(D) ==
  {c \in ChunksOf(D \cap LiveDocs("staging")) :
     ChunksOf({DocOf[c]}) \cap Vectors("main") = {}}

Uncovered(D) == ChunksOf(D \cap LiveDocs("staging")) \ Vectors("main")

\* Phase 3: the purge waits until every live source chunk has a vector in main.
Preflight(e) ==
  /\ pc[e] = "preflight"
  /\ IF RequireVectors /\ Uncovered(batch[e]) # {}
     THEN EndBatch(e)
     ELSE Goto(e, "confirm") /\ UNCHANGED <<batch, copied, rows, confirmed, incomplete>>
  /\ UNCHANGED <<corpusVars, queue, lease, drainVars, todo, torn, faults>>

\* Phase 4: only documents that main holds live are purged.
Confirm(e) ==
  LET held == batch[e] \cap LiveDocs("main")
  IN /\ pc[e] = "confirm"
     /\ confirmed' = [confirmed EXCEPT ![e] = held]
     /\ incomplete' = [incomplete EXCEPT ![e] = FALSE]
     /\ Goto(e, IF held = {} THEN "mark" ELSE "purgeStore")
     /\ UNCHANGED <<corpusVars, queue, lease, drainVars, todo, batch, copied, rows,
                    torn, faults>>

\* Seeded fault: everything that is pending is purged with the batch.
PurgeStoreWholeQueue(e) ==
  /\ pc[e] = "purgeStore"
  /\ SetRows("staging", Pending \cap LiveDocs("staging"), "dead")
  /\ Goto(e, "purgeFts")
  /\ UNCHANGED <<fts, vec, queue, lease, drainVars, todo, batch, copied, rows,
                 confirmed, incomplete, torn, faults>>

PurgeStore(e) ==
  /\ pc[e] = "purgeStore"
  /\ SetRows("staging", confirmed[e] \cap LiveDocs("staging"), "dead")
  /\ Goto(e, "purgeFts")
  /\ UNCHANGED <<fts, vec, queue, lease, drainVars, todo, batch, copied, rows,
                 confirmed, incomplete, torn, faults>>

PurgeFts(e) ==
  /\ pc[e] = "purgeFts"
  /\ fts' = [fts EXCEPT !["staging"] = @ \ confirmed[e]]
  /\ Goto(e, "purgeLance")
  /\ UNCHANGED <<store, vec, queue, lease, drainVars, todo, batch, copied, rows,
                 confirmed, incomplete, torn, faults>>

PurgeLance(e) ==
  /\ pc[e] = "purgeLance"
  /\ DropVectors("staging", ChunksOf(confirmed[e]))
  /\ Goto(e, "settle")
  /\ UNCHANGED <<store, fts, queue, lease, drainVars, todo, batch, copied, rows,
                 confirmed, incomplete, torn, faults>>

\* Seeded fault: a failed purge step is logged and forgotten.
PurgeFailsSilently(e) ==
  /\ \/ pc[e] = "purgeStore" /\ Goto(e, "purgeFts")
     \/ pc[e] = "purgeFts" /\ Goto(e, "purgeLance")
     \/ pc[e] = "purgeLance" /\ Goto(e, "settle")
  /\ Fault
  /\ UNCHANGED <<corpusVars, queue, lease, drainVars, todo, batch, copied, rows,
                 confirmed, incomplete, torn>>

\* A purge step that fails is recorded and the next one still runs.
PurgeFails(e) ==
  /\ \/ pc[e] = "purgeStore" /\ Goto(e, "purgeFts")
     \/ pc[e] = "purgeFts" /\ Goto(e, "purgeLance")
     \/ pc[e] = "purgeLance" /\ Goto(e, "settle")
  /\ Fault
  /\ incomplete' = [incomplete EXCEPT ![e] = TRUE]
  /\ UNCHANGED <<corpusVars, queue, lease, drainVars, todo, batch, copied, rows,
                 confirmed, torn>>

\* An incomplete purge defers the batch.
Settle(e) ==
  /\ pc[e] = "settle"
  /\ IF incomplete[e]
     THEN EndBatch(e)
     ELSE Goto(e, "mark") /\ UNCHANGED <<batch, copied, rows, confirmed, incomplete>>
  /\ UNCHANGED <<corpusVars, queue, lease, drainVars, todo, torn, faults>>

\* Seeded fault: the status written is not one the readers know.
MarkUnknownStatus(e) ==
  /\ pc[e] = "mark" /\ batch[e] # {}
  /\ \E d \in batch[e] :
       /\ queue' = [queue EXCEPT ![d] = "done"]
       /\ batch' = [batch EXCEPT ![e] = @ \ {d}]
  /\ UNCHANGED <<corpusVars, lease, drainVars, pc, todo, copied, rows, confirmed,
                 incomplete, torn, faults>>

\* mark_promotion_done commits one document at a time.
Mark(e) ==
  /\ pc[e] = "mark" /\ batch[e] # {}
  /\ \E d \in batch[e] :
       /\ queue' = [queue EXCEPT ![d] = "promoted"]
       /\ batch' = [batch EXCEPT ![e] = @ \ {d}]
  /\ UNCHANGED <<corpusVars, lease, drainVars, pc, todo, copied, rows, confirmed,
                 incomplete, torn, faults>>

Marked(e) ==
  /\ pc[e] = "mark" /\ batch[e] = {}
  /\ EndBatch(e)
  /\ UNCHANGED <<corpusVars, queue, lease, drainVars, todo, torn, faults>>

\* Seeded fault: an exception is swallowed and the batch marked done.
BatchRaisesAsDone(e) ==
  /\ pc[e] \in {"copy", "copyFts", "lance", "preflight", "confirm"} /\ Fault
  /\ torn' = IF pc[e] = "copyFts" THEN torn \cup copied[e] ELSE torn
  /\ Goto(e, "mark")
  /\ UNCHANGED <<corpusVars, queue, lease, drainVars, todo, batch, copied, rows,
                 confirmed, incomplete>>

\* An exception leaves the batch pending; so does a main LanceDB, or a set of
\* source chunks, that cannot be read.  Raised between the two commits of the
\* copy, the BM25 transaction rolls back and the store's does not.
BatchRaises(e) ==
  /\ pc[e] \in {"copy", "copyFts", "lance", "preflight", "confirm"} /\ Fault
  /\ torn' = IF pc[e] = "copyFts" THEN torn \cup copied[e] ELSE torn
  /\ EndBatch(e)
  /\ UNCHANGED <<corpusVars, queue, lease, drainVars, todo>>

\* The dashboard process, with every pass in it, dies.
DashboardCrash ==
  /\ \E e \in Executors : pc[e] # "rest"
  /\ Fault
  /\ torn' = torn \cup UNION {copied[e] : e \in {x \in Executors : pc[x] = "copyFts"}}
  /\ pc' = [e \in Executors |-> "rest"]
  /\ todo' = [e \in Executors |-> {}]
  /\ Forget(Executors)
  /\ lease' = IF lease = "idle" THEN "none" ELSE lease
  /\ UNCHANGED <<corpusVars, queue, drainVars>>

-----------------------------------------------------------------------------
Drain == DrainDelete \/ DrainAdd \/ DrainRefill \/ DrainStop

Advance(e) ==
  \/ NextBatch(e) \/ Finish(e) \/ CopyStore(e) \/ CopyFts(e) \/ LanceRead(e)
  \/ LanceAdd(e) \/ Preflight(e) \/ Confirm(e) \/ PurgeStore(e) \/ PurgeFts(e)
  \/ PurgeLance(e) \/ Settle(e) \/ Mark(e) \/ Marked(e)

Next ==
  \/ \E d \in Docs : Ingest(d) \/ Enqueue(d)
  \/ \E k \in Corpora : DrainStart(k)
  \/ Drain \/ DrainCancel \/ DrainCrash
  \/ \E e \in Executors : Admit(e) \/ Start(e) \/ Advance(e)
                          \/ LanceFails(e) \/ PurgeFails(e) \/ BatchRaises(e)
  \/ DashboardCrash

Spec == Init /\ [][Next]_vars

\* A started drain and a started pass run on; the idle worker polls for the lease
\* every minute and some poll finds it free.  Nothing makes a drain start.
Fairness == /\ WF_vars(Drain)
            /\ WF_vars(Advance("idle"))
            /\ SF_vars(Start("idle"))

FairSpec == Spec /\ Fairness
-----------------------------------------------------------------------------
(* Properties.                                                             *)

\* PM-004 (promotion_executor.py:17-21): once the staging copy of a document is
\* purged, main holds the document live with a vector for every chunk.  Copy,
\* merge, preflight and purge are separate commits on six stores, and the drain
\* rewrites rows of the same tables.
PurgedIsServed ==
  \A d \in Docs : store["staging"][d] = "dead"
     => /\ store["main"][d] = "live"
        /\ RequireVectors => ChunksOf({d}) \subseteq Vectors("main")

\* What is left of it when passes run side by side, started by the routes: the
\* vectors may be missed, the document itself is never lost.
NothingLost == \A d \in Docs : store["staging"][d] = "dead" => store["main"][d] = "live"

\* mark_promotion_done (topic_clusters.py:413, "physical copy done"): an entry
\* leaves the queue for good, so it may only leave once main holds the document.
DoneMeansCopied ==
  \A d \in Docs : queue[d] = "promoted" => store["main"][d] = "live"

\* A batch is marked done only when the staging indexes are clean: a purged
\* document keeps no BM25 rows and no vectors there (the 2026-09-23 incident,
\* promotion_executor.py:374-377).
DoneMeansClean ==
  \A d \in Docs : queue[d] = "promoted" /\ store["staging"][d] = "dead"
     => d \notin fts["staging"] /\ ChunksOf({d}) \cap Vectors("staging") = {}

\* The merge deduplicates by chunk id (PM-003): no sequence of retries, drains
\* and crashes gives main two rows for one chunk.
OneVectorPerChunk == \A c \in Chunks : vec["main"][c] <= 1

\* The lexical index of main follows its store, except for a document whose copy
\* was cut between the two commits.
FtsFollowsStore ==
  \A d \in LiveDocs("main") \ fts["main"] :
     d \in torn \/ \E e \in Executors : pc[e] = "copyFts" /\ d \in copied[e]

\* A document leaves its staging corpus only for main, fully covered.
Where(d) ==
  CASE store["staging"][d] = "absent" -> "nowhere"
    [] store["staging"][d] = "live" -> IF store["main"][d] = "live" THEN "both" ELSE "staging"
    [] OTHER -> IF store["main"][d] = "live" THEN "main" ELSE "lost"

Covered == {d \in Docs : ChunksOf({d}) \subseteq Vectors("main")}

C == INSTANCE Custody WITH where <- [d \in Docs |-> Where(d)], covered <- Covered

\* Promotion implements the promise made about every single document.
KeepsCustody == C!Spec

Embedded(d) == ChunksOf({d}) \subseteq Vectors("staging") \cup Vectors("main")

\* Deferrals end: a queued document is promoted, provided every document that
\* stays queued gets its vectors (one that does not holds back its whole batch).
QueueDrains ==
  (\A d \in Docs : <>[](queue[d] = "pending" => Embedded(d)))
     => \A d \in Docs : queue[d] = "pending" ~> queue[d] = "promoted"
=============================================================================
