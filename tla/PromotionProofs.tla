--------------------------- MODULE PromotionProofs ---------------------------
(***************************************************************************)
(* Proofs about Promotion, for every set of documents and chunks, every    *)
(* batch size and every number of failed steps and crashes.                *)
(***************************************************************************)
EXTENDS Promotion, TLAPS

USE DEF Corpora, RowState, PassSteps

\* Type correctness, with any number of passes started by the routes.
LEMMA TypeInit == Init => TypeOK
  BY ChunksAssumption DEF Init, TypeOK, Executors

\* The locals of a finished call are empty again, those of the others untouched.
LEMMA ForgetTypes ==
  ASSUME TypeOK, NEW E, Forget(E)
  PROVE  /\ batch' \in [Executors -> SUBSET Docs]
         /\ copied' \in [Executors -> SUBSET Docs]
         /\ rows' \in [Executors -> SUBSET Chunks]
         /\ confirmed' \in [Executors -> SUBSET Docs]
         /\ incomplete' \in [Executors -> BOOLEAN]
  BY DEF TypeOK, Forget

\* A call that ends holds no more than before.
LEMMA ForgetShrinks ==
  ASSUME TypeOK, NEW E, Forget(E)
  PROVE  \A e \in Executors : /\ batch'[e] \subseteq batch[e]
                              /\ rows'[e] \subseteq rows[e]
                              /\ confirmed'[e] \subseteq confirmed[e]
  BY DEF TypeOK, Forget

\* Every action keeps the types.
LEMMA TypeStep == TypeOK /\ [Next]_vars => TypeOK'
<1> SUFFICES ASSUME TypeOK, [Next]_vars PROVE TypeOK'
  OBVIOUS
<1> USE ChunksAssumption, BoundsAssumption DEF TypeOK
<1>1. ASSUME NEW d \in Docs, Ingest(d) PROVE TypeOK'
  BY <1>1 DEF Ingest, SetRows, drainVars, passVars
<1>2. ASSUME NEW d \in Docs, Enqueue(d) PROVE TypeOK'
  BY <1>2 DEF Enqueue, corpusVars, drainVars, passVars
<1>3. ASSUME NEW k \in Corpora, DrainStart(k) PROVE TypeOK'
  BY <1>3 DEF DrainStart, corpusVars, passVars, Vectors, LiveChunks, ChunksOf
<1>4. CASE DrainDelete
  BY <1>4 DEF DrainDelete, DropVectors, passVars
<1>5. CASE DrainAdd
  BY <1>5 DEF DrainAdd, AddVectors, passVars
<1>6. CASE DrainRefill
  BY <1>6 DEF DrainRefill, corpusVars, passVars, LiveChunks, ChunksOf
<1>7. CASE DrainStop
  BY <1>7 DEF DrainStop, corpusVars, passVars
<1>8. CASE DrainCancel
  BY <1>8 DEF DrainCancel, corpusVars, passVars
<1>9. CASE DrainCrash
  BY <1>9 DEF DrainCrash, Fault, corpusVars, passVars
<1>10. ASSUME NEW e \in Executors, Admit(e) PROVE TypeOK'
  BY <1>10 DEF Admit, Goto, corpusVars, drainVars
<1>11. ASSUME NEW e \in Executors, Start(e) PROVE TypeOK'
  BY <1>11 DEF Start, Goto, Pending, corpusVars, drainVars
<1>12. ASSUME NEW e \in Executors, NextBatch(e) PROVE TypeOK'
  BY <1>12 DEF NextBatch, Goto, corpusVars, drainVars
<1>13. ASSUME NEW e \in Executors, Finish(e) PROVE TypeOK'
  BY <1>13 DEF Finish, Goto, corpusVars, drainVars
<1>14. ASSUME NEW e \in Executors, CopyStore(e) PROVE TypeOK'
  BY <1>14 DEF CopyStore, SetRows, Goto, drainVars
<1>15. ASSUME NEW e \in Executors, CopyFts(e) PROVE TypeOK'
  BY <1>15 DEF CopyFts, Goto, drainVars
<1>16. ASSUME NEW e \in Executors, LanceRead(e) PROVE TypeOK'
  BY <1>16 DEF LanceRead, Goto, ChunksOf, corpusVars, drainVars
<1>17. ASSUME NEW e \in Executors, LanceAdd(e) PROVE TypeOK'
  BY <1>17 DEF LanceAdd, AddVectors, Goto, drainVars
<1>18. ASSUME NEW e \in Executors, LanceFails(e) PROVE TypeOK'
  BY <1>18 DEF LanceFails, Fault, Goto, corpusVars, drainVars
<1>19. ASSUME NEW e \in Executors, Preflight(e) PROVE TypeOK'
  <2>1. CASE Forget({e})
    BY <1>19, <2>1, ForgetTypes DEF Preflight, EndBatch, Goto, corpusVars, drainVars
  <2>2. CASE ~Forget({e})
    BY <1>19, <2>2 DEF Preflight, EndBatch, Goto, corpusVars, drainVars
  <2> QED
    BY <2>1, <2>2
<1>20. ASSUME NEW e \in Executors, Confirm(e) PROVE TypeOK'
  BY <1>20 DEF Confirm, Goto, corpusVars, drainVars
<1>21. ASSUME NEW e \in Executors, PurgeStore(e) PROVE TypeOK'
  BY <1>21 DEF PurgeStore, SetRows, Goto, drainVars
<1>22. ASSUME NEW e \in Executors, PurgeFts(e) PROVE TypeOK'
  BY <1>22 DEF PurgeFts, Goto, drainVars
<1>23. ASSUME NEW e \in Executors, PurgeLance(e) PROVE TypeOK'
  BY <1>23 DEF PurgeLance, DropVectors, Goto, drainVars
<1>24. ASSUME NEW e \in Executors, PurgeFails(e) PROVE TypeOK'
  BY <1>24 DEF PurgeFails, Fault, Goto, corpusVars, drainVars
<1>25. ASSUME NEW e \in Executors, Settle(e) PROVE TypeOK'
  <2>1. CASE Forget({e})
    BY <1>25, <2>1, ForgetTypes DEF Settle, EndBatch, Goto, corpusVars, drainVars
  <2>2. CASE ~Forget({e})
    BY <1>25, <2>2 DEF Settle, EndBatch, Goto, corpusVars, drainVars
  <2> QED
    BY <2>1, <2>2
<1>26. ASSUME NEW e \in Executors, Mark(e) PROVE TypeOK'
  BY <1>26 DEF Mark, corpusVars, drainVars
<1>27. ASSUME NEW e \in Executors, Marked(e) PROVE TypeOK'
  <2>1. Forget({e})
    BY <1>27 DEF Marked, EndBatch
  <2> QED
    BY <1>27, <2>1, ForgetTypes DEF Marked, EndBatch, Goto, corpusVars, drainVars
<1>28. ASSUME NEW e \in Executors, BatchRaises(e) PROVE TypeOK'
  <2>1. Forget({e})
    BY <1>28 DEF BatchRaises, EndBatch
  <2> QED
    BY <1>28, <2>1, ForgetTypes DEF BatchRaises, EndBatch, Goto, Fault, corpusVars, drainVars
<1>29. CASE DashboardCrash
  <2>1. Forget(Executors)
    BY <1>29 DEF DashboardCrash
  <2> QED
    BY <1>29, <2>1, ForgetTypes DEF DashboardCrash, Fault, corpusVars, drainVars
<1>30. CASE UNCHANGED vars
  BY <1>30 DEF vars, corpusVars, drainVars, passVars
<1> QED
  BY <1>1, <1>2, <1>3, <1>4, <1>5, <1>6, <1>7, <1>8, <1>9, <1>10, <1>11, <1>12,
     <1>13, <1>14, <1>15, <1>16, <1>17, <1>18, <1>19, <1>20, <1>21, <1>22, <1>23,
     <1>24, <1>25, <1>26, <1>27, <1>28, <1>29, <1>30 DEF Next, Drain, Advance

\* Every behaviour keeps the promotion state well typed.
THEOREM TypeCorrect == Spec => []TypeOK
  BY TypeInit, TypeStep, PTL DEF Spec

-----------------------------------------------------------------------------
(* Part A: what holds with any number of passes and without the lease.     *)

\* The pass has looked at main since it took the batch.
AfterCopy == PassSteps \ {"rest", "admitted", "next", "copy"}

QueuedIsStored == \A d \in Docs : queue[d] # "none" => store["staging"][d] # "absent"

BatchIsQueued == \A e \in Executors : \A d \in todo[e] \cup batch[e] : queue[d] # "none"

ConfirmedInMain == \A e \in Executors : pc[e] = "purgeStore"
                     => confirmed[e] \subseteq LiveDocs("main")

\* Only where no document of main was tombstoned beforehand.
NoTombstones == \A d \in Docs : store["main"][d] # "dead"
BatchInMain == \A e \in Executors : pc[e] \in AfterCopy => batch[e] \subseteq LiveDocs("main")

CopyInv == /\ TypeOK /\ QueuedIsStored /\ BatchIsQueued /\ ConfirmedInMain /\ NothingLost
DoneInv == /\ CopyInv /\ NoTombstones /\ BatchInMain /\ DoneMeansCopied

-----------------------------------------------------------------------------
(* Part B: what the lease adds when every pass is the idle scheduler's.    *)

LeaseInv == /\ lease = "drain" <=> drain # "off"
            /\ lease = "idle" <=> pc["idle"] # "rest"

\* Everything the drain is about to delete and add again has no row yet.
DrainInv == /\ drain = "off" => backlog = {} /\ adding = {}
            /\ drain # "off" => /\ Vectors(drain) \subseteq known
                                /\ (backlog \cup adding) \cap Vectors(drain) = {}
            /\ backlog \cap adding = {}

RowsAreNew == pc["idle"] = "merge" => rows["idle"] \cap Vectors("main") = {}

BatchCovered == RequireVectors =>
  /\ pc["idle"] = "confirm" => Uncovered(batch["idle"]) = {}
  /\ pc["idle"] = "purgeStore" => Uncovered(confirmed["idle"]) = {}

ConfirmedInBatch == pc["idle"] = "purgeStore" => confirmed["idle"] \subseteq batch["idle"]

VectorInv == /\ CopyInv /\ LeaseInv /\ DrainInv /\ RowsAreNew /\ ConfirmedInBatch /\ BatchCovered
             /\ PurgedIsServed /\ OneVectorPerChunk

\* Before the first pass nothing is copied.
LEMMA CopyInit == Init => CopyInv
  BY TypeInit DEF Init, CopyInv, QueuedIsStored, BatchIsQueued, ConfirmedInMain, NothingLost,
     Executors

\* Every action keeps CopyInv.
LEMMA CopyStep == CopyInv /\ [Next]_vars => CopyInv'
<1> DEFINE Rest == QueuedIsStored /\ BatchIsQueued /\ ConfirmedInMain /\ NothingLost
<1> SUFFICES ASSUME TypeOK, TypeOK', Rest, [Next]_vars PROVE Rest'
  BY TypeStep DEF CopyInv
<1> USE DEF TypeOK, LiveDocs, QueuedIsStored, BatchIsQueued, ConfirmedInMain, NothingLost
<1>1. ASSUME NEW d \in Docs, Ingest(d) PROVE Rest'
  BY <1>1 DEF Ingest, SetRows, drainVars, passVars
<1>2. ASSUME NEW d \in Docs, Enqueue(d) PROVE Rest'
  BY <1>2 DEF Enqueue, corpusVars, drainVars, passVars
<1>3. ASSUME NEW k \in Corpora, DrainStart(k) PROVE Rest'
  BY <1>3 DEF DrainStart, corpusVars, passVars
<1>4. CASE DrainDelete
  BY <1>4 DEF DrainDelete, passVars
<1>5. CASE DrainAdd
  BY <1>5 DEF DrainAdd, passVars
<1>6. CASE DrainRefill
  BY <1>6 DEF DrainRefill, corpusVars, passVars
<1>7. CASE DrainStop
  BY <1>7 DEF DrainStop, corpusVars, passVars
<1>8. CASE DrainCancel
  BY <1>8 DEF DrainCancel, corpusVars, passVars
<1>9. CASE DrainCrash
  BY <1>9 DEF DrainCrash, Fault, corpusVars, passVars
<1>10. ASSUME NEW e \in Executors, Admit(e) PROVE Rest'
  BY <1>10 DEF Admit, Goto, corpusVars, drainVars
<1>11. ASSUME NEW e \in Executors, Start(e) PROVE Rest'
  BY <1>11 DEF Start, Goto, Pending, corpusVars, drainVars
<1>12. ASSUME NEW e \in Executors, NextBatch(e) PROVE Rest'
  BY <1>12 DEF NextBatch, Goto, corpusVars, drainVars
<1>13. ASSUME NEW e \in Executors, Finish(e) PROVE Rest'
  BY <1>13 DEF Finish, Goto, corpusVars, drainVars
<1>14. ASSUME NEW e \in Executors, CopyStore(e) PROVE Rest'
  BY <1>14 DEF CopyStore, SetRows, Goto, drainVars
<1>15. ASSUME NEW e \in Executors, CopyFts(e) PROVE Rest'
  BY <1>15 DEF CopyFts, Goto, drainVars
<1>16. ASSUME NEW e \in Executors, LanceRead(e) PROVE Rest'
  BY <1>16 DEF LanceRead, Goto, corpusVars, drainVars
<1>17. ASSUME NEW e \in Executors, LanceAdd(e) PROVE Rest'
  BY <1>17 DEF LanceAdd, Goto, drainVars
<1>18. ASSUME NEW e \in Executors, LanceFails(e) PROVE Rest'
  BY <1>18 DEF LanceFails, Fault, Goto, corpusVars, drainVars
<1>19. ASSUME NEW e \in Executors, Preflight(e) PROVE Rest'
  <2>1. CASE Forget({e})
    BY <1>19, <2>1, ForgetShrinks DEF Preflight, EndBatch, Goto, corpusVars, drainVars
  <2>2. CASE ~Forget({e})
    BY <1>19, <2>2 DEF Preflight, EndBatch, Goto, corpusVars, drainVars
  <2> QED
    BY <2>1, <2>2
<1>20. ASSUME NEW e \in Executors, Confirm(e) PROVE Rest'
  BY <1>20 DEF Confirm, Goto, corpusVars, drainVars
<1>21. ASSUME NEW e \in Executors, PurgeStore(e) PROVE Rest'
  BY <1>21 DEF PurgeStore, SetRows, Goto, drainVars
<1>22. ASSUME NEW e \in Executors, PurgeFts(e) PROVE Rest'
  BY <1>22 DEF PurgeFts, Goto, drainVars
<1>23. ASSUME NEW e \in Executors, PurgeLance(e) PROVE Rest'
  BY <1>23 DEF PurgeLance, Goto, drainVars
<1>24. ASSUME NEW e \in Executors, PurgeFails(e) PROVE Rest'
  BY <1>24 DEF PurgeFails, Fault, Goto, corpusVars, drainVars
<1>25. ASSUME NEW e \in Executors, Settle(e) PROVE Rest'
  <2>1. CASE Forget({e})
    BY <1>25, <2>1, ForgetShrinks DEF Settle, EndBatch, Goto, corpusVars, drainVars
  <2>2. CASE ~Forget({e})
    BY <1>25, <2>2 DEF Settle, EndBatch, Goto, corpusVars, drainVars
  <2> QED
    BY <2>1, <2>2
<1>26. ASSUME NEW e \in Executors, Mark(e) PROVE Rest'
  BY <1>26 DEF Mark, corpusVars, drainVars
<1>27. ASSUME NEW e \in Executors, Marked(e) PROVE Rest'
  BY <1>27 DEF Marked, EndBatch, Forget, Goto, corpusVars, drainVars
<1>28. ASSUME NEW e \in Executors, BatchRaises(e) PROVE Rest'
  BY <1>28 DEF BatchRaises, EndBatch, Forget, Goto, Fault, corpusVars, drainVars
<1>29. CASE DashboardCrash
  BY <1>29 DEF DashboardCrash, Forget, Fault, corpusVars, drainVars
<1>30. CASE UNCHANGED vars
  BY <1>30 DEF vars, corpusVars, drainVars, passVars
<1> QED
  BY <1>1, <1>2, <1>3, <1>4, <1>5, <1>6, <1>7, <1>8, <1>9, <1>10, <1>11, <1>12,
     <1>13, <1>14, <1>15, <1>16, <1>17, <1>18, <1>19, <1>20, <1>21, <1>22, <1>23,
     <1>24, <1>25, <1>26, <1>27, <1>28, <1>29, <1>30 DEF Next, Drain, Advance

\* However many passes run, with or without the lease, and wherever they fail: a
\* document purged from staging is live in main (purge only what
\* promotion_executor.py:452-477 confirmed).
THEOREM NothingIsLost == Spec => []NothingLost
  BY CopyInit, CopyStep, PTL DEF Spec, CopyInv

\* Before the first pass no entry is done.
LEMMA DoneInit == ASSUME Tombstoned = {} PROVE Init => DoneInv
  BY CopyInit DEF Init, DoneInv, NoTombstones, BatchInMain, DoneMeansCopied, AfterCopy,
     Executors

\* Every action keeps DoneInv.
LEMMA DoneStep == DoneInv /\ [Next]_vars => DoneInv'
<1> DEFINE Rest == NoTombstones /\ BatchInMain /\ DoneMeansCopied
<1> SUFFICES ASSUME TypeOK, TypeOK', CopyInv, Rest, [Next]_vars PROVE Rest'
  BY CopyStep DEF DoneInv, CopyInv
<1> USE DEF TypeOK, CopyInv, QueuedIsStored, BatchIsQueued, ConfirmedInMain, NothingLost
<1> USE DEF NoTombstones, BatchInMain, DoneMeansCopied, AfterCopy, LiveDocs
<1>1. ASSUME NEW d \in Docs, Ingest(d) PROVE Rest'
  BY <1>1 DEF Ingest, SetRows, drainVars, passVars
<1>2. ASSUME NEW d \in Docs, Enqueue(d) PROVE Rest'
  BY <1>2 DEF Enqueue, corpusVars, drainVars, passVars
<1>3. ASSUME NEW k \in Corpora, DrainStart(k) PROVE Rest'
  BY <1>3 DEF DrainStart, corpusVars, passVars
<1>4. CASE DrainDelete
  BY <1>4 DEF DrainDelete, DropVectors, passVars
<1>5. CASE DrainAdd
  BY <1>5 DEF DrainAdd, AddVectors, passVars
<1>6. CASE DrainRefill
  BY <1>6 DEF DrainRefill, corpusVars, passVars
<1>7. CASE DrainStop
  BY <1>7 DEF DrainStop, corpusVars, passVars
<1>8. CASE DrainCancel
  BY <1>8 DEF DrainCancel, corpusVars, passVars
<1>9. CASE DrainCrash
  BY <1>9 DEF DrainCrash, Fault, corpusVars, passVars
<1>10. ASSUME NEW e \in Executors, Admit(e) PROVE Rest'
  BY <1>10 DEF Admit, Goto, corpusVars, drainVars
<1>11. ASSUME NEW e \in Executors, Start(e) PROVE Rest'
  BY <1>11 DEF Start, Goto, Pending, corpusVars, drainVars
<1>12. ASSUME NEW e \in Executors, NextBatch(e) PROVE Rest'
  BY <1>12 DEF NextBatch, Goto, corpusVars, drainVars
<1>13. ASSUME NEW e \in Executors, Finish(e) PROVE Rest'
  BY <1>13 DEF Finish, Goto, corpusVars, drainVars
<1>14. ASSUME NEW e \in Executors, CopyStore(e) PROVE Rest'
  BY <1>14 DEF CopyStore, SetRows, Goto, drainVars
<1>15. ASSUME NEW e \in Executors, CopyFts(e) PROVE Rest'
  BY <1>15 DEF CopyFts, Goto, drainVars
<1>16. ASSUME NEW e \in Executors, LanceRead(e) PROVE Rest'
  BY <1>16 DEF LanceRead, Goto, corpusVars, drainVars
<1>17. ASSUME NEW e \in Executors, LanceAdd(e) PROVE Rest'
  BY <1>17 DEF LanceAdd, AddVectors, Goto, drainVars
<1>18. ASSUME NEW e \in Executors, LanceFails(e) PROVE Rest'
  BY <1>18 DEF LanceFails, Fault, Goto, corpusVars, drainVars
<1>19. ASSUME NEW e \in Executors, Preflight(e) PROVE Rest'
  <2>1. CASE Forget({e})
    <3>1. \A x \in Executors : pc'[x] \in AfterCopy => pc[x] \in AfterCopy
      BY <1>19 DEF Preflight, EndBatch, Goto
    <3>2. store' = store /\ queue' = queue
      BY <1>19 DEF Preflight, corpusVars
    <3> QED
      BY <2>1, <3>1, <3>2, ForgetShrinks
  <2>2. CASE ~Forget({e})
    BY <1>19, <2>2 DEF Preflight, EndBatch, Goto, corpusVars, drainVars
  <2> QED
    BY <2>1, <2>2
<1>20. ASSUME NEW e \in Executors, Confirm(e) PROVE Rest'
  BY <1>20 DEF Confirm, Goto, corpusVars, drainVars
<1>21. ASSUME NEW e \in Executors, PurgeStore(e) PROVE Rest'
  BY <1>21 DEF PurgeStore, SetRows, Goto, drainVars
<1>22. ASSUME NEW e \in Executors, PurgeFts(e) PROVE Rest'
  BY <1>22 DEF PurgeFts, Goto, drainVars
<1>23. ASSUME NEW e \in Executors, PurgeLance(e) PROVE Rest'
  BY <1>23 DEF PurgeLance, DropVectors, Goto, drainVars
<1>24. ASSUME NEW e \in Executors, PurgeFails(e) PROVE Rest'
  BY <1>24 DEF PurgeFails, Fault, Goto, corpusVars, drainVars
<1>25. ASSUME NEW e \in Executors, Settle(e) PROVE Rest'
  <2>1. CASE Forget({e})
    <3>1. \A x \in Executors : pc'[x] \in AfterCopy => pc[x] \in AfterCopy
      BY <1>25 DEF Settle, EndBatch, Goto
    <3>2. store' = store /\ queue' = queue
      BY <1>25 DEF Settle, corpusVars
    <3> QED
      BY <2>1, <3>1, <3>2, ForgetShrinks
  <2>2. CASE ~Forget({e})
    BY <1>25, <2>2 DEF Settle, EndBatch, Goto, corpusVars, drainVars
  <2> QED
    BY <2>1, <2>2
<1>26. ASSUME NEW e \in Executors, Mark(e) PROVE Rest'
  BY <1>26 DEF Mark, corpusVars, drainVars
<1>27. ASSUME NEW e \in Executors, Marked(e) PROVE Rest'
  BY <1>27 DEF Marked, EndBatch, Forget, Goto, corpusVars, drainVars
<1>28. ASSUME NEW e \in Executors, BatchRaises(e) PROVE Rest'
  BY <1>28 DEF BatchRaises, EndBatch, Forget, Goto, Fault, corpusVars, drainVars
<1>29. CASE DashboardCrash
  BY <1>29 DEF DashboardCrash, Forget, Fault, corpusVars, drainVars
<1>30. CASE UNCHANGED vars
  BY <1>30 DEF vars, corpusVars, drainVars, passVars
<1> QED
  BY <1>1, <1>2, <1>3, <1>4, <1>5, <1>6, <1>7, <1>8, <1>9, <1>10, <1>11, <1>12,
     <1>13, <1>14, <1>15, <1>16, <1>17, <1>18, <1>19, <1>20, <1>21, <1>22, <1>23,
     <1>24, <1>25, <1>26, <1>27, <1>28, <1>29, <1>30 DEF Next, Drain, Advance

\* However many passes run: if main held no tombstone to start with, a queue entry
\* is marked done only for a document main holds (topic_clusters.py:413).
THEOREM DoneIsCopied == ASSUME Tombstoned = {} PROVE Spec => []DoneMeansCopied
  BY DoneInit, DoneStep, PTL DEF Spec, DoneInv

\* Drain and pass exclude each other.
LEMMA LeaseStep ==
  ASSUME Manual = {}, TypeOK, LeaseInv, [Next]_vars PROVE LeaseInv'
<1> USE DEF TypeOK, LeaseInv, Executors
<1>1. ASSUME NEW d \in Docs, Ingest(d) PROVE LeaseInv'
  BY <1>1 DEF Ingest, SetRows, drainVars, passVars
<1>2. ASSUME NEW d \in Docs, Enqueue(d) PROVE LeaseInv'
  BY <1>2 DEF Enqueue, corpusVars, drainVars, passVars
<1>3. ASSUME NEW k \in Corpora, DrainStart(k) PROVE LeaseInv'
  BY <1>3 DEF DrainStart, corpusVars, passVars
<1>4. CASE DrainDelete
  BY <1>4 DEF DrainDelete, DropVectors, passVars
<1>5. CASE DrainAdd
  BY <1>5 DEF DrainAdd, AddVectors, passVars
<1>6. CASE DrainRefill
  BY <1>6 DEF DrainRefill, corpusVars, passVars
<1>7. CASE DrainStop
  BY <1>7 DEF DrainStop, corpusVars, passVars
<1>8. CASE DrainCancel
  BY <1>8 DEF DrainCancel, corpusVars, passVars
<1>9. CASE DrainCrash
  BY <1>9 DEF DrainCrash, Fault, corpusVars, passVars
<1>10. ASSUME NEW e \in Executors, Admit(e) PROVE LeaseInv'
  BY <1>10 DEF Admit, Goto, corpusVars, drainVars
<1>11. ASSUME NEW e \in Executors, Start(e) PROVE LeaseInv'
  BY <1>11 DEF Start, Goto, Pending, corpusVars, drainVars
<1>12. ASSUME NEW e \in Executors, NextBatch(e) PROVE LeaseInv'
  BY <1>12 DEF NextBatch, Goto, corpusVars, drainVars
<1>13. ASSUME NEW e \in Executors, Finish(e) PROVE LeaseInv'
  BY <1>13 DEF Finish, Goto, corpusVars, drainVars
<1>14. ASSUME NEW e \in Executors, CopyStore(e) PROVE LeaseInv'
  BY <1>14 DEF CopyStore, SetRows, Goto, drainVars
<1>15. ASSUME NEW e \in Executors, CopyFts(e) PROVE LeaseInv'
  BY <1>15 DEF CopyFts, Goto, drainVars
<1>16. ASSUME NEW e \in Executors, LanceRead(e) PROVE LeaseInv'
  BY <1>16 DEF LanceRead, Goto, corpusVars, drainVars
<1>17. ASSUME NEW e \in Executors, LanceAdd(e) PROVE LeaseInv'
  BY <1>17 DEF LanceAdd, AddVectors, Goto, drainVars
<1>18. ASSUME NEW e \in Executors, LanceFails(e) PROVE LeaseInv'
  BY <1>18 DEF LanceFails, Fault, Goto, corpusVars, drainVars
<1>19. ASSUME NEW e \in Executors, Preflight(e) PROVE LeaseInv'
  BY <1>19 DEF Preflight, EndBatch, Goto, corpusVars, drainVars
<1>20. ASSUME NEW e \in Executors, Confirm(e) PROVE LeaseInv'
  BY <1>20 DEF Confirm, Goto, corpusVars, drainVars
<1>21. ASSUME NEW e \in Executors, PurgeStore(e) PROVE LeaseInv'
  BY <1>21 DEF PurgeStore, SetRows, Goto, drainVars
<1>22. ASSUME NEW e \in Executors, PurgeFts(e) PROVE LeaseInv'
  BY <1>22 DEF PurgeFts, Goto, drainVars
<1>23. ASSUME NEW e \in Executors, PurgeLance(e) PROVE LeaseInv'
  BY <1>23 DEF PurgeLance, DropVectors, Goto, drainVars
<1>24. ASSUME NEW e \in Executors, PurgeFails(e) PROVE LeaseInv'
  BY <1>24 DEF PurgeFails, Fault, Goto, corpusVars, drainVars
<1>25. ASSUME NEW e \in Executors, Settle(e) PROVE LeaseInv'
  BY <1>25 DEF Settle, EndBatch, Goto, corpusVars, drainVars
<1>26. ASSUME NEW e \in Executors, Mark(e) PROVE LeaseInv'
  BY <1>26 DEF Mark, corpusVars, drainVars
<1>27. ASSUME NEW e \in Executors, Marked(e) PROVE LeaseInv'
  BY <1>27 DEF Marked, EndBatch, Forget, Goto, corpusVars, drainVars
<1>28. ASSUME NEW e \in Executors, BatchRaises(e) PROVE LeaseInv'
  BY <1>28 DEF BatchRaises, EndBatch, Forget, Goto, Fault, corpusVars, drainVars
<1>29. CASE DashboardCrash
  BY <1>29 DEF DashboardCrash, Forget, Fault, corpusVars, drainVars
<1>30. CASE UNCHANGED vars
  BY <1>30 DEF vars, corpusVars, drainVars, passVars
<1> QED
  BY <1>1, <1>2, <1>3, <1>4, <1>5, <1>6, <1>7, <1>8, <1>9, <1>10, <1>11, <1>12,
     <1>13, <1>14, <1>15, <1>16, <1>17, <1>18, <1>19, <1>20, <1>21, <1>22, <1>23,
     <1>24, <1>25, <1>26, <1>27, <1>28, <1>29, <1>30 DEF Next, Drain, Advance

\* The drain never touches a row it did not find missing.
LEMMA DrainStep ==
  ASSUME Manual = {}, TypeOK, TypeOK', LeaseInv, DrainInv, [Next]_vars PROVE DrainInv'
<1> USE DEF TypeOK, LeaseInv, DrainInv, Executors, Vectors
<1>1. ASSUME NEW d \in Docs, Ingest(d) PROVE DrainInv'
  BY <1>1 DEF Ingest, SetRows, drainVars, passVars
<1>2. ASSUME NEW d \in Docs, Enqueue(d) PROVE DrainInv'
  BY <1>2 DEF Enqueue, corpusVars, drainVars, passVars
<1>3. ASSUME NEW k \in Corpora, DrainStart(k) PROVE DrainInv'
  BY <1>3 DEF DrainStart, corpusVars, passVars, LiveChunks
<1>4. CASE DrainDelete
  BY <1>4 DEF DrainDelete, DropVectors, passVars
<1>5. CASE DrainAdd
  BY <1>5 DEF DrainAdd, AddVectors, passVars
<1>6. CASE DrainRefill
  BY <1>6 DEF DrainRefill, corpusVars, passVars, LiveChunks
<1>7. CASE DrainStop
  BY <1>7 DEF DrainStop, corpusVars, passVars
<1>8. CASE DrainCancel
  BY <1>8 DEF DrainCancel, corpusVars, passVars
<1>9. CASE DrainCrash
  BY <1>9 DEF DrainCrash, Fault, corpusVars, passVars
<1>10. ASSUME NEW e \in Executors, Admit(e) PROVE DrainInv'
  BY <1>10 DEF Admit, Goto, corpusVars, drainVars
<1>11. ASSUME NEW e \in Executors, Start(e) PROVE DrainInv'
  BY <1>11 DEF Start, Goto, Pending, corpusVars, drainVars
<1>12. ASSUME NEW e \in Executors, NextBatch(e) PROVE DrainInv'
  BY <1>12 DEF NextBatch, Goto, corpusVars, drainVars
<1>13. ASSUME NEW e \in Executors, Finish(e) PROVE DrainInv'
  BY <1>13 DEF Finish, Goto, corpusVars, drainVars
<1>14. ASSUME NEW e \in Executors, CopyStore(e) PROVE DrainInv'
  BY <1>14 DEF CopyStore, SetRows, Goto, drainVars
<1>15. ASSUME NEW e \in Executors, CopyFts(e) PROVE DrainInv'
  BY <1>15 DEF CopyFts, Goto, drainVars
<1>16. ASSUME NEW e \in Executors, LanceRead(e) PROVE DrainInv'
  BY <1>16 DEF LanceRead, Goto, corpusVars, drainVars
<1>17. ASSUME NEW e \in Executors, LanceAdd(e) PROVE DrainInv'
  BY <1>17 DEF LanceAdd, AddVectors, Goto, drainVars
<1>18. ASSUME NEW e \in Executors, LanceFails(e) PROVE DrainInv'
  BY <1>18 DEF LanceFails, Fault, Goto, corpusVars, drainVars
<1>19. ASSUME NEW e \in Executors, Preflight(e) PROVE DrainInv'
  BY <1>19 DEF Preflight, EndBatch, Goto, corpusVars, drainVars
<1>20. ASSUME NEW e \in Executors, Confirm(e) PROVE DrainInv'
  BY <1>20 DEF Confirm, Goto, corpusVars, drainVars
<1>21. ASSUME NEW e \in Executors, PurgeStore(e) PROVE DrainInv'
  BY <1>21 DEF PurgeStore, SetRows, Goto, drainVars
<1>22. ASSUME NEW e \in Executors, PurgeFts(e) PROVE DrainInv'
  BY <1>22 DEF PurgeFts, Goto, drainVars
<1>23. ASSUME NEW e \in Executors, PurgeLance(e) PROVE DrainInv'
  BY <1>23 DEF PurgeLance, DropVectors, Goto, drainVars
<1>24. ASSUME NEW e \in Executors, PurgeFails(e) PROVE DrainInv'
  BY <1>24 DEF PurgeFails, Fault, Goto, corpusVars, drainVars
<1>25. ASSUME NEW e \in Executors, Settle(e) PROVE DrainInv'
  BY <1>25 DEF Settle, EndBatch, Goto, corpusVars, drainVars
<1>26. ASSUME NEW e \in Executors, Mark(e) PROVE DrainInv'
  BY <1>26 DEF Mark, corpusVars, drainVars
<1>27. ASSUME NEW e \in Executors, Marked(e) PROVE DrainInv'
  BY <1>27 DEF Marked, EndBatch, Forget, Goto, corpusVars, drainVars
<1>28. ASSUME NEW e \in Executors, BatchRaises(e) PROVE DrainInv'
  BY <1>28 DEF BatchRaises, EndBatch, Forget, Goto, Fault, corpusVars, drainVars
<1>29. CASE DashboardCrash
  BY <1>29 DEF DashboardCrash, Forget, Fault, corpusVars, drainVars
<1>30. CASE UNCHANGED vars
  BY <1>30 DEF vars, corpusVars, drainVars, passVars
<1> QED
  BY <1>1, <1>2, <1>3, <1>4, <1>5, <1>6, <1>7, <1>8, <1>9, <1>10, <1>11, <1>12,
     <1>13, <1>14, <1>15, <1>16, <1>17, <1>18, <1>19, <1>20, <1>21, <1>22, <1>23,
     <1>24, <1>25, <1>26, <1>27, <1>28, <1>29, <1>30 DEF Next, Drain, Advance

\* No step takes a vector from main.
LEMMA MainVectorsStay ==
  ASSUME Manual = {}, TypeOK, LeaseInv, DrainInv, [Next]_vars
  PROVE  \A c \in Chunks : vec["main"][c] > 0 => vec'["main"][c] > 0
<1> DEFINE Stay == \A c \in Chunks : vec["main"][c] > 0 => vec'["main"][c] > 0
<1> SUFFICES Stay
  OBVIOUS
<1> USE DEF TypeOK, LeaseInv, DrainInv, Executors, Vectors
<1>1. ASSUME NEW d \in Docs, Ingest(d) PROVE Stay
  BY <1>1 DEF Ingest, SetRows, drainVars, passVars
<1>2. ASSUME NEW d \in Docs, Enqueue(d) PROVE Stay
  BY <1>2 DEF Enqueue, corpusVars, drainVars, passVars
<1>3. ASSUME NEW k \in Corpora, DrainStart(k) PROVE Stay
  BY <1>3 DEF DrainStart, corpusVars, passVars
<1>4. CASE DrainDelete
  BY <1>4 DEF DrainDelete, DropVectors, passVars
<1>5. CASE DrainAdd
  BY <1>5 DEF DrainAdd, AddVectors, passVars
<1>6. CASE DrainRefill
  BY <1>6 DEF DrainRefill, corpusVars, passVars
<1>7. CASE DrainStop
  BY <1>7 DEF DrainStop, corpusVars, passVars
<1>8. CASE DrainCancel
  BY <1>8 DEF DrainCancel, corpusVars, passVars
<1>9. CASE DrainCrash
  BY <1>9 DEF DrainCrash, Fault, corpusVars, passVars
<1>10. ASSUME NEW e \in Executors, Admit(e) PROVE Stay
  BY <1>10 DEF Admit, Goto, corpusVars, drainVars
<1>11. ASSUME NEW e \in Executors, Start(e) PROVE Stay
  BY <1>11 DEF Start, Goto, Pending, corpusVars, drainVars
<1>12. ASSUME NEW e \in Executors, NextBatch(e) PROVE Stay
  BY <1>12 DEF NextBatch, Goto, corpusVars, drainVars
<1>13. ASSUME NEW e \in Executors, Finish(e) PROVE Stay
  BY <1>13 DEF Finish, Goto, corpusVars, drainVars
<1>14. ASSUME NEW e \in Executors, CopyStore(e) PROVE Stay
  BY <1>14 DEF CopyStore, SetRows, Goto, drainVars
<1>15. ASSUME NEW e \in Executors, CopyFts(e) PROVE Stay
  BY <1>15 DEF CopyFts, Goto, drainVars
<1>16. ASSUME NEW e \in Executors, LanceRead(e) PROVE Stay
  BY <1>16 DEF LanceRead, Goto, corpusVars, drainVars
<1>17. ASSUME NEW e \in Executors, LanceAdd(e) PROVE Stay
  BY <1>17 DEF LanceAdd, AddVectors, Goto, drainVars
<1>18. ASSUME NEW e \in Executors, LanceFails(e) PROVE Stay
  BY <1>18 DEF LanceFails, Fault, Goto, corpusVars, drainVars
<1>19. ASSUME NEW e \in Executors, Preflight(e) PROVE Stay
  BY <1>19 DEF Preflight, EndBatch, Goto, corpusVars, drainVars
<1>20. ASSUME NEW e \in Executors, Confirm(e) PROVE Stay
  BY <1>20 DEF Confirm, Goto, corpusVars, drainVars
<1>21. ASSUME NEW e \in Executors, PurgeStore(e) PROVE Stay
  BY <1>21 DEF PurgeStore, SetRows, Goto, drainVars
<1>22. ASSUME NEW e \in Executors, PurgeFts(e) PROVE Stay
  BY <1>22 DEF PurgeFts, Goto, drainVars
<1>23. ASSUME NEW e \in Executors, PurgeLance(e) PROVE Stay
  BY <1>23 DEF PurgeLance, DropVectors, Goto, drainVars
<1>24. ASSUME NEW e \in Executors, PurgeFails(e) PROVE Stay
  BY <1>24 DEF PurgeFails, Fault, Goto, corpusVars, drainVars
<1>25. ASSUME NEW e \in Executors, Settle(e) PROVE Stay
  BY <1>25 DEF Settle, EndBatch, Goto, corpusVars, drainVars
<1>26. ASSUME NEW e \in Executors, Mark(e) PROVE Stay
  BY <1>26 DEF Mark, corpusVars, drainVars
<1>27. ASSUME NEW e \in Executors, Marked(e) PROVE Stay
  BY <1>27 DEF Marked, EndBatch, Forget, Goto, corpusVars, drainVars
<1>28. ASSUME NEW e \in Executors, BatchRaises(e) PROVE Stay
  BY <1>28 DEF BatchRaises, EndBatch, Forget, Goto, Fault, corpusVars, drainVars
<1>29. CASE DashboardCrash
  BY <1>29 DEF DashboardCrash, Forget, Fault, corpusVars, drainVars
<1>30. CASE UNCHANGED vars
  BY <1>30 DEF vars, corpusVars, drainVars, passVars
<1> QED
  BY <1>1, <1>2, <1>3, <1>4, <1>5, <1>6, <1>7, <1>8, <1>9, <1>10, <1>11, <1>12,
     <1>13, <1>14, <1>15, <1>16, <1>17, <1>18, <1>19, <1>20, <1>21, <1>22, <1>23,
     <1>24, <1>25, <1>26, <1>27, <1>28, <1>29, <1>30 DEF Next, Drain, Advance

\* What the merge read as missing is still missing when it adds it.
LEMMA RowsStep ==
  ASSUME Manual = {}, TypeOK, LeaseInv, DrainInv, RowsAreNew, OneVectorPerChunk,
         [Next]_vars
  PROVE  RowsAreNew' /\ OneVectorPerChunk'
<1> DEFINE Once == RowsAreNew /\ OneVectorPerChunk
<1> SUFFICES Once'
  OBVIOUS
<1> USE DEF TypeOK, LeaseInv, DrainInv, RowsAreNew, OneVectorPerChunk, Executors, Vectors
<1>1. ASSUME NEW d \in Docs, Ingest(d) PROVE Once'
  BY <1>1 DEF Ingest, SetRows, drainVars, passVars
<1>2. ASSUME NEW d \in Docs, Enqueue(d) PROVE Once'
  BY <1>2 DEF Enqueue, corpusVars, drainVars, passVars
<1>3. ASSUME NEW k \in Corpora, DrainStart(k) PROVE Once'
  BY <1>3 DEF DrainStart, corpusVars, passVars
<1>4. CASE DrainDelete
  BY <1>4 DEF DrainDelete, DropVectors, passVars
<1>5. CASE DrainAdd
  BY <1>5 DEF DrainAdd, AddVectors, passVars
<1>6. CASE DrainRefill
  BY <1>6 DEF DrainRefill, corpusVars, passVars
<1>7. CASE DrainStop
  BY <1>7 DEF DrainStop, corpusVars, passVars
<1>8. CASE DrainCancel
  BY <1>8 DEF DrainCancel, corpusVars, passVars
<1>9. CASE DrainCrash
  BY <1>9 DEF DrainCrash, Fault, corpusVars, passVars
<1>10. ASSUME NEW e \in Executors, Admit(e) PROVE Once'
  BY <1>10 DEF Admit, Goto, corpusVars, drainVars
<1>11. ASSUME NEW e \in Executors, Start(e) PROVE Once'
  BY <1>11 DEF Start, Goto, Pending, corpusVars, drainVars
<1>12. ASSUME NEW e \in Executors, NextBatch(e) PROVE Once'
  BY <1>12 DEF NextBatch, Goto, corpusVars, drainVars
<1>13. ASSUME NEW e \in Executors, Finish(e) PROVE Once'
  BY <1>13 DEF Finish, Goto, corpusVars, drainVars
<1>14. ASSUME NEW e \in Executors, CopyStore(e) PROVE Once'
  BY <1>14 DEF CopyStore, SetRows, Goto, drainVars
<1>15. ASSUME NEW e \in Executors, CopyFts(e) PROVE Once'
  BY <1>15 DEF CopyFts, Goto, drainVars
<1>16. ASSUME NEW e \in Executors, LanceRead(e) PROVE Once'
  BY <1>16 DEF LanceRead, Goto, corpusVars, drainVars
<1>17. ASSUME NEW e \in Executors, LanceAdd(e) PROVE Once'
  BY <1>17 DEF LanceAdd, AddVectors, Goto, drainVars
<1>18. ASSUME NEW e \in Executors, LanceFails(e) PROVE Once'
  BY <1>18 DEF LanceFails, Fault, Goto, corpusVars, drainVars
<1>19. ASSUME NEW e \in Executors, Preflight(e) PROVE Once'
  BY <1>19 DEF Preflight, EndBatch, Goto, corpusVars, drainVars
<1>20. ASSUME NEW e \in Executors, Confirm(e) PROVE Once'
  BY <1>20 DEF Confirm, Goto, corpusVars, drainVars
<1>21. ASSUME NEW e \in Executors, PurgeStore(e) PROVE Once'
  BY <1>21 DEF PurgeStore, SetRows, Goto, drainVars
<1>22. ASSUME NEW e \in Executors, PurgeFts(e) PROVE Once'
  BY <1>22 DEF PurgeFts, Goto, drainVars
<1>23. ASSUME NEW e \in Executors, PurgeLance(e) PROVE Once'
  BY <1>23 DEF PurgeLance, DropVectors, Goto, drainVars
<1>24. ASSUME NEW e \in Executors, PurgeFails(e) PROVE Once'
  BY <1>24 DEF PurgeFails, Fault, Goto, corpusVars, drainVars
<1>25. ASSUME NEW e \in Executors, Settle(e) PROVE Once'
  BY <1>25 DEF Settle, EndBatch, Goto, corpusVars, drainVars
<1>26. ASSUME NEW e \in Executors, Mark(e) PROVE Once'
  BY <1>26 DEF Mark, corpusVars, drainVars
<1>27. ASSUME NEW e \in Executors, Marked(e) PROVE Once'
  BY <1>27 DEF Marked, EndBatch, Forget, Goto, corpusVars, drainVars
<1>28. ASSUME NEW e \in Executors, BatchRaises(e) PROVE Once'
  BY <1>28 DEF BatchRaises, EndBatch, Forget, Goto, Fault, corpusVars, drainVars
<1>29. CASE DashboardCrash
  BY <1>29 DEF DashboardCrash, Forget, Fault, corpusVars, drainVars
<1>30. CASE UNCHANGED vars
  BY <1>30 DEF vars, corpusVars, drainVars, passVars
<1> QED
  BY <1>1, <1>2, <1>3, <1>4, <1>5, <1>6, <1>7, <1>8, <1>9, <1>10, <1>11, <1>12,
     <1>13, <1>14, <1>15, <1>16, <1>17, <1>18, <1>19, <1>20, <1>21, <1>22, <1>23,
     <1>24, <1>25, <1>26, <1>27, <1>28, <1>29, <1>30 DEF Next, Drain, Advance

\* What the preflight found covered stays covered until the purge.
LEMMA CoveredStep ==
  ASSUME Manual = {}, CopyInv, LeaseInv, DrainInv, ConfirmedInBatch, BatchCovered,
         PurgedIsServed, [Next]_vars
  PROVE  ConfirmedInBatch' /\ BatchCovered' /\ PurgedIsServed'
<1> DEFINE Safe == ConfirmedInBatch /\ BatchCovered /\ PurgedIsServed
<1> SUFFICES Safe'
  OBVIOUS
<1> \A c \in Chunks : vec["main"][c] > 0 => vec'["main"][c] > 0
  BY MainVectorsStay DEF CopyInv
<1> USE ChunksAssumption
<1> USE DEF CopyInv, TypeOK, LeaseInv, ConfirmedInBatch, BatchCovered, PurgedIsServed
<1> USE DEF QueuedIsStored, BatchIsQueued, ConfirmedInMain, NothingLost
<1> USE DEF Executors, Vectors, Uncovered, ChunksOf, LiveDocs
<1>1. ASSUME NEW d \in Docs, Ingest(d) PROVE Safe'
  BY <1>1 DEF Ingest, SetRows, drainVars, passVars
<1>2. ASSUME NEW d \in Docs, Enqueue(d) PROVE Safe'
  BY <1>2 DEF Enqueue, corpusVars, drainVars, passVars
<1>3. ASSUME NEW k \in Corpora, DrainStart(k) PROVE Safe'
  BY <1>3 DEF DrainStart, corpusVars, passVars
<1>4. CASE DrainDelete
  BY <1>4 DEF DrainDelete, DropVectors, passVars
<1>5. CASE DrainAdd
  BY <1>5 DEF DrainAdd, AddVectors, passVars
<1>6. CASE DrainRefill
  BY <1>6 DEF DrainRefill, corpusVars, passVars
<1>7. CASE DrainStop
  BY <1>7 DEF DrainStop, corpusVars, passVars
<1>8. CASE DrainCancel
  BY <1>8 DEF DrainCancel, corpusVars, passVars
<1>9. CASE DrainCrash
  BY <1>9 DEF DrainCrash, Fault, corpusVars, passVars
<1>10. ASSUME NEW e \in Executors, Admit(e) PROVE Safe'
  BY <1>10 DEF Admit, Goto, corpusVars, drainVars
<1>11. ASSUME NEW e \in Executors, Start(e) PROVE Safe'
  BY <1>11 DEF Start, Goto, Pending, corpusVars, drainVars
<1>12. ASSUME NEW e \in Executors, NextBatch(e) PROVE Safe'
  BY <1>12 DEF NextBatch, Goto, corpusVars, drainVars
<1>13. ASSUME NEW e \in Executors, Finish(e) PROVE Safe'
  BY <1>13 DEF Finish, Goto, corpusVars, drainVars
<1>14. ASSUME NEW e \in Executors, CopyStore(e) PROVE Safe'
  BY <1>14 DEF CopyStore, SetRows, Goto, drainVars
<1>15. ASSUME NEW e \in Executors, CopyFts(e) PROVE Safe'
  BY <1>15 DEF CopyFts, Goto, drainVars
<1>16. ASSUME NEW e \in Executors, LanceRead(e) PROVE Safe'
  BY <1>16 DEF LanceRead, Goto, corpusVars, drainVars
<1>17. ASSUME NEW e \in Executors, LanceAdd(e) PROVE Safe'
  BY <1>17 DEF LanceAdd, AddVectors, Goto, drainVars
<1>18. ASSUME NEW e \in Executors, LanceFails(e) PROVE Safe'
  BY <1>18 DEF LanceFails, Fault, Goto, corpusVars, drainVars
<1>19. ASSUME NEW e \in Executors, Preflight(e) PROVE Safe'
  BY <1>19 DEF Preflight, EndBatch, Goto, corpusVars, drainVars
<1>20. ASSUME NEW e \in Executors, Confirm(e) PROVE Safe'
  BY <1>20 DEF Confirm, Goto, corpusVars, drainVars
<1>21. ASSUME NEW e \in Executors, PurgeStore(e) PROVE Safe'
  BY <1>21 DEF PurgeStore, SetRows, Goto, drainVars
<1>22. ASSUME NEW e \in Executors, PurgeFts(e) PROVE Safe'
  BY <1>22 DEF PurgeFts, Goto, drainVars
<1>23. ASSUME NEW e \in Executors, PurgeLance(e) PROVE Safe'
  BY <1>23 DEF PurgeLance, DropVectors, Goto, drainVars
<1>24. ASSUME NEW e \in Executors, PurgeFails(e) PROVE Safe'
  BY <1>24 DEF PurgeFails, Fault, Goto, corpusVars, drainVars
<1>25. ASSUME NEW e \in Executors, Settle(e) PROVE Safe'
  BY <1>25 DEF Settle, EndBatch, Goto, corpusVars, drainVars
<1>26. ASSUME NEW e \in Executors, Mark(e) PROVE Safe'
  BY <1>26 DEF Mark, corpusVars, drainVars
<1>27. ASSUME NEW e \in Executors, Marked(e) PROVE Safe'
  BY <1>27 DEF Marked, EndBatch, Forget, Goto, corpusVars, drainVars
<1>28. ASSUME NEW e \in Executors, BatchRaises(e) PROVE Safe'
  BY <1>28 DEF BatchRaises, EndBatch, Forget, Goto, Fault, corpusVars, drainVars
<1>29. CASE DashboardCrash
  BY <1>29 DEF DashboardCrash, Forget, Fault, corpusVars, drainVars
<1>30. CASE UNCHANGED vars
  BY <1>30 DEF vars, corpusVars, drainVars, passVars
<1> QED
  BY <1>1, <1>2, <1>3, <1>4, <1>5, <1>6, <1>7, <1>8, <1>9, <1>10, <1>11, <1>12,
     <1>13, <1>14, <1>15, <1>16, <1>17, <1>18, <1>19, <1>20, <1>21, <1>22, <1>23,
     <1>24, <1>25, <1>26, <1>27, <1>28, <1>29, <1>30 DEF Next, Drain, Advance

\* The initial states satisfy it.
LEMMA VectorInit == ASSUME Manual = {} PROVE Init => VectorInv
  BY CopyInit, ChunksAssumption DEF Init, VectorInv, LeaseInv, DrainInv, RowsAreNew,
     ConfirmedInBatch, BatchCovered, PurgedIsServed, OneVectorPerChunk, Executors

\* Every action of the idle cycle keeps VectorInv.
LEMMA VectorStep == ASSUME Manual = {} PROVE VectorInv /\ [Next]_vars => VectorInv'
  BY TypeStep, CopyStep, LeaseStep, DrainStep, RowsStep, CoveredStep
     DEF VectorInv, CopyInv

\* With the idle scheduler's passes only, wherever they and the drain fail: a purged
\* document is live in main with all its vectors (PM-004,
\* promotion_executor.py:17-21).
THEOREM PurgedStaysServed == ASSUME Manual = {} PROVE Spec => []PurgedIsServed
  BY VectorInit, VectorStep, PTL DEF Spec, VectorInv

\* Likewise, and for every interleaving with the drain: the merge never gives main a
\* second row for a chunk (PM-003, docs/operations/idempotency.md:15-17).
THEOREM MergeIsIdempotent == ASSUME Manual = {} PROVE Spec => []OneVectorPerChunk
  BY VectorInit, VectorStep, PTL DEF Spec, VectorInv

-----------------------------------------------------------------------------
(* Part C: what a pass marks done, it has cleaned.                          *)

\* The pass marks its own batch only, and nobody else marks anything.
BatchIsPending == /\ \A d \in todo["idle"] \cup batch["idle"] : queue[d] = "pending"
                  /\ todo["idle"] \cap batch["idle"] = {}
                  /\ pc["idle"] \in {"rest", "next"} => batch["idle"] = {}

\* The drain embeds for documents that are live all the while it runs.
DrainTargets == drain # "off" => backlog \cup adding \subseteq LiveChunks(drain)

\* From the purge of the store on, whatever of the batch is dead is confirmed.
DeadIsConfirmed == pc["idle"] \in {"purgeStore", "purgeFts", "purgeLance", "settle", "mark"}
  => \A d \in batch["idle"] : store["staging"][d] = "dead" => d \in confirmed["idle"]

\* What the confirmed documents still have in staging, when no step failed.
PurgedSoFar ==
  /\ \A d \in confirmed["idle"] : store["staging"][d] # "absent"
  /\ pc["idle"] \in {"purgeLance", "settle", "mark"} /\ ~incomplete["idle"]
       => confirmed["idle"] \cap fts["staging"] = {}
  /\ pc["idle"] \in {"settle", "mark"} /\ ~incomplete["idle"]
       => ChunksOf(confirmed["idle"]) \cap Vectors("staging") = {}
  /\ pc["idle"] = "mark" => ~incomplete["idle"]

CleanInv == /\ CopyInv /\ LeaseInv /\ ConfirmedInBatch /\ BatchIsPending /\ DrainTargets
            /\ DeadIsConfirmed /\ PurgedSoFar /\ DoneMeansClean

\* The queue entries of a pass are its own; the drain's chunks stay live.
LEMMA OwnStep ==
  ASSUME Manual = {}, CopyInv, LeaseInv, DrainInv, BatchIsPending, DrainTargets, [Next]_vars
  PROVE  BatchIsPending' /\ DrainTargets'
<1> DEFINE Own == BatchIsPending /\ DrainTargets
<1> SUFFICES Own'
  OBVIOUS
<1> USE ChunksAssumption
<1> USE DEF CopyInv, TypeOK, LeaseInv, BatchIsPending, DrainTargets, Executors, ChunksOf,
            LiveChunks, LiveDocs, Vectors
<1>1. ASSUME NEW d \in Docs, Ingest(d) PROVE Own'
  BY <1>1 DEF Ingest, SetRows, drainVars, passVars
<1>2. ASSUME NEW d \in Docs, Enqueue(d) PROVE Own'
  BY <1>2 DEF Enqueue, corpusVars, drainVars, passVars
<1>3. ASSUME NEW k \in Corpora, DrainStart(k) PROVE Own'
  <2>1. BatchIsPending'
    BY <1>3 DEF DrainStart, passVars
  <2>2. DrainTargets'
    BY <1>3 DEF DrainStart, DrainInv, corpusVars
  <2> QED
    BY <2>1, <2>2
<1>4. CASE DrainDelete
  BY <1>4 DEF DrainDelete, DropVectors, passVars
<1>5. CASE DrainAdd
  BY <1>5 DEF DrainAdd, AddVectors, passVars
<1>6. CASE DrainRefill
  BY <1>6 DEF DrainRefill, corpusVars, passVars
<1>7. CASE DrainStop
  BY <1>7 DEF DrainStop, corpusVars, passVars
<1>8. CASE DrainCancel
  BY <1>8 DEF DrainCancel, corpusVars, passVars
<1>9. CASE DrainCrash
  BY <1>9 DEF DrainCrash, Fault, corpusVars, passVars
<1>10. ASSUME NEW e \in Executors, Admit(e) PROVE Own'
  BY <1>10 DEF Admit, Goto, corpusVars, drainVars
<1>11. ASSUME NEW e \in Executors, Start(e) PROVE Own'
  BY <1>11 DEF Start, Goto, Pending, corpusVars, drainVars
<1>12. ASSUME NEW e \in Executors, NextBatch(e) PROVE Own'
  BY <1>12 DEF NextBatch, Goto, corpusVars, drainVars
<1>13. ASSUME NEW e \in Executors, Finish(e) PROVE Own'
  BY <1>13 DEF Finish, Goto, corpusVars, drainVars
<1>14. ASSUME NEW e \in Executors, CopyStore(e) PROVE Own'
  BY <1>14 DEF CopyStore, SetRows, Goto, drainVars
<1>15. ASSUME NEW e \in Executors, CopyFts(e) PROVE Own'
  BY <1>15 DEF CopyFts, Goto, drainVars
<1>16. ASSUME NEW e \in Executors, LanceRead(e) PROVE Own'
  BY <1>16 DEF LanceRead, Goto, corpusVars, drainVars
<1>17. ASSUME NEW e \in Executors, LanceAdd(e) PROVE Own'
  BY <1>17 DEF LanceAdd, AddVectors, Goto, drainVars
<1>18. ASSUME NEW e \in Executors, LanceFails(e) PROVE Own'
  BY <1>18 DEF LanceFails, Fault, Goto, corpusVars, drainVars
<1>19. ASSUME NEW e \in Executors, Preflight(e) PROVE Own'
  <2>1. CASE RequireVectors /\ Uncovered(batch[e]) # {}
    BY <1>19, <2>1 DEF Preflight, EndBatch, Forget, Goto, corpusVars, drainVars
  <2>2. CASE ~(RequireVectors /\ Uncovered(batch[e]) # {})
    BY <1>19, <2>2 DEF Preflight, Goto, corpusVars, drainVars
  <2> QED
    BY <2>1, <2>2
<1>20. ASSUME NEW e \in Executors, Confirm(e) PROVE Own'
  BY <1>20 DEF Confirm, Goto, corpusVars, drainVars
<1>21. ASSUME NEW e \in Executors, PurgeStore(e) PROVE Own'
  BY <1>21 DEF PurgeStore, SetRows, Goto, drainVars
<1>22. ASSUME NEW e \in Executors, PurgeFts(e) PROVE Own'
  BY <1>22 DEF PurgeFts, Goto, drainVars
<1>23. ASSUME NEW e \in Executors, PurgeLance(e) PROVE Own'
  BY <1>23 DEF PurgeLance, DropVectors, Goto, drainVars
<1>24. ASSUME NEW e \in Executors, PurgeFails(e) PROVE Own'
  BY <1>24 DEF PurgeFails, Fault, Goto, corpusVars, drainVars
<1>25. ASSUME NEW e \in Executors, Settle(e) PROVE Own'
  <2>1. CASE incomplete[e]
    BY <1>25, <2>1 DEF Settle, EndBatch, Forget, Goto, corpusVars, drainVars
  <2>2. CASE ~(incomplete[e])
    BY <1>25, <2>2 DEF Settle, Goto, corpusVars, drainVars
  <2> QED
    BY <2>1, <2>2
<1>26. ASSUME NEW e \in Executors, Mark(e) PROVE Own'
  BY <1>26 DEF Mark, corpusVars, drainVars
<1>27. ASSUME NEW e \in Executors, Marked(e) PROVE Own'
  BY <1>27 DEF Marked, EndBatch, Forget, Goto, corpusVars, drainVars
<1>28. ASSUME NEW e \in Executors, BatchRaises(e) PROVE Own'
  BY <1>28 DEF BatchRaises, EndBatch, Forget, Goto, Fault, corpusVars, drainVars
<1>29. CASE DashboardCrash
  BY <1>29 DEF DashboardCrash, Forget, Fault, corpusVars, drainVars
<1>30. CASE UNCHANGED vars
  BY <1>30 DEF vars, corpusVars, drainVars, passVars
<1> QED
  BY <1>1, <1>2, <1>3, <1>4, <1>5, <1>6, <1>7, <1>8, <1>9, <1>10, <1>11, <1>12,
     <1>13, <1>14, <1>15, <1>16, <1>17, <1>18, <1>19, <1>20, <1>21, <1>22, <1>23,
     <1>24, <1>25, <1>26, <1>27, <1>28, <1>29, <1>30 DEF Next, Drain, Advance

\* What a pass marks, it has cleaned.
LEMMA CleanStep ==
  ASSUME Manual = {}, CleanInv, [Next]_vars
  PROVE  DeadIsConfirmed' /\ PurgedSoFar' /\ DoneMeansClean'
<1> DEFINE Clean == DeadIsConfirmed /\ PurgedSoFar /\ DoneMeansClean
<1> SUFFICES Clean'
  OBVIOUS
<1> USE ChunksAssumption
<1> USE DEF CleanInv, CopyInv, TypeOK, LeaseInv, QueuedIsStored, BatchIsQueued, NothingLost,
            ConfirmedInBatch, BatchIsPending, DrainTargets, DeadIsConfirmed, PurgedSoFar,
            DoneMeansClean, Executors, ChunksOf, Vectors, LiveChunks, LiveDocs
<1>1. ASSUME NEW d \in Docs, Ingest(d) PROVE Clean'
  BY <1>1 DEF Ingest, SetRows, drainVars, passVars
<1>2. ASSUME NEW d \in Docs, Enqueue(d) PROVE Clean'
  BY <1>2 DEF Enqueue, corpusVars, drainVars, passVars
<1>3. ASSUME NEW k \in Corpora, DrainStart(k) PROVE Clean'
  BY <1>3 DEF DrainStart, corpusVars, passVars
<1>4. CASE DrainDelete
  BY <1>4 DEF DrainDelete, DropVectors, passVars
<1>5. CASE DrainAdd
  BY <1>5 DEF DrainAdd, AddVectors, passVars
<1>6. CASE DrainRefill
  BY <1>6 DEF DrainRefill, corpusVars, passVars
<1>7. CASE DrainStop
  BY <1>7 DEF DrainStop, corpusVars, passVars
<1>8. CASE DrainCancel
  BY <1>8 DEF DrainCancel, corpusVars, passVars
<1>9. CASE DrainCrash
  BY <1>9 DEF DrainCrash, Fault, corpusVars, passVars
<1>10. ASSUME NEW e \in Executors, Admit(e) PROVE Clean'
  BY <1>10 DEF Admit, Goto, corpusVars, drainVars
<1>11. ASSUME NEW e \in Executors, Start(e) PROVE Clean'
  BY <1>11 DEF Start, Goto, Pending, corpusVars, drainVars
<1>12. ASSUME NEW e \in Executors, NextBatch(e) PROVE Clean'
  BY <1>12 DEF NextBatch, Goto, corpusVars, drainVars
<1>13. ASSUME NEW e \in Executors, Finish(e) PROVE Clean'
  BY <1>13 DEF Finish, Goto, corpusVars, drainVars
<1>14. ASSUME NEW e \in Executors, CopyStore(e) PROVE Clean'
  BY <1>14 DEF CopyStore, SetRows, Goto, drainVars
<1>15. ASSUME NEW e \in Executors, CopyFts(e) PROVE Clean'
  BY <1>15 DEF CopyFts, Goto, drainVars
<1>16. ASSUME NEW e \in Executors, LanceRead(e) PROVE Clean'
  BY <1>16 DEF LanceRead, Goto, corpusVars, drainVars
<1>17. ASSUME NEW e \in Executors, LanceAdd(e) PROVE Clean'
  BY <1>17 DEF LanceAdd, AddVectors, Goto, drainVars
<1>18. ASSUME NEW e \in Executors, LanceFails(e) PROVE Clean'
  BY <1>18 DEF LanceFails, Fault, Goto, corpusVars, drainVars
<1>19. ASSUME NEW e \in Executors, Preflight(e) PROVE Clean'
  <2>1. CASE RequireVectors /\ Uncovered(batch[e]) # {}
    BY <1>19, <2>1 DEF Preflight, EndBatch, Forget, Goto, corpusVars, drainVars
  <2>2. CASE ~(RequireVectors /\ Uncovered(batch[e]) # {})
    BY <1>19, <2>2 DEF Preflight, Goto, corpusVars, drainVars
  <2> QED
    BY <2>1, <2>2
<1>20. ASSUME NEW e \in Executors, Confirm(e) PROVE Clean'
  BY <1>20 DEF Confirm, Goto, corpusVars, drainVars
<1>21. ASSUME NEW e \in Executors, PurgeStore(e) PROVE Clean'
  BY <1>21 DEF PurgeStore, SetRows, Goto, drainVars
<1>22. ASSUME NEW e \in Executors, PurgeFts(e) PROVE Clean'
  BY <1>22 DEF PurgeFts, Goto, drainVars
<1>23. ASSUME NEW e \in Executors, PurgeLance(e) PROVE Clean'
  BY <1>23 DEF PurgeLance, DropVectors, Goto, drainVars
<1>24. ASSUME NEW e \in Executors, PurgeFails(e) PROVE Clean'
  BY <1>24 DEF PurgeFails, Fault, Goto, corpusVars, drainVars
<1>25. ASSUME NEW e \in Executors, Settle(e) PROVE Clean'
  <2>1. CASE incomplete[e]
    BY <1>25, <2>1 DEF Settle, EndBatch, Forget, Goto, corpusVars, drainVars
  <2>2. CASE ~(incomplete[e])
    BY <1>25, <2>2 DEF Settle, Goto, corpusVars, drainVars
  <2> QED
    BY <2>1, <2>2
<1>26. ASSUME NEW e \in Executors, Mark(e) PROVE Clean'
  BY <1>26 DEF Mark, corpusVars, drainVars
<1>27. ASSUME NEW e \in Executors, Marked(e) PROVE Clean'
  BY <1>27 DEF Marked, EndBatch, Forget, Goto, corpusVars, drainVars
<1>28. ASSUME NEW e \in Executors, BatchRaises(e) PROVE Clean'
  BY <1>28 DEF BatchRaises, EndBatch, Forget, Goto, Fault, corpusVars, drainVars
<1>29. CASE DashboardCrash
  BY <1>29 DEF DashboardCrash, Forget, Fault, corpusVars, drainVars
<1>30. CASE UNCHANGED vars
  BY <1>30 DEF vars, corpusVars, drainVars, passVars
<1> QED
  BY <1>1, <1>2, <1>3, <1>4, <1>5, <1>6, <1>7, <1>8, <1>9, <1>10, <1>11, <1>12,
     <1>13, <1>14, <1>15, <1>16, <1>17, <1>18, <1>19, <1>20, <1>21, <1>22, <1>23,
     <1>24, <1>25, <1>26, <1>27, <1>28, <1>29, <1>30 DEF Next, Drain, Advance

\* The initial states satisfy CleanInv.
LEMMA CleanInit == ASSUME Manual = {} PROVE Init => CleanInv
  BY CopyInit, ChunksAssumption DEF Init, CleanInv, LeaseInv, ConfirmedInBatch, BatchIsPending,
     DrainTargets, DeadIsConfirmed, PurgedSoFar, DoneMeansClean, Executors

\* Every action of the idle cycle keeps CleanInv.
LEMMA CleanInvStep ==
  ASSUME Manual = {} PROVE VectorInv /\ CleanInv /\ [Next]_vars => CleanInv'
  BY VectorStep, OwnStep, CleanStep DEF CleanInv, VectorInv

\* With the idle scheduler's passes only, whichever purge steps fail: a document that
\* is marked done and purged keeps neither BM25 rows nor vectors in its staging
\* corpus (promotion_executor.py:374-377, 512-536).
THEOREM DoneIsClean == ASSUME Manual = {} PROVE Spec => []DoneMeansClean
  BY VectorInit, VectorStep, CleanInit, CleanInvStep, PTL DEF Spec, CleanInv

-----------------------------------------------------------------------------
(* Promotion implements Custody.                                           *)

\* An initial state of Promotion is one of Custody.
LEMMA CustodyInit == TypeOK /\ Init => C!Init
  BY DEF Init, C!Init, Where, Covered

\* A step that leaves the stores alone can only add vectors to main.
LEMMA QuietStep ==
  ASSUME store' = store, \A c \in Chunks : vec["main"][c] > 0 => vec'["main"][c] > 0
  PROVE  C!Next
<1>1. [d \in Docs |-> Where(d)]' = [d \in Docs |-> Where(d)]
  BY DEF Where
<1>2. Covered \subseteq Covered' /\ Covered' \subseteq Docs
  BY DEF Covered, Vectors, ChunksOf
<1> QED
  BY <1>1, <1>2 DEF C!Next, C!Cover

\* A step of Promotion is one of Custody, or changes nothing of it.
LEMMA CustodyStep ==
  ASSUME Manual = {}, RequireVectors, VectorInv, [Next]_vars
  PROVE  [C!Next]_(C!vars)
<1>1. \A c \in Chunks : vec["main"][c] > 0 => vec'["main"][c] > 0
  BY MainVectorsStay DEF VectorInv, CopyInv
<1>2. CASE store' = store
  BY <1>1, <1>2, QuietStep
<1>3. ASSUME NEW d \in Docs, Ingest(d) PROVE C!Next
  <2>1. Covered' = Covered
    BY <1>3 DEF Ingest, Covered, Vectors
  <2>2. C!Arrive(d)
    BY <1>3, <2>1 DEF Ingest, SetRows, C!Arrive, C!Move, Where, VectorInv, CopyInv, TypeOK
  <2> QED
    BY <2>2 DEF C!Next
<1>4. ASSUME NEW e \in Executors, CopyStore(e) PROVE C!Next
  <2> DEFINE fresh == {d \in batch[e] : store["staging"][d] = "live"
                                        /\ store["main"][d] = "absent"}
  <2>1. fresh \in SUBSET Docs /\ SetRows("main", fresh, "live") /\ vec' = vec
    BY <1>4 DEF CopyStore, VectorInv, CopyInv, TypeOK
  <2>2. CASE fresh = {}
    <3>1. store' = store
      BY <2>1, <2>2 DEF SetRows, VectorInv, CopyInv, TypeOK
    <3> QED
      BY <3>1, <1>1, QuietStep
  <2>3. CASE fresh # {}
    <3>1. Covered' = Covered
      BY <2>1 DEF Covered, Vectors
    <3>2. C!Copy(fresh)
      BY <2>1, <2>3, <3>1
         DEF SetRows, C!Copy, C!Move, Where, VectorInv, CopyInv, TypeOK
    <3> QED
      BY <2>1, <3>2 DEF C!Next
  <2> QED
    BY <2>2, <2>3
<1>5. ASSUME NEW e \in Executors, PurgeStore(e) PROVE C!Next
  <2> DEFINE gone == confirmed[e] \cap LiveDocs("staging")
  <2>1. gone \in SUBSET Docs /\ SetRows("staging", gone, "dead") /\ vec' = vec
    BY <1>5 DEF PurgeStore, LiveDocs
  <2>2. CASE gone = {}
    <3>1. store' = store
      BY <2>1, <2>2 DEF SetRows, VectorInv, CopyInv, TypeOK
    <3> QED
      BY <3>1, <1>1, QuietStep
  <2>3. CASE gone # {}
    <3>1. Covered' = Covered
      BY <2>1 DEF Covered, Vectors
    <3>2. e = "idle" /\ pc["idle"] = "purgeStore"
      BY <1>5 DEF PurgeStore, Executors
    <3>3. gone \subseteq Covered
      BY <3>2 DEF VectorInv, BatchCovered, Uncovered, Covered, ChunksOf, LiveDocs
    <3>4. \A d \in gone : store["staging"][d] = "live" /\ store["main"][d] = "live"
      BY <3>2 DEF VectorInv, CopyInv, ConfirmedInMain, LiveDocs, Executors
    <3>5. C!Release(gone)
      BY <2>1, <2>3, <3>1, <3>3, <3>4
         DEF SetRows, C!Release, C!Move, Where, VectorInv, CopyInv, TypeOK
    <3> QED
      BY <2>1, <3>5 DEF C!Next
  <2> QED
    BY <2>2, <2>3
<1>6. store' = store \/ (\E d \in Docs : Ingest(d))
        \/ (\E e \in Executors : CopyStore(e) \/ PurgeStore(e))
  BY DEF Next, Drain, Advance, vars, corpusVars, Enqueue, DrainStart, DrainDelete, DrainAdd,
     DrainRefill, DrainStop, DrainCancel, DrainCrash, Admit, Start, NextBatch, Finish, CopyFts,
     LanceRead, LanceAdd, LanceFails, Preflight, Confirm, PurgeFts, PurgeLance,
     PurgeFails, Settle, Mark, Marked, BatchRaises, DashboardCrash
<1> QED
  BY <1>2, <1>3, <1>4, <1>5, <1>6

\* Where the vector check is on and no route starts a pass, promotion implements
\* Custody: every document moves forwards only, and leaves staging only for a main
\* that serves it.
THEOREM Refinement == ASSUME Manual = {}, RequireVectors PROVE Spec => KeepsCustody
<1>1. Init => C!Init
  BY TypeInit, CustodyInit
<1>2. VectorInv /\ [Next]_vars => [C!Next]_(C!vars)
  BY CustodyStep
<1>3. Spec => []VectorInv
  BY VectorInit, VectorStep, PTL DEF Spec
<1> QED
  BY <1>1, <1>2, <1>3, PTL DEF Spec, C!Spec, KeepsCustody
=============================================================================
