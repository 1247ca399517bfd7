----------------------------- MODULE Enrichment -----------------------------
(* What the idle tasks do to the cluster store for one corpus: topify (level *)
(* 1) clusters, curates and queues documents for promotion; deep topify      *)
(* (level 2) clusters with the language model and gives borderline research  *)
(* documents a second opinion.  One action is one transaction of the cluster *)
(* store; a task can be abandoned between two of them.                       *)
EXTENDS Naturals, FiniteSets

CONSTANTS Docs,
          Research   \* documents of agent_research below the threshold; the
                     \* others come from configured sites and are promotable

ASSUME ResearchAssumption == Research \subseteq Docs

VARIABLES
  stored,     \* documents of the corpus
  live,       \* those with a centroid
  sourced,    \* those with a row of provenance
  stage,      \* enrichment_progress: one row per document
  inTopics,   \* topic clusters that list the document
  decided,    \* documents with a curation decision
  rescued,    \* of those, with scores the model raised over the threshold
  reviewed,   \* aux stage gray_reviewed
  queue,      \* document ids in promotion_queue, whatever their status
  dirty, count,      \* meta: dirty:<corpus> and last_count:<corpus>
  tp, todo,   \* topify: its step and the sets it computed when it began
  dp, gray, graded,  \* deep topify: step, candidates left, ids to mark
  missed      \* history: documents whose evaluation a task dropped

storeVars == <<stored, live, sourced>>
clusterVars == <<stage, inTopics, decided, rescued, reviewed, queue, dirty, count>>
topifyVars == <<tp, todo>>
deepVars == <<dp, gray, graded>>
enrichVars == <<storeVars, clusterVars, topifyVars, deepVars, missed>>

NoWork == [cluster |-> {}, curate |-> {}, eval |-> {}]

EnrichTypeOK ==
  /\ {stored, live, sourced, decided, rescued, reviewed, queue, gray, graded, missed}
       \subseteq SUBSET Docs
  /\ stage \in [Docs -> {"none", "clustered", "curated"}]
  /\ inTopics \in [Docs -> Nat] /\ dirty \in BOOLEAN /\ count \in Nat
  /\ tp \in {"off", "gate", "scan", "save", "mark", "decide", "curated", "eval", "count",
             "clear", "done"}
  /\ todo \in [cluster : SUBSET Docs, curate : SUBSET Docs, eval : SUBSET Docs]
  /\ dp \in {"off", "scan", "save", "mark", "gray", "queue", "marks", "done"}

(* The dashboard starts on a corpus that may have scraped documents already,  *)
(* ingested and with centroids.                                              *)
EnrichInit ==
  /\ stored \in SUBSET (Docs \ Research) /\ live = stored /\ sourced = stored
  /\ stage = [d \in Docs |-> "none"] /\ inTopics = [d \in Docs |-> 0]
  /\ decided = {} /\ rescued = {} /\ reviewed = {} /\ queue = {}
  /\ dirty = (stored # {}) /\ count = 0
  /\ tp = "off" /\ todo = NoWork /\ dp = "off" /\ gray = {} /\ graded = {}
  /\ missed = {}

----------------------------------------------------------------------------
(* The corpus changes under the tasks: ingestion commits and then records    *)
(* metadata, provenance and the dirty flag; the drain computes centroids.    *)

CommitDoc(d) ==
  /\ d \notin stored
  /\ stored' = stored \cup {d}
  /\ sourced' = sourced \cup ({d} \cap Research)
  /\ UNCHANGED <<live, clusterVars, topifyVars, deepVars, missed>>

RecordMetadata ==
  /\ ~(stored \subseteq sourced)
  /\ sourced' = stored /\ dirty' = TRUE
  /\ UNCHANGED <<stored, live, stage, inTopics, decided, rescued, reviewed, queue, count,
                 topifyVars, deepVars, missed>>

----------------------------------------------------------------------------
(* Topify.                                                                  *)

Curated == {d \in Docs : stage[d] = "curated"}
(* Mutant: only the marks count.                                             *)
ClusteredByMark == {d \in Docs : stage[d] # "none"}

(* A curated document counts as clustered, and so does a member of a cluster *)
(* whose mark is missing.                                                    *)
Clustered == {d \in Docs : stage[d] # "none" \/ inTopics[d] > 0}

(* Mutant: the documents with centroids are not compared with the curated     *)
(* ones.                                                                     *)
UnchangedCount == ~dirty /\ count = Cardinality(stored) /\ live \subseteq sourced

Unchanged ==
  /\ ~dirty /\ live \subseteq Curated
  /\ count = Cardinality(stored) /\ live \subseteq sourced

(* Nothing new: skip.  Otherwise heal the provenance of scraped documents,   *)
(* as far as the landing registry has them.                                  *)
TopifyGate ==
  /\ tp = "gate"
  /\ IF Unchanged THEN tp' = "done" /\ UNCHANGED sourced
     ELSE tp' = "scan" /\ sourced' = sourced \cup (live \ Research)
  /\ UNCHANGED <<stored, live, clusterVars, todo, deepVars, missed>>

(* Every set is computed here, once, and used to the end.                    *)
TopifyScan ==
  /\ tp = "scan"
  /\ todo' = [cluster |-> live \ Clustered, curate |-> live \ Curated,
              eval |-> (live \cap sourced) \ queue]
  /\ tp' = IF todo' = NoWork THEN "count" ELSE "save"
  /\ UNCHANGED <<storeVars, clusterVars, deepVars, missed>>

(* A topic has at least two documents; the others stay singletons.           *)
Grouped(docs) == {g \in SUBSET docs : Cardinality(g) # 1}
AddTopics(g) == inTopics' = [d \in Docs |-> inTopics[d] + IF d \in g THEN 1 ELSE 0]
MarkStage(docs, s) == stage' = [d \in Docs |-> IF d \in docs THEN s ELSE stage[d]]

SaveClusters ==
  /\ tp = "save"
  /\ \E g \in Grouped(todo.cluster) : AddTopics(g)
  /\ tp' = "mark"
  /\ UNCHANGED <<storeVars, stage, decided, rescued, reviewed, queue, dirty, count, todo,
                 deepVars, missed>>

MarkClustered ==
  /\ tp = "mark"
  /\ MarkStage(todo.cluster, "clustered") /\ tp' = "decide"
  /\ UNCHANGED <<storeVars, inTopics, decided, rescued, reviewed, queue, dirty, count, todo,
                 deepVars, missed>>

SaveDecisions ==
  /\ tp = "decide"
  /\ decided' = decided \cup todo.curate /\ tp' = "curated"
  /\ UNCHANGED <<storeVars, stage, inTopics, rescued, reviewed, queue, dirty, count, todo,
                 deepVars, missed>>

MarkCurated ==
  /\ tp = "curated"
  /\ MarkStage(todo.curate, "curated") /\ tp' = "eval"
  /\ UNCHANGED <<storeVars, inTopics, decided, rescued, reviewed, queue, dirty, count, todo,
                 deepVars, missed>>

Promotable == (Docs \ Research) \cup rescued

(* The policy, one document and one transaction at a time.                   *)
Evaluate(d) ==
  /\ tp = "eval" /\ d \in todo.eval
  /\ queue' = queue \cup ({d} \cap Promotable)
  /\ todo' = [todo EXCEPT !.eval = @ \ {d}]
  /\ UNCHANGED <<storeVars, stage, inTopics, decided, rescued, reviewed, dirty, count, tp,
                 deepVars, missed>>

EndEvaluation ==
  /\ tp = "eval" /\ todo.eval = {}
  /\ tp' = "count"
  /\ UNCHANGED <<storeVars, clusterVars, todo, deepVars, missed>>

(* An error of the evaluation is printed and the run goes on as complete.    *)
EvaluationFails ==
  /\ tp = "eval"
  /\ missed' = missed \cup todo.eval /\ tp' = "count"
  /\ UNCHANGED <<storeVars, clusterVars, todo, deepVars>>

RecordCount ==
  /\ tp = "count"
  /\ count' = Cardinality(stored) /\ tp' = "clear"
  /\ UNCHANGED <<storeVars, stage, inTopics, decided, rescued, reviewed, queue, dirty, todo,
                 deepVars, missed>>

ClearDirty ==
  /\ tp = "clear"
  /\ dirty' = FALSE /\ tp' = "done" /\ todo' = NoWork
  /\ UNCHANGED <<storeVars, stage, inTopics, decided, rescued, reviewed, queue, count,
                 deepVars, missed>>

TopifyStep ==
  \/ TopifyGate \/ TopifyScan \/ SaveClusters \/ MarkClustered \/ SaveDecisions \/ MarkCurated
  \/ (\E d \in Docs : Evaluate(d)) \/ EndEvaluation \/ RecordCount \/ ClearDirty

----------------------------------------------------------------------------
(* Deep topify.  Its clusters go in as those of level 1 do; then the gray    *)
(* zone, each candidate in two transactions and the marks in one at the end. *)

DeepScan ==
  /\ dp = "scan"
  /\ gray' = {d \in decided \cap Research \cap sourced :
                d \notin reviewed \cup queue \cup rescued}
  /\ dp' = "save"
  /\ UNCHANGED <<storeVars, clusterVars, topifyVars, graded, missed>>

DeepSave ==
  /\ dp = "save"
  /\ \E g \in Grouped(live \ Clustered) : AddTopics(g)
  /\ todo' = [NoWork EXCEPT !.cluster = live \ Clustered]
  /\ dp' = "mark"
  /\ UNCHANGED <<storeVars, stage, decided, rescued, reviewed, queue, dirty, count, tp,
                 gray, graded, missed>>

(* The user came back while the model named the topics: nothing is saved.    *)
DeepAborts ==
  /\ dp = "save"
  /\ dp' = "done" /\ gray' = {}
  /\ UNCHANGED <<storeVars, clusterVars, topifyVars, graded, missed>>

DeepMark ==
  /\ dp = "mark"
  /\ MarkStage(todo.cluster, "clustered") /\ dp' = "gray" /\ todo' = NoWork
  /\ UNCHANGED <<storeVars, inTopics, decided, rescued, reviewed, queue, dirty, count, tp,
                 gray, graded, missed>>

(* The model answers for every candidate at once; a missing verdict is tried *)
(* again in a later pass.                                                    *)
GrayDecide(d, verdict) ==
  /\ dp = "gray" /\ d \in gray
  /\ rescued' = (IF verdict = "promote" THEN rescued \cup {d} ELSE rescued)
  /\ graded' = (IF verdict = "none" THEN graded ELSE graded \cup {d})
  /\ gray' = gray \ {d}
  /\ dp' = IF verdict = "promote" THEN "queue" ELSE "gray"
  /\ UNCHANGED <<storeVars, stage, inTopics, decided, reviewed, queue, dirty, count,
                 topifyVars, missed>>

GrayQueue ==
  /\ dp = "queue"
  /\ queue' = queue \cup (graded \cap rescued) /\ dp' = "gray"
  /\ UNCHANGED <<storeVars, stage, inTopics, decided, rescued, reviewed, dirty, count,
                 topifyVars, gray, graded, missed>>

(* No candidate left, or the user is back.                                   *)
GrayEnd(busy) ==
  /\ dp = "gray" /\ (gray = {} \/ busy)
  /\ reviewed' = reviewed \cup graded
  /\ dp' = "done" /\ gray' = {} /\ graded' = {}
  /\ UNCHANGED <<storeVars, stage, inTopics, decided, rescued, queue, dirty, count,
                 topifyVars, missed>>

DeepStep(busy) ==
  \/ DeepScan \/ DeepSave \/ (busy /\ DeepAborts) \/ DeepMark \/ GrayQueue \/ GrayEnd(busy)
  \/ \E d \in Docs, v \in {"promote", "keep", "none"} : GrayDecide(d, v)

(* A task that raises, or whose process dies, leaves what it committed.      *)
AbandonTopify(next) ==
  /\ tp' = next /\ todo' = NoWork
  /\ missed' = missed \cup IF tp = "eval" THEN todo.eval ELSE {}
  /\ UNCHANGED <<storeVars, clusterVars, deepVars>>

AbandonAll ==
  /\ tp' = "off" /\ todo' = NoWork /\ dp' = "off" /\ gray' = {} /\ graded' = {}
  /\ missed' = missed \cup (IF tp = "eval" THEN todo.eval ELSE {})
                      \cup (IF dp = "queue" THEN graded \cap rescued ELSE {})
  /\ UNCHANGED <<storeVars, clusterVars>>
=============================================================================
