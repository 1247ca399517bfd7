------------------------------- MODULE Review -------------------------------
(* The queue of articles a research rejected, and those who read them again:  *)
(* the review worker, one article at a time while the user is away, and the   *)
(* batch task of tier 2.  Both write a promoted article into one directory   *)
(* and run the fast path over all of it.                                     *)
EXTENDS Naturals, FiniteSets

CONSTANTS Items,      \* rejected articles; a review id is an url and a query
          Reviewers

VARIABLES
  item,      \* review_queue: the status of each article
  files,     \* the review directory
  indexed,   \* those of its files the staging corpus has
  sourced,   \* of those, with provenance
  rv, batch, cur, mine,  \* per reviewer: step, snapshot of the pending
                         \* articles, the one in work, whether its own scan
                         \* returned the document
  taken      \* history: articles another scan indexed, or one that died

queueVars == <<item, files, indexed, sourced, taken>>
reviewerVars == <<rv, batch, cur, mine>>
reviewVars == <<queueVars, reviewerVars>>

ReviewTypeOK ==
  /\ item \in [Items -> {"none", "pending", "promoted", "discarded", "error"}]
  /\ {files, indexed, sourced, taken} \subseteq SUBSET Items
  /\ rv \in [Reviewers -> {"off", "judge", "write", "ingest", "source", "mark"}]
  /\ batch \in [Reviewers -> SUBSET Items]
  /\ cur \in [Reviewers -> SUBSET Items] /\ mine \in [Reviewers -> BOOLEAN]

ReviewInit(pending) ==
  /\ item = [i \in Items |-> IF i \in pending THEN "pending" ELSE "none"]
  /\ files = {} /\ indexed = {} /\ sourced = {} /\ taken = {}
  /\ rv = [w \in Reviewers |-> "off"] /\ batch = [w \in Reviewers |-> {}]
  /\ cur = [w \in Reviewers |-> {}] /\ mine = [w \in Reviewers |-> FALSE]

(* INSERT OR REPLACE: an article queued again is pending again.              *)
Enqueue(items) == item' = [i \in Items |-> IF i \in items THEN "pending" ELSE item[i]]

Pending == {i \in Items : item[i] = "pending"}
Mark(i, s) == item' = [item EXCEPT ![i] = s]
GoTo(w, s) == rv' = [rv EXCEPT ![w] = s]

Poll(w) ==
  /\ rv[w] = "off" /\ Pending # {}
  /\ batch' = [batch EXCEPT ![w] = Pending] /\ GoTo(w, "judge")
  /\ UNCHANGED <<queueVars, cur, mine>>

(* Mutant: the article is marked before it is ingested.                      *)
VerdictMarks(w, i, v) ==
  /\ rv[w] = "judge" /\ i \in batch[w]
  /\ batch' = [batch EXCEPT ![w] = @ \ {i}] /\ Mark(i, v)
  /\ IF v = "promoted" THEN cur' = [cur EXCEPT ![w] = {i}] /\ GoTo(w, "write")
                       ELSE UNCHANGED <<rv, cur>>
  /\ UNCHANGED <<files, indexed, sourced, taken, mine>>

(* The verdict of the model on an article of the snapshot.  Nobody looks     *)
(* whether it is still pending.                                              *)
Verdict(w, i, v) ==
  /\ rv[w] = "judge" /\ i \in batch[w]
  /\ batch' = [batch EXCEPT ![w] = @ \ {i}]
  /\ IF v = "promoted"
       THEN cur' = [cur EXCEPT ![w] = {i}] /\ GoTo(w, "write") /\ UNCHANGED item
       ELSE Mark(i, v) /\ UNCHANGED <<rv, cur>>
  /\ UNCHANGED <<files, indexed, sourced, taken, mine>>

(* No article left, or the user is back.                                     *)
EndReview(w) ==
  /\ rv[w] = "judge"
  /\ GoTo(w, "off") /\ batch' = [batch EXCEPT ![w] = {}]
  /\ UNCHANGED <<queueVars, cur, mine>>

WriteFile(w) ==
  /\ rv[w] = "write"
  /\ files' = files \cup cur[w] /\ GoTo(w, "ingest")
  /\ UNCHANGED <<item, indexed, sourced, taken, batch, cur, mine>>

(* The scan skips what is indexed; what it does index it returns, but the    *)
(* caller looks for its own article only.                                    *)
ScanDirectory(w) ==
  /\ rv[w] = "ingest"
  /\ indexed' = indexed \cup files
  /\ mine' = [mine EXCEPT ![w] = cur[w] \cap indexed = {}]
  /\ taken' = taken \cup ((files \ indexed) \ cur[w])
  /\ GoTo(w, "source")
  /\ UNCHANGED <<item, files, sourced, batch, cur>>

ScanFails(w) ==
  /\ rv[w] = "ingest"
  /\ \E i \in cur[w] : Mark(i, "error")
  /\ GoTo(w, "judge") /\ cur' = [cur EXCEPT ![w] = {}]
  /\ UNCHANGED <<files, indexed, sourced, taken, batch, mine>>

RecordSource(w) ==
  /\ rv[w] = "source"
  /\ sourced' = IF mine[w] THEN sourced \cup cur[w] ELSE sourced
  /\ GoTo(w, "mark")
  /\ UNCHANGED <<item, files, indexed, taken, batch, cur, mine>>

MarkPromoted(w) ==
  /\ rv[w] = "mark"
  /\ \E i \in cur[w] : Mark(i, "promoted")
  /\ GoTo(w, "judge") /\ cur' = [cur EXCEPT ![w] = {}] /\ mine' = [mine EXCEPT ![w] = FALSE]
  /\ UNCHANGED <<files, indexed, sourced, taken, batch>>

ReviewStep(w) ==
  \/ Poll(w) \/ EndReview(w) \/ WriteFile(w) \/ ScanDirectory(w) \/ ScanFails(w)
  \/ RecordSource(w) \/ MarkPromoted(w)
  \/ \E i \in Items, v \in {"promoted", "discarded", "error"} : Verdict(w, i, v)

(* The dashboard dies with both of them.                                     *)
ReviewDies ==
  /\ taken' = taken \cup UNION {cur[w] : w \in {u \in Reviewers : rv[u] = "source" /\ mine[u]}}
  /\ rv' = [w \in Reviewers |-> "off"] /\ batch' = [w \in Reviewers |-> {}]
  /\ cur' = [w \in Reviewers |-> {}] /\ mine' = [w \in Reviewers |-> FALSE]
  /\ UNCHANGED <<item, files, indexed, sourced>>

----------------------------------------------------------------------------
(* A promoted article is in the corpus with its provenance, without which no  *)
(* policy ever accepts it, or a reviewer is about to record it, whatever       *)
(* repeated verdicts and restarts do.  The exception are articles that the    *)
(* scan of another reviewer, or of one that died, had indexed first: they     *)
(* are skipped.                                                              *)
RecordsSource(i) == \E w \in Reviewers : rv[w] = "source" /\ mine[w] /\ i \in cur[w]
PromotedHasSource ==
  \A i \in Items :
    item[i] = "promoted" => i \in indexed /\ (i \in sourced \cup taken \/ RecordsSource(i))
=============================================================================
