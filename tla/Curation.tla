------------------------------ MODULE Curation ------------------------------
(* What the idle pass decides about a document of the landing corpus          *)
(* (agentic/idle_enrichment.py level 1, reporter/reporter_curation.py,        *)
(* agentic/promotion_policy.py), up to its file: duplicates of one batch are  *)
(* found by URL and by normalised text, the policy queues or rejects, the     *)
(* sweep deletes the files of what was rejected.  Enrichment holds the topics *)
(* of the same pass; here a document has an address and a text.              *)
EXTENDS Naturals, FiniteSets

CONSTANTS Docs, Urls, Texts,
          Worlds,   \* the address, text and origin the documents may have
          MaxStops  \* bound: passes that die before their end

(* Where a document comes from: a configured site, or a research run with a   *)
(* score above or below the threshold of the policy.                         *)
Origins == {"site", "high", "low"}

ASSUME DocsAssumption == /\ {"none", "main"} \cap Docs = {}
                         /\ Worlds \subseteq [Docs -> [url : Urls, text : Texts, origin : Origins]]

VARIABLES
  doc,       \* address, text and origin of every document
  file,      \* its file: "absent" (not ingested yet), "transit", "deleted", "archived"
  flagged,   \* duplicate_of_main, written when it is ingested
  decision,  \* the stored decision: its kind and what it duplicates
  review,    \* review_status of that decision
  curated,   \* documents with the "curated" checkpoint
  queue,     \* promotion_queue, by document
  main,      \* documents of the main corpus
  pass,      \* the pass that runs
  stops

vars == <<doc, file, flagged, decision, review, curated, queue, main, pass, stops>>

Undecided == [kind |-> "none", of |-> "none"]
NoPass == [pc |-> "off", todo |-> {}, eval |-> {}, known |-> {}, url |-> [u \in Urls |-> "none"],
           text |-> [t \in Texts |-> "none"], made |-> [d \in Docs |-> Undecided], rejected |-> {}]

Init ==
  /\ doc \in Worlds
  /\ file = [d \in Docs |-> "absent"] /\ flagged = {}
  /\ decision = [d \in Docs |-> Undecided] /\ review = [d \in Docs |-> "none"]
  /\ curated = {} /\ queue = [d \in Docs |-> "no"] /\ main = {}
  /\ pass = NoPass /\ stops = 0

Ingested == {d \in Docs : file[d] # "absent"}
TextsOf(S) == {doc[d].text : d \in S}

(* Tier 0 writes the normalised hash and compares it with those of main.      *)
Ingest(d) ==
  /\ file[d] = "absent"
  /\ file' = [file EXCEPT ![d] = "transit"]
  /\ flagged' = IF doc[d].text \in TextsOf(main) THEN flagged \cup {d} ELSE flagged
  /\ UNCHANGED <<doc, decision, review, curated, queue, main, pass, stops>>

(* Mutant: only what the batch has not curated yet is evaluated.             *)
PendingEvalNew == {d \in Ingested \ curated : queue[d] = "no"}

(* Every document the queue does not know, curated or not.                   *)
PendingEval == {d \in Ingested : queue[d] = "no"}

StartPass ==
  /\ pass.pc = "off" /\ (Ingested \ curated) \cup PendingEval # {}
  /\ pass' = [NoPass EXCEPT !.pc = "flag", !.todo = Ingested \ curated, !.eval = PendingEval]
  /\ UNCHANGED <<doc, file, flagged, decision, review, curated, queue, main, stops>>

OfMain == [kind |-> "duplicate", of |-> "main"]
Flagged == pass.todo \cap flagged

SaveFlagged ==
  /\ pass.pc = "flag"
  /\ decision' = [d \in Docs |-> IF d \in Flagged THEN OfMain ELSE decision[d]]
  /\ review' = [d \in Docs |-> IF d \in Flagged THEN "approved" ELSE review[d]]
  /\ pass' = [pass EXCEPT !.pc = "flagged"]
  /\ UNCHANGED <<doc, file, flagged, curated, queue, main, stops>>

(* What main holds is read once, before the loop over the batch.             *)
MarkFlagged ==
  /\ pass.pc = "flagged"
  /\ curated' = curated \cup Flagged
  /\ pass' = [pass EXCEPT !.pc = "curate", !.todo = @ \ flagged, !.known = main]
  /\ UNCHANGED <<doc, file, flagged, decision, review, queue, main, stops>>

AlreadyInMain(d) == \E k \in pass.known : doc[k].url = doc[d].url /\ doc[k].text = doc[d].text

(* Mutant: the document is noted before it is looked up, and finds itself.    *)
DecideNoted(d, late, near) ==
  IF late THEN [kind |-> "keep", of |-> "none"] ELSE [kind |-> "duplicate", of |-> d]

(* The gates in their order: date, identical download, address, text; then    *)
(* what is left is kept, or is near enough to a text of main to be one of its *)
(* duplicates.                                                               *)
Decide(d, late, near) ==
  LET Keep == [kind |-> "keep", of |-> "none"]
      Of(o) == [kind |-> "duplicate", of |-> o]
      u == pass.url[doc[d].url]
      t == pass.text[doc[d].text]
  IN CASE late -> Keep
       [] ~late /\ AlreadyInMain(d) -> OfMain
       [] ~late /\ ~AlreadyInMain(d) /\ u # "none" -> Of(u)
       [] ~late /\ ~AlreadyInMain(d) /\ u = "none" /\ t # "none" -> Of(t)
       [] OTHER -> IF near THEN OfMain ELSE Keep

(* The novelty gate: an embedding close to a text of main, confirmed by its   *)
(* words.                                                                    *)
Near(d) == IF doc[d].text \in TextsOf(pass.known) THEN BOOLEAN ELSE {FALSE}

(* The batch comes out of a set, in any order; a duplicate is remembered in   *)
(* the place of what it duplicates.                                          *)
Curate(d) ==
  /\ pass.pc = "curate" /\ d \in pass.todo /\ pass.made[d] = Undecided
  /\ \E late \in BOOLEAN, near \in Near(d) :
       pass' = [pass EXCEPT !.made[d] = Decide(d, late, near),
                            !.url[doc[d].url] = d, !.text[doc[d].text] = d]
  /\ UNCHANGED <<doc, file, flagged, decision, review, curated, queue, main, stops>>

SaveDecisions ==
  /\ pass.pc = "curate" /\ \A d \in pass.todo : pass.made[d] # Undecided
  /\ decision' = [d \in Docs |-> IF d \in pass.todo THEN pass.made[d] ELSE decision[d]]
  /\ review' = [d \in Docs |-> IF d \in pass.todo THEN "pending" ELSE review[d]]
  /\ pass' = [pass EXCEPT !.pc = "mark"]
  /\ UNCHANGED <<doc, file, flagged, curated, queue, main, stops>>

MarkCurated ==
  /\ pass.pc = "mark"
  /\ curated' = curated \cup pass.todo
  /\ pass' = [NoPass EXCEPT !.pc = "evaluate", !.eval = pass.eval]
  /\ UNCHANGED <<doc, file, flagged, decision, review, queue, main, stops>>

(* evaluate_promotion: a duplicate is out whatever its origin, a site passes, *)
(* a research document needs its score.                                      *)
Promotable(d) == decision[d].kind # "duplicate" /\ doc[d].origin \in {"site", "high"}

Evaluate(d) ==
  /\ pass.pc = "evaluate" /\ d \in pass.eval
  /\ IF Promotable(d)
     THEN queue' = [queue EXCEPT ![d] = "pending"] /\ pass' = [pass EXCEPT !.eval = @ \ {d}]
     ELSE /\ pass' = [pass EXCEPT !.eval = @ \ {d},
                        !.rejected = IF decision[d].kind = "duplicate" THEN @ \cup {d} ELSE @]
          /\ queue' = queue
  /\ UNCHANGED <<doc, file, flagged, decision, review, curated, main, stops>>

MarkRejected ==
  /\ pass.pc = "evaluate" /\ pass.eval = {}
  /\ review' = [d \in Docs |-> IF d \in pass.rejected THEN "rejected" ELSE review[d]]
  /\ pass' = NoPass
  /\ UNCHANGED <<doc, file, flagged, decision, curated, queue, main, stops>>

(* The process dies, or a call raises out of the pass.                       *)
Stop ==
  /\ pass.pc # "off" /\ stops < MaxStops /\ stops' = stops + 1 /\ pass' = NoPass
  /\ UNCHANGED <<doc, file, flagged, decision, review, curated, queue, main>>

(* The drain of Promotion: copied, then done in the queue.                   *)
Promote(d) ==
  /\ queue[d] = "pending"
  /\ main' = main \cup {d} /\ queue' = [queue EXCEPT ![d] = "done"]
  /\ UNCHANGED <<doc, file, flagged, decision, review, curated, pass, stops>>

(* The third pass of LandingSweep: promoted before rejected.                 *)
Sweep(d) ==
  /\ file[d] = "transit" /\ (d \in main \/ review[d] = "rejected")
  /\ file' = [file EXCEPT ![d] = IF d \in main THEN "archived" ELSE "deleted"]
  /\ UNCHANGED <<doc, flagged, decision, review, curated, queue, main, pass, stops>>

PassStep ==
  \/ StartPass \/ SaveFlagged \/ MarkFlagged \/ SaveDecisions \/ MarkCurated \/ MarkRejected
  \/ \E d \in Docs : Curate(d) \/ Evaluate(d)

Next ==
  \/ PassStep \/ Stop
  \/ \E d \in Docs : Ingest(d) \/ Promote(d) \/ Sweep(d)

(* Idle passes, drains and sweeps are scheduled for ever.                    *)
Fairness ==
  /\ WF_vars(PassStep)
  /\ \A d \in Docs : WF_vars(Promote(d)) /\ WF_vars(Sweep(d))

Spec == Init /\ [][Next]_vars /\ Fairness

TypeOK ==
  /\ doc \in [Docs -> [url : Urls, text : Texts, origin : Origins]]
  /\ file \in [Docs -> {"absent", "transit", "deleted", "archived"}]
  /\ decision \in [Docs -> [kind : {"none", "keep", "duplicate"}, of : Docs \cup {"none", "main"}]]
  /\ review \in [Docs -> {"none", "pending", "approved", "rejected"}]
  /\ queue \in [Docs -> {"no", "pending", "done"}]
  /\ flagged \cup curated \cup main \subseteq Docs

(* What ends a chain of duplicates: a document of main, or one that is kept.   *)
Original(d) ==
  \/ decision[d].kind = "duplicate" /\ decision[d].of = "main"
  \/ decision[d].kind = "keep" /\ file[d] # "deleted"

(* With a duplicate the set holds the document it duplicates: the chain that  *)
(* starts at d is the smallest such set with d in it.                        *)
Chained(S) == \A d \in S : decision[d].kind = "duplicate" /\ decision[d].of \in Docs => decision[d].of \in S

(* When the file of a duplicate is deleted, what it duplicates is still       *)
(* there, at whatever distance: the documents of a batch never take each      *)
(* other away, in whatever order the batch came, however often a pass died     *)
(* (reporter_curation.py, the url and text gates; MarkRejected after every     *)
(* decision is stored).                                                      *)
DuplicateHasOriginal ==
  \A d \in Docs : file[d] = "deleted" =>
    \A S \in SUBSET Docs : d \in S /\ Chained(S) => \E o \in S : Original(o)

(* A document of a configured site always ends: archived because main has it, *)
(* or deleted as a duplicate, whichever step a pass died at ("this runs on    *)
(* every cycle, not just newly curated docs", idle_enrichment.py).           *)
EveryDocumentSettles ==
  []<>(\A d \in Docs : doc[d].origin = "site" => file[d] # "transit")

(* "The content of a duplicate already lives in the main corpus, so deleting  *)
(* the redundant file loses nothing" (mark_curation_rejected): the text of a  *)
(* deleted file is in main, or at least queued for it.                       *)
DeletedIsInMain ==
  \A d \in Docs :
    file[d] = "deleted" =>
      \E o \in Docs : doc[o].text = doc[d].text /\ (o \in main \/ queue[o] # "no")
=============================================================================
