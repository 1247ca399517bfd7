------------------------------ MODULE Reports ------------------------------
(* A report from its corpus to its review: reporter/reporter_pipeline.py      *)
(* (CLI run), agent/compile_report_executor.py (the assistant's tool) and the *)
(* report routes of the dashboard (dashboard/api.py, dashboard/server.py).    *)
(* Two directories may hold a report: the one of the pipeline and the one of  *)
(* the tool; latest_report takes the file written last.  A category is the    *)
(* set of its documents, which its identifier is a hash of.                   *)
EXTENDS Naturals, FiniteSets

CONSTANTS Docs,        \* documents of the input directory
          MaxRuns,     \* bound: pipeline runs and tool calls
          MaxHuman,    \* bound: edits, reviews and deletions
          MaxCrashes

Dirs == {"pipeline", "tool"}

VARIABLES
  corpus,    \* documents in the report corpus
  tantivy,   \* its lexical index: whether the directory exists, and what it holds
  lance,     \* documents with vectors
  decisions, \* reporter.db: the kind of a decision and its review
  topics,    \* reporter.db of each directory: its categories
  file,      \* report.json of each directory
  latest,    \* the directory whose report.json was written last
  reviewed,  \* report_reviews
  main,      \* documents of the main corpus
  run,       \* the pipeline run
  tool,      \* the tool call
  edit,      \* an edit of a topic: the report it has read
  progress,  \* reporter_progress.json
  runs, human, crashes

rvars == <<corpus, tantivy, lance, decisions, topics, file, latest, reviewed, main,
           run, tool, edit, progress, runs, human, crashes>>

NoReport == [state |-> "none", cats |-> {}]
Idle == [pc |-> "off", made |-> [d \in Docs |-> "none"], cats |-> {}]
NoEdit == [dir |-> "none", cats |-> {}, of |-> {}]

Init ==
  /\ corpus = {} /\ tantivy = [dir |-> FALSE, has |-> {}] /\ lance = {}
  /\ decisions = [d \in Docs |-> [kind |-> "none", review |-> "none"]]
  /\ topics = [x \in Dirs |-> {}] /\ file = [x \in Dirs |-> NoReport] /\ latest = "none"
  /\ reviewed = "none" /\ main = {} /\ run = Idle /\ tool = Idle /\ edit = NoEdit
  /\ progress = "none" /\ runs = 0 /\ human = 0 /\ crashes = 0

IndexVars == <<corpus, tantivy, lance>>
Human == human < MaxHuman /\ human' = human + 1

(* The run holds the write lock of its reporter.db from its first decision to *)
(* the commit of its topics: another writer waits and raises.                 *)
StoreLocked == run.pc = "topics"

(* ---------------------------- the pipeline run --------------------------- *)
(* The corpus counts as populated as soon as it holds one document.           *)
Populated == corpus # {}

Start ==
  /\ run.pc = "off" /\ runs < MaxRuns
  /\ runs' = runs + 1 /\ progress' = "running"
  /\ run' = [Idle EXCEPT !.pc = IF Populated THEN "index" ELSE "ingest"]
  /\ UNCHANGED <<IndexVars, decisions, topics, file, latest, reviewed, main, tool, edit, human, crashes>>

(* An empty corpus takes the files one by one.  A corpus that holds anything  *)
(* is not filled any further.                                                 *)
Ingest ==
  /\ run.pc = "ingest"
  /\ IF corpus = Docs THEN run' = [run EXCEPT !.pc = "index"] /\ UNCHANGED corpus
     ELSE \E d \in Docs \ corpus : corpus' = corpus \cup {d} /\ UNCHANGED run
  /\ UNCHANGED <<tantivy, lance, decisions, topics, file, latest, reviewed, main, tool, edit,
                 progress, runs, human, crashes>>

(* The lexical index is built only where its directory does not exist.  It is *)
(* created, then filled.                                                      *)
Tantivy ==
  /\ run.pc = "index"
  /\ IF tantivy.dir \/ ~Populated THEN UNCHANGED tantivy /\ run' = [run EXCEPT !.pc = "vectors"]
     ELSE tantivy' = [tantivy EXCEPT !.dir = TRUE] /\ run' = [run EXCEPT !.pc = "fill"]
  /\ UNCHANGED <<corpus, lance, decisions, topics, file, latest, reviewed, main, tool, edit,
                 progress, runs, human, crashes>>

Fill ==
  /\ run.pc = "fill"
  /\ tantivy' = [tantivy EXCEPT !.has = corpus] /\ run' = [run EXCEPT !.pc = "vectors"]
  /\ UNCHANGED <<corpus, lance, decisions, topics, file, latest, reviewed, main, tool, edit,
                 progress, runs, human, crashes>>

(* Vectors that are missing are copied from main or embedded; an error only   *)
(* leaves them out.                                                           *)
IndexLance ==
  /\ run.pc = "vectors"
  /\ lance' \in (IF Cardinality(lance) < Cardinality(corpus)
                 THEN {lance \cup S : S \in {corpus, corpus \cap main, {}}} ELSE {lance})
  /\ run' = [run EXCEPT !.pc = "curate"]
  /\ UNCHANGED <<corpus, tantivy, decisions, topics, file, latest, reviewed, main, tool, edit,
                 progress, runs, human, crashes>>

(* Every file of the input is a document, in the corpus or not; every         *)
(* document is decided.  The decisions replace the stored ones when the       *)
(* transaction ends.                                                          *)
Documents == Docs
Kinds == {"promote", "duplicate", "irrelevant"}
Selected(made) == {d \in Docs : made[d] = "promote"}

Curate ==
  /\ run.pc = "curate"
  /\ \E made \in [Documents -> Kinds] : run' = [run EXCEPT !.pc = "topics", !.made = made]
  /\ UNCHANGED <<IndexVars, decisions, topics, file, latest, reviewed, main, tool, edit,
                 progress, runs, human, crashes>>

(* The groups of the selected documents: one group, or one each.              *)
Groupings(S) == IF S = {} THEN {{}} ELSE {{S}, {{d} : d \in S}}

TopicsLater ==
  /\ run.pc = "topics"
  /\ \E cats \in Groupings(Selected(run.made)) :
        run' = [run EXCEPT !.pc = "write", !.cats = cats, !.made = Idle.made]
  /\ UNCHANGED <<IndexVars, topics, decisions, file, latest, reviewed, main, tool, edit, progress, runs, human, crashes>>

(* Topics, then one commit for decisions and topics: the categories of former *)
(* runs of the same report stay.                                              *)
Topics ==
  /\ run.pc = "topics"
  /\ \E cats \in Groupings(Selected(run.made)) :
        /\ run' = [run EXCEPT !.pc = "write", !.cats = cats, !.made = Idle.made]
        /\ topics' = [topics EXCEPT !["pipeline"] = @ \cup cats]
  /\ decisions' \in [Docs -> [kind : Kinds, review : {"pending", "approved"}]]
  /\ \A d \in Docs : /\ decisions'[d].kind = run.made[d]
                     /\ decisions'[d].review = "approved" => run.made[d] = "promote"   \* auto-promotion
  /\ UNCHANGED <<IndexVars, file, latest, reviewed, main, tool, edit, progress, runs, human, crashes>>

(* report.json is rewritten in place; then the run is recorded and reported.  *)
WriteFile(dir, cats) ==
  /\ file' = [file EXCEPT ![dir] = [state |-> "whole", cats |-> cats]] /\ latest' = dir

Write ==
  /\ run.pc = "write" /\ WriteFile("pipeline", run.cats)
  /\ run' = [run EXCEPT !.pc = "record"]
  /\ UNCHANGED <<IndexVars, decisions, topics, reviewed, main, tool, edit, progress, runs, human, crashes>>

Record ==
  /\ run.pc = "record" /\ run' = Idle /\ progress' = "completed"
  /\ UNCHANGED <<IndexVars, decisions, topics, file, latest, reviewed, main, tool, edit, runs, human, crashes>>

(* An exception is reported; a process that dies leaves its progress, and a   *)
(* file it was writing.                                                       *)
Fail ==
  /\ run.pc # "off" /\ crashes < MaxCrashes /\ crashes' = crashes + 1
  /\ run' = Idle /\ progress' \in {"failed", progress}
  /\ IF run.pc = "write" /\ progress' = progress
     THEN \/ UNCHANGED <<file, latest>>
          \/ file' = [file EXCEPT !["pipeline"] = [state |-> "torn", cats |-> {}]] /\ latest' = "pipeline"
     ELSE UNCHANGED <<file, latest>>
  /\ UNCHANGED <<IndexVars, decisions, topics, reviewed, main, tool, edit, runs, human>>

(* -------------------------- the assistant's tool ------------------------- *)
(* The tool reads main, writes its file first and its store afterwards.       *)
Loadable == main

Compile ==
  /\ tool.pc = "off" /\ runs < MaxRuns /\ runs' = runs + 1
  /\ \E S \in SUBSET Loadable : S # {} /\ \E cats \in Groupings(S) :
        tool' = [Idle EXCEPT !.pc = "write", !.cats = cats]
  /\ UNCHANGED <<IndexVars, decisions, topics, file, latest, reviewed, main, run, edit, progress, human, crashes>>

CompileWrite ==
  /\ tool.pc = "write" /\ WriteFile("tool", tool.cats) /\ tool' = [tool EXCEPT !.pc = "store"]
  /\ UNCHANGED <<IndexVars, decisions, topics, reviewed, main, run, edit, progress, runs, human, crashes>>

CompileStore ==
  /\ tool.pc = "store" /\ tool' = Idle
  /\ topics' = [topics EXCEPT !["tool"] = @ \cup tool.cats]
  /\ UNCHANGED <<IndexVars, decisions, file, latest, reviewed, main, run, edit, progress, runs, human, crashes>>

(* ------------------------------- the routes ------------------------------ *)
Found == file["pipeline"].state # "none"
Latest == IF latest = "none" THEN NoReport ELSE file[latest]

(* An edit reads the latest report, replaces its file, then the store.        *)
EditRead ==
  /\ edit = NoEdit /\ Human /\ Latest.state = "whole"
  /\ \E c \in Latest.cats : edit' = [dir |-> latest, cats |-> Latest.cats, of |-> c]
  /\ UNCHANGED <<IndexVars, decisions, topics, file, latest, reviewed, main, run, tool, progress, runs, crashes>>

(* update_topic finds the category, or raises, or meets the locked store; it  *)
(* changes a label and no membership.                                         *)
EditWrite ==
  /\ edit # NoEdit /\ edit' = NoEdit /\ WriteFile(edit.dir, edit.cats)
  /\ UNCHANGED <<IndexVars, decisions, topics, reviewed, main, run, tool, progress, runs, human, crashes>>

(* The human's answer to one decision.                                        *)
DecisionReview(d) ==
  /\ Human /\ Latest.state # "none" /\ latest = "pipeline" /\ ~StoreLocked
  /\ decisions[d].kind # "none"
  /\ \E s \in {"approved", "rejected"} : decisions' = [decisions EXCEPT ![d].review = s]
  /\ UNCHANGED <<IndexVars, topics, file, latest, reviewed, main, run, tool, edit, progress, runs, crashes>>

(* What the approval of a report promotes: the approved documents, or every   *)
(* document with metadata when there are none.                                *)
ToPromote ==
  LET approved == {d \in Docs : decisions[d].review = "approved"}
  IN IF approved # {} THEN approved ELSE {d \in Docs : decisions[d].kind # "none"}

ReportApproved ==
  /\ Human /\ Found /\ reviewed' = "approved"
  /\ main' = main \cup (ToPromote \cap corpus)
  /\ UNCHANGED <<IndexVars, decisions, topics, file, latest, run, tool, edit, progress, runs, crashes>>

ChangesRequested ==
  /\ Human /\ Found /\ reviewed' = "changes_requested"
  /\ UNCHANGED <<IndexVars, decisions, topics, file, latest, main, run, tool, edit, progress, runs, crashes>>

(* Rejecting or deleting a report removes the directories below it: rmtree    *)
(* leaves the files (report.json, reporter.db) where they are.                *)
DeleteReport ==
  /\ Human /\ Found
  /\ corpus' = {} /\ tantivy' = [dir |-> FALSE, has |-> {}] /\ lance' = {}
  /\ reviewed' = "none" /\ progress' = "none"
  /\ UNCHANGED <<decisions, topics, file, latest, main, run, tool, edit, runs, crashes>>

(* The fast path of the pipeline fills the same corpus.                       *)
FastPath(d) ==
  /\ d \notin corpus /\ run.pc = "off" /\ corpus' = corpus \cup {d}
  /\ lance' \in {lance, lance \cup {d}}
  /\ UNCHANGED <<tantivy, decisions, topics, file, latest, reviewed, main, run, tool, edit,
                 progress, runs, human, crashes>>

Next ==
  \/ Start \/ Ingest \/ Tantivy \/ Fill \/ IndexLance \/ Curate \/ Topics \/ Write \/ Record \/ Fail
  \/ Compile \/ CompileWrite \/ CompileStore
  \/ EditRead \/ EditWrite \/ ReportApproved \/ ChangesRequested \/ DeleteReport
  \/ \E d \in Docs : DecisionReview(d) \/ FastPath(d)

Spec == Init /\ [][Next]_rvars

TypeOK ==
  /\ corpus \subseteq Docs /\ tantivy.has \subseteq Docs /\ lance \subseteq Docs /\ main \subseteq Docs
  /\ file \in [Dirs -> [state : {"none", "whole", "torn"}, cats : SUBSET SUBSET Docs]]
  /\ topics \in [Dirs -> SUBSET SUBSET Docs]
  /\ progress \in {"none", "running", "completed", "failed"}

(* Every category a human can edit in the report of the pipeline is in its    *)
(* store: the topics are committed before report.json is written, and neither *)
(* a dead run, a later run of the same report nor an edit of an older reading *)
(* brings a category to the file that the store does not have                 *)
(* (reporter_pipeline.run, server.update_latest_topic).                       *)
EditableIsStored == file["pipeline"].cats \subseteq topics["pipeline"]

(* Nothing the human rejected, and no duplicate, enters main with the report: *)
(* without approved decisions all non-duplicate documents are promoted        *)
(* (dashboard/api.py, /api/reports/review).                                   *)
OnlyCleanPromoted ==
  [][\A d \in main' \ main : decisions[d].review = "approved"
                             \/ (decisions[d].kind # "duplicate" /\ decisions[d].review # "rejected")]_rvars

(* A deleted report is gone: report.json with the corpus and the store        *)
(* (server.delete_report).                                                    *)
DeletedIsGone == [][lance # {} /\ lance' = {} => file'["pipeline"] = NoReport]_rvars
=============================================================================
