--------------------------------- MODULE Jobs ---------------------------------
(* The processes the dashboard starts (dashboard/jobs.py and the run thread of *)
(* dashboard/server.py): jobs asked for one by one, and the pipeline run, a    *)
(* thread that starts a scraper and a fast path of its own and reports in a    *)
(* progress file.  Both kill whatever of their kind they find by its command   *)
(* line, and the children outlive the dashboard.  The lock files of the jobs   *)
(* are left out: they are written and removed, and nothing reads them.        *)
EXTENDS Naturals, FiniteSets

CONSTANT Children  \* child processes that can exist at a time

VARIABLES
  up,     \* the dashboard runs
  child,  \* per child process: how it is, the kind of work, who started it
  known,  \* the JOBS table: per kind, the child or 0
  spawn,  \* the kind whose spawn_job holds JOBS_LOCK, or "none"
  run,    \* the pipeline thread: step, its scraper, its fast path
  progress \* the progress file: status, and whether its last write is old

vars == <<up, child, known, spawn, run, progress>>

Kinds == {"scraper", "pipeline", "lancedb"}
Shows == [scraper |-> "scrape", pipeline |-> "fast", lancedb |-> "inline"]  \* in its command line
Orphans == [scraper |-> "scrape", pipeline |-> "fast", lancedb |-> "fast"]  \* killed before a spawn
NoChild == [kind |-> "none", by |-> "none"]
NoRun == [pc |-> "off", sc |-> 0, fp |-> 0, ok |-> FALSE]
Nothing == [k \in Kinds |-> 0]

Init ==
  /\ up = TRUE /\ child = [p \in Children |-> NoChild]
  /\ known = Nothing /\ spawn = "none" /\ run = NoRun
  /\ progress = [st |-> "idle", old |-> FALSE]

Alive == {p \in Children : child[p] # NoChild}
Matching(patterns) == {p \in Alive : Shows[child[p].kind] \in patterns}
Started(p, k, who) == [child EXCEPT ![p] = [kind |-> k, by |-> who]]
Write(st) == progress' = [st |-> st, old |-> FALSE]

(* Children are gone: a job in the table that has ended is one that is not    *)
(* there, and the run sees how its scraper ended.                            *)
ChildAfter(P) == [p \in Children |-> IF p \in P THEN NoChild ELSE child[p]]
KnownAfter(P) == [k \in Kinds |-> IF known[k] \in P THEN 0 ELSE known[k]]
RunAfter(P, ok) == [run EXCEPT !.sc = IF @ \in P THEN 0 ELSE @, !.fp = IF @ \in P THEN 0 ELSE @,
                               !.ok = IF run.sc \in P THEN ok ELSE @]
Gone(P, ok) == child' = ChildAfter(P) /\ known' = KnownAfter(P) /\ run' = RunAfter(P, ok)

----------------------------------------------------------------------------
(* spawn_job, for POST scraper/run, fastpath/run and lancedb/run.             *)

SpawnAnyway(k) ==  \* mutant: nothing is killed first
  /\ up /\ spawn = "none" /\ known[k] = 0
  /\ spawn' = k /\ UNCHANGED <<up, child, known, run, progress>>

SpawnKills(k) ==
  /\ up /\ spawn = "none" /\ known[k] = 0
  /\ spawn' = k /\ Gone(Matching({Orphans[k]}), FALSE)
  /\ UNCHANGED <<up, progress>>

SpawnStarts ==
  /\ spawn # "none" /\ spawn' = "none"
  /\ \/ \E p \in Children \ Alive : /\ child' = Started(p, spawn, "job")
                                    /\ known' = [known EXCEPT ![spawn] = p]
     \/ UNCHANGED <<child, known>>
  /\ UNCHANGED <<up, run, progress>>

----------------------------------------------------------------------------
(* run_full_pipeline; POST pipeline/run refuses a second one.                 *)

RunBegins ==
  /\ up /\ run.pc = "off" /\ run' = [NoRun EXCEPT !.pc = "kill"]
  /\ UNCHANGED <<up, child, known, spawn, progress>>

RunKills ==
  /\ run.pc = "kill" /\ run' = [run EXCEPT !.pc = "scrape"]
  /\ LET P == Matching({"scrape", "fast"}) IN child' = ChildAfter(P) /\ known' = KnownAfter(P)
  /\ UNCHANGED <<up, spawn, progress>>

RunScrapes(p) ==
  /\ run.pc = "scrape" /\ p \notin Alive
  /\ Write("running") /\ child' = Started(p, "scraper", "run")
  /\ run' = [run EXCEPT !.pc = "fast", !.sc = p]
  /\ UNCHANGED <<up, known, spawn>>

RunIndexes(p) ==
  /\ run.pc = "fast" /\ p \notin Alive
  /\ child' = Started(p, "pipeline", "run") /\ run' = [run EXCEPT !.pc = "register", !.fp = p]
  /\ UNCHANGED <<up, known, spawn, progress>>

RunRegisters ==
  /\ run.pc = "register" /\ spawn = "none" /\ run' = [run EXCEPT !.pc = "scraping"]
  /\ known' = [known EXCEPT !["scraper"] = run.sc, !["pipeline"] = run.fp]
  /\ UNCHANGED <<up, child, spawn, progress>>

(* The counts of one turn of a waiting loop; a store that cannot be read is   *)
(* passed over without a write.                                              *)
ScrapeCounts ==
  /\ run.pc = "scraping" /\ run.sc # 0 /\ Write("running")
  /\ UNCHANGED <<up, child, known, spawn, run>>

IndexCounts ==
  /\ run.pc = "indexing" /\ run.fp # 0 /\ Write("running")
  /\ UNCHANGED <<up, child, known, spawn, run>>

ScraperFailed ==
  /\ run.pc = "scraping" /\ run.sc = 0 /\ ~run.ok
  /\ Write("failed") /\ run' = NoRun
  /\ child' = ChildAfter({run.fp}) /\ known' = KnownAfter({run.fp} \ {0})
  /\ UNCHANGED <<up, spawn>>

(* For a moment the file of the whole run says done.                          *)
ScraperDone ==
  /\ run.pc = "scraping" /\ run.sc = 0 /\ run.ok
  /\ Write("done") /\ run' = [run EXCEPT !.pc = "scraped"]
  /\ UNCHANGED <<up, child, known, spawn>>

RunWaits ==
  /\ run.pc = "scraped" /\ Write("running") /\ run' = [run EXCEPT !.pc = "indexing"]
  /\ UNCHANGED <<up, child, known, spawn>>

(* Six hours, a safety net.                                                  *)
RunGivesUp ==
  /\ run.pc = "indexing" /\ run.fp # 0 /\ Gone({run.fp}, FALSE)
  /\ UNCHANGED <<up, spawn, progress>>

(* However the fast path ended.                                              *)
RunEnds ==
  /\ run.pc = "indexing" /\ run.fp = 0
  /\ Write("done") /\ run' = NoRun
  /\ UNCHANGED <<up, child, known, spawn>>

(* A program that cannot be started; the one started before it goes on.        *)
RunRaises ==
  /\ run.pc \in {"scrape", "fast"} /\ Write("failed") /\ run' = NoRun
  /\ UNCHANGED <<up, child, known, spawn>>

----------------------------------------------------------------------------
(* Everything else that touches them.                                        *)

(* The inline lancedb command imports a module that does not exist.           *)
ChildEnds(p) ==
  /\ p \in Alive
  /\ \E ok \in BOOLEAN : (child[p].kind = "lancedb" => ~ok) /\ Gone({p}, ok)
  /\ UNCHANGED <<up, spawn, progress>>

Ages ==
  /\ progress.st = "running" /\ ~progress.old /\ progress' = [progress EXCEPT !.old = TRUE]
  /\ UNCHANGED <<up, child, known, spawn, run>>

InterruptedNever == FALSE  \* mutant: the file is believed for ever
Interrupted == progress.st = "running" /\ progress.old

(* GET state.  process_status drops every job from the table, the running     *)
(* ones too, so that the view which then decides whether a run is dead sees    *)
(* no job alive and goes by the age of the file alone.                       *)
Status ==
  /\ up /\ spawn = "none"
  /\ known' = Nothing
  /\ progress' = IF Interrupted THEN [st |-> "interrupted", old |-> FALSE] ELSE progress
  /\ UNCHANGED <<up, child, spawn, run>>

(* POST process/stop.                                                        *)
Stop ==
  /\ up /\ spawn = "none"
  /\ LET P == Matching({"scrape", "fast"}) \cup {p \in Alive : \E k \in Kinds : known[k] = p} IN
       child' = ChildAfter(P) /\ run' = RunAfter(P, FALSE)
  /\ known' = Nothing /\ Write("idle")
  /\ UNCHANGED <<up, spawn>>

(* POST process/kill, with the pid of any of them.                            *)
Kill(p) ==
  /\ up /\ spawn = "none" /\ p \in Alive /\ Gone({p}, FALSE)
  /\ UNCHANGED <<up, spawn, progress>>

(* The dashboard dies and starts again; its children go on in between.        *)
Die ==
  /\ up /\ up' = FALSE
  /\ known' = Nothing /\ spawn' = "none" /\ run' = NoRun
  /\ UNCHANGED <<child, progress>>

Start ==
  /\ ~up /\ up' = TRUE
  /\ child' = ChildAfter(Matching({"scrape", "fast"}))
  /\ UNCHANGED <<known, spawn, run, progress>>

RunStep ==
  \/ RunKills \/ (\E p \in Children : RunScrapes(p) \/ RunIndexes(p)) \/ RunRegisters
  \/ ScraperFailed \/ ScraperDone \/ RunWaits \/ RunEnds

Next ==
  \/ \E k \in Kinds : SpawnKills(k)
  \/ \E p \in Children : ChildEnds(p) \/ Kill(p)
  \/ SpawnStarts \/ RunBegins \/ RunStep \/ ScrapeCounts \/ IndexCounts \/ RunGivesUp \/ RunRaises
  \/ Ages \/ Status \/ Stop \/ Die \/ Start

(* The thread runs, children end, the file ages and a page polls the state.   *)
Fairness ==
  /\ WF_vars(RunStep) /\ WF_vars(SpawnStarts) /\ WF_vars(Start) /\ WF_vars(Ages)
  /\ SF_vars(Status)
  /\ \A p \in Children : WF_vars(ChildEnds(p))

Spec == Init /\ [][Next]_vars /\ Fairness

----------------------------------------------------------------------------
(* Two scrapers would claim the same sources and two fast paths write the same *)
(* stores: of the jobs asked for one by one at most one of a kind is alive,    *)
(* and the same of the runs, although the table that should refuse a second    *)
(* one forgets its jobs at every poll and at every restart.  A job and a run   *)
(* that start together do end up side by side.                               *)
OneOfAKind == \A p, q \in Alive :
  child[p] = child[q] /\ child[p].kind \in {"scraper", "pipeline"} => p = q

(* What is shown as a running pipeline is one, or is soon shown otherwise:    *)
(* the file outlives the thread that writes it when the dashboard dies.      *)
ShownIsAlive == []<>(progress.st = "running" => run.pc # "off")
=============================================================================
