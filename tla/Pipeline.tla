------------------------------ MODULE Pipeline ------------------------------
(* The ingestion run: a thread of the dashboard starts the scraper and the   *)
(* fast path, waits for the first, lets the second drain and sweeps Landing. *)
(* The fast path is a process of its own with two threads: the watch loop    *)
(* that ingests, and the drain that embeds what the loop committed.  The     *)
(* processes share files only: the done sentinel, the tier 0 lease, the      *)
(* heavy-work lock, the job lease and the corpora.                           *)
EXTENDS Naturals, FiniteSets

CONSTANTS Files,      \* what the sites publish: one document, one chunk each
          IdleExit,   \* --idle-exit: idle iterations before the watch ends
          PassChunks, \* EMBED_PASS_CHUNKS: chunks embedded in one pass
          MaxRuns,    \* bound: pipeline runs
          MaxFaults   \* bound: crashes, busy files, foreign locks

ASSUME FilesAssumption == IsFiniteSet(Files)
ASSUME IdleExitAssumption == IdleExit \in Nat \ {0}
ASSUME PassAssumption == PassChunks \in Nat \ {0}

VARIABLES
  dash,      \* the dashboard process lives
  pl,        \* the pipeline thread
  progress,  \* pipeline_progress.json: <<stage, status>>
  scraper, scraped, sentinel, stale,
  landing,   \* files under Landing/web
  fp, fpOut, rounds, news, todo,
  store,     \* chunks committed to the document store
  drain, drainOut, over, last, queue, took, idle,
  lance,     \* chunks with a vector
  tier0,     \* another ingestion holds the tier 0 lease
  heavy,     \* another process holds or awaits the heavy-work lock
  runs, faults

dashVars == <<dash, pl, progress, runs>>
scrapeVars == <<scraper, scraped, sentinel, stale>>
watchVars == <<fp, fpOut, rounds, news, todo>>
drainVars == <<drain, drainOut, over, last, queue, took, idle>>
dataVars == <<landing, store, lance>>
envVars == <<tier0, heavy, faults>>
vars == <<dashVars, scrapeVars, watchVars, drainVars, dataVars, envVars>>

Watching == {"first", "pass", "check", "join"}
Drained == {"none", "ended"}

TypeOK ==
  /\ dash \in BOOLEAN /\ sentinel \in BOOLEAN /\ stale \in BOOLEAN
  /\ pl \in {"off", "scrape", "wait", "sweep", "ended"}
  /\ progress \in {"idle", "scraper", "fast_path", "ingestion", "scraper failed"}
                    \X {"idle", "running", "done", "failed", "interrupted"}
  /\ scraper \in {"none", "running", "ok", "failed", "killed"}
  /\ fp \in {"none", "claim", "ended"} \cup Watching
  /\ fpOut \in {"none", "idle", "orphan", "refused", "crashed", "killed"}
  /\ rounds \in 0 .. IdleExit /\ news \in {"none", "some", "busy"}
  /\ {todo, landing, scraped, store, lance, queue} \subseteq SUBSET Files
  /\ drain \in {"lease", "head", "pass", "report"} \cup Drained
  /\ drainOut \in {"none", "ok", "gave up", "failed"}
  /\ over \in BOOLEAN /\ last \in BOOLEAN /\ idle \in BOOLEAN /\ took \in BOOLEAN
  /\ tier0 \in BOOLEAN /\ heavy \in BOOLEAN
  /\ runs \in 0 .. MaxRuns /\ faults \in 0 .. MaxFaults

Init ==
  /\ dash = TRUE /\ pl = "off" /\ progress = <<"idle", "idle">>
  /\ scraper = "none" /\ scraped = {} /\ sentinel = FALSE /\ stale = FALSE
  /\ landing = {}
  /\ fp = "none" /\ fpOut = "none" /\ rounds = 0 /\ news = "none" /\ todo = {}
  /\ store = {} /\ lance = {}
  /\ drain = "none" /\ drainOut = "none" /\ over = FALSE /\ last = FALSE /\ queue = {}
  /\ took = FALSE /\ idle = FALSE
  /\ tier0 \in BOOLEAN /\ heavy = FALSE
  /\ runs = 0 /\ faults = 0

Fault == faults < MaxFaults /\ faults' = faults + 1

----------------------------------------------------------------------------
(* The pipeline thread.                                                     *)

(* Kill what an earlier run left, drop the old sentinel, start both          *)
(* children.  Removing the sentinel may fail and the failure is swallowed.   *)
StartRun ==
  /\ dash /\ pl \in {"off", "ended"} /\ runs < MaxRuns
  /\ runs' = runs + 1
  /\ pl' = "scrape" /\ progress' = <<"scraper", "running">>
  /\ \/ sentinel' = FALSE /\ stale' = FALSE /\ UNCHANGED faults
     \/ sentinel /\ Fault /\ stale' = TRUE /\ UNCHANGED sentinel
  /\ scraper' = "running"
  /\ fp' = "claim" /\ fpOut' = "none" /\ rounds' = 0 /\ news' = "none" /\ todo' = {}
  /\ drain' = "none" /\ drainOut' = "none" /\ over' = FALSE /\ last' = FALSE /\ queue' = {}
  /\ took' = FALSE /\ idle' = FALSE
  /\ UNCHANGED <<dash, scraped, dataVars, tier0, heavy>>

(* TerminateProcess on the fast path: both its threads stop where they are.  *)
StopFastPath ==
  IF fp = "ended" THEN UNCHANGED <<fp, fpOut, drain>>
  ELSE fp' = "ended" /\ fpOut' = "killed" /\ drain' = "ended"

ScraperFailed ==
  /\ dash /\ pl = "scrape" /\ scraper \in {"failed", "killed"}
  /\ progress' = <<"scraper failed", "failed">> /\ pl' = "ended"
  /\ StopFastPath
  /\ UNCHANGED <<dash, runs, scrapeVars, rounds, news, todo, drainOut, over, last, queue,
                 took, idle, dataVars, envVars>>

ScraperDone ==
  /\ dash /\ pl = "scrape" /\ scraper = "ok"
  /\ sentinel' = TRUE
  /\ progress' = <<"fast_path", "running">> /\ pl' = "wait"
  /\ UNCHANGED <<dash, runs, scraper, scraped, stale, watchVars, drainVars, dataVars, envVars>>

(* The return code of the fast path is not looked at.                        *)
FastPathEnded ==
  /\ dash /\ pl = "wait" /\ fp = "ended"
  /\ pl' = "sweep"
  /\ UNCHANGED <<dash, progress, runs, scrapeVars, watchVars, drainVars, dataVars, envVars>>

(* Mutant: the time the fast path yields does not count as waiting.          *)
WaitTooLongIdle ==
  /\ dash /\ pl = "wait" /\ fp # "ended" /\ ~heavy
  /\ StopFastPath
  /\ pl' = "sweep"
  /\ UNCHANGED <<dash, progress, runs, scrapeVars, rounds, news, todo, drainOut, over, last,
                 queue, took, idle, dataVars, envVars>>

(* Six hours are over.                                                       *)
WaitTooLong ==
  /\ dash /\ pl = "wait" /\ fp # "ended"
  /\ StopFastPath
  /\ pl' = "sweep"
  /\ UNCHANGED <<dash, progress, runs, scrapeVars, rounds, news, todo, drainOut, over, last,
                 queue, took, idle, dataVars, envVars>>

(* Provenance is filled in, the sweep moves what was processed, and the run  *)
(* reports that everything was.                                              *)
SweepAndReport ==
  /\ dash /\ pl = "sweep"
  /\ landing' = landing \ store
  /\ progress' = <<"ingestion", "done">> /\ pl' = "ended"
  /\ UNCHANGED <<dash, runs, scrapeVars, watchVars, drainVars, store, lance, envVars>>

(* A reader of the progress file finds a running stage, no child of this     *)
(* process alive and the file five minutes old.                              *)
MarkInterrupted ==
  /\ dash /\ progress[2] = "running" /\ pl \notin {"scrape", "wait"}
  /\ progress' = <<progress[1], "interrupted">>
  /\ UNCHANGED <<dash, pl, runs, scrapeVars, watchVars, drainVars, dataVars, envVars>>

DashboardDies ==
  /\ dash /\ Fault
  /\ dash' = FALSE /\ pl' = "off"
  /\ UNCHANGED <<progress, runs, scrapeVars, watchVars, drainVars, dataVars, tier0, heavy>>

DashboardRestarts ==
  /\ ~dash
  /\ dash' = TRUE
  /\ UNCHANGED <<pl, progress, runs, scrapeVars, watchVars, drainVars, dataVars, envVars>>

----------------------------------------------------------------------------
(* The scraper, seen from here: files, an exit code, the sentinel.           *)

ScraperWrites(f) ==
  /\ scraper = "running" /\ f \notin scraped
  /\ scraped' = scraped \cup {f} /\ landing' = landing \cup {f}
  /\ UNCHANGED <<dashVars, scraper, sentinel, stale, watchVars, drainVars, store, lance, envVars>>

ScraperExits ==
  /\ scraper = "running"
  /\ scraper' \in {"ok", "failed"} /\ sentinel' = TRUE
  /\ UNCHANGED <<dashVars, scraped, stale, watchVars, drainVars, dataVars, envVars>>

ScraperIsKilled ==
  /\ scraper = "running" /\ Fault
  /\ scraper' = "killed"
  /\ UNCHANGED <<dashVars, scraped, sentinel, stale, watchVars, drainVars, dataVars, tier0, heavy>>

----------------------------------------------------------------------------
(* The main thread of the fast path.                                         *)

(* One ingestion at a time: the lease of tier 0 or nothing.                  *)
ClaimTier0 ==
  /\ fp = "claim"
  /\ IF tier0 THEN fp' = "ended" /\ fpOut' = "refused" /\ UNCHANGED drain
              ELSE fp' = "first" /\ drain' = "lease" /\ UNCHANGED fpOut
  /\ todo' = landing \ store /\ news' = "none"
  /\ UNCHANGED <<dashVars, scrapeVars, rounds, drainOut, over, last, queue, took, idle,
                 dataVars, envVars>>

(* A pass works through the listing it began with.                           *)
IngestFile(f) ==
  /\ fp \in {"first", "pass"} /\ f \in todo
  /\ store' = store \cup {f} /\ todo' = todo \ {f} /\ news' = "some"
  /\ UNCHANGED <<dashVars, scrapeVars, fp, fpOut, rounds, drainVars, landing, lance, envVars>>

NextPass == fp' = "pass" /\ todo' = landing \ store /\ news' = "none"

(* The first ingest goes on to the watch loop, an iteration to its exits.    *)
EndPass ==
  /\ fp \in {"first", "pass"} /\ todo = {}
  /\ IF fp = "first" THEN NextPass ELSE fp' = "check" /\ UNCHANGED <<todo, news>>
  /\ UNCHANGED <<dashVars, scrapeVars, fpOut, rounds, drainVars, dataVars, envVars>>

(* A file the scraper still writes: the iteration is skipped, and it is not  *)
(* an idle one.  The first ingest has no such handler.                       *)
FileBusy ==
  /\ fp = "pass" /\ todo # {} /\ Fault
  /\ news' = "busy" /\ todo' = {} /\ fp' = "check"
  /\ UNCHANGED <<dashVars, scrapeVars, fpOut, rounds, drainVars, dataVars, tier0, heavy>>

FastPathCrashes ==
  /\ fp \in {"first", "pass"} /\ Fault
  /\ fp' = "ended" /\ fpOut' = "crashed" /\ drain' = "ended"
  /\ UNCHANGED <<dashVars, scrapeVars, rounds, news, todo, drainOut, over, last, queue, took,
                 idle, dataVars, tier0, heavy>>

Leave(why) == fp' = "join" /\ fpOut' = why /\ over' = TRUE

Orphaned == ~sentinel /\ ~dash

(* Mutant: an iteration that found documents counts as idle.                 *)
IsIdleBusy == sentinel /\ idle

IsIdle == sentinel /\ news = "none" /\ idle

(* After an iteration: leave as an orphan, count an idle round and leave     *)
(* after IdleExit of them, or start the count again.                         *)
CheckExit ==
  /\ fp = "check"
  /\ \/ Orphaned /\ Leave("orphan") /\ UNCHANGED <<rounds, news, todo>>
     \/ IsIdle /\ rounds' = rounds + 1
        /\ IF rounds + 1 >= IdleExit THEN Leave("idle") /\ UNCHANGED <<news, todo>>
                                     ELSE NextPass /\ UNCHANGED <<fpOut, over>>
     \/ ~Orphaned /\ ~IsIdle /\ NextPass
        /\ rounds' = (IF sentinel THEN 0 ELSE rounds)
        /\ UNCHANGED <<fpOut, over>>
  /\ UNCHANGED <<dashVars, scrapeVars, drain, drainOut, last, queue, took, idle, dataVars, envVars>>

(* Wait for the drain, then exit and release tier 0.                         *)
JoinDrain ==
  /\ fp = "join" /\ drain = "ended"
  /\ fp' = "ended"
  /\ UNCHANGED <<dashVars, scrapeVars, fpOut, rounds, news, todo, drainVars, dataVars, envVars>>

----------------------------------------------------------------------------
(* The drain thread.  over is the event ingestion sets when it has ended,     *)
(* last the section of the drain after it saw the event.                      *)

EndDrain(how) == drain' = "ended" /\ drainOut' = how /\ idle' = TRUE

DrainTakesLease ==
  /\ drain = "lease"
  /\ drain' = "head" /\ idle' = FALSE
  /\ queue' = store \ lance
  /\ UNCHANGED <<dashVars, scrapeVars, watchVars, drainOut, over, last, took, dataVars, envVars>>

(* Half an hour without the job lease: no drain in this process.             *)
DrainGivesUp ==
  /\ drain = "lease" /\ Fault
  /\ EndDrain("gave up")
  /\ UNCHANGED <<dashVars, scrapeVars, watchVars, over, last, queue, took, dataVars, tier0, heavy>>

DrainYields ==
  /\ drain = "pass" /\ heavy /\ idle
  /\ idle' = FALSE
  /\ UNCHANGED <<dashVars, scrapeVars, watchVars, drain, drainOut, over, last, queue, took,
                 dataVars, envVars>>

(* The head of the loop: after the event come the passes of the last section. *)
DrainHead ==
  /\ drain = "head"
  /\ last' = (last \/ over) /\ drain' = "pass"
  /\ UNCHANGED <<dashVars, scrapeVars, watchVars, drainOut, over, queue, took, idle,
                 dataVars, envVars>>

(* The queue is read again from the store only when it is used up.           *)
Refilled == IF queue = {} THEN store \ lance ELSE queue

Least(a, b) == IF a < b THEN a ELSE b
Batches(q) == {b \in SUBSET q : Cardinality(b) = Least(Cardinality(q), PassChunks)}

DrainPass ==
  /\ drain = "pass" /\ ~heavy
  /\ \E b \in Batches(Refilled) :
       lance' = lance \cup b /\ queue' = Refilled \ b /\ took' = (b # {})
  /\ drain' = "report"
  /\ UNCHANGED <<dashVars, scrapeVars, watchVars, drainOut, over, last, idle, landing,
                 store, envVars>>

(* Mutant: a pass that began before the event ends the drain.                *)
DrainReportEarly ==
  /\ drain = "report"
  /\ IF over /\ ~took THEN EndDrain("ok")
     ELSE drain' = "head" /\ idle' = ~took /\ UNCHANGED drainOut
  /\ UNCHANGED <<dashVars, scrapeVars, watchVars, over, last, queue, took, dataVars, envVars>>

(* A pass that found nothing ends the last section and makes the others idle. *)
DrainReport ==
  /\ drain = "report"
  /\ IF last /\ ~took THEN EndDrain("ok")
     ELSE drain' = "head" /\ idle' = ~took /\ UNCHANGED drainOut
  /\ UNCHANGED <<dashVars, scrapeVars, watchVars, over, last, queue, took, dataVars, envVars>>

DrainFails ==
  /\ drain \in {"head", "pass"} /\ Fault
  /\ EndDrain("failed")
  /\ UNCHANGED <<dashVars, scrapeVars, watchVars, over, last, queue, took, dataVars, tier0, heavy>>

----------------------------------------------------------------------------
(* Others: a research holds the heavy-work lock; another ingestion ends.     *)

HeavyTaken ==
  /\ ~heavy /\ Fault /\ heavy' = TRUE
  /\ UNCHANGED <<dashVars, scrapeVars, watchVars, drainVars, dataVars, tier0>>

HeavyFreed ==
  /\ heavy /\ heavy' = FALSE
  /\ UNCHANGED <<dashVars, scrapeVars, watchVars, drainVars, dataVars, tier0, faults>>

Tier0Freed ==
  /\ tier0 /\ tier0' = FALSE
  /\ UNCHANGED <<dashVars, scrapeVars, watchVars, drainVars, dataVars, heavy, faults>>

PipelineThread == ScraperFailed \/ ScraperDone \/ FastPathEnded \/ SweepAndReport
WatchThread == ClaimTier0 \/ (\E f \in Files : IngestFile(f)) \/ EndPass \/ CheckExit \/ JoinDrain
DrainThread == DrainTakesLease \/ DrainHead \/ DrainPass \/ DrainReport

Next ==
  \/ StartRun \/ PipelineThread \/ WaitTooLong \/ MarkInterrupted
  \/ DashboardDies \/ DashboardRestarts
  \/ \E f \in Files : ScraperWrites(f)
  \/ ScraperExits \/ ScraperIsKilled
  \/ WatchThread \/ FileBusy \/ FastPathCrashes
  \/ DrainThread \/ DrainGivesUp \/ DrainYields \/ DrainFails
  \/ HeavyTaken \/ HeavyFreed \/ Tier0Freed

(* Threads run, the scraper ends by its time limits, and six hours pass.     *)
Fairness ==
  /\ WF_vars(PipelineThread) /\ WF_vars(WaitTooLong) /\ WF_vars(ScraperExits)
  /\ WF_vars(WatchThread) /\ WF_vars(DrainThread)

Spec == Init /\ [][Next]_vars /\ Fairness

----------------------------------------------------------------------------
(* A fast path that leaves by itself left no committed chunk unembedded, as   *)
(* the comment at its shutdown says, unless its drain never got the lease or  *)
(* died: both report themselves idle.                                         *)
ExitIsDrained ==
  fp = "ended" /\ fpOut \in {"idle", "orphan"}
    => store \subseteq lance \/ drainOut \in {"gave up", "failed"}

(* A run that reports every document processed has a vector for everything    *)
(* the scraper wrote, with one exception for each way the fast path can end   *)
(* early: the run does not look at how it ended.                              *)
DoneMeansVectorized ==
  progress = <<"ingestion", "done">>
    => \/ scraped \subseteq lance
       \/ fpOut \in {"refused", "crashed", "killed"}
       \/ drainOut \in {"gave up", "failed"}
       \/ stale

(* A run ends while its dashboard lives, whatever holds the heavy-work lock;  *)
(* and a fast path whose dashboard is gone leaves once the lock is free.      *)
RunsEnd ==
  /\ pl \in {"scrape", "wait", "sweep"} ~> pl = "ended" \/ ~dash
  /\ <>[](~dash /\ ~heavy) => <>[](fp \in {"none", "ended"})
=============================================================================
