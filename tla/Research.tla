------------------------------ MODULE Research ------------------------------
(* Web research started from the chat.  Each run is a process of its own that *)
(* reports through research_progress.json; the watcher of the dashboard reads *)
(* that file, answers the session and writes its copy back.  What a run       *)
(* accepts goes into the staging corpus under the heavy-work lock, which the   *)
(* embedding drain wants too; what it rejects goes to the review queue.      *)
EXTENDS Review

CONSTANTS Runs,       \* each is asked by its own session
          MaxFaults   \* bound: dead processes, restarts, runs taken for
              \* dead, locks that expire, queries asked again

(* Items = Runs: a run queues one article, and the two have one name.        *)

VARIABLES
  prog,      \* research_progress.json
  run,       \* the step of each run
  heavy,     \* heavy.lock: who holds it; "bad" when it cannot be parsed
  held,      \* runs whose heavy_phase acquired the lock
  waiters,   \* heavy.waiters
  gaps,      \* runs with chunks that have no vector
  drain,     \* the drain of the staging corpus
  watch, copy,  \* the watcher: its step and what it read
  told,      \* answers delivered, <<session, query>>
  left,      \* bound: articles earlier runs left in the queue
  mixed,     \* history: runs whose record somebody else replaced
  faults

progVars == <<prog, run, watch, copy, told, mixed, left>>
heavyVars == <<heavy, held, waiters, gaps, drain>>
vars == <<reviewVars, progVars, heavyVars, faults>>

Record == [query : Runs \cup {"none"}, session : Runs \cup {"none"},
           status : {"idle", "running", "done", "failed"}, notified : BOOLEAN, pushed : BOOLEAN]
NoRecord == [query |-> "none", session |-> "none", status |-> "idle", notified |-> FALSE, pushed |-> FALSE]

Steps == {"none", "search", "scrape", "heavy", "wait", "ingest", "source", "embed", "release",
          "finish", "fail", "ended", "dead"}
Alive(r) == run[r] \notin {"none", "ended", "dead"}

TypeOK ==
  /\ ReviewTypeOK
  /\ prog \in Record /\ copy \in Record /\ run \in [Runs -> Steps]
  /\ heavy \in Runs \cup {"free", "bad", "drain"}
  /\ {held, waiters, gaps, mixed, left} \subseteq SUBSET Runs
  /\ drain \in {"off", "idle", "pass", "over"} /\ watch \in {"off", "push", "tell", "write"}
  /\ told \subseteq Runs \X Runs /\ faults \in 0 .. MaxFaults

Init ==
  (* A bound on the interleavings: reviewers and runs share no variable but   *)
  (* the queue, to which a run only adds.  A behaviour starts with articles    *)
  (* in the queue and shows the reviewers, or with none and shows the runs.    *)
  /\ left \in SUBSET Items /\ ReviewInit(left)
  /\ prog = NoRecord /\ run = [r \in Runs |-> "none"]
  /\ heavy = "free" /\ held = {} /\ waiters = {} /\ gaps = {} /\ drain = "off"
  /\ watch = "off" /\ copy = NoRecord /\ told = {} /\ mixed = {} /\ faults = 0

Fault == faults < MaxFaults /\ faults' = faults + 1
Step(r, s) == run' = [run EXCEPT ![r] = s]

----------------------------------------------------------------------------
(* The progress file.                                                       *)

(* Mutant: the process writes its fields and nothing else.                   *)
ReportOver(r, status) ==
  /\ prog' = [NoRecord EXCEPT !.query = r, !.status = status]
  /\ mixed' = IF r \in mixed THEN mixed \cup ({prog.session} \ {"none"}) ELSE mixed

(* A process merges its status and query into what the file holds; session    *)
(* and flags stay.                                                           *)
Report(r, status) ==
  /\ prog' = [prog EXCEPT !.query = r, !.status = status]
  /\ mixed' = IF r \in mixed THEN mixed \cup ({prog.session} \ {"none"}) ELSE mixed

(* A running record three times as old as its budget counts as dead, which    *)
(* the process need not be.                                                  *)
Stale == prog.status = "running" /\ ~Alive(prog.query)
Untold == IF prog.session # "none" /\ ~prog.notified THEN {prog.session} ELSE {}

(* Mutant: a running research does not keep a new one from starting.         *)
LaunchAnyway(r, overrun) ==
  /\ run[r] = "none" /\ left = {}
  /\ IF overrun THEN Fault ELSE UNCHANGED faults
  /\ prog' = [query |-> r, session |-> r, status |-> "running", notified |-> FALSE,
              pushed |-> FALSE]
  /\ mixed' = mixed \cup IF overrun \/ prog.status # "running" THEN Untold ELSE {}
  /\ Step(r, "search")
  /\ UNCHANGED <<reviewVars, heavyVars, watch, copy, told, left>>

(* The chat starts a run unless one is running.  The new record replaces the  *)
(* last one, delivered or not.                                               *)
Launch(r, overrun) ==
  /\ run[r] = "none" /\ left = {}
  /\ overrun <=> prog.status = "running" /\ ~Stale
  /\ IF overrun THEN Fault ELSE UNCHANGED faults
  /\ prog' = [query |-> r, session |-> r, status |-> "running", notified |-> FALSE,
              pushed |-> FALSE]
  /\ mixed' = mixed \cup Untold \cup IF overrun THEN {r} ELSE {}
  /\ Step(r, "search")
  /\ UNCHANGED <<reviewVars, heavyVars, watch, copy, told, left>>

(* The search finds candidates, or nothing and the run fails.                *)
SearchWeb(r) ==
  /\ run[r] = "search"
  /\ Report(r, "running")
  /\ \E s \in {"scrape", "fail"} : Step(r, s)
  /\ UNCHANGED <<reviewVars, heavyVars, watch, copy, told, left, faults>>

(* The loop over the candidates: some article is accepted and saved or none   *)
(* is, and rejected ones are queued for review.                              *)
Scrape(r) ==
  /\ run[r] = "scrape"
  /\ Report(r, "running")
  /\ \E rejected \in SUBSET {r}, s \in {"heavy", "fail"} : Enqueue(rejected) /\ Step(r, s)
  /\ UNCHANGED <<files, indexed, sourced, taken, reviewerVars, heavyVars, watch, copy, told, left,
                 faults>>

Finish(r) ==
  /\ run[r] \in {"finish", "fail"}
  /\ Report(r, IF run[r] = "finish" THEN "done" ELSE "failed") /\ Step(r, "ended")
  /\ UNCHANGED <<reviewVars, heavyVars, watch, copy, told, left, faults>>

----------------------------------------------------------------------------
(* The heavy-work lock.                                                     *)

(* One attempt; whoever does not get the lock registers and polls.           *)
EnterHeavy(r) ==
  /\ run[r] = "heavy"
  /\ Report(r, "running")
  /\ IF heavy = "free" THEN heavy' = r /\ held' = held \cup {r} /\ Step(r, "ingest")
                            /\ UNCHANGED waiters
     ELSE waiters' = waiters \cup {r} /\ Step(r, "wait") /\ UNCHANGED <<heavy, held>>
  /\ UNCHANGED <<reviewVars, watch, copy, told, left, gaps, drain, faults>>

PollHeavy(r) ==
  /\ run[r] = "wait" /\ heavy = "free"
  /\ heavy' = r /\ held' = held \cup {r} /\ waiters' = waiters \ {r} /\ Step(r, "ingest")
  /\ UNCHANGED <<reviewVars, prog, watch, copy, told, mixed, left, gaps, drain, faults>>

(* After its time it goes on without the lock.                               *)
GiveUp(r) ==
  /\ run[r] = "wait" /\ heavy # "free"
  /\ waiters' = waiters \ {r} /\ Step(r, "ingest") /\ Report(r, "running")
  /\ UNCHANGED <<reviewVars, watch, copy, told, left, heavy, held, gaps, drain, faults>>

(* Fast path, provenance and dirty flag, vectors until the deadline.         *)
IngestRun(r) ==
  /\ run[r] = "ingest"
  /\ gaps' = gaps \cup {r} /\ Step(r, "embed") /\ Report(r, "running")
  /\ UNCHANGED <<reviewVars, watch, copy, told, left, heavy, held, waiters, drain, faults>>

EmbedRun(r) ==
  /\ run[r] = "embed"
  /\ gaps' \in {gaps, gaps \ {r}} /\ Step(r, "release") /\ Report(r, "running")
  /\ UNCHANGED <<reviewVars, watch, copy, told, left, heavy, held, waiters, drain, faults>>

(* Mutant: the lock is removed whoever holds it.                             *)
LeaveHeavyAnyway(r) ==
  /\ run[r] = "release"
  /\ heavy' = "free" /\ held' = held \ {r}
  /\ drain' = IF drain = "off" /\ gaps # {} THEN "idle" ELSE drain
  /\ Step(r, "finish")
  /\ UNCHANGED <<reviewVars, prog, watch, copy, told, mixed, left, waiters, gaps, faults>>

(* Only the owner removes the lock; then a drain is started for what has no   *)
(* vector.                                                                   *)
LeaveHeavy(r) ==
  /\ run[r] = "release"
  /\ heavy' = (IF heavy = r THEN "free" ELSE heavy) /\ held' = held \ {r}
  /\ drain' = IF drain = "off" /\ gaps # {} THEN "idle" ELSE drain
  /\ Step(r, "finish")
  /\ UNCHANGED <<reviewVars, prog, watch, copy, told, mixed, left, waiters, gaps, faults>>

(* The drain yields to waiters, and keeps asking until it has the lock.      *)
DrainEnters ==
  /\ drain = "idle" /\ waiters = {} /\ heavy = "free" /\ gaps # {}
  /\ heavy' = "drain" /\ drain' = "pass"
  /\ UNCHANGED <<reviewVars, progVars, held, waiters, gaps, faults>>

DrainPass ==
  /\ drain \in {"pass", "over"}
  /\ \E done \in SUBSET gaps : gaps' = gaps \ done
  /\ heavy' = (IF heavy = "drain" THEN "free" ELSE heavy) /\ drain' = "idle"
  /\ UNCHANGED <<reviewVars, progVars, held, waiters, faults>>

DrainEnds ==
  /\ drain = "idle" /\ gaps = {} /\ drain' = "off"
  /\ UNCHANGED <<reviewVars, progVars, heavy, held, waiters, gaps, faults>>

----------------------------------------------------------------------------
(* The watcher.                                                             *)

WatchRead ==
  /\ watch = "off" /\ prog.status \in {"done", "failed"} /\ ~(prog.notified /\ prog.pushed)
  /\ copy' = prog /\ watch' = IF prog.pushed THEN "tell" ELSE "push"
  /\ UNCHANGED <<reviewVars, prog, run, told, mixed, left, heavyVars, faults>>

WriteBack(rec) ==
  /\ prog' = rec /\ copy' = rec
  /\ mixed' = IF prog = copy THEN mixed ELSE mixed \cup ({prog.session, prog.query} \ {"none"})

(* The push goes out first and, when it was sent, the copy is written back.  *)
WatchPush ==
  /\ watch = "push"
  /\ WriteBack([copy EXCEPT !.pushed = TRUE]) \/ UNCHANGED <<prog, copy, mixed>>
  /\ watch' = IF copy.notified THEN "off" ELSE "tell"
  /\ UNCHANGED <<reviewVars, run, told, left, heavyVars, faults>>

(* The chat is in use: not now.                                              *)
WatchWaits ==
  /\ watch = "tell" /\ watch' = "off"
  /\ UNCHANGED <<reviewVars, prog, run, copy, told, mixed, left, heavyVars, faults>>

(* The model answers from the new material, which takes its time.            *)
WatchTell ==
  /\ watch = "tell"
  /\ told' = told \cup {<<copy.session, copy.query>>} /\ watch' = "write"
  /\ UNCHANGED <<reviewVars, prog, run, copy, mixed, left, heavyVars, faults>>

WatchWrite ==
  /\ watch = "write"
  /\ WriteBack([copy EXCEPT !.notified = TRUE]) /\ watch' = "off"
  /\ UNCHANGED <<reviewVars, run, told, left, heavyVars, faults>>

----------------------------------------------------------------------------
(* Faults.                                                                  *)

(* A run dies.  Its lock is removed by the next reader, unless it died        *)
(* between the creation of the file and the write.                           *)
Die(r) ==
  /\ Alive(r) /\ Fault
  /\ Step(r, "dead") /\ held' = held \ {r} /\ waiters' = waiters \ {r}
  /\ heavy' \in IF heavy = r THEN {"free"}
                ELSE IF run[r] = "heavy" /\ heavy = "free" THEN {"free", "bad"} ELSE {heavy}
  /\ UNCHANGED <<reviewVars, prog, watch, copy, told, mixed, left, gaps, drain>>

(* A lock older than its time is free, whether its owner lives or not.       *)
Expire ==
  /\ heavy \notin {"free", "bad"} /\ Fault
  /\ heavy' = "free" /\ held' = held \ {heavy}
  /\ drain' = IF heavy = "drain" THEN "over" ELSE drain
  /\ UNCHANGED <<reviewVars, progVars, waiters, gaps>>

Restart ==
  /\ Fault /\ ReviewDies /\ watch' = "off"
  /\ UNCHANGED <<prog, run, copy, told, mixed, left, heavyVars>>

Reread(w) == left # {} /\ ReviewStep(w) /\ UNCHANGED <<progVars, heavyVars, faults>>

(* A later research of the same query rejects the article again.             *)
Requeue(i) ==
  /\ i \in left /\ Fault /\ Enqueue({i})
  /\ UNCHANGED <<files, indexed, sourced, taken, reviewerVars, progVars, heavyVars>>

RunStep(r) ==
  \/ SearchWeb(r) \/ Scrape(r) \/ Finish(r) \/ EnterHeavy(r) \/ PollHeavy(r) \/ GiveUp(r)
  \/ IngestRun(r) \/ EmbedRun(r) \/ LeaveHeavy(r)

Watcher == WatchRead \/ WatchPush \/ WatchTell \/ WatchWrite

Next ==
  \/ \E r \in Runs : RunStep(r) \/ Die(r) \/ \E overrun \in BOOLEAN : Launch(r, overrun)
  \/ DrainEnters \/ DrainPass \/ DrainEnds
  \/ Watcher \/ WatchWaits \/ Restart \/ Expire
  \/ (\E w \in Reviewers : Reread(w)) \/ \E i \in Items : Requeue(i)

(* Processes run, and the chat is free again and again.                      *)
Fairness ==
  /\ \A r \in Runs : WF_vars(RunStep(r))
  /\ WF_vars(Watcher) /\ SF_vars(WatchTell)

Spec == Init /\ [][Next]_vars /\ Fairness

----------------------------------------------------------------------------
(* Every run that ends is answered, unless its record was replaced: by the    *)
(* next launch before the answer was out, by a watcher that answered the      *)
(* last run meanwhile, or by a run that was taken for dead.                  *)
EveryRunIsTold ==
  []<>(\A r \in Runs : run[r] = "ended" => r \in mixed \/ <<r, r>> \in told)

(* An answer goes to the session that asked, with the same exceptions.       *)
RightSession == \A d \in told : d[1] = d[2] \/ d[2] \in mixed

(* A run that holds the heavy-work lock never ingests beside a pass of the    *)
(* drain, although runs that gave up waiting do, and leave the lock alone.    *)
(* Who held the lock beyond its time is not its holder any more.             *)
HeavyAlone ==
  \A r \in held : run[r] \in {"ingest", "embed", "release"} => drain # "pass" /\ heavy = r
=============================================================================
