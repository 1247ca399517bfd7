------------------------------ MODULE IdleCycle ------------------------------
(* The idle worker of the dashboard: it waits until nothing else works,      *)
(* takes the job lease, runs the tasks of tier 1 in a pool of threads under   *)
(* named resource locks and those of tier 2 one after the other.  Ingestion  *)
(* processes come and go under the tier 0 lease, and the embedding drain      *)
(* takes the job lease in turn.                                              *)
EXTENDS Enrichment

CONSTANTS Tier1, Tier2,   \* tasks; "topify" in tier 1 and "deep" in tier 2
          Needs,          \* [task -> set of resources]; resources are numbers,
                          \* in the order of their names
          Workers,        \* max_tier1_workers
          Ingesters,      \* ingestion processes
          MaxIngests,     \* bound: ingestion runs
          MaxFaults       \* bound: crashes, failing tasks, users coming back

Tasks == Tier1 \cup Tier2
Resources == UNION {Needs[t] : t \in Tasks}

ASSUME TasksAssumption ==
  /\ "topify" \in Tier1 /\ "deep" \in Tier2 /\ Tier1 \cap Tier2 = {}
  /\ Needs \in [Tasks -> SUBSET Nat] /\ Workers \in Nat \ {0}

VARIABLES
  wk,      \* the worker thread
  lease,   \* the job lease of the embedding maintenance
  task,    \* state of each task in this cycle
  held,    \* resource locks each task holds
  cool,    \* tasks whose cooldown has not passed
  busy,    \* chat, a job, the reporter or an interactive research
  ing,     \* ingestion processes
  tier0,   \* whom tier0.lock names
  ingests,
  faults

cycleVars == <<wk, lease, task, held, cool>>
otherVars == <<busy, ing, tier0, ingests>>
vars == <<enrichVars, cycleVars, otherVars, faults>>

CycleTypeOK ==
  /\ wk \in {"off", "sleep", "gate", "claim", "t1", "t2"}
  /\ lease \in {"free", "idle", "drain"}
  /\ task \in [Tasks -> {"none", "queued", "locking", "running", "done"}]
  /\ held \in [Tasks -> SUBSET Resources] /\ cool \subseteq Tasks
  /\ busy \in BOOLEAN
  /\ ing \in [Ingesters -> {"off", "claiming", "running"}]
  /\ tier0 \in Ingesters \cup {"free"} /\ faults \in 0 .. MaxFaults
  /\ ingests \in 0 .. MaxIngests

Init ==
  /\ EnrichInit
  /\ wk = "sleep" /\ lease = "free" /\ cool = {}
  /\ task = [t \in Tasks |-> "none"] /\ held = [t \in Tasks |-> {}]
  /\ busy = FALSE /\ ing = [i \in Ingesters |-> "off"] /\ tier0 = "free" /\ ingests = 0
  /\ faults = 0

Fault == faults < MaxFaults /\ faults' = faults + 1

----------------------------------------------------------------------------
(* The gates are read one after the other; the first that is closed ends the *)
(* attempt.                                                                  *)

GateTier0 ==
  /\ wk = "sleep" /\ tier0 = "free"
  /\ wk' = "gate"
  /\ UNCHANGED <<enrichVars, lease, task, held, cool, otherVars, faults>>

GateOthers ==
  /\ wk = "gate"
  /\ wk' = IF busy \/ lease = "drain" THEN "sleep" ELSE "claim"
  /\ UNCHANGED <<enrichVars, lease, task, held, cool, otherVars, faults>>

Idle == tier0 = "free" /\ lease # "drain" /\ ~busy

Due(t) == t \notin cool

(* With the lease the tasks that are due go to the pool, unless someone is    *)
(* back already.                                                             *)
ClaimCycle ==
  /\ wk = "claim"
  /\ IF lease # "free" THEN wk' = "sleep" /\ UNCHANGED <<lease, task>>
     ELSE /\ wk' = "t1" /\ lease' = "idle"
          /\ task' = [t \in Tasks |-> IF t \in Tier1 /\ Due(t) /\ Idle THEN "queued" ELSE "none"]
  /\ UNCHANGED <<enrichVars, held, cool, otherVars, faults>>

(* A pool thread takes a task; its cooldown counts from here.                *)
StartTask(t) ==
  /\ wk = "t1" /\ task[t] = "queued"
  /\ Cardinality({u \in Tier1 : task[u] \in {"locking", "running"}}) < Workers
  /\ task' = [task EXCEPT ![t] = "locking"] /\ cool' = cool \cup {t}
  /\ UNCHANGED <<enrichVars, wk, lease, held, otherVars, faults>>

FreeLock(r) == \A u \in Tasks : r \notin held[u]
First(rs) == CHOOSE r \in rs : \A s \in rs : r <= s

(* Mutant: in the order a task lists them.                                   *)
TakeLockUnsorted(t) ==
  /\ task[t] = "locking" /\ held[t] # Needs[t]
  /\ \E r \in Needs[t] \ held[t] : FreeLock(r) /\ held' = [held EXCEPT ![t] = @ \cup {r}]
  /\ UNCHANGED <<enrichVars, wk, lease, task, cool, otherVars, faults>>

(* Locks are taken one by one, in the order of their names.                  *)
TakeLock(t) ==
  /\ task[t] = "locking" /\ held[t] # Needs[t]
  /\ LET r == First(Needs[t] \ held[t]) IN
       FreeLock(r) /\ held' = [held EXCEPT ![t] = @ \cup {r}]
  /\ UNCHANGED <<enrichVars, wk, lease, task, cool, otherVars, faults>>

BeginTask(t) ==
  /\ task[t] = "locking" /\ held[t] = Needs[t]
  /\ task' = [task EXCEPT ![t] = "running"]
  /\ tp' = IF t # "topify" THEN tp ELSE IF Idle THEN "gate" ELSE "done"
  /\ dp' = IF t # "deep" THEN dp ELSE IF Idle THEN "scan" ELSE "done"
  /\ UNCHANGED <<storeVars, clusterVars, todo, gray, graded, missed, wk, lease, held, cool,
                 otherVars, faults>>

StepTask ==
  /\ \/ task["topify"] = "running" /\ TopifyStep
     \/ task["deep"] = "running" /\ DeepStep(~Idle)
  /\ UNCHANGED <<cycleVars, otherVars, faults>>

Finish(t) == task' = [task EXCEPT ![t] = "done"] /\ held' = [held EXCEPT ![t] = {}]

EndTask(t) ==
  /\ task[t] = "running"
  /\ t = "topify" => tp = "done"
  /\ t = "deep" => dp = "done"
  /\ Finish(t)
  /\ UNCHANGED <<enrichVars, wk, lease, cool, otherVars, faults>>

(* A task that raises gives its locks back; the cycle goes on.               *)
TopifyRaises ==
  /\ task["topify"] = "running" /\ tp \notin {"done", "off"} /\ Fault
  /\ AbandonTopify("done") /\ Finish("topify")
  /\ UNCHANGED <<wk, lease, cool, otherVars>>

TopifyEvalError ==
  /\ task["topify"] = "running" /\ Fault /\ EvaluationFails
  /\ UNCHANGED <<cycleVars, otherVars>>

(* Tier 2: one task after the other, each only if still idle and due; a model *)
(* must be loaded, which the pass does or finds done.                        *)
BeginTier2 ==
  /\ wk = "t1" /\ \A t \in Tier1 : task[t] \in {"none", "done"}
  /\ wk' = "t2"
  /\ \E llm \in BOOLEAN :
       task' = [t \in Tasks |-> IF t \in Tier2 /\ llm THEN "queued" ELSE "none"]
  /\ UNCHANGED <<enrichVars, lease, held, cool, otherVars, faults>>

NextTier2(t) ==
  /\ wk = "t2" /\ task[t] = "queued"
  /\ \A u \in Tier2 : task[u] \notin {"locking", "running"}
  /\ IF Idle /\ Due(t) THEN task' = [task EXCEPT ![t] = "locking"] /\ cool' = cool \cup {t}
                       ELSE task' = [task EXCEPT ![t] = "done"] /\ UNCHANGED cool
  /\ UNCHANGED <<enrichVars, wk, lease, held, otherVars, faults>>

EndCycle ==
  /\ wk = "t2" /\ \A t \in Tier2 : task[t] \in {"none", "done"}
  /\ wk' = "sleep" /\ lease' = "free"
  /\ task' = [t \in Tasks |-> "none"]
  /\ UNCHANGED <<enrichVars, held, cool, otherVars, faults>>

CoolDown(t) ==
  /\ t \in cool /\ wk = "sleep"
  /\ cool' = cool \ {t}
  /\ UNCHANGED <<enrichVars, wk, lease, task, held, otherVars, faults>>

(* The dashboard dies in the middle of a cycle and starts again: cooldowns    *)
(* and locks were in memory, the lease of a dead process is free.            *)
Restart ==
  /\ wk # "sleep" /\ Fault
  /\ AbandonAll
  /\ wk' = "sleep" /\ cool' = {}
  /\ lease' = IF lease = "idle" THEN "free" ELSE lease
  /\ task' = [t \in Tasks |-> "none"] /\ held' = [t \in Tasks |-> {}]
  /\ UNCHANGED otherVars

----------------------------------------------------------------------------
(* The others.                                                              *)

UserReturns ==
  /\ ~busy /\ Fault /\ busy' = TRUE
  /\ UNCHANGED <<enrichVars, cycleVars, ing, tier0, ingests>>

UserLeaves ==
  /\ busy /\ busy' = FALSE
  /\ UNCHANGED <<enrichVars, cycleVars, ing, tier0, ingests, faults>>

(* claim reads the holder and then replaces the file.                        *)
ReadTier0(i) ==
  /\ ing[i] = "off" /\ tier0 = "free" /\ ingests < MaxIngests
  /\ ingests' = ingests + 1
  /\ ing' = [ing EXCEPT ![i] = "claiming"]
  /\ UNCHANGED <<enrichVars, cycleVars, busy, tier0, faults>>

WriteTier0(i) ==
  /\ ing[i] = "claiming"
  /\ ing' = [ing EXCEPT ![i] = "running"] /\ tier0' = i
  /\ UNCHANGED <<enrichVars, cycleVars, busy, ingests, faults>>

Ingest(i) ==
  /\ ing[i] = "running"
  /\ (\E d \in Docs : CommitDoc(d)) \/ RecordMetadata
  /\ UNCHANGED <<cycleVars, otherVars, faults>>

(* An exit or a death; the release of another process's lease is refused, and *)
(* the lease of a dead process is cleaned up by its next reader.             *)
EndIngest(i) ==
  /\ ing[i] = "running"
  /\ ing' = [ing EXCEPT ![i] = "off"]
  /\ tier0' = IF tier0 = i THEN "free" ELSE tier0
  /\ UNCHANGED <<enrichVars, cycleVars, busy, ingests, faults>>

DrainTakesLease ==
  /\ lease = "free" /\ live # stored
  /\ lease' = "drain"
  /\ UNCHANGED <<enrichVars, wk, task, held, cool, otherVars, faults>>

DrainEnds ==
  /\ lease = "drain"
  /\ lease' = "free"
  /\ live' = stored
  /\ UNCHANGED <<stored, sourced, clusterVars, topifyVars, deepVars, missed, wk, task, held,
                 cool, otherVars, faults>>

Worker ==
  \/ GateTier0 \/ GateOthers \/ ClaimCycle \/ StepTask \/ BeginTier2 \/ EndCycle
  \/ \E t \in Tasks : StartTask(t) \/ TakeLock(t) \/ BeginTask(t) \/ EndTask(t) \/ NextTier2(t)

Next ==
  \/ Worker \/ TopifyRaises \/ TopifyEvalError \/ Restart
  \/ \E t \in Tasks : CoolDown(t)
  \/ UserReturns \/ UserLeaves \/ DrainTakesLease \/ DrainEnds
  \/ \E i \in Ingesters : ReadTier0(i) \/ WriteTier0(i) \/ Ingest(i) \/ EndIngest(i)

(* The worker and its pool threads run, cooldowns pass, a chat, a drain and   *)
(* an ingestion end.                                                         *)
Fairness ==
  /\ WF_vars(Worker) /\ WF_vars(UserLeaves) /\ WF_vars(DrainEnds) /\ SF_vars(DrainTakesLease)
  /\ \A t \in Tasks : SF_vars(CoolDown(t))
  /\ \A i \in Ingesters : WF_vars(WriteTier0(i)) /\ WF_vars(EndIngest(i))

Spec == Init /\ [][Next]_vars /\ Fairness

----------------------------------------------------------------------------
(* No document is listed by two topics, although a pass may stop between the  *)
(* transaction that saves its topics and the one that marks its documents,   *)
(* and two levels cluster the same corpus.                                   *)
OneTopicEach == \A d \in Docs : inTopics[d] <= 1

(* The queue catches up again and again with the documents the policy        *)
(* accepts, although a dirty flag raised during a run is cleared by it,       *)
(* documents get their centroids at any time, and tasks fail or are skipped. *)
(* The one exception are documents whose evaluation was dropped half way:     *)
(* then all the gate looks at says that nothing is left to do.               *)
PromotableIsQueued == []<>(live \cap Promotable \subseteq queue \cup missed)

(* A cycle that took the lease gives it back: no two tasks wait for each      *)
(* other's resources.                                                        *)
CyclesEnd == []<>(wk = "sleep")
=============================================================================
