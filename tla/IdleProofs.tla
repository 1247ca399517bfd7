----------------------------- MODULE IdleProofs -----------------------------
(* What the idle cycle promises for any tasks, resources, documents,          *)
(* ingestion processes and faults.                                           *)
EXTENDS IdleCycle, TLAPS

\* The part of the types that the topics depend on.
WorkTypes ==
  /\ stored \in SUBSET Docs /\ live \in SUBSET Docs /\ sourced \in SUBSET Docs
  /\ inTopics \in [Docs -> Nat]
  /\ todo \in [cluster : SUBSET Docs, curate : SUBSET Docs, eval : SUBSET Docs]
  /\ task \in [Tasks -> {"none", "queued", "locking", "running", "done"}]

\* A level of enrichment is under way only while its task runs, and the two tasks
\* belong to different tiers of the cycle.
Scheduled == {"queued", "locking", "running"}
LevelsApart ==
  /\ tp \notin {"off", "done"} => task["topify"] = "running"
  /\ dp \notin {"off", "done"} => task["deep"] = "running"
  /\ task["topify"] \in Scheduled => wk = "t1"
  /\ task["deep"] \in Scheduled => wk = "t2"

\* What topify is about to group has no topic, although it read that earlier.
GroupsUnlisted == tp = "save" => \A d \in todo.cluster : inTopics[d] = 0

TopicInv == WorkTypes /\ LevelsApart /\ GroupsUnlisted /\ OneTopicEach

\* At the start no document has a topic.
LEMMA TopicInit == Init => TopicInv
  BY TasksAssumption DEF Init, EnrichInit, NoWork, TopicInv, WorkTypes, LevelsApart, Scheduled,
     GroupsUnlisted, OneTopicEach, Tasks

\* The levels, a stop of them and every other task of the cycle keep the clusters apart.
LEMMA TopicStep == TopicInv /\ [Next]_vars => TopicInv'
<1> SUFFICES ASSUME TopicInv, [Next]_vars PROVE TopicInv'
  OBVIOUS
<1> USE TasksAssumption
<1> USE DEF TopicInv, WorkTypes, LevelsApart, Scheduled, GroupsUnlisted, OneTopicEach, Tasks
<1> USE DEF enrichVars, storeVars, clusterVars, topifyVars, deepVars, cycleVars, otherVars
<1>1. CASE GateTier0
  BY <1>1 DEF GateTier0
<1>2. CASE GateOthers
  BY <1>2 DEF GateOthers
<1>3. CASE ClaimCycle
  BY <1>3 DEF ClaimCycle, Due, Idle
<1>4. CASE BeginTier2
  BY <1>4 DEF BeginTier2
<1>5. CASE EndCycle
  BY <1>5 DEF EndCycle
<1>6. ASSUME NEW t \in Tasks, StartTask(t) PROVE TopicInv'
  BY <1>6 DEF StartTask
<1>7. ASSUME NEW t \in Tasks, TakeLock(t) PROVE TopicInv'
  BY <1>7 DEF TakeLock
<1>8. ASSUME NEW t \in Tasks, BeginTask(t) PROVE TopicInv'
  BY <1>8 DEF BeginTask, Idle
<1>9. ASSUME NEW t \in Tasks, EndTask(t) PROVE TopicInv'
  BY <1>9 DEF EndTask, Finish
<1>10. ASSUME NEW t \in Tasks, NextTier2(t) PROVE TopicInv'
  BY <1>10 DEF NextTier2, Idle, Due
<1>11. ASSUME NEW t \in Tasks, CoolDown(t) PROVE TopicInv'
  BY <1>11 DEF CoolDown
<1>12. CASE StepTask
  <2>1. CASE task["topify"] = "running" /\ TopifyGate
    BY <1>12, <2>1, TasksAssumption DEF StepTask, TopifyGate, Unchanged
  <2>2. CASE task["topify"] = "running" /\ TopifyScan
    BY <1>12, <2>2, TasksAssumption DEF StepTask, TopifyScan, Clustered, Curated, NoWork
  <2>3. CASE task["topify"] = "running" /\ SaveClusters
    BY <1>12, <2>3, TasksAssumption DEF StepTask, SaveClusters, Grouped, AddTopics
  <2>4. CASE task["topify"] = "running" /\ MarkClustered
    BY <1>12, <2>4, TasksAssumption DEF StepTask, MarkClustered, MarkStage
  <2>5. CASE task["topify"] = "running" /\ SaveDecisions
    BY <1>12, <2>5, TasksAssumption DEF StepTask, SaveDecisions
  <2>6. CASE task["topify"] = "running" /\ MarkCurated
    BY <1>12, <2>6, TasksAssumption DEF StepTask, MarkCurated, MarkStage
  <2>7. CASE task["topify"] = "running" /\ EndEvaluation
    BY <1>12, <2>7, TasksAssumption DEF StepTask, EndEvaluation
  <2>8. CASE task["topify"] = "running" /\ RecordCount
    BY <1>12, <2>8, TasksAssumption DEF StepTask, RecordCount
  <2>9. CASE task["topify"] = "running" /\ ClearDirty
    BY <1>12, <2>9, TasksAssumption DEF StepTask, ClearDirty, NoWork
  <2>10. ASSUME task["topify"] = "running", NEW d \in Docs, Evaluate(d) PROVE TopicInv'
    BY <1>12, <2>10, TasksAssumption DEF StepTask, Evaluate, Promotable
  <2>11. CASE task["deep"] = "running" /\ DeepScan
    BY <1>12, <2>11, TasksAssumption DEF StepTask, DeepScan
  <2>12. CASE task["deep"] = "running" /\ DeepSave
    BY <1>12, <2>12, TasksAssumption DEF StepTask, DeepSave, Grouped, AddTopics, Clustered, NoWork
  <2>13. CASE task["deep"] = "running" /\ DeepAborts
    BY <1>12, <2>13, TasksAssumption DEF StepTask, DeepAborts
  <2>14. CASE task["deep"] = "running" /\ DeepMark
    BY <1>12, <2>14, TasksAssumption DEF StepTask, DeepMark, MarkStage, NoWork
  <2>15. CASE task["deep"] = "running" /\ GrayQueue
    BY <1>12, <2>15, TasksAssumption DEF StepTask, GrayQueue
  <2>16. CASE task["deep"] = "running" /\ GrayEnd(~Idle)
    BY <1>12, <2>16, TasksAssumption DEF StepTask, GrayEnd
  <2>17. ASSUME task["deep"] = "running", NEW d \in Docs, NEW v \in {"promote", "keep", "none"}, GrayDecide(d, v) PROVE TopicInv'
    BY <1>12, <2>17, TasksAssumption DEF StepTask, GrayDecide
  <2> QED
    BY <1>12, <2>1, <2>2, <2>3, <2>4, <2>5, <2>6, <2>7, <2>8, <2>9, <2>10, <2>11, <2>12, <2>13, <2>14, <2>15, <2>16, <2>17
       DEF StepTask, TopifyStep, DeepStep
<1>13. CASE TopifyRaises
  BY <1>13 DEF TopifyRaises, Fault, AbandonTopify, Finish, NoWork
<1>14. CASE TopifyEvalError
  BY <1>14 DEF TopifyEvalError, Fault, EvaluationFails
<1>15. CASE Restart
  BY <1>15 DEF Restart, Fault, AbandonAll, NoWork
<1>16. CASE UserReturns
  BY <1>16 DEF UserReturns, Fault
<1>17. CASE UserLeaves
  BY <1>17 DEF UserLeaves
<1>18. CASE DrainTakesLease
  BY <1>18 DEF DrainTakesLease
<1>19. CASE DrainEnds
  BY <1>19 DEF DrainEnds
<1>20. ASSUME NEW i \in Ingesters, ReadTier0(i) PROVE TopicInv'
  BY <1>20 DEF ReadTier0
<1>21. ASSUME NEW i \in Ingesters, WriteTier0(i) PROVE TopicInv'
  BY <1>21 DEF WriteTier0
<1>22. ASSUME NEW i \in Ingesters, EndIngest(i) PROVE TopicInv'
  BY <1>22 DEF EndIngest
<1>23. ASSUME NEW i \in Ingesters, Ingest(i) PROVE TopicInv'
  BY <1>23 DEF Ingest, CommitDoc, RecordMetadata
<1>24. CASE UNCHANGED vars
  BY <1>24 DEF vars
<1> QED
  BY <1>1, <1>2, <1>3, <1>4, <1>5, <1>6, <1>7, <1>8, <1>9, <1>10, <1>11, <1>12,
     <1>13, <1>14, <1>15, <1>16, <1>17, <1>18, <1>19, <1>20, <1>21, <1>22, <1>23,
     <1>24 DEF Next, Worker

\* No interleaving of ingestion, drain, user and idle cycle, no failed task and no
\* crash between the transaction that saves the topics and the one that marks their
\* documents puts a document into two topics (idle_enrichment.py:435-455, 640-660).
THEOREM TopicsDisjoint == Spec => []OneTopicEach
  BY TopicInit, TopicStep, PTL DEF Spec, TopicInv
=============================================================================
