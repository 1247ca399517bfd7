------------------------------ MODULE MCStores ------------------------------
(* Parts that meet only in stores each of them keeps to itself: the ingestion  *)
(* pipeline of the dashboard and the stand-alone one, reports, topic groups and *)
(* their backfill, lessons, tasks, the approval panel, idle cognition and       *)
(* recall, the summaries of the chunks, and the work permits of the repository. *)
(* They share no variable, so a behaviour shows one of them and the others stay *)
(* as they were: the states of the parts add up. No liveness is checked here.   *)
EXTENDS Pipeline, Sequences

CONSTANTS
  \* Continuous: the paths it reads, and bounds of rewriting and failures.
  Inputs, MaxRewrites, MaxMishaps,
  \* Reports: the documents, and bounds of runs, of what a human does and of crashes.
  Papers, MaxReports, MaxHuman, MaxDead,
  \* TopicGroups and Backfill: their sizes, and a bound of crashes.
  MaxTopics, MaxGroup, MaxParents, MaxNamed,
  MaxPoints, Families, Clusters, MaxDocs, MinSize, MaxStops,
  \* Lessons and Tasks: units and depth, plans and retries, and their bounds.
  Units, MaxDepth, MaxAssess, MaxLapses, Races, Shows,
  Plans, Retries, MaxCalls, MaxOthers, MaxCrashes,
  \* Approvals and Cognition: facts, request threads, tables, patterns, and their bounds.
  Facts, Requests, MaxProposals, MaxAnswers, MaxEpochs,
  TableKinds, Patterns, Window, Top, MaxUses, MaxRows, MaxCycles, MaxDecisions,
  \* Recall and Summaries: items and chunks, what one pass takes, and their bounds.
  Recallers, Items, StoreOf, Cap, Batch, MaxVersions, MaxBreaks,
  Chunks, BatchSize, Limit, Threshold, MaxErrors,
  \* Permits: sessions, paths and scopes, and their bounds.
  Sessions, Paths, Globs, MaxPermits, MaxKills, Return

ASSUME InputsAssumption == IsFiniteSet(Inputs)
ASSUME PointsAssumption == MaxPoints \in Nat /\ MinSize \in Nat
\* A course has units.
ASSUME UnitsAssumption == IsFiniteSet(Units) /\ Units # {}
ASSUME PlansAssumption == Plans \subseteq Seq({"sync", "research", "ingest"})
ASSUME StoresAssumption == StoreOf \in [Items -> {"memory", "user", "strategic", "tutor"}]
\* A window counts rows; a goal a person words is none of the patterns.
ASSUME PatternsAssumption == Window \in Nat /\ "declared" \notin Patterns
\* Paths and scopes are sequences, and a literal is one name.
ASSUME PathsAssumption == \A p \in Paths : p \in Seq({p[i] : i \in DOMAIN p})
ASSUME ScopesAssumption ==
  \A g \in Globs :  /\ g \in Seq({g[i] : i \in DOMAIN g})
                    /\ \A i \in DOMAIN g : g[i].kind = "literal" => \E n \in g[i].names : g[i].names = {n}

VARIABLES part,
  mode, enrich, ground, written, pending, archive, pc, waiting, processed, fresh,
    lastDoc, kept, seen, vectors, embedErr, mishaps,                          \* continuous
  corpus, tantivy, indexed, verdicts, topics, file, latest, reviewed, main, run,
    tool, edit, shown, made, human, crashes,                                  \* reports
  near, close, at, group, parents,                                            \* groups
  family, there, vector, members, round, stops,                               \* backfill
  status, units, concept, marks, place, expansion, route, goal, approved,
    log, record, assess, lapses, show,                                        \* lessons
  row, exec, asked, disk, own, mine, notYet, calls, others, deaths,           \* tasks
  prop, request, active, waits, told, agreed, epoch, proposals, decisions,    \* approvals
  kind, uses, rows, interest, length, pass, cycles, decided,                  \* cognition
  source, item, table, order, memory, recaller, breaks,                       \* recall
  chunk, vec, gen, raised, work, errors,                                       \* summaries
  permit, issued, proc, alive, lock, cmd, unharvested, killed                 \* permits

cvars == <<mode, enrich, ground, written, pending, archive, pc, waiting, processed, fresh,
           lastDoc, kept, seen, vectors, embedErr, mishaps>>
rvars == <<corpus, tantivy, indexed, verdicts, topics, file, latest, reviewed, main, run,
           tool, edit, shown, made, human, crashes>>
gvars == <<near, close, at, group, parents>>
bvars == <<family, there, vector, members, round, stops>>
lvars == <<status, units, concept, marks, place, expansion, route, goal, approved,
           log, record, assess, lapses, show>>
tvars == <<row, exec, asked, disk, own, mine, notYet, calls, others, deaths>>
avars == <<prop, request, active, waits, told, agreed, epoch, proposals, decisions>>
ivars == <<kind, uses, rows, interest, length, pass, cycles, decided>>
mvars == <<source, item, table, order, memory, recaller, breaks>>
svars == <<chunk, vec, gen, raised, work, errors>>
pvars == <<permit, issued, proc, alive, lock, cmd, unharvested, killed>>
allVars == <<part, vars, cvars, rvars, gvars, bvars, lvars, tvars, avars, ivars, mvars, svars, pvars>>

Modes == {"incremental", "rebuild"}
LessonShows == {"course", "material", "goal", "learner"}
Tables == {"principle", "skill", "goal", "agenda", "profile"}
TaskPlans == {<<"sync", "research", "sync">>, <<"ingest", "sync">>, <<"sync">>,
              <<"research", "research">>}

\* Paths of one to three names, and the scopes a, a/ab, a/*, a/**, a*/b, **/b, a/**/b, *, **.
Names == {"a", "ab", "b"}
Lit(n) == [kind |-> "literal", names |-> {n}]
Star == [kind |-> "wild", names |-> Names]
AStar == [kind |-> "wild", names |-> {"a", "ab"}]
Deep == [kind |-> "deep", names |-> {}]
PermitPaths == {<<n>> : n \in Names} \cup (Names \X Names) \cup (Names \X Names \X Names)
PermitScopes ==
  {<<Lit("a")>>, <<Lit("a"), Lit("ab")>>, <<Lit("a"), Star>>, <<Lit("a"), Deep>>, <<AStar, Lit("b")>>,
   <<Deep, Lit("b")>>, <<Lit("a"), Deep, Lit("b")>>, <<Star>>, <<Deep>>}

GoalIsUsers == [i \in {"goal"} |-> "user"]

C == INSTANCE Continuous WITH Paths <- Inputs, MaxWrites <- MaxRewrites, MaxFaults <- MaxMishaps,
       landing <- ground, queue <- waiting, store <- kept, lance <- vectors, faults <- mishaps
R == INSTANCE Reports WITH Docs <- Papers, MaxRuns <- MaxReports, MaxCrashes <- MaxDead,
       lance <- indexed, decisions <- verdicts, progress <- shown, runs <- made
G == INSTANCE TopicGroups WITH N <- MaxTopics
B == INSTANCE Backfill WITH N <- MaxPoints, crashes <- stops
L == INSTANCE Lessons WITH MaxFaults <- MaxLapses, progress <- marks, faults <- lapses
T == INSTANCE Tasks WITH file <- disk, crashes <- deaths
A == INSTANCE Approvals WITH MaxDecisions <- MaxAnswers, pending <- waits
I == INSTANCE Cognition WITH Kinds <- TableKinds, decisions <- decided
M == INSTANCE Recall WITH MaxFaults <- MaxBreaks, vector <- memory, stops <- breaks
S == INSTANCE Summaries WITH MaxFaults <- MaxErrors, row <- chunk, stale <- raised, faults <- errors
P == INSTANCE Permits WITH Scopes <- Globs, kills <- killed

Parts == {"pipeline", "continuous", "reports", "groups", "backfill",
          "lessons", "tasks", "approvals", "cognition", "recall", "summaries", "permits"}

\* A part that does not run has one initial state.
Only(p, choices, one) == IF part = p THEN choices ELSE {one}
NoFile == [st |-> "none", who |-> "none"]

MCInit ==
  /\ part \in Parts
  /\ tier0 \in Only("pipeline", BOOLEAN, FALSE)
  /\ mode \in Only("continuous", Modes, "rebuild") /\ enrich \in Only("continuous", BOOLEAN, FALSE)
  /\ near \in Only("groups", SUBSET G!Pairs, {})
  /\ family \in Only("backfill", [B!Docs -> Families], [d \in B!Docs |-> "f"])
  /\ show \in Only("lessons", Shows, "goal")
  /\ asked \in Only("tasks", BOOLEAN, FALSE)
  /\ disk \in [T!Kinds -> Only("tasks", {NoFile, [st |-> "done", who |-> "other"]}, NoFile)]
  /\ kind \in Only("cognition", TableKinds, "profile")
  /\ Init /\ C!Init /\ R!Init /\ G!Init /\ B!Init /\ L!Init /\ T!Init /\ A!Init /\ I!Init /\ M!Init
  /\ S!Init /\ P!Init

MCNext ==
  \/ part = "pipeline" /\ Next
     /\ UNCHANGED <<part, cvars, rvars, gvars, bvars, lvars, tvars, avars, ivars, mvars, svars, pvars>>
  \/ part = "continuous" /\ C!Next
     /\ UNCHANGED <<part, vars, rvars, gvars, bvars, lvars, tvars, avars, ivars, mvars, svars, pvars>>
  \/ part = "reports" /\ R!Next
     /\ UNCHANGED <<part, vars, cvars, gvars, bvars, lvars, tvars, avars, ivars, mvars, svars, pvars>>
  \/ part = "groups" /\ G!Next
     /\ UNCHANGED <<part, vars, cvars, rvars, bvars, lvars, tvars, avars, ivars, mvars, svars, pvars>>
  \/ part = "backfill" /\ B!Next
     /\ UNCHANGED <<part, vars, cvars, rvars, gvars, lvars, tvars, avars, ivars, mvars, svars, pvars>>
  \/ part = "lessons" /\ L!Next
     /\ UNCHANGED <<part, vars, cvars, rvars, gvars, bvars, tvars, avars, ivars, mvars, svars, pvars>>
  \/ part = "tasks" /\ T!Next
     /\ UNCHANGED <<part, vars, cvars, rvars, gvars, bvars, lvars, avars, ivars, mvars, svars, pvars>>
  \/ part = "approvals" /\ A!Next
     /\ UNCHANGED <<part, vars, cvars, rvars, gvars, bvars, lvars, tvars, ivars, mvars, svars, pvars>>
  \/ part = "cognition" /\ I!Next
     /\ UNCHANGED <<part, vars, cvars, rvars, gvars, bvars, lvars, tvars, avars, mvars, svars, pvars>>
  \/ part = "recall" /\ M!Next
     /\ UNCHANGED <<part, vars, cvars, rvars, gvars, bvars, lvars, tvars, avars, ivars, svars, pvars>>
  \/ part = "summaries" /\ S!Next
     /\ UNCHANGED <<part, vars, cvars, rvars, gvars, bvars, lvars, tvars, avars, ivars, mvars, pvars>>
  \/ part = "permits" /\ P!Next
     /\ UNCHANGED <<part, vars, cvars, rvars, gvars, bvars, lvars, tvars, avars, ivars, mvars, svars>>

MCSpec == MCInit /\ [][MCNext]_allVars

(* What the stand-alone pipeline ends without a vector (Continuous).          *)
EndedIsVectorized == part = "continuous" => C!EndedIsVectorized
(* Every committed document keeps its source (Continuous).                    *)
CommittedIsKept == part = "continuous" => C!CommittedIsKept
(* A topic the panel can edit is in the store of its report (Reports).        *)
EditableIsStored == part = "reports" => R!EditableIsStored
(* The parents of the topics are a partition, or what a model chose (TopicGroups). *)
GroupsAreSound == part = "groups" => G!GroupsAreSound
(* Clusters stay disjoint and as large as they must be (Backfill).            *)
ClustersAreSound == part = "backfill" => B!ClustersAreSound
(* Asking for the next unit always ends the course (Lessons).                 *)
CourseCanEnd == part = "lessons" => L!CourseCanEnd
(* A goal is confirmed only while the user's last word on it is yes (Lessons). *)
GoalIsApproved == part = "lessons" => L!GoalIsApproved
(* What the record of a topic says traces to recorded evidence (Lessons).     *)
MasteryIsEvidenced == part = "lessons" => L!MasteryIsEvidenced
(* A closed task has no step left to do (Tasks).                              *)
ClosedIsWhole == part = "tasks" => T!ClosedIsWhole
(* The step after a research sees what it found (Tasks).                      *)
ResearchIsIn == part = "tasks" => T!ResearchIsIn
(* What the panel calls approved is in force, and nothing else is (Approvals). *)
GateIsTrue == part = "approvals" => A!GateIsTrue
(* A person is not asked twice (Cognition).                                   *)
AskedOnce == I!AskedOnce
(* A recall that ran alone answers from the stores (Recall).                  *)
RecallIsCurrent == part = "recall" => M!RecallIsCurrent
(* A chunk marked complete is in the index with its text (Summaries).         *)
CompleteIsIndexed == part = "summaries" => S!CompleteIsIndexed
(* Only the holder of an exclusive permit edits inside its scope (Permits).   *)
ExclusiveAlone == part = "permits" => P!ExclusiveAlone
=============================================================================
