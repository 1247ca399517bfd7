-------------------------------- MODULE Lessons -------------------------------
(* What the tutor keeps of a course: the goal, the units of its two versions, *)
(* the progress, the place and the expansions of each, and what assessments   *)
(* left of the learner.  Module Tutor has the decisions about the versions;  *)
(* here one is decided in one step, and activated in two transactions.       *)
EXTENDS Naturals, Sequences, FiniteSets, SequencesExt

CONSTANTS Units,
          MaxDepth,     \* levels of depth, 3 in the code
          MaxAssess,    \* bound: assessments
          MaxFaults,    \* bound: restarts
          Races,        \* bound: whether an expansion takes its time
          Shows         \* bound: what a behaviour may show

VARIABLES
  status,     \* roadmaps: of each version
  units,      \* its units in their order
  concept,    \* of each unit: the first one or another
  progress,   \* unit_progress
  place,      \* roadmap_position: unit (or "none") and depth
  expansion,  \* roadmap_expansions: "none", "stale", or the concept it shows
  route,      \* an expansion under way: version, unit and concept read
  goal,       \* learning_goals: status
  approved,   \* history: whether the last word of the user on the goal is yes
  log,        \* user_evidence: how many records
  record,     \* user_topic_records: attempts and the evidence it names
  assess,     \* two assessments: where each is and what it holds
  faults,
  show        \* bound: course, material, goal or learner

path == <<units, progress>>
material == <<concept, place, expansion, route>>
aim == <<goal, approved>>
learner == <<log, record, assess>>
bounds == <<faults, show>>
vars == <<status, path, material, aim, learner, bounds>>

Versions == {1, 2}
Live == {"proposed", "approved", "inheriting", "active"}
Pending == [u \in Units |-> "pending"]
NoRoute == [v |-> 0, u |-> "none", of |-> "first"]
Nothing == [attempts |-> 0, ids |-> {}]
Rest == [pc |-> "rest", id |-> 0, was |-> Nothing]
In(v) == ToSet(units[v])

Init ==
  /\ status = [v \in Versions |-> "none"] /\ units = [v \in Versions |-> <<>>]
  /\ concept = [v \in Versions |-> [u \in Units |-> "first"]]
  /\ progress = [v \in Versions |-> Pending]
  /\ place = [v \in Versions |-> [u |-> "none", depth |-> 0]]
  /\ expansion = [v \in Versions |-> [u \in Units |-> "none"]] /\ route = NoRoute
  /\ goal = "none" /\ approved = FALSE
  /\ log = 0 /\ record = Nothing /\ assess = [i \in {1, 2} |-> Rest]
  /\ faults = 0 /\ show \in Shows

----------------------------------------------------------------------------
(* The goal.  A new topic makes it, also out of one that was cancelled; the    *)
(* card of the sidebar confirms it with its roadmap and activates it.        *)

\* Mutant: a goal that was decided stays so.
ReopenedNever == goal

Ensured == IF goal \in {"none", "cancelled", "completed"} THEN "proposed" ELSE goal
Confirmed == IF goal = "proposed" THEN "confirmed" ELSE goal
Active(g) == IF g = "confirmed" THEN "active" ELSE g

Reopened == IF goal \in {"none", "completed"} THEN goal ELSE "proposed"

Cancelled == IF goal = "none" THEN goal ELSE "cancelled"

Goal(g, yes) == IF show = "goal" THEN goal' = g /\ approved' = yes ELSE UNCHANGED aim
Kept == Goal(goal, approved)

(* A page that shows a roadmap without a goal makes one up from the newest.   *)
GoalFor(x) ==
  CASE x = "approved" -> "confirmed" [] x \in {"inheriting", "active"} -> "active"
    [] x = "rejected" -> "cancelled" [] OTHER -> "proposed"

ShowProjects ==
  /\ show = "goal" /\ goal = "none" /\ \E v \in Versions : status[v] # "none"
  /\ LET x == IF status[2] # "none" THEN status[2] ELSE status[1]
     IN Goal(GoalFor(x), approved \/ GoalFor(x) \in {"confirmed", "active"})
  /\ UNCHANGED <<status, path, material, learner, bounds>>

(* The model proposes the first version: units shaped to the limits.  Bound:    *)
(* a behaviour about the material follows one of them.                       *)
Shaped == IF show = "material" THEN <<CHOOSE u \in Units : TRUE>> ELSE SetToSeq(Units)

Propose ==
  /\ show # "learner" /\ status[1] = "none"
  /\ status' = [status EXCEPT ![1] = "proposed"] /\ units' = [units EXCEPT ![1] = Shaped]
  /\ Goal(Ensured, approved /\ Ensured = goal)
  /\ UNCHANGED <<progress, material, learner, bounds>>

----------------------------------------------------------------------------
(* The workbench: a draft of another version is edited, checked and frozen.   *)

Draft ==
  /\ status[1] # "none" /\ status[2] = "none"
  /\ status' = [status EXCEPT ![2] = "draft"]
  /\ units' = [units EXCEPT ![2] = units[1]] /\ concept' = [concept EXCEPT ![2] = concept[1]]
  /\ UNCHANGED <<progress, place, expansion, route, aim, learner, bounds>>

Editing(v, what) == status[v] = "draft" /\ show = what

AddUnit(v, u) ==
  /\ Editing(v, "course") /\ u \notin In(v)
  /\ units' = [units EXCEPT ![v] = Append(@, u)]
  /\ UNCHANGED <<status, progress, material, aim, learner, bounds>>

(* The expansions of the unit go, its progress and the place stay.           *)
RemoveUnit(v, u) ==
  /\ Editing(v, "course")
  /\ \E i \in DOMAIN units[v] : /\ units[v][i] = u
                               /\ units' = [units EXCEPT ![v] = RemoveAt(@, i)]
  /\ expansion' = [expansion EXCEPT ![v][u] = "none"]
  /\ UNCHANGED <<status, progress, concept, place, route, aim, learner, bounds>>

ReorderUnits(v) ==
  /\ Editing(v, "course")
  /\ \E s \in [DOMAIN units[v] -> In(v)] : IsInjective(s) /\ s # units[v]
                                           /\ units' = [units EXCEPT ![v] = s]
  /\ UNCHANGED <<status, progress, material, aim, learner, bounds>>

(* A unit with another concept keeps its identity; what was made for the old  *)
(* one in this version becomes stale.                                        *)
MarkStale(v, u) == expansion' = [expansion EXCEPT ![v][u] = IF @ = "none" THEN @ ELSE "stale"]

EditUnit(v, u) ==
  /\ Editing(v, "material") /\ u \in In(v) /\ concept[v][u] = "first"
  /\ concept' = [concept EXCEPT ![v][u] = "other"] /\ MarkStale(v, u)
  /\ UNCHANGED <<status, path, place, route, aim, learner, bounds>>

(* What the validation of a version to be frozen asks for; 3 to 7 in the code. *)
Valid(v) == units[v] # <<>>

FreezeDraft(v) ==
  /\ status[v] = "draft" /\ Valid(v) /\ status' = [status EXCEPT ![v] = "proposed"]
  /\ UNCHANGED <<path, material, aim, learner, bounds>>

(* Bound: the first version is not opened again.                             *)
Thaw(v) ==
  /\ status[v] = "proposed" /\ v = 2 /\ show = "course" /\ status' = [status EXCEPT ![v] = "draft"]
  /\ UNCHANGED <<path, material, aim, learner, bounds>>

----------------------------------------------------------------------------
(* Decisions.  A card decides the goal too, words and the list do not.       *)

Approve(v, card) ==
  /\ status[v] = "proposed" \/ (card /\ status[v] = "rejected")
  /\ status' = [status EXCEPT ![v] = "approved"]
  /\ Goal(IF card THEN Confirmed ELSE goal, card \/ approved)
  /\ UNCHANGED <<path, material, learner, bounds>>

(* Activated first; what the second version inherits is written next.        *)
Activate(v, card) ==
  /\ status[v] = "approved"
  /\ status' = [status EXCEPT ![v] = IF v = 2 THEN "inheriting" ELSE "active"]
  /\ Goal(IF card THEN Active(goal) ELSE goal, approved)
  /\ UNCHANGED <<path, material, learner, bounds>>

(* Progress, place and expansions of the units that are still there.         *)
Inherit ==
  LET From(f, none) == [f EXCEPT ![2] =
        [u \in Units |-> IF u \in In(2) /\ f[1][u] # none THEN f[1][u] ELSE f[2][u]]]
  IN /\ status[2] = "inheriting" /\ status' = [status EXCEPT ![2] = "active"]
     /\ progress' = From(progress, "pending") /\ expansion' = From(expansion, "none")
     /\ place' = [place EXCEPT ![2] = IF place[1].u \in In(2) THEN place[1] ELSE @]
     /\ UNCHANGED <<units, concept, route, aim, learner, bounds>>

Reopen(v) ==
  /\ status[v] \in {"approved", "active", "rejected"}
  /\ status' = [status EXCEPT ![v] = "proposed"] /\ Goal(Reopened, FALSE)
  /\ UNCHANGED <<path, material, learner, bounds>>

(* The goal is cancelled unless another version still serves it.             *)
Reject(v) ==
  /\ status[v] \in Live \ {"inheriting"}
  /\ status' = [status EXCEPT ![v] = "rejected"]
  /\ IF \E w \in Versions \ {v} : status[w] \in Live THEN Kept ELSE Goal(Cancelled, FALSE)
  /\ UNCHANGED <<path, material, learner, bounds>>

----------------------------------------------------------------------------
(* Lessons.  A message asks for the next unit, for more depth or for less.   *)

Seeded(p, s) == IF p = Pending /\ s # <<>> THEN [p EXCEPT ![Head(s)] = "current"] ELSE p

\* Mutant: only a unit in progress can be done.
OpenCurrent(p, s) == {i \in DOMAIN s : p[s[i]] = "current"}

(* The unit in progress, or else those that are not done.                    *)
OpenUnits(p, s) ==
  LET current == {i \in DOMAIN s : p[s[i]] = "current"}
  IN IF current # {} THEN current ELSE {i \in DOMAIN s : p[s[i]] # "done"}

(* The first of them is done and the next of the course current, whatever it   *)
(* was.                                                                      *)
Advanced(p, s) ==
  LET open == OpenUnits(p, s)
      i == Min(open)
  IN IF open = {} THEN p
     ELSE [u \in Units |-> CASE u = s[i] -> "done"
                             [] i < Len(s) /\ u = s[i + 1] -> "current"
                             [] OTHER -> p[u]]

Advance(v) ==
  /\ status[v] = "active" /\ show = "course"
  /\ progress' = [progress EXCEPT ![v] = Advanced(Seeded(@, units[v]), units[v])]
  /\ UNCHANGED <<status, units, material, aim, learner, bounds>>

(* The place is kept apart from the progress: it stays at the unit at which    *)
(* the depth was last changed.                                               *)
Here(v) == IF place[v].u \in In(v) THEN place[v].u ELSE Head(units[v])

ChangeDepth(v, d) ==
  /\ status[v] = "active" /\ show = "material" /\ units[v] # <<>>
  /\ d \in {place[v].depth + 1, place[v].depth - 1} \cap 0 .. MaxDepth
  /\ place' = [place EXCEPT ![v] = [u |-> Here(v), depth |-> d]]
  /\ UNCHANGED <<status, path, concept, expansion, route, aim, learner, bounds>>

(* The route that expands a unit reads it, generates and saves.              *)
Save(v, u, of) == expansion' = [expansion EXCEPT ![v][u] = of]

Expand(v, u) ==
  /\ show = "material" /\ status[v] # "none" /\ u \in In(v) /\ route = NoRoute
  /\ IF Races THEN route' = [v |-> v, u |-> u, of |-> concept[v][u]] /\ UNCHANGED expansion
     ELSE Save(v, u, concept[v][u]) /\ UNCHANGED route
  /\ UNCHANGED <<status, path, concept, place, aim, learner, bounds>>

(* Saved as fresh, or the corpus has nothing about the concept.              *)
ExpandEnds ==
  /\ route # NoRoute /\ route' = NoRoute
  /\ Save(route.v, route.u, route.of) \/ UNCHANGED expansion
  /\ UNCHANGED <<status, path, concept, place, aim, learner, bounds>>

----------------------------------------------------------------------------
(* Assessments.  The model classifies an answer, the evidence is recorded, and *)
(* the record of the topic is read and written.                              *)

Assessing == {i \in {1, 2} : assess[i].pc = "model"}

StartAssess(i) ==
  /\ show = "learner" /\ assess[i] = Rest /\ log + Cardinality(Assessing) < MaxAssess
  /\ assess' = [assess EXCEPT ![i].pc = "model"]
  /\ UNCHANGED <<status, path, material, aim, log, record, bounds>>

\* Mutant: the record is written before its evidence.
RecordEvidenceLate(i) ==
  /\ record' = [attempts |-> record.attempts + 1, ids |-> record.ids \cup {log + 1}]
  /\ assess' = [assess EXCEPT ![i] = Rest] /\ UNCHANGED log

(* An abstention leaves evidence and no record.                              *)
RecordEvidence(i) ==
  /\ log' = log + 1
  /\ assess' \in {[assess EXCEPT ![i] = [Rest EXCEPT !.pc = "read", !.id = log + 1]],
                  [assess EXCEPT ![i] = Rest]}
  /\ UNCHANGED record

Classified(i) ==
  /\ assess[i].pc = "model" /\ RecordEvidence(i)
  /\ UNCHANGED <<status, path, material, aim, bounds>>

ReadRecord(i) ==
  /\ assess[i].pc = "read"
  /\ assess' = [assess EXCEPT ![i].pc = "write", ![i].was = record]
  /\ UNCHANGED <<status, path, material, aim, log, record, bounds>>

UpdateMastery(i) ==
  /\ assess[i].pc = "write"
  /\ record' = [attempts |-> assess[i].was.attempts + 1, ids |-> assess[i].was.ids \cup {assess[i].id}]
  /\ assess' = [assess EXCEPT ![i] = Rest]
  /\ UNCHANGED <<status, path, material, aim, log, bounds>>

(* What a version was about to inherit is lost: it is active already.        *)
Restart ==
  /\ faults < MaxFaults /\ faults' = faults + 1
  /\ assess' = [i \in {1, 2} |-> Rest] /\ route' = NoRoute
  /\ status' = [v \in Versions |-> IF status[v] = "inheriting" THEN "active" ELSE status[v]]
  /\ UNCHANGED <<path, concept, place, expansion, aim, log, record, show>>

VersionStep(v) ==
  \/ \E u \in Units : AddUnit(v, u) \/ RemoveUnit(v, u) \/ EditUnit(v, u) \/ Expand(v, u)
  \/ \E card \in BOOLEAN : Approve(v, card) \/ Activate(v, card)
  \/ \E d \in 0 .. MaxDepth : ChangeDepth(v, d)
  \/ ReorderUnits(v) \/ FreezeDraft(v) \/ Thaw(v) \/ Reopen(v) \/ Reject(v) \/ Advance(v)

AssessStep(i) == StartAssess(i) \/ Classified(i) \/ ReadRecord(i) \/ UpdateMastery(i)

Next ==
  \/ ShowProjects \/ Propose \/ Draft \/ Inherit \/ ExpandEnds \/ Restart
  \/ \E v \in Versions : VersionStep(v)
  \/ \E i \in {1, 2} : AssessStep(i)

Spec == Init /\ [][Next]_vars

----------------------------------------------------------------------------
(* A course with progress p and units s after so many requests for the next.  *)
EnoughRequests == 2 * Cardinality(Units)
After(p, s) ==
  LET f[n \in 0 .. EnoughRequests] == IF n = 0 THEN Seeded(p, s) ELSE Advanced(f[n - 1], s)
  IN f

(* Asking for the next unit always ends the course: however its units were     *)
(* added, removed and reordered, and whatever it inherited, so many requests   *)
(* leave every unit of it done.                                              *)
CourseCanEnd ==
  \A v \in Versions, u \in Units :
    u \in In(v) => After(progress[v], units[v])[EnoughRequests][u] = "done"

(* A goal is confirmed or active only while the user's last word on it is yes, *)
(* whichever versions were approved, reopened and rejected and however the      *)
(* goal came to exist.                                                       *)
GoalIsApproved == goal \in {"confirmed", "active"} => approved

(* What the record of a topic says about the learner traces to evidence that  *)
(* was recorded, one attempt each, whatever restarts and other assessments    *)
(* came between the two writes.                                              *)
MasteryIsEvidenced ==
  record.ids \subseteq 1 .. log /\ record.attempts = Cardinality(record.ids)

(* An expansion that is shown as fresh was made for the concept its unit has. *)
FreshIsOfConcept ==
  \A v \in Versions, u \in Units :
    u \in In(v) /\ expansion[v][u] \notin {"none", "stale"} => expansion[v][u] = concept[v][u]
=============================================================================
