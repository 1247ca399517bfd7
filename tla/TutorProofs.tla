---------------------------- MODULE TutorProofs ----------------------------
(* What the tutor promises for any number of sessions and of versions of a    *)
(* roadmap, and any number of restarts and refinements.                      *)
EXTENDS Tutor, FiniteSetTheorems, TLAPS

\* The least element of a non-empty set of versions is one of them.
LEMMA MinIsMember ==
  ASSUME NEW n \in Nat, NEW S \in SUBSET (1 .. n), S # {} PROVE Min(S) \in S
<1> DEFINE Below(x) == {y \in S : y <= x}
           Family == {Below(x) : x \in S}
<1>1. IsFiniteSet(S)
  <2>1. IsFiniteSet(1 .. n)
    BY FS_Interval
  <2> QED
    BY <2>1, FS_Subset
<1>2. IsWellFoundedOn(StrictSubsetOrdering(S), SUBSET S)
  BY <1>1, FS_StrictSubsetOrderingWellFounded, FS_FiniteSubsetsOfFinite
<1>3. \E U \in Family : \A W \in Family : ~(<<W, U>> \in StrictSubsetOrdering(S))
  <2>1. Family \subseteq SUBSET S /\ Family # {}
    OBVIOUS
  <2> HIDE DEF Family
  <2> QED
    BY <1>2, <2>1, WFMin
<1>4. PICK x \in S : \A W \in Family : ~(<<W, Below(x)>> \in StrictSubsetOrdering(S))
  BY <1>3
<1>5. \A y \in S : x <= y
  <2>1. \A z \in S : z \in Nat
    OBVIOUS
  <2> SUFFICES ASSUME NEW y \in S, y < x PROVE FALSE
    BY <2>1
  <2>2. Below(y) \subseteq Below(x)
    <3> SUFFICES ASSUME NEW z \in S, z <= y PROVE z <= x
      OBVIOUS
    <3> QED
      BY <2>1
  <2>3. Below(y) \in SUBSET S /\ Below(x) \in SUBSET S /\ x \in Below(x) /\ x \notin Below(y)
    BY <2>1
  <2>4. <<Below(y), Below(x)>> \in StrictSubsetOrdering(S)
    <3> HIDE DEF Below
    <3> QED
      BY <2>2, <2>3 DEF StrictSubsetOrdering
  <2> QED
    BY <1>4, <2>4
<1> QED
  BY <1>5 DEF Min

\* The greatest element of a non-empty set of versions is one of them.
LEMMA MaxIsMember ==
  ASSUME NEW n \in Nat, NEW S \in SUBSET (0 .. n), S # {} PROVE Max(S) \in S
<1> DEFINE Above(x) == {y \in S : y >= x}
           Family == {Above(x) : x \in S}
<1>1. IsFiniteSet(S)
  <2>1. IsFiniteSet(0 .. n)
    BY FS_Interval
  <2> QED
    BY <2>1, FS_Subset
<1>2. IsWellFoundedOn(StrictSubsetOrdering(S), SUBSET S)
  BY <1>1, FS_StrictSubsetOrderingWellFounded, FS_FiniteSubsetsOfFinite
<1>3. \E U \in Family : \A W \in Family : ~(<<W, U>> \in StrictSubsetOrdering(S))
  <2>1. Family \subseteq SUBSET S /\ Family # {}
    OBVIOUS
  <2> HIDE DEF Family
  <2> QED
    BY <1>2, <2>1, WFMin
<1>4. PICK x \in S : \A W \in Family : ~(<<W, Above(x)>> \in StrictSubsetOrdering(S))
  BY <1>3
<1>5. \A y \in S : x >= y
  <2>1. \A z \in S : z \in Nat
    OBVIOUS
  <2> SUFFICES ASSUME NEW y \in S, y > x PROVE FALSE
    BY <2>1
  <2>2. Above(y) \subseteq Above(x)
    <3> SUFFICES ASSUME NEW z \in S, z >= y PROVE z >= x
      OBVIOUS
    <3> QED
      BY <2>1
  <2>3. Above(y) \in SUBSET S /\ Above(x) \in SUBSET S /\ x \in Above(x) /\ x \notin Above(y)
    BY <2>1
  <2>4. <<Above(y), Above(x)>> \in StrictSubsetOrdering(S)
    <3> HIDE DEF Above
    <3> QED
      BY <2>2, <2>3 DEF StrictSubsetOrdering
  <2> QED
    BY <1>4, <2>4
<1> QED
  BY <1>5 DEF Max

\* The next version is one that nobody has used.
LEMMA NewestIsFresh == Fresh # {} => Newest \in Roadmaps /\ status[Newest] = "none"
  BY MinIsMember, TutorAssumption DEF Fresh, Newest, Roadmaps

-----------------------------------------------------------------------------
(* Types.                                                                   *)

Versions == Roadmaps \cup {0}
State == [known : BOOLEAN, roadmap : Versions, topic : BOOLEAN, asked : BOOLEAN,
          phase : {"idle", "roadmap_proposed", "active", "research_pending"}]

\* The types the decisions depend on.
StoreTypes == status \in [Roadmaps -> Statuses] /\ focus \in Versions
StateTypes == st \in [Sessions -> State]
RouteTypes == /\ card \in [s : SUBSET Sessions, r : Versions,
                           step : {"off", "approve", "activate", "point"}]
              /\ refine \in [r : Versions, was : Statuses]
HistoryTypes == /\ said \in [Roadmaps -> {"none", "approve", "reject", "reopen", "debate"}]
                /\ moved \in SUBSET Sessions /\ stale \in SUBSET Roadmaps

Types == StoreTypes /\ StateTypes /\ RouteTypes /\ HistoryTypes

\* A new session is well typed.
LEMMA TypeInit == Init => Types
  BY TutorAssumption DEF Init, Types, StoreTypes, StateTypes, RouteTypes, HistoryTypes, State,
     NoState, NoCard, NoRefine, Statuses, Versions

\* So is a session that is pointed at a roadmap.
LEMMA PointTypes ==
  ASSUME StateTypes, NEW s \in Sessions, NEW r \in Versions,
         NEW phase \in {"idle", "roadmap_proposed", "active", "research_pending"},
         Point(s, r, phase)
  PROVE  StateTypes'
  BY DEF StateTypes, State, Point

\* So is a session that lets its roadmap go.
LEMMA ReleaseTypes ==
  ASSUME StateTypes, NEW s \in Sessions, Release(s) PROVE StateTypes'
  BY DEF StateTypes, State, Release, Versions

\* So is one whose state is replaced by a well-typed one.
LEMMA ChangedTypes ==
  ASSUME StateTypes, NEW s \in Sessions, NEW q \in State, st' = [st EXCEPT ![s] = q]
  PROVE  StateTypes'
  BY DEF StateTypes

\* So is one whose request is answered.
LEMMA AnswerTypes ==
  ASSUME StateTypes, NEW s \in Sessions, NEW yes \in BOOLEAN,
         st' = [st EXCEPT ![s].phase = "idle", ![s].asked = yes]
  PROVE  StateTypes'
<1>1. st[s] \in State
  BY DEF StateTypes
<1>2. [st[s] EXCEPT !.phase = "idle", !.asked = yes] \in State
  BY <1>1 DEF State
<1>3. st' = [st EXCEPT ![s] = [st[s] EXCEPT !.phase = "idle", !.asked = yes]]
  BY DEF StateTypes, State
<1> QED
  BY <1>2, <1>3, ChangedTypes

\* So is one that is given a topic, with or without a request.
LEMMA TopicTypes ==
  ASSUME StateTypes, NEW s \in Sessions,
         \/ st' = [st EXCEPT ![s].topic = TRUE]
         \/ st' = [st EXCEPT ![s].topic = TRUE, ![s].phase = "research_pending", ![s].asked = TRUE]
  PROVE  StateTypes'
<1> DEFINE new == [st[s] EXCEPT !.topic = TRUE]
           asking == [st[s] EXCEPT !.topic = TRUE, !.phase = "research_pending", !.asked = TRUE]
<1>1. st[s] \in State
  BY DEF StateTypes
<1>2. new \in State /\ asking \in State
  BY <1>1 DEF State
<1>3. st' = [st EXCEPT ![s] = new] \/ st' = [st EXCEPT ![s] = asking]
  BY DEF StateTypes, State
<1> HIDE DEF new, asking
<1> QED
  BY <1>2, <1>3, ChangedTypes

\* Every action keeps the types.
LEMMA TypeStep == Types /\ [Next]_vars => Types'
<1> SUFFICES ASSUME Types, [Next]_vars PROVE Types'
  OBVIOUS
<1> USE NewestIsFresh
<1> USE DEF Types, StoreTypes, StateTypes, RouteTypes, HistoryTypes, Statuses, Versions,
           storeVars
<1>1. ASSUME NEW s \in Sessions, Open(s) PROVE Types'
  <2>1. StoreTypes'
    BY <1>1 DEF Open, Others, NoState
  <2>2. StateTypes'
    <3> DEFINE open == {r \in Roadmaps : status[r] \in {"proposed", "active"}}
               r == IF focus \in open THEN focus ELSE Max(open \cup {0})
               q(phase) == [NoState EXCEPT !.known = TRUE, !.roadmap = r, !.topic = TRUE,
                                           !.phase = phase]
               new == [NoState EXCEPT !.known = TRUE]
    <3>1. open \cup {0} \in SUBSET (0 .. MaxRoadmaps)
      BY TutorAssumption DEF Roadmaps
    <3>2. r \in Versions
      BY <3>1, MaxIsMember, TutorAssumption
    <3>3. new \in State
      BY DEF NoState, State
    <3>4. ASSUME NEW phase \in {"active", "roadmap_proposed"} PROVE q(phase) \in State
      <4> HIDE DEF r
      <4> QED
        BY <3>2 DEF NoState, State
    <3>5. st' = [st EXCEPT ![s] = IF (\A u \in Sessions : ~st[u].known) /\ r # 0
                                    THEN q(IF status[r] = "active" THEN "active" ELSE "roadmap_proposed")
                                    ELSE new]
      BY <1>1 DEF Open
    <3> HIDE DEF q, new, r
    <3>6. \E x \in State : st' = [st EXCEPT ![s] = x]
      BY <3>3, <3>4, <3>5
    <3> QED
      BY <3>6, ChangedTypes
  <2>3. RouteTypes'
    BY <1>1 DEF Open, Others, NoState
  <2>4. HistoryTypes'
    BY <1>1 DEF Open, Others, NoState
  <2> QED
    BY <2>1, <2>2, <2>3, <2>4
<1>2. ASSUME NEW s \in Sessions, Begin(s) PROVE Types'
  <2>1. StoreTypes'
    BY <1>2 DEF Begin, At, Adopt, Heal, HealRequest, Point, Release, Activated
  <2>2. StateTypes'
    <3>1. CASE UNCHANGED st
      BY <3>1 DEF StateTypes
    <3>2. CASE Release(s)
      BY <3>2, ReleaseTypes
    <3>3. ASSUME NEW r \in Versions, Point(s, r, "active") PROVE StateTypes'
      BY <3>3, PointTypes
    <3>4. CASE HealRequest(s)
      BY <3>4 DEF HealRequest, StateTypes, State
    <3>5. st[s].roadmap \in Versions
      BY DEF StateTypes, State
    <3> QED
      BY <1>2, <3>1, <3>2, <3>3, <3>4, <3>5 DEF Begin, Adopt, Heal
  <2>3. RouteTypes'
    BY <1>2 DEF Begin, At, Adopt, Heal, HealRequest, Point, Release, Activated
  <2>4. HistoryTypes'
    BY <1>2 DEF Begin, At, Adopt, Heal, HealRequest, Point, Release, Activated
  <2> QED
    BY <2>1, <2>2, <2>3, <2>4
<1>3. ASSUME NEW s \in Sessions, NEW yes \in BOOLEAN, AnswerRequest(s, yes) PROVE Types'
  <2>1. StoreTypes'
    BY <1>3 DEF AnswerRequest, InGate, DecideRequest, At, Unsaved
  <2>2. StateTypes'
    BY <1>3, AnswerTypes DEF AnswerRequest
  <2>3. RouteTypes'
    BY <1>3 DEF AnswerRequest, InGate, DecideRequest, At, Unsaved
  <2>4. HistoryTypes'
    BY <1>3 DEF AnswerRequest, InGate, DecideRequest, At, Unsaved
  <2> QED
    BY <2>1, <2>2, <2>3, <2>4
<1>4. ASSUME NEW s \in Sessions, SayYes(s) PROVE Types'
  BY <1>4 DEF SayYes, InGate, Approve, Save, Decide, At, Unsaved
<1>5. ASSUME NEW s \in Sessions, Activate(s) PROVE Types'
  <2>1. StoreTypes'
    <3>1. st[s].roadmap \in Versions
      BY DEF StateTypes, State
    <3>2. status' \in [Roadmaps -> Statuses]
      BY <1>5, <3>1 DEF Activate, Activated
    <3>3. focus' \in Versions
      BY <1>5, <3>1 DEF Activate
    <3> QED
      BY <3>2, <3>3
  <2>2. StateTypes'
    <3>1. CASE UNCHANGED st
      BY <3>1 DEF StateTypes
    <3>2. st[s].roadmap \in Versions
      BY DEF StateTypes, State
    <3>3. CASE Point(s, st[s].roadmap, "active")
      BY <3>2, <3>3, PointTypes
    <3> QED
      BY <1>5, <3>1, <3>3 DEF Activate
  <2>3. RouteTypes'
    BY <1>5 DEF Activate, Activated, Point, At
  <2>4. HistoryTypes'
    BY <1>5 DEF Activate, Activated, Point, At
  <2> QED
    BY <2>1, <2>2, <2>3, <2>4
<1>6. ASSUME NEW s \in Sessions, SayNo(s) PROVE Types'
  <2>1. StoreTypes'
    BY <1>6 DEF SayNo, InGate, Reject, Save, Decide, Release, At
  <2>2. StateTypes'
    BY <1>6, ReleaseTypes DEF SayNo
  <2>3. RouteTypes'
    BY <1>6 DEF SayNo, InGate, Reject, Save, Decide, Release, At
  <2>4. HistoryTypes'
    BY <1>6 DEF SayNo, InGate, Reject, Save, Decide, Release, At
  <2> QED
    BY <2>1, <2>2, <2>3, <2>4
<1>7. ASSUME NEW s \in Sessions, Debate(s) PROVE Types'
  BY <1>7 DEF Debate, At, Unsaved
<1>8. ASSUME NEW s \in Sessions, EndDebate(s) PROVE Types'
  <2>1. StoreTypes'
    BY <1>8 DEF EndDebate, Supersede, Decide, Proposed, At
  <2>2. StateTypes'
    BY <1>8 DEF EndDebate, Supersede, Decide, Proposed, At, StateTypes, State
  <2>3. RouteTypes'
    BY <1>8 DEF EndDebate, Supersede, Decide, Proposed, At
  <2>4. HistoryTypes'
    BY <1>8 DEF EndDebate, Supersede, Decide, Proposed, At
  <2> QED
    BY <2>1, <2>2, <2>3, <2>4
<1>9. ASSUME NEW s \in Sessions, TurnFails(s) PROVE Types'
  BY <1>9 DEF TurnFails, At, Unsaved
<1>10. ASSUME NEW s \in Sessions, Lesson(s) PROVE Types'
  BY <1>10 DEF Lesson, At, Unsaved
<1>11. ASSUME NEW s \in Sessions, TakeTopic(s) PROVE Types'
  <2>1. StoreTypes'
    BY <1>11 DEF TakeTopic, At, Unsaved
  <2>2. StateTypes'
    BY <1>11, TopicTypes DEF TakeTopic
  <2>3. RouteTypes'
    BY <1>11 DEF TakeTopic, At, Unsaved
  <2>4. HistoryTypes'
    BY <1>11 DEF TakeTopic, At, Unsaved
  <2> QED
    BY <2>1, <2>2, <2>3, <2>4
<1>12. ASSUME NEW s \in Sessions, Propose(s) PROVE Types'
  <2>1. StoreTypes'
    BY <1>12 DEF Propose, Proposed, Point, At
  <2>2. StateTypes'
    BY <1>12, PointTypes DEF Propose
  <2>3. RouteTypes'
    BY <1>12 DEF Propose, Proposed, Point, At
  <2>4. HistoryTypes'
    BY <1>12 DEF Propose, Proposed, Point, At
  <2> QED
    BY <2>1, <2>2, <2>3, <2>4
<1>13. ASSUME NEW s \in Sessions, NEW yes \in BOOLEAN, PressButton(s, yes) PROVE Types'
  <2>1. StoreTypes'
    BY <1>13 DEF PressButton, DecideRequest, Unsaved
  <2>2. StateTypes'
    <3>1. CASE st' = st
      BY <3>1 DEF StateTypes
    <3>2. CASE st' = [st EXCEPT ![s].phase = "idle", ![s].asked = yes]
      BY <3>2, AnswerTypes
    <3> QED
      BY <1>13, <3>1, <3>2 DEF PressButton
  <2>3. RouteTypes'
    BY <1>13 DEF PressButton, DecideRequest, Unsaved
  <2>4. HistoryTypes'
    BY <1>13 DEF PressButton, DecideRequest, Unsaved
  <2> QED
    BY <2>1, <2>2, <2>3, <2>4
<1>14. ASSUME NEW s \in Sessions, NEW r \in Roadmaps, CardApproves(s, r) PROVE Types'
  <2>1. StoreTypes'
    BY <1>14 DEF CardApproves, Card, Shown, Reopen, Save, Decide, Unsaved
  <2>2. StateTypes'
    BY <1>14 DEF CardApproves, StateTypes
  <2>3. RouteTypes'
    BY <1>14 DEF CardApproves, Card, Shown, Reopen, Save, Decide, Unsaved
  <2>4. HistoryTypes'
    BY <1>14 DEF CardApproves, Card, Shown, Reopen, Save, Decide, Unsaved
  <2> QED
    BY <2>1, <2>2, <2>3, <2>4
<1>15. ASSUME NEW s \in Sessions, NEW r \in Roadmaps, CardReopens(s, r) PROVE Types'
  <2>1. StoreTypes'
    BY <1>15 DEF CardReopens, Card, Shown, Reopen, Save, Decide, Point, Unsaved
  <2>2. StateTypes'
    BY <1>15, PointTypes DEF CardReopens, Card, Shown
  <2>3. RouteTypes'
    BY <1>15 DEF CardReopens, Card, Shown, Reopen, Save, Decide, Point, Unsaved
  <2>4. HistoryTypes'
    BY <1>15 DEF CardReopens, Card, Shown, Reopen, Save, Decide, Point, Unsaved
  <2> QED
    BY <2>1, <2>2, <2>3, <2>4
<1>16. ASSUME NEW s \in Sessions, NEW r \in Roadmaps, CardRejects(s, r) PROVE Types'
  <2>1. StoreTypes'
    BY <1>16 DEF CardRejects, Card, Shown, Reject, Save, Decide, Release
  <2>2. StateTypes'
    <3>1. CASE st[s].roadmap = r
      BY <1>16, <3>1, ReleaseTypes DEF CardRejects
    <3>2. CASE st[s].roadmap # r
      BY <1>16, <3>2 DEF CardRejects, StateTypes
    <3> QED
      BY <3>1, <3>2
  <2>3. RouteTypes'
    BY <1>16 DEF CardRejects, Card, Shown, Reject, Save, Decide, Release
  <2>4. HistoryTypes'
    BY <1>16 DEF CardRejects, Card, Shown, Reject, Save, Decide, Release
  <2> QED
    BY <2>1, <2>2, <2>3, <2>4
<1>17. ASSUME NEW s \in Sessions, NEW r \in Roadmaps, FocusOn(s, r) PROVE Types'
  <2>1. StoreTypes'
    BY <1>17 DEF FocusOn, Card, Shown, Point
  <2>2. StateTypes'
    BY <1>17, PointTypes DEF FocusOn, Card, Shown, Accepted
  <2>3. RouteTypes'
    BY <1>17 DEF FocusOn, Card, Shown, Point
  <2>4. HistoryTypes'
    BY <1>17 DEF FocusOn, Card, Shown, Point
  <2> QED
    BY <2>1, <2>2, <2>3, <2>4
<1>18. ASSUME NEW s \in Sessions, NEW r \in Roadmaps, Unfocus(s, r) PROVE Types'
  <2>1. StoreTypes'
    BY <1>18 DEF Unfocus
  <2>2. StateTypes'
    BY <1>18 DEF Unfocus, StateTypes, State
  <2>3. RouteTypes'
    BY <1>18 DEF Unfocus
  <2>4. HistoryTypes'
    BY <1>18 DEF Unfocus
  <2> QED
    BY <2>1, <2>2, <2>3, <2>4
<1>19. CASE CardActs
  <2>1. StoreTypes'
    BY <1>19 DEF CardActs, CardStep, Approve, Save, Decide, Activated, Point,
       Unsaved, NoCard
  <2>2. StateTypes'
    <3>1. CASE UNCHANGED st
      BY <3>1 DEF StateTypes
    <3>2. ASSUME NEW s \in card.s, Point(s, card.r, "active") PROVE StateTypes'
      BY <3>2, PointTypes
    <3> QED
      BY <1>19, <3>1, <3>2 DEF CardActs, CardStep
  <2>3. RouteTypes'
    <3>1. card.s \in SUBSET Sessions /\ card.r \in Versions
      OBVIOUS
    <3>2. CASE card' = NoCard
      BY <1>19, <3>2 DEF CardActs, NoCard
    <3>3. CASE card' = [card EXCEPT !.step = "activate"]
      BY <1>19, <3>1, <3>3 DEF CardActs
    <3>4. CASE card' = [card EXCEPT !.step = "point"]
      BY <1>19, <3>1, <3>4 DEF CardActs
    <3> QED
      BY <1>19, <3>2, <3>3, <3>4 DEF CardActs, CardStep
  <2>4. HistoryTypes'
    <3>1. card.s \in SUBSET Sessions
      OBVIOUS
    <3>2. moved' \in SUBSET Sessions
      BY <1>19, <3>1 DEF CardActs, CardStep, Approve, Save, Unsaved
    <3>3. stale' \in SUBSET Roadmaps
      BY <1>19 DEF CardActs, CardStep, Approve, Decide, Unsaved
    <3>4. CASE UNCHANGED said
      BY <3>2, <3>3, <3>4
    <3>5. CASE said' = [said EXCEPT ![card.r] = "approve"]
      BY <3>2, <3>3, <3>5
    <3> QED
      BY <1>19, <3>4, <3>5 DEF CardActs, CardStep, Approve, Decide, Unsaved
  <2> QED
    BY <2>1, <2>2, <2>3, <2>4
<1>20. CASE ExecEnds
  BY <1>20 DEF ExecEnds, Unsaved
<1>21. CASE Draft
  BY <1>21 DEF Draft
<1>22. CASE RefineEnds
  <2>1. StoreTypes'
    BY <1>22 DEF RefineEnds, Save, NoRefine
  <2>2. StateTypes'
    BY <1>22 DEF RefineEnds, Save, NoRefine, StateTypes, State
  <2>3. RouteTypes'
    BY <1>22 DEF RefineEnds, Save, NoRefine
  <2>4. HistoryTypes'
    BY <1>22 DEF RefineEnds, Save, NoRefine
  <2> QED
    BY <2>1, <2>2, <2>3, <2>4
<1>23. CASE Restart
  <2>1. StoreTypes'
    BY <1>23 DEF Restart, MayFail, NoState, NoCard, NoRefine
  <2>2. StateTypes'
    BY <1>23 DEF Restart, MayFail, NoState, NoCard, NoRefine, StateTypes, State
  <2>3. RouteTypes'
    BY <1>23 DEF Restart, MayFail, NoState, NoCard, NoRefine
  <2>4. HistoryTypes'
    BY <1>23 DEF Restart, MayFail, NoState, NoCard, NoRefine
  <2> QED
    BY <2>1, <2>2, <2>3, <2>4
<1>24. ASSUME NEW yes \in BOOLEAN, ListDecidesRequest(yes) PROVE Types'
  BY <1>24 DEF ListDecidesRequest, DecideRequest, Unsaved
<1>25. ASSUME NEW r \in Roadmaps, NEW yes \in BOOLEAN, ListDecides(r, yes) PROVE Types'
  BY <1>25 DEF ListDecides, Approve, Reject, Save, Decide
<1>26. ASSUME NEW r \in Roadmaps, Freeze(r) PROVE Types'
  BY <1>26 DEF Freeze, Save
<1>27. ASSUME NEW r \in Roadmaps, Thaw(r) PROVE Types'
  BY <1>27 DEF Thaw, Save, Decide
<1>28. ASSUME NEW r \in Roadmaps, Refine(r) PROVE Types'
  BY <1>28 DEF Refine, MayFail, Unsaved
<1>29. CASE UNCHANGED vars
  BY <1>29 DEF vars
<1> QED
  BY <1>1, <1>2, <1>3, <1>4, <1>5, <1>6, <1>7, <1>8, <1>9, <1>10, <1>11, <1>12,
     <1>13, <1>14, <1>15, <1>16, <1>17, <1>18, <1>19, <1>20, <1>21, <1>22, <1>23,
     <1>24, <1>25, <1>26, <1>27, <1>28, <1>29 DEF Next, SessionActs, TurnStep

-----------------------------------------------------------------------------
(* Decisions.                                                               *)

\* Every action keeps DecisionStands.
LEMMA DecisionStep == Types /\ DecisionStands /\ [Next]_vars => DecisionStands'
<1> SUFFICES ASSUME Types, DecisionStands, [Next]_vars PROVE DecisionStands'
  OBVIOUS
<1> USE NewestIsFresh
<1> USE DEF Types, StoreTypes, RouteTypes, HistoryTypes, Statuses, DecisionStands, Accepted, storeVars
<1>1. ASSUME NEW s \in Sessions, Open(s) PROVE DecisionStands'
  BY <1>1 DEF Open, Others, NoState
<1>2. ASSUME NEW s \in Sessions, Begin(s) PROVE DecisionStands'
  BY <1>2 DEF Begin, At, Adopt, Heal, HealRequest, Point, Release, Activated
<1>3. ASSUME NEW s \in Sessions, NEW yes \in BOOLEAN, AnswerRequest(s, yes) PROVE DecisionStands'
  BY <1>3 DEF AnswerRequest, InGate, DecideRequest, At, Unsaved
<1>4. ASSUME NEW s \in Sessions, SayYes(s) PROVE DecisionStands'
  BY <1>4 DEF SayYes, InGate, Approve, Save, Decide, At, Unsaved
<1>5. ASSUME NEW s \in Sessions, Activate(s) PROVE DecisionStands'
  BY <1>5 DEF Activate, Activated, Point, At
<1>6. ASSUME NEW s \in Sessions, SayNo(s) PROVE DecisionStands'
  BY <1>6 DEF SayNo, InGate, Reject, Save, Decide, Release, At
<1>7. ASSUME NEW s \in Sessions, Debate(s) PROVE DecisionStands'
  BY <1>7 DEF Debate, At, Unsaved
<1>8. ASSUME NEW s \in Sessions, EndDebate(s) PROVE DecisionStands'
  BY <1>8 DEF EndDebate, Supersede, Decide, Proposed, At
<1>9. ASSUME NEW s \in Sessions, TurnFails(s) PROVE DecisionStands'
  BY <1>9 DEF TurnFails, At, Unsaved
<1>10. ASSUME NEW s \in Sessions, Lesson(s) PROVE DecisionStands'
  BY <1>10 DEF Lesson, At, Unsaved
<1>11. ASSUME NEW s \in Sessions, TakeTopic(s) PROVE DecisionStands'
  BY <1>11 DEF TakeTopic, At, Unsaved
<1>12. ASSUME NEW s \in Sessions, Propose(s) PROVE DecisionStands'
  BY <1>12 DEF Propose, Proposed, Point, At
<1>13. ASSUME NEW s \in Sessions, NEW yes \in BOOLEAN, PressButton(s, yes) PROVE DecisionStands'
  BY <1>13 DEF PressButton, DecideRequest, Unsaved
<1>14. ASSUME NEW s \in Sessions, NEW r \in Roadmaps, CardApproves(s, r) PROVE DecisionStands'
  BY <1>14 DEF CardApproves, Card, Shown, Reopen, Save, Decide, Unsaved
<1>15. ASSUME NEW s \in Sessions, NEW r \in Roadmaps, CardReopens(s, r) PROVE DecisionStands'
  BY <1>15 DEF CardReopens, Card, Shown, Reopen, Save, Decide, Point, Unsaved
<1>16. ASSUME NEW s \in Sessions, NEW r \in Roadmaps, CardRejects(s, r) PROVE DecisionStands'
  BY <1>16 DEF CardRejects, Card, Shown, Reject, Save, Decide, Release
<1>17. ASSUME NEW s \in Sessions, NEW r \in Roadmaps, FocusOn(s, r) PROVE DecisionStands'
  BY <1>17 DEF FocusOn, Card, Shown, Point
<1>18. ASSUME NEW s \in Sessions, NEW r \in Roadmaps, Unfocus(s, r) PROVE DecisionStands'
  BY <1>18 DEF Unfocus
<1>19. CASE CardActs
  <2>1. CASE card.step = "approve"
    BY <1>19, <2>1 DEF CardActs, CardStep, Approve, Save, Decide, Unsaved
  <2>2. CASE card.step = "activate"
    BY <1>19, <2>2 DEF CardActs, CardStep, Activated
  <2>3. CASE card.step = "point"
    BY <1>19, <2>3 DEF CardActs, CardStep, Point
  <2>4. card.step \in {"approve", "activate", "point"}
    BY <1>19 DEF CardActs, CardStep
  <2> QED
    BY <2>1, <2>2, <2>3, <2>4
<1>20. CASE ExecEnds
  BY <1>20 DEF ExecEnds, Unsaved
<1>21. CASE Draft
  BY <1>21 DEF Draft
<1>22. CASE RefineEnds
  BY <1>22 DEF RefineEnds, Save, NoRefine
<1>23. CASE Restart
  BY <1>23 DEF Restart, MayFail, NoState, NoCard, NoRefine
<1>24. ASSUME NEW yes \in BOOLEAN, ListDecidesRequest(yes) PROVE DecisionStands'
  BY <1>24 DEF ListDecidesRequest, DecideRequest, Unsaved
<1>25. ASSUME NEW r \in Roadmaps, NEW yes \in BOOLEAN, ListDecides(r, yes) PROVE DecisionStands'
  BY <1>25 DEF ListDecides, Approve, Reject, Save, Decide
<1>26. ASSUME NEW r \in Roadmaps, Freeze(r) PROVE DecisionStands'
  BY <1>26 DEF Freeze, Save
<1>27. ASSUME NEW r \in Roadmaps, Thaw(r) PROVE DecisionStands'
  BY <1>27 DEF Thaw, Save, Decide
<1>28. ASSUME NEW r \in Roadmaps, Refine(r) PROVE DecisionStands'
  BY <1>28 DEF Refine, MayFail, Unsaved
<1>29. CASE UNCHANGED vars
  BY <1>29 DEF vars
<1> QED
  BY <1>1, <1>2, <1>3, <1>4, <1>5, <1>6, <1>7, <1>8, <1>9, <1>10, <1>11, <1>12,
     <1>13, <1>14, <1>15, <1>16, <1>17, <1>18, <1>19, <1>20, <1>21, <1>22, <1>23,
     <1>24, <1>25, <1>26, <1>27, <1>28, <1>29 DEF Next, SessionActs, TurnStep

\* For any sessions, versions, restarts and refinements: the last thing the user
\* decided about a roadmap is what the store has, unless a refinement set it back
\* (tutor_chat.py:808-850, 1142-1180, tutor_workbench.py:422).
THEOREM DecisionsStand == Spec => []DecisionStands
<1>1. Init => DecisionStands
  BY DEF Init, DecisionStands
<1> QED
  BY <1>1, TypeInit, TypeStep, DecisionStep, PTL DEF Spec

\* Every action keeps TaughtIsAccepted.
LEMMA TaughtStep == Types /\ TaughtIsAccepted /\ [Next]_vars => TaughtIsAccepted'
<1> SUFFICES ASSUME Types, TaughtIsAccepted, [Next]_vars PROVE TaughtIsAccepted'
  OBVIOUS
<1> USE NewestIsFresh
<1> USE DEF Types, StoreTypes, StateTypes, RouteTypes, HistoryTypes, State, Statuses, Versions,
           TaughtIsAccepted, Accepted, storeVars
<1>1. ASSUME NEW s \in Sessions, Open(s) PROVE TaughtIsAccepted'
  BY <1>1 DEF Open, Others, NoState
<1>2. ASSUME NEW s \in Sessions, Begin(s) PROVE TaughtIsAccepted'
  BY <1>2 DEF Begin, At, Adopt, Heal, HealRequest, Point, Release, Activated
<1>3. ASSUME NEW s \in Sessions, NEW yes \in BOOLEAN, AnswerRequest(s, yes) PROVE TaughtIsAccepted'
  BY <1>3 DEF AnswerRequest, InGate, DecideRequest, At, Unsaved
<1>4. ASSUME NEW s \in Sessions, SayYes(s) PROVE TaughtIsAccepted'
  <2> SUFFICES ASSUME NEW u \in Sessions, st'[u].phase = "active", st'[u].roadmap # 0,
                      u \notin moved'
               PROVE  status'[st'[u].roadmap] \in Accepted
    BY DEF TaughtIsAccepted
  <2>1. CASE u = s
    BY <1>4, <2>1 DEF SayYes, InGate, Approve, Save, Decide, At, Unsaved
  <2>2. CASE u # s
    BY <1>4, <2>2 DEF SayYes, InGate, Approve, Save, Decide, At, Unsaved
  <2> QED
    BY <2>1, <2>2
<1>5. ASSUME NEW s \in Sessions, Activate(s) PROVE TaughtIsAccepted'
  <2> SUFFICES ASSUME NEW u \in Sessions, st'[u].phase = "active", st'[u].roadmap # 0,
                      u \notin moved'
               PROVE  status'[st'[u].roadmap] \in Accepted
    BY DEF TaughtIsAccepted
  <2>1. CASE u = s
    BY <1>5, <2>1 DEF Activate, Activated, Point, At
  <2>2. CASE u # s
    BY <1>5, <2>2 DEF Activate, Activated, Point, At
  <2> QED
    BY <2>1, <2>2
<1>6. ASSUME NEW s \in Sessions, SayNo(s) PROVE TaughtIsAccepted'
  BY <1>6 DEF SayNo, InGate, Reject, Save, Decide, Release, At
<1>7. ASSUME NEW s \in Sessions, Debate(s) PROVE TaughtIsAccepted'
  BY <1>7 DEF Debate, At, Unsaved
<1>8. ASSUME NEW s \in Sessions, EndDebate(s) PROVE TaughtIsAccepted'
  <2> SUFFICES ASSUME NEW u \in Sessions, st'[u].phase = "active", st'[u].roadmap # 0,
                      u \notin moved'
               PROVE  status'[st'[u].roadmap] \in Accepted
    BY DEF TaughtIsAccepted
  <2>1. CASE u = s
    BY <1>8, <2>1 DEF EndDebate, Supersede, Decide, Proposed, At
  <2>2. CASE u # s
    BY <1>8, <2>2 DEF EndDebate, Supersede, Decide, Proposed, At
  <2> QED
    BY <2>1, <2>2
<1>9. ASSUME NEW s \in Sessions, TurnFails(s) PROVE TaughtIsAccepted'
  BY <1>9 DEF TurnFails, At, Unsaved
<1>10. ASSUME NEW s \in Sessions, Lesson(s) PROVE TaughtIsAccepted'
  BY <1>10 DEF Lesson, At, Unsaved
<1>11. ASSUME NEW s \in Sessions, TakeTopic(s) PROVE TaughtIsAccepted'
  BY <1>11 DEF TakeTopic, At, Unsaved
<1>12. ASSUME NEW s \in Sessions, Propose(s) PROVE TaughtIsAccepted'
  BY <1>12 DEF Propose, Proposed, Point, At
<1>13. ASSUME NEW s \in Sessions, NEW yes \in BOOLEAN, PressButton(s, yes) PROVE TaughtIsAccepted'
  BY <1>13 DEF PressButton, DecideRequest, Unsaved
<1>14. ASSUME NEW s \in Sessions, NEW r \in Roadmaps, CardApproves(s, r) PROVE TaughtIsAccepted'
  <2> SUFFICES ASSUME NEW u \in Sessions, st'[u].phase = "active", st'[u].roadmap # 0,
                      u \notin moved'
               PROVE  status'[st'[u].roadmap] \in Accepted
    BY DEF TaughtIsAccepted
  <2>1. CASE u = s
    BY <1>14, <2>1 DEF CardApproves, Card, Shown, Reopen, Save, Decide, Unsaved
  <2>2. CASE u # s
    BY <1>14, <2>2 DEF CardApproves, Card, Shown, Reopen, Save, Decide, Unsaved
  <2> QED
    BY <2>1, <2>2
<1>15. ASSUME NEW s \in Sessions, NEW r \in Roadmaps, CardReopens(s, r) PROVE TaughtIsAccepted'
  <2> SUFFICES ASSUME NEW u \in Sessions, st'[u].phase = "active", st'[u].roadmap # 0,
                      u \notin moved'
               PROVE  status'[st'[u].roadmap] \in Accepted
    BY DEF TaughtIsAccepted
  <2>1. CASE u = s
    BY <1>15, <2>1 DEF CardReopens, Card, Shown, Reopen, Save, Decide, Point,
       Unsaved
  <2>2. CASE u # s
    BY <1>15, <2>2 DEF CardReopens, Card, Shown, Reopen, Save, Decide, Point,
       Unsaved
  <2> QED
    BY <2>1, <2>2
<1>16. ASSUME NEW s \in Sessions, NEW r \in Roadmaps, CardRejects(s, r) PROVE TaughtIsAccepted'
  <2> SUFFICES ASSUME NEW u \in Sessions, st'[u].phase = "active", st'[u].roadmap # 0,
                      u \notin moved'
               PROVE  status'[st'[u].roadmap] \in Accepted
    BY DEF TaughtIsAccepted
  <2>1. CASE u = s
    BY <1>16, <2>1 DEF CardRejects, Card, Shown, Reject, Save, Decide, Release
  <2>2. CASE u # s
    BY <1>16, <2>2 DEF CardRejects, Card, Shown, Reject, Save, Decide, Release
  <2> QED
    BY <2>1, <2>2
<1>17. ASSUME NEW s \in Sessions, NEW r \in Roadmaps, FocusOn(s, r) PROVE TaughtIsAccepted'
  BY <1>17 DEF FocusOn, Card, Shown, Point
<1>18. ASSUME NEW s \in Sessions, NEW r \in Roadmaps, Unfocus(s, r) PROVE TaughtIsAccepted'
  BY <1>18 DEF Unfocus
<1>19. CASE CardActs
  <2>1. CASE card.step = "approve"
    BY <1>19, <2>1 DEF CardActs, CardStep, Approve, Save, Decide, Unsaved
  <2>2. CASE card.step = "activate"
    BY <1>19, <2>2 DEF CardActs, CardStep, Activated
  <2>3. CASE card.step = "point"
    <3>1. PICK s \in card.s : /\ Point(s, card.r, "active")
                              /\ moved' = IF status[card.r] \in Accepted
                                            THEN moved \ {s} ELSE moved \cup {s}
      BY <1>19, <2>3 DEF CardActs, CardStep
    <3>2. UNCHANGED status /\ s \in Sessions /\ card.r \in Versions
      BY <1>19, <2>3 DEF CardActs, CardStep
    <3> SUFFICES ASSUME NEW u \in Sessions, st'[u].phase = "active", st'[u].roadmap # 0,
                        u \notin moved'
                 PROVE  status'[st'[u].roadmap] \in Accepted
      BY DEF TaughtIsAccepted
    <3>3. CASE u = s
      BY <3>1, <3>2, <3>3 DEF Point
    <3>4. CASE u # s
      BY <3>1, <3>2, <3>4 DEF Point
    <3> QED
      BY <3>3, <3>4
  <2>4. card.step \in {"approve", "activate", "point"}
    BY <1>19 DEF CardActs, CardStep
  <2> QED
    BY <2>1, <2>2, <2>3, <2>4
<1>20. CASE ExecEnds
  BY <1>20 DEF ExecEnds, Unsaved
<1>21. CASE Draft
  BY <1>21 DEF Draft
<1>22. CASE RefineEnds
  BY <1>22 DEF RefineEnds, Save, NoRefine
<1>23. CASE Restart
  BY <1>23 DEF Restart, MayFail, NoState, NoCard, NoRefine
<1>24. ASSUME NEW yes \in BOOLEAN, ListDecidesRequest(yes) PROVE TaughtIsAccepted'
  BY <1>24 DEF ListDecidesRequest, DecideRequest, Unsaved
<1>25. ASSUME NEW r \in Roadmaps, NEW yes \in BOOLEAN, ListDecides(r, yes) PROVE TaughtIsAccepted'
  BY <1>25 DEF ListDecides, Approve, Reject, Save, Decide
<1>26. ASSUME NEW r \in Roadmaps, Freeze(r) PROVE TaughtIsAccepted'
  BY <1>26 DEF Freeze, Save
<1>27. ASSUME NEW r \in Roadmaps, Thaw(r) PROVE TaughtIsAccepted'
  BY <1>27 DEF Thaw, Save, Decide
<1>28. ASSUME NEW r \in Roadmaps, Refine(r) PROVE TaughtIsAccepted'
  BY <1>28 DEF Refine, MayFail, Unsaved
<1>29. CASE UNCHANGED vars
  BY <1>29 DEF vars
<1> QED
  BY <1>1, <1>2, <1>3, <1>4, <1>5, <1>6, <1>7, <1>8, <1>9, <1>10, <1>11, <1>12,
     <1>13, <1>14, <1>15, <1>16, <1>17, <1>18, <1>19, <1>20, <1>21, <1>22, <1>23,
     <1>24, <1>25, <1>26, <1>27, <1>28, <1>29 DEF Next, SessionActs, TurnStep

\* A session teaches from a roadmap that is accepted, unless somebody else decided
\* about that roadmap meanwhile, for any number of sessions and versions.
THEOREM LessonsAreAccepted == Spec => []TaughtIsAccepted
<1>1. Init => TaughtIsAccepted
  BY DEF Init, TaughtIsAccepted, NoState
<1> QED
  BY <1>1, TypeInit, TypeStep, TaughtStep, PTL DEF Spec
=============================================================================
