-------------------------------- MODULE Tutor --------------------------------
(* The tutor of the dashboard: the chat driver, one state per session in      *)
(* memory, and the store of roadmaps.  A roadmap is proposed by the model and *)
(* decided by the user: in words, with a card of the sidebar, in the list of  *)
(* approvals, or at the workbench.  Each request runs in a thread of its own, *)
(* and a turn of the chat may wait for the model while the others decide.    *)
EXTENDS Naturals, FiniteSets, FiniteSetsExt

CONSTANTS Sessions,
          MaxRoadmaps,  \* bound: versions of the roadmap of one goal
          MaxFaults     \* bound: restarts of the dashboard and refinements

ASSUME TutorAssumption == MaxRoadmaps \in Nat \ {0} /\ MaxFaults \in Nat

VARIABLES
  status,    \* roadmaps: the status of each
  focus,     \* tutor_focus: a roadmap or 0
  req,       \* research_requests: the status of the last one
  poor,      \* bound: whether the corpus lacks material on the topic; a
             \* behaviour shows the research request or the roadmaps
  exec,      \* whether its execution is under way
  st,        \* TutorChatState of each session
  turn,      \* per session: where its turn of the chat is
  card,      \* decide_roadmap for a card: session, roadmap and step
  refine,    \* refine_with_findings: roadmap and status it read
  said,      \* history: the last thing the user decided about a roadmap
  moved,     \* history: sessions whose roadmap somebody else decided since
  stale,     \* history: roadmaps a refinement set back
  faults

storeVars == <<status, focus, req, poor>>
vars == <<storeVars, exec, st, turn, card, refine, said, moved, stale, faults>>

Roadmaps == 1 .. MaxRoadmaps
Statuses == {"none", "draft", "proposed", "approved", "active", "rejected", "superseded"}
Accepted == {"approved", "active"}

NoState == [known |-> FALSE, phase |-> "idle", roadmap |-> 0, topic |-> FALSE, asked |-> FALSE]
NoCard == [s |-> {}, r |-> 0, step |-> "off"]
NoRefine == [r |-> 0, was |-> "none"]

TypeOK ==
  /\ status \in [Roadmaps -> Statuses]
  /\ focus \in 0 .. MaxRoadmaps /\ poor \in BOOLEAN
  /\ req \in {"none", "pending", "approved", "cancelled", "completed", "failed"} /\ exec \in BOOLEAN
  /\ st \in [Sessions -> [known : BOOLEAN, roadmap : 0 .. MaxRoadmaps, topic : BOOLEAN, asked : BOOLEAN,
                          phase : {"idle", "roadmap_proposed", "active", "research_pending"}]]
  /\ turn \in [Sessions -> {"rest", "gate", "topic", "activate", "propose", "debate"}]
  /\ card.step \in {"off", "approve", "activate", "point"} /\ card.s \in SUBSET Sessions
  /\ said \in [Roadmaps -> {"none", "approve", "reject", "reopen", "debate"}]
  /\ moved \subseteq Sessions /\ stale \subseteq Roadmaps /\ faults \in 0 .. MaxFaults

Init ==
  /\ status = [r \in Roadmaps |-> "none"] /\ focus = 0 /\ poor \in BOOLEAN
  /\ req = "none" /\ exec = FALSE
  /\ st = [s \in Sessions |-> NoState] /\ turn = [s \in Sessions |-> "rest"]
  /\ card = NoCard /\ refine = NoRefine
  /\ said = [r \in Roadmaps |-> "none"] /\ moved = {} /\ stale = {} /\ faults = 0

(* save_roadmap of r, for the sessions in who (none for the list and the      *)
(* workbench); the others that follow r are not told.                        *)
Save(r, x, who) ==
  /\ status' = [status EXCEPT ![r] = x]
  /\ moved' = (moved \ who) \cup {u \in Sessions \ who : st[u].roadmap = r}

Decide(r, d) == said' = [said EXCEPT ![r] = d] /\ stale' = stale \ {r}
Unsaved == UNCHANGED <<status, moved, said, stale>>

Point(s, r, phase) ==
  st' = [st EXCEPT ![s].roadmap = r, ![s].phase = phase, ![s].topic = TRUE]
Release(s) == st' = [st EXCEPT ![s].roadmap = 0, ![s].phase = "idle"]
At(s, step) == turn' = [turn EXCEPT ![s] = step]

(* Bound: a behaviour shows several sessions or faults, not both.            *)
Others(s) == {u \in Sessions \ {s} : st[u].known}
MayFail == faults < MaxFaults /\ \A s \in Sessions : st[s].known => Others(s) = {}

Fresh == {r \in Roadmaps : status[r] = "none"}
Newest == Min(Fresh)

(* What the model proposes is a new version; the human decides about it.     *)
Proposed == [status EXCEPT ![Newest] = "proposed"]
Activated(r) == [status EXCEPT ![r] = "active"]
Approve(r, who) == status[r] = "proposed" /\ Save(r, "approved", who) /\ Decide(r, "approve")
Reject(r, who) == Save(r, "rejected", who) /\ Decide(r, "reject")
Reopen(r, who) == Save(r, "proposed", who) /\ Decide(r, "reopen")

(* approve_research_request, reject_research_request.                        *)
DecideRequest(yes) ==
  /\ req # "none" /\ (yes => req = "pending")
  /\ req' = (IF yes THEN "approved" ELSE "cancelled")

----------------------------------------------------------------------------
(* What a session knows.                                                    *)

(* The first session after a start takes up the roadmap in focus, or else the *)
(* newest, that is proposed or active.                                       *)
Open(s) ==
  LET open == {r \in Roadmaps : status[r] \in {"proposed", "active"}}
      r == IF focus \in open THEN focus ELSE Max(open \cup {0})
      first == \A u \in Sessions : ~st[u].known
  IN /\ ~st[s].known /\ (faults = 0 \/ Others(s) = {})
     /\ st' = [st EXCEPT ![s] =
          IF first /\ r # 0
            THEN [NoState EXCEPT !.known = TRUE, !.roadmap = r, !.topic = TRUE,
                                 !.phase = IF status[r] = "active" THEN "active" ELSE "roadmap_proposed"]
            ELSE [NoState EXCEPT !.known = TRUE]]
     /\ UNCHANGED <<storeVars, exec, turn, card, refine, said, moved, stale, faults>>

\* Mutant: whatever has the focus is adopted.
AdoptAny(s) ==
  IF st[s].phase = "idle" /\ st[s].roadmap = 0 /\ focus # 0
    THEN Point(s, focus, "active") /\ moved' = moved \ {s}
    ELSE UNCHANGED <<st, moved>>

(* An idle session adopts the focus when it is an active roadmap.            *)
Adopt(s) ==
  IF st[s].phase = "idle" /\ st[s].roadmap = 0 /\ focus # 0 /\ status[focus] = "active"
    THEN Point(s, focus, "active") /\ moved' = moved \ {s}
    ELSE UNCHANGED <<st, moved>>

(* A session that waits for a decision looks whether it was taken elsewhere;  *)
(* what the list of approvals approved it activates.                         *)
Heal(s) ==
  LET r == st[s].roadmap
      was == status[r]
  IN /\ IF was = "approved" THEN status' = Activated(r) ELSE UNCHANGED status
     /\ IF was \in Accepted THEN Point(s, r, "active") /\ moved' = moved \ {s}
        ELSE IF was \in {"rejected", "superseded"} THEN Release(s) /\ moved' = moved \ {s}
        ELSE UNCHANGED <<st, moved>>

HealRequest(s) ==
  IF req \in {"approved", "cancelled", "completed"}
    THEN st' = [st EXCEPT ![s].phase = "idle", ![s].asked = @ /\ req = "approved"]
    ELSE UNCHANGED st

(* A message comes in; it names a topic or not.                              *)
Begin(s) ==
  /\ st[s].known /\ turn[s] = "rest"
  /\ \E step \in {"gate", "topic"} :
       /\ At(s, step)
       /\ CASE st[s].phase = "roadmap_proposed" /\ st[s].roadmap # 0 -> Heal(s)
            [] st[s].phase = "research_pending" -> HealRequest(s) /\ UNCHANGED <<status, moved>>
            [] OTHER -> /\ IF step = "gate" THEN Adopt(s) ELSE UNCHANGED <<st, moved>>
                        /\ UNCHANGED status
  /\ UNCHANGED <<poor, focus, req, exec, card, refine, said, stale, faults>>

----------------------------------------------------------------------------
(* What the message does.                                                   *)

InGate(s, phase) == turn[s] \in {"gate", "topic"} /\ st[s].phase = phase

AnswerRequest(s, yes) ==
  /\ InGate(s, "research_pending") /\ st[s].asked
  /\ DecideRequest(yes)
  /\ st' = [st EXCEPT ![s].phase = "idle", ![s].asked = yes]
  /\ At(s, "rest")
  /\ Unsaved /\ UNCHANGED <<poor, focus, exec, card, refine, faults>>

(* Approved first, activated next: two transactions.                         *)
SayYes(s) ==
  /\ InGate(s, "roadmap_proposed") /\ st[s].roadmap # 0
  /\ LET r == st[s].roadmap
     IN IF status[r] = "proposed"
          THEN Approve(r, {s}) /\ At(s, "activate")
          ELSE At(s, "rest") /\ Unsaved
  /\ UNCHANGED <<poor, focus, req, exec, st, card, refine, faults>>

Activate(s) ==
  /\ turn[s] = "activate" /\ At(s, "rest")
  /\ LET r == st[s].roadmap
     IN IF r # 0 /\ status[r] = "approved"
          THEN /\ status' = Activated(r) /\ Point(s, r, "active")
               /\ moved' = moved \ {s} /\ focus' = r
          ELSE UNCHANGED <<status, st, moved, focus>>
  /\ UNCHANGED <<poor, req, exec, card, refine, said, stale, faults>>

(* The focus stays as it is.                                                 *)
SayNo(s) ==
  /\ InGate(s, "roadmap_proposed") /\ st[s].roadmap # 0
  /\ Reject(st[s].roadmap, {s}) /\ Release(s) /\ At(s, "rest")
  /\ UNCHANGED <<poor, focus, req, exec, card, refine, faults>>

(* Anything else is feedback: the model proposes a new version.              *)
Debate(s) ==
  /\ InGate(s, "roadmap_proposed") /\ st[s].roadmap # 0 /\ At(s, "debate")
  /\ Unsaved /\ UNCHANGED <<poor, focus, req, exec, st, card, refine, faults>>

\* Mutant: the old version is replaced whatever became of it.
SupersedeAny(r) ==
  /\ status' = [Proposed EXCEPT ![r] = "superseded"]
  /\ UNCHANGED <<said, stale>>

(* The old version is replaced unless it is no longer proposed.              *)
Supersede(r) ==
  IF r # 0 /\ status[r] = "proposed"
    THEN status' = [Proposed EXCEPT ![r] = "superseded"] /\ Decide(r, "debate")
    ELSE status' = Proposed /\ UNCHANGED <<said, stale>>

(* The session follows the new version in the phase it has by now: a card    *)
(* may have activated the old one meanwhile.                                 *)
EndDebate(s) ==
  /\ turn[s] = "debate" /\ Fresh # {} /\ At(s, "rest")
  /\ Supersede(st[s].roadmap)
  /\ moved' = (IF st[s].phase = "active" THEN moved \cup {s} ELSE moved)
              \cup {u \in Sessions \ {s} : st[u].roadmap = st[s].roadmap /\ st[u].roadmap # 0}
  /\ st' = [st EXCEPT ![s].roadmap = Newest]
  /\ UNCHANGED <<poor, focus, req, exec, card, refine, faults>>

(* The model fails, or the corpus has nothing to debate with.                *)
TurnFails(s) ==
  /\ turn[s] \in {"debate", "propose", "gate", "topic"} /\ At(s, "rest")
  /\ Unsaved /\ UNCHANGED <<poor, focus, req, exec, st, card, refine, faults>>

(* A lesson: the model teaches from the roadmap of the session.              *)
Lesson(s) ==
  /\ InGate(s, "active") /\ st[s].topic /\ At(s, "rest")
  /\ Unsaved /\ UNCHANGED <<poor, focus, req, exec, st, card, refine, faults>>

(* No roadmap yet, and a topic in the message or from a research that ended.  *)
TakeTopic(s) ==
  /\ InGate(s, "idle") /\ ~(st[s].topic /\ req = "approved")
  /\ turn[s] = "topic" \/ (st[s].topic /\ req = "completed")
  /\ \/ ~poor /\ st' = [st EXCEPT ![s].topic = TRUE] /\ At(s, "propose") /\ UNCHANGED req
     \/ /\ poor /\ req \notin {"pending", "approved"} /\ ~exec
        /\ req' = "pending" /\ At(s, "rest")
        /\ st' = [st EXCEPT ![s].topic = TRUE, ![s].phase = "research_pending", ![s].asked = TRUE]
  /\ Unsaved /\ UNCHANGED <<poor, focus, exec, card, refine, faults>>

Propose(s) ==
  /\ turn[s] = "propose" /\ Fresh # {} /\ At(s, "rest")
  /\ status' = Proposed
  /\ Point(s, Newest, "roadmap_proposed") /\ moved' = moved \ {s}
  /\ UNCHANGED <<poor, focus, req, exec, card, refine, said, stale, faults>>

----------------------------------------------------------------------------
(* The sidebar.                                                             *)

(* Cards show roadmaps with these statuses.                                  *)
Shown == {r \in Roadmaps : status[r] \in {"proposed", "approved", "active", "rejected"}}
Card(s, r) == card.step = "off" /\ st[s].known /\ r \in Shown

(* Approving reopens what was rejected, approves, activates and points the    *)
(* session there, in transactions of their own.  A roadmap that is no longer  *)
(* approved by then is an error or not, as the change was seen late or early. *)
CardApproves(s, r) ==
  /\ Card(s, r)
  /\ card' = [s |-> {s}, r |-> r, step |-> "approve"]
  /\ IF status[r] = "rejected" THEN Reopen(r, {}) ELSE Unsaved
  /\ UNCHANGED <<poor, focus, req, exec, st, turn, refine, faults>>

CardStep ==
  \/ /\ card.step = "approve"
     /\ IF status[card.r] = "proposed" THEN Approve(card.r, {}) ELSE Unsaved
     /\ card' = [card EXCEPT !.step = "activate"]
     /\ UNCHANGED <<focus, st>>
  \/ /\ card.step = "activate"
     /\ IF status[card.r] = "approved"
          THEN card' = [card EXCEPT !.step = "point"] /\ status' = Activated(card.r)
          ELSE card' \in {NoCard, [card EXCEPT !.step = "point"]} /\ UNCHANGED status
     /\ UNCHANGED <<focus, st, moved, said, stale>>
  \/ /\ card.step = "point"
     /\ focus' = card.r /\ card' = NoCard
     /\ \E s \in card.s : Point(s, card.r, "active") /\
          moved' = IF status[card.r] \in Accepted THEN moved \ {s} ELSE moved \cup {s}
     /\ UNCHANGED <<status, said, stale>>

CardActs == CardStep /\ UNCHANGED <<poor, req, exec, turn, refine, faults>>

CardReopens(s, r) ==
  /\ Card(s, r)
  /\ IF status[r] = "proposed" THEN Unsaved ELSE Reopen(r, {s})
  /\ focus' = r /\ Point(s, r, "roadmap_proposed")
  /\ UNCHANGED <<poor, req, exec, turn, card, refine, faults>>

CardRejects(s, r) ==
  /\ Card(s, r)
  /\ IF st[s].roadmap = r THEN Reject(r, {s}) /\ Release(s)
     ELSE Reject(r, {}) /\ UNCHANGED st
  /\ focus' = (IF focus = r THEN 0 ELSE focus)
  /\ UNCHANGED <<poor, req, exec, turn, card, refine, faults>>

FocusOn(s, r) ==
  /\ Card(s, r)
  /\ Point(s, r, IF status[r] \in Accepted THEN "active" ELSE "roadmap_proposed")
  /\ focus' = r /\ moved' = moved \ {s}
  /\ UNCHANGED <<status, poor, req, exec, turn, card, refine, said, stale, faults>>

Unfocus(s, r) ==
  /\ st[s].known /\ r \in Roadmaps /\ r \in {focus, st[s].roadmap}
  /\ focus' = (IF focus = r THEN 0 ELSE focus)
  /\ IF st[s].roadmap = r
       THEN /\ st' = [st EXCEPT ![s].roadmap = 0, ![s].phase = IF st[s].topic THEN "active" ELSE "idle"]
            /\ moved' = moved \ {s}
       ELSE UNCHANGED <<st, moved>>
  /\ UNCHANGED <<status, poor, req, exec, turn, card, refine, said, stale, faults>>

(* The button of the research proposal; only it starts the execution.        *)
PressButton(s, yes) ==
  /\ st[s].known /\ DecideRequest(yes) /\ exec' = (exec \/ yes)
  /\ st' = IF st[s].asked THEN [st EXCEPT ![s].phase = "idle", ![s].asked = yes] ELSE st
  /\ Unsaved /\ UNCHANGED <<poor, focus, turn, card, refine, faults>>

(* The outcome is written over whatever the status is by then.               *)
ExecEnds ==
  /\ exec /\ exec' = FALSE
  /\ req' \in {"completed", "failed", req}
  /\ Unsaved /\ UNCHANGED <<poor, focus, st, turn, card, refine, faults>>

----------------------------------------------------------------------------
(* The list of approvals, the workbench and restarts.                       *)

ListDecides(r, yes) ==
  /\ status[r] # "none"
  /\ IF yes THEN Approve(r, {}) ELSE Reject(r, {})
  /\ UNCHANGED <<poor, focus, req, exec, st, turn, card, refine, faults>>

ListDecidesRequest(yes) ==
  /\ DecideRequest(yes)
  /\ Unsaved /\ UNCHANGED <<poor, focus, exec, st, turn, card, refine, faults>>

(* A draft is made, perhaps from another version, frozen and opened again.   *)
Draft ==
  /\ ~poor /\ Fresh # {} /\ status' = [status EXCEPT ![Newest] = "draft"]
  /\ UNCHANGED <<poor, focus, req, exec, st, turn, card, refine, said, moved, stale, faults>>

Freeze(r) ==
  /\ status[r] = "draft" /\ Save(r, "proposed", {}) /\ UNCHANGED <<said, stale>>
  /\ UNCHANGED <<poor, focus, req, exec, st, turn, card, refine, faults>>

Thaw(r) ==
  /\ status[r] = "proposed" /\ Save(r, "draft", {}) /\ Decide(r, "none")
  /\ UNCHANGED <<poor, focus, req, exec, st, turn, card, refine, faults>>

(* The refinement reads a roadmap of any status, waits for the model and      *)
(* writes it back.                                                           *)
Refine(r) ==
  /\ refine.r = 0 /\ status[r] # "none" /\ MayFail /\ faults' = faults + 1
  /\ refine' = [r |-> r, was |-> status[r]]
  /\ Unsaved /\ UNCHANGED <<poor, focus, req, exec, st, turn, card>>

RefineEnds ==
  /\ refine.r # 0 /\ refine' = NoRefine
  /\ IF status[refine.r] = refine.was THEN UNCHANGED <<status, moved, stale>>
     ELSE Save(refine.r, refine.was, {}) /\ stale' = stale \cup {refine.r}
  /\ UNCHANGED <<poor, focus, req, exec, st, turn, card, said, faults>>

Restart ==
  /\ MayFail /\ faults' = faults + 1
  /\ st' = [s \in Sessions |-> NoState] /\ turn' = [s \in Sessions |-> "rest"]
  /\ exec' = FALSE /\ card' = NoCard /\ refine' = NoRefine /\ moved' = {}
  /\ UNCHANGED <<storeVars, said, stale>>

TurnStep(s) ==
  \/ Begin(s) \/ SayYes(s) \/ Activate(s) \/ SayNo(s) \/ Debate(s) \/ EndDebate(s)
  \/ TurnFails(s) \/ Lesson(s) \/ TakeTopic(s) \/ Propose(s)
  \/ \E yes \in BOOLEAN : AnswerRequest(s, yes)

SessionActs(s) ==
  \/ Open(s) \/ TurnStep(s) \/ \E yes \in BOOLEAN : PressButton(s, yes)
  \/ \E r \in Roadmaps : CardApproves(s, r) \/ CardReopens(s, r) \/ CardRejects(s, r)
                         \/ FocusOn(s, r) \/ Unfocus(s, r)

Next ==
  \/ \E s \in Sessions : SessionActs(s)
  \/ CardActs \/ ExecEnds \/ Draft \/ RefineEnds \/ Restart
  \/ \E yes \in BOOLEAN : ListDecidesRequest(yes) \/ \E r \in Roadmaps : ListDecides(r, yes)
  \/ \E r \in Roadmaps : Freeze(r) \/ Thaw(r) \/ Refine(r)

Spec == Init /\ [][Next]_vars /\ WF_vars(ExecEnds)

----------------------------------------------------------------------------
(* The last decision of the user about a roadmap is the one the store has,    *)
(* whatever turns, cards, lists, drafts and restarts were on their way, but    *)
(* for roadmaps that a refinement set back to what it had read before.       *)
DecisionStands ==
  \A r \in Roadmaps \ stale :
    /\ said[r] = "approve" => status[r] \in Accepted
    /\ said[r] = "reject" => status[r] = "rejected"
    /\ said[r] = "reopen" => status[r] = "proposed"
    /\ said[r] = "debate" => status[r] = "superseded"

(* A lesson is given from a roadmap the user accepted.  The exception are     *)
(* sessions whose roadmap somebody else decided, or a card of their own        *)
(* activated while they debated it: they are not told.                       *)
TaughtIsAccepted ==
  \A s \in Sessions :
    st[s].phase = "active" /\ st[s].roadmap # 0 /\ s \notin moved => status[st[s].roadmap] \in Accepted

(* What a session is told of its approved research: it runs and comes to an   *)
(* end.                                                                      *)
ApprovedResearchEnds == (req = "approved") ~> (req # "approved")
=============================================================================
