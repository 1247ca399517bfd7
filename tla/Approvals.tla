------------------------------ MODULE Approvals ------------------------------
(* The approval gate between what idle work infers about the user and the     *)
(* user model (agentic/memory_consolidation.py, POST /api/agent/approvals/    *)
(* decide, agent/user_model.py): a proposal is approved in one commit and     *)
(* applied in two more, by request threads that know nothing of each other,   *)
(* while consolidation proposes the same fact again.                         *)
EXTENDS Naturals, FiniteSets

CONSTANTS Facts, Requests,
          MaxProposals,  \* bound: times a fact is proposed
          MaxDecisions,  \* bound: approvals and rejections
          MaxEpochs      \* bound: processes of the dashboard

VARIABLES
  prop,     \* status of a proposal, by fact and process: its id is made with hash(),
            \* which every process salts differently
  request,  \* per request thread: step and proposal
  active, pending,  \* rows of the user model with this fact, by status
  told,     \* facts the panel has been told are approved
  agreed,   \* facts a person approved at least once
  epoch, proposals, decisions

vars == <<prop, request, active, pending, told, agreed, epoch, proposals, decisions>>

Epochs == 1 .. MaxEpochs
NoReq == [pc |-> "off", f |-> "none", e |-> 0]

Init ==
  /\ prop = [f \in Facts |-> [e \in Epochs |-> "none"]]
  /\ request = [r \in Requests |-> NoReq]
  /\ active = [f \in Facts |-> 0] /\ pending = active
  /\ told = {} /\ agreed = {} /\ epoch = 1 /\ proposals = 0 /\ decisions = 0

(* INSERT OR REPLACE: a decided proposal of this process is pending again.    *)
Propose(f) ==
  /\ proposals < MaxProposals /\ proposals' = proposals + 1
  /\ prop' = [prop EXCEPT ![f][epoch] = "pending"]
  /\ UNCHANGED <<request, active, pending, told, agreed, epoch, decisions>>

CanApprove(f, e) == prop[f][e] = "pending"

Approve(r, f, e) ==
  /\ request[r].pc = "off" /\ decisions < MaxDecisions /\ CanApprove(f, e)
  /\ request' = [request EXCEPT ![r] = [pc |-> "save", f |-> f, e |-> e]]
  /\ decisions' = decisions + 1
  /\ UNCHANGED <<prop, active, pending, told, agreed, epoch, proposals>>

(* What has been read as pending is written back as approved, whatever it has *)
(* become meanwhile.                                                         *)
SaveApproved(r) ==
  /\ request[r].pc = "save"
  /\ prop' = [prop EXCEPT ![request[r].f][request[r].e] = "approved"]
  /\ request' = [request EXCEPT ![r].pc = "apply"]
  /\ agreed' = agreed \cup {request[r].f}
  /\ UNCHANGED <<active, pending, told, epoch, proposals, decisions>>

Reject(f, e) ==
  /\ prop[f][e] # "none" /\ decisions < MaxDecisions /\ decisions' = decisions + 1
  /\ prop' = [prop EXCEPT ![f][e] = "rejected"]
  /\ UNCHANGED <<request, active, pending, told, agreed, epoch, proposals>>

KnownAny(f) == active[f] > 0 \/ pending[f] > 0  \* mutant: a fact of any status counts
Known(f) == active[f] > 0

(* The proposal is read again: no longer approved, the request ends in an     *)
(* error; a fact that is active already is not added twice.                   *)
Apply(r) ==
  /\ request[r].pc = "apply"
  /\ LET f == request[r].f
         approved == prop[f][request[r].e] = "approved" IN
       /\ request' = [request EXCEPT ![r] = IF approved /\ ~Known(f) THEN [@ EXCEPT !.pc = "decide"] ELSE NoReq]
       /\ told' = IF approved /\ Known(f) THEN told \cup {f} ELSE told
       /\ pending' = IF approved /\ ~Known(f) THEN [pending EXCEPT ![f] = @ + 1] ELSE pending
  /\ UNCHANGED <<prop, active, agreed, epoch, proposals, decisions>>

DecideFact(r) ==
  /\ request[r].pc = "decide"
  /\ LET f == request[r].f IN
       /\ pending' = [pending EXCEPT ![f] = @ - 1] /\ active' = [active EXCEPT ![f] = @ + 1]
       /\ told' = told \cup {f}
  /\ request' = [request EXCEPT ![r] = NoReq]
  /\ UNCHANGED <<prop, agreed, epoch, proposals, decisions>>

(* The dashboard dies: a request is cut off wherever it was, and a fact it    *)
(* added and did not decide stays pending, where nothing looks for it.        *)
Restart ==
  /\ epoch < MaxEpochs /\ epoch' = epoch + 1
  /\ request' = [r \in Requests |-> NoReq]
  /\ UNCHANGED <<prop, active, pending, told, agreed, proposals, decisions>>

Next ==
  \/ \E f \in Facts : Propose(f) \/ \E e \in Epochs :
       Reject(f, e) \/ \E r \in Requests : Approve(r, f, e)
  \/ \E r \in Requests : SaveApproved(r) \/ Apply(r) \/ DecideFact(r)
  \/ Restart

Spec == Init /\ [][Next]_vars

----------------------------------------------------------------------------
(* When the panel is told that a fact is approved, the fact is active in the  *)
(* user model, which is all that prompts are made from; and nothing is there  *)
(* that no person approved.  This is so with simultaneous requests, with      *)
(* proposals made again over decided ones, and with a process that dies       *)
(* between the commits of an approval.                                       *)
GateIsTrue == \A f \in Facts :
  /\ f \in told => active[f] >= 1
  /\ active[f] + pending[f] > 0 => f \in agreed
=============================================================================
