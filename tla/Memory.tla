------------------------------- MODULE Memory -------------------------------
(* The sessions of the agent and what is kept of them: chats and deliveries   *)
(* record episodes, the idle worker closes forgotten sessions and summarises  *)
(* idle ones, durable facts about the user become proposals, and a person     *)
(* decides which of them enter the user model.                               *)
EXTENDS Naturals, FiniteSets

CONSTANTS Sessions, Chats,
          MaxEpisodes,  \* bound: episodes of a session
          MaxSummaries, \* max_sessions of one consolidation cycle
          MaxRestarts   \* bound: restarts of the dashboard

VARIABLES
  sess,     \* per session: status, episodes, idle time (0; 1: 5 min; 2: 30 min), consolidated
  chat,     \* per chat request: the session whose answer is being generated, or "none"
  todo,     \* sessions the running consolidation cycle has picked
  cur,      \* the one it works on: step, session, whether the model found a fact
  proposed, \* sessions whose fact has become a proposal
  restarts

vars == <<sess, chat, todo, cur, proposed, restarts>>
consVars == <<todo, cur, proposed>>

Off == [pc |-> "off", s |-> "none", fact |-> FALSE]

Init ==
  /\ sess = [s \in Sessions |-> [status |-> "none", n |-> 0, idle |-> 0, cons |-> FALSE]]
  /\ chat = [c \in Chats |-> "none"]
  /\ todo = {} /\ cur = Off
  /\ proposed = {} /\ restarts = 0

TypeOK ==
  /\ sess \in [Sessions -> [status : {"none", "active", "closed", "archived"},
                            n : 0 .. MaxEpisodes, idle : 0 .. 2, cons : BOOLEAN]]
  /\ todo \subseteq Sessions
  /\ proposed \subseteq Sessions /\ restarts \in 0 .. MaxRestarts

Touched(s, status) == [sess EXCEPT ![s].status = status, ![s].idle = 0]
Recorded(s, status) == [sess EXCEPT ![s].status = status, ![s].idle = 0, ![s].n = @ + 1]

----------------------------------------------------------------------------
(* Chats.  A turn opens or reopens its session and records the question; the  *)
(* answer is recorded when it is there, if the session is still active.       *)

Ask(c, s) ==
  /\ chat[c] = "none" /\ sess[s].n < MaxEpisodes
  /\ sess' = Recorded(s, "active")
  /\ chat' = [chat EXCEPT ![c] = s]
  /\ UNCHANGED <<consVars, restarts>>

(* The answer is recorded and the request closes the session; recording in a  *)
(* session somebody closed or archived raises, and nothing is closed.         *)
Answer(c) ==
  /\ chat[c] # "none"
  /\ LET s == chat[c] IN
       \/ sess[s].status = "active" /\ sess[s].n < MaxEpisodes /\ sess' = Recorded(s, "closed")
       \/ (sess[s].status # "active" \/ sess[s].n = MaxEpisodes) /\ UNCHANGED sess
  /\ chat' = [chat EXCEPT ![c] = "none"]
  /\ UNCHANGED <<consVars, restarts>>

(* The watcher tells the session that asked how its research ended.           *)
Deliver(s) ==
  /\ sess[s].status # "none" /\ sess[s].n < MaxEpisodes
  /\ sess' = Recorded(s, "closed")
  /\ UNCHANGED <<chat, consVars, restarts>>

Archive(s) ==
  /\ sess[s].status # "none"
  /\ sess' = Touched(s, "archived")
  /\ UNCHANGED <<chat, consVars, restarts>>

Age(s) ==
  /\ sess[s].status # "none" /\ sess[s].idle < 2
  /\ sess' = [sess EXCEPT ![s].idle = @ + 1]
  /\ UNCHANGED <<chat, consVars, restarts>>

----------------------------------------------------------------------------
(* Idle work.                                                                *)

StaleNever == {}  \* mutant: sessions a dead chat left open stay open
Stale == {s \in Sessions : sess[s].status = "active" /\ sess[s].idle = 2}

Hygiene ==
  /\ Stale # {}
  /\ sess' = [s \in Sessions |-> IF s \in Stale THEN [sess[s] EXCEPT !.status = "closed"] ELSE sess[s]]
  /\ UNCHANGED <<chat, consVars, restarts>>

Ready(s) == sess[s].status \in {"closed", "archived"} /\ ~sess[s].cons /\ sess[s].n >= 2 /\ sess[s].idle >= 1

(* A cycle picks the sessions that have been idle for longest.                *)
Pick ==
  /\ cur.pc = "off" /\ todo = {}
  /\ LET ready == {s \in Sessions : Ready(s)} IN
       /\ ready # {}
       /\ todo' \in {S \in SUBSET ready : Cardinality(S) <= MaxSummaries /\ S # {}
                                          /\ \A s \in S, t \in ready \ S : sess[s].idle >= sess[t].idle}
  /\ UNCHANGED <<sess, chat, cur, proposed, restarts>>

(* The next one is read as it is now, and the model is asked for a summary and *)
(* facts.  A generation that fails leaves the session for another cycle.      *)
Summarise(s) ==
  /\ cur.pc = "off" /\ s \in todo
  /\ todo' = todo \ {s}
  /\ \E fact \in BOOLEAN : cur' = [pc |-> "summary", s |-> s, fact |-> fact]
  /\ UNCHANGED <<sess, chat, proposed, restarts>>

GenerationFails(s) ==
  /\ cur.pc = "off" /\ s \in todo
  /\ todo' = todo \ {s}
  /\ UNCHANGED <<sess, chat, cur, proposed, restarts>>

(* An empty summary is not saved; the facts are proposed all the same.        *)
SaveSummary ==
  /\ cur.pc = "summary"
  /\ sess' = [sess EXCEPT ![cur.s].cons = TRUE]
  /\ cur' = IF cur.fact THEN [cur EXCEPT !.pc = "facts"] ELSE Off
  /\ UNCHANGED <<chat, todo, proposed, restarts>>

EmptySummary ==
  /\ cur.pc = "summary"
  /\ cur' = IF cur.fact THEN [cur EXCEPT !.pc = "facts"] ELSE Off
  /\ UNCHANGED <<sess, chat, todo, proposed, restarts>>

(* The facts go to the approval gate (Approvals).                            *)
Propose ==
  /\ cur.pc = "facts"
  /\ proposed' = proposed \cup {cur.s}
  /\ cur' = Off
  /\ UNCHANGED <<sess, chat, todo, restarts>>

(* The dashboard dies: requests and the idle cycle are gone, the sessions stay *)
(* as they were.                                                             *)
Restart ==
  /\ restarts < MaxRestarts /\ restarts' = restarts + 1
  /\ chat' = [c \in Chats |-> "none"] /\ todo' = {} /\ cur' = Off
  /\ UNCHANGED <<sess, proposed>>

Cycle == Pick \/ (\E s \in Sessions : Summarise(s)) \/ SaveSummary \/ EmptySummary \/ Propose

Next ==
  \/ \E c \in Chats : Answer(c) \/ \E s \in Sessions : Ask(c, s)
  \/ \E s \in Sessions : Deliver(s) \/ Archive(s) \/ Age(s) \/ GenerationFails(s)
  \/ Hygiene \/ Cycle \/ Restart

(* Time passes, chats are answered, the idle worker runs its tasks, and a     *)
(* model that is asked again and again gives a summary.                      *)
Fairness ==
  /\ WF_vars(Hygiene) /\ WF_vars(Pick) /\ WF_vars(Propose) /\ SF_vars(SaveSummary)
  /\ SF_vars(\E s \in Sessions : Summarise(s)) /\ \A s \in Sessions : WF_vars(Age(s))
  /\ \A c \in Chats : WF_vars(Answer(c))

Spec == Init /\ [][Next]_vars /\ Fairness

----------------------------------------------------------------------------
(* A conversation that is over is summarised, although requests die with the  *)
(* process and leave their session open, deliveries close sessions under a    *)
(* chat, and a cycle takes only some of the idle sessions and may fail.       *)
IdleIsConsolidated == []<>(\A s \in Sessions : sess[s].n >= 2 => sess[s].cons \/ sess[s].idle < 2)
=============================================================================
