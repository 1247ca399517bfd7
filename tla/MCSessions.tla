----------------------------- MODULE MCSessions -----------------------------
(* What a conversation lives through: its turns, the episodic memory of what   *)
(* was said, and the notices that reach the telephone.  They share no          *)
(* variable, so a behaviour shows one of the three and the others stay as they *)
(* were: the states of the parts add up.                                      *)
EXTENDS Chat, Sequences

VARIABLES part,
  sess, chat, todo, cur, proposed, restarts,                          \* memory
  note, slot, watcher, wake, poll, phone, shown, drops, pairs         \* notices

mvars == <<sess, chat, todo, cur, proposed, restarts>>
nvars == <<note, slot, watcher, wake, poll, phone, shown, drops, pairs>>
allVars == <<part, vars, mvars, nvars>>

M == INSTANCE Memory WITH Chats <- {"c1"}, MaxEpisodes <- 3, MaxSummaries <- 1, MaxRestarts <- 1
P == INSTANCE Push WITH Keys <- {"q1", "q2"}, MaxNotes <- 3, MaxDrops <- 2, MaxPairs <- 2

\* A part that does not run has one initial state.
MCInit ==
  /\ part \in {"chat", "memory", "notices"}
  /\ recent \in IF part = "chat" THEN BOOLEAN ELSE {FALSE}
  /\ Init /\ M!Init /\ P!Init

MCNext ==
  \/ part = "chat" /\ Next /\ UNCHANGED <<part, mvars, nvars>>
  \/ part = "memory" /\ M!Next /\ UNCHANGED <<part, vars, nvars>>
  \/ part = "notices" /\ P!Next /\ UNCHANGED <<part, vars, mvars>>

\* The fairness of each part, while it runs.
MCFairness ==
  /\ WF_vars(part = "chat" /\ Retrieved)
  /\ \A s \in Sessions : WF_vars(part = "chat" /\ Step(s))
  /\ WF_mvars(part = "memory" /\ M!Hygiene) /\ WF_mvars(part = "memory" /\ M!Pick)
  /\ WF_mvars(part = "memory" /\ M!Propose) /\ SF_mvars(part = "memory" /\ M!SaveSummary)
  /\ SF_mvars(part = "memory" /\ \E s \in Sessions : M!Summarise(s))
  /\ \A s \in Sessions : WF_mvars(part = "memory" /\ M!Age(s))
  /\ WF_mvars(part = "memory" /\ M!Answer("c1"))
  /\ WF_nvars(part = "notices" /\ P!Serve) /\ WF_nvars(part = "notices" /\ P!Telephone)
  /\ WF_nvars(part = "notices" /\ P!Ping)

MCSpec == MCInit /\ [][MCNext]_allVars /\ MCFairness

(* A conversation that is over is summarised (Memory).                        *)
IdleIsConsolidated == M!IdleIsConsolidated
(* Every notice is shown in the end, or a later one of its key is (Push).     *)
NothingIsLost == P!NothingIsLost
=============================================================================
