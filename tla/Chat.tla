--------------------------------- MODULE Chat ---------------------------------
(* One turn of the chat of the dashboard (dashboard/api.py, the streaming     *)
(* route): gate and retrieval, then a loop in which the model answers or      *)
(* names a tool, and the nets that catch a model which says that it           *)
(* researches, or that it has no data, and names no tool.  Requests run in    *)
(* threads of their own; they share the flag that holds the idle worker back, *)
(* the one worker of the retrieval pool and the research of the machine.      *)
EXTENDS Naturals, Sequences

CONSTANTS Sessions,
          MaxToolRounds,  \* MAX_TOOL_ROUNDS
          MaxTurns        \* bound: turns in all

VARIABLES
  turn,      \* per session: the turn under way
  pool,      \* the jobs of the retrieval pool, by session; the first one runs
  busy,      \* CHAT_BUSY
  closed,    \* sessions whose row is closed: an episode is refused
  research,  \* research_progress: off, running, done, being told
  recent,    \* the question is among the recently researched ones
  watch,     \* the session the research is for
  said,      \* per session: the last episode of the assistant says that it researches
  turns

vars == <<turn, pool, busy, closed, research, recent, watch, said, turns>>
shared == <<pool, closed, research, recent, watch>>

Tools == {"research", "other"}
Says == {{}, {"blank"}, {"claim"}, {"nodata"}, {"claim", "nodata"}}  \* what its prose says

NoTurn == [pc |-> "rest", kind |-> "other", asked |-> FALSE, round |-> 0,
           call |-> "none", claims |-> FALSE, tried |-> FALSE]

TypeOK ==
  /\ \A s \in Sessions :
       /\ turn[s].pc \in {"rest", "search", "gen", "run", "last", "end"}
       /\ turn[s].round \in 0 .. MaxToolRounds
       /\ turn[s].call \in Tools \cup {"none"} /\ turn[s].claims \in BOOLEAN /\ turn[s].tried \in BOOLEAN
  /\ pool \in Seq(Sessions) /\ closed \subseteq Sessions /\ busy \in BOOLEAN
  /\ research \in {"off", "running", "done", "telling"} /\ watch \subseteq Sessions /\ turns \in 0 .. MaxTurns

Init ==
  /\ turn = [s \in Sessions |-> NoTurn] /\ pool = <<>> /\ busy = FALSE /\ closed = {}
  /\ research = "off" /\ recent \in BOOLEAN /\ watch = {}
  /\ said = [s \in Sessions |-> FALSE] /\ turns = 0

At(s, pc) == turn[s].pc = pc
Go(s, pc) == turn' = [turn EXCEPT ![s].pc = pc]

(* What the gate takes a message for: a question to the corpus, one about a    *)
(* report, or one that memory, the roadmap or nothing at all answers.         *)
Kinds == {"knowledge", "report", "other"}
Pooled(k, cached) == k = "report" \/ (k = "knowledge" /\ ~cached)

(* ensure_session reopens the row, the user's turn is recorded, the flag goes *)
(* up; what the retrieval cache does not hold goes to the pool.              *)
Begin(s) ==
  /\ At(s, "rest") /\ turns < MaxTurns /\ turns' = turns + 1
  /\ closed' = closed \ {s} /\ busy' = TRUE
  /\ \E k \in Kinds, a \in BOOLEAN, cached \in BOOLEAN :
       /\ turn' = [turn EXCEPT ![s] = [NoTurn EXCEPT !.kind = k, !.asked = a,
                                         !.pc = IF Pooled(k, cached) THEN "search" ELSE "gen"]]
       /\ pool' = IF Pooled(k, cached) THEN Append(pool, s) ELSE pool
  /\ UNCHANGED <<research, recent, watch, said>>

(* A report that cannot be resolved ends the request; the flag is lowered     *)
(* before it was raised.                                                     *)
ReportUnknown(s) ==
  /\ At(s, "rest") /\ turns < MaxTurns /\ turns' = turns + 1
  /\ closed' = closed \ {s} /\ busy' = FALSE
  /\ UNCHANGED <<turn, pool, research, recent, watch, said>>

(* The worker ends its first job; nobody waits for one that timed out.        *)
Retrieved ==
  /\ pool # <<>> /\ pool' = Tail(pool)
  /\ LET s == Head(pool)
         waits == At(s, "search") /\ \A i \in DOMAIN pool' : pool'[i] # s
     IN IF waits
        THEN Go(s, "gen") ELSE UNCHANGED turn
  /\ UNCHANGED <<busy, closed, research, recent, watch, said, turns>>

RetrievalTimesOut(s) ==
  /\ At(s, "search") /\ Go(s, "gen")
  /\ UNCHANGED <<shared, busy, said, turns>>

----------------------------------------------------------------------------
(* The tool loop.                                                            *)

(* The nets of the first round: who was asked to research and says he does,   *)
(* does; who has no data researches, or searches.                            *)
Caught(t, says, call) ==
  IF call # "none" \/ t.round # 0 THEN call
  ELSE IF t.asked THEN IF "claim" \in says THEN "research" ELSE "none"
  ELSE IF "nodata" \notin says THEN "none"
  ELSE IF t.kind = "knowledge" /\ ~recent THEN "research" ELSE "other"

RefusedNever(t, again) == again  \* mutant: no limit of rounds

(* A call repeated with its arguments, or one above the limit.                *)
Refused(t, again) == again \/ t.round = MaxToolRounds

(* A claim to research in a turn without a call becomes an honest answer.     *)
Claim(t, says) == "claim" \in says /\ t.round # 0

Ends(s) == turn' = [turn EXCEPT ![s] = NoTurn] /\ busy' = FALSE

(* A generation ends: prose, a marker, or prose that ends in a marker; a      *)
(* provider that fails leaves nothing.  Prose before a call is an episode of  *)
(* its own; in a closed session it ends the request in an error.              *)
Reply(s) ==
  /\ At(s, "gen")
  /\ \E says \in Says, call \in Tools \cup {"none"}, again \in BOOLEAN, head \in BOOLEAN :
       LET t == turn[s]
           c == Caught(t, says, call)
           prose == c # "none" /\ ~head /\ says # {"blank"}
       IN /\ again => c # "none" /\ t.round # 0
          /\ head => call # "none" /\ says = {}
          /\ IF prose /\ s \in closed
             THEN Ends(s) /\ UNCHANGED said
             ELSE /\ said' = IF prose THEN [said EXCEPT ![s] = "claim" \in says] ELSE said
                  /\ turn' = [turn EXCEPT ![s] =
                       IF c = "none" THEN [t EXCEPT !.pc = "end", !.claims = Claim(t, says)]
                       ELSE IF Refused(t, again) THEN [t EXCEPT !.pc = "last"]
                       ELSE [t EXCEPT !.pc = "run", !.call = c]]
                  /\ UNCHANGED busy
  /\ UNCHANGED <<shared, turns>>

More(n) == IF n < MaxToolRounds THEN n + 1 ELSE n

(* The tool runs.  A research that runs already, or a question researched     *)
(* lately, is answered without a launch.                                     *)
RunTool(s) ==
  /\ At(s, "run")
  /\ turn' = [turn EXCEPT ![s] = [NoTurn EXCEPT !.pc = "gen", !.round = More(turn[s].round),
                                     !.tried = turn[s].tried \/ turn[s].call = "research"]]
  /\ \/ UNCHANGED shared  \* the tool fails, answers, or finds the research done or under way
     \/ /\ turn[s].call = "research" /\ research # "running" /\ ~recent
        /\ watch' = {s} /\ research' = "running" /\ recent' = TRUE
        /\ UNCHANGED <<pool, closed>>
  /\ UNCHANGED <<busy, said, turns>>

(* After a refusal the model answers once more, with what it has.             *)
LastWord(s) ==
  /\ At(s, "last")
  /\ \E c \in BOOLEAN : turn' = [turn EXCEPT ![s].pc = "end", ![s].claims = c]
  /\ UNCHANGED <<shared, busy, said, turns>>

(* The answer is recorded, and the session closed.                           *)
Record(s) ==
  /\ At(s, "end")
  /\ Ends(s)
  /\ said' = IF s \in closed THEN said
             ELSE [said EXCEPT ![s] = turn[s].claims]
  /\ closed' = closed \cup {s}
  /\ UNCHANGED <<pool, research, recent, watch, turns>>

----------------------------------------------------------------------------
(* The research ends; the watcher waits for a pause of the chats, has the     *)
(* answer written, and records it in the session, open or not.               *)
ResearchEnds ==
  /\ research = "running"
  /\ research' = IF watch = {} THEN "off" ELSE "done"
  /\ UNCHANGED <<turn, pool, busy, closed, recent, watch, said, turns>>

Notice ==
  /\ research = "done" /\ ~busy /\ research' = "telling"
  /\ UNCHANGED <<turn, pool, busy, closed, recent, watch, said, turns>>

Deliver ==
  /\ research = "telling" /\ research' = "off" /\ watch' = {}
  /\ closed' = closed \cup watch
  /\ said' = [s \in Sessions |-> said[s] /\ s \notin watch]
  /\ UNCHANGED <<turn, pool, busy, recent, turns>>

Step(s) == RetrievalTimesOut(s) \/ Reply(s) \/ RunTool(s) \/ LastWord(s) \/ Record(s)

Next ==
  \/ \E s \in Sessions : Begin(s) \/ ReportUnknown(s) \/ Step(s)
  \/ Retrieved \/ ResearchEnds \/ Notice \/ Deliver

Fairness == WF_vars(Retrieved) /\ \A s \in Sessions : WF_vars(Step(s))

Spec == Init /\ [][Next]_vars /\ Fairness

----------------------------------------------------------------------------
(* Every turn ends, whatever the model answers, the retrieval worker does and *)
(* other sessions do meanwhile, and the idle worker gets its turn back.       *)
TurnsEnd == []<>(busy = FALSE /\ \A s \in Sessions : At(s, "rest"))

(* The history never says that a research runs when the turn started none:    *)
(* a false claim poisons it, and the model repeats the lie.                   *)
NoFalseClaim ==
  [][\A s \in Sessions :
       said'[s] /\ ~said[s] => turn[s].tried \/ turn'[s].call = "research" \/ research = "running"]_vars
=============================================================================
