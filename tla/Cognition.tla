----------------------------- MODULE Cognition -----------------------------
(* What idle work learns from the chat (agentic/idle_cognition.py and the      *)
(* stores of agent/: strategic_memory, skill_library, user_model,              *)
(* uncertainty): a pass counts what repeats in the episodes read when the     *)
(* cycle began, reads a window of its table, and saves a pending proposal for *)
(* what the window does not hold, while the chat adds to the same tables and  *)
(* decisions are taken. Each table has one task and nothing in common with    *)
(* the others: "kind", chosen at the start, says which one this is.           *)
EXTENDS Naturals, Sequences, FiniteSets, SequencesExt, FiniteSetsExt

CONSTANTS Kinds,        \* tables looked at: "principle", "skill", "goal", "agenda", and
                        \* "profile", the interests and preferences
          Patterns,     \* what can repeat: a flow of tools, a theme, a topic
          Window,       \* rows a pass reads before it saves (50 or 200)
          Top,          \* most frequent patterns a pass looks at (5, 10 or 20)
          MaxUses,      \* bound: uses of a pattern
          MaxRows,      \* bound: rows of a table
          MaxCycles,    \* bound: idle cycles
          MaxDecisions  \* bound: decisions

VARIABLES
  kind,
  uses,      \* times each pattern occurs in the episodes and tasks
  rows,      \* the table, oldest proposal first: [p, status, fixed], the last whether
             \* its identifier is made of the pattern alone
  interest,  \* user_interests: times counted, and whether its score is a declared one
  length,    \* the preference "response_length": where its value comes from
  pass,      \* the idle task: step, what its cycle read, what the window held, what is left
  cycles, decisions

cvars == <<kind, uses, rows, interest, length, pass, cycles, decisions>>

Open == {"pending", "approved"}
Enough == 2       \* MIN_TASKS_FOR_GOAL; three for tools and topics, which changes nothing here
NoPass == [pc |-> "off", seen |-> [p \in Patterns |-> 0], known |-> {}, left |-> {}]
Other == "declared"   \* text of a goal the person declares: none of the patterns

Init ==
  /\ kind \in Kinds
  /\ uses = [p \in Patterns |-> 0] /\ rows = <<>>
  /\ interest = [p \in Patterns |-> [count |-> 0, declared |-> FALSE]]
  /\ length = "none" /\ pass = NoPass /\ cycles = 0 /\ decisions = 0

Newest == { i \in DOMAIN rows : i > Len(rows) - Window }
Shown == { i \in DOMAIN rows : rows[i].status = "approved" }

(* ---- the chat and the person ---- *)

Use(p) ==
  /\ uses[p] < MaxUses /\ uses' = [uses EXCEPT ![p] = @ + 1]
  /\ UNCHANGED <<kind, rows, interest, length, pass, cycles, decisions>>

(* Old episodes leave the ones a cycle reads; a topic found again is trusted. *)
Fade(p) ==
  /\ uses[p] > 0 /\ uses' = [uses EXCEPT ![p] = @ - 1]
  /\ UNCHANGED <<kind, rows, interest, length, pass, cycles, decisions>>

DeclareGoal ==
  /\ kind = "goal" /\ Len(rows) < MaxRows
  /\ rows' = Append(rows, [p |-> Other, status |-> "approved", fixed |-> FALSE])
  /\ UNCHANGED <<kind, uses, interest, length, pass, cycles, decisions>>

DeclareInterest(p) ==
  /\ kind = "profile" /\ ~ interest[p].declared
  /\ interest' = [interest EXCEPT ![p].declared = TRUE]
  /\ UNCHANGED <<kind, uses, rows, length, pass, cycles, decisions>>

DeclareLength ==
  /\ kind = "profile" /\ length # "declared" /\ length' = "declared"
  /\ UNCHANGED <<kind, uses, rows, interest, pass, cycles, decisions>>

(* Goals ("active", "abandoned") and research proposals are looked for in the *)
(* window only; nothing asks whether the row was decided before.             *)
CanDecide(i) == kind \in {"goal", "agenda"} => i \in Newest

Decide(i, st) ==
  /\ decisions < MaxDecisions /\ decisions' = decisions + 1
  /\ i \in DOMAIN rows /\ CanDecide(i)
  /\ rows' = [rows EXCEPT ![i].status = st]
  /\ UNCHANGED <<kind, uses, interest, length, pass, cycles>>

Execute(i) ==
  /\ kind = "agenda" /\ i \in Newest /\ rows[i].status # "executed"
  /\ rows' = [rows EXCEPT ![i].status = "executed"]
  /\ UNCHANGED <<kind, uses, interest, length, pass, cycles, decisions>>

(* ---- the idle task ---- *)

(* The cycle reads episodes and tasks once; its tasks may run much later.     *)
BeginCycle ==
  /\ pass.pc = "off" /\ cycles < MaxCycles /\ cycles' = cycles + 1
  /\ pass' = [NoPass EXCEPT !.pc = IF kind = "profile" THEN "interests" ELSE "read", !.seen = uses]
  /\ UNCHANGED <<kind, uses, rows, interest, length, decisions>>

(* Topics of low confidence are read when they are needed.                    *)
Seen == IF kind = "agenda" THEN uses ELSE pass.seen
Frequent == { p \in Patterns : Seen[p] >= Enough }

(* The score is computed anew from the count, a declared one included.        *)
CountedAgain(n) ==
  [count |-> IF n.count > MaxUses THEN n.count ELSE n.count + 1, declared |-> FALSE]

(* One commit per topic: what is read between two is not told apart.          *)
CountInterests ==
  /\ pass.pc = "interests" /\ pass' = [pass EXCEPT !.pc = "length"]
  /\ interest' = [p \in Patterns |->
       IF p \in Frequent THEN CountedAgain(interest[p]) ELSE interest[p]]
  /\ UNCHANGED <<kind, uses, rows, length, cycles, decisions>>

(* most_common(Top): those most often seen, ties in any order.                *)
MostFrequent(ps) ==
  /\ ps \subseteq Patterns /\ Cardinality(ps) <= Top
  /\ Cardinality(ps) < Top => ps = Patterns
  /\ \A p \in ps, q \in Patterns \ ps : Seen[p] >= Seen[q]

KnownOpen == { rows[i].p : i \in { j \in Newest : rows[j].status \in Open } }

Known == { rows[i].p : i \in { j \in Newest : kind = "agenda" => rows[j].status \in Open } }

ReadWindow ==
  /\ pass.pc = "read"
  /\ \E ps \in SUBSET Patterns :
       /\ MostFrequent(ps)
       /\ pass' = [pass EXCEPT !.pc = "save", !.known = Known,
                               !.left = (ps \cap Frequent) \ Known]
  /\ UNCHANGED <<kind, uses, rows, interest, length, cycles, decisions>>

(* INSERT OR REPLACE: the identifier of a principle that is counted is made   *)
(* of its pattern, so when it is proposed again it replaces the old row,      *)
(* decision and all; the other identifiers carry the time.                   *)
Without(p) ==
  LET old == { i \in DOMAIN rows : rows[i].p = p /\ rows[i].fixed }
  IN  IF old = {} THEN rows ELSE RemoveAt(rows, CHOOSE i \in old : TRUE)

Saved(p) ==
  IF kind = "principle"
  THEN Append(Without(p), [p |-> p, status |-> "pending", fixed |-> TRUE])
  ELSE Append(rows, [p |-> p, status |-> "pending", fixed |-> FALSE])

(* A tier 2 pass adds what the model words, after what is counted: any text,  *)
(* dropped if the window holds it.                                           *)
ReflectWithModel(p) ==
  /\ kind = "principle" /\ pass.pc = "save" /\ pass.left = {} /\ p \notin pass.known
  /\ Len(rows) < MaxRows
  /\ rows' = Append(rows, [p |-> p, status |-> "pending", fixed |-> FALSE])
  /\ pass' = [pass EXCEPT !.known = @ \cup {p}]
  /\ UNCHANGED <<kind, uses, interest, length, cycles, decisions>>

Save(p) ==
  /\ pass.pc = "save" /\ p \in pass.left /\ Len(Saved(p)) <= MaxRows
  /\ rows' = Saved(p)
  /\ pass' = [pass EXCEPT !.left = @ \ {p}, !.known = @ \cup {p}]
  /\ UNCHANGED <<kind, uses, interest, length, cycles, decisions>>

EndPass ==
  /\ pass.pc = "save" /\ (pass.left = {} \/ Len(rows) = MaxRows)
  /\ pass' = NoPass
  /\ UNCHANGED <<kind, uses, rows, interest, length, cycles, decisions>>

(* Enough turns that ask for more or for less: what they ask replaces the     *)
(* value in the table.                                                       *)
InferLength ==
  /\ pass.pc = "length" /\ length' \in {length, "inferred"}
  /\ pass' = NoPass
  /\ UNCHANGED <<kind, uses, rows, interest, cycles, decisions>>

(* The dashboard is restarted: what was saved stays, the pass is gone.        *)
Restart ==
  /\ pass.pc # "off" /\ pass' = NoPass
  /\ UNCHANGED <<kind, uses, rows, interest, length, cycles, decisions>>

Idle == \/ BeginCycle \/ CountInterests \/ ReadWindow \/ EndPass \/ InferLength
        \/ \E p \in Patterns : ReflectWithModel(p) \/ Save(p)

Next ==
  \/ Idle
  \/ DeclareGoal
  \/ DeclareLength
  \/ Restart
  \/ \E p \in Patterns : Use(p) \/ Fade(p) \/ DeclareInterest(p)
  \/ \E i \in 1 .. MaxRows : Execute(i)
  \/ \E i \in 1 .. MaxRows, st \in {"approved", "rejected"} : Decide(i, st)

Spec == Init /\ [][Next]_cvars

(* ---- properties ---- *)

(* Types: the table holds a status for every row and no more rows than bound. *)
TypeOK ==
  /\ kind \in Kinds /\ uses \in [Patterns -> 0 .. MaxUses]
  /\ Len(rows) <= MaxRows
  /\ \A i \in DOMAIN rows : /\ rows[i].p \in Patterns \cup {Other}
                            /\ rows[i].status \in Open \cup {"rejected", "executed"}
  /\ pass.pc \in {"off", "interests", "length", "read", "save"}
  /\ pass.known \subseteq Patterns \cup {Other} /\ pass.left \subseteq Patterns

Proposes(p) == \E i \in DOMAIN rows' :
  /\ rows'[i].p = p /\ rows'[i].status = "pending" /\ i = Len(rows')
  /\ rows' # rows /\ (i \in DOMAIN rows => rows[i] # rows'[i])

(* A person is not asked twice (existing_patterns, existing_signatures,        *)
(* existing_goals, existing_topics): nothing is proposed while the window     *)
(* still holds a pending row of it, nor, but for research, a decided one,     *)
(* although the window was read before the chat and the decisions of the      *)
(* meantime.                                                                 *)
AskedOnce ==
  [][\A p \in Patterns : Proposes(p) =>
       \A i \in Newest : rows[i].p = p => kind = "agenda" /\ rows[i].status # "pending"]_cvars

(* A decision is kept (decide, decided_by): no row a person decided goes back *)
(* to pending. It does: a principle that the window no longer holds is        *)
(* proposed again under the same identifier.                                 *)
DecisionKept ==
  [][\A i \in DOMAIN rows : rows[i].status \in {"approved", "rejected"} =>
       \E j \in DOMAIN rows' : rows'[j].p = rows[i].p /\ rows'[j].status # "pending"]_cvars

(* What idle work infers reaches the prompt only through a decision           *)
(* (idle_cognition.py: "Nada se aplica solo"). It does not hold: interests    *)
(* and the preferred length go straight in.                                  *)
NothingAppliesAlone == [][Idle => UNCHANGED <<Shown, interest, length>>]_cvars
=============================================================================
