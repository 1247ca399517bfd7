------------------------------- MODULE Recall -------------------------------
(* The agent's memory (agent/memory_store.py, recall_memory in                 *)
(* agent/system_tools.py): every recall first copies what the canonical        *)
(* stores hold into memory items, store by store, then embeds a few items     *)
(* that have no vector and answers from text and vectors. Recalls of several  *)
(* chats run at once and share the items, while the stores change.            *)
EXTENDS Naturals, Sequences, FiniteSets, SequencesExt

CONSTANTS Recallers,
          Items,        \* things the stores can hold
          StoreOf,      \* [Items -> Stores]
          Cap,          \* items one listing returns (20)
          Batch,        \* items embedded per recall (32)
          MaxVersions,  \* bound: texts of one thing
          MaxFaults     \* bound: stores that cannot be read

Stores == <<"memory", "user", "strategic", "tutor">>   \* in the order of sync()

VARIABLES
  source,   \* version of the text in its canonical store, 0: not there (or not approved)
  item,     \* version in memory_items and its full-text index, 0: no such item
  table,    \* items in the order they were first inserted
  order,    \* items by updated_at, newest first
  vector,   \* version the vector was made of, 0: none
  recaller, \* [pc, at (store), read, began, alone, whole, adapter, todo]
  stops     \* faults so far

mvars == <<source, item, table, order, vector, recaller, stops>>

None == [i \in Items |-> 0]
Off == [pc |-> "off", at |-> 1, read |-> None, began |-> None, alone |-> TRUE,
        whole |-> TRUE, todo |-> None]

Init ==
  /\ source = None /\ item = None /\ table = <<>> /\ order = <<>> /\ vector = None
  /\ recaller = [r \in Recallers |-> Off] /\ stops = 0

(* A session is summarised, a goal declared, a principle approved, a topic    *)
(* assessed; later again.                                                    *)
Learn(i) ==
  /\ source[i] < MaxVersions /\ source' = [source EXCEPT ![i] = @ + 1]
  /\ UNCHANGED <<item, table, order, vector, recaller, stops>>

Busy(r) == \E q \in Recallers \ {r} : recaller[q].pc # "off"

Begin(r) ==
  /\ recaller[r].pc = "off"
  /\ recaller' = [q \in Recallers |->
       IF q = r THEN [Off EXCEPT !.pc = "list", !.began = source, !.alone = ~ Busy(r)]
       ELSE IF recaller[q].pc = "off" THEN Off
       ELSE [recaller[q] EXCEPT !.alone = FALSE]]
  /\ UNCHANGED <<source, item, table, order, vector, stops>>

ListedNew(s) == { i \in Items : StoreOf[i] = s /\ s # "strategic" /\ source[i] > 0 /\ item[i] = 0 }

(* What a store lists. Of the principles: those of status "active", which no  *)
(* code writes (decide() writes "approved").                                 *)
Listed(s) == { i \in Items : StoreOf[i] = s /\ s # "strategic" /\ source[i] > 0 }

List(r) ==
  /\ recaller[r].pc = "list"
  /\ recaller' = [recaller EXCEPT ![r].pc = "write",
       ![r].read = [i \in Items |-> IF i \in Listed(Stores[recaller[r].at]) THEN source[i] ELSE 0]]
  /\ UNCHANGED <<source, item, table, order, vector, stops>>

Following(r) == IF recaller[r].at = Len(Stores) THEN "search" ELSE "list"

(* A store that cannot be opened or read is skipped.                          *)
ListFails(r) ==
  /\ recaller[r].pc = "list" /\ stops < MaxFaults /\ stops' = stops + 1
  /\ recaller' = [recaller EXCEPT ![r].pc = Following(r), ![r].at = (@ % Len(Stores)) + 1,
                                  ![r].whole = FALSE]
  /\ UNCHANGED <<source, item, table, order, vector>>

(* The upserts of one store, within a second: updated_at does not tell them   *)
(* apart and the row keeps its place in the table.                           *)
Touched(s, t) ==
  LET inT == SelectSeq(t, LAMBDA i : i \in s)
      out == SelectSeq(order, LAMBDA i : i \notin s)
  IN inT \o out

Write(r) ==
  /\ recaller[r].pc = "write"
  /\ LET s == { i \in Items : recaller[r].read[i] > 0 }
         t == table \o SetToSeq(s \ ToSet(table))
     IN /\ table' = t /\ order' = Touched(s, t)
        /\ item' = [i \in Items |-> IF i \in s THEN recaller[r].read[i] ELSE item[i]]
  /\ recaller' = [recaller EXCEPT ![r].pc = Following(r), ![r].at = (@ % Len(Stores)) + 1,
                                  ![r].read = None]
  /\ UNCHANGED <<source, vector, stops>>

(* ---- the vectors ---- *)

(* The listing asks for 200 rows and gets Cap of them; scopes narrow it.      *)
Newest(ss) == LET o == SelectSeq(order, LAMBDA i : StoreOf[i] \in ss)
              IN SubSeq(o, 1, IF Len(o) < Cap THEN Len(o) ELSE Cap)

Unembedded(ss) == SelectSeq(Newest(ss), LAMBDA i : vector[i] = 0)

Scopes == { ToSet(Stores) } \cup { {s} : s \in ToSet(Stores) }

(* Without a warm embedding adapter the answer is the full-text one.          *)
SearchText(r) ==
  /\ recaller[r].pc = "search"
  /\ recaller' = [recaller EXCEPT ![r].pc = "answer"]
  /\ UNCHANGED <<source, item, table, order, vector, stops>>

Pick(r, ss) ==
  /\ recaller[r].pc = "search"
  /\ LET o == Unembedded(ss)
         s == ToSet(SubSeq(o, 1, IF Len(o) < Batch THEN Len(o) ELSE Batch))
     IN recaller' = [recaller EXCEPT ![r].pc = "embed",
          ![r].todo = [i \in Items |-> IF i \in s THEN item[i] ELSE 0]]
  /\ UNCHANGED <<source, item, table, order, vector, stops>>

Embed(r) ==
  /\ recaller[r].pc = "embed"
  /\ vector' = [i \in Items |-> IF recaller[r].todo[i] > 0 THEN recaller[r].todo[i] ELSE vector[i]]
  /\ recaller' = [recaller EXCEPT ![r].pc = "answer", ![r].todo = None]
  /\ UNCHANGED <<source, item, table, order, stops>>

(* The model or the vector file fails: the full-text answer.                  *)
EmbedFails(r) ==
  /\ recaller[r].pc = "embed" /\ stops < MaxFaults /\ stops' = stops + 1
  /\ recaller' = [recaller EXCEPT ![r].pc = "answer", ![r].todo = None]
  /\ UNCHANGED <<source, item, table, order, vector>>

Answer(r) ==
  /\ recaller[r].pc = "answer" /\ recaller' = [recaller EXCEPT ![r] = Off]
  /\ UNCHANGED <<source, item, table, order, vector, stops>>

Warm(r) == Begin(r) \/ List(r) \/ Write(r) \/ Pick(r, ToSet(Stores)) \/ Embed(r) \/ Answer(r)

Next ==
  \/ \E i \in Items : Learn(i)
  \/ \E r \in Recallers :
       \/ Begin(r) \/ List(r) \/ ListFails(r) \/ Write(r)
       \/ SearchText(r) \/ Embed(r) \/ EmbedFails(r) \/ Answer(r)
       \/ \E ss \in Scopes : Pick(r, ss)

Spec == Init /\ [][Next]_mvars

(* Only what the comment about the vectors promises: recalls keep coming and  *)
(* the adapter is warm.                                                      *)
WarmSpec == Init /\ [][\/ \E i \in Items : Learn(i)
                       \/ \E r \in Recallers : Warm(r)]_mvars
                 /\ \A r \in Recallers : WF_mvars(Warm(r))

(* ---- properties ---- *)

(* Types: a permutation of the table is the order; versions are those of      *)
(* their source.                                                             *)
TypeOK ==
  /\ source \in [Items -> 0 .. MaxVersions]
  /\ \A i \in Items : vector[i] <= MaxVersions /\ item[i] <= source[i]
  /\ ToSet(order) = ToSet(table) /\ Len(order) = Len(table)
  /\ ToSet(table) = { i \in Items : item[i] > 0 }

Alone(r) == recaller[r].pc = "answer" /\ recaller[r].alone /\ recaller[r].whole

(* A recall answers from the stores, not from an older copy (sync on every     *)
(* recall, "idempotent and safe"): one that ran alone and could read every    *)
(* store has every session, profile and tutor text in the version its store   *)
(* had when the recall began, or a later one, whatever earlier recalls that   *)
(* ran side by side left behind.                                             *)
RecallIsCurrent ==
  \A r \in Recallers : Alone(r) =>
    \A i \in Items : StoreOf[i] # "strategic" => item[i] >= recaller[r].began[i]

(* The agent recalls its own principles (recall_memory: "principios propios"). *)
(* It never does: the indexer asks for a status no principle has.            *)
ApprovedIsRecalled ==
  \A r \in Recallers : Alone(r) =>
    \A i \in Items : StoreOf[i] = "strategic" /\ recaller[r].began[i] > 0 => item[i] > 0

(* Every item gets a vector in the end ("the rest are picked up by subsequent  *)
(* recalls"). It need not: only the newest Cap items are ever looked at.      *)
EveryItemEmbedded == \A i \in Items : item[i] > 0 ~> vector[i] > 0
=============================================================================
