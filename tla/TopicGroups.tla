---------------------------- MODULE TopicGroups ----------------------------
(* How a report groups its topics into parent categories                      *)
(* (reporter/reporter_topics.py): the model's own grouping when it is well   *)
(* formed, else a deterministic one that walks over the pairs of topics and   *)
(* merges groups by shared keywords, then splits what became too large. Only  *)
(* which topics share two or three keywords matters, and any such graph can   *)
(* occur: every pair may have keywords of its own. Up to five topics are not  *)
(* grouped at all: a smaller N stands for the topics that share anything.    *)
EXTENDS Naturals, Sequences, FiniteSets, SequencesExt

CONSTANTS N,          \* topics
          MaxGroup,   \* largest group that is not split (8)
          MaxParents, \* most categories a model may propose (8)
          MaxNamed    \* bound: topics its grouping names

Topics == 1 .. N

VARIABLES
  near, close,  \* pairs i < j that share two, three keywords
  at,           \* next pair, PairsEnd after them, Done at the end
  group,        \* the dict of groups by key: its members, {} if the key is not there
  parents       \* the result, a set of sets of topics; {} while there is none

gvars == <<near, close, at, group, parents>>

Pairs == {p \in Topics \X Topics : p[1] < p[2]}
FirstPair == <<1, 2>>
PairsEnd == <<N, N + 1>>
Done == <<0, 0>>

\* combinations(keys, 2), in its order.
After(p) == IF p[2] < N THEN <<p[1], p[2] + 1>> ELSE <<p[1] + 1, p[1] + 2>>
PairSeq == SetToSortSeq(Pairs, LAMBDA p, q : p[1] < q[1] \/ (p[1] = q[1] /\ p[2] < q[2]))

Init ==
  /\ near \in SUBSET Pairs /\ close \in SUBSET near
  /\ at = FirstPair /\ group = [i \in Topics |-> {i}] /\ parents = {}

(* A list of lists with something assigned; topics may be left out, repeated  *)
(* or unknown (0), and unknown ones are dropped on the way out.              *)
ValidGrouping(c) == Cardinality(c) <= MaxParents /\ UNION c # {}

Resolved(c) == { s \cap Topics : s \in c } \ {{}}

Propose(c) ==
  /\ at = FirstPair /\ parents = {} /\ ValidGrouping(c) /\ parents' = Resolved(c)
  /\ at' = Done
  /\ UNCHANGED <<near, close, group>>

JoinForgets(g, i, j) ==
  LET ks == { k \in Topics \ {i} : j \in g[k] }
  IN IF ks = {} THEN g
     ELSE LET k == CHOOSE k \in ks : TRUE IN [g EXCEPT ![i] = g[k], ![k] = {}]

(* The group that holds j goes to the key i, with what is under the key i: a  *)
(* key that has been merged away comes back without its own topic.           *)
Join(g, i, j) ==
  LET ks == { k \in Topics \ {i} : j \in g[k] }
  IN IF ks = {} THEN g
     ELSE LET k == CHOOSE k \in ks : TRUE IN [g EXCEPT ![i] = @ \cup g[k], ![k] = {}]

Merge ==
  /\ at \in Pairs /\ at' = After(at)
  /\ group' = IF at \in near THEN Join(group, at[1], at[2]) ELSE group
  /\ UNCHANGED <<near, close, parents>>

Groups(g) == { g[k] : k \in Topics } \ {{}}

(* The same walk inside one group, with three shared keywords.                *)
Split(s) ==
  LET Step(g, p) == IF p \in close /\ p[1] \in s /\ p[2] \in s THEN Join(g, p[1], p[2]) ELSE g
  IN Groups(FoldLeft(Step, [i \in Topics |-> IF i \in s THEN {i} ELSE {}], PairSeq))

Finish ==
  /\ at = PairsEnd
  /\ LET sized == UNION { IF Cardinality(s) > MaxGroup THEN Split(s) ELSE {s} : s \in Groups(group) }
     IN parents' = { s \in sized : Cardinality(s) >= 2 }
  /\ at' = Done
  /\ UNCHANGED <<near, close, group>>

Candidates == { {s, t} : s, t \in SUBSET (0 .. MaxNamed) }

Next == Merge \/ Finish \/ \E c \in Candidates : Propose(c)

Spec == Init /\ [][Next]_gvars

(* ---- properties ---- *)

(* Types: keys hold topics.                                                   *)
TypeOK ==
  /\ near \subseteq Pairs /\ close \subseteq near /\ at \in Pairs \cup {PairsEnd, Done}
  /\ group \in [Topics -> SUBSET Topics] /\ parents \subseteq SUBSET Topics

(* Of two topics that share keywords the set holds both or none: the topics    *)
(* that a chain of shared keywords relates to i are the smallest with i in it. *)
Related(S) == \A p \in near : p[1] \in S <=> p[2] \in S

(* The walk loses no topic, puts none in two groups, and never puts together  *)
(* two topics that no chain of shared keywords relates, though keys that were *)
(* merged away come back with the members of another group.                  *)
GroupsAreSound ==
  /\ UNION Groups(group) = Topics
  /\ \A k, l \in Topics : k # l => group[k] \cap group[l] = {}
  /\ \A S \in SUBSET Topics : Related(S) =>
       \A k \in Topics : group[k] \cap S # {} => group[k] \subseteq S

(* "topics sharing >= 2 keywords are connected": two topics that share two    *)
(* keywords are in one group when the walk ends. They need not be.           *)
SharersTogether ==
  at = PairsEnd =>
    \A p \in near : \E k \in Topics : {p[1], p[2]} \subseteq group[k]
=============================================================================
