------------------------------ MODULE Backfill ------------------------------
(* backfill_topics (agentic/topic_clusters.py): a pass gives a topic cluster  *)
(* to at most MaxDocs documents that have none. Which documents are alike is  *)
(* all that is left of the vectors: documents of one family are above the     *)
(* merge threshold, others below it. At this commit only the tests call it.   *)
EXTENDS Naturals, FiniteSets

CONSTANTS N,          \* documents, in the order the centroids are listed
          Families,
          Clusters,   \* identifiers a cluster can get
          MaxDocs,    \* documents per pass (20)
          MinSize,    \* smallest cluster (2)
          MaxStops    \* bound: crashes

Docs == 1 .. N

VARIABLES
  family,   \* of each document
  there,    \* documents with centroids
  vector,   \* documents whose chunks have vectors
  members,  \* per cluster, {}: no such cluster
  round,    \* the pass: [pc, old (clusters as first read), left, assigned, alone]
  crashes

bvars == <<family, there, vector, members, round, crashes>>

NoRound == [pc |-> "off", old |-> [c \in Clusters |-> {}], left |-> {}, assigned |-> {}, alone |-> {}]

Init ==
  /\ family \in [Docs -> Families] /\ there = {} /\ vector = {}
  /\ members = [c \in Clusters |-> {}] /\ round = NoRound /\ crashes = 0

Ingest(d) ==
  /\ d \notin there /\ there' = there \cup {d}
  /\ UNCHANGED <<family, vector, members, round, crashes>>

Vectorise(d) ==
  /\ d \in there \ vector /\ vector' = vector \cup {d}
  /\ UNCHANGED <<family, there, members, round, crashes>>

Topicized == UNION { members[c] : c \in Clusters }

FirstOf(ds) == { d \in ds : Cardinality({ e \in ds : e < d }) < MaxDocs }

Begin ==
  /\ round.pc = "off" /\ FirstOf(there \ Topicized) # {}
  /\ round' = [NoRound EXCEPT !.pc = "assign", !.old = members, !.left = FirstOf(there \ Topicized)]
  /\ UNCHANGED <<family, there, vector, members, crashes>>

(* Clusters the pass read whose centroid is above the threshold.              *)
Fits(d) == { c \in Clusters : \E e \in round.old[c] \cap vector : family[e] = family[d] }

EnlargedOnly(c, d) == {d}

(* The record that is saved is the one read at the start plus this document.  *)
Enlarged(c, d) == round.old[c] \cup {d}

First(d) == d \in round.left /\ \A e \in round.left : d <= e

(* No vector yet: the document is passed over.                                *)
PassOver(d) ==
  /\ round.pc = "assign" /\ First(d) /\ d \notin vector
  /\ round' = [round EXCEPT !.left = @ \ {d}]
  /\ UNCHANGED <<family, there, vector, members, crashes>>

Assign(d, c) ==
  /\ round.pc = "assign" /\ First(d) /\ d \in vector /\ c \in Fits(d)
  /\ members' = [members EXCEPT ![c] = Enlarged(c, d)]
  /\ round' = [round EXCEPT !.left = @ \ {d}, !.assigned = @ \cup {<<d, c>>}]
  /\ UNCHANGED <<family, there, vector, crashes>>

NoMatch(d) ==
  /\ round.pc = "assign" /\ First(d) /\ d \in vector /\ Fits(d) = {}
  /\ round' = [round EXCEPT !.left = @ \ {d}, !.alone = @ \cup {d}]
  /\ UNCHANGED <<family, there, vector, members, crashes>>

Assigned ==
  /\ round.pc = "assign" /\ round.left = {} /\ round' = [round EXCEPT !.pc = "form"]
  /\ UNCHANGED <<family, there, vector, members, crashes>>

(* build_clusters: those that are alike, if they are enough; a cluster gets a *)
(* fresh identifier and a commit of its own.                                 *)
Alike(f) == { d \in round.alone : family[d] = f }

Form(f, c) ==
  /\ round.pc = "form" /\ Cardinality(Alike(f)) >= MinSize /\ members[c] = {}
  /\ members' = [members EXCEPT ![c] = Alike(f)]
  /\ round' = [round EXCEPT !.alone = @ \ Alike(f)]
  /\ UNCHANGED <<family, there, vector, crashes>>

End ==
  /\ round.pc = "form" /\ \A f \in Families : Cardinality(Alike(f)) < MinSize
  /\ round' = NoRound
  /\ UNCHANGED <<family, there, vector, members, crashes>>

Crash ==
  /\ round.pc # "off" /\ crashes < MaxStops /\ crashes' = crashes + 1 /\ round' = NoRound
  /\ UNCHANGED <<family, there, vector, members>>

Next ==
  \/ Begin
  \/ Assigned
  \/ End
  \/ Crash
  \/ \E d \in Docs : Ingest(d) \/ Vectorise(d) \/ PassOver(d) \/ NoMatch(d)
  \/ \E d \in Docs, c \in Clusters : Assign(d, c)
  \/ \E f \in Families, c \in Clusters : Form(f, c)

Spec == Init /\ [][Next]_bvars

(* ---- properties ---- *)

(* Types: members are documents of the corpus.                                *)
TypeOK ==
  /\ family \in [Docs -> Families] /\ vector \subseteq there /\ there \subseteq Docs
  /\ \A c \in Clusters : members[c] \subseteq vector
  /\ round.left \cup round.alone \subseteq Docs

(* A cluster is of documents that are alike, never of one document alone       *)
(* ("singletons are excluded"), and no document has two topics, although a    *)
(* pass works on clusters as they were when it began and may die anywhere.    *)
ClustersAreSound ==
  \A c \in Clusters : members[c] # {} =>
    /\ Cardinality(members[c]) >= MinSize
    /\ \A d, e \in members[c] : family[d] = family[e]
    /\ \A o \in Clusters \ {c} : members[o] \cap members[c] = {}

(* A document reported as assigned is a member of its cluster ("se asigna      *)
(* (mismo cluster_id, membresia actualizada)"). It need not be: the next      *)
(* document of the same pass is added to the record as it was at the start.   *)
AssignedIsMember == \A a \in round.assigned : a[1] \in members[a[2]]
=============================================================================
