------------------------------- MODULE Custody -------------------------------
(***************************************************************************)
(* What promotion promises about one document, without saying how: a       *)
(* document arrives in a staging corpus (or is found to be in main         *)
(* already), gets a second copy in main, and the staging copy is given up  *)
(* only when main can answer for the document: it is live there and every  *)
(* one of its chunks has a vector.  A document never moves backwards and   *)
(* is never held by nobody.                                                *)
(***************************************************************************)
CONSTANT Docs

VARIABLES
  where,      \* who holds the document
  covered     \* documents all of whose chunks have a vector in main

vars == <<where, covered>>

Place == {"nowhere", "staging", "both", "main"}

TypeOK == /\ where \in [Docs -> Place]
          /\ covered \subseteq Docs

Init == /\ where = [d \in Docs |-> "nowhere"]
        /\ covered \subseteq Docs

Move(D, from, to) ==
  /\ D # {}
  /\ \A d \in D : where[d] = from
  /\ where' = [d \in Docs |-> IF d \in D THEN to ELSE where[d]]

Arrive(d) == /\ \/ Move({d}, "nowhere", "staging")
                \/ Move({d}, "nowhere", "both")
             /\ UNCHANGED covered

Copy(D) == Move(D, "staging", "both") /\ UNCHANGED covered

Cover == covered \subseteq covered' /\ covered' \subseteq Docs /\ UNCHANGED where

\* The only destructive step.
Release(D) == /\ D \subseteq covered
              /\ Move(D, "both", "main")
              /\ UNCHANGED covered

Next == \/ \E d \in Docs : Arrive(d)
        \/ \E D \in SUBSET Docs : Copy(D) \/ Release(D)
        \/ Cover

Spec == Init /\ [][Next]_vars
=============================================================================
