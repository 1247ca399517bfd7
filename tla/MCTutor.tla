------------------------------- MODULE MCTutor -------------------------------
(* Instances of Tutor for TLC.  Sessions differ only in their names; the      *)
(* symmetry is used where no liveness is checked.                            *)
EXTENDS Tutor, TLC

Symmetry == Permutations(Sessions)
=============================================================================
