----------------------------- MODULE MCPromotion -----------------------------
(* Two documents, the first with two chunks, so that a document can be half   *)
(* vectorised and a batch can hold a document that is not ready.              *)
EXTENDS Promotion

MCDocOf == [c \in Chunks |-> IF c \in {"a1", "a2"} THEN "a" ELSE "b"]
=============================================================================
