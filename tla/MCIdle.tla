------------------------------- MODULE MCIdle -------------------------------
(* Three tasks of tier 1 on two threads, two of them with the same three     *)
(* resources, and one of tier 2; a scraped and a research document.          *)
EXTENDS IdleCycle
MCTier1 == {"topify", "promotion"}
MCTier2 == {"deep"}
MCNeeds == [t \in MCTier1 \cup MCTier2 |->
              CASE t \in {"topify", "promotion"} -> {1, 2}
                [] t = "deep" -> {1, 2, 3}]
MCDocs == {"page", "paper"}
MCResearch == {"paper"}
=============================================================================
