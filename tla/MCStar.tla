-------------------------------- MODULE MCStar --------------------------------
EXTENDS StarModel, TLC

CONSTANTS c1, r1, o1, o2, o3, o4

ChatSet     == {c1}
ReviewerSet == {r1}

\* One object more than the references that can be held while one is created.
ProviderSet == {o1, o2, o3, o4}
Symmetry    == Permutations(ProviderSet)

\* What an object nobody refers to was is of no consequence.
Referred == ({star} \cup {mine[t] : t \in Threads}) \ {NoModel}
View == <<star, lock, busy, raised, vram, mine, pc,
          [o \in Referred |-> <<engine[o], o \in ready, o \in owned, o \in bare>>]>>
=============================================================================
