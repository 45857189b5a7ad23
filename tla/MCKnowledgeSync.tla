-------------------------- MODULE MCKnowledgeSync --------------------------
(* Small instances of KnowledgeSync. *)
EXTENDS KnowledgeSync, TLC

CONSTANTS a, b, c1, c2, w1, w2

Uploads == {c1, c2}
TwoDocuments == {a, b}
InTheDirectory == {a}
TwoConfigs == {1, 2}
OtherDimension == [c \in {1, 2} |-> c]
TwoWorkers == {w1, w2}

Symmetry == Permutations(TwoWorkers) \cup Permutations(Uploads)
=============================================================================
