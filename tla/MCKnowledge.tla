---------------------------- MODULE MCKnowledge -----------------------------
(* Two sources and two handlers, so that activations overlap each other and *)
(* deletions; two refreshes, so that one overlaps or follows the other; two *)
(* columns of two tables joined by one key, and a description too long for  *)
(* the vector store.                                                        *)
EXTENDS Knowledge, TLC

MCTableOf == [c \in Columns |-> IF c = "a" THEN "T" ELSE "U"]
MCInitialText == [c \in Columns |-> IF c = "a" THEN "short" ELSE "none"]
MCKeys == {<<"a", "b">>}
Symmetry == Permutations(Handlers) \cup Permutations(Refreshes)
=============================================================================
