--------------------------- MODULE MCMetadataTasks ---------------------------
(***************************************************************************)
(* Three jobs of one data source: two that hold or leave behind locks and  *)
(* one that meets them.                                                    *)
(***************************************************************************)
EXTENDS MetadataTasks, TLC

CONSTANTS j1, j2, j3, t1

MCJob == {j1, j2, j3}
MCTable == {t1}

JobSymmetry == Permutations(MCJob)
=============================================================================
