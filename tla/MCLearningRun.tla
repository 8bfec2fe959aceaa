--------------------------- MODULE MCLearningRun ---------------------------
(* Two overlapping runs over two tables, with one permit and one call each. *)
EXTENDS LearningRun, TLC

CONSTANTS r1, r2, t1, t2,
          noted,    \* a column with a comment and a splittable name
          named,    \* a splittable name
          odd, code \* neither

TwoTables == noted :> t1 @@ odd :> t1 @@ named :> t2 @@ code :> t2
=============================================================================
