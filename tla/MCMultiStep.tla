---------------------------- MODULE MCMultiStep -----------------------------
(* Every plan of up to four tasks, with and without a dependency the plan   *)
(* does not hold: all cycles, diamonds and chains of that size.             *)
EXTENDS MultiStep
=============================================================================
