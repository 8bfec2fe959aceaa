---------------------------- MODULE MCSingleStep ----------------------------
(* SingleStep with the default budget of five prompts and up to six matched *)
(* columns: enough for the columns to exhaust the budget before the         *)
(* statement, after it, and between the two statements.                     *)
EXTENDS SingleStep
=============================================================================
