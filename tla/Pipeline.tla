------------------------------ MODULE Pipeline ------------------------------
(***************************************************************************)
(* What the gateway expects of the pipeline it runs for a question, which  *)
(* is all that QueryStream knows of it: it tells of phases, each at most   *)
(* once and in one order, sends the data source one statement at most, and *)
(* that only when the phase that vets it has been told, and concludes      *)
(* once, with an outcome that fits what it told and sent.  Of a concluded  *)
(* question nothing more is heard.                                         *)
(***************************************************************************)
EXTENDS Naturals, Sequences

CONSTANT Rank       \* Rank[p]: the place of phase p in the order

VARIABLES told,     \* the phases the client was told
          sent,     \* the statement the data source was sent
          outcome   \* how the question was concluded

vars == <<told, sent, outcome>>

\* The outcomes the gateway can announce (QueryStream), but for an exception.
Outcome == {"answered", "answered_unsure", "unsure", "failed"}
Heard(phase) == \E i \in 1..Len(told) : told[i] = phase
InOrder == \A i, j \in 1..Len(told) : i < j => Rank[told[i]] < Rank[told[j]]

Init == told = <<>> /\ sent = "none" /\ outcome = "pending"

\* Rows were announced exactly if there is an answer; what is only unsure has
\* no statement; and an answer is one of the data source.
Fits ==
    /\ outcome # "pending" => (Heard("execute") <=> outcome \in {"answered", "answered_unsure"})
    /\ outcome = "unsure" => ~Heard("sql") /\ sent = "none"
    /\ Heard("execute") => sent # "none"

Tell ==
    \/ UNCHANGED told
    \/ \E p \in DOMAIN Rank : told' = Append(told, p)
    \/ \E p, q \in DOMAIN Rank : told' = told \o <<p, q>>

Send == Heard("security") /\ sent = "none" /\ sent' # "none"

Conclude == outcome' \in Outcome

Next ==
    /\ outcome = "pending"
    /\ Tell /\ InOrder'
    /\ Send \/ UNCHANGED sent
    /\ Conclude \/ UNCHANGED outcome
    /\ Fits'

Spec == Init /\ [][Next]_vars
=============================================================================
