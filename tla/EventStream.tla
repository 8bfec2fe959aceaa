----------------------------- MODULE EventStream -----------------------------
(***************************************************************************)
(* What POST /api/query promises its callers, independent of how the       *)
(* gateway produces it: at most one unfinished run per (session, text)     *)
(* key, and for every admitted request one ordered stream of events that   *)
(* is delivered without loss, duplication or reordering, and that ends     *)
(* normally only after the run has finished and all of it was delivered.   *)
(* A client may be lost at any moment; what it got is then a prefix.       *)
(***************************************************************************)
EXTENDS Naturals, Sequences

CONSTANTS Query,      \* requests
          KeyOf,      \* KeyOf[q]: the dedup key of a request
          Closings    \* the event sequences that may conclude a run

VARIABLES state,      \* state[q]: the client's side of the exchange
          work,       \* work[q]: the run behind the request
          sent,       \* sent[q]: every event the run has produced so far
          got         \* got[q]: the events handed to the client

absVars == <<state, work, sent, got>>

Init ==
    /\ state = [q \in Query |-> "idle"]
    /\ work = [q \in Query |-> "none"]
    /\ sent = [q \in Query |-> << >>]
    /\ got = [q \in Query |-> << >>]

\* A request is admitted only while no run of the same key is unfinished.
Admit(q) ==
    /\ state[q] = "idle"
    /\ \A p \in Query : KeyOf[p] = KeyOf[q] => work[p] # "unfinished"
    /\ state' = [state EXCEPT ![q] = "open"]
    /\ work' = [work EXCEPT ![q] = "unfinished"]
    /\ UNCHANGED <<sent, got>>

Refuse(q) ==
    /\ state[q] = "idle"
    /\ state' = [state EXCEPT ![q] = "refused"]
    /\ UNCHANGED <<work, sent, got>>

\* The greeting is produced and handed over in one step.
Greet(q) ==
    /\ state[q] = "open"
    /\ sent[q] = << >>
    /\ sent' = [sent EXCEPT ![q] = <<"starting">>]
    /\ got' = [got EXCEPT ![q] = <<"starting">>]
    /\ UNCHANGED <<state, work>>

Progress(q) ==
    /\ work[q] = "unfinished"
    /\ sent[q] # << >>
    /\ sent' = [sent EXCEPT ![q] = Append(@, "progress")]
    /\ UNCHANGED <<state, work, got>>

Conclude(q) ==
    /\ work[q] = "unfinished"
    /\ sent[q] # << >>
    /\ \E c \in Closings : sent' = [sent EXCEPT ![q] = @ \o c]
    /\ work' = [work EXCEPT ![q] = "finished"]
    /\ UNCHANGED <<state, got>>

\* The next event in production order reaches the client.
Deliver(q) ==
    /\ state[q] = "open"
    /\ Len(got[q]) < Len(sent[q])
    /\ got' = [got EXCEPT ![q] = Append(@, sent[q][Len(@) + 1])]
    /\ UNCHANGED <<state, work, sent>>

End(q) ==
    /\ state[q] = "open"
    /\ work[q] = "finished"
    /\ got[q] = sent[q]
    /\ state' = [state EXCEPT ![q] = "ended"]
    /\ UNCHANGED <<work, sent, got>>

Lose(q) ==
    /\ state[q] = "open"
    /\ state' = [state EXCEPT ![q] = "lost"]
    /\ UNCHANGED <<work, sent, got>>

Next ==
    \E q \in Query :
        \/ Admit(q) \/ Refuse(q) \/ Greet(q) \/ Progress(q)
        \/ Conclude(q) \/ Deliver(q) \/ End(q) \/ Lose(q)

Spec == Init /\ [][Next]_absVars
=============================================================================
