---------------------------- MODULE MCQueryStream ----------------------------
(***************************************************************************)
(* Three POSTs of one question: the requests that contend for one dedup    *)
(* key.  Requests with different keys share no state but the key set, so   *)
(* a second key would only multiply the states.                            *)
(***************************************************************************)
EXTENDS QueryStream

CONSTANTS q1, q2, q3, k1

MCQuery == {q1, q2, q3}
MCKey == {k1}
MCKeyOf == [q \in MCQuery |-> k1]
=============================================================================
