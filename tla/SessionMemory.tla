--------------------------- MODULE SessionMemory ----------------------------
(***************************************************************************)
(* Conversations on the server: SessionManager of src/src/memory/session.py*)
(* and the part of POST /api/query that names a session, refuses a         *)
(* duplicate, reads the context and adds the turn (src/src/api/gateway.py).*)
(* The rest of the pipeline is QueryStream and SingleStep; here it is the  *)
(* stream of events the client will be sent.                               *)
(***************************************************************************)
EXTENDS Naturals, Sequences, FiniteSets

CONSTANTS MaxQueries,  \* bound: the queries sent
          MaxSessions, \* bound: the identifiers given out
          Same,        \* the queries that have one text
          MaxTurns,    \* _MAX_TURNS
          ContextTurns \* the turns a query gets as its context

ASSUME MemoryAssumption ==
    /\ MaxQueries \in Nat /\ MaxSessions \in Nat
    /\ MaxTurns \in Nat \ {0} /\ ContextTurns \in 0..MaxTurns

\* Both are numbered in the order they appear; None is no query, or no session.
Queries == 1..MaxQueries
Sessions == 1..MaxSessions
None == 0

VARIABLES turns,   \* the turns stored for each session
          known,   \* how many session identifiers were given out
          server,  \* each query at the gateway
          wiped,   \* history: sessions that lost turns other than by their number
          newest   \* history: the last query of each session whose turn was stored

memory == <<turns, known, server, wiped, newest>>

\* Status events and the informational note after a result change nothing here.
Streams == {<<"result", "done">>, <<"confirm", "done">>, <<"error", "done">>}

NotThere == [at |-> "away", sid |-> None, context |-> <<>>, stream |-> <<>>]

MemoryInit ==
    /\ turns = [s \in Sessions |-> <<>>]
    /\ known = 0
    /\ server = [q \in Queries |-> NotThere]
    /\ wiped = {}
    /\ newest = [s \in Sessions |-> None]

\* create_session: a uuid never given out before.
Fresh(s) == s = known + 1 /\ s \in Sessions /\ known' = s

\* The dedup key of a query is released when its stream is over, and kept when
\* the client left at the wrong moment (QueryStream, run gateway_key_leak).
Duplicate(q, s) ==
    \E p \in Queries \ {q} : /\ {p, q} \subseteq Same
                             /\ server[p].at \notin {"away", "refused"}
                             /\ server[p].sid = s

Arrive(q, s, accepted) ==
    /\ server[q].at = "away"
    /\ accepted \/ Duplicate(q, s)
    /\ server' = [server EXCEPT ![q].at = IF accepted THEN "accepted" ELSE "refused",
                                ![q].sid = s]
    /\ UNCHANGED <<turns, wiped, newest>>

\* seq[-n:]
Last(seq, n) == SubSeq(seq, IF Len(seq) > n THEN Len(seq) - n + 1 ELSE 1, Len(seq))

\* get_context and its last turns; when Redis cannot be reached there is none.
ReadContext(q) ==
    LET recent == Last(turns[server[q].sid], ContextTurns)
    IN /\ server[q].at = "accepted"
       /\ \E ctx \in {recent, <<>>} :
            /\ server' = [server EXCEPT ![q].at = "running", ![q].context = ctx]
            /\ wiped' = IF ctx = recent THEN wiped ELSE wiped \cup {server[q].sid}
       /\ UNCHANGED <<turns, known, newest>>

\* Mutant: the oldest turns are kept.
KeepFirst(seq) == IF Len(seq) > MaxTurns THEN SubSeq(seq, 1, MaxTurns) ELSE seq

\* turns[-_MAX_TURNS:]
KeepLast(seq) == Last(seq, MaxTurns)

AddTurn(s, q) ==
    /\ turns' = [turns EXCEPT ![s] = KeepLast(Append(@, q))]
    /\ newest' = [newest EXCEPT ![s] = q]
    /\ UNCHANGED wiped

\* The turn is stored without a word when Redis cannot be reached.
LoseTurn(s) == wiped' = wiped \cup {s} /\ UNCHANGED <<turns, newest>>

\* Mutant: a query that failed is not remembered.
AnswerForgetful(q) ==
    /\ server[q].at \in {"accepted", "running"}
    /\ \E stream \in Streams :
         /\ server[q].at = "accepted" => stream = <<"error", "done">>
         /\ server' = [server EXCEPT ![q].at = "answered", ![q].context = <<>>,
                                     ![q].stream = stream]
         /\ IF stream = <<"error", "done">> THEN UNCHANGED <<turns, newest, wiped>>
            ELSE AddTurn(server[q].sid, q)
    /\ UNCHANGED known

\* The finally of _run_pipeline: the turn is stored, then "done" is emitted.  A
\* pipeline that fails before it has read the context ends in an error.
Answer(q) ==
    /\ server[q].at \in {"accepted", "running"}
    /\ \E stream \in Streams :
         /\ server[q].at = "accepted" => stream = <<"error", "done">>
         /\ server' = [server EXCEPT ![q].at = "answered", ![q].context = <<>>,
                                     ![q].stream = stream]
    /\ AddTurn(server[q].sid, q) \/ LoseTurn(server[q].sid)
    /\ UNCHANGED known

\* end_session, or the end of the time to live.
Forget(s) ==
    /\ turns' = [turns EXCEPT ![s] = <<>>]
    /\ wiped' = wiped \cup {s}
    /\ newest' = [newest EXCEPT ![s] = None]
    /\ UNCHANGED <<known, server>>

ServerStates == {"away", "accepted", "refused", "running", "answered"}

MemoryTypeOK ==
    /\ turns \in [Sessions -> Seq(Queries)]
    /\ known \in 0..MaxSessions
    /\ server \in [Queries -> [at: ServerStates, sid: Sessions \cup {None},
                               context: Seq(Queries), stream: Streams \cup {<<>>}]]
    /\ wiped \subseteq Sessions
    /\ newest \in [Sessions -> Queries \cup {None}]

\* A session's turns are its own queries, each once, and the query answered last
\* is among them however many came before (add_turn reads the list, cuts it to
\* _MAX_TURNS and writes it back).
TurnsAreRecent ==
    \A s \in Sessions :
        /\ \A i \in DOMAIN turns[s] : server[turns[s][i]].sid = s
        /\ \A i, j \in DOMAIN turns[s] : turns[s][i] = turns[s][j] => i = j
        /\ newest[s] # None => /\ turns[s] # <<>>
                                 /\ turns[s][Len(turns[s])] = newest[s]

(***************************************************************************)
(* The inductive invariant                                                 *)
(***************************************************************************)
\* Query q is among the turns of session s.
Stored(q, s) == \E i \in DOMAIN turns[s] : turns[s][i] = q

\* The turns are of answered queries, and an answered query is among them until
\* its session is full or has lost turns.
MemoryAgrees ==
    /\ \A q \in Queries : /\ server[q].at # "away" => server[q].sid \in Sessions
                          /\ server[q].stream # <<>> => server[q].at = "answered"
    /\ \A s \in Sessions : Len(turns[s]) <= MaxTurns
    /\ \A s \in Sessions : \A i \in DOMAIN turns[s] : server[turns[s][i]].at = "answered"
    /\ \A q \in Queries : server[q].at = "answered" =>
          LET s == server[q].sid
          IN s \in wiped \/ Stored(q, s) \/ Len(turns[s]) = MaxTurns

MemoryInv == MemoryTypeOK /\ MemoryAgrees /\ TurnsAreRecent
=============================================================================
