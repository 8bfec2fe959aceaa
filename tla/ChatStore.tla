----------------------------- MODULE ChatStore ------------------------------
(***************************************************************************)
(* The chat store of src/frontend/stores/chat.ts against the conversations *)
(* of SessionMemory.  Every action of the store is synchronous up to its   *)
(* first await and from one await to the next; what the user does, what    *)
(* the server answers and what other actions resume come in between.       *)
(*                                                                         *)
(* abort() rejects what the aborted query awaits at once, so the query's   *)
(* catch runs when the code that aborted it has reached its first await:   *)
(* the two are one step, in that order.                                    *)
(***************************************************************************)
EXTENDS SessionMemory

CONSTANT MaxCalls  \* bound: the requests other than queries
Calls == 1..MaxCalls

VARIABLES sessionId, messages, queryState,
          controller, \* the query whose _abortController the store holds, or None
          client,     \* each sendQuery
          calls,      \* each other action that awaits the server
          awaited,    \* history: what the last "running" is waiting for
          late,       \* history: the loads the session on show changed under
          overtaken   \* history: the turns on show are those of such a load

store == <<sessionId, messages, queryState, controller>>
history == <<late, overtaken>>
vars == <<memory, store, client, calls, awaited, history>>

Unsent == [at |-> "unsent", sid |-> None, read |-> 0, knew |-> {}]
NoCall == [at |-> "free", kind |-> "none", sid |-> None, query |-> None, turns |-> <<>>]

Live(q) == client[q].at \in {"sent", "reading"}
Message(q, shows) == [query |-> q, shows |-> shows]

\* The messages once the one of query q shows something else.
Shown(q, shows) ==
    [i \in DOMAIN messages |->
       IF messages[i].query = q /\ messages[i].shows # "turn" THEN Message(q, shows) ELSE messages[i]]

Init ==
    /\ MemoryInit
    /\ sessionId = None /\ messages = <<>> /\ queryState = "idle" /\ controller = None
    /\ client = [q \in Queries |-> Unsent]
    /\ calls = [c \in Calls |-> NoCall]
    /\ awaited = "query"
    /\ late = {} /\ overtaken = FALSE

\* Mutant: the catch leaves the controller as it is.
RestIdle == queryState' = "idle" /\ controller' = controller

\* The catch of an aborted query, after the handler that aborted it.
Rest == queryState' = "idle" /\ controller' = None

\* What the client has of the query it aborts, if it holds one.
Aborted == [q \in Queries |-> IF q = controller THEN [client[q] EXCEPT !.at = "aborted", !.read = 0]
                              ELSE client[q]]

\* The queries of session s the user has seen the end of.
Seen(s) == {q \in Queries : client[q].at = "done" /\ server[q].sid = s}

(***************************************************************************)
(* sendQuery                                                               *)
(***************************************************************************)
Send(q) ==
    /\ client[q].at = "unsent" /\ \A p \in 1..q - 1 : client[p].at # "unsent"
    /\ queryState # "running"
    /\ messages' = Append(messages, Message(q, "thinking"))
    /\ IF controller = None
         THEN queryState' = "running" /\ controller' = q
         ELSE Rest
    /\ client' = [Aborted EXCEPT ![q] = [at |-> "sent", sid |-> sessionId, read |-> 0,
                                         knew |-> Seen(sessionId)]]
    /\ awaited' = "query"
    /\ UNCHANGED <<memory, sessionId, calls, history>>

\* The gateway gets the request, perhaps after the client has left.
Receive(q) ==
    /\ client[q].at # "unsent"
    /\ IF client[q].sid = None
         THEN \E s \in Sessions : Fresh(s) /\ Arrive(q, s, TRUE)
         ELSE (\E accepted \in BOOLEAN : Arrive(q, client[q].sid, accepted)) /\ UNCHANGED known
    /\ UNCHANGED <<store, client, calls, awaited, history>>

\* Mutant: the store stays as it is.
RefusedSilently(q) ==
    /\ client[q].at = "sent" /\ server[q].at = "refused"
    /\ client' = [client EXCEPT ![q].at = "refused"]
    /\ UNCHANGED <<memory, store, calls, awaited, history>>

\* 409: the store forgets the query and leaves its message as it is.
Refused(q) ==
    /\ client[q].at = "sent" /\ server[q].at = "refused"
    /\ client' = [client EXCEPT ![q].at = "refused"]
    /\ Rest
    /\ UNCHANGED <<memory, sessionId, messages, calls, awaited, history>>

Respond(q) ==
    /\ client[q].at = "sent" /\ server[q].at \in {"accepted", "running", "answered"}
    /\ client' = [client EXCEPT ![q].at = "reading"]
    /\ sessionId' = IF sessionId = None /\ client[q].sid = None THEN server[q].sid ELSE sessionId
    /\ UNCHANGED <<memory, messages, queryState, controller, calls, awaited, history>>

\* handleEvent
Handle(q, event) ==
    CASE event = "result" -> messages' = Shown(q, "result") /\ UNCHANGED <<queryState, controller>>
      [] event = "confirm" ->
           messages' = Shown(q, "confirm") /\ queryState' = "await_confirm" /\ UNCHANGED controller
      [] event = "error" -> messages' = Shown(q, "error") /\ queryState' = "idle" /\ UNCHANGED controller
      [] event = "done" -> Rest /\ UNCHANGED messages

\* The gateway ends no stream before "done" (CloseStream of QueryStream), so the
\* loop's other exit, a stream that is closed without it, is never taken.
Read(q) ==
    LET n == client[q].read + 1
    IN /\ client[q].at = "reading" /\ n <= Len(server[q].stream)
       /\ Handle(q, server[q].stream[n])
       /\ client' = [client EXCEPT ![q] = IF server[q].stream[n] = "done"
                                          THEN [@ EXCEPT !.at = "done", !.read = 0]
                                          ELSE [@ EXCEPT !.read = n]]
       /\ UNCHANGED <<memory, sessionId, calls, awaited, history>>

\* A status other than 2xx, a dropped connection, or 120 seconds of silence.
Fail(q) ==
    /\ Live(q)
    /\ client' = [client EXCEPT ![q].at = "failed", ![q].read = 0]
    /\ messages' = Shown(q, "error")
    /\ Rest
    /\ UNCHANGED <<memory, sessionId, calls, awaited, history>>

Cancel ==
    /\ controller # None
    /\ client' = Aborted
    /\ Rest
    /\ UNCHANGED <<memory, sessionId, messages, calls, awaited, history>>

(***************************************************************************)
(* The other actions.  Each asks the server and goes on when it answers.   *)
(***************************************************************************)
Ask(c, kind, s, q) ==
    /\ calls[c].at = "free" /\ \A d \in 1..c - 1 : calls[d].at # "free"
    /\ calls' = [calls EXCEPT ![c] = [at |-> "asked", kind |-> kind, sid |-> s, query |-> q, turns |-> <<>>]]

Pending(c, kind, stage) == calls[c].kind = kind /\ calls[c].at = stage
Over(c) == calls' = [calls EXCEPT ![c] = [NoCall EXCEPT !.at = "over"]]
Answered(c) == calls' = [calls EXCEPT ![c].at = "answered"]

\* The answers still to come of earlier switches are no longer of the session on
\* show, which has no messages yet.
Loading == {c \in Calls : calls[c].kind = "load" /\ calls[c].at \in {"asked", "answered"}}
Overtake == late' = late \cup Loading /\ overtaken' = FALSE

\* A card is answered from the message, whatever the store's state.
Confirm(c, q) ==
    /\ \E i \in DOMAIN messages : messages[i] = Message(q, "confirm")
    /\ Ask(c, "confirm", None, q)
    /\ queryState' = "running"
    /\ awaited' = "confirm"
    /\ UNCHANGED <<memory, sessionId, messages, controller, client, history>>

\* Nothing follows a confirmation: the store stays "running".
Confirmed(c) ==
    /\ Pending(c, "confirm", "asked")
    /\ Over(c)
    /\ \/ messages' = Shown(calls[c].query, "confirmed") /\ UNCHANGED queryState
       \/ queryState' = "await_confirm" /\ UNCHANGED messages
    /\ UNCHANGED <<memory, sessionId, controller, client, awaited, history>>

CancelConfirm(q) ==
    /\ \E i \in DOMAIN messages : messages[i] = Message(q, "confirm")
    /\ messages' = Shown(q, "cancelled")
    /\ queryState' = "idle"
    /\ UNCHANGED <<memory, sessionId, controller, client, calls, awaited, history>>

\* Mutant: the messages of the session that was left stay until the new ones come.
SwitchKeeping(c, s) ==
    /\ s <= known
    /\ Ask(c, "load", s, None)
    /\ client' = Aborted
    /\ sessionId' = s /\ UNCHANGED messages /\ Rest
    /\ Overtake
    /\ UNCHANGED <<memory, awaited>>

Switch(c, s) ==
    /\ s <= known
    /\ Ask(c, "load", s, None)
    /\ client' = Aborted
    /\ sessionId' = s /\ messages' = <<>> /\ Rest
    /\ Overtake
    /\ UNCHANGED <<memory, awaited>>

LoadAnswered(c) ==
    /\ Pending(c, "load", "asked")
    /\ calls' = [calls EXCEPT ![c].at = "answered", ![c].turns = turns[calls[c].sid]]
    /\ UNCHANGED <<memory, store, client, awaited, history>>

\* The turns replace whatever is shown by then.
LoadShown(c) ==
    /\ Pending(c, "load", "answered")
    /\ Over(c)
    /\ messages' = [i \in DOMAIN calls[c].turns |-> Message(calls[c].turns[i], "turn")]
    /\ overtaken' = (c \in late)
    /\ UNCHANGED <<memory, sessionId, queryState, controller, client, awaited, late>>

\* createSession and deleteConversation abort first and ask then; the catch of
\* the aborted query has run by the time the server answers.
AbortAndAsk(c, kind, s) ==
    /\ Ask(c, kind, s, None)
    /\ client' = Aborted
    /\ IF controller = None THEN UNCHANGED <<queryState, controller>> ELSE Rest
    /\ UNCHANGED <<memory, sessionId, messages, awaited, history>>

New(c) == AbortAndAsk(c, "new", None)
Delete(c, s) == s <= known /\ AbortAndAsk(c, "delete", s)

\* A query sent since then is dropped from the store, but not aborted.
Created(c) ==
    /\ Pending(c, "new", "asked")
    /\ Over(c)
    /\ \E s \in Sessions : Fresh(s) /\ sessionId' = s
    /\ messages' = <<>> /\ Rest
    /\ Overtake
    /\ UNCHANGED <<turns, server, wiped, newest, client, awaited>>

DeletedThere(c) ==
    /\ Pending(c, "delete", "asked")
    /\ Answered(c)
    /\ Forget(calls[c].sid)
    /\ UNCHANGED <<store, client, awaited, history>>

DeletedHere(c) ==
    /\ Pending(c, "delete", "answered")
    /\ Over(c)
    /\ IF sessionId = calls[c].sid
         THEN sessionId' = None /\ messages' = <<>> /\ Overtake
         ELSE UNCHANGED <<sessionId, messages, history>>
    /\ UNCHANGED <<memory, queryState, controller, client, awaited>>

\* The request fails before or after the server has acted on it.
CallFails(c) ==
    /\ calls[c].kind \in {"load", "new", "delete"} /\ calls[c].at \in {"asked", "answered"}
    /\ Over(c)
    /\ UNCHANGED <<memory, store, client, awaited, history>>

ServerStep(q) ==
    /\ ReadContext(q) \/ Answer(q)
    /\ UNCHANGED <<store, client, calls, awaited, history>>

Expire(s) ==
    /\ turns[s] # <<>>
    /\ Forget(s)
    /\ UNCHANGED <<store, client, calls, awaited, history>>

QueryStep(q) == Receive(q) \/ ServerStep(q) \/ Refused(q) \/ Respond(q) \/ Read(q)

Next ==
    \/ \E q \in Queries : Send(q) \/ QueryStep(q) \/ Fail(q) \/ CancelConfirm(q)
    \/ \E c \in Calls :
         \/ \E q \in Queries : Confirm(c, q)
         \/ \E s \in Sessions : Switch(c, s) \/ Delete(c, s)
         \/ New(c)
         \/ Confirmed(c) \/ LoadAnswered(c) \/ LoadShown(c)
         \/ Created(c) \/ DeletedThere(c) \/ DeletedHere(c) \/ CallFails(c)
    \/ Cancel
    \/ \E s \in Sessions : Expire(s)

\* The pipeline ends (every prompt and statement has a timeout of its own), and
\* what the server sends arrives or the connection fails.  The user, the other
\* actions and the time to live owe nothing.
Spec == Init /\ [][Next]_vars /\ \A q \in Queries : WF_vars(QueryStep(q))

(***************************************************************************)
(* Properties                                                              *)
(***************************************************************************)
Shows == {"thinking", "result", "confirm", "error", "confirmed", "cancelled", "turn"}

TypeOK ==
    /\ MemoryTypeOK
    /\ sessionId \in Sessions \cup {None}
    /\ messages \in Seq([query: Queries, shows: Shows])
    /\ queryState \in {"idle", "running", "await_confirm"}
    /\ controller \in Queries \cup {None}
    /\ client \in [Queries -> [at: {"unsent", "sent", "reading", "done", "failed", "aborted", "refused"},
                               sid: Sessions \cup {None}, read: 0..2, knew: SUBSET Queries]]
    /\ calls \in [Calls -> [at: {"free", "asked", "answered", "over"},
                            kind: {"none", "confirm", "load", "new", "delete"},
                            sid: Sessions \cup {None}, query: Queries \cup {None},
                            turns: Seq(Queries)]]
    /\ awaited \in {"query", "confirm"}
    /\ late \subseteq Calls /\ overtaken \in BOOLEAN

\* The store is "running" only while a query it can still abort is under way, or
\* after a confirmation; what the cancel button aborts is never over already
\* (sendQuery, its catch and the actions that abort it all set both fields).
StateHasACause ==
    /\ controller # None => Live(controller)
    /\ queryState = "running" => controller # None \/ awaited = "confirm"

\* Session s was begun by a query sent without a session.
Begun(s) == \E q \in Queries : /\ client[q].sid = None
                               /\ server[q].at # "away" /\ server[q].sid = s

\* A message sent in a session is on show in that session only.  One sent without
\* a session is on show in none, or in one a query sent without a session began:
\* its own, unless two such queries were under way and the store took the session
\* of the other.  A stored turn is on show in its session only, unless the session
\* on show had changed between the request for it and its answer (switchSession
\* shows the messages of whichever session it had asked for, and sendQuery takes
\* the first session identifier that comes).
HistoryOwn ==
    \A i \in DOMAIN messages :
        LET q == messages[i].query
        IN IF messages[i].shows = "turn"
             THEN overtaken \/ server[q].sid = sessionId
             ELSE client[q].sid # sessionId => client[q].sid = None /\ Begun(sessionId)

\* The context of a query holds every turn of its conversation the user had seen
\* the end of when sending it, up to the limit, unless the conversation lost
\* turns: "done" is emitted after the turn is stored (_run_pipeline's finally).
ContextComplete ==
    \A q \in Queries : server[q].at = "running" =>
        \/ client[q].knew \subseteq {server[q].context[i] : i \in DOMAIN server[q].context}
        \/ Len(server[q].context) = ContextTurns
        \/ server[q].sid \in wiped

(***************************************************************************)
(* The inductive invariant                                                 *)
(***************************************************************************)
Answers(q, s) == server[q].at = "answered" /\ server[q].sid = s

\* A query is sent before it arrives, arrives where it was sent, is over after it
\* was answered; and what its user knew when sending it had been answered there.
ClientAgrees ==
    \A q \in Queries :
        /\ client[q].at = "unsent" => server[q].at = "away" /\ client[q].knew = {}
        /\ client[q].at = "done" => server[q].at = "answered"
        /\ server[q].at # "away" => client[q].sid \in {None, server[q].sid}
        /\ \A p \in client[q].knew : Answers(p, client[q].sid)

\* A switch or a deletion names a session, a confirmation a query, what a switch
\* is about to show is its session's, and that is the one on show until another
\* session is.
CallsAgree ==
    \A c \in Calls :
        /\ calls[c].kind \in {"load", "delete"} => calls[c].sid \in Sessions
        /\ calls[c].kind = "confirm" => calls[c].query \in Queries
        /\ Pending(c, "load", "answered") =>
             \A i \in DOMAIN calls[c].turns : Answers(calls[c].turns[i], calls[c].sid)
        /\ c \in Loading \ late => calls[c].sid = sessionId

\* A message is of a query that was sent, and a turn of one that was answered.
MessagesAgree ==
    \A i \in DOMAIN messages :
        IF messages[i].shows = "turn" THEN server[messages[i].query].at = "answered"
                                      ELSE client[messages[i].query].at # "unsent"

ChatInv ==
    /\ MemoryInv /\ TypeOK /\ ClientAgrees /\ CallsAgree /\ MessagesAgree
    /\ StateHasACause /\ HistoryOwn /\ ContextComplete

\* A query that is waited for ends, and the user can send the next one.
Settles == queryState = "running" /\ awaited = "query" ~> queryState # "running" \/ awaited = "confirm"
=============================================================================
