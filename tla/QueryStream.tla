----------------------------- MODULE QueryStream -----------------------------
(***************************************************************************)
(* POST /api/query of src/src/api/gateway.py.  A request is admitted under *)
(* a dedup key, a background task (_run_pipeline) appends events to a      *)
(* deque and sets an asyncio.Event, and the response generator drains the  *)
(* deque to the client.  asyncio is cooperative: one action below is the   *)
(* code between two suspension points.  The generator is suspended at a    *)
(* `yield` ("yielding", "pausing" after a keep-alive) or in wait_for       *)
(* ("waiting"); the server may destroy it at any suspension, and before it *)
(* was first resumed ("admitted").                                         *)
(***************************************************************************)
EXTENDS Naturals, Sequences

CONSTANTS Query,        \* requests a client may POST, one query id each
          Key,          \* (session id, stripped text) pairs
          KeyOf,        \* KeyOf[q]: the pair request q carries
          MaxProgress   \* bound on the progress events of one pipeline

ASSUME KeyAssumption == KeyOf \in [Query -> Key]
ASSUME ProgressAssumption == MaxProgress \in Nat

VARIABLES pc,              \* pc[q]: where the request handler / generator is
          activeQueries,   \* _active_queries
          queryStatus,     \* _query_store[qid]["status"], "absent" before
          pipe,            \* _run_pipeline; "exited" iff _pipeline_done is set
          buf,             \* _buf
          bufReady,        \* _buf_ready
          emitted,         \* history: every event appended to _buf
          received         \* history: every event yielded to the client

vars == <<pc, activeQueries, queryStatus, pipe, buf, bufReady, emitted, received>>

Suspended == {"yielding", "pausing", "waiting"}
Live == Suspended \union {"admitted"}
PC == Live \union {"idle", "rejected", "closed", "dropped"}
Event == {"starting", "progress", "result", "summary", "need_confirm", "error", "done"}

----------------------------------------------------------------------------
(* How run_single_step's result dict, or an exception, is announced.       *)

\* "answered": a result; "answered_unsure": a result and confirm items;
\* "unsure": confirm items only; "failed": an error; "raised": an exception.
Outcome == {"answered", "answered_unsure", "unsure", "failed", "raised"}

Announcement(o) ==
    CASE o = "answered"        -> <<"result", "summary">>
      [] o = "answered_unsure" -> <<"result", "summary", "need_confirm">>
      [] o = "unsure"          -> <<"need_confirm">>
      [] o \in {"failed", "raised"} -> <<"error">>

\* Mutant: the have_error branch announces the error and leaves "done" behind.
StatusNotCorrected(o) == IF o = "raised" THEN "error" ELSE "done"

StatusAfter(o) == IF o \in {"failed", "raised"} THEN "error" ELSE "done"

Closing(o) == Append(Announcement(o), "done")
Closings == {Closing(o) : o \in Outcome}

----------------------------------------------------------------------------
Init ==
    /\ pc = [q \in Query |-> "idle"]
    /\ activeQueries = {}
    /\ queryStatus = [q \in Query |-> "absent"]
    /\ pipe = [q \in Query |-> "none"]
    /\ buf = [q \in Query |-> << >>]
    /\ bufReady = [q \in Query |-> FALSE]
    /\ emitted = [q \in Query |-> << >>]
    /\ received = [q \in Query |-> << >>]

\* The handler up to StreamingResponse: there is no await between the test of
\* the key and its insertion.
AcceptQuery(q) ==
    /\ pc[q] = "idle"
    /\ KeyOf[q] \notin activeQueries
    /\ activeQueries' = activeQueries \union {KeyOf[q]}
    /\ queryStatus' = [queryStatus EXCEPT ![q] = "running"]
    /\ pc' = [pc EXCEPT ![q] = "admitted"]
    /\ UNCHANGED <<pipe, buf, bufReady, emitted, received>>

\* HTTP 409 "duplicate query in progress".
RejectDuplicate(q) ==
    /\ pc[q] = "idle"
    /\ KeyOf[q] \in activeQueries
    /\ pc' = [pc EXCEPT ![q] = "rejected"]
    /\ UNCHANGED <<activeQueries, queryStatus, pipe, buf, bufReady, emitted, received>>

\* First resumption of generate(): queue the greeting, start the pipeline task
\* and yield the greeting.  The event it set stays set.
OpenStream(q) ==
    /\ pc[q] = "admitted"
    /\ emitted' = [emitted EXCEPT ![q] = <<"starting">>]
    /\ received' = [received EXCEPT ![q] = <<"starting">>]
    /\ bufReady' = [bufReady EXCEPT ![q] = TRUE]
    /\ pipe' = [pipe EXCEPT ![q] = "running"]
    /\ pc' = [pc EXCEPT ![q] = "yielding"]
    /\ UNCHANGED <<activeQueries, queryStatus, buf>>

----------------------------------------------------------------------------
(* The producer: _run_pipeline.                                            *)

\* Mutant: the deque is filled without signalling the event.
EmitUnsignalled(q, events) ==
    /\ buf' = [buf EXCEPT ![q] = @ \o events]
    /\ emitted' = [emitted EXCEPT ![q] = @ \o events]
    /\ UNCHANGED bufReady

Emit(q, events) ==
    /\ buf' = [buf EXCEPT ![q] = @ \o events]
    /\ emitted' = [emitted EXCEPT ![q] = @ \o events]
    /\ bufReady' = [bufReady EXCEPT ![q] = TRUE]

ReportProgress(q) ==
    /\ pipe[q] = "running"
    /\ Len(emitted[q]) <= MaxProgress
    /\ Emit(q, <<"progress">>)
    /\ UNCHANGED <<pc, activeQueries, queryStatus, pipe, received>>

\* From the end of run_single_step (or from an exception) to the end of the
\* task nothing is awaited: status, announcement and "done" are one step.
FinishPipeline(q, o) ==
    /\ pipe[q] = "running"
    /\ queryStatus' = [queryStatus EXCEPT ![q] = StatusAfter(o)]
    /\ Emit(q, Closing(o))
    /\ pipe' = [pipe EXCEPT ![q] = "exited"]
    /\ UNCHANGED <<pc, activeQueries, received>>

----------------------------------------------------------------------------
(* The consumer: the generator's loop, from its top to the next suspension. *)

\* Mutant: pop() where popleft() is meant.
YieldNewest(q) ==
    /\ buf[q] # << >>
    /\ received' = [received EXCEPT ![q] = Append(@, buf[q][Len(buf[q])])]
    /\ buf' = [buf EXCEPT ![q] = SubSeq(@, 1, Len(@) - 1)]
    /\ pc' = [pc EXCEPT ![q] = "yielding"]
    /\ UNCHANGED activeQueries

YieldNext(q) ==
    /\ buf[q] # << >>
    /\ received' = [received EXCEPT ![q] = Append(@, Head(buf[q]))]
    /\ buf' = [buf EXCEPT ![q] = Tail(@)]
    /\ pc' = [pc EXCEPT ![q] = "yielding"]
    /\ UNCHANGED activeQueries

\* Mutant: _pipeline_done is tested before the deque is drained.
CloseStreamEarly(q) ==
    /\ pipe[q] = "exited"
    /\ activeQueries' = activeQueries \ {KeyOf[q]}
    /\ pc' = [pc EXCEPT ![q] = "closed"]
    /\ UNCHANGED <<buf, received>>

\* The loop ends, the finished task is awaited without suspending, and the
\* finally block releases the key.
CloseStream(q) ==
    /\ buf[q] = << >>
    /\ pipe[q] = "exited"
    /\ activeQueries' = activeQueries \ {KeyOf[q]}
    /\ pc' = [pc EXCEPT ![q] = "closed"]
    /\ UNCHANGED <<buf, received>>

Block(q) ==
    /\ buf[q] = << >>
    /\ pipe[q] # "exited"
    /\ pc' = [pc EXCEPT ![q] = "waiting"]
    /\ UNCHANGED <<activeQueries, buf, received>>

\* Mutant: the loop never tests _pipeline_done.
LoopTopForever(q) ==
    \/ YieldNext(q)
    \/ /\ buf[q] = << >>
       /\ pc' = [pc EXCEPT ![q] = "waiting"]
       /\ UNCHANGED <<activeQueries, buf, received>>

LoopTop(q) == YieldNext(q) \/ CloseStream(q) \/ Block(q)

\* The client took what was yielded; after a keep-alive the `continue` skips
\* _buf_ready.clear().
Resume(q) ==
    /\ pc[q] \in {"yielding", "pausing"}
    /\ LoopTop(q)
    /\ UNCHANGED <<queryStatus, pipe, bufReady, emitted>>

WakeUp(q) ==
    /\ pc[q] = "waiting"
    /\ bufReady[q]
    /\ bufReady' = [bufReady EXCEPT ![q] = FALSE]
    /\ LoopTop(q)
    /\ UNCHANGED <<queryStatus, pipe, emitted>>

\* wait_for timed out: a keep-alive comment is yielded.  The timeout may win
\* the race against an event set in the same iteration of the event loop.
KeepAlive(q) ==
    /\ pc[q] = "waiting"
    /\ pc' = [pc EXCEPT ![q] = "pausing"]
    /\ UNCHANGED <<activeQueries, queryStatus, pipe, buf, bufReady, emitted, received>>

\* Mutant: the generator releases the key whenever it is destroyed.
DisconnectReleasing(q) ==
    /\ pc[q] \in Live
    /\ pc' = [pc EXCEPT ![q] = "dropped"]
    /\ activeQueries' = activeQueries \ {KeyOf[q]}
    /\ UNCHANGED <<queryStatus, pipe, buf, bufReady, emitted, received>>

\* Mutant: losing the client cancels the pipeline task.
DisconnectCancelling(q) ==
    /\ pc[q] \in Live
    /\ pc' = [pc EXCEPT ![q] = "dropped"]
    /\ pipe' = [pipe EXCEPT ![q] = "none"]
    /\ UNCHANGED <<activeQueries, queryStatus, buf, bufReady, emitted, received>>

\* The client is gone: the server cancels or closes the suspended generator.
\* No suspension point is inside the try/finally that releases the key, and
\* the pipeline task is not cancelled.
Disconnect(q) ==
    /\ pc[q] \in Live
    /\ pc' = [pc EXCEPT ![q] = "dropped"]
    /\ UNCHANGED <<activeQueries, queryStatus, pipe, buf, bufReady, emitted, received>>

Next ==
    \E q \in Query :
        \/ AcceptQuery(q)
        \/ RejectDuplicate(q)
        \/ OpenStream(q)
        \/ ReportProgress(q)
        \/ \E o \in Outcome : FinishPipeline(q, o)
        \/ Resume(q)
        \/ WakeUp(q)
        \/ KeepAlive(q)
        \/ Disconnect(q)

Spec == Init /\ [][Next]_vars


\* What asyncio and the server guarantee while the process lives: a ready task
\* is resumed, a timer expires, an iterated response is started; and the
\* services run_single_step awaits answer or fail, so a pipeline finishes.
\* Nothing makes a client disconnect, retry or POST at all.
Fairness ==
    \A q \in Query :
        /\ WF_vars(OpenStream(q))
        /\ WF_vars(Resume(q))
        /\ WF_vars(WakeUp(q) \/ KeepAlive(q))
        /\ WF_vars(\E o \in Outcome : FinishPipeline(q, o))

FairSpec == Spec /\ Fairness

----------------------------------------------------------------------------
TypeOK ==
    /\ pc \in [Query -> PC]
    /\ activeQueries \in SUBSET Key
    /\ queryStatus \in [Query -> {"absent", "running", "done", "error"}]
    /\ pipe \in [Query -> {"none", "running", "exited"}]
    /\ buf \in [Query -> Seq(Event)]
    /\ bufReady \in [Query -> BOOLEAN]
    /\ emitted \in [Query -> Seq(Event)]
    /\ received \in [Query -> Seq(Event)]

\* Whatever the generator has popped and whatever is still queued is, in this
\* order, exactly what the pipeline emitted: no event of generate() is lost,
\* duplicated or reordered, wherever the generator and the task interleave.
EventsInOrder ==
    \A q \in Query : emitted[q] = received[q] \o buf[q]

\* A generator waiting in wait_for with events queued has been signalled: the
\* drain / is_set / wait / clear order of the loop never sleeps on a full deque
\* until the keep-alive timeout.
NoLostWakeup ==
    \A q \in Query :
        (pc[q] = "waiting" /\ buf[q] # << >>) => bufReady[q]

\* A stream that ends normally was delivered whole, with the closing events of
\* its outcome, the query detail is settled and its dedup key is free or held
\* by a later request.
CleanClose ==
    \A q \in Query : pc[q] = "closed" =>
        /\ received[q] = emitted[q]
        /\ \E c \in Closings :
              /\ Len(c) < Len(received[q])
              /\ SubSeq(received[q], Len(received[q]) - Len(c) + 1, Len(received[q])) = c
        /\ queryStatus[q] \in {"done", "error"}
        /\ KeyOf[q] \in activeQueries =>
              \E p \in Query \ {q} : KeyOf[p] = KeyOf[q] /\ pc[p] \in Live \union {"dropped"}

\* What GET /api/query/{id} says agrees with what the client was told: the
\* status is "error" exactly when an error event was emitted, and it stays
\* "running" exactly until "done" is emitted.
StatusMatchesStream ==
    \A q \in Query : queryStatus[q] # "absent" =>
        /\ queryStatus[q] = "error" <=> \E i \in DOMAIN emitted[q] : emitted[q][i] = "error"
        /\ queryStatus[q] = "running" <=> \A i \in DOMAIN emitted[q] : emitted[q][i] # "done"

\* At most one unfinished run per (session, text): a re-POST never starts a
\* second pipeline for the same question, even after the first client is lost.
OneRunPerKey ==
    \A p, q \in Query :
        (queryStatus[p] = "running" /\ queryStatus[q] = "running" /\ KeyOf[p] = KeyOf[q])
            => p = q

\* The parts of the inductive invariant behind the properties above.
\* How the handler, the task and the stored status advance together.
Lifecycle ==
    \A q \in Query :
        /\ pc[q] \in {"idle", "rejected"} => queryStatus[q] = "absent"
        /\ pc[q] \in PC \ {"idle", "rejected"} => queryStatus[q] # "absent"
        /\ pc[q] \in {"idle", "rejected", "admitted"} => pipe[q] = "none"
        /\ pc[q] \in Suspended \union {"closed"} => pipe[q] # "none"
        /\ pc[q] = "closed" => pipe[q] = "exited" /\ buf[q] = << >>
        /\ queryStatus[q] = "absent" => pipe[q] = "none"
        /\ queryStatus[q] \in {"done", "error"} <=> pipe[q] = "exited"
        /\ pipe[q] = "none" <=> emitted[q] = << >>
        /\ pipe[q] = "none" => received[q] = << >> /\ buf[q] = << >>

\* es is some heartbeats followed by the closing events of outcome o.
Concluded(es, o) ==
    LET n == Len(es) - Len(Closing(o))
    IN  /\ n > 0
        /\ SubSeq(es, n + 1, Len(es)) = Closing(o)
        /\ \A i \in 1..n : es[i] \in {"starting", "progress"}

\* What has been emitted before and after the pipeline concluded.
Emissions ==
    \A q \in Query :
        /\ pipe[q] # "exited" =>
              \A i \in 1..Len(emitted[q]) : emitted[q][i] \in {"starting", "progress"}
        /\ pipe[q] = "exited" =>
              \E o \in Outcome : Concluded(emitted[q], o) /\ queryStatus[q] = StatusAfter(o)

\* Who a held key is held for.
Engaged(q) == queryStatus[q] = "running" \/ pc[q] \in Live

KeyOwnership ==
    /\ \A q \in Query : Engaged(q) => KeyOf[q] \in activeQueries
    /\ \A p, q \in Query : Engaged(p) /\ Engaged(q) /\ KeyOf[p] = KeyOf[q] => p = q
    /\ \A k \in activeQueries :
          \E p \in Query : KeyOf[p] = k /\ pc[p] \in Live \union {"dropped"}

StreamInv ==
    TypeOK /\ EventsInOrder /\ NoLostWakeup /\ Lifecycle /\ Emissions /\ KeyOwnership

\* After "done" a pipeline adds no event and its stored status never changes.
ConclusionIsFinal ==
    [][\A q \in Query : pipe[q] = "exited" =>
          /\ pipe'[q] = "exited"
          /\ emitted'[q] = emitted[q]
          /\ queryStatus'[q] = queryStatus[q]]_vars

\* The events a stream has still to yield, and the rounds of the loop for them.
RoundsLeft(q) ==
    3 * Len(buf[q]) + (IF pc[q] = "waiting" THEN 2 ELSE IF pc[q] \in Suspended THEN 1 ELSE 0)

\* Once its pipeline has finished a stream only drains: whatever keep-alives,
\* late signals and other requests come in between, each of its steps brings it
\* nearer to its close.
DrainsOut ==
    [][\A q \in Query : pipe[q] = "exited" =>
          \/ UNCHANGED <<pc[q], buf[q], bufReady[q], received[q]>>
          \/ RoundsLeft(q)' < RoundsLeft(q) /\ RoundsLeft(q)' \in Nat]_vars

\* The gateway seen as an EventStream.
AbsState ==
    [q \in Query |-> CASE pc[q] \in Live -> "open"
                       [] pc[q] = "idle" -> "idle"
                       [] pc[q] = "rejected" -> "refused"
                       [] pc[q] = "closed" -> "ended"
                       [] pc[q] = "dropped" -> "lost"]

AbsWork ==
    [q \in Query |-> CASE queryStatus[q] = "absent" -> "none"
                       [] queryStatus[q] = "running" -> "unfinished"
                       [] queryStatus[q] \in {"done", "error"} -> "finished"]

AbsSent == [q \in Query |-> received[q] \o buf[q]]

Stream == INSTANCE EventStream WITH
    state <- AbsState, work <- AbsWork, sent <- AbsSent, got <- received

\* The handler, the pipeline task and the generator together implement the
\* stream every caller of POST /api/query relies on: admission by key, and
\* in-order, loss-free delivery up to the closing events.
ImplementsEventStream == Stream!Spec

\* Every admitted request ends: its stream is closed, or its client was lost.
\* In particular keep-alives never go on forever.
StreamEnds ==
    \A q \in Query : (pc[q] = "admitted") ~> (pc[q] \in {"closed", "dropped"})

\* A run whose client was lost mid-stream still settles, so that the answer
\* can be fetched with GET /api/query/{id}.
RunOutlivesClient ==
    \A q \in Query :
        (pc[q] = "dropped" /\ received[q] # << >>) ~> (queryStatus[q] \in {"done", "error"})

\* "Always release the dedup lock - even if the client disconnected
\* mid-stream": once the run of a lost stream has settled, its key is held for
\* a later request or not at all.
KeyReleasedOnDisconnect ==
    \A q \in Query :
        (/\ pc[q] = "dropped"
         /\ queryStatus[q] \in {"done", "error"}
         /\ KeyOf[q] \in activeQueries)
            => \E p \in Query : KeyOf[p] = KeyOf[q] /\ pc[p] \in Live
=============================================================================
