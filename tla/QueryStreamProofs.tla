-------------------------- MODULE QueryStreamProofs --------------------------
(***************************************************************************)
(* Proofs about QueryStream, for any set of requests, keys and any number  *)
(* of progress events: the inductive invariant StreamInv, the safety       *)
(* properties it implies, and the refinement of EventStream.               *)
(***************************************************************************)
EXTENDS QueryStream, SequenceTheorems, TLAPS

\* Moving the head of the deque to the end of what was received keeps their
\* concatenation: the popleft / yield pair of the generator.
LEMMA PopKeepsOrder ==
    ASSUME NEW S, NEW r \in Seq(S), NEW b \in Seq(S), b # << >>
    PROVE  /\ Append(r, Head(b)) \in Seq(S)
           /\ Tail(b) \in Seq(S)
           /\ Append(r, Head(b)) \o Tail(b) = r \o b
  <1>1. Head(b) \in S /\ Tail(b) \in Seq(S)
    BY HeadTailProperties
  <1>2. Append(r, Head(b)) = r \o <<Head(b)>>
    BY <1>1, AppendIsConcat
  <1>3. <<Head(b)>> \in Seq(S) /\ <<Head(b)>> \o Tail(b) = b
    BY <1>1
  <1>4. (r \o <<Head(b)>>) \o Tail(b) = r \o (<<Head(b)>> \o Tail(b))
    BY <1>1, <1>3, ConcatAssociative
  <1>5. QED
    BY <1>1, <1>2, <1>3, <1>4, AppendProperties

\* The two sequence facts at the type of events.
LEMMA EventConcat ==
    \A r, b, c \in Seq(Event) : (r \o b) \o c = r \o (b \o c)
  BY ConcatAssociative

LEMMA EventPop ==
    \A r, b \in Seq(Event) :
        b # << >> => /\ Append(r, Head(b)) \in Seq(Event)
                     /\ Tail(b) \in Seq(Event)
                     /\ Append(r, Head(b)) \o Tail(b) = r \o b
  BY PopKeepsOrder

LEMMA EventHeadAt ==
    \A r, b \in Seq(Event) :
        b # << >> => Len(r) < Len(r \o b) /\ (r \o b)[Len(r) + 1] = Head(b)
  <1> SUFFICES ASSUME NEW r \in Seq(Event), NEW b \in Seq(Event), b # << >>
               PROVE  Len(r) < Len(r \o b) /\ (r \o b)[Len(r) + 1] = Head(b)
    OBVIOUS
  <1>1. Len(r) \in Nat /\ Len(b) \in Nat \ {0} /\ Head(b) = b[1]
    BY EmptySeq
  <1>2. /\ Len(r \o b) = Len(r) + Len(b)
        /\ \A i \in 1..Len(r) + Len(b) :
              (r \o b)[i] = IF i <= Len(r) THEN r[i] ELSE b[i - Len(r)]
    BY ConcatProperties
  <1>3. /\ Len(r) + 1 \in 1..Len(r) + Len(b)
        /\ ~(Len(r) + 1 <= Len(r))
        /\ (Len(r) + 1) - Len(r) = 1
    BY <1>1
  <1>4. QED
    BY <1>1, <1>2, <1>3

\* Every closing sequence consists of events and is not empty.
LEMMA ClosingType ==
    ASSUME NEW o \in Outcome
    PROVE  /\ Closing(o) \in Seq(Event)
           /\ Len(Closing(o)) \in Nat /\ Len(Closing(o)) > 0
           /\ Closing(o)[Len(Closing(o))] = "done"
           /\ StatusAfter(o) \in {"done", "error"}
  <1>1. CASE o = "answered"
    BY <1>1 DEF Closing, Announcement, Event, StatusAfter
  <1>2. CASE o = "answered_unsure"
    BY <1>2 DEF Closing, Announcement, Event, StatusAfter
  <1>3. CASE o = "unsure"
    BY <1>3 DEF Closing, Announcement, Event, StatusAfter
  <1>4. CASE o = "failed"
    BY <1>4 DEF Closing, Announcement, Event, StatusAfter
  <1>5. CASE o = "raised"
    BY <1>5 DEF Closing, Announcement, Event, StatusAfter
  <1>6. QED
    BY <1>1, <1>2, <1>3, <1>4, <1>5 DEF Outcome

----------------------------------------------------------------------------
LEMMA InitType == Init => TypeOK
  BY EmptySeq DEF Init, TypeOK, PC, Live, Suspended, Event

LEMMA NextType == TypeOK /\ [Next]_vars => TypeOK'
  <1> SUFFICES ASSUME TypeOK, [Next]_vars PROVE TypeOK'
    OBVIOUS
  <1> USE DEF TypeOK, PC, Live, Suspended
  <1> USE KeyAssumption
  <1>0. CASE UNCHANGED vars
    BY <1>0 DEF vars
  <1>1. ASSUME NEW q \in Query, AcceptQuery(q) PROVE TypeOK'
    BY <1>1 DEF AcceptQuery
  <1>2. ASSUME NEW q \in Query, RejectDuplicate(q) PROVE TypeOK'
    BY <1>2 DEF RejectDuplicate
  <1>3. ASSUME NEW q \in Query, OpenStream(q) PROVE TypeOK'
    <2>1. <<"starting">> \in Seq(Event)
      BY DEF Event
    <2>2. QED
      BY <1>3, <2>1 DEF OpenStream
  <1>4. ASSUME NEW q \in Query, ReportProgress(q) PROVE TypeOK'
    <2>1. <<"progress">> \in Seq(Event)
      BY DEF Event
    <2>2. /\ buf[q] \o <<"progress">> \in Seq(Event)
          /\ emitted[q] \o <<"progress">> \in Seq(Event)
      BY <2>1, ConcatProperties
    <2>3. QED
      BY <1>4, <2>2 DEF ReportProgress, Emit
  <1>5. ASSUME NEW q \in Query, NEW o \in Outcome, FinishPipeline(q, o) PROVE TypeOK'
    <2>1. /\ buf[q] \o Closing(o) \in Seq(Event)
          /\ emitted[q] \o Closing(o) \in Seq(Event)
      BY ClosingType, ConcatProperties
    <2>2. QED
      BY <1>5, <2>1, ClosingType DEF FinishPipeline, Emit
  <1>6. ASSUME NEW q \in Query, LoopTop(q), UNCHANGED <<queryStatus, pipe, emitted>>,
               bufReady' \in [Query -> BOOLEAN]
        PROVE  TypeOK'
    <2>1. CASE YieldNext(q)
      BY <1>6, <2>1, EventPop DEF YieldNext
    <2>2. CASE CloseStream(q)
      BY <1>6, <2>2 DEF CloseStream
    <2>3. CASE Block(q)
      BY <1>6, <2>3 DEF Block
    <2>4. QED
      BY <1>6, <2>1, <2>2, <2>3 DEF LoopTop
  <1>7. ASSUME NEW q \in Query, Resume(q) PROVE TypeOK'
    BY <1>6, <1>7 DEF Resume
  <1>8. ASSUME NEW q \in Query, WakeUp(q) PROVE TypeOK'
    BY <1>6, <1>8 DEF WakeUp
  <1>9. ASSUME NEW q \in Query, KeepAlive(q) PROVE TypeOK'
    BY <1>9 DEF KeepAlive
  <1>10. ASSUME NEW q \in Query, Disconnect(q) PROVE TypeOK'
    BY <1>10 DEF Disconnect
  <1>11. QED
    BY <1>0, <1>1, <1>2, <1>3, <1>4, <1>5, <1>7, <1>8, <1>9, <1>10 DEF Next

\* Type correctness of the gateway model.
THEOREM TypeCorrect == Spec => []TypeOK
  BY InitType, NextType, PTL DEF Spec

----------------------------------------------------------------------------
LEMMA NextOrder == TypeOK /\ EventsInOrder /\ Lifecycle /\ [Next]_vars => EventsInOrder'
  <1> SUFFICES ASSUME TypeOK, EventsInOrder, Lifecycle, [Next]_vars,
                      NEW p \in Query
               PROVE  emitted'[p] = received'[p] \o buf'[p]
    BY DEF EventsInOrder
  <1>0. /\ emitted[p] = received[p] \o buf[p]
        /\ emitted[p] \in Seq(Event) /\ received[p] \in Seq(Event) /\ buf[p] \in Seq(Event)
    BY DEF EventsInOrder, TypeOK
  <1>1. CASE UNCHANGED <<emitted, received, buf>>
    BY <1>0, <1>1
  <1>2. ASSUME NEW q \in Query, OpenStream(q) PROVE emitted'[p] = received'[p] \o buf'[p]
    <2>1. CASE p = q
      <3>1. emitted'[p] = <<"starting">> /\ received'[p] = <<"starting">> /\ buf'[p] = << >>
        BY <1>2, <2>1 DEF OpenStream, TypeOK, Lifecycle
      <3>2. <<"starting">> \in Seq(Event)
        BY DEF Event
      <3>3. QED
        BY <3>1, <3>2, ConcatEmptySeq
    <2>2. QED
      BY <1>0, <1>2, <2>1 DEF OpenStream, TypeOK
  <1>3. ASSUME NEW q \in Query, NEW es \in Seq(Event), Emit(q, es), UNCHANGED received
        PROVE  emitted'[p] = received'[p] \o buf'[p]
    <2>1. CASE p = q
      <3>1. /\ emitted'[p] = emitted[p] \o es
            /\ buf'[p] = buf[p] \o es
            /\ received'[p] = received[p]
        BY <1>3, <2>1 DEF Emit, TypeOK
      <3>2. (received[p] \o buf[p]) \o es = received[p] \o (buf[p] \o es)
        BY <1>0, EventConcat
      <3>3. QED
        BY <1>0, <3>1, <3>2
    <2>2. QED
      BY <1>0, <1>3, <2>1 DEF Emit, TypeOK
  <1>4. ASSUME NEW q \in Query, ReportProgress(q) PROVE emitted'[p] = received'[p] \o buf'[p]
    <2>1. <<"progress">> \in Seq(Event)
      BY DEF Event
    <2>2. QED
      BY <1>3, <1>4, <2>1 DEF ReportProgress
  <1>5. ASSUME NEW q \in Query, NEW o \in Outcome, FinishPipeline(q, o)
        PROVE  emitted'[p] = received'[p] \o buf'[p]
    BY <1>3, <1>5, ClosingType DEF FinishPipeline
  <1>6. ASSUME NEW q \in Query, YieldNext(q), UNCHANGED emitted
        PROVE  emitted'[p] = received'[p] \o buf'[p]
    <2>1. CASE p = q
      <3>1. /\ received'[p] = Append(received[p], Head(buf[p]))
            /\ buf'[p] = Tail(buf[p])
            /\ buf[p] # << >>
        BY <1>6, <2>1 DEF YieldNext, TypeOK
      <3>2. QED
        BY <1>0, <1>6, <3>1, EventPop
    <2>2. QED
      BY <1>0, <1>6, <2>1 DEF YieldNext, TypeOK
  <1>7. ASSUME NEW q \in Query, LoopTop(q), UNCHANGED emitted
        PROVE  emitted'[p] = received'[p] \o buf'[p]
    BY <1>1, <1>6, <1>7 DEF LoopTop, CloseStream, Block
  <1>8. QED
    BY <1>1, <1>2, <1>4, <1>5, <1>7
    DEF Next, vars, AcceptQuery, RejectDuplicate, Resume, WakeUp, KeepAlive, Disconnect

LEMMA NextWakeup == TypeOK /\ NoLostWakeup /\ Lifecycle /\ [Next]_vars => NoLostWakeup'
  <1> SUFFICES ASSUME TypeOK, NoLostWakeup, Lifecycle, [Next]_vars, NEW p \in Query,
                      pc'[p] = "waiting", buf'[p] # << >>
               PROVE  bufReady'[p]
    BY DEF NoLostWakeup
  <1>0. (pc[p] = "waiting" /\ buf[p] # << >>) => bufReady[p]
    BY DEF NoLostWakeup
  <1>1. CASE UNCHANGED vars
    BY <1>0, <1>1 DEF vars
  <1>2. ASSUME NEW q \in Query,
               \/ AcceptQuery(q) \/ RejectDuplicate(q) \/ OpenStream(q)
               \/ KeepAlive(q) \/ Disconnect(q)
        PROVE  bufReady'[p]
    BY <1>0, <1>2
    DEF TypeOK, AcceptQuery, RejectDuplicate, OpenStream, KeepAlive, Disconnect
  <1>3. ASSUME NEW q \in Query, NEW es, Emit(q, es), UNCHANGED pc
        PROVE  bufReady'[p]
    BY <1>0, <1>3 DEF TypeOK, Emit
  <1>4. ASSUME NEW q \in Query, Resume(q) \/ WakeUp(q)
        PROVE  bufReady'[p]
    BY <1>0, <1>4 DEF TypeOK, Resume, WakeUp, LoopTop, YieldNext, CloseStream, Block
  <1>5. QED
    BY <1>1, <1>2, <1>3, <1>4 DEF Next, ReportProgress, FinishPipeline

LEMMA NextLifecycle == TypeOK /\ EventsInOrder /\ Lifecycle /\ [Next]_vars => Lifecycle'
  <1> SUFFICES ASSUME TypeOK, EventsInOrder, Lifecycle, [Next]_vars PROVE Lifecycle'
    OBVIOUS
  <1> USE DEF PC, Live, Suspended
  <1>0. CASE UNCHANGED vars
    BY <1>0 DEF vars, Lifecycle
  <1>1. ASSUME NEW q \in Query, AcceptQuery(q) PROVE Lifecycle'
    BY <1>1 DEF AcceptQuery, Lifecycle, TypeOK
  <1>2. ASSUME NEW q \in Query, RejectDuplicate(q) PROVE Lifecycle'
    BY <1>2 DEF RejectDuplicate, Lifecycle, TypeOK
  <1>3. ASSUME NEW q \in Query, OpenStream(q) PROVE Lifecycle'
    BY <1>3 DEF OpenStream, Lifecycle, TypeOK
  <1>4. ASSUME NEW q \in Query, ReportProgress(q) PROVE Lifecycle'
    <2>1. emitted[q] \o <<"progress">> # << >>
      <3>1. <<"progress">> \in Seq(Event) /\ <<"progress">> # << >>
        BY DEF Event
      <3>2. QED
        BY <3>1, ConcatEqualIffEmpty DEF TypeOK
    <2>2. QED
      BY <1>4, <2>1 DEF ReportProgress, Emit, Lifecycle, TypeOK
  <1>5. ASSUME NEW q \in Query, NEW o \in Outcome, FinishPipeline(q, o) PROVE Lifecycle'
    <2>1. emitted[q] \o Closing(o) # << >>
      <3>1. Closing(o) \in Seq(Event) /\ Closing(o) # << >>
        BY ClosingType
      <3>2. QED
        BY <3>1, ConcatEqualIffEmpty DEF TypeOK
    <2>2. QED
      BY <1>5, <2>1, ClosingType DEF FinishPipeline, Emit, Lifecycle, TypeOK
  <1>6. ASSUME NEW q \in Query, LoopTop(q), UNCHANGED <<queryStatus, pipe, emitted>>,
               pc[q] \in Suspended
        PROVE  Lifecycle'
    <2>1. CASE YieldNext(q)
      BY <1>6, <2>1 DEF YieldNext, Lifecycle, TypeOK
    <2>2. CASE CloseStream(q)
      BY <1>6, <2>2 DEF CloseStream, Lifecycle, TypeOK
    <2>3. CASE Block(q)
      BY <1>6, <2>3 DEF Block, Lifecycle, TypeOK
    <2>4. QED
      BY <1>6, <2>1, <2>2, <2>3 DEF LoopTop
  <1>7. ASSUME NEW q \in Query, Resume(q) \/ WakeUp(q) PROVE Lifecycle'
    BY <1>6, <1>7 DEF Resume, WakeUp
  <1>8. ASSUME NEW q \in Query, KeepAlive(q) \/ Disconnect(q) PROVE Lifecycle'
    BY <1>8 DEF KeepAlive, Disconnect, Lifecycle, TypeOK
  <1>9. QED
    BY <1>0, <1>1, <1>2, <1>3, <1>4, <1>5, <1>7, <1>8 DEF Next

----------------------------------------------------------------------------
\* An outcome's closing events hold "error" exactly when it stores "error".
LEMMA ClosingErrors ==
    ASSUME NEW o \in Outcome
    PROVE  (\E i \in 1..Len(Closing(o)) : Closing(o)[i] = "error")
              <=> StatusAfter(o) = "error"
  <1> DEFINE c == Closing(o)
  <1>1. CASE o = "answered"
    <2>1. /\ Len(c) = 3 /\ c[1] = "result" /\ c[2] = "summary" /\ c[3] = "done"
          /\ StatusAfter(o) = "done"
      BY <1>1 DEF Closing, Announcement, StatusAfter
    <2>2. QED
      BY <2>1, \A i \in 1..3 : i = 1 \/ i = 2 \/ i = 3
  <1>2. CASE o = "answered_unsure"
    <2>1. /\ Len(c) = 4
          /\ c[1] = "result" /\ c[2] = "summary" /\ c[3] = "need_confirm" /\ c[4] = "done"
          /\ StatusAfter(o) = "done"
      BY <1>2 DEF Closing, Announcement, StatusAfter
    <2>2. QED
      BY <2>1, \A i \in 1..4 : i = 1 \/ i = 2 \/ i = 3 \/ i = 4
  <1>3. CASE o = "unsure"
    <2>1. /\ Len(c) = 2 /\ c[1] = "need_confirm" /\ c[2] = "done"
          /\ StatusAfter(o) = "done"
      BY <1>3 DEF Closing, Announcement, StatusAfter
    <2>2. QED
      BY <2>1, \A i \in 1..2 : i = 1 \/ i = 2
  <1>4. CASE o = "failed" \/ o = "raised"
    <2>1. /\ Len(c) = 2 /\ c[1] = "error"
          /\ StatusAfter(o) = "error"
      BY <1>4 DEF Closing, Announcement, StatusAfter
    <2>2. QED
      BY <2>1
  <1>5. QED
    BY <1>1, <1>2, <1>3, <1>4 DEF Outcome

\* Appending the closing events to non-empty heartbeats concludes the stream.
LEMMA ConcludeStream ==
    ASSUME NEW es \in Seq(Event), es # << >>, NEW o \in Outcome,
           \A i \in 1..Len(es) : es[i] \in {"starting", "progress"}
    PROVE  Concluded(es \o Closing(o), o)
  <1> DEFINE c == Closing(o)
  <1> DEFINE all == es \o c
  <1>1. c \in Seq(Event) /\ Len(c) \in Nat /\ Len(c) > 0
    BY ClosingType
  <1>2. /\ all \in Seq(Event)
        /\ Len(all) = Len(es) + Len(c)
        /\ \A i \in 1..Len(es) + Len(c) :
              all[i] = IF i <= Len(es) THEN es[i] ELSE c[i - Len(es)]
    BY <1>1, ConcatProperties
  <1>3. Len(es) \in Nat \ {0}
    BY EmptySeq
  <1> HIDE DEF c, all
  <1>4. Len(all) - Len(c) = Len(es)
    BY <1>1, <1>2, <1>3
  <1>5. SubSeq(all, Len(es) + 1, Len(all)) = c
    <2>1. \A i \in Len(es) + 1 .. Len(all) : all[i] \in Event
      BY <1>2, <1>3, ElementOfSeq
    <2>2. /\ SubSeq(all, Len(es) + 1, Len(all)) \in Seq(Event)
          /\ Len(SubSeq(all, Len(es) + 1, Len(all))) = Len(c)
          /\ \A i \in 1..Len(c) : SubSeq(all, Len(es) + 1, Len(all))[i] = all[Len(es) + i]
      <3> DEFINE m == Len(es) + 1
      <3> DEFINE k == Len(all)
      <3>1. m \in Int /\ k \in Int /\ k - m + 1 = Len(c) /\ m <= k
        BY <1>1, <1>2, <1>3
      <3>2. /\ SubSeq(all, m, k) \in Seq(Event)
            /\ Len(SubSeq(all, m, k)) = k - m + 1
            /\ \A i \in 1..k - m + 1 : SubSeq(all, m, k)[i] = all[m + i - 1]
        BY <2>1, <3>1, SubSeqProperties
      <3>3. \A i \in 1..Len(c) : m + i - 1 = Len(es) + i
        BY <1>1, <1>3
      <3>4. QED
        BY <3>1, <3>2, <3>3
    <2>3. ASSUME NEW i \in 1..Len(c) PROVE all[Len(es) + i] = c[i]
      <3>1. /\ Len(es) + i \in 1..Len(es) + Len(c)
            /\ ~(Len(es) + i <= Len(es))
            /\ (Len(es) + i) - Len(es) = i
        BY <1>1, <1>3
      <3>2. QED
        BY <1>2, <3>1
    <2>4. QED
      BY <1>1, <2>2, <2>3, SeqEqual
  <1>6. \A i \in 1..Len(es) : all[i] \in {"starting", "progress"}
    BY <1>1, <1>2, <1>3
  <1>7. QED
    BY <1>3, <1>4, <1>5, <1>6 DEF Concluded, c, all

\* What a concluded stream contains.
LEMMA ConcludedEvents ==
    ASSUME NEW es \in Seq(Event), NEW o \in Outcome, Concluded(es, o)
    PROVE  /\ (\E i \in 1..Len(es) : es[i] = "error") <=> StatusAfter(o) = "error"
           /\ \E i \in 1..Len(es) : es[i] = "done"
  <1> DEFINE c == Closing(o)
  <1> DEFINE n == Len(es) - Len(c)
  <1>1. c \in Seq(Event) /\ Len(c) \in Nat /\ Len(c) > 0 /\ c[Len(c)] = "done"
    BY ClosingType
  <1>2. /\ n \in Nat \ {0}
        /\ SubSeq(es, n + 1, Len(es)) = c
        /\ \A i \in 1..n : es[i] \in {"starting", "progress"}
    <2>1. Len(es) \in Nat
      BY LenProperties
    <2>2. QED
      BY <1>1, <2>1 DEF Concluded
  <1>3. (\E i \in 1..Len(c) : c[i] = "error") <=> StatusAfter(o) = "error"
    BY ClosingErrors
  <1>4. Len(es) = n + Len(c) /\ Len(es) \in Nat
    BY <1>1, <1>2, LenProperties
  <1> HIDE DEF c, n
  <1>5. \A i \in 1..Len(c) : es[n + i] = c[i]
    <2>1. \A i \in n + 1 .. Len(es) : es[i] \in Event
      BY <1>1, <1>2, <1>4, ElementOfSeq
    <2>2. \A i \in 1..Len(c) : SubSeq(es, n + 1, Len(es))[i] = es[n + 1 + i - 1]
      BY <1>1, <1>2, <1>4, <2>1, SubSeqProperties
    <2>3. QED
      BY <1>1, <1>2, <2>2
  <1>6. \A i \in 1..Len(es) : i > n => es[i] = c[i - n] /\ i - n \in 1..Len(c)
    BY <1>1, <1>2, <1>4, <1>5
  <1>7. (\E i \in 1..Len(es) : es[i] = "error") <=> (\E i \in 1..Len(c) : c[i] = "error")
    <2>1. ASSUME NEW i \in 1..Len(es), es[i] = "error"
          PROVE  \E j \in 1..Len(c) : c[j] = "error"
      BY <1>1, <1>2, <1>4, <1>6, <2>1
    <2>2. ASSUME NEW j \in 1..Len(c), c[j] = "error"
          PROVE  \E i \in 1..Len(es) : es[i] = "error"
      <3>1. n + j \in 1..Len(es) /\ es[n + j] = "error"
        BY <1>1, <1>2, <1>4, <1>5, <2>2
      <3>2. QED
        BY <3>1
    <2>3. QED
      BY <2>1, <2>2
  <1>8. Len(es) \in 1..Len(es) /\ es[Len(es)] = "done"
    BY <1>1, <1>2, <1>4, <1>6
  <1>9. QED
    BY <1>3, <1>7, <1>8

LEMMA NextEmissions ==
    TypeOK /\ EventsInOrder /\ Lifecycle /\ Emissions /\ [Next]_vars => Emissions'
  <1> SUFFICES ASSUME TypeOK, Lifecycle, Emissions, [Next]_vars PROVE Emissions'
    OBVIOUS
  <1>0. CASE UNCHANGED <<pipe, emitted, queryStatus>>
    BY <1>0 DEF Emissions
  <1>1. ASSUME NEW q \in Query, AcceptQuery(q) PROVE Emissions'
    BY <1>1 DEF AcceptQuery, Emissions, Lifecycle, TypeOK, PC
  <1>2. ASSUME NEW q \in Query, OpenStream(q) PROVE Emissions'
    BY <1>2 DEF OpenStream, Emissions, TypeOK
  <1>3. ASSUME NEW q \in Query, ReportProgress(q) PROVE Emissions'
    <2>1. \A i \in 1..Len(emitted[q] \o <<"progress">>) :
             (emitted[q] \o <<"progress">>)[i] \in {"starting", "progress"}
      <3>1. /\ <<"progress">> \in Seq(Event)
            /\ Len(<<"progress">>) = 1
            /\ <<"progress">>[1] = "progress"
        BY DEF Event
      <3>2. \A i \in 1..Len(emitted[q]) : emitted[q][i] \in {"starting", "progress"}
        BY <1>3 DEF ReportProgress, Emissions
      <3>3. emitted[q] \in Seq(Event) /\ Len(emitted[q]) \in Nat
        BY LenProperties DEF TypeOK
      <3>4. QED
        BY <3>1, <3>2, <3>3, ConcatProperties
    <2>2. QED
      BY <1>3, <2>1 DEF ReportProgress, Emit, Emissions, TypeOK
  <1>4. ASSUME NEW q \in Query, NEW o \in Outcome, FinishPipeline(q, o) PROVE Emissions'
    <2>1. Concluded(emitted[q] \o Closing(o), o)
      <3>1. emitted[q] \in Seq(Event)
        BY DEF TypeOK
      <3>2. emitted[q] # << >>
        BY <1>4 DEF FinishPipeline, Lifecycle
      <3>3. \A i \in 1..Len(emitted[q]) : emitted[q][i] \in {"starting", "progress"}
        BY <1>4 DEF FinishPipeline, Emissions
      <3>4. QED
        BY <3>1, <3>2, <3>3, ConcludeStream
    <2>2. /\ emitted'[q] = emitted[q] \o Closing(o)
          /\ pipe'[q] = "exited"
          /\ queryStatus'[q] = StatusAfter(o)
          /\ \A p \in Query \ {q} : /\ emitted'[p] = emitted[p]
                                    /\ pipe'[p] = pipe[p]
                                    /\ queryStatus'[p] = queryStatus[p]
      BY <1>4 DEF FinishPipeline, Emit, TypeOK
    <2>3. QED
      BY <2>1, <2>2 DEF Emissions
  <1>5. QED
    BY <1>0, <1>1, <1>2, <1>3, <1>4
    DEF Next, vars, RejectDuplicate, Resume, WakeUp, KeepAlive, Disconnect

\* A step that neither admits nor closes a request keeps the ownership of keys.
LEMMA OwnershipKept ==
    ASSUME KeyOwnership, UNCHANGED activeQueries,
           \A p \in Query : Engaged(p)' => Engaged(p),
           \A p \in Query : pc[p] \in Live \union {"dropped"} => pc'[p] \in Live \union {"dropped"}
    PROVE  KeyOwnership'
  <1>1. \A q \in Query : Engaged(q)' => KeyOf[q] \in activeQueries'
    BY DEF KeyOwnership
  <1>2. \A p, q \in Query : Engaged(p)' /\ Engaged(q)' /\ KeyOf[p] = KeyOf[q] => p = q
    BY DEF KeyOwnership
  <1>3. \A k \in activeQueries' :
           \E p \in Query : KeyOf[p] = k /\ pc'[p] \in Live \union {"dropped"}
    BY DEF KeyOwnership
  <1>4. QED
    BY <1>1, <1>2, <1>3 DEF KeyOwnership

LEMMA NextOwnership ==
    TypeOK /\ Lifecycle /\ KeyOwnership /\ [Next]_vars => KeyOwnership'
  <1> SUFFICES ASSUME TypeOK, Lifecycle, KeyOwnership, [Next]_vars PROVE KeyOwnership'
    OBVIOUS
  <1>0. CASE UNCHANGED <<pc, activeQueries, queryStatus>>
    BY <1>0, OwnershipKept DEF Engaged
  <1>1. ASSUME NEW q \in Query, AcceptQuery(q) PROVE KeyOwnership'
    BY <1>1 DEF AcceptQuery, KeyOwnership, TypeOK, Engaged, Live, Suspended
  <1>2. ASSUME NEW q \in Query, RejectDuplicate(q) \/ OpenStream(q) \/ KeepAlive(q) \/ Disconnect(q)
        PROVE  KeyOwnership'
    <2>1. UNCHANGED <<activeQueries, queryStatus>>
      BY <1>2 DEF RejectDuplicate, OpenStream, KeepAlive, Disconnect
    <2>2. \A p \in Query : pc'[p] \in Live => pc[p] \in Live
      BY <1>2 DEF RejectDuplicate, OpenStream, KeepAlive, Disconnect, TypeOK, Live, Suspended
    <2>3. \A p \in Query : pc[p] \in Live \union {"dropped"} => pc'[p] \in Live \union {"dropped"}
      BY <1>2 DEF RejectDuplicate, OpenStream, KeepAlive, Disconnect, TypeOK, Live, Suspended
    <2>4. \A p \in Query : Engaged(p)' => Engaged(p)
      BY <2>1, <2>2 DEF Engaged
    <2>5. QED
      BY <2>1, <2>3, <2>4, OwnershipKept
  <1>3. ASSUME NEW q \in Query, NEW o \in Outcome, FinishPipeline(q, o) PROVE KeyOwnership'
    <2>1. UNCHANGED <<pc, activeQueries>>
      BY <1>3 DEF FinishPipeline
    <2>2. \A p \in Query : queryStatus'[p] = "running" => queryStatus[p] = "running"
      BY <1>3, ClosingType DEF FinishPipeline, TypeOK
    <2>3. \A p \in Query : Engaged(p)' => Engaged(p)
      BY <2>1, <2>2 DEF Engaged
    <2>4. QED
      BY <2>1, <2>3, OwnershipKept
  <1>4. ASSUME NEW q \in Query, YieldNext(q) \/ Block(q), pc[q] \in Suspended, UNCHANGED queryStatus
        PROVE  KeyOwnership'
    <2>1. \A p \in Query : pc'[p] \in Live => pc[p] \in Live
      BY <1>4 DEF YieldNext, Block, TypeOK, Live, Suspended
    <2>2. \A p \in Query : pc[p] \in Live \union {"dropped"} => pc'[p] \in Live \union {"dropped"}
      BY <1>4 DEF YieldNext, Block, TypeOK, Live, Suspended
    <2>3. UNCHANGED activeQueries
      BY <1>4 DEF YieldNext, Block
    <2>4. \A p \in Query : Engaged(p)' => Engaged(p)
      BY <1>4, <2>1 DEF Engaged
    <2>5. QED
      BY <2>2, <2>3, <2>4, OwnershipKept
  <1>5. ASSUME NEW q \in Query, CloseStream(q), pc[q] \in Suspended, UNCHANGED queryStatus
        PROVE  KeyOwnership'
    <2>1. /\ activeQueries' = activeQueries \ {KeyOf[q]}
          /\ queryStatus[q] # "running"
          /\ pc'[q] = "closed"
          /\ \A p \in Query \ {q} : pc'[p] = pc[p]
      BY <1>5 DEF CloseStream, TypeOK, Lifecycle
    <2>2. Engaged(q) /\ ~Engaged(q)'
      BY <1>5, <2>1 DEF Engaged, Live, Suspended
    <2>3. \A p \in Query \ {q} : Engaged(p)' <=> Engaged(p)
      BY <1>5, <2>1 DEF Engaged
    <2>4. \A p \in Query : Engaged(p)' => KeyOf[p] \in activeQueries'
      BY <2>1, <2>2, <2>3 DEF KeyOwnership
    <2>5. \A p, r \in Query : Engaged(p)' /\ Engaged(r)' /\ KeyOf[p] = KeyOf[r] => p = r
      BY <2>2, <2>3 DEF KeyOwnership
    <2>6. \A k \in activeQueries' :
             \E p \in Query : KeyOf[p] = k /\ pc'[p] \in Live \union {"dropped"}
      BY <2>1 DEF KeyOwnership
    <2>7. QED
      BY <2>4, <2>5, <2>6 DEF KeyOwnership
  <1>6. ASSUME NEW q \in Query, Resume(q) \/ WakeUp(q) PROVE KeyOwnership'
    BY <1>4, <1>5, <1>6 DEF Resume, WakeUp, LoopTop, Suspended
  <1>7. QED
    BY <1>0, <1>1, <1>2, <1>3, <1>6 DEF Next, vars, ReportProgress

----------------------------------------------------------------------------
LEMMA InitInv == Init => StreamInv
  <1> SUFFICES ASSUME Init PROVE StreamInv
    OBVIOUS
  <1>1. TypeOK
    BY InitType
  <1>2. EventsInOrder
    BY ConcatEmptySeq, EmptySeq DEF Init, EventsInOrder
  <1>3. NoLostWakeup /\ Lifecycle
    BY DEF Init, NoLostWakeup, Lifecycle, PC, Live, Suspended
  <1>4. Emissions
    <2>1. \A q \in Query : pipe[q] = "none" /\ Len(emitted[q]) = 0
      BY EmptySeq DEF Init
    <2>2. \A q \in Query : 1..Len(emitted[q]) = {}
      BY <2>1, 1..0 = {}
    <2>3. QED
      BY <2>1, <2>2 DEF Emissions
  <1>5. KeyOwnership
    BY DEF Init, KeyOwnership, Engaged, Live, Suspended
  <1>6. QED
    BY <1>1, <1>2, <1>3, <1>4, <1>5 DEF StreamInv

LEMMA NextInv == StreamInv /\ [Next]_vars => StreamInv'
  BY NextType, NextOrder, NextWakeup, NextLifecycle, NextEmissions, NextOwnership
  DEF StreamInv

LEMMA SpecInv == Spec => []StreamInv
  BY InitInv, NextInv, PTL DEF Spec

\* No event of generate() is lost, duplicated or reordered between the task
\* and the client, for any number of requests and of progress events.
THEOREM OrderPreserved == Spec => []EventsInOrder
  <1>1. StreamInv => EventsInOrder
    BY DEF StreamInv
  <1>2. QED
    BY SpecInv, <1>1, PTL

\* The generator never sleeps on a full deque without having been signalled.
THEOREM WakeupsKept == Spec => []NoLostWakeup
  <1>1. StreamInv => NoLostWakeup
    BY DEF StreamInv
  <1>2. QED
    BY SpecInv, <1>1, PTL

\* A question has at most one unfinished run, also across lost clients.
THEOREM RunsExclusive == Spec => []OneRunPerKey
  <1>1. StreamInv => OneRunPerKey
    BY DEF StreamInv, KeyOwnership, Engaged, OneRunPerKey
  <1>2. QED
    BY SpecInv, <1>1, PTL

\* The stored status of a query agrees with the events its client was sent.
THEOREM StatusAgrees == Spec => []StatusMatchesStream
  <1>1. StreamInv => StatusMatchesStream
    <2> SUFFICES ASSUME StreamInv, NEW q \in Query, queryStatus[q] # "absent"
                 PROVE  /\ queryStatus[q] = "error"
                              <=> \E i \in DOMAIN emitted[q] : emitted[q][i] = "error"
                        /\ queryStatus[q] = "running"
                              <=> \A i \in DOMAIN emitted[q] : emitted[q][i] # "done"
      BY DEF StatusMatchesStream
    <2>1. /\ emitted[q] \in Seq(Event)
          /\ DOMAIN emitted[q] = 1..Len(emitted[q])
          /\ queryStatus[q] \in {"running", "done", "error"}
      BY LenProperties DEF StreamInv, TypeOK
    <2>2. queryStatus[q] \in {"done", "error"} <=> pipe[q] = "exited"
      BY DEF StreamInv, Lifecycle
    <2>3. CASE pipe[q] = "exited"
      <3>1. PICK o \in Outcome : Concluded(emitted[q], o) /\ queryStatus[q] = StatusAfter(o)
        BY <2>3 DEF StreamInv, Emissions
      <3>2. QED
        BY <2>1, <2>2, <2>3, <3>1, ConcludedEvents
    <2>4. CASE pipe[q] # "exited"
      <3>1. \A i \in 1..Len(emitted[q]) : emitted[q][i] \in {"starting", "progress"}
        BY <2>4 DEF StreamInv, Emissions
      <3>2. QED
        BY <2>1, <2>2, <2>4, <3>1
    <2>5. QED
      BY <2>3, <2>4
  <1>2. QED
    BY SpecInv, <1>1, PTL

\* A stream that ends normally delivered every event up to "done", left the
\* stored query settled and did not leave its own key behind.
THEOREM ClosesCleanly == Spec => []CleanClose
  <1>1. StreamInv => CleanClose
    <2> SUFFICES ASSUME StreamInv, NEW q \in Query, pc[q] = "closed"
                 PROVE  /\ received[q] = emitted[q]
                        /\ \E c \in Closings :
                              /\ Len(c) < Len(received[q])
                              /\ SubSeq(received[q], Len(received[q]) - Len(c) + 1,
                                        Len(received[q])) = c
                        /\ queryStatus[q] \in {"done", "error"}
                        /\ KeyOf[q] \in activeQueries =>
                              \E p \in Query \ {q} :
                                 KeyOf[p] = KeyOf[q] /\ pc[p] \in Live \union {"dropped"}
      BY DEF CleanClose
    <2>1. /\ pipe[q] = "exited"
          /\ buf[q] = << >>
          /\ queryStatus[q] \in {"done", "error"}
      BY DEF StreamInv, Lifecycle
    <2>2. received[q] = emitted[q]
      <3>1. received[q] \in Seq(Event) /\ emitted[q] = received[q] \o << >>
        BY <2>1 DEF StreamInv, TypeOK, EventsInOrder
      <3>2. QED
        BY <3>1, ConcatEmptySeq
    <2>3. PICK o \in Outcome : Concluded(emitted[q], o)
      BY <2>1 DEF StreamInv, Emissions
    <2>4. /\ Closing(o) \in Closings
          /\ Len(Closing(o)) \in Nat
          /\ Len(emitted[q]) \in Nat
      BY ClosingType, LenProperties DEF Closings, StreamInv, TypeOK
    <2>5. /\ Len(Closing(o)) < Len(received[q])
          /\ SubSeq(received[q], Len(received[q]) - Len(Closing(o)) + 1,
                    Len(received[q])) = Closing(o)
      <3>1. /\ Len(emitted[q]) - Len(Closing(o)) > 0
            /\ SubSeq(emitted[q], Len(emitted[q]) - Len(Closing(o)) + 1,
                      Len(emitted[q])) = Closing(o)
        BY <2>3 DEF Concluded
      <3>2. Len(Closing(o)) < Len(emitted[q])
        BY <2>4, <3>1
      <3>3. QED
        BY <2>2, <3>1, <3>2
    <2>6. ASSUME KeyOf[q] \in activeQueries
          PROVE  \E p \in Query \ {q} :
                    KeyOf[p] = KeyOf[q] /\ pc[p] \in Live \union {"dropped"}
      BY <2>6 DEF StreamInv, KeyOwnership, Live, Suspended
    <2>7. QED
      BY <2>1, <2>2, <2>4, <2>5, <2>6
  <1>2. QED
    BY SpecInv, <1>1, PTL

\* Once a pipeline has concluded, no step adds an event or changes its status.
THEOREM ConclusionsFinal == Spec => ConclusionIsFinal
  <1>1. StreamInv /\ [Next]_vars =>
           [\A q \in Query : pipe[q] = "exited" =>
               /\ pipe'[q] = "exited"
               /\ emitted'[q] = emitted[q]
               /\ queryStatus'[q] = queryStatus[q]]_vars
    <2> SUFFICES ASSUME StreamInv, Next, NEW q \in Query, pipe[q] = "exited"
                 PROVE  /\ pipe'[q] = "exited"
                        /\ emitted'[q] = emitted[q]
                        /\ queryStatus'[q] = queryStatus[q]
      OBVIOUS
    <2>1. PICK p \in Query :
             \/ AcceptQuery(p) \/ RejectDuplicate(p) \/ OpenStream(p) \/ ReportProgress(p)
             \/ \E o \in Outcome : FinishPipeline(p, o)
             \/ Resume(p) \/ WakeUp(p) \/ KeepAlive(p) \/ Disconnect(p)
      BY DEF Next
    <2>2. CASE AcceptQuery(p) \/ OpenStream(p)
      BY <2>2 DEF AcceptQuery, OpenStream, StreamInv, TypeOK, Lifecycle
    <2>3. CASE ReportProgress(p)
      BY <2>3 DEF ReportProgress, Emit, StreamInv, TypeOK
    <2>4. ASSUME NEW o \in Outcome, FinishPipeline(p, o)
          PROVE  /\ pipe'[q] = "exited"
                 /\ emitted'[q] = emitted[q]
                 /\ queryStatus'[q] = queryStatus[q]
      BY <2>4 DEF FinishPipeline, Emit, StreamInv, TypeOK
    <2>5. CASE RejectDuplicate(p) \/ Resume(p) \/ WakeUp(p) \/ KeepAlive(p) \/ Disconnect(p)
      BY <2>5 DEF RejectDuplicate, Resume, WakeUp, KeepAlive, Disconnect
    <2>6. QED
      BY <2>1, <2>2, <2>3, <2>4, <2>5
  <1>2. QED
    BY SpecInv, <1>1, PTL DEF Spec, ConclusionIsFinal

\* After the pipeline keep-alives cannot go on: what a stream still does is
\* bounded by the events it has to yield (the loop of generate()).
THEOREM StreamsDrain == Spec => DrainsOut
  <1>1. StreamInv /\ [Next]_vars =>
           [\A q \in Query : pipe[q] = "exited" =>
               \/ UNCHANGED <<pc[q], buf[q], bufReady[q], received[q]>>
               \/ RoundsLeft(q)' < RoundsLeft(q) /\ RoundsLeft(q)' \in Nat]_vars
    <2> SUFFICES ASSUME StreamInv, Next, NEW q \in Query, pipe[q] = "exited"
                 PROVE  \/ UNCHANGED <<pc[q], buf[q], bufReady[q], received[q]>>
                        \/ RoundsLeft(q)' < RoundsLeft(q) /\ RoundsLeft(q)' \in Nat
      OBVIOUS
    <2>1. TypeOK /\ pc[q] \notin {"idle", "rejected", "admitted"}
      BY DEF StreamInv, Lifecycle
    <2>2. buf[q] \in Seq(Event) /\ Len(buf[q]) \in Nat
      BY <2>1 DEF TypeOK
    <2>3. PICK p \in Query :
             \/ AcceptQuery(p) \/ RejectDuplicate(p) \/ OpenStream(p) \/ ReportProgress(p)
             \/ \E o \in Outcome : FinishPipeline(p, o)
             \/ Resume(p) \/ WakeUp(p) \/ KeepAlive(p) \/ Disconnect(p)
      BY DEF Next
    <2>4. CASE p # q
      BY <2>1, <2>3, <2>4 DEF AcceptQuery, RejectDuplicate, OpenStream, ReportProgress, FinishPipeline,
         Emit, Resume, WakeUp, KeepAlive, Disconnect, LoopTop, YieldNext, CloseStream, Block, TypeOK
    <2>5. CASE p = q
      <3>1. Resume(q) \/ WakeUp(q) \/ KeepAlive(q) \/ Disconnect(q)
        BY <2>1, <2>3, <2>5 DEF AcceptQuery, RejectDuplicate, OpenStream, ReportProgress, FinishPipeline
      <3>2. /\ pc \in [Query -> PC] /\ buf \in [Query -> Seq(Event)]
        BY <2>1 DEF TypeOK
      <3>3. CASE KeepAlive(q)
        <4>1. pc[q] = "waiting" /\ pc'[q] = "pausing" /\ buf'[q] = buf[q]
          BY <3>2, <3>3 DEF KeepAlive
        <4>2. QED BY <2>2, <4>1 DEF RoundsLeft, Suspended
      <3>4. CASE Disconnect(q)
        <4>1. /\ pc[q] \in {"waiting", "yielding", "pausing"}
              /\ pc'[q] = "dropped" /\ buf'[q] = buf[q]
          BY <2>1, <3>2, <3>4 DEF Disconnect, Live, Suspended
        <4>2. RoundsLeft(q) \in {3 * Len(buf[q]) + 1, 3 * Len(buf[q]) + 2}
          BY <4>1 DEF RoundsLeft, Suspended
        <4>3. RoundsLeft(q)' = 3 * Len(buf[q])
          BY <2>2, <4>1 DEF RoundsLeft, Suspended
        <4>4. QED BY <2>2, <4>2, <4>3
      <3>5. CASE Resume(q) \/ WakeUp(q)
        <4>1. /\ pc[q] \in {"waiting", "yielding", "pausing"}
              /\ YieldNext(q) \/ CloseStream(q)
          BY <3>5 DEF Resume, WakeUp, LoopTop, Block
        <4>2. RoundsLeft(q) \in {3 * Len(buf[q]) + 1, 3 * Len(buf[q]) + 2}
          BY <4>1 DEF RoundsLeft, Suspended
        <4>3. CASE CloseStream(q)
          <5>1. pc'[q] = "closed" /\ buf'[q] = buf[q]
            BY <3>2, <4>3 DEF CloseStream
          <5>2. RoundsLeft(q)' = 3 * Len(buf[q])
            BY <2>2, <5>1 DEF RoundsLeft, Suspended
          <5>3. QED BY <2>2, <4>2, <5>2
        <4>4. CASE YieldNext(q)
          <5>1. pc'[q] = "yielding" /\ buf'[q] = Tail(buf[q]) /\ buf[q] # << >>
            BY <3>2, <4>4 DEF YieldNext
          <5>2. Len(Tail(buf[q])) = Len(buf[q]) - 1 /\ Len(buf[q]) > 0
            BY <2>2, <5>1
          <5>3. Len(buf'[q]) = Len(buf[q]) - 1
            BY <5>1, <5>2
          <5>4. RoundsLeft(q)' = 3 * (Len(buf[q]) - 1) + 1
            BY <5>1, <5>3 DEF RoundsLeft, Suspended
          <5>5. QED BY <2>2, <4>2, <5>2, <5>4
        <4>5. QED BY <4>1, <4>3, <4>4
      <3>6. QED BY <3>1, <3>3, <3>4, <3>5
    <2>6. QED BY <2>4, <2>5
  <1>2. QED
    BY SpecInv, <1>1, PTL DEF Spec, DrainsOut

----------------------------------------------------------------------------
(* Refinement of EventStream: every step of the gateway is a step of the   *)
(* abstract stream or leaves it unchanged.                                 *)

LEMMA RefineInit == Init => Stream!Init
  <1> SUFFICES ASSUME Init PROVE Stream!Init
    OBVIOUS
  <1>1. AbsState = [q \in Query |-> "idle"]
    BY DEF Init, AbsState, Live, Suspended
  <1>2. AbsWork = [q \in Query |-> "none"]
    BY DEF Init, AbsWork
  <1>3. << >> \o << >> = << >>
    BY EmptySeq, ConcatEmptySeq
  <1>4. AbsSent = [q \in Query |-> << >>]
    BY <1>3 DEF Init, AbsSent
  <1>5. received = [q \in Query |-> << >>]
    BY DEF Init
  <1>6. QED
    BY <1>1, <1>2, <1>4, <1>5 DEF Stream!Init

\* How the mapped variables read at one request.
LEMMA MapAt ==
    ASSUME TypeOK, NEW q \in Query
    PROVE  /\ pc[q] \in Live => AbsState[q] = "open"
           /\ pc[q] = "idle" => AbsState[q] = "idle"
           /\ pc[q] = "rejected" => AbsState[q] = "refused"
           /\ pc[q] = "closed" => AbsState[q] = "ended"
           /\ pc[q] = "dropped" => AbsState[q] = "lost"
           /\ queryStatus[q] = "absent" => AbsWork[q] = "none"
           /\ queryStatus[q] = "running" => AbsWork[q] = "unfinished"
           /\ queryStatus[q] \in {"done", "error"} => AbsWork[q] = "finished"
           /\ AbsSent[q] = received[q] \o buf[q]
  BY DEF TypeOK, AbsState, AbsWork, AbsSent, PC, Live, Suspended

LEMMA RefineNext == StreamInv /\ StreamInv' /\ [Next]_vars => [Stream!Next]_(Stream!absVars)
  <1> SUFFICES ASSUME StreamInv, StreamInv', [Next]_vars
               PROVE  Stream!Next \/ UNCHANGED Stream!absVars
    OBVIOUS
  <1>0. /\ TypeOK /\ TypeOK'
        /\ pc \in [Query -> PC]
        /\ DOMAIN AbsState = Query /\ DOMAIN AbsWork = Query /\ DOMAIN AbsSent = Query
        /\ received \in [Query -> Seq(Event)]
    BY DEF StreamInv, TypeOK, AbsState, AbsWork, AbsSent
  <1>1. CASE UNCHANGED vars
    BY <1>1 DEF vars, Stream!absVars, AbsState, AbsWork, AbsSent
  <1>2. ASSUME NEW q \in Query, AcceptQuery(q) PROVE Stream!Admit(q)
    <2>1. AbsState[q] = "idle"
      BY <1>0, <1>2, MapAt DEF AcceptQuery
    <2>2. \A p \in Query : KeyOf[p] = KeyOf[q] => AbsWork[p] # "unfinished"
      <3> SUFFICES ASSUME NEW p \in Query, KeyOf[p] = KeyOf[q]
                   PROVE  AbsWork[p] # "unfinished"
        OBVIOUS
      <3>1. queryStatus[p] # "running"
        BY <1>2 DEF AcceptQuery, StreamInv, KeyOwnership, Engaged
      <3>2. QED
        BY <1>0, <3>1, MapAt DEF TypeOK
    <2>3. AbsState' = [AbsState EXCEPT ![q] = "open"]
      BY <1>0, <1>2 DEF AcceptQuery, AbsState, PC, Live, Suspended
    <2>4. AbsWork' = [AbsWork EXCEPT ![q] = "unfinished"]
      BY <1>0, <1>2 DEF AcceptQuery, AbsWork, TypeOK
    <2>5. UNCHANGED <<AbsSent, received>>
      BY <1>2 DEF AcceptQuery, AbsSent
    <2>6. QED
      BY <2>1, <2>2, <2>3, <2>4, <2>5 DEF Stream!Admit
  <1>3. ASSUME NEW q \in Query, RejectDuplicate(q) PROVE Stream!Refuse(q)
    <2>1. AbsState[q] = "idle"
      BY <1>0, <1>3, MapAt DEF RejectDuplicate
    <2>2. AbsState' = [AbsState EXCEPT ![q] = "refused"]
      BY <1>0, <1>3 DEF RejectDuplicate, AbsState, PC, Live, Suspended
    <2>3. UNCHANGED <<AbsWork, AbsSent, received>>
      BY <1>3 DEF RejectDuplicate, AbsWork, AbsSent
    <2>4. QED
      BY <2>1, <2>2, <2>3 DEF Stream!Refuse
  <1>4. ASSUME NEW q \in Query, OpenStream(q) PROVE Stream!Greet(q)
    <2>1. AbsState[q] = "open"
      BY <1>0, <1>4, MapAt DEF OpenStream, Live
    <2>2. received[q] = << >> /\ buf[q] = << >>
      BY <1>4 DEF OpenStream, StreamInv, Lifecycle
    <2>3. AbsSent[q] = << >>
      BY <1>0, <2>2, MapAt, EmptySeq, ConcatEmptySeq
    <2>4. UNCHANGED <<AbsState, AbsWork>>
      BY <1>0, <1>4 DEF OpenStream, AbsState, AbsWork, PC, Live, Suspended
    <2>5. received' = [received EXCEPT ![q] = <<"starting">>]
      BY <1>4 DEF OpenStream
    <2>6. AbsSent' = [AbsSent EXCEPT ![q] = <<"starting">>]
      <3>1. <<"starting">> \o << >> = <<"starting">>
        BY DEF Event
      <3>2. /\ received'[q] \o buf'[q] = <<"starting">>
            /\ \A p \in Query \ {q} : received'[p] = received[p] /\ buf'[p] = buf[p]
        BY <1>0, <1>4, <2>2, <3>1 DEF OpenStream, TypeOK
      <3>3. QED
        BY <3>2 DEF AbsSent
    <2>7. QED
      BY <2>1, <2>3, <2>4, <2>5, <2>6 DEF Stream!Greet
  <1>5. ASSUME NEW q \in Query, NEW es \in Seq(Event), Emit(q, es), UNCHANGED received
        PROVE  AbsSent' = [AbsSent EXCEPT ![q] = AbsSent[q] \o es]
    <2>1. /\ received'[q] = received[q] /\ buf'[q] = buf[q] \o es
          /\ \A p \in Query \ {q} : received'[p] = received[p] /\ buf'[p] = buf[p]
      BY <1>0, <1>5 DEF Emit, TypeOK
    <2>2. received[q] \o (buf[q] \o es) = (received[q] \o buf[q]) \o es
      <3>1. received[q] \in Seq(Event) /\ buf[q] \in Seq(Event)
        BY <1>0 DEF TypeOK
      <3>2. QED
        BY <3>1, EventConcat
    <2>3. QED
      BY <2>1, <2>2 DEF AbsSent
  <1>6. ASSUME NEW q \in Query, pipe[q] = "running"
        PROVE  /\ AbsWork[q] = "unfinished"
               /\ AbsSent[q] # << >>
               /\ AbsSent[q] \in Seq(Event)
    <2>1. queryStatus[q] = "running"
      BY <1>6, <1>0 DEF StreamInv, Lifecycle, TypeOK
    <2>2. emitted[q] # << >> /\ emitted[q] = received[q] \o buf[q] /\ emitted[q] \in Seq(Event)
      BY <1>6 DEF StreamInv, Lifecycle, EventsInOrder, TypeOK
    <2>3. QED
      BY <1>0, <2>1, <2>2, MapAt
  <1>7. ASSUME NEW q \in Query, ReportProgress(q) PROVE Stream!Progress(q)
    <2>1. <<"progress">> \in Seq(Event) /\ "progress" \in Event
      BY DEF Event
    <2>2. AbsSent' = [AbsSent EXCEPT ![q] = AbsSent[q] \o <<"progress">>]
      BY <1>5, <1>7, <2>1 DEF ReportProgress
    <2>3. Append(AbsSent[q], "progress") = AbsSent[q] \o <<"progress">>
      BY <1>6, <1>7, <2>1, AppendIsConcat DEF ReportProgress
    <2>4. UNCHANGED <<AbsState, AbsWork, received>>
      BY <1>7 DEF ReportProgress, AbsState, AbsWork
    <2>5. QED
      BY <1>6, <1>7, <2>2, <2>3, <2>4 DEF Stream!Progress, ReportProgress
  <1>8. ASSUME NEW q \in Query, NEW o \in Outcome, FinishPipeline(q, o) PROVE Stream!Conclude(q)
    <2>1. Closing(o) \in Closings /\ Closing(o) \in Seq(Event)
      BY ClosingType DEF Closings
    <2>2. AbsSent' = [AbsSent EXCEPT ![q] = AbsSent[q] \o Closing(o)]
      BY <1>5, <1>8, <2>1 DEF FinishPipeline
    <2>3. AbsWork' = [AbsWork EXCEPT ![q] = "finished"]
      <3>1. queryStatus' = [queryStatus EXCEPT ![q] = StatusAfter(o)]
        BY <1>8 DEF FinishPipeline
      <3>2. StatusAfter(o) \in {"done", "error"}
        BY ClosingType
      <3>3. QED
        BY <1>0, <3>1, <3>2 DEF AbsWork, TypeOK
    <2>4. UNCHANGED <<AbsState, received>>
      BY <1>8 DEF FinishPipeline, AbsState
    <2>5. QED
      BY <1>6, <1>8, <2>1, <2>2, <2>3, <2>4 DEF Stream!Conclude, FinishPipeline
  <1>9. ASSUME NEW q \in Query, YieldNext(q), pc[q] \in Suspended, UNCHANGED queryStatus
        PROVE  Stream!Deliver(q)
    <2>1. /\ received[q] \in Seq(Event) /\ buf[q] \in Seq(Event) /\ buf[q] # << >>
      BY <1>0, <1>9 DEF YieldNext, TypeOK
    <2>2. AbsState[q] = "open"
      BY <1>0, <1>9, MapAt DEF Live
    <2>3. /\ Len(received[q]) < Len(AbsSent[q])
          /\ AbsSent[q][Len(received[q]) + 1] = Head(buf[q])
      <3>1. AbsSent[q] = received[q] \o buf[q]
        BY <1>0, MapAt
      <3>2. QED
        BY <2>1, <3>1, EventHeadAt
    <2>4. received' = [received EXCEPT ![q] = Append(received[q], Head(buf[q]))]
      BY <1>9 DEF YieldNext
    <2>5. UNCHANGED AbsSent
      <3>1. received'[q] \o buf'[q] = received[q] \o buf[q]
        <4>1. received'[q] = Append(received[q], Head(buf[q])) /\ buf'[q] = Tail(buf[q])
          BY <1>0, <1>9 DEF YieldNext, TypeOK
        <4>2. QED
          BY <2>1, <4>1, EventPop
      <3>2. \A p \in Query \ {q} : received'[p] = received[p] /\ buf'[p] = buf[p]
        BY <1>0, <1>9 DEF YieldNext, TypeOK
      <3>3. QED
        BY <3>1, <3>2 DEF AbsSent
    <2>6. UNCHANGED <<AbsState, AbsWork>>
      BY <1>0, <1>9 DEF YieldNext, AbsState, AbsWork, PC, Live, Suspended
    <2>7. QED
      BY <2>2, <2>3, <2>4, <2>5, <2>6 DEF Stream!Deliver
  <1>10. ASSUME NEW q \in Query, CloseStream(q), pc[q] \in Suspended, UNCHANGED queryStatus
         PROVE  Stream!End(q)
    <2>1. AbsState[q] = "open"
      BY <1>0, <1>10, MapAt DEF Live
    <2>2. AbsWork[q] = "finished"
      <3>1. queryStatus[q] \in {"done", "error"}
        BY <1>10 DEF CloseStream, StreamInv, Lifecycle
      <3>2. QED
        BY <1>0, <3>1, MapAt
    <2>3. AbsSent[q] = received[q]
      <3>1. AbsSent[q] = received[q] \o << >> /\ received[q] \in Seq(Event)
        BY <1>0, <1>10, MapAt DEF CloseStream
      <3>2. QED
        BY <3>1, ConcatEmptySeq
    <2>4. AbsState' = [AbsState EXCEPT ![q] = "ended"]
      BY <1>0, <1>10 DEF CloseStream, AbsState, PC, Live, Suspended
    <2>5. UNCHANGED <<AbsWork, AbsSent, received>>
      BY <1>10 DEF CloseStream, AbsWork, AbsSent
    <2>6. QED
      BY <2>1, <2>2, <2>3, <2>4, <2>5 DEF Stream!End
  <1>11. ASSUME NEW q \in Query, Block(q) \/ KeepAlive(q), pc[q] \in Suspended,
                UNCHANGED queryStatus
         PROVE  UNCHANGED Stream!absVars
    <2>1. UNCHANGED AbsState
      BY <1>0, <1>11 DEF Block, KeepAlive, AbsState, PC, Live, Suspended
    <2>2. UNCHANGED <<queryStatus, buf, received>>
      BY <1>11 DEF Block, KeepAlive
    <2>3. UNCHANGED <<AbsWork, AbsSent, received>>
      BY <2>2 DEF AbsWork, AbsSent
    <2>4. QED
      BY <2>1, <2>3 DEF Stream!absVars
  <1>12. ASSUME NEW q \in Query, Disconnect(q) PROVE Stream!Lose(q)
    <2>1. AbsState[q] = "open"
      BY <1>0, <1>12, MapAt DEF Disconnect
    <2>2. AbsState' = [AbsState EXCEPT ![q] = "lost"]
      BY <1>0, <1>12 DEF Disconnect, AbsState, PC, Live, Suspended
    <2>3. UNCHANGED <<AbsWork, AbsSent, received>>
      BY <1>12 DEF Disconnect, AbsWork, AbsSent
    <2>4. QED
      BY <2>1, <2>2, <2>3 DEF Stream!Lose
  <1>13. ASSUME NEW q \in Query, Resume(q) \/ WakeUp(q)
         PROVE  Stream!Deliver(q) \/ Stream!End(q) \/ UNCHANGED Stream!absVars
    BY <1>9, <1>10, <1>11, <1>13 DEF Resume, WakeUp, LoopTop, Suspended
  <1>14. ASSUME NEW q \in Query, KeepAlive(q) PROVE UNCHANGED Stream!absVars
    BY <1>11, <1>14 DEF KeepAlive, Suspended
  <1>15. QED
    BY <1>1, <1>2, <1>3, <1>4, <1>7, <1>8, <1>12, <1>13, <1>14 DEF Next, Stream!Next

\* The request handler, the pipeline task and the generator implement the
\* abstract stream: admission by key and loss-free, in-order delivery.
THEOREM GatewayImplementsEventStream == Spec => ImplementsEventStream
  BY RefineInit, RefineNext, SpecInv, PTL DEF Spec, ImplementsEventStream, Stream!Spec

=============================================================================
