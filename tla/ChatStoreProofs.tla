--------------------------- MODULE ChatStoreProofs ---------------------------
(***************************************************************************)
(* Proofs about SessionMemory and ChatStore, for any number of queries,    *)
(* sessions, turns and requests.  The invariant of the server's side is    *)
(* proved by itself; what the store needs of a step of the server is that  *)
(* a query that has arrived stays where it is and an answer stays given.   *)
(***************************************************************************)
EXTENDS ChatStore, SequenceTheorems, TLAPS

(***************************************************************************)
(* Turns                                                                   *)
(***************************************************************************)
LEMMA LastTurns ==
    ASSUME NEW S, NEW seq \in Seq(S), NEW n \in Nat
    PROVE  /\ Last(seq, n) \in Seq(S)
           /\ Len(Last(seq, n)) = IF Len(seq) > n THEN n ELSE Len(seq)
           /\ \A i \in 1..Len(Last(seq, n)) :
                Last(seq, n)[i] = seq[Len(seq) - Len(Last(seq, n)) + i]
  <1> DEFINE a == IF Len(seq) > n THEN Len(seq) - n + 1 ELSE 1
  <1>1. Len(seq) \in Nat /\ a \in 1..Len(seq) + 1
    OBVIOUS
  <1>2. \A i \in a..Len(seq) : seq[i] \in S
    BY <1>1
  <1>3. /\ SubSeq(seq, a, Len(seq)) \in Seq(S)
        /\ Len(SubSeq(seq, a, Len(seq))) = IF a <= Len(seq) THEN Len(seq) - a + 1 ELSE 0
        /\ \A i \in 1..Len(seq) - a + 1 : SubSeq(seq, a, Len(seq))[i] = seq[a + i - 1]
    <2> HIDE DEF a
    <2>1. QED BY <1>1, <1>2, SubSeqProperties
  <1>4. Last(seq, n) = SubSeq(seq, a, Len(seq))
    BY DEF Last
  <1>5. a = IF Len(seq) > n THEN Len(seq) - n + 1 ELSE 1
    OBVIOUS
  <1> DEFINE l == Last(seq, n)
  <1> HIDE DEF a
  <1>6. /\ l \in Seq(S) /\ Len(l) = IF a <= Len(seq) THEN Len(seq) - a + 1 ELSE 0
        /\ \A i \in 1..Len(seq) - a + 1 : l[i] = seq[a + i - 1]
    BY <1>3, <1>4
  <1> HIDE DEF l
  <1>7. Len(l) = Len(seq) - a + 1
    BY <1>1, <1>6
  <1>8. Len(l) = IF Len(seq) > n THEN n ELSE Len(seq)
    BY <1>1, <1>5, <1>7
  <1>9. \A i \in 1..Len(l) : l[i] = seq[Len(seq) - Len(l) + i]
    <2> SUFFICES ASSUME NEW i \in 1..Len(l) PROVE l[i] = seq[Len(seq) - Len(l) + i]
      OBVIOUS
    <2>1. i \in 1..Len(seq) - a + 1 /\ l[i] = seq[a + i - 1]
      BY <1>6, <1>7
    <2>2. a + i - 1 = Len(seq) - Len(l) + i
      BY <1>1, <1>7, <2>1
    <2>3. QED BY <2>1, <2>2
  <1>10. QED BY <1>6, <1>8, <1>9 DEF l

\* The turns of a session once query q is added.
LEMMA AddedTurn ==
    ASSUME MemoryAssumption, NEW old \in Seq(Queries), Len(old) <= MaxTurns, NEW q \in Queries,
           \A i \in DOMAIN old : old[i] # q,
           \A i, j \in DOMAIN old : old[i] = old[j] => i = j
    PROVE  LET new == KeepLast(Append(old, q))
           IN /\ new \in Seq(Queries) /\ new # <<>> /\ new[Len(new)] = q
              /\ \A i \in DOMAIN new : new[i] = q \/ \E j \in DOMAIN old : new[i] = old[j]
              /\ \A i, j \in DOMAIN new : new[i] = new[j] => i = j
              /\ Len(new) <= MaxTurns /\ Len(new) >= Len(old)
              /\ Len(new) = MaxTurns \/ \A i \in DOMAIN old : \E j \in DOMAIN new : new[j] = old[i]
              /\ \E i \in DOMAIN new : new[i] = q
  <1> DEFINE all == Append(old, q)
             new == KeepLast(all)
             d == Len(all) - Len(new)
  <1>1. /\ all \in Seq(Queries) /\ Len(all) = Len(old) + 1 /\ all[Len(old) + 1] = q
        /\ \A i \in 1..Len(old) : all[i] = old[i]
    BY AppendProperties
  <1>2. MaxTurns \in Nat /\ MaxTurns > 0 /\ Len(old) \in Nat
    BY DEF MemoryAssumption
  <1> HIDE DEF all
  <1>3. /\ new \in Seq(Queries)
        /\ Len(new) = IF Len(all) > MaxTurns THEN MaxTurns ELSE Len(all)
        /\ \A i \in 1..Len(new) : new[i] = all[d + i]
    BY <1>1, <1>2, LastTurns DEF KeepLast
  <1> HIDE DEF new
  <1>4. /\ DOMAIN new = 1..Len(new) /\ DOMAIN old = 1..Len(old) /\ Len(new) \in Nat
        /\ d \in Nat /\ Len(new) > 0 /\ d + Len(new) = Len(old) + 1
        /\ Len(new) <= MaxTurns /\ Len(new) >= Len(old)
    BY <1>1, <1>2, <1>3
  <1> HIDE DEF d
  <1>5. new[Len(new)] = q
    BY <1>1, <1>3, <1>4
  <1>6. \A i \in DOMAIN new : i # Len(new) => d + i \in DOMAIN old /\ new[i] = old[d + i]
    BY <1>1, <1>3, <1>4
  <1>7. \A i \in DOMAIN new : new[i] = q \/ \E j \in DOMAIN old : new[i] = old[j]
    BY <1>5, <1>6
  <1>8. \A i, j \in DOMAIN new : new[i] = new[j] => i = j
    <2> SUFFICES ASSUME NEW i \in DOMAIN new, NEW j \in DOMAIN new, new[i] = new[j] PROVE i = j
      OBVIOUS
    <2>1. CASE i # Len(new) /\ j # Len(new)
      <3>1. d + i = d + j
        BY <2>1, <1>6
      <3>2. QED BY <3>1, <1>4
    <2>2. CASE i = Len(new) \/ j = Len(new)
      BY <2>2, <1>5, <1>6
    <2>3. QED BY <2>1, <2>2
  <1>9. Len(new) = MaxTurns \/ \A i \in DOMAIN old : \E j \in DOMAIN new : new[j] = old[i]
    <2> SUFFICES ASSUME Len(new) # MaxTurns, NEW i \in DOMAIN old PROVE new[i] = old[i] /\ i \in DOMAIN new
      OBVIOUS
    <2>1. Len(new) = Len(all)
      BY <1>3
    <2>2. d = 0
      BY <2>1, <1>1, <1>4
    <2>3. QED BY <2>2, <1>1, <1>3, <1>4
  <1>10. new # <<>> /\ \E i \in DOMAIN new : new[i] = q
    BY <1>4, <1>5
  <1>11. QED
    BY <1>3, <1>4, <1>5, <1>7, <1>8, <1>9, <1>10 DEF new, all

(***************************************************************************)
(* The server                                                              *)
(***************************************************************************)
\* A query that has arrived stays in its session, and an answer stays given.
Steady ==
    \A q \in Queries : server[q].at # "away" =>
        /\ server'[q].at # "away" /\ server'[q].sid = server[q].sid
        /\ server[q].at = "answered" => server'[q].at = "answered"

LEMMA MemoryInitEstablishes == MemoryInit => MemoryInv
  <1> SUFFICES ASSUME MemoryInit PROVE MemoryInv
    OBVIOUS
  <1>1. /\ turns = [s \in Sessions |-> <<>>] /\ known = 0 /\ wiped = {}
        /\ server = [q \in Queries |-> NotThere] /\ newest = [s \in Sessions |-> None]
    BY DEF MemoryInit
  <1>2. \A q \in Queries :
           /\ server[q].at = "away" /\ server[q].sid = None
           /\ server[q].context = <<>> /\ server[q].stream = <<>>
    BY <1>1 DEF NotThere
  <1>3. MemoryTypeOK
    BY <1>1, MemoryAssumption DEF MemoryTypeOK, MemoryAssumption, NotThere, ServerStates
  <1>4. MemoryAgrees
    BY <1>1, <1>2, MemoryAssumption DEF MemoryAgrees, MemoryAssumption, Stored
  <1>5. TurnsAreRecent
    BY <1>1 DEF TurnsAreRecent
  <1>6. QED
    BY <1>3, <1>4, <1>5 DEF MemoryInv

LEMMA MemoryStays ==
    ASSUME MemoryInv, UNCHANGED <<turns, server, wiped, newest>>, known' \in 0..MaxSessions
    PROVE  MemoryInv' /\ Steady
  <1>1. MemoryTypeOK'
    BY DEF MemoryInv, MemoryTypeOK
  <1>2. MemoryAgrees'
    BY DEF MemoryInv, MemoryAgrees, Stored
  <1>3. TurnsAreRecent'
    BY DEF MemoryInv, TurnsAreRecent
  <1>4. QED
    BY <1>1, <1>2, <1>3 DEF MemoryInv, Steady

LEMMA ArriveKeeps ==
    ASSUME MemoryInv, NEW q \in Queries, NEW s \in Sessions, NEW accepted \in BOOLEAN,
           Arrive(q, s, accepted), known' \in 0..MaxSessions
    PROVE  /\ MemoryInv' /\ Steady
           /\ server'[q].at \in {"accepted", "refused"} /\ server'[q].sid = s
           /\ \A p \in Queries : p # q => server'[p] = server[p]
  <1>1. /\ server[q].at = "away" /\ turns' = turns /\ wiped' = wiped /\ newest' = newest
        /\ server' = [server EXCEPT ![q].at = IF accepted THEN "accepted" ELSE "refused", ![q].sid = s]
    BY DEF Arrive
  <1>2. /\ server'[q].at \in {"accepted", "refused"} /\ server'[q].sid = s
        /\ server'[q].stream = server[q].stream
        /\ \A p \in Queries : p # q => server'[p] = server[p]
    BY <1>1 DEF MemoryInv, MemoryTypeOK
  <1>3. MemoryTypeOK'
    BY <1>1 DEF MemoryInv, MemoryTypeOK, ServerStates
  <1>4. \A t \in Sessions : \A i \in DOMAIN turns[t] : turns[t][i] \in Queries /\ turns[t][i] # q
    BY <1>1 DEF MemoryInv, MemoryTypeOK, MemoryAgrees
  <1>5. MemoryAgrees'
    <2>1. \A p \in Queries :
             /\ server'[p].at # "away" => server'[p].sid \in Sessions
             /\ server'[p].stream # <<>> => server'[p].at = "answered"
      BY <1>1, <1>2 DEF MemoryInv, MemoryAgrees
    <2>2. \A t \in Sessions : Len(turns'[t]) <= MaxTurns
      BY <1>1 DEF MemoryInv, MemoryAgrees
    <2>3. \A t \in Sessions : \A i \in DOMAIN turns'[t] : server'[turns'[t][i]].at = "answered"
      <3>1. \A t \in Sessions : \A i \in DOMAIN turns[t] :
               server'[turns[t][i]] = server[turns[t][i]] /\ server[turns[t][i]].at = "answered"
        BY <1>2, <1>4 DEF MemoryInv, MemoryAgrees
      <3>2. turns' = turns
        BY <1>1
      <3>3. QED BY <3>1, <3>2
    <2>4. \A p \in Queries : server'[p].at = "answered" =>
             \/ server'[p].sid \in wiped' \/ Len(turns'[server'[p].sid]) = MaxTurns
             \/ \E i \in DOMAIN turns'[server'[p].sid] : turns'[server'[p].sid][i] = p
      <3>1. turns' = turns /\ wiped' = wiped
        BY <1>1
      <3>2. \A p \in Queries : server'[p].at = "answered" =>
               /\ server'[p].sid = server[p].sid
               /\ server[p].sid \in wiped \/ Stored(p, server[p].sid) \/ Len(turns[server[p].sid]) = MaxTurns
        BY <1>2 DEF MemoryInv, MemoryAgrees
      <3>3. QED BY <3>1, <3>2 DEF Stored
    <2>5. QED BY <2>1, <2>2, <2>3, <2>4 DEF MemoryAgrees, Stored
  <1>6. TurnsAreRecent'
    <2>1. \A t \in Sessions : \A i \in DOMAIN turns[t] : server'[turns[t][i]].sid = t
      BY <1>2, <1>4 DEF MemoryInv, TurnsAreRecent
    <2>2. turns' = turns /\ newest' = newest
      BY <1>1
    <2>3. QED BY <2>1, <2>2 DEF MemoryInv, TurnsAreRecent
  <1>7. QED
    BY <1>1, <1>2, <1>3, <1>5, <1>6 DEF MemoryInv, Steady

LEMMA ReadContextKeeps ==
    ASSUME MemoryInv, NEW q \in Queries, ReadContext(q)
    PROVE  MemoryInv' /\ Steady
  <1> DEFINE recent == Last(turns[server[q].sid], ContextTurns)
  <1>1. PICK ctx :
          /\ ctx \in {recent, <<>>}
          /\ server' = [server EXCEPT ![q].at = "running", ![q].context = ctx]
          /\ wiped' = IF ctx = recent THEN wiped ELSE wiped \cup {server[q].sid}
    BY DEF ReadContext
  <1>2. server[q].at = "accepted" /\ turns' = turns /\ known' = known /\ newest' = newest
    BY DEF ReadContext
  <1>3. server[q].sid \in Sessions
    BY <1>2 DEF MemoryInv, MemoryAgrees
  <1>4. turns[server[q].sid] \in Seq(Queries) /\ ContextTurns \in Nat
    BY <1>3, MemoryAssumption DEF MemoryInv, MemoryTypeOK, MemoryAssumption
  <1>5. ctx \in Seq(Queries)
    <2>1. recent \in Seq(Queries)
      BY <1>4, LastTurns
    <2> HIDE DEF recent
    <2>2. <<>> \in Seq(Queries)
      OBVIOUS
    <2>3. ctx = recent \/ ctx = <<>>
      BY <1>1, Zenon
    <2>4. QED BY <2>1, <2>2, <2>3
  <1>6. wiped \subseteq wiped' /\ wiped' \subseteq Sessions
    BY <1>1, <1>3 DEF MemoryInv, MemoryTypeOK
  <1> HIDE DEF recent
  <1>7. /\ server'[q].at = "running" /\ server'[q].sid = server[q].sid
        /\ server'[q].stream = server[q].stream
        /\ \A p \in Queries : p # q => server'[p] = server[p]
    BY <1>1 DEF MemoryInv, MemoryTypeOK
  <1>8. MemoryTypeOK'
    BY <1>1, <1>2, <1>5, <1>6 DEF MemoryInv, MemoryTypeOK, ServerStates
  <1>9. \A t \in Sessions : \A i \in DOMAIN turns[t] : turns[t][i] \in Queries /\ turns[t][i] # q
    BY <1>2 DEF MemoryInv, MemoryTypeOK, MemoryAgrees
  <1>10. MemoryAgrees'
    BY <1>2, <1>6, <1>7, <1>9 DEF MemoryInv, MemoryAgrees, Stored
  <1>11. TurnsAreRecent'
    BY <1>2, <1>7, <1>9 DEF MemoryInv, TurnsAreRecent, Stored
  <1>12. QED
    BY <1>2, <1>7, <1>8, <1>10, <1>11 DEF MemoryInv, Steady

LEMMA AnswerKeeps ==
    ASSUME MemoryInv, NEW q \in Queries, Answer(q)
    PROVE  MemoryInv' /\ Steady
  <1> DEFINE s == server[q].sid
  <1>1. PICK stream :
          /\ stream \in Streams
          /\ server' = [server EXCEPT ![q].at = "answered", ![q].context = <<>>, ![q].stream = stream]
    BY DEF Answer
  <1>2. /\ server[q].at \in {"accepted", "running"} /\ known' = known
        /\ AddTurn(s, q) \/ LoseTurn(s)
    BY DEF Answer
  <1>3. s \in Sessions /\ turns[s] \in Seq(Queries) /\ Len(turns[s]) <= MaxTurns
    BY <1>2 DEF MemoryInv, MemoryAgrees, MemoryTypeOK
  <1>4. /\ server'[q].at = "answered" /\ server'[q].sid = s
        /\ \A p \in Queries : p # q => server'[p] = server[p]
    BY <1>1 DEF MemoryInv, MemoryTypeOK
  <1>5. server' \in [Queries -> [at: ServerStates, sid: Sessions \cup {None},
                                 context: Seq(Queries), stream: Streams \cup {<<>>}]]
    <2>1. <<>> \in Seq(Queries) /\ stream \in Streams \cup {<<>>} /\ "answered" \in ServerStates
      BY <1>1 DEF ServerStates
    <2>2. server' = [p \in Queries |-> IF p = q THEN [server[q] EXCEPT !.at = "answered", !.context = <<>>,
                                                                      !.stream = stream]
                                      ELSE server[p]]
      BY <1>1 DEF MemoryInv, MemoryTypeOK
    <2>3. QED BY <2>1, <2>2 DEF MemoryInv, MemoryTypeOK
  <1>6. \A t \in Sessions : \A i \in DOMAIN turns[t] :
           turns[t][i] \in Queries /\ turns[t][i] # q /\ server[turns[t][i]].at = "answered"
    BY <1>2 DEF MemoryInv, MemoryTypeOK, MemoryAgrees, Stored
  <1>7. Steady
    BY <1>4 DEF Steady
  <1>8. CASE LoseTurn(s)
    <2>1. turns' = turns /\ newest' = newest /\ wiped' = wiped \cup {s}
      BY <1>8 DEF LoseTurn
    <2>2. MemoryTypeOK'
      BY <2>1, <1>2, <1>3, <1>5 DEF MemoryInv, MemoryTypeOK
    <2>3. MemoryAgrees'
      BY <2>1, <1>3, <1>4, <1>6 DEF MemoryInv, MemoryAgrees, Stored
    <2>4. TurnsAreRecent'
      BY <2>1, <1>4, <1>6 DEF MemoryInv, TurnsAreRecent
    <2>5. QED BY <2>2, <2>3, <2>4, <1>7 DEF MemoryInv
  <1>9. CASE AddTurn(s, q)
    <2> DEFINE new == KeepLast(Append(turns[s], q))
    <2>1. turns' = [turns EXCEPT ![s] = new] /\ newest' = [newest EXCEPT ![s] = q] /\ wiped' = wiped
      BY <1>9 DEF AddTurn
    <2>2. /\ new \in Seq(Queries) /\ new # <<>> /\ new[Len(new)] = q
          /\ \A i \in DOMAIN new : new[i] = q \/ \E j \in DOMAIN turns[s] : new[i] = turns[s][j]
          /\ \A i, j \in DOMAIN new : new[i] = new[j] => i = j
          /\ Len(new) <= MaxTurns /\ Len(new) >= Len(turns[s])
          /\ Len(new) = MaxTurns \/ \A i \in DOMAIN turns[s] : \E j \in DOMAIN new : new[j] = turns[s][i]
          /\ \E i \in DOMAIN new : new[i] = q
      <3>1. \A i, j \in DOMAIN turns[s] : turns[s][i] = turns[s][j] => i = j
        BY <1>3 DEF MemoryInv, TurnsAreRecent
      <3>2. \A i \in DOMAIN turns[s] : turns[s][i] # q
        BY <1>3, <1>6
      <3> DEFINE old == turns[s]
      <3>3. /\ old \in Seq(Queries) /\ Len(old) <= MaxTurns
            /\ \A i, j \in DOMAIN old : old[i] = old[j] => i = j
            /\ \A i \in DOMAIN old : old[i] # q
        BY <1>3, <3>1, <3>2
      <3> HIDE DEF old
      <3>4. QED BY <3>3, AddedTurn, MemoryAssumption DEF old
    <2> HIDE DEF new
    <2>3. /\ turns'[s] = new /\ newest'[s] = q
          /\ \A t \in Sessions : t # s => turns'[t] = turns[t] /\ newest'[t] = newest[t]
      BY <2>1, <1>3 DEF MemoryInv, MemoryTypeOK
    <2>4. MemoryTypeOK'
      BY <2>1, <2>2, <1>2, <1>3, <1>5 DEF MemoryInv, MemoryTypeOK
    <2>5. \A t \in Sessions : \A i \in DOMAIN turns'[t] :
             /\ turns'[t][i] \in Queries /\ server'[turns'[t][i]].at = "answered"
             /\ server'[turns'[t][i]].sid = t
      <3> SUFFICES ASSUME NEW t \in Sessions, NEW i \in DOMAIN turns'[t]
                   PROVE  /\ turns'[t][i] \in Queries /\ server'[turns'[t][i]].at = "answered"
                          /\ server'[turns'[t][i]].sid = t
        OBVIOUS
      <3>1. \A j \in DOMAIN turns[t] : server[turns[t][j]].sid = t
        BY DEF MemoryInv, TurnsAreRecent
      <3>2. CASE turns'[t][i] = q /\ t = s
        BY <3>2, <1>4
      <3>3. CASE \E j \in DOMAIN turns[t] : turns'[t][i] = turns[t][j]
        BY <3>1, <3>3, <1>4, <1>6
      <3>4. QED BY <3>2, <3>3, <2>2, <2>3
    <2>6. \A p \in Queries : server'[p].at = "answered" =>
             \/ server'[p].sid \in wiped' \/ Len(turns'[server'[p].sid]) = MaxTurns
             \/ \E i \in DOMAIN turns'[server'[p].sid] : turns'[server'[p].sid][i] = p
      <3> SUFFICES ASSUME NEW p \in Queries, server'[p].at = "answered", server'[p].sid \notin wiped'
                   PROVE  \/ Len(turns'[server'[p].sid]) = MaxTurns
                          \/ \E i \in DOMAIN turns'[server'[p].sid] : turns'[server'[p].sid][i] = p
        OBVIOUS
      <3>1. CASE p = q
        BY <3>1, <1>4, <2>2, <2>3 DEF Stored
      <3>2. CASE p # q
        <4> DEFINE t == server[p].sid
        <4>1. server'[p].sid = t /\ t \in Sessions /\ (Stored(p, t) \/ Len(turns[t]) = MaxTurns)
          BY <3>2, <1>4, <2>1 DEF MemoryInv, MemoryAgrees
        <4>2. CASE t # s
          BY <4>1, <4>2, <2>3 DEF Stored
        <4>3. CASE t = s
          <5>1. CASE Len(turns[s]) = MaxTurns
            BY <5>1, <4>1, <4>3, <2>2, <2>3, MemoryAssumption DEF MemoryAssumption
          <5>2. CASE Stored(p, s)
            BY <5>2, <4>1, <4>3, <2>2, <2>3 DEF Stored
          <5>3. QED BY <5>1, <5>2, <4>1, <4>3
        <4>4. QED BY <4>2, <4>3
      <3>3. QED BY <3>1, <3>2
    <2>7. \A t \in Sessions : Len(turns'[t]) <= MaxTurns
      BY <2>2, <2>3 DEF MemoryInv, MemoryAgrees
    <2>8. \A p \in Queries :
             /\ server'[p].at # "away" => server'[p].sid \in Sessions
             /\ server'[p].stream # <<>> => server'[p].at = "answered"
      BY <1>3, <1>4 DEF MemoryInv, MemoryAgrees
    <2>9. MemoryAgrees'
      BY <2>5, <2>6, <2>7, <2>8 DEF MemoryAgrees, Stored
    <2>10. TurnsAreRecent'
      <3>1. \A t \in Sessions : \A i, j \in DOMAIN turns'[t] : turns'[t][i] = turns'[t][j] => i = j
        BY <2>2, <2>3 DEF MemoryInv, TurnsAreRecent
      <3>2. \A t \in Sessions : newest'[t] # None => turns'[t] # <<>> /\ turns'[t][Len(turns'[t])] = newest'[t]
        BY <2>2, <2>3 DEF MemoryInv, TurnsAreRecent
      <3>3. QED BY <2>5, <3>1, <3>2 DEF TurnsAreRecent
    <2>11. QED BY <2>4, <2>9, <2>10, <1>7 DEF MemoryInv
  <1>10. QED
    BY <1>2, <1>8, <1>9

LEMMA ForgetKeeps ==
    ASSUME MemoryInv, NEW s \in Sessions, Forget(s)
    PROVE  MemoryInv' /\ Steady
  <1>1. /\ turns' = [turns EXCEPT ![s] = <<>>] /\ wiped' = wiped \cup {s}
        /\ newest' = [newest EXCEPT ![s] = None] /\ known' = known /\ server' = server
    BY DEF Forget
  <1>2. /\ turns'[s] = <<>> /\ newest'[s] = None
        /\ \A t \in Sessions : t # s => turns'[t] = turns[t] /\ newest'[t] = newest[t]
    BY <1>1 DEF MemoryInv, MemoryTypeOK
  <1>3. MemoryTypeOK'
    BY <1>1 DEF MemoryInv, MemoryTypeOK
  <1>4. MemoryAgrees'
    <2>1. \A t \in Sessions : Len(turns'[t]) <= MaxTurns
      BY <1>2, MemoryAssumption DEF MemoryInv, MemoryAgrees, MemoryAssumption
    <2>2. \A t \in Sessions : \A i \in DOMAIN turns'[t] : server'[turns'[t][i]].at = "answered"
      BY <1>1, <1>2 DEF MemoryInv, MemoryAgrees, Stored
    <2>3. \A q \in Queries : server'[q].at = "answered" =>
             \/ server'[q].sid \in wiped' \/ Len(turns'[server'[q].sid]) = MaxTurns
             \/ \E i \in DOMAIN turns'[server'[q].sid] : turns'[server'[q].sid][i] = q
      BY <1>1, <1>2 DEF MemoryInv, MemoryAgrees, Stored
    <2>4. \A q \in Queries :
             /\ server'[q].at # "away" => server'[q].sid \in Sessions
             /\ server'[q].stream # <<>> => server'[q].at = "answered"
      BY <1>1 DEF MemoryInv, MemoryAgrees
    <2>5. QED BY <2>1, <2>2, <2>3, <2>4 DEF MemoryAgrees, Stored
  <1>5. TurnsAreRecent'
    BY <1>1, <1>2 DEF MemoryInv, TurnsAreRecent
  <1>6. QED
    BY <1>1, <1>3, <1>4, <1>5 DEF MemoryInv, Steady

(***************************************************************************)
(* What the lemmas about the store's actions share                         *)
(***************************************************************************)
MessageSet == [query: Queries, shows: Shows]
CallSet == [at: {"free", "asked", "answered", "over"},
            kind: {"none", "confirm", "load", "new", "delete"},
            sid: Sessions \cup {None}, query: Queries \cup {None}, turns: Seq(Queries)]
ClientSet == [at: {"unsent", "sent", "reading", "done", "failed", "aborted", "refused"},
              sid: Sessions \cup {None}, read: 0..2, knew: SUBSET Queries]

\* The types of what the store keeps besides the messages, the queries and the calls.
FieldsOK ==
    /\ sessionId \in Sessions \cup {None} /\ queryState \in {"idle", "running", "await_confirm"}
    /\ controller \in Queries \cup {None}
    /\ awaited \in {"query", "confirm"} /\ late \subseteq Calls /\ overtaken \in BOOLEAN

\* A query keeps its session and what its user knew, stays unsent or sent, and
\* becomes done only when it was answered.
ClientGoesOn ==
    /\ client' \in [Queries -> ClientSet]
    /\ \A p \in Queries :
          /\ client'[p].sid = client[p].sid /\ client'[p].knew = client[p].knew
          /\ (client'[p].at = "unsent") <=> (client[p].at = "unsent")
          /\ client'[p].at = "done" => client[p].at = "done" \/ server[p].at = "answered"

\* Every message stays where it is, and a turn stays a turn.
MessagesStay ==
    /\ messages' \in Seq(MessageSet)
    /\ \A i \in DOMAIN messages' :
          /\ i \in DOMAIN messages /\ messages'[i].query = messages[i].query
          /\ (messages'[i].shows = "turn") <=> (messages[i].shows = "turn")

\* What the messages show is still of the session on show.
SessionStays == UNCHANGED <<sessionId, history>>

LEMMA TypeParts ==
    TypeOK <=> /\ MemoryTypeOK /\ FieldsOK /\ messages \in Seq(MessageSet)
               /\ client \in [Queries -> ClientSet] /\ calls \in [Calls -> CallSet]
  BY DEF TypeOK, FieldsOK, MessageSet, ClientSet, CallSet

\* Every message on show is of a query.
LEMMA MessageTypes ==
    ASSUME TypeOK
    PROVE  \A i \in DOMAIN messages : messages[i].query \in Queries /\ messages[i].shows \in Shows
  <1>1. messages \in Seq(MessageSet)
    BY TypeParts
  <1>2. \A i \in DOMAIN messages : messages[i] \in MessageSet
    BY <1>1
  <1>3. QED BY <1>2 DEF MessageSet

\* A message of the store is changed in place.
LEMMA ShownStays ==
    ASSUME TypeOK, NEW q \in Queries, NEW shows \in Shows, shows # "turn", messages' = Shown(q, shows)
    PROVE  MessagesStay
  <1>1. messages \in Seq(MessageSet)
    BY TypeParts
  <1>2. messages' = [i \in DOMAIN messages |->
                       IF messages[i].query = q /\ messages[i].shows # "turn" THEN Message(q, shows) ELSE messages[i]]
    BY DEF Shown
  <1>3. Message(q, shows) \in MessageSet /\ Message(q, shows).query = q /\ Message(q, shows).shows = shows
    BY DEF Message, MessageSet
  <1> DEFINE n == Len(messages)
  <1>4. n \in Nat /\ DOMAIN messages = 1..n /\ \A i \in 1..n : messages[i] \in MessageSet
    BY <1>1
  <1> HIDE DEF n
  <1>5. messages' \in [1..n -> MessageSet]
    BY <1>2, <1>3, <1>4
  <1>6. messages' \in Seq(MessageSet)
    BY <1>4, <1>5
  <1>7. \A i \in DOMAIN messages' :
          /\ i \in DOMAIN messages /\ messages'[i].query = messages[i].query
          /\ (messages'[i].shows = "turn") <=> (messages[i].shows = "turn")
    BY <1>2, <1>3
  <1>8. QED
    BY <1>6, <1>7 DEF MessagesStay

LEMMA SameMessagesStay ==
    ASSUME TypeOK, messages' = messages
    PROVE  MessagesStay
  BY TypeParts DEF MessagesStay

LEMMA SameClientGoesOn ==
    ASSUME TypeOK, client' = client
    PROVE  ClientGoesOn
  BY TypeParts DEF ClientGoesOn

\* An aborted query has been sent.
LEMMA AbortedTypes ==
    ASSUME TypeOK, StateHasACause
    PROVE  /\ Aborted \in [Queries -> ClientSet]
           /\ \A p \in Queries :
                 /\ Aborted[p].sid = client[p].sid /\ Aborted[p].knew = client[p].knew
                 /\ (Aborted[p].at = "unsent") <=> (client[p].at = "unsent")
                 /\ Aborted[p].at = "done" => client[p].at = "done"
  <1>1. client \in [Queries -> ClientSet] /\ controller \in Queries \cup {None}
    BY TypeParts DEF FieldsOK
  <1>2. Aborted = [q \in Queries |-> IF q = controller THEN [client[q] EXCEPT !.at = "aborted", !.read = 0]
                                     ELSE client[q]]
    BY DEF Aborted
  <1>3. Aborted \in [Queries -> ClientSet]
    <2>1. \A r \in ClientSet : [r EXCEPT !.at = "aborted"] \in ClientSet
      BY DEF ClientSet
    <2>2. \A r \in ClientSet : [r EXCEPT !.read = 0] \in ClientSet
      BY DEF ClientSet
    <2>3. \A r \in ClientSet : [r EXCEPT !.at = "aborted", !.read = 0] \in ClientSet
      BY <2>1, <2>2
    <2>4. QED BY <1>1, <1>2, <2>3
  <1>4. \A p \in Queries : p = controller => client[p].at # "unsent"
    BY DEF StateHasACause, Live, None, Queries
  <1>5. \A p \in Queries :
          /\ Aborted[p].sid = client[p].sid /\ Aborted[p].knew = client[p].knew
          /\ Aborted[p].at = IF p = controller THEN "aborted" ELSE client[p].at
    <2> SUFFICES ASSUME NEW p \in Queries
                 PROVE  /\ Aborted[p].sid = client[p].sid /\ Aborted[p].knew = client[p].knew
                        /\ Aborted[p].at = IF p = controller THEN "aborted" ELSE client[p].at
      OBVIOUS
    <2>1. CASE p = controller
      <3>1. Aborted[p] = [client[p] EXCEPT !.at = "aborted", !.read = 0] /\ client[p] \in ClientSet
        BY <2>1, <1>1, <1>2
      <3>2. QED BY <3>1, <2>1 DEF ClientSet
    <2>2. CASE p # controller
      BY <2>2, <1>2
    <2>3. QED BY <2>1, <2>2
  <1>6. QED
    BY <1>3, <1>4, <1>5

LEMMA AbortedGoesOn ==
    ASSUME TypeOK, StateHasACause, client' = Aborted
    PROVE  ClientGoesOn
  BY AbortedTypes DEF ClientGoesOn

\* What the queries and the calls know stays true while the server does nothing.
LEMMA ClientGoingOnKeeps ==
    ASSUME ChatInv, ClientGoesOn, UNCHANGED <<turns, server, wiped, newest>>
    PROVE  ClientAgrees' /\ ContextComplete'
  <1>1. ClientAgrees'
    BY DEF ChatInv, ClientAgrees, ClientGoesOn, Answers
  <1>2. ContextComplete'
    BY DEF ChatInv, ContextComplete, ClientGoesOn
  <1>3. QED BY <1>1, <1>2

\* A load that was not overtaken is of the session on show, so there is none while
\* none is on show.
LEMMA CallsStay ==
    ASSUME ChatInv, UNCHANGED <<server, calls, late>>, sessionId' = sessionId \/ sessionId = None
    PROVE  CallsAgree'
  <1>1. \A c \in Loading \ late : calls[c].sid = sessionId /\ sessionId \in Sessions
    BY DEF ChatInv, CallsAgree, Loading
  <1>2. \A c \in Loading \ late : calls[c].sid = sessionId'
    BY <1>1 DEF None, Sessions
  <1>3. QED
    BY <1>2 DEF ChatInv, CallsAgree, Answers, Pending, Loading

LEMMA MessagesStaying ==
    ASSUME ChatInv, MessagesStay, ClientGoesOn, SessionStays, UNCHANGED <<turns, server, wiped, newest>>
    PROVE  MessagesAgree' /\ HistoryOwn'
  <1>1. \A i \in DOMAIN messages : messages[i].query \in Queries
    BY MessageTypes DEF ChatInv
  <1>2. MessagesAgree'
    BY <1>1 DEF ChatInv, MessagesAgree, MessagesStay, ClientGoesOn
  <1>3. Begun(sessionId) => Begun(sessionId)'
    BY DEF Begun, ClientGoesOn, SessionStays
  <1>4. HistoryOwn'
    BY <1>1, <1>3 DEF ChatInv, HistoryOwn, MessagesStay, ClientGoesOn, SessionStays, history
  <1>5. QED BY <1>2, <1>4

LEMMA NoMessages ==
    ASSUME messages' = <<>>
    PROVE  MessagesAgree' /\ HistoryOwn' /\ messages' \in Seq(MessageSet)
  BY DEF MessagesAgree, HistoryOwn

\* A step of the store, the server doing nothing.
LEMMA ClientStep ==
    ASSUME ChatInv, ClientGoesOn, UNCHANGED <<turns, server, wiped, newest>>, known' \in 0..MaxSessions,
           FieldsOK', StateHasACause', calls' \in [Calls -> CallSet], CallsAgree',
           messages' \in Seq(MessageSet), MessagesAgree', HistoryOwn'
    PROVE  ChatInv'
  <1>1. MemoryInv'
    BY MemoryStays DEF ChatInv
  <1>2. ClientAgrees' /\ ContextComplete'
    BY ClientGoingOnKeeps
  <1>3. TypeOK'
    BY <1>1 DEF MemoryInv, TypeOK, FieldsOK, ClientGoesOn, MessageSet, ClientSet, CallSet
  <1>4. QED
    BY <1>1, <1>2, <1>3 DEF ChatInv

\* The same when the session, the messages and the calls stay.
LEMMA StoreStep ==
    ASSUME ChatInv, MessagesStay, ClientGoesOn, SessionStays, UNCHANGED <<memory, calls>>,
           FieldsOK', StateHasACause'
    PROVE  ChatInv'
  <1>1. UNCHANGED <<turns, server, wiped, newest>> /\ known' \in 0..MaxSessions /\ UNCHANGED <<server, calls, sessionId, late>>
    BY DEF memory, ChatInv, MemoryInv, MemoryTypeOK, SessionStays, history
  <1>2. CallsAgree' /\ MessagesAgree' /\ HistoryOwn'
    BY <1>1, CallsStay, MessagesStaying
  <1>3. calls' \in [Calls -> CallSet] /\ messages' \in Seq(MessageSet)
    BY TypeParts DEF ChatInv, MessagesStay
  <1>4. QED
    BY <1>1, <1>2, <1>3, ClientStep

(***************************************************************************)
(* Queries                                                                 *)
(***************************************************************************)
\* The fields of a query that is over.
LEMMA ClientFields ==
    \A r \in ClientSet : \A at \in {"done", "failed"} :
        /\ [r EXCEPT !.at = at, !.read = 0] \in ClientSet
        /\ [r EXCEPT !.at = at, !.read = 0].at = at /\ [r EXCEPT !.at = at, !.read = 0].sid = r.sid
        /\ [r EXCEPT !.at = at, !.read = 0].knew = r.knew
  <1> TAKE r \in ClientSet
  <1> TAKE at \in {"done", "failed"}
  <1>1. [r EXCEPT !.at = at] \in ClientSet /\ \A x \in ClientSet : [x EXCEPT !.read = 0] \in ClientSet
    BY DEF ClientSet
  <1>2. [r EXCEPT !.at = at].at = at /\ [r EXCEPT !.at = at].sid = r.sid /\ [r EXCEPT !.at = at].knew = r.knew
    BY DEF ClientSet
  <1>3. \A x \in ClientSet :
           /\ [x EXCEPT !.read = 0].at = x.at /\ [x EXCEPT !.read = 0].sid = x.sid
           /\ [x EXCEPT !.read = 0].knew = x.knew
    BY DEF ClientSet
  <1>4. QED BY <1>1, <1>2, <1>3

LEMMA RefusedKeeps ==
    ASSUME ChatInv, NEW q \in Queries, Refused(q)
    PROVE  ChatInv'
  <1>1. /\ client[q].at = "sent" /\ client' = [client EXCEPT ![q].at = "refused"]
        /\ queryState' = "idle" /\ controller' = None
        /\ UNCHANGED <<memory, sessionId, messages, calls, awaited, history>>
    BY DEF Refused, Rest
  <1>2. client \in [Queries -> ClientSet] /\ FieldsOK /\ TypeOK
    BY TypeParts DEF ChatInv
  <1>3. ClientGoesOn
    BY <1>1, <1>2 DEF ClientGoesOn, ClientSet
  <1>4. MessagesStay /\ SessionStays
    BY <1>1, <1>2, SameMessagesStay DEF SessionStays
  <1>5. FieldsOK' /\ StateHasACause'
    BY <1>1, <1>2 DEF FieldsOK, StateHasACause, history
  <1>6. UNCHANGED <<memory, calls>>
    BY <1>1
  <1>7. QED
    BY <1>3, <1>4, <1>5, <1>6, StoreStep

LEMMA FailKeeps ==
    ASSUME ChatInv, NEW q \in Queries, Fail(q)
    PROVE  ChatInv'
  <1>1. /\ client[q].at \in {"sent", "reading"} /\ client' = [client EXCEPT ![q].at = "failed", ![q].read = 0]
        /\ queryState' = "idle" /\ controller' = None /\ messages' = Shown(q, "error")
        /\ UNCHANGED <<memory, sessionId, calls, awaited, history>>
    BY DEF Fail, Rest, Live
  <1>2. client \in [Queries -> ClientSet] /\ FieldsOK /\ TypeOK
    BY TypeParts DEF ChatInv
  <1>3. ClientGoesOn
    <2>1. client' = [p \in Queries |-> IF p = q THEN [client[q] EXCEPT !.at = "failed", !.read = 0] ELSE client[p]]
      BY <1>1, <1>2
    <2>2. \A r \in ClientSet :
             /\ [r EXCEPT !.at = "failed", !.read = 0] \in ClientSet
             /\ [r EXCEPT !.at = "failed", !.read = 0].at = "failed"
             /\ [r EXCEPT !.at = "failed", !.read = 0].sid = r.sid
             /\ [r EXCEPT !.at = "failed", !.read = 0].knew = r.knew
      <3>1. "failed" \in {"done", "failed"}
        OBVIOUS
      <3>2. QED BY <3>1, ClientFields, Zenon
    <2>3. client' \in [Queries -> ClientSet]
      BY <1>2, <2>1, <2>2
    <2>4. /\ client'[q].at = "failed" /\ client'[q].sid = client[q].sid /\ client'[q].knew = client[q].knew
          /\ \A p \in Queries : p # q => client'[p] = client[p]
      BY <1>2, <2>1, <2>2
    <2>5. QED BY <1>1, <2>3, <2>4 DEF ClientGoesOn
  <1>4. MessagesStay /\ SessionStays
    BY <1>1, <1>2, ShownStays DEF SessionStays, Shows
  <1>5. FieldsOK' /\ StateHasACause'
    BY <1>1, <1>2 DEF FieldsOK, StateHasACause, history
  <1>6. UNCHANGED <<memory, calls>>
    BY <1>1
  <1>7. QED
    BY <1>3, <1>4, <1>5, <1>6, StoreStep

LEMMA CancelKeeps ==
    ASSUME ChatInv, Cancel
    PROVE  ChatInv'
  <1>1. /\ client' = Aborted /\ queryState' = "idle" /\ controller' = None
        /\ UNCHANGED <<memory, sessionId, messages, calls, awaited, history>>
    BY DEF Cancel, Rest
  <1>2. FieldsOK /\ TypeOK /\ StateHasACause
    BY TypeParts DEF ChatInv
  <1>3. ClientGoesOn /\ MessagesStay /\ SessionStays
    BY <1>1, <1>2, AbortedGoesOn, SameMessagesStay DEF SessionStays
  <1>4. FieldsOK' /\ StateHasACause'
    BY <1>1, <1>2 DEF FieldsOK, StateHasACause, history
  <1>5. UNCHANGED <<memory, calls>>
    BY <1>1
  <1>6. QED
    BY <1>3, <1>4, <1>5, StoreStep

LEMMA CancelConfirmKeeps ==
    ASSUME ChatInv, NEW q \in Queries, CancelConfirm(q)
    PROVE  ChatInv'
  <1>1. /\ messages' = Shown(q, "cancelled") /\ queryState' = "idle"
        /\ UNCHANGED <<memory, sessionId, controller, client, calls, awaited, history>>
    BY DEF CancelConfirm
  <1>2. FieldsOK /\ TypeOK
    BY TypeParts DEF ChatInv
  <1>3. ClientGoesOn /\ MessagesStay /\ SessionStays
    BY <1>1, <1>2, SameClientGoesOn, ShownStays DEF SessionStays, Shows
  <1>4. FieldsOK' /\ StateHasACause'
    BY <1>1, <1>2 DEF FieldsOK, ChatInv, StateHasACause, Live, history
  <1>5. UNCHANGED <<memory, calls>>
    BY <1>1
  <1>6. QED
    BY <1>3, <1>4, <1>5, StoreStep

\* What a stream holds, and that it is there only once the query was answered.
LEMMA StreamEvents ==
    ASSUME MemoryInv, NEW q \in Queries, NEW n \in Nat \ {0}, n <= Len(server[q].stream)
    PROVE  /\ server[q].at = "answered" /\ n \in 1..2
           /\ server[q].stream[n] \in {"result", "confirm", "error", "done"}
  <1>1. server[q].stream \in Streams \cup {<<>>}
    BY DEF MemoryInv, MemoryTypeOK
  <1>2. server[q].stream # <<>>
    BY <1>1
  <1>3. server[q].at = "answered"
    BY <1>2 DEF MemoryInv, MemoryAgrees
  <1> DEFINE stream == server[q].stream
  <1>4. stream \in {<<"result", "done">>, <<"confirm", "done">>, <<"error", "done">>} /\ n <= Len(stream)
    BY <1>1, <1>2 DEF Streams
  <1> HIDE DEF stream
  <1>5. Len(stream) = 2 /\ stream[1] \in {"result", "confirm", "error"} /\ stream[2] = "done"
    <2>1. CASE stream = <<"result", "done">>
      BY <2>1
    <2>2. CASE stream = <<"confirm", "done">>
      BY <2>2
    <2>3. CASE stream = <<"error", "done">>
      BY <2>3
    <2>4. QED BY <1>4, <2>1, <2>2, <2>3
  <1>6. n \in 1..2
    BY <1>4, <1>5
  <1>7. stream[n] \in {"result", "confirm", "error", "done"}
    BY <1>5, <1>6
  <1>8. QED BY <1>3, <1>6, <1>7 DEF stream

LEMMA ReadKeeps ==
    ASSUME ChatInv, NEW q \in Queries, Read(q)
    PROVE  ChatInv'
  <1> DEFINE n == client[q].read + 1
             event == server[q].stream[n]
  <1>1. /\ client[q].at = "reading" /\ n <= Len(server[q].stream) /\ Handle(q, event)
        /\ client' = [client EXCEPT ![q] = IF event = "done" THEN [@ EXCEPT !.at = "done", !.read = 0]
                                                             ELSE [@ EXCEPT !.read = n]]
        /\ UNCHANGED <<memory, sessionId, calls, awaited, history>>
    BY DEF Read
  <1>2. client \in [Queries -> ClientSet] /\ FieldsOK /\ TypeOK
    BY TypeParts DEF ChatInv
  <1>3. client[q] \in ClientSet /\ n \in Nat \ {0}
    BY <1>2 DEF ClientSet
  <1>4. server[q].at = "answered" /\ n \in 1..2 /\ event \in {"result", "confirm", "error", "done"}
    <2> HIDE DEF n
    <2>1. QED BY <1>1, <1>3, StreamEvents DEF ChatInv
  <1> HIDE DEF n, event
  <1>5. /\ client'[q] \in ClientSet /\ client'[q].sid = client[q].sid /\ client'[q].knew = client[q].knew
        /\ client'[q].at = IF event = "done" THEN "done" ELSE "reading"
        /\ client' \in [Queries -> ClientSet]
        /\ \A p \in Queries : p # q => client'[p] = client[p]
    <2> DEFINE new == IF event = "done" THEN [client[q] EXCEPT !.at = "done", !.read = 0]
                                        ELSE [client[q] EXCEPT !.read = n]
    <2>1. new \in ClientSet /\ new.sid = client[q].sid /\ new.knew = client[q].knew
          /\ new.at = IF event = "done" THEN "done" ELSE "reading"
      <3>1. CASE event = "done"
        <4>1. "done" \in {"done", "failed"}
          OBVIOUS
        <4>2. QED BY <4>1, <3>1, <1>3, ClientFields, Zenon
      <3>2. CASE event # "done"
        BY <3>2, <1>1, <1>3, <1>4 DEF ClientSet
      <3>3. QED BY <3>1, <3>2
    <2>2. client' = [client EXCEPT ![q] = new]
      BY <1>1
    <2> HIDE DEF new
    <2>3. QED BY <1>2, <2>1, <2>2
  <1>6. ClientGoesOn
    BY <1>1, <1>4, <1>5 DEF ClientGoesOn
  <1>7. /\ MessagesStay /\ queryState' \in {"idle", "await_confirm", queryState}
        /\ controller' = IF event = "done" THEN None ELSE controller
        /\ event = "done" => queryState' = "idle"
    <2>1. CASE event = "result"
      BY <2>1, <1>1, <1>2, ShownStays DEF Handle, Shows
    <2>2. CASE event = "confirm"
      BY <2>2, <1>1, <1>2, ShownStays DEF Handle, Shows
    <2>3. CASE event = "error"
      BY <2>3, <1>1, <1>2, ShownStays DEF Handle, Shows
    <2>4. CASE event = "done"
      BY <2>4, <1>1, <1>2, SameMessagesStay DEF Handle, Rest
    <2>5. QED BY <2>1, <2>2, <2>3, <2>4, <1>4
  <1>8. SessionStays /\ UNCHANGED <<memory, calls>>
    BY <1>1 DEF SessionStays
  <1>9. FieldsOK'
    BY <1>1, <1>2, <1>7 DEF FieldsOK, history
  <1>10. StateHasACause'
    BY <1>1, <1>2, <1>5, <1>7 DEF StateHasACause, Live, ChatInv, FieldsOK
  <1>11. QED
    BY <1>6, <1>7, <1>8, <1>9, <1>10, StoreStep

LEMMA SendKeeps ==
    ASSUME ChatInv, NEW q \in Queries, Send(q)
    PROVE  ChatInv'
  <1> DEFINE new == [at |-> "sent", sid |-> sessionId, read |-> 0, knew |-> Seen(sessionId)]
  <1>1. /\ client[q].at = "unsent" /\ messages' = Append(messages, Message(q, "thinking"))
        /\ \/ controller = None /\ queryState' = "running" /\ controller' = q
           \/ controller # None /\ queryState' = "idle" /\ controller' = None
        /\ client' = [Aborted EXCEPT ![q] = new] /\ awaited' = "query"
        /\ UNCHANGED <<turns, known, server, wiped, newest, sessionId, calls, late, overtaken>>
    BY DEF Send, Rest, memory, history
  <1>2. client \in [Queries -> ClientSet] /\ FieldsOK /\ TypeOK /\ StateHasACause /\ messages \in Seq(MessageSet)
    BY TypeParts DEF ChatInv
  <1>3. server[q].at = "away"
    BY <1>1 DEF ChatInv, ClientAgrees
  <1>4. new \in ClientSet
    BY <1>2 DEF ClientSet, FieldsOK, Seen
  <1>5. /\ Aborted \in [Queries -> ClientSet]
        /\ \A p \in Queries :
              /\ Aborted[p].sid = client[p].sid /\ Aborted[p].knew = client[p].knew
              /\ (Aborted[p].at = "unsent") <=> (client[p].at = "unsent")
              /\ Aborted[p].at = "done" => client[p].at = "done"
    BY <1>2, AbortedTypes
  <1>6. /\ client' \in [Queries -> ClientSet] /\ client'[q] = new
        /\ \A p \in Queries : p # q => client'[p] = Aborted[p]
    BY <1>1, <1>4, <1>5
  <1>7. \A p \in Seen(sessionId) : p \in Queries /\ Answers(p, sessionId)
    BY DEF Seen, Answers, ChatInv, ClientAgrees
  <1>8. /\ client'[q].at = "sent" /\ client'[q].sid = sessionId /\ client'[q].knew = Seen(sessionId)
    BY <1>6
  <1> HIDE DEF new
  <1>9. ClientAgrees'
    <2> SUFFICES ASSUME NEW p \in Queries
                 PROVE  /\ client'[p].at = "unsent" => server'[p].at = "away" /\ client'[p].knew = {}
                        /\ client'[p].at = "done" => server'[p].at = "answered"
                        /\ server'[p].at # "away" => client'[p].sid \in {None, server'[p].sid}
                        /\ \A r \in client'[p].knew : server'[r].at = "answered" /\ server'[r].sid = client'[p].sid
      BY DEF ClientAgrees, Answers
    <2>1. server' = server
      BY <1>1
    <2>2. CASE p = q
      BY <2>1, <2>2, <1>3, <1>7, <1>8 DEF Answers
    <2>3. CASE p # q
      <3>1. client'[p] = Aborted[p]
        BY <2>3, <1>6
      <3>2. QED BY <2>1, <3>1, <1>5 DEF ChatInv, ClientAgrees, Answers
    <2>4. QED BY <2>2, <2>3
  <1>10. ContextComplete'
    <2>1. \A p \in Queries : server[p].at = "running" => client'[p].knew = client[p].knew
      BY <1>3, <1>5, <1>6
    <2>2. server' = server /\ wiped' = wiped
      BY <1>1
    <2>3. QED BY <2>1, <2>2 DEF ChatInv, ContextComplete
  <1> DEFINE n == Len(messages)
             m == Message(q, "thinking")
  <1>11. m \in MessageSet /\ m.query = q /\ m.shows = "thinking" /\ m.shows # "turn"
    BY DEF Message, MessageSet, Shows
  <1> HIDE DEF m
  <1>12. /\ messages' \in Seq(MessageSet) /\ DOMAIN messages' = 1..n + 1 /\ messages'[n + 1] = m
         /\ DOMAIN messages = 1..n /\ n \in Nat /\ \A i \in 1..n : messages'[i] = messages[i]
    BY <1>1, <1>2, <1>11, AppendProperties DEF m
  <1> HIDE DEF n
  <1>13. \A i \in DOMAIN messages' :
            \/ messages'[i] = m
            \/ i \in DOMAIN messages /\ messages'[i] = messages[i]
    BY <1>12
  <1>14. \A i \in DOMAIN messages : messages[i].query \in Queries /\ messages[i].shows \in Shows
    BY <1>2, MessageTypes
  <1>15. \A i \in DOMAIN messages : messages[i].shows # "turn" =>
            /\ messages[i].query # q /\ client'[messages[i].query].sid = client[messages[i].query].sid
            /\ client'[messages[i].query].at # "unsent"
    BY <1>1, <1>5, <1>6, <1>14 DEF ChatInv, MessagesAgree
  <1>16. UNCHANGED <<turns, server, wiped, newest, sessionId, calls, late, overtaken>>
    BY <1>1
  <1>17. MessagesAgree'
    <2>1. \A i \in DOMAIN messages : messages[i].shows = "turn" => server[messages[i].query].at = "answered"
      BY DEF ChatInv, MessagesAgree
    <2>2. QED BY <2>1, <1>8, <1>11, <1>13, <1>15, <1>16 DEF MessagesAgree
  <1>18. HistoryOwn'
    <2>1. Begun(sessionId) => Begun(sessionId)'
      BY <1>3, <1>5, <1>6, <1>16 DEF Begun
    <2>2. QED BY <2>1, <1>8, <1>11, <1>13, <1>15, <1>16 DEF ChatInv, HistoryOwn
  <1>19. StateHasACause'
    <2>1. client'[q].at = "sent" /\ q # None
      BY <1>8 DEF Queries, None
    <2>2. QED BY <2>1, <1>1 DEF StateHasACause, Live
  <1>20. FieldsOK'
    BY <1>1, <1>2 DEF FieldsOK
  <1>21. MemoryInv'
    BY <1>1, MemoryStays DEF ChatInv, MemoryInv, MemoryTypeOK
  <1>22. CallsAgree'
    BY <1>16, CallsStay
  <1>23. TypeOK'
    <2>1. calls' \in [Calls -> CallSet]
      BY <1>16, TypeParts DEF ChatInv
    <2>2. QED BY <2>1, <1>6, <1>12, <1>20, <1>21 DEF MemoryInv, TypeOK, FieldsOK, MessageSet, ClientSet, CallSet
  <1>24. QED
    BY <1>9, <1>10, <1>17, <1>18, <1>19, <1>21, <1>22, <1>23 DEF ChatInv

\* Only a query that starts a conversation takes the session of its response.
LEMMA RespondKeeps ==
    ASSUME ChatInv, NEW q \in Queries, Respond(q)
    PROVE  ChatInv'
  <1>1. /\ client[q].at = "sent" /\ client' = [client EXCEPT ![q].at = "reading"]
        /\ server[q].at # "away"
        /\ sessionId' = IF sessionId = None /\ client[q].sid = None THEN server[q].sid ELSE sessionId
        /\ UNCHANGED <<turns, known, server, wiped, newest, messages, queryState, controller, calls, awaited, late, overtaken>>
    BY DEF Respond, memory, history
  <1>2. client \in [Queries -> ClientSet] /\ FieldsOK /\ TypeOK
    BY TypeParts DEF ChatInv
  <1>3. ClientGoesOn
    BY <1>1, <1>2 DEF ClientGoesOn, ClientSet
  <1>4. MessagesStay
    BY <1>1, <1>2, SameMessagesStay
  <1>5. FieldsOK'
    BY <1>1, <1>2 DEF FieldsOK, ChatInv, MemoryInv, MemoryTypeOK, MemoryAgrees
  <1>6. StateHasACause'
    <2>1. \A p \in Queries : Live(p) => client'[p].at \in {"sent", "reading"}
      BY <1>1, <1>2 DEF Live
    <2>2. QED BY <2>1, <1>1, <1>2 DEF StateHasACause, Live, ChatInv, FieldsOK
  <1>7. \A i \in DOMAIN messages : messages[i].query \in Queries
    BY <1>2, MessageTypes
  <1>8. MessagesAgree'
    BY <1>1, <1>3, <1>7 DEF ChatInv, MessagesAgree, ClientGoesOn
  <1>9. HistoryOwn'
    <2>1. CASE sessionId' = sessionId
      <3>1. MessagesStay /\ SessionStays /\ UNCHANGED <<turns, server, wiped, newest>>
        BY <2>1, <1>1, <1>4 DEF SessionStays, history
      <3>2. QED BY <3>1, <1>3, MessagesStaying
    <2>2. CASE sessionId = None /\ client[q].sid = None /\ sessionId' = server[q].sid
      <3>1. Begun(sessionId)'
        BY <2>2, <1>1, <1>3 DEF Begun, ClientGoesOn
      <3>2. None \notin Sessions
        BY DEF None, Sessions
      <3>3. \A i \in DOMAIN messages : messages[i].shows = "turn" => overtaken
        BY <2>2, <3>2, <1>7 DEF ChatInv, HistoryOwn, MessagesAgree, MemoryInv, MemoryAgrees
      <3>4. \A i \in DOMAIN messages : messages[i].shows # "turn" => client[messages[i].query].sid = None
        BY <2>2 DEF ChatInv, HistoryOwn
      <3>5. QED BY <3>1, <3>3, <3>4, <1>1, <1>3, <1>7 DEF HistoryOwn, ClientGoesOn
    <2>3. QED BY <2>1, <2>2, <1>1
  <1>10. UNCHANGED <<turns, server, wiped, newest>> /\ known' \in 0..MaxSessions
         /\ UNCHANGED <<server, calls, late>> /\ (sessionId' = sessionId \/ sessionId = None)
    BY <1>1 DEF ChatInv, MemoryInv, MemoryTypeOK
  <1>11. CallsAgree' /\ calls' \in [Calls -> CallSet] /\ messages' \in Seq(MessageSet)
    BY <1>10, <1>4, CallsStay, TypeParts DEF ChatInv, MessagesStay
  <1>12. QED
    BY <1>3, <1>5, <1>6, <1>8, <1>9, <1>10, <1>11, ClientStep

(***************************************************************************)
(* The server's steps                                                      *)
(***************************************************************************)
\* A query arrives only after it was sent, and where it was sent.
ArrivesWhereSent ==
    \A q \in Queries : server[q].at = "away" =>
        \/ server'[q].at = "away"
        \/ client[q].at # "unsent" /\ client[q].sid \in {None, server'[q].sid}

LEMMA MemoryStep ==
    ASSUME ChatInv, MemoryInv', Steady, ArrivesWhereSent, UNCHANGED <<store, client, awaited, history>>,
           calls' \in [Calls -> CallSet], CallsAgree', ContextComplete'
    PROVE  ChatInv'
  <1>1. UNCHANGED <<sessionId, messages, queryState, controller, client, awaited, late, overtaken>>
    BY DEF store, history
  <1>2. client \in [Queries -> ClientSet] /\ FieldsOK /\ TypeOK /\ messages \in Seq(MessageSet)
    BY TypeParts DEF ChatInv
  <1>3. TypeOK'
    BY <1>1, <1>2 DEF MemoryInv, TypeOK, FieldsOK, MessageSet, ClientSet, CallSet
  <1>4. ClientAgrees'
    <2>1. \A q \in Queries : \A p \in client[q].knew : p \in Queries
      BY <1>2 DEF ClientSet
    <2> SUFFICES ASSUME NEW q \in Queries
                 PROVE  /\ client[q].at = "unsent" => server'[q].at = "away" /\ client[q].knew = {}
                        /\ client[q].at = "done" => server'[q].at = "answered"
                        /\ server'[q].at # "away" => client[q].sid \in {None, server'[q].sid}
                        /\ \A p \in client[q].knew : server'[p].at = "answered" /\ server'[p].sid = client[q].sid
      BY <1>1 DEF ClientAgrees, Answers
    <2>2. client[q].at = "unsent" => server'[q].at = "away" /\ client[q].knew = {}
      BY DEF ChatInv, ClientAgrees, ArrivesWhereSent
    <2>3. client[q].at = "done" => server'[q].at = "answered"
      BY DEF ChatInv, ClientAgrees, Steady
    <2>4. server'[q].at # "away" => client[q].sid \in {None, server'[q].sid}
      BY DEF ChatInv, ClientAgrees, Steady, ArrivesWhereSent
    <2>5. \A p \in client[q].knew : server'[p].at = "answered" /\ server'[p].sid = client[q].sid
      BY <2>1 DEF ChatInv, ClientAgrees, Steady, Answers
    <2>6. QED BY <2>2, <2>3, <2>4, <2>5
  <1>5. \A i \in DOMAIN messages : messages[i].query \in Queries
    BY <1>2, MessageTypes
  <1>6. \A i \in DOMAIN messages : messages[i].shows = "turn" =>
           /\ server'[messages[i].query].at = "answered"
           /\ server'[messages[i].query].sid = server[messages[i].query].sid
    BY <1>5 DEF ChatInv, MessagesAgree, Steady
  <1>7. MessagesAgree'
    BY <1>1, <1>6 DEF ChatInv, MessagesAgree
  <1>8. HistoryOwn'
    <2>1. Begun(sessionId) => Begun(sessionId)'
      BY <1>1 DEF Begun, Steady
    <2>2. QED BY <2>1, <1>1, <1>6 DEF ChatInv, HistoryOwn
  <1>9. StateHasACause'
    BY <1>1 DEF ChatInv, StateHasACause, Live
  <1>10. QED
    BY <1>3, <1>4, <1>7, <1>8, <1>9 DEF ChatInv

\* What the calls know stays true while the calls stay.
LEMMA CallsSteady ==
    ASSUME ChatInv, Steady, calls' = calls, UNCHANGED <<store, history>>
    PROVE  calls' \in [Calls -> CallSet] /\ CallsAgree'
  <1>1. calls \in [Calls -> CallSet]
    BY TypeParts DEF ChatInv
  <1>2. \A c \in Calls : \A i \in DOMAIN calls[c].turns : calls[c].turns[i] \in Queries
    BY <1>1 DEF CallSet
  <1>3. CallsAgree'
    BY <1>2 DEF ChatInv, CallsAgree, Answers, Pending, Steady, Loading, store, history
  <1>4. QED BY <1>1, <1>3

LEMMA ReceiveKeeps ==
    ASSUME ChatInv, NEW q \in Queries, Receive(q)
    PROVE  ChatInv'
  <1>1. client[q].at # "unsent" /\ UNCHANGED <<store, client, calls, awaited, history>>
    BY DEF Receive
  <1>2. client[q].sid \in Sessions \cup {None}
    BY TypeParts DEF ChatInv, ClientSet
  <1>3. PICK s \in Sessions, accepted \in BOOLEAN :
          Arrive(q, s, accepted) /\ known' \in 0..MaxSessions /\ client[q].sid \in {None, s}
    <2>1. CASE client[q].sid = None
      <3>1. PICK s \in Sessions : Fresh(s) /\ Arrive(q, s, TRUE)
        BY <2>1 DEF Receive
      <3>2. known' = s /\ known' \in 0..MaxSessions
        BY <3>1, MemoryAssumption DEF Fresh, Sessions, MemoryAssumption
      <3>3. client[q].sid \in {None, s}
        BY <2>1
      <3>4. QED BY <3>1, <3>2, <3>3, Zenon
    <2>2. CASE client[q].sid # None
      BY <2>2, <1>2 DEF Receive, ChatInv, MemoryInv, MemoryTypeOK
    <2>3. QED BY <2>1, <2>2
  <1>4. /\ MemoryInv' /\ Steady
        /\ server'[q].at \in {"accepted", "refused"} /\ server'[q].sid = s
        /\ \A p \in Queries : p # q => server'[p] = server[p]
    BY <1>3, ArriveKeeps DEF ChatInv
  <1>5. ArrivesWhereSent
    BY <1>1, <1>3, <1>4 DEF ArrivesWhereSent
  <1>6. wiped' = wiped /\ client' = client
    BY <1>1, <1>3 DEF Arrive
  <1>7. ContextComplete'
    BY <1>4, <1>6 DEF ChatInv, ContextComplete
  <1>8. calls' \in [Calls -> CallSet] /\ CallsAgree'
    BY <1>1, <1>4, CallsSteady
  <1>9. QED
    BY <1>1, <1>4, <1>5, <1>7, <1>8, MemoryStep

\* The context a query gets holds what its user knew when sending it: those turns
\* are stored in its session, and the last of them are read.
LEMMA ContextRead ==
    ASSUME ChatInv, NEW q \in Queries, ReadContext(q), client' = client
    PROVE  ContextComplete'
  <1> DEFINE s == server[q].sid
             recent == Last(turns[s], ContextTurns)
  <1>1. PICK ctx :
          /\ ctx \in {recent, <<>>}
          /\ server' = [server EXCEPT ![q].at = "running", ![q].context = ctx]
          /\ wiped' = IF ctx = recent THEN wiped ELSE wiped \cup {s}
    BY DEF ReadContext
  <1>2. server[q].at = "accepted" /\ s \in Sessions /\ turns[s] \in Seq(Queries)
    BY DEF ReadContext, ChatInv, MemoryInv, MemoryAgrees, MemoryTypeOK
  <1>3. ContextTurns \in Nat /\ MaxTurns \in Nat /\ ContextTurns <= MaxTurns
    BY MemoryAssumption DEF MemoryAssumption
  <1>4. /\ recent \in Seq(Queries)
        /\ Len(recent) = IF Len(turns[s]) > ContextTurns THEN ContextTurns ELSE Len(turns[s])
        /\ \A i \in 1..Len(recent) : recent[i] = turns[s][Len(turns[s]) - Len(recent) + i]
    BY <1>2, <1>3, LastTurns
  <1> HIDE DEF recent
  <1>5. ctx \in {recent, <<>>} /\ wiped' = IF ctx = recent THEN wiped ELSE wiped \cup {s}
    BY <1>1, Zenon
  <1>6. /\ server'[q].context = ctx /\ server'[q].sid = s
        /\ \A p \in Queries : p # q => server'[p] = server[p]
    BY <1>1 DEF ChatInv, MemoryInv, MemoryTypeOK
  <1>7. CASE s \in wiped'
    BY <1>5, <1>6, <1>7 DEF ChatInv, ContextComplete
  <1>8. CASE s \notin wiped'
    <2>1. ctx = recent /\ s \notin wiped /\ wiped' = wiped
      BY <1>5, <1>8
    <2>2. CASE Len(turns[s]) >= ContextTurns
      <3>1. Len(ctx) = ContextTurns
        BY <2>1, <2>2, <1>2, <1>3, <1>4
      <3>2. QED BY <3>1, <2>1, <1>6 DEF ChatInv, ContextComplete
    <2>3. CASE Len(turns[s]) < ContextTurns
      <3>1. Len(ctx) = Len(turns[s]) /\ Len(turns[s]) # MaxTurns
        BY <2>1, <2>3, <1>2, <1>3, <1>4
      <3>2. \A i \in 1..Len(turns[s]) : ctx[i] = turns[s][i]
        BY <3>1, <2>1, <1>2, <1>4
      <3>3. \A p \in client[q].knew : p \in Queries /\ Answers(p, s)
        <4> SUFFICES ASSUME NEW p \in client[q].knew PROVE p \in Queries /\ Answers(p, s)
          OBVIOUS
        <4>1. p \in Queries /\ Answers(p, client[q].sid)
          BY TypeParts DEF ChatInv, ClientSet, ClientAgrees
        <4>2. client[q].sid \in Sessions
          BY <4>1 DEF Answers, ChatInv, MemoryInv, MemoryAgrees
        <4>3. client[q].sid = s
          BY <4>2, <1>2 DEF ChatInv, ClientAgrees, None, Sessions
        <4>4. QED BY <4>1, <4>3
      <3>4. \A p \in client[q].knew : Stored(p, s)
        BY <3>1, <3>3, <2>1 DEF Answers, ChatInv, MemoryInv, MemoryAgrees
      <3>5. \A p \in client[q].knew : \E i \in 1..Len(turns[s]) : ctx[i] = p
        BY <3>2, <3>4, <1>2 DEF Stored
      <3>6. DOMAIN ctx = 1..Len(turns[s])
        BY <3>1, <2>1, <1>4
      <3>7. client[q].knew \subseteq {ctx[i] : i \in DOMAIN ctx}
        BY <3>5, <3>6
      <3>8. QED BY <3>7, <2>1, <1>6 DEF ChatInv, ContextComplete
    <2>4. QED BY <2>2, <2>3, <1>2, <1>3
  <1>9. QED BY <1>7, <1>8

LEMMA ServerStepKeeps ==
    ASSUME ChatInv, NEW q \in Queries, ServerStep(q)
    PROVE  ChatInv'
  <1>1. UNCHANGED <<store, client, calls, awaited, history>> /\ (ReadContext(q) \/ Answer(q))
    BY DEF ServerStep
  <1>2. MemoryInv' /\ Steady
    BY <1>1, ReadContextKeeps, AnswerKeeps DEF ChatInv
  <1>3. \A p \in Queries : p # q => server'[p] = server[p]
    BY <1>1 DEF ReadContext, Answer, ChatInv, MemoryInv, MemoryTypeOK
  <1>4. ArrivesWhereSent
    BY <1>1, <1>3 DEF ArrivesWhereSent, ReadContext, Answer
  <1>5. ContextComplete'
    <2>1. CASE ReadContext(q)
      BY <2>1, <1>1, ContextRead
    <2>2. CASE Answer(q)
      <3>1. server'[q].at = "answered"
        BY <2>2 DEF Answer, ChatInv, MemoryInv, MemoryTypeOK
      <3>2. wiped \subseteq wiped' /\ client' = client
        BY <2>2, <1>1 DEF Answer, AddTurn, LoseTurn
      <3>3. QED BY <3>1, <3>2, <1>3 DEF ChatInv, ContextComplete
    <2>3. QED BY <2>1, <2>2, <1>1
  <1>6. calls' \in [Calls -> CallSet] /\ CallsAgree'
    BY <1>1, <1>2, CallsSteady
  <1>7. QED
    BY <1>1, <1>2, <1>4, <1>5, <1>6, MemoryStep

LEMMA ForgottenContexts ==
    ASSUME ChatInv, NEW s \in Sessions, Forget(s), client' = client
    PROVE  ArrivesWhereSent /\ ContextComplete'
  <1>1. server' = server /\ wiped' = wiped \cup {s}
    BY DEF Forget
  <1>2. ArrivesWhereSent
    BY <1>1 DEF ArrivesWhereSent
  <1>3. ContextComplete'
    BY <1>1 DEF ChatInv, ContextComplete
  <1>4. QED BY <1>2, <1>3

LEMMA ExpireKeeps ==
    ASSUME ChatInv, NEW s \in Sessions, Expire(s)
    PROVE  ChatInv'
  <1>1. Forget(s) /\ UNCHANGED <<store, client, calls, awaited, history>>
    BY DEF Expire
  <1>2. MemoryInv' /\ Steady
    BY <1>1, ForgetKeeps DEF ChatInv
  <1>3. ArrivesWhereSent /\ ContextComplete'
    BY <1>1, ForgottenContexts
  <1>4. calls' \in [Calls -> CallSet] /\ CallsAgree'
    BY <1>1, <1>2, CallsSteady
  <1>5. QED
    BY <1>1, <1>2, <1>3, <1>4, MemoryStep

(***************************************************************************)
(* The other actions                                                       *)
(***************************************************************************)
LEMMA AskKeeps ==
    ASSUME ChatInv, NEW c \in Calls, NEW kind \in {"confirm", "load", "new", "delete"},
           NEW s \in Sessions \cup {None}, NEW q \in Queries \cup {None},
           kind \in {"load", "delete"} => s \in Sessions,
           kind = "confirm" => q \in Queries, Ask(c, kind, s, q), server' = server,
           (SessionStays /\ kind # "load") \/ (Overtake /\ sessionId' = s)
    PROVE  calls' \in [Calls -> CallSet] /\ CallsAgree'
  <1> DEFINE new == [at |-> "asked", kind |-> kind, sid |-> s, query |-> q, turns |-> <<>>]
  <1>1. calls \in [Calls -> CallSet] /\ calls' = [calls EXCEPT ![c] = new]
    BY TypeParts DEF ChatInv, Ask
  <1>2. /\ new \in CallSet /\ new.at = "asked" /\ new.kind = kind /\ new.sid = s /\ new.query = q
    BY DEF CallSet
  <1> HIDE DEF new
  <1>3. /\ calls' \in [Calls -> CallSet] /\ calls'[c] = new
        /\ \A d \in Calls : d # c => calls'[d] = calls[d]
    BY <1>1, <1>2
  <1>4. \A d \in Loading' \ late' : calls'[d].sid = sessionId'
    <2>1. CASE SessionStays /\ kind # "load"
      BY <2>1, <1>2, <1>3 DEF ChatInv, CallsAgree, Loading, SessionStays, history
    <2>2. CASE Overtake /\ sessionId' = s
      BY <2>2, <1>2, <1>3 DEF Overtake, Loading
    <2>3. QED BY <2>1, <2>2
  <1>5. CallsAgree'
    BY <1>2, <1>3, <1>4 DEF ChatInv, CallsAgree, Pending, Answers
  <1>6. QED BY <1>3, <1>5

LEMMA OverKeeps ==
    ASSUME ChatInv, NEW c \in Calls, Over(c), server' = server,
           UNCHANGED <<sessionId, late>> \/ Overtake
    PROVE  calls' \in [Calls -> CallSet] /\ CallsAgree'
  <1> DEFINE new == [NoCall EXCEPT !.at = "over"]
  <1>1. calls \in [Calls -> CallSet] /\ calls' = [calls EXCEPT ![c] = new]
    BY TypeParts DEF ChatInv, Over
  <1>2. new \in CallSet /\ new.at = "over" /\ new.kind = "none"
    <2>1. NoCall \in CallSet /\ NoCall.kind = "none"
      <3>1. NoCall = [at |-> "free", kind |-> "none", sid |-> None, query |-> None, turns |-> <<>>]
        BY DEF NoCall
      <3>2. QED BY <3>1 DEF CallSet
    <2>2. \A x \in CallSet : LET y == [x EXCEPT !.at = "over"]
                            IN y \in CallSet /\ y.at = "over" /\ y.kind = x.kind
      BY DEF CallSet
    <2>3. QED BY <2>1, <2>2
  <1> HIDE DEF new
  <1>3. /\ calls' \in [Calls -> CallSet] /\ calls'[c] = new
        /\ \A d \in Calls : d # c => calls'[d] = calls[d]
    BY <1>1, <1>2
  <1>4. \A d \in Loading' \ late' : calls'[d].sid = sessionId'
    BY <1>2, <1>3 DEF ChatInv, CallsAgree, Loading, Overtake
  <1>5. CallsAgree'
    BY <1>2, <1>3, <1>4 DEF ChatInv, CallsAgree, Pending, Answers
  <1>6. QED BY <1>3, <1>5

\* The frame of an action that asks the server or hears from it, which leaves
\* conversations, queries and messages alone.
LEMMA CallStep ==
    ASSUME ChatInv, MessagesStay, ClientGoesOn, SessionStays, UNCHANGED memory,
           calls' \in [Calls -> CallSet], CallsAgree', FieldsOK', StateHasACause'
    PROVE  ChatInv'
  <1>1. UNCHANGED <<turns, server, wiped, newest>> /\ known' \in 0..MaxSessions
    BY DEF memory, ChatInv, MemoryInv, MemoryTypeOK
  <1>2. MessagesAgree' /\ HistoryOwn' /\ messages' \in Seq(MessageSet)
    BY <1>1, MessagesStaying DEF MessagesStay
  <1>3. QED
    BY <1>1, <1>2, ClientStep

LEMMA ConfirmKeeps ==
    ASSUME ChatInv, NEW c \in Calls, NEW q \in Queries, Confirm(c, q)
    PROVE  ChatInv'
  <1>1. /\ Ask(c, "confirm", None, q) /\ queryState' = "running" /\ awaited' = "confirm"
        /\ UNCHANGED <<memory, sessionId, messages, controller, client, history>>
    BY DEF Confirm
  <1>2. FieldsOK /\ TypeOK
    BY TypeParts DEF ChatInv
  <1>3. ClientGoesOn /\ MessagesStay /\ SessionStays
    BY <1>1, <1>2, SameClientGoesOn, SameMessagesStay DEF SessionStays
  <1>4. FieldsOK' /\ StateHasACause'
    BY <1>1, <1>2 DEF FieldsOK, ChatInv, StateHasACause, Live, history
  <1>5. server' = server /\ "confirm" \in {"confirm", "load", "new", "delete"} /\ "confirm" # "load"
    BY <1>1 DEF memory
  <1>6. calls' \in [Calls -> CallSet] /\ CallsAgree'
    <2>1. None \in Sessions \cup {None} /\ q \in Queries \cup {None}
      OBVIOUS
    <2>2. QED BY <2>1, <1>1, <1>3, <1>5, AskKeeps
  <1>7. UNCHANGED memory
    BY <1>1
  <1>8. QED
    BY <1>3, <1>4, <1>6, <1>7, CallStep

LEMMA ConfirmedKeeps ==
    ASSUME ChatInv, NEW c \in Calls, Confirmed(c)
    PROVE  ChatInv'
  <1>1. /\ Over(c) /\ UNCHANGED <<memory, sessionId, controller, client, awaited, history>>
        /\ \/ messages' = Shown(calls[c].query, "confirmed") /\ queryState' = queryState
           \/ messages' = messages /\ queryState' = "await_confirm"
    BY DEF Confirmed
  <1>2. FieldsOK /\ TypeOK
    BY TypeParts DEF ChatInv
  <1>3. ClientGoesOn /\ SessionStays
    BY <1>1, <1>2, SameClientGoesOn DEF SessionStays
  <1>4. MessagesStay
    <2>1. calls[c].query \in Queries /\ "confirmed" \in Shows
      BY DEF Confirmed, Pending, ChatInv, CallsAgree, Shows
    <2>2. QED BY <1>1, <1>2, <2>1, ShownStays, SameMessagesStay
  <1>5. FieldsOK' /\ StateHasACause'
    BY <1>1, <1>2 DEF FieldsOK, ChatInv, StateHasACause, Live, history
  <1>6. server' = server
    BY <1>1 DEF memory
  <1>7. calls' \in [Calls -> CallSet] /\ CallsAgree'
    BY <1>1, <1>6, OverKeeps DEF history
  <1>8. UNCHANGED memory
    BY <1>1
  <1>9. QED
    BY <1>3, <1>4, <1>5, <1>7, <1>8, CallStep

LEMMA SwitchKeeps ==
    ASSUME ChatInv, NEW c \in Calls, NEW s \in Sessions, Switch(c, s)
    PROVE  ChatInv'
  <1>1. /\ Ask(c, "load", s, None) /\ client' = Aborted /\ sessionId' = s /\ messages' = <<>>
        /\ queryState' = "idle" /\ controller' = None /\ Overtake /\ UNCHANGED <<memory, awaited>>
    BY DEF Switch, Rest
  <1>2. FieldsOK /\ TypeOK /\ StateHasACause
    BY TypeParts DEF ChatInv
  <1>3. ClientGoesOn
    BY <1>1, <1>2, AbortedGoesOn
  <1>4. MessagesAgree' /\ HistoryOwn' /\ messages' \in Seq(MessageSet)
    BY <1>1, NoMessages
  <1>5. FieldsOK' /\ StateHasACause'
    BY <1>1, <1>2 DEF FieldsOK, StateHasACause, Overtake, Loading
  <1>6. UNCHANGED <<turns, server, wiped, newest>> /\ server' = server /\ known' \in 0..MaxSessions
    BY <1>1 DEF memory, ChatInv, MemoryInv, MemoryTypeOK
  <1>7. calls' \in [Calls -> CallSet] /\ CallsAgree'
    BY <1>1, <1>6, AskKeeps
  <1>8. QED
    BY <1>3, <1>4, <1>5, <1>6, <1>7, ClientStep

LEMMA LoadAnsweredKeeps ==
    ASSUME ChatInv, NEW c \in Calls, LoadAnswered(c)
    PROVE  ChatInv'
  <1> DEFINE s == calls[c].sid
  <1>1. /\ calls[c].kind = "load" /\ calls[c].at = "asked" /\ UNCHANGED <<memory, store, client, awaited, history>>
        /\ calls' = [calls EXCEPT ![c].at = "answered", ![c].turns = turns[s]]
    BY DEF LoadAnswered, Pending
  <1>2. FieldsOK /\ TypeOK /\ calls \in [Calls -> CallSet]
    BY TypeParts DEF ChatInv
  <1>3. s \in Sessions /\ turns[s] \in Seq(Queries)
    BY <1>1 DEF ChatInv, CallsAgree, MemoryInv, MemoryTypeOK
  <1>4. \A i \in DOMAIN turns[s] : Answers(turns[s][i], s)
    BY <1>3 DEF ChatInv, MemoryInv, MemoryAgrees, TurnsAreRecent, Answers
  <1> HIDE DEF s
  <1>5. /\ calls'[c].kind = "load" /\ calls'[c].sid = calls[c].sid /\ calls'[c].turns = turns[s]
        /\ \A d \in Calls : d # c => calls'[d] = calls[d]
    BY <1>1, <1>2 DEF CallSet
  <1>6. calls' \in [Calls -> CallSet]
    BY <1>1, <1>2, <1>3 DEF CallSet
  <1>7. UNCHANGED <<memory, server, sessionId, messages, queryState, controller, client, awaited, late, history>>
    BY <1>1 DEF memory, store, history
  <1>8. CallsAgree'
    <2>1. \A d \in Calls : d # c =>
             /\ calls'[d].kind \in {"load", "delete"} => calls'[d].sid \in Sessions
             /\ calls'[d].kind = "confirm" => calls'[d].query \in Queries
             /\ calls'[d].kind = "load" /\ calls'[d].at = "answered" =>
                  \A i \in DOMAIN calls'[d].turns : Answers(calls'[d].turns[i], calls'[d].sid)
      BY <1>5 DEF ChatInv, CallsAgree, Pending
    <2>2. calls'[c].sid \in Sessions /\ \A i \in DOMAIN calls'[c].turns : Answers(calls'[c].turns[i], calls'[c].sid)
      BY <1>3, <1>4, <1>5 DEF s
    <2>3. \A d \in Loading' \ late' : calls'[d].sid = sessionId'
      BY <1>1, <1>5, <1>7 DEF ChatInv, CallsAgree, Loading
    <2>4. QED BY <2>1, <2>2, <2>3, <1>5, <1>7 DEF CallsAgree, Pending, Answers
  <1>9. ClientGoesOn /\ MessagesStay /\ SessionStays
    BY <1>2, <1>7, SameClientGoesOn, SameMessagesStay DEF SessionStays
  <1>10. FieldsOK' /\ StateHasACause'
    BY <1>2, <1>7 DEF FieldsOK, ChatInv, StateHasACause, Live, history
  <1>11. UNCHANGED memory
    BY <1>7
  <1>12. QED
    BY <1>6, <1>8, <1>9, <1>10, <1>11, CallStep

\* What is shown is of the session the call asked for, which is the one on show
\* unless the call was overtaken.
LEMMA LoadShownKeeps ==
    ASSUME ChatInv, NEW c \in Calls, LoadShown(c)
    PROVE  ChatInv'
  <1> DEFINE loaded == calls[c].turns
  <1>1. /\ Pending(c, "load", "answered") /\ Over(c)
        /\ messages' = [i \in DOMAIN loaded |-> Message(loaded[i], "turn")]
        /\ overtaken' = (c \in late)
        /\ UNCHANGED <<memory, sessionId, queryState, controller, client, awaited, late>>
    BY DEF LoadShown
  <1>2. FieldsOK /\ TypeOK /\ calls \in [Calls -> CallSet]
    BY TypeParts DEF ChatInv
  <1>3. loaded \in Seq(Queries)
    BY <1>2 DEF CallSet
  <1>4. \A i \in DOMAIN loaded : Answers(loaded[i], calls[c].sid)
    BY <1>1 DEF ChatInv, CallsAgree
  <1> HIDE DEF loaded
  <1>5. \A q \in Queries :
           /\ Message(q, "turn") \in MessageSet
           /\ Message(q, "turn").query = q /\ Message(q, "turn").shows = "turn"
    BY DEF Message, MessageSet, Shows
  <1>6. \A i \in DOMAIN loaded : loaded[i] \in Queries
    BY <1>3
  <1>7. messages' \in Seq(MessageSet)
    <2> DEFINE n == Len(loaded)
    <2>1. n \in Nat /\ DOMAIN loaded = 1..n
      BY <1>3
    <2> HIDE DEF n
    <2>2. messages' \in [1..n -> MessageSet]
      BY <2>1, <1>1, <1>5, <1>6
    <2>3. QED BY <2>1, <2>2
  <1>8. /\ DOMAIN messages' = DOMAIN loaded
        /\ \A i \in DOMAIN loaded : messages'[i].query = loaded[i] /\ messages'[i].shows = "turn"
    BY <1>1, <1>5, <1>6
  <1>9. UNCHANGED <<memory, turns, server, wiped, newest, sessionId, queryState, controller, client, awaited, late>>
    BY <1>1 DEF memory
  <1>10. MessagesAgree'
    BY <1>4, <1>8, <1>9 DEF MessagesAgree, Answers
  <1>11. HistoryOwn'
    <2>1. c \notin late => calls[c].sid = sessionId
      BY <1>1 DEF ChatInv, CallsAgree, Pending, Loading
    <2>2. QED BY <2>1, <1>1, <1>4, <1>8, <1>9 DEF HistoryOwn, Answers
  <1>12. ClientGoesOn
    BY <1>2, <1>9, SameClientGoesOn
  <1>13. FieldsOK' /\ StateHasACause'
    BY <1>1, <1>2, <1>9 DEF FieldsOK, ChatInv, StateHasACause, Live
  <1>14. known' \in 0..MaxSessions
    BY <1>9 DEF memory, ChatInv, MemoryInv, MemoryTypeOK
  <1>15. calls' \in [Calls -> CallSet] /\ CallsAgree'
    BY <1>1, <1>9, OverKeeps
  <1>16. QED
    BY <1>7, <1>9, <1>10, <1>11, <1>12, <1>13, <1>14, <1>15, ClientStep

LEMMA AbortAndAskKeeps ==
    ASSUME ChatInv, NEW c \in Calls, NEW kind \in {"new", "delete"}, NEW s \in Sessions \cup {None},
           kind = "delete" => s \in Sessions, AbortAndAsk(c, kind, s)
    PROVE  ChatInv'
  <1>1. /\ Ask(c, kind, s, None) /\ client' = Aborted
        /\ \/ controller = None /\ queryState' = queryState /\ controller' = controller
           \/ queryState' = "idle" /\ controller' = None
        /\ UNCHANGED <<memory, sessionId, messages, awaited, history>>
    BY DEF AbortAndAsk, Rest
  <1>2. FieldsOK /\ TypeOK /\ StateHasACause
    BY TypeParts DEF ChatInv
  <1>3. ClientGoesOn /\ MessagesStay /\ SessionStays
    BY <1>1, <1>2, AbortedGoesOn, SameMessagesStay DEF SessionStays
  <1>4. FieldsOK' /\ StateHasACause'
    BY <1>1, <1>2 DEF FieldsOK, StateHasACause, history
  <1>5. /\ server' = server /\ UNCHANGED memory /\ None \in Queries \cup {None}
        /\ kind \in {"confirm", "load", "new", "delete"} /\ kind # "load" /\ kind # "confirm"
    BY <1>1 DEF memory
  <1>6. calls' \in [Calls -> CallSet] /\ CallsAgree'
    BY <1>1, <1>3, <1>5, AskKeeps
  <1>7. QED
    BY <1>3, <1>4, <1>5, <1>6, CallStep

LEMMA CreatedKeeps ==
    ASSUME ChatInv, NEW c \in Calls, Created(c)
    PROVE  ChatInv'
  <1>1. PICK s \in Sessions :
          /\ Over(c) /\ s = known + 1 /\ known' = s /\ sessionId' = s /\ messages' = <<>>
          /\ queryState' = "idle" /\ controller' = None /\ Overtake
          /\ UNCHANGED <<turns, server, wiped, newest, client, awaited>>
    BY DEF Created, Rest, Fresh
  <1>2. FieldsOK /\ TypeOK
    BY TypeParts DEF ChatInv
  <1>3. ClientGoesOn
    BY <1>1, <1>2, SameClientGoesOn
  <1>4. MessagesAgree' /\ HistoryOwn' /\ messages' \in Seq(MessageSet)
    BY <1>1, NoMessages
  <1>5. FieldsOK' /\ StateHasACause'
    BY <1>1, <1>2 DEF FieldsOK, StateHasACause, Overtake, Loading
  <1>6. known' \in 0..MaxSessions
    BY <1>1, MemoryAssumption DEF Sessions, MemoryAssumption
  <1>7. calls' \in [Calls -> CallSet] /\ CallsAgree'
    BY <1>1, OverKeeps
  <1>8. QED
    BY <1>1, <1>3, <1>4, <1>5, <1>6, <1>7, ClientStep

LEMMA DeletedThereKeeps ==
    ASSUME ChatInv, NEW c \in Calls, DeletedThere(c)
    PROVE  ChatInv'
  <1>1. /\ Pending(c, "delete", "asked") /\ calls' = [calls EXCEPT ![c].at = "answered"]
        /\ Forget(calls[c].sid) /\ UNCHANGED <<store, client, awaited, history>>
    BY DEF DeletedThere, Answered
  <1>2. calls[c].sid \in Sessions /\ calls \in [Calls -> CallSet] /\ server' = server
    BY <1>1, TypeParts DEF ChatInv, CallsAgree, Pending, Forget
  <1>3. MemoryInv' /\ Steady
    BY <1>1, <1>2, ForgetKeeps DEF ChatInv
  <1>4. ArrivesWhereSent /\ ContextComplete'
    BY <1>1, <1>2, ForgottenContexts
  <1>5. /\ calls' \in [Calls -> CallSet] /\ calls'[c].kind = "delete" /\ calls'[c].sid = calls[c].sid
        /\ \A d \in Calls : d # c => calls'[d] = calls[d]
    BY <1>1, <1>2 DEF CallSet, Pending
  <1>6. \A d \in Loading' \ late' : calls'[d].sid = sessionId'
    BY <1>1, <1>5 DEF ChatInv, CallsAgree, Loading, store, history
  <1>7. CallsAgree'
    BY <1>2, <1>5, <1>6 DEF ChatInv, CallsAgree, Pending, Answers
  <1>8. QED
    BY <1>1, <1>3, <1>4, <1>5, <1>7, MemoryStep

LEMMA DeletedHereKeeps ==
    ASSUME ChatInv, NEW c \in Calls, DeletedHere(c)
    PROVE  ChatInv'
  <1>1. Over(c) /\ UNCHANGED <<memory, queryState, controller, client, awaited>>
    BY DEF DeletedHere
  <1>2. \/ sessionId' = None /\ messages' = <<>> /\ Overtake
        \/ UNCHANGED <<sessionId, messages, history>>
    BY DEF DeletedHere
  <1>3. FieldsOK /\ TypeOK
    BY TypeParts DEF ChatInv
  <1>4. ClientGoesOn
    BY <1>1, <1>3, SameClientGoesOn
  <1>5. FieldsOK' /\ StateHasACause'
    BY <1>1, <1>2, <1>3 DEF FieldsOK, ChatInv, StateHasACause, Live, history, Overtake, Loading
  <1>6. UNCHANGED <<turns, server, wiped, newest>> /\ server' = server /\ known' \in 0..MaxSessions
    BY <1>1 DEF memory, ChatInv, MemoryInv, MemoryTypeOK
  <1>7. calls' \in [Calls -> CallSet] /\ CallsAgree'
    BY <1>1, <1>2, <1>6, OverKeeps DEF history
  <1>8. MessagesAgree' /\ HistoryOwn' /\ messages' \in Seq(MessageSet)
    <2>1. CASE messages' = <<>>
      BY <2>1, NoMessages
    <2>2. CASE UNCHANGED <<sessionId, messages, history>>
      <3>1. MessagesStay /\ SessionStays
        BY <2>2, <1>3, SameMessagesStay DEF SessionStays
      <3>2. QED BY <3>1, <1>4, <1>6, MessagesStaying DEF MessagesStay
    <2>3. QED BY <2>1, <2>2, <1>2
  <1>9. QED
    BY <1>4, <1>5, <1>6, <1>7, <1>8, ClientStep

LEMMA CallFailsKeeps ==
    ASSUME ChatInv, NEW c \in Calls, CallFails(c)
    PROVE  ChatInv'
  <1>1. Over(c) /\ UNCHANGED <<memory, server, sessionId, messages, queryState, controller, client, awaited, history>>
    BY DEF CallFails, store, memory
  <1>2. FieldsOK /\ TypeOK
    BY TypeParts DEF ChatInv
  <1>3. ClientGoesOn /\ MessagesStay /\ SessionStays
    BY <1>1, <1>2, SameClientGoesOn, SameMessagesStay DEF SessionStays
  <1>4. FieldsOK' /\ StateHasACause'
    BY <1>1, <1>2 DEF FieldsOK, ChatInv, StateHasACause, Live, history
  <1>5. calls' \in [Calls -> CallSet] /\ CallsAgree' /\ UNCHANGED memory
    BY <1>1, OverKeeps DEF history
  <1>6. QED
    BY <1>3, <1>4, <1>5, CallStep

(***************************************************************************)
(* The invariant                                                           *)
(***************************************************************************)
LEMMA InitEstablishes == Init => ChatInv
  <1> SUFFICES ASSUME Init PROVE ChatInv
    OBVIOUS
  <1>1. /\ MemoryInit /\ sessionId = None /\ messages = <<>> /\ queryState = "idle" /\ controller = None
        /\ client = [q \in Queries |-> Unsent] /\ calls = [c \in Calls |-> NoCall]
        /\ awaited = "query" /\ late = {} /\ overtaken = FALSE
    BY DEF Init
  <1>2. MemoryInv
    BY <1>1, MemoryInitEstablishes
  <1>3. Unsent \in ClientSet /\ Unsent.at = "unsent" /\ Unsent.knew = {}
    BY DEF Unsent, ClientSet
  <1>4. NoCall \in CallSet /\ NoCall.kind = "none"
    <2>1. NoCall = [at |-> "free", kind |-> "none", sid |-> None, query |-> None, turns |-> <<>>]
      BY DEF NoCall
    <2>2. QED BY <2>1 DEF CallSet
  <1>5. \A q \in Queries : server[q].at = "away"
    BY <1>1 DEF MemoryInit, NotThere
  <1>6. TypeOK
    <2>1. client \in [Queries -> ClientSet] /\ calls \in [Calls -> CallSet] /\ messages \in Seq(MessageSet)
      BY <1>1, <1>3, <1>4
    <2>2. FieldsOK
      BY <1>1 DEF FieldsOK
    <2>3. QED BY <2>1, <2>2, <1>2, TypeParts DEF MemoryInv
  <1>7. ClientAgrees /\ ContextComplete
    BY <1>1, <1>3, <1>5 DEF ClientAgrees, ContextComplete
  <1>8. CallsAgree
    BY <1>1, <1>4 DEF CallsAgree, Pending, Loading
  <1>9. MessagesAgree /\ HistoryOwn /\ StateHasACause
    BY <1>1 DEF MessagesAgree, HistoryOwn, StateHasACause
  <1>10. QED
    BY <1>2, <1>6, <1>7, <1>8, <1>9 DEF ChatInv

LEMMA NextKeeps == ChatInv /\ [Next]_vars => ChatInv'
  <1> SUFFICES ASSUME ChatInv, [Next]_vars PROVE ChatInv'
    OBVIOUS
  <1>1. ASSUME NEW q \in Queries, Send(q) \/ QueryStep(q) \/ Fail(q) \/ CancelConfirm(q)
        PROVE  ChatInv'
    <2>1. CASE QueryStep(q)
      BY <2>1, ReceiveKeeps, ServerStepKeeps, RefusedKeeps, RespondKeeps, ReadKeeps DEF QueryStep
    <2>2. CASE Send(q) \/ Fail(q) \/ CancelConfirm(q)
      BY <2>2, SendKeeps, FailKeeps, CancelConfirmKeeps
    <2>3. QED BY <1>1, <2>1, <2>2
  <1>2. ASSUME NEW c \in Calls, NEW q \in Queries, Confirm(c, q)
        PROVE  ChatInv'
    BY <1>2, ConfirmKeeps
  <1>3. ASSUME NEW c \in Calls, NEW s \in Sessions, Switch(c, s) \/ Delete(c, s)
        PROVE  ChatInv'
    BY <1>3, SwitchKeeps, AbortAndAskKeeps DEF Delete
  <1>4. ASSUME NEW c \in Calls, New(c)
        PROVE  ChatInv'
    BY <1>4, AbortAndAskKeeps DEF New
  <1>5. ASSUME NEW c \in Calls, \/ Confirmed(c) \/ LoadAnswered(c) \/ LoadShown(c)
                                \/ Created(c) \/ DeletedThere(c) \/ DeletedHere(c) \/ CallFails(c)
        PROVE  ChatInv'
    BY <1>5, ConfirmedKeeps, LoadAnsweredKeeps, LoadShownKeeps, CreatedKeeps, DeletedThereKeeps,
       DeletedHereKeeps, CallFailsKeeps
  <1>6. CASE Cancel
    BY <1>6, CancelKeeps
  <1>7. ASSUME NEW s \in Sessions, Expire(s)
        PROVE  ChatInv'
    BY <1>7, ExpireKeeps
  <1>8. CASE UNCHANGED vars
    <2>1. UNCHANGED <<memory, calls, client, messages, sessionId, history, controller, queryState, awaited>>
      BY <1>8 DEF vars, store
    <2>2. FieldsOK /\ TypeOK
      BY TypeParts DEF ChatInv
    <2>3. ClientGoesOn /\ MessagesStay /\ SessionStays /\ UNCHANGED <<memory, calls>>
      BY <2>1, <2>2, SameClientGoesOn, SameMessagesStay DEF SessionStays
    <2>4. FieldsOK' /\ StateHasACause'
      BY <2>1, <2>2 DEF FieldsOK, ChatInv, StateHasACause, Live, history
    <2>5. QED BY <2>3, <2>4, StoreStep
  <1>9. QED
    BY <1>1, <1>2, <1>3, <1>4, <1>5, <1>6, <1>7, <1>8 DEF Next

(***************************************************************************)
(* Theorems                                                                *)
(***************************************************************************)
\* The inductive invariant of the conversations and the store that shows them.
THEOREM ChatStoreInvariant == Spec => []ChatInv
  BY InitEstablishes, NextKeeps, PTL DEF Spec

\* Every variable of SessionMemory and ChatStore keeps its type.
THEOREM ChatTypeCorrect == Spec => []TypeOK
  <1>1. ChatInv => TypeOK
    BY DEF ChatInv
  <1>2. QED BY <1>1, ChatStoreInvariant, PTL

\* A session's turns are its own queries, each once, and the query answered last
\* is among them, however many queries run at once and however short the list is
\* cut (SessionManager.add_turn).
THEOREM TurnsStayRecent == Spec => []TurnsAreRecent
  <1>1. ChatInv => TurnsAreRecent
    BY DEF ChatInv, MemoryInv
  <1>2. QED BY <1>1, ChatStoreInvariant, PTL

\* The store is "running" only for a query it can abort or after a confirmation,
\* whatever is sent, aborted, answered late or refused (sendQuery and its catch).
THEOREM StateAlwaysHasACause == Spec => []StateHasACause
  <1>1. ChatInv => StateHasACause
    BY DEF ChatInv
  <1>2. QED BY <1>1, ChatStoreInvariant, PTL

\* A message is on show in the session it was sent in.  A stored turn of another
\* session appears only when the session on show changes while a switch waits for
\* its answer, and a message sent without a session elsewhere than in the session
\* it began only when another query sent without one began the session on show
\* (switchSession, sendQuery, createSession, deleteConversation).
THEOREM HistoryStaysOwn == Spec => []HistoryOwn
  <1>1. ChatInv => HistoryOwn
    BY DEF ChatInv
  <1>2. QED BY <1>1, ChatStoreInvariant, PTL

\* What the user had seen answered is in the context of the next query, for any
\* ContextTurns up to MaxTurns (get_context and the finally of _run_pipeline).
THEOREM ContextStaysComplete == Spec => []ContextComplete
  <1>1. ChatInv => ContextComplete
    BY DEF ChatInv
  <1>2. QED BY <1>1, ChatStoreInvariant, PTL
=============================================================================
