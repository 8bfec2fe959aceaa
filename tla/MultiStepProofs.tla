-------------------------- MODULE MultiStepProofs ---------------------------
(***************************************************************************)
(* Proofs about MultiStep, for plans of any size.  That a plan without a   *)
(* cycle is sorted in full needs no induction over plans: a knot is a set  *)
(* of tasks none of which the sort can ever reach, and what the sort has   *)
(* not reached when its queue is empty is a knot.                          *)
(***************************************************************************)
EXTENDS MultiStep, FiniteSetTheorems, TLAPS

\* The tasks are a finite set, as many as the plan has.
LEMMA TasksFinite ==
    ASSUME size \in Nat
    PROVE  IsFiniteSet(Tasks) /\ Cardinality(Tasks) = size
  BY FS_Interval DEF Tasks

\* What a sequence holds after one more element.
LEMMA AppendSorted ==
    ASSUME NEW S, NEW s \in Seq(S), NEW n \in S
    PROVE  /\ Append(s, n) \in Seq(S)
           /\ Len(Append(s, n)) = Len(s) + 1
           /\ \A i \in 1..Len(s) : Append(s, n)[i] = s[i]
           /\ Append(s, n)[Len(s) + 1] = n
           /\ DOMAIN Append(s, n) = 1..Len(s) + 1
           /\ DOMAIN s = 1..Len(s)
           /\ Len(s) \in Nat
  OBVIOUS

\* When all open dependencies of t but n are sorted, t has one open dependency.
LEMMA LastOne ==
    ASSUME NEW D, NEW n, IsFiniteSet(D), n \in D
    PROVE  /\ Cardinality(D) \in Nat \ {0}
           /\ Cardinality(D \ {n}) = Cardinality(D) - 1
           /\ Cardinality(D) = 1 <=> D = {n}
  <1>1. IsFiniteSet(D \ {n}) /\ Cardinality(D \ {n}) = Cardinality(D) - 1
    BY FS_RemoveElement
  <1>2. Cardinality(D) \in Nat /\ Cardinality(D \ {n}) \in Nat
    BY <1>1, FS_CardinalityType
  <1>3. Cardinality(D \ {n}) = 0 <=> D \ {n} = {}
    BY <1>1, FS_EmptySet
  <1>4. QED
    BY <1>1, <1>2, <1>3

LEMMA InitEstablishes == Init => PlanInv
  <1> SUFFICES ASSUME Init PROVE PlanInv
    OBVIOUS
  <1>1. size \in Nat /\ size \in 0..MaxTasks /\ pc = "start"
    BY PlanAssumption DEF Init
  <1>2. deps \in [Tasks -> SUBSET (Tasks \cup {Unknown})]
    <2>1. PICK d \in [1..size -> SUBSET (1..size)], stray \in SUBSET {size} :
            deps = [t \in 1..size |-> IF t \in stray THEN d[t] \cup {Unknown} ELSE d[t]]
      BY DEF Init
    <2>2. QED BY <2>1 DEF Tasks
  <1>3. /\ order = <<>> /\ ready = {} /\ next = 1
        /\ completed = {} /\ failed = {} /\ broke = {}
        /\ inDegree \in [Tasks -> Nat]
    BY DEF Init, Tasks
  <1>4. Sorted = {} /\ DOMAIN order = {} /\ Len(order) = 0
    BY <1>3 DEF Sorted
  <1>5. TypeOK
    BY <1>1, <1>2, <1>3, <1>4 DEF TypeOK
  <1>6. SortAgrees
    BY <1>1, <1>3, <1>4, FS_EmptySet DEF SortAgrees, Counted
  <1>7. RunAgrees
    BY <1>1, <1>3 DEF RunAgrees
  <1>8. DependenciesFirst /\ FailuresSpread
    BY <1>1, <1>3, <1>4 DEF DependenciesFirst, FailuresSpread
  <1>9. QED
    BY <1>5, <1>6, <1>7, <1>8 DEF PlanInv

LEMMA CountKeeps == PlanInv /\ Count => PlanInv'
  <1> SUFFICES ASSUME PlanInv, Count PROVE PlanInv'
    OBVIOUS
  <1>1. /\ pc = "start" /\ ready = {} /\ order = <<>> /\ next = 1
        /\ Sorted = {} /\ Cardinality(Sorted) = Len(order) /\ Len(order) = 0
        /\ completed \cup failed = {}
    BY DEF PlanInv, SortAgrees, RunAgrees, Counted, Count, Sorted
  <1>2. /\ size' = size /\ deps' = deps /\ order' = order /\ next' = next
        /\ completed' = completed /\ failed' = failed /\ broke' = broke
        /\ Tasks' = Tasks /\ Sorted' = Sorted
    BY DEF Count, plan, outcome, sort, Tasks, Sorted
  <1>3. size \in Nat /\ deps \in [Tasks -> SUBSET (Tasks \cup {Unknown})]
    BY PlanAssumption DEF PlanInv, TypeOK
  <1>4. \A t \in Tasks : IsFiniteSet(deps[t])
    <2>1. IsFiniteSet(Tasks \cup {Unknown})
      BY <1>3, TasksFinite, FS_AddElement
    <2>2. QED BY <1>3, <2>1, FS_Subset
  <1>5. CASE size = 0
    <2>1. pc' = "summary" /\ ready' = ready /\ inDegree' = inDegree /\ Tasks = {}
      BY <1>5 DEF Count, sort, Tasks
    <2>2. TypeOK'
      BY <1>1, <1>2, <2>1 DEF PlanInv, TypeOK
    <2>3. SortAgrees'
      BY <1>1, <1>2, <2>1 DEF SortAgrees, Counted
    <2>4. RunAgrees'
      BY <1>1, <1>2, <2>1 DEF PlanInv, RunAgrees
    <2>5. DependenciesFirst' /\ FailuresSpread'
      BY <1>1, <1>2, <2>1 DEF PlanInv, DependenciesFirst, FailuresSpread
    <2>6. QED BY <2>2, <2>3, <2>4, <2>5 DEF PlanInv
  <1>6. CASE size # 0 /\ \E t \in Tasks : Unknown \in deps[t]
    <2>1. pc' = "keyError" /\ ready' = ready /\ inDegree' = inDegree
      BY <1>6 DEF Count, sort
    <2>2. TypeOK'
      BY <1>1, <1>2, <2>1 DEF PlanInv, TypeOK
    <2>3. SortAgrees'
      BY <1>1, <1>2, <2>1 DEF PlanInv, SortAgrees, Counted, Knot
    <2>4. RunAgrees'
      BY <1>1, <1>2, <2>1 DEF PlanInv, RunAgrees
    <2>5. DependenciesFirst' /\ FailuresSpread'
      BY <1>1, <1>2, <2>1 DEF PlanInv, DependenciesFirst, FailuresSpread
    <2>6. QED BY <2>2, <2>3, <2>4, <2>5 DEF PlanInv
  <1>7. CASE size # 0 /\ ~(\E t \in Tasks : Unknown \in deps[t])
    <2>1. /\ pc' = "sort"
          /\ inDegree' = [t \in Tasks |-> Cardinality(deps[t])]
          /\ ready' = {t \in Tasks : deps[t] = {}}
      BY <1>7 DEF Count
    <2>2. \A t \in Tasks : deps[t] \subseteq Tasks /\ deps[t] \ Sorted = deps[t]
      BY <1>1, <1>3, <1>7
    <2>3. \A t \in Tasks : Cardinality(deps[t]) \in Nat
      BY <1>4, FS_CardinalityType
    <2>4. TypeOK'
      BY <1>1, <1>2, <2>1, <2>3 DEF PlanInv, TypeOK
    <2>5. SortAgrees'
      <3>1. (\A S \in SUBSET Tasks : Knot(S) => S \cap Sorted = {})'
        BY <1>1, <1>2
      <3>2. (\A t \in Tasks : /\ deps[t] \subseteq Tasks
                              /\ inDegree[t] = Cardinality(deps[t] \ Sorted))'
        BY <1>2, <2>1, <2>2
      <3>3. (ready = {t \in Tasks \ Sorted : deps[t] \subseteq Sorted})'
        BY <1>1, <1>2, <2>1
      <3>4. QED BY <1>1, <1>2, <2>1, <3>1, <3>2, <3>3 DEF SortAgrees, Counted
    <2>6. RunAgrees'
      BY <1>1, <1>2, <2>1 DEF PlanInv, RunAgrees
    <2>7. DependenciesFirst' /\ FailuresSpread'
      BY <1>1, <1>2, <2>1 DEF PlanInv, DependenciesFirst, FailuresSpread
    <2>8. QED BY <2>4, <2>5, <2>6, <2>7 DEF PlanInv
  <1>8. QED
    BY <1>5, <1>6, <1>7

LEMMA PopKeeps == ASSUME NEW n \in ready PROVE PlanInv /\ Pop(n) => PlanInv'
  <1> SUFFICES ASSUME PlanInv, Pop(n) PROVE PlanInv'
    OBVIOUS
  <1>1. /\ pc = "sort" /\ order' = Append(order, n)
        /\ inDegree' = [t \in Tasks |-> IF t \in Children(n) THEN inDegree[t] - 1 ELSE inDegree[t]]
        /\ ready' = (ready \ {n}) \cup Freed(n)
    BY DEF Pop
  <1>2. /\ size' = size /\ deps' = deps /\ next' = next /\ pc' = pc /\ Tasks' = Tasks
        /\ completed' = completed /\ failed' = failed /\ broke' = broke
    BY DEF Pop, plan, outcome, Tasks
  <1>3. /\ size \in Nat /\ deps \in [Tasks -> SUBSET (Tasks \cup {Unknown})]
        /\ inDegree \in [Tasks -> Nat] /\ order \in Seq(Tasks) /\ ready \subseteq Tasks
        /\ n \in Tasks
    BY PlanAssumption DEF PlanInv, TypeOK
  <1>4. /\ \A t \in Tasks : /\ deps[t] \subseteq Tasks
                            /\ inDegree[t] = Cardinality(deps[t] \ Sorted)
        /\ ready = {t \in Tasks \ Sorted : deps[t] \subseteq Sorted}
        /\ n \notin Sorted /\ deps[n] \subseteq Sorted
    BY <1>1 DEF PlanInv, SortAgrees, Counted
  <1>5. /\ order' \in Seq(Tasks) /\ Len(order') = Len(order) + 1
        /\ \A i \in 1..Len(order) : order'[i] = order[i]
        /\ order'[Len(order) + 1] = n
        /\ DOMAIN order' = 1..Len(order) + 1 /\ DOMAIN order = 1..Len(order)
        /\ Len(order) \in Nat
    BY <1>1, <1>3, AppendSorted
  <1>6. Sorted' = Sorted \cup {n} /\ Sorted \subseteq Tasks
    <2>1. Sorted = {order[i] : i \in 1..Len(order)}
      BY <1>5 DEF Sorted
    <2>2. Sorted' = {order'[i] : i \in 1..Len(order) + 1}
      BY <1>5 DEF Sorted
    <2>3. 1..Len(order) + 1 = (1..Len(order)) \cup {Len(order) + 1}
      BY <1>5
    <2>4. Sorted' = {order'[i] : i \in 1..Len(order)} \cup {order'[Len(order) + 1]}
      BY <2>2, <2>3
    <2>5. {order'[i] : i \in 1..Len(order)} = Sorted
      BY <2>1, <1>5
    <2>6. Sorted \subseteq Tasks
      BY <2>1, <1>3
    <2>7. QED BY <2>4, <2>5, <2>6, <1>5
  <1>7. \A t \in Sorted : deps[t] \subseteq Sorted
    <2>1. ASSUME NEW i \in DOMAIN order PROVE deps[order[i]] \subseteq Sorted
      <3>1. deps[order[i]] \subseteq {order[j] : j \in 1..i - 1}
        BY DEF PlanInv, DependenciesFirst
      <3>2. \A j \in 1..i - 1 : j \in DOMAIN order
        BY <1>5
      <3>3. QED BY <3>1, <3>2 DEF Sorted
    <2>2. QED BY <2>1 DEF Sorted
  <1>8. IsFiniteSet(Sorted) /\ \A t \in Tasks : IsFiniteSet(deps[t] \ Sorted)
    <2>1. IsFiniteSet(Tasks)
      BY <1>3, TasksFinite
    <2>2. \A t \in Tasks : deps[t] \ Sorted \in SUBSET Tasks
      BY <1>4
    <2>3. QED BY <2>1, <2>2, <1>6, FS_Subset
  <1>9. Children(n) = {t \in Tasks \ Sorted : n \in deps[t]} /\ n \notin Children(n)
    BY <1>4, <1>6, <1>7 DEF Children
  <1>10. \A t \in Tasks :
            /\ t \in Children(n) =>
                 /\ Cardinality(deps[t] \ Sorted) \in Nat \ {0}
                 /\ Cardinality(deps[t] \ Sorted') = Cardinality(deps[t] \ Sorted) - 1
                 /\ Cardinality(deps[t] \ Sorted) = 1 <=> deps[t] \ Sorted = {n}
            /\ t \notin Children(n) => deps[t] \ Sorted' = deps[t] \ Sorted
    <2> SUFFICES ASSUME NEW t \in Tasks
                 PROVE  /\ t \in Children(n) =>
                             /\ Cardinality(deps[t] \ Sorted) \in Nat \ {0}
                             /\ Cardinality(deps[t] \ Sorted') = Cardinality(deps[t] \ Sorted) - 1
                             /\ Cardinality(deps[t] \ Sorted) = 1 <=> deps[t] \ Sorted = {n}
                        /\ t \notin Children(n) => deps[t] \ Sorted' = deps[t] \ Sorted
      OBVIOUS
    <2>1. deps[t] \ Sorted' = (deps[t] \ Sorted) \ {n}
      BY <1>6
    <2>2. CASE t \in Children(n)
      <3>1. n \in deps[t] \ Sorted /\ IsFiniteSet(deps[t] \ Sorted)
        BY <2>2, <1>4, <1>8, <1>9
      <3>2. QED BY <3>1, <2>1, <2>2, LastOne
    <2>3. CASE t \notin Children(n)
      BY <2>1, <2>3, <1>4 DEF Children
    <2>4. QED BY <2>2, <2>3
  <1>11. TypeOK'
    <2>1. (inDegree \in [Tasks -> Nat])'
      <3>1. \A t \in Tasks : t \in Children(n) => inDegree[t] - 1 \in Nat
        <4> SUFFICES ASSUME NEW t \in Tasks, t \in Children(n) PROVE inDegree[t] - 1 \in Nat
          OBVIOUS
        <4>1. Cardinality(deps[t] \ Sorted) \in Nat \ {0}
          BY <1>10
        <4>2. inDegree[t] = Cardinality(deps[t] \ Sorted)
          BY <1>4
        <4>3. QED BY <4>1, <4>2
      <3>2. QED BY <3>1, <1>1, <1>2, <1>3
    <2>2. (ready \subseteq Tasks)'
      BY <1>1, <1>2, <1>3 DEF Freed, Children
    <2>3. (next \in 1..Len(order) + 1)'
      BY <1>2, <1>5 DEF PlanInv, TypeOK
    <2>4. QED BY <1>2, <1>5, <2>1, <2>2, <2>3 DEF PlanInv, TypeOK
  <1>12. SortAgrees'
    <2>1. (Cardinality(Sorted) = Len(order))'
      <3>1. Cardinality(Sorted \cup {n}) = Cardinality(Sorted) + 1
        BY <1>4, <1>8, FS_AddElement
      <3>2. Cardinality(Sorted) = Len(order)
        BY DEF PlanInv, SortAgrees
      <3>3. QED BY <3>1, <3>2, <1>5, <1>6
    <2>2. (\A S \in SUBSET Tasks : Knot(S) => S \cap Sorted = {})'
      <3>1. ASSUME NEW S \in SUBSET Tasks, Knot(S) PROVE n \notin S
        BY <3>1, <1>4 DEF Knot, PlanInv, SortAgrees
      <3>2. QED BY <3>1, <1>2, <1>6 DEF Knot, PlanInv, SortAgrees
    <2>3. (\A t \in Tasks : /\ deps[t] \subseteq Tasks
                            /\ inDegree[t] = Cardinality(deps[t] \ Sorted))'
      BY <1>1, <1>2, <1>4, <1>10
    <2>4. (ready = {t \in Tasks \ Sorted : deps[t] \subseteq Sorted})'
      <3>1. ASSUME NEW t \in Tasks
            PROVE  t \in ready' <=> t \notin Sorted' /\ deps[t] \subseteq Sorted'
        <4>1. CASE t \in Children(n)
          <5>1. t \notin ready /\ t # n /\ t \notin Sorted
            BY <4>1, <1>4, <1>9
          <5>2. t \in Freed(n) <=> deps[t] \ Sorted = {n}
            BY <4>1, <1>4, <1>10 DEF Freed
          <5>3. n \in deps[t]
            BY <4>1 DEF Children
          <5>4. t \in ready' <=> deps[t] \ Sorted = {n}
            BY <5>1, <5>2, <1>1
          <5>5. deps[t] \ Sorted = {n} <=> deps[t] \subseteq Sorted \cup {n}
            BY <5>1, <5>3, <1>4
          <5>6. t \notin Sorted'
            BY <5>1, <1>6
          <5>7. QED BY <5>4, <5>5, <5>6, <1>6
        <4>2. CASE t \notin Children(n)
          <5>1. t \notin Freed(n) /\ n \notin deps[t]
            BY <4>2 DEF Freed, Children
          <5>2. QED BY <5>1, <1>1, <1>4, <1>6
        <4>3. QED BY <4>1, <4>2
      <3>2. ready' \subseteq Tasks
        BY <1>1, <1>3 DEF Freed, Children
      <3>3. QED BY <3>1, <3>2, <1>2
    <2>5. QED BY <1>1, <1>2, <2>1, <2>2, <2>3, <2>4 DEF SortAgrees, Counted
  <1>13. RunAgrees'
    <2>1. next = 1 /\ {order[i] : i \in 1..next - 1} = {} /\ completed \cup failed = {}
      BY <1>1 DEF PlanInv, RunAgrees
    <2>2. QED BY <1>1, <1>2, <2>1 DEF RunAgrees
  <1>14. DependenciesFirst'
    <2>1. ASSUME NEW i \in DOMAIN order', NEW j \in DOMAIN order', order'[i] = order'[j]
          PROVE  i = j
      <3>1. \A k \in 1..Len(order) : order[k] # n
        BY <1>4, <1>5 DEF Sorted
      <3>2. \A k, l \in 1..Len(order) : order[k] = order[l] => k = l
        BY <1>5 DEF PlanInv, DependenciesFirst
      <3>3. i \in 1..Len(order) \/ i = Len(order) + 1
        BY <1>5
      <3>4. j \in 1..Len(order) \/ j = Len(order) + 1
        BY <1>5
      <3>5. QED BY <2>1, <3>1, <3>2, <3>3, <3>4, <1>5
    <2>2. ASSUME NEW i \in DOMAIN order'
          PROVE  deps'[order'[i]] \subseteq {order'[j] : j \in 1..i - 1}
      <3>1. CASE i \in 1..Len(order)
        <4>1. deps[order[i]] \subseteq {order[j] : j \in 1..i - 1}
          BY <3>1, <1>5 DEF PlanInv, DependenciesFirst
        <4>2. \A j \in 1..i - 1 : order'[j] = order[j]
          BY <3>1, <1>5
        <4>3. QED BY <4>1, <4>2, <3>1, <1>2, <1>5
      <3>2. CASE i = Len(order) + 1
        <4>1. i - 1 = Len(order)
          BY <3>2, <1>5
        <4>2. Sorted = {order'[j] : j \in 1..i - 1}
          BY <4>1, <1>5 DEF Sorted
        <4>3. QED BY <4>2, <3>2, <1>2, <1>4, <1>5
      <3>3. QED BY <3>1, <3>2, <1>5
    <2>3. QED BY <2>1, <2>2 DEF DependenciesFirst
  <1>15. FailuresSpread'
    BY <1>1, <1>2 DEF PlanInv, FailuresSpread
  <1>16. QED
    BY <1>11, <1>12, <1>13, <1>14, <1>15 DEF PlanInv

LEMMA ConcludeSortKeeps == PlanInv /\ ConcludeSort => PlanInv'
  <1> SUFFICES ASSUME PlanInv, ConcludeSort PROVE PlanInv'
    OBVIOUS
  <1>1. /\ pc = "sort" /\ ready = {}
        /\ pc' = IF Len(order) = size THEN "run" ELSE "cyclic"
        /\ UNCHANGED <<plan, sort, outcome>>
    BY DEF ConcludeSort
  <1>2. /\ Tasks' = Tasks /\ Sorted' = Sorted /\ UNCHANGED <<size, deps, inDegree, ready, order>>
        /\ UNCHANGED <<next, completed, failed, broke>>
    BY <1>1 DEF plan, sort, outcome, Tasks, Sorted
  <1>3. Len(order) = size <=> Sorted = Tasks
    <2>1. size \in Nat /\ order \in Seq(Tasks)
      BY PlanAssumption DEF PlanInv, TypeOK
    <2>2. Sorted \in SUBSET Tasks
      BY <2>1 DEF Sorted
    <2>3. Cardinality(Sorted) = Len(order)
      BY DEF PlanInv, SortAgrees
    <2>4. QED BY <2>1, <2>2, <2>3, TasksFinite, FS_Subset
  <1>4. TypeOK'
    BY <1>1, <1>2 DEF PlanInv, TypeOK
  <1>5. SortAgrees'
    BY <1>1, <1>2, <1>3 DEF PlanInv, SortAgrees, Counted, Knot
  <1>6. RunAgrees'
    BY <1>1, <1>2 DEF PlanInv, RunAgrees
  <1>7. DependenciesFirst' /\ FailuresSpread'
    BY <1>1, <1>2 DEF PlanInv, DependenciesFirst, FailuresSpread
  <1>8. QED
    BY <1>4, <1>5, <1>6, <1>7 DEF PlanInv

LEMMA RunKeeps == PlanInv /\ Run => PlanInv'
  <1> SUFFICES ASSUME PlanInv, Run PROVE PlanInv'
    OBVIOUS
  <1> DEFINE t == order[next]
             passed == {order[i] : i \in 1..next - 1}
  <1>1. /\ pc = "run" /\ next <= Len(order) /\ next' = next + 1
        /\ UNCHANGED <<plan, pc, sort>>
    BY DEF Run
  <1>2. /\ Tasks' = Tasks /\ Sorted' = Sorted /\ UNCHANGED <<size, deps, pc, inDegree, ready, order>>
    BY <1>1 DEF plan, sort, Tasks, Sorted
  <1>3. /\ order \in Seq(Tasks) /\ next \in Nat \ {0} /\ next \in DOMAIN order /\ Len(order) \in Nat
        /\ DOMAIN order = 1..Len(order)
    BY <1>1 DEF PlanInv, TypeOK
  <1>4. t \in Tasks
    BY <1>3
  <1>5. completed \cup failed = passed
    BY DEF PlanInv, RunAgrees
  <1>6. deps[t] \subseteq passed /\ t \notin passed
    BY <1>3 DEF PlanInv, DependenciesFirst
  <1>7. {order[i] : i \in 1..next' - 1} = passed \cup {t}
    BY <1>1, <1>3
  <1>8. /\ completed' \cup failed' = passed \cup {t}
        /\ completed' \subseteq Tasks /\ failed' \subseteq Tasks /\ broke' \subseteq failed'
        /\ completed' \cap failed' = {}
        /\ \A u \in completed' : deps[u] \subseteq completed'
        /\ \A u \in failed' \ broke' : deps[u] \cap failed' # {}
    <2>1. /\ completed \subseteq Tasks /\ failed \subseteq Tasks /\ broke \subseteq failed
          /\ completed \cap failed = {}
          /\ \A u \in completed : deps[u] \subseteq completed
          /\ \A u \in failed \ broke : deps[u] \cap failed # {}
      BY DEF PlanInv, TypeOK, FailuresSpread
    <2>2. CASE Skip
      <3>1. /\ deps[t] \cap failed # {} /\ failed' = failed \cup {t}
            /\ completed' = completed /\ broke' = broke
        BY <2>2 DEF Skip
      <3>2. QED BY <2>1, <3>1, <1>4, <1>5, <1>6
    <2>3. CASE Execute /\ completed' = completed \cup {t} /\ UNCHANGED <<failed, broke>>
      <3>1. deps[t] \cap failed = {}
        BY <2>3 DEF Execute
      <3>2. deps[t] \subseteq completed
        BY <3>1, <1>5, <1>6
      <3>3. QED BY <2>1, <2>3, <3>2, <1>4, <1>5, <1>6
    <2>4. CASE failed' = failed \cup {t} /\ broke' = broke \cup {t} /\ UNCHANGED completed
      BY <2>1, <2>4, <1>4, <1>5, <1>6
    <2>5. QED BY <2>2, <2>3, <2>4 DEF Run, Execute
  <1>9. TypeOK'
    <2>1. (next \in 1..Len(order) + 1)'
      BY <1>1, <1>2, <1>3
    <2>2. QED BY <1>2, <1>8, <2>1 DEF PlanInv, TypeOK
  <1>10. SortAgrees'
    BY <1>1, <1>2 DEF PlanInv, SortAgrees, Counted, Knot
  <1>11. RunAgrees'
    BY <1>1, <1>2, <1>7, <1>8 DEF RunAgrees
  <1>12. DependenciesFirst'
    BY <1>2 DEF PlanInv, DependenciesFirst
  <1>13. FailuresSpread'
    BY <1>1, <1>2, <1>8 DEF FailuresSpread
  <1>14. QED
    BY <1>9, <1>10, <1>11, <1>12, <1>13 DEF PlanInv

LEMMA SummariseKeeps == PlanInv /\ Summarise => PlanInv'
  <1> SUFFICES ASSUME PlanInv, Summarise PROVE PlanInv'
    OBVIOUS
  <1>1. /\ pc = "run" /\ next > Len(order) /\ pc' = "summary"
        /\ UNCHANGED <<plan, sort, outcome>>
    BY DEF Summarise
  <1>2. /\ Tasks' = Tasks /\ Sorted' = Sorted /\ UNCHANGED <<size, deps, inDegree, ready, order>>
        /\ UNCHANGED <<next, completed, failed, broke>>
    BY <1>1 DEF plan, sort, outcome, Tasks, Sorted
  <1>3. /\ next = Len(order) + 1 /\ next - 1 = Len(order) /\ DOMAIN order = 1..Len(order)
    BY <1>1 DEF PlanInv, TypeOK
  <1>4. completed \cup failed = Tasks
    BY <1>1, <1>3 DEF PlanInv, RunAgrees, SortAgrees, Sorted
  <1>5. TypeOK'
    BY <1>1, <1>2 DEF PlanInv, TypeOK
  <1>6. SortAgrees'
    BY <1>1, <1>2 DEF PlanInv, SortAgrees, Counted, Knot
  <1>7. RunAgrees'
    BY <1>1, <1>2, <1>3 DEF PlanInv, RunAgrees
  <1>8. DependenciesFirst'
    BY <1>2 DEF PlanInv, DependenciesFirst
  <1>9. FailuresSpread'
    BY <1>1, <1>2, <1>4 DEF PlanInv, FailuresSpread
  <1>10. QED
    BY <1>5, <1>6, <1>7, <1>8, <1>9 DEF PlanInv

LEMMA StutterKeeps == PlanInv /\ UNCHANGED vars => PlanInv'
  <1> SUFFICES ASSUME PlanInv, UNCHANGED vars PROVE PlanInv'
    OBVIOUS
  <1>1. /\ Tasks' = Tasks /\ Sorted' = Sorted
        /\ UNCHANGED <<size, deps, pc, inDegree, ready, order, next, completed, failed, broke>>
    BY DEF vars, plan, sort, outcome, Tasks, Sorted
  <1>2. TypeOK'
    BY <1>1 DEF PlanInv, TypeOK
  <1>3. SortAgrees'
    BY <1>1 DEF PlanInv, SortAgrees, Counted, Knot
  <1>4. RunAgrees' /\ DependenciesFirst' /\ FailuresSpread'
    BY <1>1 DEF PlanInv, RunAgrees, DependenciesFirst, FailuresSpread
  <1>5. QED BY <1>2, <1>3, <1>4 DEF PlanInv

\* Sort, run and report keep the invariant at every step (execute_dag).
THEOREM PlanInvariant == Spec => []PlanInv
  <1>1. PlanInv /\ [Next]_vars => PlanInv'
    BY CountKeeps, PopKeeps, ConcludeSortKeeps, RunKeeps, SummariseKeeps, StutterKeeps DEF Next
  <1>2. QED
    BY InitEstablishes, <1>1, PTL DEF Spec

\* Every variable of the executor keeps its type (execute_dag).
THEOREM TypeCorrect == Spec => []TypeOK
  <1>1. PlanInv => TypeOK
    BY DEF PlanInv
  <1>2. QED BY PlanInvariant, <1>1, PTL

\* Exactly the plans with a cycle are refused, whatever their size
\* (_topological_sort).
THEOREM CyclesRefused == Spec => []RejectedIffCyclic
  <1>1. PlanInv => RejectedIffCyclic
    <2> SUFFICES ASSUME PlanInv PROVE RejectedIffCyclic
      OBVIOUS
    <2>1. ASSUME pc \in {"run", "summary"} PROVE ~Cyclic
      <3>1. Sorted = Tasks /\ \A S \in SUBSET Tasks : Knot(S) => S \cap Sorted = {}
        BY <2>1 DEF PlanInv, SortAgrees
      <3>2. QED BY <3>1 DEF Cyclic, Knot
    <2>2. ASSUME pc = "cyclic" PROVE Cyclic
      <3>1. /\ ready = {} /\ Sorted # Tasks
            /\ \A t \in Tasks : deps[t] \subseteq Tasks
            /\ ready = {t \in Tasks \ Sorted : deps[t] \subseteq Sorted}
        BY <2>2 DEF PlanInv, SortAgrees, Counted
      <3>2. Sorted \subseteq Tasks
        BY DEF PlanInv, TypeOK, Sorted
      <3>3. Knot(Tasks \ Sorted)
        BY <3>1, <3>2 DEF Knot
      <3>4. QED BY <3>3 DEF Cyclic
    <2>3. QED BY <2>1, <2>2 DEF RejectedIffCyclic
  <1>2. QED BY PlanInvariant, <1>1, PTL

\* No task comes before one it depends on, and none comes twice
\* (_topological_sort, which the loop of execute_dag follows).
THEOREM OrderRespectsDependencies == Spec => []DependenciesFirst
  <1>1. PlanInv => DependenciesFirst
    BY DEF PlanInv
  <1>2. QED BY PlanInvariant, <1>1, PTL

\* A failure reaches everything that depends on it and nothing else
\* (execute_dag's completed and failed).
THEOREM FailuresReported == Spec => []FailuresSpread
  <1>1. PlanInv => FailuresSpread
    BY DEF PlanInv
  <1>2. QED BY PlanInvariant, <1>1, PTL

\* The order never has more entries than the plan.
LEMMA StepsLeftType ==
    PlanInv => /\ StepsLeft \in Nat
               /\ size \in Nat /\ Len(order) \in 0..size
               /\ pc = "run" => next \in 1..size + 1 /\ Len(order) = size
  <1> SUFFICES ASSUME PlanInv
               PROVE  /\ StepsLeft \in Nat
                      /\ size \in Nat /\ Len(order) \in 0..size
                      /\ pc = "run" => next \in 1..size + 1 /\ Len(order) = size
    OBVIOUS
  <1>1. /\ size \in Nat /\ order \in Seq(Tasks) /\ next \in 1..Len(order) + 1
        /\ pc \in {"start", "keyError", "sort", "cyclic", "run", "summary"}
    BY PlanAssumption DEF PlanInv, TypeOK
  <1>2. Cardinality(Sorted) = Len(order) /\ (pc = "run" => Sorted = Tasks)
    BY DEF PlanInv, SortAgrees
  <1>3. IsFiniteSet(Tasks) /\ Cardinality(Tasks) = size
    BY <1>1, TasksFinite
  <1>4. Sorted \subseteq Tasks
    BY <1>1 DEF Sorted
  <1>5. Len(order) \in 0..size
    <2>1. Cardinality(Sorted) <= Cardinality(Tasks)
      BY <1>3, <1>4, FS_Subset
    <2>2. Len(order) \in Nat
      BY <1>1
    <2>3. QED BY <1>1, <1>2, <1>3, <2>1, <2>2
  <1>6. pc = "run" => next \in 1..size + 1 /\ Len(order) = size
    BY <1>1, <1>2, <1>3
  <1>7. StepsLeft \in Nat
    BY <1>1, <1>5, <1>6 DEF StepsLeft
  <1>8. QED BY <1>1, <1>5, <1>6, <1>7

\* Sort and loop end whatever the plan and whatever its tasks answer
\* (_topological_sort, execute_dag).
THEOREM PlansRunOut == Spec => PlanRunsOut
  <1> DEFINE Typed == /\ StepsLeft \in Nat
                      /\ size \in Nat /\ Len(order) \in 0..size
                      /\ pc = "run" => next \in 1..size + 1 /\ Len(order) = size
  <1>1. PlanInv => Typed
    BY StepsLeftType
  <1>2. ASSUME PlanInv, Typed, Typed', Next
        PROVE  StepsLeft' < StepsLeft /\ StepsLeft' \in Nat
    <2>1. CASE Count
      BY <1>2, <2>1 DEF Count, plan, sort, outcome, StepsLeft
    <2>2. ASSUME NEW n \in ready, Pop(n)
          PROVE  StepsLeft' < StepsLeft
      <3>1. order \in Seq(Tasks) /\ n \in Tasks
        BY <1>2, <2>2 DEF PlanInv, TypeOK
      <3>2. Len(order') = Len(order) + 1
        BY <2>2, <3>1, AppendSorted DEF Pop
      <3>3. pc = "sort" /\ pc' = "sort" /\ size' = size
        BY <2>2 DEF Pop, plan
      <3>4. QED BY <1>2, <3>2, <3>3 DEF StepsLeft
    <2>3. CASE ConcludeSort
      <3>1. next = 1
        BY <1>2, <2>3 DEF ConcludeSort, PlanInv, RunAgrees
      <3>2. QED BY <1>2, <2>3, <3>1 DEF ConcludeSort, plan, sort, outcome, StepsLeft
    <2>4. CASE Run
      BY <1>2, <2>4 DEF Run, plan, sort, StepsLeft
    <2>5. CASE Summarise
      BY <1>2, <2>5 DEF Summarise, plan, sort, outcome, StepsLeft
    <2>6. QED BY <1>2, <2>1, <2>2, <2>3, <2>4, <2>5 DEF Next
  <1>3. PlanInv /\ Typed /\ Typed' /\ [Next]_vars
          => [StepsLeft' < StepsLeft /\ StepsLeft' \in Nat]_vars
    BY <1>2
  <1>4. QED BY PlanInvariant, <1>1, <1>3, PTL DEF Spec, PlanRunsOut
=============================================================================
