----------------------------- MODULE MultiStep ------------------------------
(***************************************************************************)
(* execute_dag of src/src/pipeline/multi_step.py: a plan is sorted by its  *)
(* dependencies, then run task by task; a task one of whose dependencies   *)
(* failed is not run.  A plan is any list of dictionaries: nothing checks  *)
(* it before the sort.  What a task answers is open (_execute_single_task  *)
(* is a dry run until it is joined to the single-step pipeline), and so is *)
(* the order in which tasks that are ready at once leave the queue.        *)
(*                                                                         *)
(* A task is its place in the plan; Unknown stands for an identifier that  *)
(* is not in it.  Identifiers are distinct here: a plan that repeats one is *)
(* always refused as cyclic, because the order then has fewer entries.     *)
(***************************************************************************)
EXTENDS Naturals, Sequences, FiniteSets

CONSTANT MaxTasks  \* bound: the tasks of a plan

ASSUME PlanAssumption == MaxTasks \in Nat

VARIABLES size,       \* how many tasks the plan has
          deps,       \* the dependencies of each
          pc,         \* the stage, or how it ended
          inDegree, ready, order,     \* _topological_sort
          next,       \* the place in order of the task to run
          completed, failed,
          broke       \* history: the tasks that failed themselves

plan == <<size, deps>>
sort == <<inDegree, ready, order>>
outcome == <<next, completed, failed, broke>>
vars == <<plan, pc, sort, outcome>>

Unknown == 0
Tasks == 1..size
Sorted == {order[i] : i \in DOMAIN order}

Init ==
    /\ size \in 0..MaxTasks
    /\ \E d \in [1..size -> SUBSET (1..size)], stray \in SUBSET {size} :
         deps = [t \in 1..size |-> IF t \in stray THEN d[t] \cup {Unknown} ELSE d[t]]
    /\ pc = "start"
    /\ inDegree = [t \in 1..size |-> 0] /\ ready = {} /\ order = <<>>
    /\ next = 1 /\ completed = {} /\ failed = {} /\ broke = {}

\* A dependency the plan does not hold is a KeyError, and an empty plan is done.
Count ==
    /\ pc = "start"
    /\ IF size = 0 THEN pc' = "summary" /\ UNCHANGED sort
       ELSE IF \E t \in Tasks : Unknown \in deps[t] THEN pc' = "keyError" /\ UNCHANGED sort
       ELSE /\ pc' = "sort"
            /\ inDegree' = [t \in Tasks |-> Cardinality(deps[t])]
            /\ ready' = {t \in Tasks : deps[t] = {}}
            /\ UNCHANGED order
    /\ UNCHANGED <<plan, outcome>>

Children(n) == {t \in Tasks : n \in deps[t]}

\* Mutant: a child joins the queue with the first of its dependencies.
FreedEarly(n) == Children(n)

\* The children whose last open dependency is n.
Freed(n) == {t \in Children(n) : inDegree[t] = 1}

Pop(n) ==
    /\ pc = "sort" /\ n \in ready
    /\ order' = Append(order, n)
    /\ inDegree' = [t \in Tasks |-> IF t \in Children(n) THEN inDegree[t] - 1 ELSE inDegree[t]]
    /\ ready' = (ready \ {n}) \cup Freed(n)
    /\ UNCHANGED <<plan, pc, outcome>>

\* Mutant: what could be sorted is run.
ConcludeSortAnyway ==
    /\ pc = "sort" /\ ready = {}
    /\ pc' = "run"
    /\ UNCHANGED <<plan, sort, outcome>>

\* Fewer tasks in the order than in the plan: a cycle.
ConcludeSort ==
    /\ pc = "sort" /\ ready = {}
    /\ pc' = IF Len(order) = size THEN "run" ELSE "cyclic"
    /\ UNCHANGED <<plan, sort, outcome>>

\* Mutant: a task that is skipped does not count as failed.
SkipSilently ==
    /\ deps[order[next]] \cap failed # {}
    /\ UNCHANGED <<completed, failed, broke>>

Skip ==
    /\ deps[order[next]] \cap failed # {}
    /\ failed' = failed \cup {order[next]}
    /\ UNCHANGED <<completed, broke>>

Execute ==
    /\ deps[order[next]] \cap failed = {}
    /\ \/ completed' = completed \cup {order[next]} /\ UNCHANGED <<failed, broke>>
       \/ failed' = failed \cup {order[next]} /\ broke' = broke \cup {order[next]} /\ UNCHANGED completed

Run ==
    /\ pc = "run" /\ next <= Len(order)
    /\ Skip \/ Execute
    /\ next' = next + 1
    /\ UNCHANGED <<plan, pc, sort>>

Summarise ==
    /\ pc = "run" /\ next > Len(order)
    /\ pc' = "summary"
    /\ UNCHANGED <<plan, sort, outcome>>

Next == Count \/ (\E n \in ready : Pop(n)) \/ ConcludeSort \/ Run \/ Summarise

Spec == Init /\ [][Next]_vars

(***************************************************************************)
(* Properties                                                              *)
(***************************************************************************)
TypeOK ==
    /\ size \in 0..MaxTasks
    /\ deps \in [Tasks -> SUBSET (Tasks \cup {Unknown})]
    /\ pc \in {"start", "keyError", "sort", "cyclic", "run", "summary"}
    /\ inDegree \in [Tasks -> Nat]
    /\ ready \subseteq Tasks
    /\ order \in Seq(Tasks)
    /\ next \in 1..Len(order) + 1
    /\ completed \subseteq Tasks /\ failed \subseteq Tasks /\ broke \subseteq failed

\* A plan has a cycle when some of its tasks each wait for another of them.
Knot(S) == S # {} /\ \A t \in S : deps[t] \cap S # {}
Cyclic == \E S \in SUBSET Tasks : Knot(S)

\* Exactly the plans with a cycle are refused, and no task of one is run
\* (_topological_sort compares the length of its result with the plan's).
RejectedIffCyclic ==
    /\ pc \in {"run", "summary"} => ~Cyclic
    /\ pc = "cyclic" => Cyclic

\* Every task is run or skipped once, and after all it depends on.
DependenciesFirst ==
    /\ \A i, j \in DOMAIN order : order[i] = order[j] => i = j
    /\ \A i \in DOMAIN order : deps[order[i]] \subseteq {order[j] : j \in 1..i - 1}

\* At the end each task is accounted for once.  A task has completed only if all
\* it depends on has, and one that did not fail itself has failed only for a
\* dependency that did, however the failures came about.
FailuresSpread ==
    /\ completed \cap failed = {}
    /\ pc = "summary" => completed \cup failed = Tasks
    /\ \A t \in completed : deps[t] \subseteq completed
    /\ \A t \in failed \ broke : deps[t] \cap failed # {}

(***************************************************************************)
(* The inductive invariant                                                 *)
(***************************************************************************)
Counted == pc \notin {"start", "keyError"}

\* What the sort knows: the open dependencies of each task, and that no task of
\* a knot is ever sorted.
SortAgrees ==
    /\ Cardinality(Sorted) = Len(order)
    /\ \A S \in SUBSET Tasks : Knot(S) => S \cap Sorted = {}
    /\ ~Counted => ready = {} /\ order = <<>>
    /\ Counted =>
         /\ \A t \in Tasks : /\ deps[t] \subseteq Tasks
                             /\ inDegree[t] = Cardinality(deps[t] \ Sorted)
         /\ ready = {t \in Tasks \ Sorted : deps[t] \subseteq Sorted}
    /\ pc \in {"run", "summary"} => Sorted = Tasks
    /\ pc = "cyclic" => ready = {} /\ Sorted # Tasks

\* The tasks accounted for are the ones the run has passed.
RunAgrees ==
    /\ completed \cup failed = {order[i] : i \in 1..next - 1}
    /\ pc \notin {"run", "summary"} => next = 1
    /\ pc = "summary" => next = Len(order) + 1

PlanInv == TypeOK /\ SortAgrees /\ RunAgrees /\ DependenciesFirst /\ FailuresSpread

\* The tasks still to be sorted and to be run, and the stages before them.
StepsLeft ==
    CASE pc = "start" -> 2 * size + 3
      [] pc = "sort" -> 2 * size + 2 - Len(order)
      [] pc = "run" -> size + 2 - next
      [] OTHER -> 0

\* The queue of the sort runs dry and the loop comes to its end on any plan,
\* one with a cycle too: no task enters the queue a second time.
PlanRunsOut == [][StepsLeft' < StepsLeft /\ StepsLeft' \in Nat]_vars
=============================================================================
