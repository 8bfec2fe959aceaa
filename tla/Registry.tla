------------------------------ MODULE Registry ------------------------------
(***************************************************************************)
(* The data-source rows of src/src/api/datasources.py: create, activate,   *)
(* deactivate and delete.  A handler is a coroutine with a database        *)
(* session of its own: it loads the row, and what it loaded is what it     *)
(* works from until its commit, whatever other handlers commit meanwhile.  *)
(* The session writes only the attributes that differ from the ones loaded,*)
(* and a row that is gone when it is written fails the whole commit.       *)
(*                                                                         *)
(* Identifiers are never used again, so a deleted source stays "gone".     *)
(***************************************************************************)
EXTENDS Naturals

CONSTANTS Sources,
          Handlers  \* bound: the requests, one handler for each

VARIABLES rows,    \* is_active of each row, or that there is none
          ops,     \* the handlers at work
          made,    \* history: the handler that made each source active, or "none"
          rivals   \* history: the pairs of activations at work at the same time

registry == <<rows, ops, made, rivals>>

Present == {"idle", "active"}
Activated == {s \in Sources : rows[s] = "active"}
AtMostOneActive == \A s, t \in Activated : s = t

Free == [at |-> "free", src |-> "none", was |-> FALSE, others |-> {}]
At(h, stage) == ops[h].at = stage
Activating == {h \in Handlers : ops[h].at \in {"activate", "listed"}}

RegistryInit ==
    /\ rows \in [Sources -> {"none", "idle", "active"}]
    /\ AtMostOneActive
    /\ ops = [h \in Handlers |-> Free]
    /\ made = [s \in Sources |-> "none"]
    /\ rivals = {}

Create(s) ==
    /\ rows[s] = "none"
    /\ rows' = [rows EXCEPT ![s] = "idle"]
    /\ UNCHANGED <<ops, made, rivals>>

\* _get_ds_or_404, the first step of every handler that names a source.
Load(h, what, s) ==
    /\ At(h, "free")
    /\ rows[s] \in Present
    /\ ops' = [ops EXCEPT ![h] = [Free EXCEPT !.at = what, !.src = s,
                                               !.was = (rows[s] = "active")]]
    /\ rivals' = IF what # "activate" THEN rivals
                 ELSE rivals \cup ({h} \X Activating) \cup (Activating \X {h})
    /\ UNCHANGED <<rows, made>>

Finish(h) == ops' = [ops EXCEPT ![h] = [Free EXCEPT !.at = "done"]]

\* Flush and commit: the rows in off are deactivated, those in on activated.
Writable(off, on) == \A s \in off \cup on : rows[s] # "gone"
Write(off, on) ==
    IF ~Writable(off, on)
      THEN UNCHANGED rows
      ELSE rows' = [s \in Sources |-> IF s \in on THEN "active"
                                      ELSE IF s \in off THEN "idle" ELSE rows[s]]

\* Mutant: the source to activate is not told apart from the ones it replaces.
ListNone(h) ==
    /\ At(h, "activate")
    /\ ops' = [ops EXCEPT ![h].at = "listed", ![h].others = {}]
    /\ UNCHANGED <<rows, made, rivals>>

ListActive(h) ==
    /\ At(h, "activate")
    /\ ops' = [ops EXCEPT ![h].at = "listed",
                          ![h].others = Activated \ {ops[h].src}]
    /\ UNCHANGED <<rows, made, rivals>>

CommitActivate(h) ==
    LET on == IF ops[h].was THEN {} ELSE {ops[h].src}
    IN /\ At(h, "listed")
       /\ Write(ops[h].others, on)
       /\ made' = [s \in Sources |->
                     IF s \in on /\ Writable(ops[h].others, on) THEN h ELSE made[s]]
       /\ UNCHANGED rivals
       /\ Finish(h)

CommitDeactivate(h) ==
    /\ At(h, "deactivate")
    /\ Write(IF ops[h].was THEN {ops[h].src} ELSE {}, {})
    /\ UNCHANGED <<made, rivals>>
    /\ Finish(h)

\* session.delete and commit; a row already gone is only warned about.
DeleteRow(h) ==
    /\ At(h, "delete")
    /\ rows' = [rows EXCEPT ![ops[h].src] = "gone"]
    /\ ops' = [ops EXCEPT ![h].at = "cleaning"]
    /\ UNCHANGED <<made, rivals>>

RegistryTypeOK ==
    /\ rows \in [Sources -> {"none", "idle", "active", "gone"}]
    /\ ops \in [Handlers -> [at: {"free", "done", "activate", "listed", "deactivate", "delete", "cleaning"},
                             src: Sources \cup {"none"}, was: BOOLEAN,
                             others: SUBSET Sources]]
    /\ \A h \in Handlers : ops[h].at \notin {"free", "done"} => ops[h].src \in Sources
    /\ made \in [Sources -> Handlers \cup {"none"}]
    /\ rivals \subseteq Handlers \X Handlers

\* Two sources are active only if the very activations that made them so were at
\* work at the same time: no other order of activations, deactivations and
\* deletions ends with two, and a later activation that overlaps neither ends it
\* (activate_data_source lists the active rows before it writes its own).
OnlyRivalsActive ==
    \A s, t \in Activated : s # t => <<made[s], made[t]>> \in rivals

\* What makes it inductive: activations at work together are rivals, and an
\* active row that one of them has not listed was made active by a rival.
ActivationsAgree ==
    /\ \A g, h \in Handlers : <<g, h>> \in rivals => <<h, g>> \in rivals
    /\ \A g, h \in Activating : g # h => <<g, h>> \in rivals
    /\ \A h \in Activating : At(h, "listed") =>
         \A s \in Activated \ (ops[h].others \cup {ops[h].src}) : <<made[s], h>> \in rivals

RegistryInv == RegistryTypeOK /\ ActivationsAgree /\ OnlyRivalsActive
=============================================================================
