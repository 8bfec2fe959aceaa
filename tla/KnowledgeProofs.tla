-------------------------- MODULE KnowledgeProofs ---------------------------
(***************************************************************************)
(* Proofs about Registry and Knowledge, for any number of sources,         *)
(* handlers, refreshes, tables, columns and texts.  The invariant of the   *)
(* registry is proved by itself, and what the knowledge base needs of its  *)
(* steps is only which sources go and which clean-ups are under way.       *)
(***************************************************************************)
EXTENDS Knowledge, TLAPS

(***************************************************************************)
(* The registry                                                            *)
(***************************************************************************)
LEMMA RegistryInitEstablishes == RegistryInit => RegistryInv
  <1> SUFFICES ASSUME RegistryInit PROVE RegistryInv
    OBVIOUS
  <1>1. \A h \in Handlers : ops[h].at = "free"
    BY DEF RegistryInit, Free
  <1>2. RegistryTypeOK
    BY DEF RegistryInit, RegistryTypeOK, Free
  <1>3. ActivationsAgree
    BY <1>1 DEF RegistryInit, ActivationsAgree, Activating
  <1>4. QED
    BY <1>2, <1>3 DEF RegistryInit, RegistryInv, OnlyRivalsActive, AtMostOneActive

\* Fewer sources are active, and no activation begins or goes on.
LEMMA FewerActive ==
    ASSUME RegistryInv, RegistryTypeOK', made' = made, rivals' = rivals,
           Activated' \subseteq Activated, Activating' \subseteq Activating,
           \A h \in Activating' : ops'[h] = ops[h]
    PROVE  RegistryInv'
  <1>1. ActivationsAgree'
    <2>1. ASSUME NEW h \in Activating', At(h, "listed")',
                 NEW s \in Activated' \ (ops'[h].others \cup {ops'[h].src})
          PROVE  <<made'[s], h>> \in rivals'
      <3>1. h \in Activating /\ At(h, "listed") /\ ops'[h] = ops[h]
        BY <2>1 DEF At
      <3>2. s \in Activated \ (ops[h].others \cup {ops[h].src})
        BY <2>1, <3>1
      <3>3. QED BY <3>1, <3>2 DEF RegistryInv, ActivationsAgree
    <2>2. QED BY <2>1 DEF RegistryInv, ActivationsAgree
  <1>2. OnlyRivalsActive'
    BY DEF RegistryInv, OnlyRivalsActive
  <1>3. QED
    BY <1>1, <1>2 DEF RegistryInv

LEMMA CreateKeeps == ASSUME NEW s \in Sources PROVE RegistryInv /\ Create(s) => RegistryInv'
  <1> SUFFICES ASSUME RegistryInv, Create(s) PROVE RegistryInv'
    OBVIOUS
  <1>1. RegistryTypeOK'
    BY DEF RegistryInv, RegistryTypeOK, Create
  <1>2. Activated' = Activated
    BY DEF RegistryInv, RegistryTypeOK, Create, Activated
  <1>3. QED
    BY <1>1, <1>2, FewerActive DEF Create, Activating

LEMMA LoadKeeps ==
    ASSUME NEW h \in Handlers, NEW s \in Sources,
           NEW what \in {"activate", "deactivate", "delete"}
    PROVE  RegistryInv /\ Load(h, what, s) => RegistryInv'
  <1> SUFFICES ASSUME RegistryInv, Load(h, what, s) PROVE RegistryInv'
    OBVIOUS
  <1>1. /\ ops' = [ops EXCEPT ![h] = [Free EXCEPT !.at = what, !.src = s, !.was = (rows[s] = "active")]]
        /\ rivals' = IF what # "activate" THEN rivals
                     ELSE rivals \cup ({h} \X Activating) \cup (Activating \X {h})
        /\ rows' = rows /\ made' = made /\ ops[h].at = "free"
    BY DEF Load, At
  <1>2. /\ ops'[h].at = what /\ ops'[h].src = s /\ ops'[h].others = {} /\ ops'[h].was \in BOOLEAN
        /\ \A g \in Handlers : g # h => ops'[g] = ops[g]
        /\ Activating \subseteq Handlers
    BY <1>1 DEF RegistryInv, RegistryTypeOK, Free, Activating
  <1>3. RegistryTypeOK'
    BY <1>1, <1>2 DEF RegistryInv, RegistryTypeOK, Free
  <1>4. Activated' = Activated
    BY <1>1 DEF Activated
  <1>5. CASE what = "activate"
    <2>1. Activating' = Activating \cup {h} /\ ~At(h, "listed")'
      BY <1>2, <1>5 DEF Activating, At
    <2>2. rivals' = rivals \cup ({h} \X Activating) \cup (Activating \X {h})
      BY <1>1, <1>5
    <2>3. \A f, g \in Handlers : <<f, g>> \in rivals' => <<g, f>> \in rivals'
      BY <2>2 DEF RegistryInv, ActivationsAgree
    <2>4. \A f, g \in Activating' : f # g => <<f, g>> \in rivals'
      BY <2>1, <2>2 DEF RegistryInv, ActivationsAgree
    <2>5. ASSUME NEW g \in Activating', At(g, "listed")',
                 NEW t \in Activated' \ (ops'[g].others \cup {ops'[g].src})
          PROVE  <<made'[t], g>> \in rivals'
      <3>1. g \in Activating /\ At(g, "listed") /\ ops'[g] = ops[g]
        BY <2>1, <2>5, <1>2 DEF At
      <3>2. t \in Activated \ (ops[g].others \cup {ops[g].src})
        BY <2>5, <3>1, <1>4
      <3>3. QED BY <3>1, <3>2, <2>2, <1>1 DEF RegistryInv, ActivationsAgree
    <2>6. ActivationsAgree'
      BY <2>3, <2>4, <2>5 DEF ActivationsAgree
    <2>7. OnlyRivalsActive'
      BY <1>1, <1>4, <2>2 DEF RegistryInv, OnlyRivalsActive
    <2>8. QED BY <1>3, <2>6, <2>7 DEF RegistryInv
  <1>6. CASE what # "activate"
    <2>1. Activating' \subseteq Activating /\ \A g \in Activating' : ops'[g] = ops[g]
      BY <1>2, <1>6 DEF Activating
    <2>2. rivals' = rivals
      BY <1>1, <1>6
    <2>3. QED BY <1>1, <1>3, <1>4, <2>1, <2>2, FewerActive
  <1>7. QED
    BY <1>5, <1>6

LEMMA ListActiveKeeps ==
    ASSUME NEW h \in Handlers PROVE RegistryInv /\ ListActive(h) => RegistryInv'
  <1> SUFFICES ASSUME RegistryInv, ListActive(h) PROVE RegistryInv'
    OBVIOUS
  <1>1. /\ ops[h].at = "activate" /\ rows' = rows /\ made' = made /\ rivals' = rivals
        /\ ops' = [ops EXCEPT ![h].at = "listed", ![h].others = Activated \ {ops[h].src}]
    BY DEF ListActive, At
  <1>2. RegistryTypeOK'
    BY <1>1 DEF RegistryInv, RegistryTypeOK, Activated
  <1>3. Activated' = Activated
    BY <1>1 DEF Activated
  <1>4. \A g \in Handlers : g # h => ops'[g] = ops[g]
    BY <1>1 DEF RegistryInv, RegistryTypeOK
  <1>5. /\ ops'[h].at = "listed" /\ ops'[h].others = Activated \ {ops[h].src}
        /\ ops'[h].src = ops[h].src
    BY <1>1 DEF RegistryInv, RegistryTypeOK
  <1>6. Activating' = Activating /\ h \in Activating
    BY <1>1, <1>4, <1>5 DEF Activating
  <1>7. ActivationsAgree'
    <2>1. ASSUME NEW g \in Activating', At(g, "listed")',
                 NEW t \in Activated' \ (ops'[g].others \cup {ops'[g].src})
          PROVE  <<made'[t], g>> \in rivals'
      <3>1. g # h
        BY <2>1, <1>3, <1>5
      <3>2. g \in Activating /\ At(g, "listed") /\ ops'[g] = ops[g]
        BY <2>1, <3>1, <1>4, <1>6 DEF At, Activating
      <3>3. t \in Activated \ (ops[g].others \cup {ops[g].src})
        BY <2>1, <3>2, <1>3
      <3>4. QED BY <3>2, <3>3, <1>1 DEF RegistryInv, ActivationsAgree
    <2>2. QED BY <2>1, <1>1, <1>6 DEF RegistryInv, ActivationsAgree
  <1>8. OnlyRivalsActive'
    BY <1>1, <1>3 DEF RegistryInv, OnlyRivalsActive
  <1>9. QED
    BY <1>2, <1>7, <1>8 DEF RegistryInv

\* A handler that finishes is in no activation and no clean-up any more.
LEMMA Finished ==
    ASSUME RegistryTypeOK, NEW h \in Handlers, Finish(h)
    PROVE  /\ ops'[h].at = "done" /\ \A g \in Handlers : g # h => ops'[g] = ops[g]
           /\ Activating' = Activating \ {h}
           /\ ops' \in [Handlers -> [at: {"free", "done", "activate", "listed", "deactivate", "delete", "cleaning"},
                                     src: Sources \cup {"none"}, was: BOOLEAN,
                                     others: SUBSET Sources]]
           /\ \A g \in Handlers : ops'[g].at \notin {"free", "done"} => ops'[g].src \in Sources
  <1>1. ops' = [ops EXCEPT ![h] = [Free EXCEPT !.at = "done"]]
    BY DEF Finish
  <1>2. ops'[h].at = "done" /\ \A g \in Handlers : g # h => ops'[g] = ops[g]
    BY <1>1 DEF RegistryTypeOK, Free
  <1>3. QED
    BY <1>1, <1>2 DEF RegistryTypeOK, Free, Activating

\* A commit leaves rows of the same kinds, and a row that is gone stays so.
LEMMA WriteRows ==
    ASSUME RegistryTypeOK, NEW off \in SUBSET Sources, NEW on \in SUBSET Sources, Write(off, on)
    PROVE  /\ rows' \in [Sources -> {"none", "idle", "active", "gone"}]
           /\ \A s \in Sources : rows'[s] = "gone" <=> rows[s] = "gone"
           /\ on = {} => Activated' \subseteq Activated
           /\ Writable(off, on) => Activated' = (Activated \ off) \cup on
           /\ ~Writable(off, on) => Activated' = Activated
  <1>1. CASE ~Writable(off, on)
    BY <1>1 DEF Write, RegistryTypeOK, Activated
  <1>2. CASE Writable(off, on)
    <2>1. rows' = [s \in Sources |-> IF s \in on THEN "active"
                                     ELSE IF s \in off THEN "idle" ELSE rows[s]]
      BY <1>2 DEF Write
    <2>2. QED BY <1>2, <2>1 DEF RegistryTypeOK, Activated, Writable
  <1>3. QED
    BY <1>1, <1>2

\* What an activation leaves active it made so itself, or its list passed over.
LEMMA CommitActivateKeeps ==
    ASSUME NEW h \in Handlers PROVE RegistryInv /\ CommitActivate(h) => RegistryInv'
  <1> SUFFICES ASSUME RegistryInv, CommitActivate(h) PROVE RegistryInv'
    OBVIOUS
  <1> DEFINE off == ops[h].others
             on == IF ops[h].was THEN {} ELSE {ops[h].src}
  <1>1. /\ ops[h].at = "listed" /\ Write(off, on) /\ Finish(h) /\ rivals' = rivals
        /\ made' = [s \in Sources |-> IF s \in on /\ Writable(off, on) THEN h ELSE made[s]]
    BY DEF CommitActivate, At
  <1>2. /\ RegistryTypeOK /\ off \in SUBSET Sources /\ on \in SUBSET Sources
        /\ ops[h].src \in Sources /\ on \subseteq {ops[h].src}
    BY <1>1 DEF RegistryInv, RegistryTypeOK
  <1>3. h \in Activating
    BY <1>1 DEF Activating
  <1>4. \A s \in Activated \ (off \cup {ops[h].src}) : <<made[s], h>> \in rivals
    BY <1>1, <1>3 DEF RegistryInv, ActivationsAgree, At
  <1> HIDE DEF off, on
  <1>5. RegistryTypeOK'
    <2>1. made' \in [Sources -> Handlers \cup {"none"}]
      BY <1>1, <1>2 DEF RegistryTypeOK
    <2>2. QED BY <1>1, <1>2, <2>1, WriteRows, Finished DEF RegistryTypeOK
  <1>6. Activating' = Activating \ {h} /\ \A g \in Activating' : ops'[g] = ops[g] /\ g # h
    BY <1>1, <1>2, Finished DEF Activating
  <1>7. CASE Writable(off, on)
    <2>1. Activated' = (Activated \ off) \cup on
      BY <1>1, <1>2, <1>7, WriteRows
    <2>2. \A s \in Sources : made'[s] = IF s \in on THEN h ELSE made[s]
      BY <1>1, <1>7
    <2>3. Activated' \subseteq Sources /\ Activated \subseteq Sources
      BY DEF Activated
    <2>4. \A s \in Activated' \ on : <<made'[s], h>> \in rivals \/ s = ops[h].src
      BY <1>4, <2>1, <2>2, <2>3
    <2>5. ActivationsAgree'
      <3>1. ASSUME NEW g \in Activating', At(g, "listed")',
                   NEW t \in Activated' \ (ops'[g].others \cup {ops'[g].src})
            PROVE  <<made'[t], g>> \in rivals
        <4>1. g \in Activating /\ g # h /\ At(g, "listed") /\ ops'[g] = ops[g]
          BY <3>1, <1>6 DEF At
        <4>2. CASE t \in on
          BY <4>1, <4>2, <1>2, <1>3, <2>2 DEF RegistryInv, ActivationsAgree
        <4>3. CASE t \notin on
          <5>1. t \in Activated \ (ops[g].others \cup {ops[g].src}) /\ made'[t] = made[t]
            BY <3>1, <4>1, <4>3, <2>1, <2>2, <2>3
          <5>2. QED BY <4>1, <5>1 DEF RegistryInv, ActivationsAgree
        <4>4. QED BY <4>2, <4>3
      <3>2. QED BY <3>1, <1>1, <1>6 DEF RegistryInv, ActivationsAgree
    <2>6. OnlyRivalsActive'
      <3> SUFFICES ASSUME NEW s \in Activated', NEW t \in Activated', s # t
                   PROVE  <<made'[s], made'[t]>> \in rivals
        BY <1>1 DEF OnlyRivalsActive
      <3>1. CASE s \notin on /\ t \notin on
        <4>1. s \in Activated /\ t \in Activated /\ made'[s] = made[s] /\ made'[t] = made[t]
          BY <3>1, <2>1, <2>2, <2>3
        <4>2. QED BY <4>1 DEF RegistryInv, OnlyRivalsActive
      <3>2. CASE t \in on
        <4>1. s \notin on /\ s # ops[h].src /\ made'[t] = h
          BY <3>2, <1>2, <2>2, <2>3
        <4>2. QED BY <4>1, <2>4
      <3>3. CASE s \in on
        <4>1. t \notin on /\ t # ops[h].src /\ made'[s] = h
          BY <3>3, <1>2, <2>2, <2>3
        <4>2. <<made'[t], h>> \in rivals
          BY <4>1, <2>4
        <4>3. made'[t] \in Handlers
          BY <4>2 DEF RegistryInv, RegistryTypeOK
        <4>4. QED BY <4>1, <4>2, <4>3 DEF RegistryInv, ActivationsAgree
      <3>4. QED BY <3>1, <3>2, <3>3
    <2>7. QED BY <1>5, <2>5, <2>6 DEF RegistryInv
  <1>8. CASE ~Writable(off, on)
    <2>1. Activated' = Activated
      BY <1>1, <1>2, <1>8, WriteRows
    <2>2. made' = made
      BY <1>1, <1>8 DEF RegistryInv, RegistryTypeOK
    <2>3. QED BY <1>1, <1>5, <1>6, <2>1, <2>2, FewerActive
  <1>9. QED
    BY <1>7, <1>8

LEMMA CommitDeactivateKeeps ==
    ASSUME NEW h \in Handlers PROVE RegistryInv /\ CommitDeactivate(h) => RegistryInv'
  <1> SUFFICES ASSUME RegistryInv, CommitDeactivate(h) PROVE RegistryInv'
    OBVIOUS
  <1> DEFINE off == IF ops[h].was THEN {ops[h].src} ELSE {}
  <1>1. /\ ops[h].at = "deactivate" /\ Write(off, {}) /\ Finish(h)
        /\ made' = made /\ rivals' = rivals
    BY DEF CommitDeactivate, At
  <1>2. RegistryTypeOK /\ off \in SUBSET Sources
    BY <1>1 DEF RegistryInv, RegistryTypeOK
  <1> HIDE DEF off
  <1>3. RegistryTypeOK'
    BY <1>1, <1>2, WriteRows, Finished DEF RegistryTypeOK
  <1>4. /\ Activated' \subseteq Activated /\ Activating' \subseteq Activating
        /\ \A g \in Activating' : ops'[g] = ops[g]
    BY <1>1, <1>2, WriteRows, Finished DEF Activating
  <1>5. QED
    BY <1>1, <1>3, <1>4, FewerActive

LEMMA DeleteRowKeeps ==
    ASSUME NEW h \in Handlers PROVE RegistryInv /\ DeleteRow(h) => RegistryInv'
  <1> SUFFICES ASSUME RegistryInv, DeleteRow(h) PROVE RegistryInv'
    OBVIOUS
  <1>1. /\ ops[h].at = "delete" /\ rows' = [rows EXCEPT ![ops[h].src] = "gone"]
        /\ ops' = [ops EXCEPT ![h].at = "cleaning"] /\ made' = made /\ rivals' = rivals
    BY DEF DeleteRow, At
  <1>2. RegistryTypeOK'
    BY <1>1 DEF RegistryInv, RegistryTypeOK
  <1>3. Activated' \subseteq Activated
    BY <1>1 DEF RegistryInv, RegistryTypeOK, Activated
  <1>4. Activating' \subseteq Activating /\ \A g \in Activating' : ops'[g] = ops[g]
    BY <1>1 DEF RegistryInv, RegistryTypeOK, Activating
  <1>5. QED
    BY <1>1, <1>2, <1>3, <1>4, FewerActive

LEMMA FinishKeeps ==
    ASSUME NEW h \in Handlers
    PROVE  RegistryInv /\ Finish(h) /\ UNCHANGED <<rows, made, rivals>> => RegistryInv'
  <1> SUFFICES ASSUME RegistryInv, Finish(h), rows' = rows, made' = made, rivals' = rivals
               PROVE  RegistryInv'
    OBVIOUS
  <1>1. RegistryTypeOK'
    BY Finished DEF RegistryInv, RegistryTypeOK
  <1>2. /\ Activated' = Activated /\ Activating' \subseteq Activating
        /\ \A g \in Activating' : ops'[g] = ops[g]
    BY Finished DEF RegistryInv, Activated, Activating
  <1>3. QED
    BY <1>1, <1>2, FewerActive

LEMMA RestartRegistry ==
    RegistryInv /\ Restart => /\ RegistryInv'
                              /\ \A h \in Handlers : ~At(h, "cleaning")'
  <1> SUFFICES ASSUME RegistryInv, Restart
               PROVE  RegistryInv' /\ \A h \in Handlers : ~At(h, "cleaning")'
    OBVIOUS
  <1>1. /\ ops' = [h \in Handlers |-> IF ops[h].at = "free" THEN Free ELSE [Free EXCEPT !.at = "done"]]
        /\ rows' = rows /\ made' = made /\ rivals' = rivals
    BY DEF Restart, At
  <1>2. \A h \in Handlers : ops'[h].at \in {"free", "done"}
    BY <1>1 DEF Free
  <1>3. RegistryTypeOK'
    BY <1>1, <1>2 DEF RegistryInv, RegistryTypeOK, Free
  <1>4. Activating' = {} /\ Activated' = Activated
    BY <1>1, <1>2 DEF Activating, Activated
  <1>5. RegistryInv'
    BY <1>1, <1>3, <1>4, FewerActive
  <1>6. QED
    BY <1>2, <1>5 DEF At

LEMMA RegistryStutter == RegistryInv /\ UNCHANGED registry => RegistryInv'
  <1> SUFFICES ASSUME RegistryInv, rows' = rows, ops' = ops, made' = made, rivals' = rivals
               PROVE  RegistryInv'
    BY DEF registry
  <1>1. RegistryTypeOK' /\ Activated' = Activated /\ Activating' = Activating
    BY DEF RegistryInv, RegistryTypeOK, Activated, Activating
  <1>2. QED
    BY <1>1, FewerActive

(***************************************************************************)
(* Texts and graphs                                                        *)
(***************************************************************************)
LEMMA PartialRead ==
    ASSUME NEW T, NEW f \in Partial(T)
    PROVE  /\ DOMAIN f \subseteq Columns /\ f \in [DOMAIN f -> T]
           /\ \A c \in DOMAIN f : f[c] \in T
  BY DEF Partial

LEMMA PartialMade ==
    ASSUME NEW T, NEW D \in SUBSET Columns, NEW f \in [D -> T]
    PROVE  f \in Partial(T)
  BY DEF Partial

LEMMA NoTextsMade == ASSUME NEW T PROVE NoTexts \in Partial(T)
  <1>1. NoTexts \in [{} -> T]
    BY DEF NoTexts
  <1>2. QED BY <1>1, PartialMade

LEMMA DescriptionsMade ==
    ASSUME NEW text \in Partial(Texts) PROVE Descriptions(text) \in Partial(Texts \ {"none"})
  <1>1. Covered(text) \in SUBSET Columns /\ Descriptions(text) \in [Covered(text) -> Texts \ {"none"}]
    BY PartialRead DEF Covered, Descriptions
  <1>2. QED BY <1>1, PartialMade

LEMMA EmptyRows ==
    /\ Empty \in [text: Partial(Texts), keys: [KeyTypes -> SUBSET Keys]]
    /\ DOMAIN Empty.text = {} /\ Covered(Empty.text) = {}
    /\ \A type \in KeyTypes : Empty.keys[type] = {}
  <1>1. Empty.text = NoTexts /\ Empty.keys = NoKeys
    BY DEF Empty
  <1>2. Empty \in [text: Partial(Texts), keys: [KeyTypes -> SUBSET Keys]]
    BY NoTextsMade DEF Empty, NoKeys
  <1>3. DOMAIN NoTexts = {}
    BY DEF NoTexts
  <1>4. QED BY <1>1, <1>2, <1>3 DEF Covered, NoKeys

\* What every graph the store can hold is like.
GraphOK(g) ==
    /\ g \in [nodes: SUBSET Node, owned: SUBSET Node, edges: SUBSET Edge]
    /\ g.nodes = g.owned
    /\ \A e \in g.edges : e.from \in g.nodes /\ e.to \in g.nodes /\ e.from[1] = e.to[1]

LEMMA WithoutGraph ==
    ASSUME NEW g, GraphOK(g), NEW s \in Sources
    PROVE  /\ GraphOK(Without(g, s))
           /\ Without(g, s).nodes = {n \in g.nodes : n[1] # s}
           /\ Without(g, s).edges = {e \in g.edges : e.from[1] # s}
  <1> DEFINE doomed == {n \in g.owned : n[1] = s}
  <1>1. Without(g, s) = [nodes |-> g.nodes \ doomed, owned |-> g.owned \ doomed,
                         edges |-> {e \in g.edges : e.from \notin doomed /\ e.to \notin doomed}]
    BY DEF Without
  <1>2. g.nodes \ doomed = {n \in g.nodes : n[1] # s}
    BY DEF GraphOK
  <1>3. {e \in g.edges : e.from \notin doomed /\ e.to \notin doomed} = {e \in g.edges : e.from[1] # s}
    BY DEF GraphOK
  <1> HIDE DEF doomed
  <1>4. QED BY <1>1, <1>2, <1>3 DEF GraphOK

LEMMA MergeOwnedGraph ==
    ASSUME NEW g, GraphOK(g), NEW s \in Sources, NEW names \in SUBSET Names
    PROVE  /\ GraphOK(MergeOwned(g, s, names))
           /\ MergeOwned(g, s, names).nodes = g.nodes \cup Uids(s, names)
           /\ MergeOwned(g, s, names).edges = g.edges
  <1>1. Uids(s, names) \subseteq Node
    BY DEF Uids, Node
  <1>2. QED BY <1>1 DEF GraphOK, MergeOwned

LEMMA MergeKeysGraph ==
    ASSUME NEW g, GraphOK(g), NEW s \in Sources, NEW type \in KeyTypes, NEW pairs,
           NEW cols \in SUBSET Columns, pairs \subseteq cols \X cols, Uids(s, cols) \subseteq g.nodes
    PROVE  /\ GraphOK(MergeKeys(g, s, type, pairs))
           /\ MergeKeys(g, s, type, pairs).nodes = g.nodes
           /\ MergeKeys(g, s, type, pairs).edges = g.edges \cup Edges(s, type, pairs)
  <1> DEFINE ends == {p[1] : p \in pairs} \cup {p[2] : p \in pairs}
  <1>1. Uids(s, ends) \subseteq g.nodes
    BY DEF Uids
  <1>2. \A e \in Edges(s, type, pairs) :
           e \in Edge /\ e.from \in g.nodes /\ e.to \in g.nodes /\ e.from[1] = e.to[1]
    <2> SUFFICES ASSUME NEW p \in pairs
                 PROVE  LET e == [type |-> type, from |-> <<s, p[1]>>, to |-> <<s, p[2]>>]
                        IN e \in Edge /\ e.from \in g.nodes /\ e.to \in g.nodes /\ e.from[1] = e.to[1]
      BY DEF Edges
    <2>1. <<s, p[1]>> \in Uids(s, cols) /\ <<s, p[2]>> \in Uids(s, cols)
      BY DEF Uids
    <2>2. <<s, p[1]>> \in Node /\ <<s, p[2]>> \in Node
      BY <2>1 DEF GraphOK
    <2>3. QED BY <2>1, <2>2 DEF Edge
  <1>3. /\ MergeKeys(g, s, type, pairs) = [g EXCEPT !.nodes = @ \cup Uids(s, ends),
                                                     !.edges = @ \cup Edges(s, type, pairs)]
    BY DEF MergeKeys
  <1> HIDE DEF ends
  <1>4. g \in [nodes: SUBSET Node, owned: SUBSET Node, edges: SUBSET Edge]
    BY DEF GraphOK
  <1>5. /\ MergeKeys(g, s, type, pairs).nodes = g.nodes
        /\ MergeKeys(g, s, type, pairs).owned = g.owned
        /\ MergeKeys(g, s, type, pairs).edges = g.edges \cup Edges(s, type, pairs)
        /\ MergeKeys(g, s, type, pairs) \in [nodes: SUBSET Node, owned: SUBSET Node, edges: SUBSET Edge]
    BY <1>1, <1>2, <1>3, <1>4
  <1>6. QED BY <1>2, <1>5 DEF GraphOK

LEMMA BoundPairs ==
    ASSUME NEW pairs \in SUBSET Keys, NEW cols \in SUBSET Columns
    PROVE  Bound(pairs, cols) \subseteq cols \X cols
  BY KnowledgeAssumption DEF Bound

\* A transaction on source s: nothing of another source comes or goes.
SameElsewhere(h, g, s) ==
    /\ GraphOK(h)
    /\ \A n : n[1] # s => (n \in h.nodes <=> n \in g.nodes)
    /\ \A e : e.from[1] # s => (e \in h.edges <=> e \in g.edges)

\* The graph holds of s what the refresh j has read, no more and no less.
Complete(h, s, j) ==
    /\ {n \in h.nodes : n[1] = s} = Uids(s, j.columns \cup j.tables)
    /\ {e \in h.edges : e.from[1] = s} =
         UNION {Edges(s, type, Bound(j.keys[type], j.columns)) : type \in KeyTypes}

\* All five transactions of a rebuild leave a well-formed graph and touch no
\* other source; the last one leaves exactly what was read.
LEMMA RebuildGraphs ==
    ASSUME NEW g, GraphOK(g), NEW s \in Sources, NEW j \in RefreshJob, NEW k \in 1..5
    PROVE  /\ SameElsewhere(Rebuild(g, s, j)[k], g, s)
           /\ k = 5 => Complete(Rebuild(g, s, j)[k], s, j)
           /\ {n \in Rebuild(g, s, j)[k].nodes : n[1] = s} \subseteq Uids(s, j.columns \cup j.tables)
  <1> DEFINE ref == Bound(j.keys["REFERENCES"], j.columns)
             inf == Bound(j.keys["INFERRED_REF"], j.columns)
             g1 == Without(g, s)
             g2 == MergeOwned(g1, s, j.tables)
             g3 == MergeOwned(g2, s, j.columns)
             g4 == MergeKeys(g3, s, "REFERENCES", ref)
             g5 == MergeKeys(g4, s, "INFERRED_REF", inf)
  <1>1. Rebuild(g, s, j) = <<g1, g2, g3, g4, g5>>
    BY DEF Rebuild
  <1>2. /\ j.tables \in SUBSET Names /\ j.columns \in SUBSET Names /\ j.columns \in SUBSET Columns
        /\ j.keys["REFERENCES"] \in SUBSET Keys /\ j.keys["INFERRED_REF"] \in SUBSET Keys
    BY DEF RefreshJob, Names, KeyTypes
  <1>3. ref \subseteq j.columns \X j.columns /\ inf \subseteq j.columns \X j.columns
    BY <1>2, BoundPairs
  <1>4. /\ GraphOK(g1) /\ g1.nodes = {n \in g.nodes : n[1] # s}
        /\ g1.edges = {e \in g.edges : e.from[1] # s}
    BY WithoutGraph
  <1>5. GraphOK(g2) /\ g2.nodes = g1.nodes \cup Uids(s, j.tables) /\ g2.edges = g1.edges
    BY <1>2, <1>4, MergeOwnedGraph
  <1>6. GraphOK(g3) /\ g3.nodes = g2.nodes \cup Uids(s, j.columns) /\ g3.edges = g2.edges
    BY <1>2, <1>5, MergeOwnedGraph
  <1>7. GraphOK(g4) /\ g4.nodes = g3.nodes /\ g4.edges = g3.edges \cup Edges(s, "REFERENCES", ref)
    BY <1>2, <1>3, <1>6, MergeKeysGraph DEF KeyTypes
  <1>8. GraphOK(g5) /\ g5.nodes = g4.nodes /\ g5.edges = g4.edges \cup Edges(s, "INFERRED_REF", inf)
    BY <1>2, <1>3, <1>6, <1>7, MergeKeysGraph DEF KeyTypes
  <1> HIDE DEF ref, inf, g1, g2, g3, g4, g5
  <1>9. /\ \A n \in Uids(s, j.tables) \cup Uids(s, j.columns) : n[1] = s
        /\ Uids(s, j.tables) \cup Uids(s, j.columns) = Uids(s, j.columns \cup j.tables)
    BY DEF Uids
  <1>10. \A e \in Edges(s, "REFERENCES", ref) \cup Edges(s, "INFERRED_REF", inf) : e.from[1] = s
    BY DEF Edges
  <1>11. {n \in g5.nodes : n[1] = s} = Uids(s, j.columns \cup j.tables)
    BY <1>4, <1>5, <1>6, <1>7, <1>8, <1>9
  <1>12. {e \in g5.edges : e.from[1] = s} = Edges(s, "REFERENCES", ref) \cup Edges(s, "INFERRED_REF", inf)
    BY <1>4, <1>5, <1>6, <1>7, <1>8, <1>10
  <1>13. UNION {Edges(s, type, Bound(j.keys[type], j.columns)) : type \in KeyTypes}
           = Edges(s, "REFERENCES", ref) \cup Edges(s, "INFERRED_REF", inf)
    BY DEF KeyTypes, ref, inf
  <1>14. \A n : n[1] # s => /\ n \in g1.nodes <=> n \in g.nodes
                            /\ n \in g2.nodes <=> n \in g.nodes
                            /\ n \in g3.nodes <=> n \in g.nodes
                            /\ n \in g4.nodes <=> n \in g.nodes
                            /\ n \in g5.nodes <=> n \in g.nodes
    BY <1>4, <1>5, <1>6, <1>7, <1>8, <1>9
  <1>15. \A e : e.from[1] # s => /\ e \in g1.edges <=> e \in g.edges
                                 /\ e \in g2.edges <=> e \in g.edges
                                 /\ e \in g3.edges <=> e \in g.edges
                                 /\ e \in g4.edges <=> e \in g.edges
                                 /\ e \in g5.edges <=> e \in g.edges
    BY <1>4, <1>5, <1>6, <1>7, <1>8, <1>10
  <1>16. /\ SameElsewhere(g1, g, s) /\ SameElsewhere(g2, g, s) /\ SameElsewhere(g3, g, s)
         /\ SameElsewhere(g4, g, s) /\ SameElsewhere(g5, g, s)
    BY <1>4, <1>5, <1>6, <1>7, <1>8, <1>14, <1>15 DEF SameElsewhere
  <1>17. /\ Complete(g5, s, j)
         /\ \A n \in g1.nodes \cup g2.nodes \cup g3.nodes \cup g4.nodes \cup g5.nodes :
              n[1] = s => n \in Uids(s, j.columns \cup j.tables)
    <2>1. \A n \in g1.nodes \cup g2.nodes \cup g3.nodes \cup g4.nodes \cup g5.nodes :
            n[1] = s => n \in Uids(s, j.tables) \cup Uids(s, j.columns)
      BY <1>4, <1>5, <1>6, <1>7, <1>8
    <2>2. QED BY <2>1, <1>9, <1>11, <1>12, <1>13 DEF Complete
  <1>18. /\ Rebuild(g, s, j)[1] = g1 /\ Rebuild(g, s, j)[2] = g2 /\ Rebuild(g, s, j)[3] = g3
         /\ Rebuild(g, s, j)[4] = g4 /\ Rebuild(g, s, j)[5] = g5
    BY <1>1
  <1>19. k \in {1, 2, 3, 4, 5}
    OBVIOUS
  <1>20. QED
    BY <1>16, <1>17, <1>18, <1>19

(***************************************************************************)
(* Steps of a refresh that only read                                       *)
(***************************************************************************)
\* What the invariant says of one refresh.
JobOK(j) ==
    j.at \notin {"idle", "over"} =>
        /\ j.src \in Sources
        /\ rows[j.src] = "gone" => Held(j) \subseteq spared
        /\ j.rev = Never \/ j.rev <= rev[j.src]
        /\ j.rev = rev[j.src] => AsRead(j, catalogue[j.src])

LEMMA JobsOK == KnowledgeInv => \A r \in Refreshes : jobs[r] \in RefreshJob /\ JobOK(jobs[r])
  BY DEF KnowledgeInv, TypeOK, JobsAgree, JobOK, InFlight

\* A job that has read nothing yet is one the invariant allows.
LEMMA BlankJob ==
    ASSUME KnowledgeInv, NEW s \in Sources, NEW stage \in {"fields", "tables"}
    PROVE  Blank(stage, s) \in RefreshJob /\ JobOK(Blank(stage, s))
  <1>1. Never \in 0..Never /\ rev[s] # Never
    BY KnowledgeAssumption DEF KnowledgeInv, TypeOK, Never
  <1>2. NoKeys \in [KeyTypes -> SUBSET Keys]
    BY DEF NoKeys
  <1>3. Blank(stage, s) \in RefreshJob
    BY <1>1, <1>2, NoTextsMade DEF Blank, RefreshJob, Reading
  <1>4. Blank(stage, s).src = s /\ Blank(stage, s).rev = Never
    BY DEF Blank
  <1>5. Held(Blank(stage, s)) = {}
    <2>1. /\ Blank(stage, s).items = NoTexts /\ DOMAIN NoTexts = {}
          /\ Blank(stage, s).tables \cup Blank(stage, s).columns = {}
      BY DEF Blank, NoTexts
    <2>2. QED BY <2>1 DEF Held
  <1>6. JobOK(Blank(stage, s))
    BY <1>1, <1>4, <1>5 DEF JobOK
  <1>7. QED BY <1>3, <1>6

LEMMA OverJob == Blank("over", "none") \in RefreshJob /\ JobOK(Blank("over", "none"))
  <1>1. Blank("over", "none") \in RefreshJob
    BY NoTextsMade, KnowledgeAssumption DEF Blank, RefreshJob, NoKeys, Never
  <1>2. QED BY <1>1 DEF Blank, JobOK

LEMMA JobsOnly ==
    ASSUME KnowledgeInv, NEW r \in Refreshes, NEW j \in RefreshJob,
           JobOK(j), jobs' = [jobs EXCEPT ![r] = j], OnlyJobs
    PROVE  KnowledgeInv'
  <1>1. /\ rows' = rows /\ ops' = ops /\ made' = made /\ rivals' = rivals /\ catalogue' = catalogue /\ rev' = rev
        /\ vectors' = vectors /\ graph' = graph /\ mirrored' = mirrored /\ spared' = spared
    BY DEF OnlyJobs, registry
  <1>2. RegistryInv'
    BY <1>1, RegistryStutter DEF KnowledgeInv, registry
  <1>3. jobs' \in [Refreshes -> RefreshJob] /\ \A q \in Refreshes : JobOK(jobs'[q])
    BY JobsOK DEF KnowledgeInv, TypeOK
  <1>4. TypeOK'
    BY <1>1, <1>2, <1>3 DEF KnowledgeInv, TypeOK, RegistryInv, InFlight, JobOK
  <1>5. JobsAgree'
    BY <1>1, <1>3 DEF JobsAgree, JobOK, InFlight
  <1>6. /\ RowsAgree' /\ StoresAgree' /\ NothingUnowned'
    BY <1>1 DEF KnowledgeInv, RowsAgree, StoresAgree, NothingUnowned, At
  <1>7. GoneStaysGone' /\ VectorsCurrent' /\ GraphMirrors'
    <2>1. GoneStaysGone'
      BY <1>1 DEF KnowledgeInv, GoneStaysGone, Kept, At
    <2>2. VectorsCurrent'
      BY <1>1 DEF KnowledgeInv, VectorsCurrent
    <2>3. GraphMirrors'
      BY <1>1 DEF KnowledgeInv, GraphMirrors
    <2>4. QED BY <2>1, <2>2, <2>3
  <1>8. QED
    BY <1>2, <1>4, <1>5, <1>6, <1>7 DEF KnowledgeInv

LEMMA StartKeeps ==
    ASSUME NEW r \in Refreshes, NEW s \in Learned
    PROVE  KnowledgeInv /\ Start(r, s) => KnowledgeInv'
  <1> SUFFICES ASSUME KnowledgeInv, Start(r, s) PROVE KnowledgeInv'
    OBVIOUS
  <1>1. s \in Sources /\ rows[s] # "gone" /\ jobs' = [jobs EXCEPT ![r] = Blank("fields", s)] /\ OnlyJobs
    BY KnowledgeAssumption DEF Start
  <1>2. QED BY <1>1, BlankJob, JobsOnly

\* A refresh that has read no more of a source than before holds no more of it.
LEMMA HoldsNoMore ==
    ASSUME NEW i, NEW j, j.src = i.src, DOMAIN j.items \subseteq DOMAIN i.items,
           j.tables \subseteq i.tables, j.columns \subseteq i.columns
    PROVE  Held(j) \subseteq Held(i)
  BY DEF Held

LEMMA QueryFailsKeeps ==
    ASSUME NEW r \in Refreshes PROVE KnowledgeInv /\ QueryFails(r) => KnowledgeInv'
  <1> SUFFICES ASSUME KnowledgeInv, QueryFails(r) PROVE KnowledgeInv'
    OBVIOUS
  <1>1. jobs' = [jobs EXCEPT ![r] = Blank("over", "none")] /\ OnlyJobs
    BY DEF QueryFails
  <1>2. QED BY <1>1, OverJob, JobsOnly

\* A refresh under way has a source of the registry, and what the rows of that
\* source say is of the catalogue's type.
LEMMA JobsSource ==
    ASSUME KnowledgeInv, NEW r \in Refreshes, InFlight(r)
    PROVE  LET s == jobs[r].src
           IN /\ s \in Sources /\ rev[s] \in 0..Never - 1 /\ rev[s] \in 0..Never
              /\ catalogue[s].text \in Partial(Texts) /\ Has(s) \subseteq Columns
              /\ TablesOf(Has(s)) \subseteq Tables
              /\ catalogue[s].keys \in [KeyTypes -> SUBSET Keys]
              /\ jobs[r] \in RefreshJob /\ JobOK(jobs[r])
              /\ rows[s] = "gone" => Held(jobs[r]) \subseteq spared /\ Has(s) = {}
  <1> DEFINE s == jobs[r].src
  <1>1. s \in Sources
    BY DEF KnowledgeInv, TypeOK
  <1>2. /\ catalogue[s] \in [text: Partial(Texts), keys: [KeyTypes -> SUBSET Keys]]
        /\ rev[s] \in 0..Never - 1
    BY <1>1 DEF KnowledgeInv, TypeOK
  <1>3. Has(s) \subseteq Columns
    BY <1>2, PartialRead DEF Has
  <1>4. TablesOf(Has(s)) \subseteq Tables
    BY <1>3, KnowledgeAssumption DEF TablesOf
  <1>5. rev[s] \in 0..Never
    BY <1>2, KnowledgeAssumption DEF Never
  <1>6. rows[s] = "gone" => Held(jobs[r]) \subseteq spared /\ Has(s) = {}
    BY <1>1, EmptyRows DEF KnowledgeInv, JobsAgree, RowsAgree, Has
  <1>7. QED
    BY <1>1, <1>2, <1>3, <1>4, <1>5, <1>6, JobsOK

LEMMA ReadFieldsKeeps ==
    ASSUME NEW r \in Refreshes PROVE KnowledgeInv /\ ReadFields(r) => KnowledgeInv'
  <1> SUFFICES ASSUME KnowledgeInv, ReadFields(r) PROVE KnowledgeInv'
    OBVIOUS
  <1> DEFINE s == jobs[r].src
             j == [jobs[r] EXCEPT !.at = "vectors", !.items = Descriptions(catalogue[s].text),
                                  !.rev = rev[s]]
  <1>1. jobs[r].at = "fields" /\ OnlyJobs /\ InFlight(r)
    BY DEF ReadFields, Job, InFlight
  <1>2. jobs' = [jobs EXCEPT ![r] = j]
    BY DEF ReadFields, KnowledgeInv, TypeOK
  <1>3. /\ j.at = "vectors" /\ j.src = s /\ j.rev = rev[s]
        /\ j.items = Descriptions(catalogue[s].text)
        /\ j.tables = jobs[r].tables /\ j.columns = jobs[r].columns
    BY <1>1, JobsSource DEF RefreshJob
  <1>4. j \in RefreshJob
    <2>1. Descriptions(catalogue[s].text) \in Partial(Texts \ {"none"})
      BY <1>1, JobsSource, DescriptionsMade
    <2>2. QED BY <2>1, <1>1, JobsSource DEF RefreshJob
  <1>5. s \in Sources /\ rev[s] <= rev[s] /\ (rows[s] = "gone" => Held(j) \subseteq spared)
    <2>1. s \in Sources /\ rev[s] <= rev[s]
          /\ (rows[s] = "gone" => Held(jobs[r]) \subseteq spared /\ Has(s) = {})
      BY <1>1, JobsSource
    <2>2. DOMAIN j.items \subseteq Has(s)
      BY <1>3 DEF Descriptions, Covered, Has
    <2>3. Has(s) = {} => Held(j) \subseteq Held(jobs[r])
      BY <2>2, <1>3, HoldsNoMore
    <2>4. QED BY <2>1, <2>3
  <1> HIDE DEF j
  <1>6. JobOK(j)
    BY <1>3, <1>5 DEF JobOK, AsRead
  <1>7. QED BY <1>1, <1>2, <1>4, <1>6, JobsOnly

LEMMA ReadTablesKeeps ==
    ASSUME NEW r \in Refreshes PROVE KnowledgeInv /\ ReadTables(r) => KnowledgeInv'
  <1> SUFFICES ASSUME KnowledgeInv, ReadTables(r) PROVE KnowledgeInv'
    OBVIOUS
  <1> DEFINE s == jobs[r].src
             j == [jobs[r] EXCEPT !.at = "columns", !.tables = TablesOf(Has(s)), !.rev = rev[s]]
  <1>1. jobs[r].at = "tables" /\ OnlyJobs /\ InFlight(r)
    BY DEF ReadTables, Job, InFlight
  <1>2. jobs' = [jobs EXCEPT ![r] = j]
    BY DEF ReadTables, KnowledgeInv, TypeOK
  <1>3. /\ j.at = "columns" /\ j.src = s /\ j.rev = rev[s] /\ j.tables = TablesOf(Has(s))
        /\ j.items = jobs[r].items /\ j.columns = jobs[r].columns
    BY <1>1, JobsSource DEF RefreshJob
  <1>4. j \in RefreshJob
    BY <1>1, JobsSource DEF RefreshJob, Reading
  <1>5. s \in Sources /\ rev[s] <= rev[s] /\ (rows[s] = "gone" => Held(j) \subseteq spared)
    <2>1. /\ s \in Sources /\ rev[s] \in 0..Never
          /\ rows[s] = "gone" => Held(jobs[r]) \subseteq spared /\ Has(s) = {}
      BY <1>1, JobsSource
    <2> HIDE DEF j
    <2>2. Has(s) = {} => TablesOf(Has(s)) = {}
      BY DEF TablesOf
    <2>3. Has(s) = {} => Held(j) \subseteq Held(jobs[r])
      BY <2>2, <1>3, HoldsNoMore
    <2>4. rev[s] <= rev[s]
      BY <2>1
    <2>5. QED BY <2>1, <2>3, <2>4
  <1> HIDE DEF j
  <1>6. JobOK(j)
    BY <1>3, <1>5 DEF JobOK, AsRead, Has
  <1>7. QED BY <1>1, <1>2, <1>4, <1>6, JobsOnly

LEMMA ReadColumnsKeeps ==
    ASSUME NEW r \in Refreshes PROVE KnowledgeInv /\ ReadColumns(r) => KnowledgeInv'
  <1> SUFFICES ASSUME KnowledgeInv, ReadColumns(r) PROVE KnowledgeInv'
    OBVIOUS
  <1> DEFINE s == jobs[r].src
             found == {c \in Has(s) : TableOf[c] \in jobs[r].tables}
             j == [jobs[r] EXCEPT !.at = "keys", !.columns = found]
  <1>1. jobs[r].at = "columns" /\ OnlyJobs /\ InFlight(r)
    BY DEF ReadColumns, Job, InFlight
  <1>2. jobs' = [jobs EXCEPT ![r] = j]
    BY DEF ReadColumns, KnowledgeInv, TypeOK
  <1>3. /\ j.at = "keys" /\ j.src = s /\ j.rev = jobs[r].rev /\ j.tables = jobs[r].tables
        /\ j.columns = found /\ j.items = jobs[r].items
    BY <1>1, JobsSource DEF RefreshJob
  <1>4. j \in RefreshJob
    BY <1>1, JobsSource DEF RefreshJob, Reading
  <1>5. jobs[r].rev = rev[s] => jobs[r].tables = TablesOf(Has(s)) /\ found = Has(s)
    BY <1>1, JobsSource DEF JobOK, AsRead, Has, TablesOf
  <1>6. /\ s \in Sources /\ (rows[s] = "gone" => Held(j) \subseteq spared)
        /\ jobs[r].rev = Never \/ jobs[r].rev <= rev[s]
    <2>1. /\ s \in Sources
          /\ jobs[r].rev = Never \/ jobs[r].rev <= rev[s]
          /\ rows[s] = "gone" => Held(jobs[r]) \subseteq spared /\ Has(s) = {}
      BY <1>1, JobsSource DEF JobOK
    <2>2. Has(s) = {} => Held(j) \subseteq Held(jobs[r])
      BY <1>3, HoldsNoMore
    <2>3. QED BY <2>1, <2>2
  <1> HIDE DEF j, found
  <1>7. JobOK(j)
    BY <1>3, <1>5, <1>6 DEF JobOK, AsRead, Has
  <1>8. QED BY <1>1, <1>2, <1>4, <1>7, JobsOnly

LEMMA ReadKeysKeeps ==
    ASSUME NEW r \in Refreshes PROVE KnowledgeInv /\ ReadKeys(r) => KnowledgeInv'
  <1> SUFFICES ASSUME KnowledgeInv, ReadKeys(r) PROVE KnowledgeInv'
    OBVIOUS
  <1> DEFINE s == jobs[r].src
             found == {p \in catalogue[s].keys["REFERENCES"] :
                         TableOf[p[1]] \in jobs[r].tables \cap TablesOf(Has(s))}
             j == [jobs[r] EXCEPT !.at = "inferred", !.keys["REFERENCES"] = found]
  <1>1. jobs[r].at = "keys" /\ OnlyJobs /\ InFlight(r)
    BY DEF ReadKeys, Job, InFlight
  <1>2. jobs' = [jobs EXCEPT ![r] = j]
    BY DEF ReadKeys, KnowledgeInv, TypeOK
  <1>3. /\ j.at = "inferred" /\ j.src = s /\ j.rev = jobs[r].rev /\ j.tables = jobs[r].tables
        /\ j.columns = jobs[r].columns /\ j.keys["REFERENCES"] = found
        /\ j.items = jobs[r].items
    BY <1>1, JobsSource DEF RefreshJob, KeyTypes
  <1>4. j \in RefreshJob
    <2>1. found \subseteq Keys
      BY <1>1, JobsSource DEF KeyTypes
    <2> HIDE DEF found
    <2>2. QED BY <2>1, <1>1, JobsSource DEF RefreshJob, Reading, KeyTypes
  <1>5. jobs[r].rev = rev[s] =>
          /\ jobs[r].tables = TablesOf(Has(s)) /\ jobs[r].columns = Has(s)
          /\ Bound(found, Has(s)) = Bound(catalogue[s].keys["REFERENCES"], Has(s))
    BY <1>1, JobsSource DEF JobOK, AsRead, Has, TablesOf, Bound
  <1>6. /\ s \in Sources /\ (rows[s] = "gone" => Held(j) \subseteq spared)
        /\ jobs[r].rev = Never \/ jobs[r].rev <= rev[s]
    <2>1. /\ s \in Sources
          /\ jobs[r].rev = Never \/ jobs[r].rev <= rev[s]
          /\ rows[s] = "gone" => Held(jobs[r]) \subseteq spared /\ Has(s) = {}
      BY <1>1, JobsSource DEF JobOK
    <2>2. Held(j) \subseteq Held(jobs[r])
      BY <1>3, HoldsNoMore
    <2>3. QED BY <2>1, <2>2
  <1> HIDE DEF j, found
  <1>7. JobOK(j)
    BY <1>3, <1>5, <1>6 DEF JobOK, AsRead, Has
  <1>8. QED BY <1>1, <1>2, <1>4, <1>7, JobsOnly

LEMMA ReadInferredKeeps ==
    ASSUME NEW r \in Refreshes PROVE KnowledgeInv /\ ReadInferred(r) => KnowledgeInv'
  <1> SUFFICES ASSUME KnowledgeInv, ReadInferred(r) PROVE KnowledgeInv'
    OBVIOUS
  <1> DEFINE s == jobs[r].src
             found == catalogue[s].keys["INFERRED_REF"]
             j == [jobs[r] EXCEPT !.at = "rebuild", !.keys["INFERRED_REF"] = found]
  <1>1. jobs[r].at = "inferred" /\ OnlyJobs /\ InFlight(r)
    BY DEF ReadInferred, Job, InFlight
  <1>2. jobs' = [jobs EXCEPT ![r] = j]
    BY DEF ReadInferred, KnowledgeInv, TypeOK
  <1>3. /\ j.at = "rebuild" /\ j.src = s /\ j.rev = jobs[r].rev /\ j.tables = jobs[r].tables
        /\ j.columns = jobs[r].columns /\ j.keys["REFERENCES"] = jobs[r].keys["REFERENCES"]
        /\ j.keys["INFERRED_REF"] = found /\ j.items = jobs[r].items
    BY <1>1, JobsSource DEF RefreshJob, KeyTypes
  <1>4. j \in RefreshJob
    <2>1. found \subseteq Keys
      BY <1>1, JobsSource DEF KeyTypes
    <2> HIDE DEF found
    <2>2. QED BY <2>1, <1>1, JobsSource DEF RefreshJob, Reading, KeyTypes
  <1>5. jobs[r].rev = rev[s] =>
          /\ jobs[r].tables = TablesOf(Has(s)) /\ jobs[r].columns = Has(s)
          /\ Bound(jobs[r].keys["REFERENCES"], Has(s)) = Bound(catalogue[s].keys["REFERENCES"], Has(s))
    BY <1>1, JobsSource DEF JobOK, AsRead, Has
  <1>6. /\ s \in Sources /\ (rows[s] = "gone" => Held(j) \subseteq spared)
        /\ jobs[r].rev = Never \/ jobs[r].rev <= rev[s]
    <2>1. /\ s \in Sources
          /\ jobs[r].rev = Never \/ jobs[r].rev <= rev[s]
          /\ rows[s] = "gone" => Held(jobs[r]) \subseteq spared /\ Has(s) = {}
      BY <1>1, JobsSource DEF JobOK
    <2>2. Held(j) \subseteq Held(jobs[r])
      BY <1>3, HoldsNoMore
    <2>3. QED BY <2>1, <2>2
  <1> HIDE DEF j
  <1>7. JobOK(j)
    BY <1>3, <1>5, <1>6 DEF JobOK, AsRead, Has
  <1>8. QED BY <1>1, <1>2, <1>4, <1>7, JobsOnly

(***************************************************************************)
(* Steps of a refresh that write a store                                   *)
(***************************************************************************)
LEMMA MirrorsElsewhere ==
    ASSUME NEW g, NEW h, NEW s, NEW t, NEW found, t # s, SameElsewhere(h, g, s)
    PROVE  Mirrors(h, t, found) <=> Mirrors(g, t, found)
  <1>1. {n \in h.nodes : n[1] = t} = {n \in g.nodes : n[1] = t}
    BY DEF SameElsewhere
  <1>2. {e \in h.edges : e.from[1] = t} = {e \in g.edges : e.from[1] = t}
    BY DEF SameElsewhere
  <1>3. QED BY <1>1, <1>2 DEF Mirrors

LEMMA StoredGraph == KnowledgeInv => GraphOK(graph)
  BY DEF KnowledgeInv, TypeOK, StoresAgree, NothingUnowned, GraphOK

\* What is stored after an upsert of what a refresh has read.
LEMMA Upserted ==
    ASSUME NEW items \in Partial(Texts \ {"none"}),
           NEW stored \in Partial(Texts \ (LongTexts \cup {"none"})),
           \A c \in Plan(items, stored) : items[c] \notin LongTexts,
           NEW after, after = [c \in DOMAIN stored \cup Plan(items, stored) |->
                                 IF c \in Plan(items, stored) THEN items[c] ELSE stored[c]]
    PROVE  /\ after \in Partial(Texts \ (LongTexts \cup {"none"}))
           /\ \A c \in DOMAIN items : c \in DOMAIN after /\ after[c] = items[c]
  <1> DEFINE plan == Plan(items, stored)
  <1>1. plan \subseteq DOMAIN items /\ \A c \in DOMAIN items \ plan : c \in DOMAIN stored /\ stored[c] = items[c]
    BY DEF Plan
  <1> HIDE DEF plan
  <1>2. DOMAIN after = DOMAIN stored \cup plan /\ \A c \in DOMAIN after : after[c] = IF c \in plan THEN items[c] ELSE stored[c]
    BY DEF plan
  <1>3. /\ DOMAIN items \subseteq Columns /\ DOMAIN stored \subseteq Columns
        /\ \A c \in DOMAIN items : items[c] \in Texts \ {"none"}
        /\ \A c \in DOMAIN stored : stored[c] \in Texts \ (LongTexts \cup {"none"})
    BY PartialRead
  <1>4. \A c \in plan : items[c] \notin LongTexts
    BY DEF plan
  <1>5. DOMAIN stored \cup plan \in SUBSET Columns
    BY <1>1, <1>3
  <1>6. after \in [DOMAIN stored \cup plan -> Texts \ (LongTexts \cup {"none"})]
    BY <1>1, <1>3, <1>4 DEF plan
  <1>7. after \in Partial(Texts \ (LongTexts \cup {"none"}))
    BY <1>5, <1>6, PartialMade
  <1>8. QED BY <1>1, <1>2, <1>7

LEMMA BuildVectorsKeeps ==
    ASSUME NEW r \in Refreshes PROVE KnowledgeInv /\ BuildVectors(r) => KnowledgeInv'
  <1> SUFFICES ASSUME KnowledgeInv, BuildVectors(r) PROVE KnowledgeInv'
    OBVIOUS
  <1> DEFINE s == jobs[r].src
             items == jobs[r].items
             plan == Plan(items, vectors[s])
             after == [c \in DOMAIN vectors[s] \cup plan |-> IF c \in plan THEN items[c] ELSE vectors[s][c]]
  <1>1. /\ jobs[r].at = "vectors" /\ InFlight(r)
        /\ jobs' = [jobs EXCEPT ![r] = Blank("tables", s)]
        /\ UNCHANGED <<registry, catalogue, rev, graph, spared>>
    BY DEF BuildVectors, Job, InFlight
  <1>2. s \in Sources /\ items \in Partial(Texts \ {"none"})
    BY <1>1, JobsSource DEF RefreshJob
  <1>3. Blank("tables", s) \in RefreshJob /\ JobOK(Blank("tables", s))
    BY <1>1, JobsSource, BlankJob
  <1>4. CASE UNCHANGED <<vectors, mirrored>>
    BY <1>1, <1>3, <1>4, JobsOnly DEF OnlyJobs
  <1>5. CASE /\ \A c \in plan : items[c] \notin LongTexts
             /\ vectors' = [vectors EXCEPT ![s] = after]
             /\ mirrored' = [mirrored EXCEPT !["vectors"][s] = jobs[r].rev]
    <2>1. vectors[s] \in Partial(Texts \ (LongTexts \cup {"none"})) /\ vectors \in [Sources -> Partial(Texts \ (LongTexts \cup {"none"}))]
      BY <1>2 DEF KnowledgeInv, TypeOK
    <2>2. /\ after \in Partial(Texts \ (LongTexts \cup {"none"}))
          /\ \A c \in DOMAIN items : c \in DOMAIN after /\ after[c] = items[c]
          /\ DOMAIN after \subseteq DOMAIN vectors[s] \cup DOMAIN items
      <3>1. \A c \in Plan(items, vectors[s]) : items[c] \notin LongTexts
        BY <1>5
      <3> DEFINE stored == vectors[s]
      <3>2. after = [c \in DOMAIN stored \cup Plan(items, stored) |->
                       IF c \in Plan(items, stored) THEN items[c] ELSE stored[c]]
        OBVIOUS
      <3> HIDE DEF items, stored, after
      <3>3. stored \in Partial(Texts \ (LongTexts \cup {"none"}))
            /\ \A c \in Plan(items, stored) : items[c] \notin LongTexts
        BY <2>1, <3>1 DEF stored
      <3>4. /\ after \in Partial(Texts \ (LongTexts \cup {"none"}))
            /\ \A c \in DOMAIN items : c \in DOMAIN after /\ after[c] = items[c]
        BY <1>2, <3>2, <3>3, Upserted
      <3>5. DOMAIN after = DOMAIN stored \cup Plan(items, stored)
        BY <3>2
      <3>6. DOMAIN after \subseteq DOMAIN stored \cup DOMAIN items
        BY <3>5 DEF Plan
      <3>7. QED BY <3>4, <3>6 DEF stored
    <2>3. jobs[r].rev \in 0..Never /\ (jobs[r].rev = Never \/ jobs[r].rev <= rev[s])
          /\ (jobs[r].rev = rev[s] => items = Descriptions(catalogue[s].text))
      BY <1>1, JobsSource DEF RefreshJob, JobOK, AsRead
    <2> HIDE DEF plan, after, items
    <2>4. /\ vectors' \in [Sources -> Partial(Texts \ (LongTexts \cup {"none"}))] /\ vectors'[s] = after
          /\ \A t \in Sources : t # s => vectors'[t] = vectors[t]
      BY <1>2, <1>5, <2>1, <2>2
    <2>5. /\ mirrored' \in [Stores -> [Sources -> 0..Never]]
          /\ mirrored'["vectors"][s] = jobs[r].rev
          /\ \A t \in Sources : t # s => mirrored'["vectors"][t] = mirrored["vectors"][t]
          /\ \A t \in Sources : mirrored'["graph"][t] = mirrored["graph"][t]
      BY <1>2, <1>5, <2>3 DEF KnowledgeInv, TypeOK, Stores
    <2>6. jobs' \in [Refreshes -> RefreshJob] /\ \A q \in Refreshes : JobOK(jobs'[q])
      BY <1>1, <1>3, JobsOK DEF KnowledgeInv, TypeOK
    <2>7. /\ rows' = rows /\ ops' = ops /\ made' = made /\ rivals' = rivals /\ catalogue' = catalogue /\ rev' = rev
          /\ graph' = graph /\ spared' = spared
      BY <1>1 DEF registry
    <2>8. RegistryInv'
      BY <1>1, RegistryStutter DEF KnowledgeInv
    <2>9. TypeOK'
      BY <2>4, <2>5, <2>6, <2>7, <2>8 DEF KnowledgeInv, TypeOK, RegistryInv, InFlight, JobOK
    <2>10. JobsAgree'
      BY <2>6, <2>7 DEF JobsAgree, JobOK, InFlight
    <2>11. RowsAgree' /\ NothingUnowned'
      BY <2>7 DEF KnowledgeInv, RowsAgree, NothingUnowned, At
    <2>12. StoresAgree'
      BY <2>3, <2>5, <2>7 DEF KnowledgeInv, StoresAgree, Stores
    <2>13. GoneStaysGone'
      <3> SUFFICES ASSUME NEW t \in Sources, rows[t] = "gone",
                          \A h \in Handlers : ~(At(h, "cleaning") /\ ops[h].src = t)
                   PROVE  Kept(t)' \subseteq spared
        BY <2>7 DEF GoneStaysGone, At
      <3>1. Kept(t) \subseteq spared
        BY DEF KnowledgeInv, GoneStaysGone
      <3>2. CASE t = s
        <4>1. {"vectors"} \X {s} \X DOMAIN items \subseteq spared
          BY <3>2, <1>1, JobsSource DEF Held, items
        <4>2. DOMAIN vectors'[s] \subseteq DOMAIN vectors[s] \cup DOMAIN items
          BY <2>2, <2>4
        <4>3. Kept(t)' \subseteq Kept(t) \cup ({"vectors"} \X {s} \X DOMAIN items)
          BY <3>2, <4>2, <2>7 DEF Kept
        <4>4. QED BY <3>1, <4>1, <4>3
      <3>3. CASE t # s
        BY <3>1, <3>3, <2>4, <2>7 DEF Kept
      <3>4. QED BY <3>2, <3>3
    <2>14. VectorsCurrent'
      <3>1. \A t \in Sources : t # s =>
               (mirrored'["vectors"][t] = rev'[t] =>
                  \A c \in Covered(catalogue'[t].text) :
                    c \in DOMAIN vectors'[t] /\ vectors'[t][c] = catalogue'[t].text[c])
        BY <2>4, <2>5, <2>7 DEF KnowledgeInv, VectorsCurrent
      <3>2. ASSUME mirrored'["vectors"][s] = rev'[s], NEW c \in Covered(catalogue[s].text)
            PROVE  c \in DOMAIN after /\ after[c] = catalogue[s].text[c]
        <4>1. items = Descriptions(catalogue[s].text)
          BY <3>2, <2>3, <2>5, <2>7
        <4>2. c \in DOMAIN items /\ items[c] = catalogue[s].text[c]
          BY <4>1, <3>2 DEF Descriptions
        <4>3. QED BY <4>2, <2>2
      <3>3. QED BY <3>1, <3>2, <2>4, <2>7 DEF VectorsCurrent
    <2>15. GraphMirrors'
      BY <2>5, <2>7 DEF KnowledgeInv, GraphMirrors
    <2>16. QED
      BY <2>8, <2>9, <2>10, <2>11, <2>12, <2>13, <2>14, <2>15 DEF KnowledgeInv
  <1>6. QED
    BY <1>4, <1>5 DEF BuildVectors

LEMMA RebuildGraphKeeps ==
    ASSUME NEW r \in Refreshes PROVE KnowledgeInv /\ RebuildGraph(r) => KnowledgeInv'
  <1> SUFFICES ASSUME KnowledgeInv, RebuildGraph(r) PROVE KnowledgeInv'
    OBVIOUS
  <1> DEFINE s == jobs[r].src
             j == jobs[r]
             stage(k) == Rebuild(graph, s, jobs[r])[k]
  <1>1. /\ jobs[r].at = "rebuild" /\ InFlight(r)
        /\ jobs' = [jobs EXCEPT ![r] = Blank("over", "none")]
        /\ UNCHANGED <<registry, catalogue, rev, vectors, spared>>
    BY DEF RebuildGraph, Job, InFlight
  <1>2. s \in Sources /\ j \in RefreshJob /\ GraphOK(graph)
    BY <1>1, JobsSource, StoredGraph
  <1>3. CASE UNCHANGED <<graph, mirrored>>
    BY <1>1, <1>3, OverJob, JobsOnly DEF OnlyJobs
  <1>4. ASSUME NEW k \in 1..5, graph' = stage(k),
               mirrored' = [mirrored EXCEPT !["graph"][s] = IF k = 5 THEN jobs[r].rev ELSE Never]
        PROVE  KnowledgeInv'
    <2>1. /\ SameElsewhere(graph', graph, s) /\ (k = 5 => Complete(graph', s, j))
          /\ {n \in (graph').nodes : n[1] = s} \subseteq Uids(s, j.columns \cup j.tables)
      BY <1>2, <1>4, RebuildGraphs
    <2>2. GraphOK(graph')
      BY <2>1 DEF SameElsewhere
    <2>3. /\ j.rev \in 0..Never /\ (j.rev = Never \/ j.rev <= rev[s])
          /\ (j.rev = rev[s] => AsRead(j, catalogue[s]))
          /\ rev[s] \in 0..Never - 1
      BY <1>1, JobsSource DEF RefreshJob, JobOK
    <2>4. Never \in 0..Never /\ rev[s] # Never
      BY <2>3, KnowledgeAssumption DEF Never
    <2> HIDE DEF j, stage
    <2>5. /\ mirrored' \in [Stores -> [Sources -> 0..Never]]
          /\ mirrored'["graph"][s] = IF k = 5 THEN j.rev ELSE Never
          /\ \A t \in Sources : t # s => mirrored'["graph"][t] = mirrored["graph"][t]
          /\ \A t \in Sources : mirrored'["vectors"][t] = mirrored["vectors"][t]
      BY <1>2, <1>4, <2>3, <2>4 DEF KnowledgeInv, TypeOK, Stores, j
    <2>6. jobs' \in [Refreshes -> RefreshJob] /\ \A q \in Refreshes : JobOK(jobs'[q])
      BY <1>1, OverJob, JobsOK DEF KnowledgeInv, TypeOK
    <2>7. /\ rows' = rows /\ ops' = ops /\ made' = made /\ rivals' = rivals /\ catalogue' = catalogue /\ rev' = rev
          /\ vectors' = vectors /\ spared' = spared
      BY <1>1 DEF registry
    <2>8. RegistryInv'
      BY <1>1, RegistryStutter DEF KnowledgeInv
    <2>9. TypeOK'
      BY <2>2, <2>5, <2>6, <2>7, <2>8 DEF KnowledgeInv, TypeOK, RegistryInv, InFlight, JobOK, GraphOK
    <2>10. JobsAgree'
      BY <2>6, <2>7 DEF JobsAgree, JobOK, InFlight
    <2>11. RowsAgree' /\ NothingUnowned'
      BY <2>2, <2>7 DEF KnowledgeInv, RowsAgree, NothingUnowned, At, GraphOK
    <2>12. StoresAgree'
      BY <2>2, <2>3, <2>5, <2>7 DEF KnowledgeInv, StoresAgree, Stores, GraphOK
    <2>13. GoneStaysGone'
      <3> SUFFICES ASSUME NEW t \in Sources, rows[t] = "gone",
                          \A h \in Handlers : ~(At(h, "cleaning") /\ ops[h].src = t)
                   PROVE  Kept(t)' \subseteq spared
        BY <2>7 DEF GoneStaysGone, At
      <3>1. Kept(t) \subseteq spared
        BY DEF KnowledgeInv, GoneStaysGone
      <3>2. CASE t = s
        <4>1. {"graph"} \X {s} \X (j.tables \cup j.columns) \subseteq spared
          BY <3>2, <1>1, JobsSource DEF Held, j
        <4>2. \A n \in (graph').nodes : n[1] = s => n[2] \in j.tables \cup j.columns
          BY <2>1 DEF Uids
        <4>3. Kept(t)' \subseteq Kept(t) \cup ({"graph"} \X {s} \X (j.tables \cup j.columns))
          BY <3>2, <4>2, <2>7 DEF Kept
        <4>4. QED BY <3>1, <4>1, <4>3
      <3>3. CASE t # s
        <4>1. {m \in (graph').nodes : m[1] = t} = {m \in graph.nodes : m[1] = t}
          BY <3>3, <2>1 DEF SameElsewhere
        <4>2. QED BY <3>1, <4>1, <2>7 DEF Kept
      <3>4. QED BY <3>2, <3>3
    <2>14. VectorsCurrent'
      BY <2>5, <2>7 DEF KnowledgeInv, VectorsCurrent
    <2>15. GraphMirrors'
      <3>1. \A t \in Sources : t # s => (mirrored'["graph"][t] = rev[t] => Mirrors(graph', t, catalogue[t]))
        BY <2>1, <2>5, MirrorsElsewhere DEF KnowledgeInv, GraphMirrors
      <3>2. ASSUME mirrored'["graph"][s] = rev[s] PROVE Mirrors(graph', s, catalogue[s])
        <4> DEFINE has == DOMAIN catalogue[s].text
        <4>1. k = 5 /\ j.rev = rev[s]
          BY <3>2, <2>4, <2>5
        <4>2. Complete(graph', s, j)
          BY <4>1, <2>1
        <4>3. /\ j.tables = TablesOf(has) /\ j.columns = has
              /\ Bound(j.keys["REFERENCES"], has) = Bound(catalogue[s].keys["REFERENCES"], has)
              /\ j.keys["INFERRED_REF"] = catalogue[s].keys["INFERRED_REF"]
          BY <4>1, <2>3, <1>1 DEF AsRead, j
        <4>4. \A type \in KeyTypes : Bound(j.keys[type], has) = Bound(catalogue[s].keys[type], has)
          BY <4>3 DEF KeyTypes
        <4>5. UNION {Edges(s, type, Bound(j.keys[type], has)) : type \in KeyTypes}
                = UNION {Edges(s, type, Bound(catalogue[s].keys[type], has)) : type \in KeyTypes}
          BY <4>4
        <4>6. /\ {n \in (graph').nodes : n[1] = s} = Uids(s, j.columns \cup j.tables)
              /\ {e \in (graph').edges : e.from[1] = s} =
                   UNION {Edges(s, type, Bound(j.keys[type], j.columns)) : type \in KeyTypes}
          BY <4>2 DEF Complete
        <4>7. {n \in (graph').nodes : n[1] = s} = Uids(s, has \cup TablesOf(has))
          BY <4>3, <4>6
        <4>8. {e \in (graph').edges : e.from[1] = s} =
                UNION {Edges(s, type, Bound(catalogue[s].keys[type], has)) : type \in KeyTypes}
          BY <4>3, <4>5, <4>6
        <4>9. QED BY <4>7, <4>8 DEF Mirrors
      <3>3. QED BY <3>1, <3>2, <2>7 DEF GraphMirrors
    <2>16. QED
      BY <2>8, <2>9, <2>10, <2>11, <2>12, <2>13, <2>14, <2>15 DEF KnowledgeInv
  <1>5. QED
    BY <1>3, <1>4 DEF RebuildGraph

(***************************************************************************)
(* Steps of the registry and of the catalogue                              *)
(***************************************************************************)
\* A registry step that lets no source go and begins or ends no clean-up.
LEMMA QuietStep ==
    ASSUME KnowledgeInv, RegistryInv', UNCHANGED knowledge,
           \A s \in Sources : rows'[s] = "gone" <=> rows[s] = "gone",
           \A h \in Handlers : At(h, "cleaning")' <=> At(h, "cleaning"),
           \A h \in Handlers : At(h, "cleaning") => ops'[h].src = ops[h].src
    PROVE  KnowledgeInv'
  <1>1. /\ catalogue' = catalogue /\ rev' = rev /\ jobs' = jobs /\ vectors' = vectors
        /\ graph' = graph /\ mirrored' = mirrored /\ spared' = spared
    BY DEF knowledge
  <1>2. TypeOK'
    BY <1>1 DEF KnowledgeInv, TypeOK, RegistryInv, InFlight
  <1>3. RowsAgree'
    <2>1. \A h \in Handlers : At(h, "cleaning") => ops[h].src \in Sources
      BY DEF At, KnowledgeInv, RegistryInv, RegistryTypeOK
    <2>2. QED BY <1>1, <2>1 DEF KnowledgeInv, RowsAgree
  <1>4. JobsAgree'
    BY <1>1 DEF KnowledgeInv, TypeOK, JobsAgree, InFlight
  <1>5. StoresAgree' /\ NothingUnowned'
    BY <1>1 DEF KnowledgeInv, StoresAgree, NothingUnowned
  <1>6. GoneStaysGone'
    BY <1>1 DEF KnowledgeInv, GoneStaysGone, Kept
  <1>7. VectorsCurrent'
    BY <1>1 DEF KnowledgeInv, VectorsCurrent
  <1>8. GraphMirrors'
    BY <1>1 DEF KnowledgeInv, GraphMirrors
  <1>9. QED
    BY <1>2, <1>3, <1>4, <1>5, <1>6, <1>7, <1>8 DEF KnowledgeInv

LEMMA RegistryStepKeeps ==
    ASSUME KnowledgeInv, UNCHANGED knowledge,
           \/ \E s \in Sources : Create(s)
           \/ \E s \in Sources, h \in Handlers, what \in {"activate", "deactivate", "delete"} :
                Load(h, what, s)
           \/ \E h \in Handlers : ListActive(h) \/ CommitActivate(h) \/ CommitDeactivate(h)
    PROVE  KnowledgeInv'
  <1> USE DEF KnowledgeInv
  <1>1. CASE \E s \in Sources : Create(s)
    <2>1. PICK s \in Sources : Create(s)
      BY <1>1
    <2>2. /\ \A t \in Sources : rows'[t] = "gone" <=> rows[t] = "gone"
          /\ ops' = ops
      BY <2>1 DEF Create, RegistryInv, RegistryTypeOK
    <2>3. QED BY <2>1, <2>2, CreateKeeps, QuietStep DEF At
  <1>2. CASE \E s \in Sources, h \in Handlers, what \in {"activate", "deactivate", "delete"} :
               Load(h, what, s)
    <2>1. PICK s \in Sources, h \in Handlers, what \in {"activate", "deactivate", "delete"} :
            Load(h, what, s)
      BY <1>2
    <2>2. rows' = rows /\ ops[h].at = "free" /\ ops'[h].at = what
      BY <2>1 DEF Load, At, Free, RegistryInv, RegistryTypeOK
    <2>3. \A g \in Handlers : g # h => ops'[g].at = ops[g].at /\ ops'[g].src = ops[g].src
      BY <2>1 DEF Load, RegistryInv, RegistryTypeOK
    <2>4. QED BY <2>1, <2>2, <2>3, LoadKeeps, QuietStep DEF At
  <1>3. CASE \E h \in Handlers : ListActive(h)
    <2>1. PICK h \in Handlers : ListActive(h)
      BY <1>3
    <2>2. rows' = rows /\ ops[h].at = "activate" /\ ops'[h].at = "listed"
      BY <2>1 DEF ListActive, At, RegistryInv, RegistryTypeOK
    <2>3. \A g \in Handlers : g # h => ops'[g] = ops[g]
      BY <2>1 DEF ListActive, RegistryInv, RegistryTypeOK
    <2>4. QED BY <2>1, <2>2, <2>3, ListActiveKeeps, QuietStep DEF At
  <1>4. CASE \E h \in Handlers : CommitActivate(h)
    <2>1. PICK h \in Handlers : CommitActivate(h)
      BY <1>4
    <2> DEFINE off == ops[h].others
               on == IF ops[h].was THEN {} ELSE {ops[h].src}
    <2>2. ops[h].at = "listed" /\ Write(off, on) /\ Finish(h)
      BY <2>1 DEF CommitActivate, At
    <2>3. RegistryTypeOK /\ off \in SUBSET Sources /\ on \in SUBSET Sources
      BY <2>2 DEF RegistryInv, RegistryTypeOK
    <2> HIDE DEF off, on
    <2>4. \A t \in Sources : rows'[t] = "gone" <=> rows[t] = "gone"
      BY <2>2, <2>3, WriteRows
    <2>5. ops'[h].at = "done" /\ \A g \in Handlers : g # h => ops'[g] = ops[g]
      BY <2>2, <2>3, Finished
    <2>6. QED BY <2>1, <2>2, <2>4, <2>5, CommitActivateKeeps, QuietStep DEF At
  <1>5. CASE \E h \in Handlers : CommitDeactivate(h)
    <2>1. PICK h \in Handlers : CommitDeactivate(h)
      BY <1>5
    <2> DEFINE off == IF ops[h].was THEN {ops[h].src} ELSE {}
    <2>2. ops[h].at = "deactivate" /\ Write(off, {}) /\ Finish(h)
      BY <2>1 DEF CommitDeactivate, At
    <2>3. RegistryTypeOK /\ off \in SUBSET Sources
      BY <2>2 DEF RegistryInv, RegistryTypeOK
    <2> HIDE DEF off
    <2>4. \A t \in Sources : rows'[t] = "gone" <=> rows[t] = "gone"
      BY <2>2, <2>3, WriteRows
    <2>5. ops'[h].at = "done" /\ \A g \in Handlers : g # h => ops'[g] = ops[g]
      BY <2>2, <2>3, Finished
    <2>6. QED BY <2>1, <2>2, <2>4, <2>5, CommitDeactivateKeeps, QuietStep DEF At
  <1>6. QED
    BY <1>1, <1>2, <1>3, <1>4, <1>5

\* What a change of its rows leaves of a source's descriptions and keys.
LEMMA CommittedRows ==
    ASSUME KnowledgeInv, NEW s \in Sources, Describe(s) \/ DropColumn(s) \/ ChangeKeys(s)
    PROVE  /\ catalogue' \in [Sources -> [text: Partial(Texts), keys: [KeyTypes -> SUBSET Keys]]]
           /\ \A t \in Sources : t # s => catalogue'[t] = catalogue[t]
  <1> DEFINE Row == [text: Partial(Texts), keys: [KeyTypes -> SUBSET Keys]]
  <1>1. catalogue \in [Sources -> Row] /\ catalogue[s] \in Row
    BY DEF KnowledgeInv, TypeOK
  <1>2. Has(s) \in SUBSET Columns /\ \A c \in Has(s) : catalogue[s].text[c] \in Texts
    BY <1>1, PartialRead DEF Has
  <1>3. SUFFICES \E row \in Row : catalogue' = [catalogue EXCEPT ![s] = row]
    BY <1>1
  <1>4. CASE Describe(s)
    <2>1. PICK c \in Has(s), x \in Texts \ {"none"} :
            catalogue' = [catalogue EXCEPT ![s].text[c] = x]
      BY <1>4 DEF Describe
    <2> DEFINE text == [catalogue[s].text EXCEPT ![c] = x]
    <2>2. text \in [Has(s) -> Texts]
      BY <1>1, <1>2, PartialRead DEF Has
    <2>3. text \in Partial(Texts)
      BY <1>2, <2>2, PartialMade
    <2> HIDE DEF text
    <2>4. [catalogue[s] EXCEPT !.text = text] \in Row
      BY <1>1, <2>3
    <2>5. catalogue' = [catalogue EXCEPT ![s] = [catalogue[s] EXCEPT !.text = text]]
      BY <1>1, <2>1 DEF text
    <2>6. QED BY <2>4, <2>5
  <1>5. CASE DropColumn(s)
    <2>1. PICK c \in Has(s) :
            catalogue' = [catalogue EXCEPT ![s].text = [d \in Has(s) \ {c} |-> catalogue[s].text[d]]]
      BY <1>5 DEF DropColumn
    <2> DEFINE text == [d \in Has(s) \ {c} |-> catalogue[s].text[d]]
    <2>2. text \in [Has(s) \ {c} -> Texts] /\ Has(s) \ {c} \in SUBSET Columns
      BY <1>2
    <2>3. text \in Partial(Texts)
      BY <2>2, PartialMade
    <2> HIDE DEF text
    <2>4. [catalogue[s] EXCEPT !.text = text] \in Row
      BY <1>1, <2>3
    <2>5. catalogue' = [catalogue EXCEPT ![s] = [catalogue[s] EXCEPT !.text = text]]
      BY <1>1, <2>1 DEF text
    <2>6. QED BY <2>4, <2>5
  <1>6. CASE ChangeKeys(s)
    <2>1. PICK type \in KeyTypes, p \in Keys :
            catalogue' = [catalogue EXCEPT ![s].keys[type] = IF p \in @ THEN @ \ {p} ELSE @ \cup {p}]
      BY <1>6 DEF ChangeKeys
    <2> DEFINE old == catalogue[s].keys[type]
               new == IF p \in old THEN old \ {p} ELSE old \cup {p}
               keys == [catalogue[s].keys EXCEPT ![type] = new]
    <2>2. new \in SUBSET Keys
      BY <1>1
    <2>3. catalogue' = [catalogue EXCEPT ![s] = [catalogue[s] EXCEPT !.keys = keys]]
      BY <1>1, <2>1
    <2> HIDE DEF new
    <2>4. keys \in [KeyTypes -> SUBSET Keys]
      BY <1>1, <2>2
    <2> HIDE DEF keys
    <2>5. [catalogue[s] EXCEPT !.keys = keys] \in Row
      BY <1>1, <2>4
    <2>6. QED BY <2>3, <2>5
  <1>7. QED
    BY <1>4, <1>5, <1>6

LEMMA CommitKeeps ==
    ASSUME NEW s \in Learned PROVE KnowledgeInv /\ Commit(s) => KnowledgeInv'
  <1> SUFFICES ASSUME KnowledgeInv, Commit(s) PROVE KnowledgeInv'
    OBVIOUS
  <1>1. /\ s \in Sources /\ rows[s] # "gone" /\ rev[s] < MaxCommits
        /\ rev' = [rev EXCEPT ![s] = @ + 1]
        /\ rows' = rows /\ ops' = ops /\ made' = made /\ rivals' = rivals /\ jobs' = jobs /\ vectors' = vectors
        /\ graph' = graph /\ mirrored' = mirrored /\ spared' = spared
    BY KnowledgeAssumption DEF Commit, registry, Present
  <1>2. /\ catalogue' \in [Sources -> [text: Partial(Texts), keys: [KeyTypes -> SUBSET Keys]]]
        /\ \A t \in Sources : t # s => catalogue'[t] = catalogue[t]
    BY <1>1, CommittedRows DEF Commit
  <1>3. rev \in [Sources -> 0..Never - 1] /\ MaxCommits \in Nat /\ Never = MaxCommits + 2
    BY KnowledgeAssumption DEF KnowledgeInv, TypeOK, Never
  <1>4. /\ rev' \in [Sources -> 0..Never - 1] /\ rev'[s] = rev[s] + 1 /\ rev'[s] <= MaxCommits
        /\ rev'[s] # Never
        /\ \A t \in Sources : t # s => rev'[t] = rev[t]
    BY <1>1, <1>3
  <1>5. RegistryInv'
    BY <1>1, RegistryStutter DEF KnowledgeInv, registry
  <1>6. TypeOK'
    BY <1>1, <1>2, <1>4, <1>5 DEF KnowledgeInv, TypeOK, RegistryInv, InFlight
  <1>7. RowsAgree'
    BY <1>1, <1>2, <1>4 DEF KnowledgeInv, RowsAgree, At
  <1>8. JobsAgree'
    <2> SUFFICES ASSUME NEW r \in Refreshes, InFlight(r)
                 PROVE  /\ rows[jobs[r].src] = "gone" => Held(jobs[r]) \subseteq spared
                        /\ jobs[r].rev = Never \/ jobs[r].rev <= rev'[jobs[r].src]
                        /\ jobs[r].rev = rev'[jobs[r].src] => AsRead(jobs[r], catalogue'[jobs[r].src])
      BY <1>1 DEF JobsAgree, InFlight, Never
    <2> DEFINE t == jobs[r].src
    <2>1. /\ t \in Sources /\ jobs[r].rev \in 0..Never /\ rev[t] \in 0..Never - 1
          /\ rows[t] = "gone" => Held(jobs[r]) \subseteq spared
          /\ jobs[r].rev = Never \/ jobs[r].rev <= rev[t]
          /\ jobs[r].rev = rev[t] => AsRead(jobs[r], catalogue[t])
      BY JobsSource DEF JobOK, RefreshJob, InFlight
    <2>2. CASE t = s
      BY <2>1, <2>2, <1>3, <1>4
    <2>3. CASE t # s
      BY <2>1, <2>3, <1>2, <1>4
    <2>4. QED BY <2>2, <2>3
  <1>9. StoresAgree'
    <2>1. \A st \in Stores, t \in Sources : mirrored[st][t] \in 0..Never
      BY DEF KnowledgeInv, TypeOK
    <2>2. \A st \in Stores, t \in Sources : mirrored[st][t] = Never \/ mirrored[st][t] <= rev'[t]
      BY <2>1, <1>1, <1>3, <1>4 DEF KnowledgeInv, StoresAgree
    <2>3. QED BY <2>2, <1>1 DEF KnowledgeInv, StoresAgree, Never
  <1>10. NothingUnowned' /\ GoneStaysGone'
    BY <1>1 DEF KnowledgeInv, NothingUnowned, GoneStaysGone, Kept, At
  <1>11. \A st \in Stores : mirrored[st][s] # rev'[s]
    <2>1. \A st \in Stores : mirrored[st][s] \in 0..Never /\ (mirrored[st][s] = Never \/ mirrored[st][s] <= rev[s])
      BY <1>1 DEF KnowledgeInv, TypeOK, StoresAgree
    <2>2. QED BY <2>1, <1>1, <1>3, <1>4
  <1>12. VectorsCurrent'
    BY <1>1, <1>2, <1>4, <1>11 DEF KnowledgeInv, VectorsCurrent, Stores
  <1>13. GraphMirrors'
    BY <1>1, <1>2, <1>4, <1>11 DEF KnowledgeInv, GraphMirrors, Stores
  <1>14. QED
    BY <1>5, <1>6, <1>7, <1>8, <1>9, <1>10, <1>12, <1>13 DEF KnowledgeInv

(***************************************************************************)
(* Deletion and restart                                                    *)
(***************************************************************************)
LEMMA DeleteSourceKeeps ==
    ASSUME NEW h \in Handlers PROVE KnowledgeInv /\ DeleteSource(h) => KnowledgeInv'
  <1> SUFFICES ASSUME KnowledgeInv, DeleteSource(h) PROVE KnowledgeInv'
    OBVIOUS
  <1> DEFINE s == ops[h].src
  <1>1. /\ DeleteRow(h) /\ catalogue' = [catalogue EXCEPT ![s] = Empty]
        /\ rev' = [rev EXCEPT ![s] = IF rows[s] = "gone" THEN @ ELSE @ + 1]
        /\ spared' = spared \cup UNION {Held(jobs[r]) : r \in {q \in Refreshes : jobs[q].src = s}}
        /\ jobs' = jobs /\ vectors' = vectors /\ graph' = graph /\ mirrored' = mirrored
    BY DEF DeleteSource
  <1>2. /\ ops[h].at = "delete" /\ rows' = [rows EXCEPT ![s] = "gone"]
        /\ ops' = [ops EXCEPT ![h].at = "cleaning"] /\ s \in Sources
    BY <1>1 DEF DeleteRow, At, KnowledgeInv, RegistryInv, RegistryTypeOK
  <1>3. /\ ops'[h].at = "cleaning" /\ ops'[h].src = s /\ rows'[s] = "gone"
        /\ \A g \in Handlers : g # h => ops'[g] = ops[g]
        /\ \A t \in Sources : t # s => rows'[t] = rows[t]
    BY <1>2 DEF KnowledgeInv, RegistryInv, RegistryTypeOK
  <1>4. RegistryInv'
    BY <1>1, DeleteRowKeeps DEF KnowledgeInv
  <1>5. rev \in [Sources -> 0..Never - 1] /\ MaxCommits \in Nat /\ Never = MaxCommits + 2
    BY KnowledgeAssumption DEF KnowledgeInv, TypeOK, Never
  <1>6. rows[s] # "gone" => rev[s] <= MaxCommits
    BY <1>2 DEF KnowledgeInv, RowsAgree
  <1>7. /\ rev' \in [Sources -> 0..Never - 1]
        /\ rev'[s] = IF rows[s] = "gone" THEN rev[s] ELSE rev[s] + 1
        /\ \A t \in Sources : t # s => rev'[t] = rev[t]
    BY <1>1, <1>2, <1>5, <1>6
  <1>8. /\ catalogue' \in [Sources -> [text: Partial(Texts), keys: [KeyTypes -> SUBSET Keys]]]
        /\ catalogue'[s] = Empty /\ \A t \in Sources : t # s => catalogue'[t] = catalogue[t]
        /\ rows[s] = "gone" => catalogue'[s] = catalogue[s]
    BY <1>1, <1>2, EmptyRows DEF KnowledgeInv, TypeOK, RowsAgree
  <1>9. /\ spared \subseteq spared' /\ spared' \subseteq Stores \X Sources \X Names
        /\ \A r \in Refreshes : jobs[r].src = s => Held(jobs[r]) \subseteq spared'
    <2>1. \A r \in Refreshes : jobs[r].src = s => Held(jobs[r]) \subseteq Stores \X Sources \X Names
      <3> SUFFICES ASSUME NEW r \in Refreshes, jobs[r].src = s
                   PROVE  Held(jobs[r]) \subseteq Stores \X Sources \X Names
        OBVIOUS
      <3>1. jobs[r] \in RefreshJob /\ DOMAIN jobs[r].items \subseteq Columns
        BY JobsOK, PartialRead DEF RefreshJob
      <3>2. QED BY <3>1, <1>2 DEF Held, RefreshJob, Stores, Names
    <2>2. spared \subseteq Stores \X Sources \X Names
      BY DEF KnowledgeInv, TypeOK
    <2>3. QED BY <2>1, <2>2, <1>1
  <1>10. TypeOK'
    BY <1>1, <1>4, <1>7, <1>8, <1>9 DEF KnowledgeInv, TypeOK, RegistryInv, InFlight
  <1>11. RowsAgree'
    <2>1. \A g \in Handlers : ops'[g].at = "cleaning" => rows'[ops'[g].src] = "gone"
      <3> SUFFICES ASSUME NEW g \in Handlers, ops'[g].at = "cleaning", g # h
                   PROVE  rows'[ops'[g].src] = "gone"
        BY <1>3
      <3>1. rows[ops[g].src] = "gone" /\ ops[g].src \in Sources
        BY <1>3 DEF KnowledgeInv, RowsAgree, At, RegistryInv, RegistryTypeOK
      <3>2. QED BY <3>1, <1>3
    <2>2. QED BY <2>1, <1>3, <1>7, <1>8 DEF KnowledgeInv, RowsAgree, At
  <1>12. JobsAgree'
    <2> SUFFICES ASSUME NEW r \in Refreshes, InFlight(r)
                 PROVE  /\ rows'[jobs[r].src] = "gone" => Held(jobs[r]) \subseteq spared'
                        /\ jobs[r].rev = Never \/ jobs[r].rev <= rev'[jobs[r].src]
                        /\ jobs[r].rev = rev'[jobs[r].src] => AsRead(jobs[r], catalogue'[jobs[r].src])
      BY <1>1 DEF JobsAgree, InFlight, Never
    <2> DEFINE t == jobs[r].src
    <2>1. /\ t \in Sources /\ jobs[r].rev \in 0..Never /\ rev[t] \in 0..Never - 1
          /\ rows[t] = "gone" => Held(jobs[r]) \subseteq spared
          /\ jobs[r].rev = Never \/ jobs[r].rev <= rev[t]
          /\ jobs[r].rev = rev[t] => AsRead(jobs[r], catalogue[t])
      BY JobsSource DEF JobOK, RefreshJob, InFlight
    <2>2. CASE t = s
      <3>1. Held(jobs[r]) \subseteq spared'
        BY <2>2, <1>9
      <3>2. CASE rows[s] = "gone"
        BY <3>1, <3>2, <2>1, <2>2, <1>7, <1>8
      <3>3. CASE rows[s] # "gone"
        BY <3>1, <3>3, <2>1, <2>2, <1>5, <1>6, <1>7
      <3>4. QED BY <3>2, <3>3
    <2>3. CASE t # s
      BY <2>1, <2>3, <1>3, <1>7, <1>8, <1>9
    <2>4. QED BY <2>2, <2>3
  <1>13. \A st \in Stores, t \in Sources : mirrored[st][t] \in 0..Never
    BY DEF KnowledgeInv, TypeOK
  <1>14. StoresAgree'
    <2>1. \A st \in Stores, t \in Sources : mirrored[st][t] = Never \/ mirrored[st][t] <= rev'[t]
      <3> SUFFICES ASSUME NEW st \in Stores, NEW t \in Sources
                   PROVE  mirrored[st][t] = Never \/ mirrored[st][t] <= rev'[t]
        OBVIOUS
      <3>1. mirrored[st][t] = Never \/ mirrored[st][t] <= rev[t]
        BY DEF KnowledgeInv, StoresAgree
      <3>2. rev[t] \in 0..Never - 1 /\ rev'[t] \in 0..Never - 1 /\ rev[t] <= rev'[t]
        BY <1>5, <1>7
      <3>3. QED BY <3>1, <3>2, <1>5, <1>13
    <2>2. QED BY <2>1, <1>1 DEF KnowledgeInv, StoresAgree, Never
  <1>15. NothingUnowned'
    BY <1>1 DEF KnowledgeInv, NothingUnowned
  <1>16. GoneStaysGone'
    <2> SUFFICES ASSUME NEW t \in Sources, rows'[t] = "gone",
                        \A g \in Handlers : ~(ops'[g].at = "cleaning" /\ ops'[g].src = t)
                 PROVE  Kept(t)' \subseteq spared'
      BY DEF GoneStaysGone, At
    <2>1. t # s
      BY <1>3
    <2>2. rows[t] = "gone" /\ \A g \in Handlers : ~(ops[g].at = "cleaning" /\ ops[g].src = t)
      BY <2>1, <1>2, <1>3
    <2>3. Kept(t) \subseteq spared
      BY <2>2 DEF KnowledgeInv, GoneStaysGone, At
    <2>4. QED BY <2>3, <1>1, <1>9 DEF Kept
  <1>17. rows[s] # "gone" => \A st \in Stores : mirrored[st][s] # rev'[s]
    <2> SUFFICES ASSUME rows[s] # "gone", NEW st \in Stores PROVE mirrored[st][s] # rev'[s]
      OBVIOUS
    <2>1. mirrored[st][s] = Never \/ mirrored[st][s] <= rev[s]
      BY <1>2 DEF KnowledgeInv, StoresAgree
    <2>2. QED BY <2>1, <1>2, <1>5, <1>6, <1>7, <1>13
  <1>18. VectorsCurrent'
    BY <1>1, <1>7, <1>8, <1>17, EmptyRows DEF KnowledgeInv, VectorsCurrent, Stores
  <1>19. GraphMirrors'
    BY <1>1, <1>7, <1>8, <1>17 DEF KnowledgeInv, GraphMirrors, Stores
  <1>20. QED
    BY <1>4, <1>10, <1>11, <1>12, <1>14, <1>15, <1>16, <1>18, <1>19 DEF KnowledgeInv

LEMMA KeptRecords ==
    ASSUME KnowledgeInv, NEW s \in Sources PROVE Kept(s) \subseteq Stores \X Sources \X Names
  <1>1. DOMAIN vectors[s] \subseteq Columns
    BY PartialRead DEF KnowledgeInv, TypeOK
  <1>2. \A n \in graph.nodes : n[2] \in Names
    BY DEF KnowledgeInv, TypeOK, Node
  <1>3. QED BY <1>1, <1>2 DEF Kept, Stores, Names

\* What a clean-up of some of the stores leaves of a source that has no rows.
LEMMA Cleared ==
    ASSUME KnowledgeInv, NEW s \in Sources, NEW failed \in SUBSET Stores, Clear(s, Stores \ failed)
    PROVE  /\ vectors' \in [Sources -> Partial(Texts \ (LongTexts \cup {"none"}))]
           /\ \A t \in Sources : t # s => vectors'[t] = vectors[t]
           /\ "vectors" \in failed \/ vectors'[s] = NoTexts
           /\ SameElsewhere(graph', graph, s)
           /\ "graph" \in failed \/ \A n \in (graph').nodes : n[1] # s
           /\ Mirrors(graph, s, Empty) => Mirrors(graph', s, Empty)
  <1>1. vectors \in [Sources -> Partial(Texts \ (LongTexts \cup {"none"}))] /\ GraphOK(graph)
    BY StoredGraph DEF KnowledgeInv, TypeOK
  <1>2. vectors' = IF "vectors" \in Stores \ failed THEN [vectors EXCEPT ![s] = NoTexts] ELSE vectors
    BY DEF Clear
  <1>3. /\ vectors' \in [Sources -> Partial(Texts \ (LongTexts \cup {"none"}))]
        /\ \A t \in Sources : t # s => vectors'[t] = vectors[t]
        /\ "vectors" \in failed \/ vectors'[s] = NoTexts
    <2>1. NoTexts \in Partial(Texts \ (LongTexts \cup {"none"}))
      BY NoTextsMade
    <2>2. QED BY <2>1, <1>1, <1>2 DEF Stores
  <1>4. CASE "graph" \in failed
    <2>1. graph' = graph
      BY <1>4 DEF Clear
    <2>2. SameElsewhere(graph', graph, s)
      BY <2>1, <1>1 DEF SameElsewhere
    <2>3. QED BY <1>3, <1>4, <2>1, <2>2
  <1>5. CASE "graph" \notin failed
    <2>1. graph' = Without(graph, s)
      BY <1>5 DEF Clear, Stores
    <2>2. /\ GraphOK(graph') /\ (graph').nodes = {n \in graph.nodes : n[1] # s}
          /\ (graph').edges = {e \in graph.edges : e.from[1] # s}
      BY <2>1, <1>1, WithoutGraph
    <2>3. SameElsewhere(graph', graph, s) /\ \A n \in (graph').nodes : n[1] # s
      BY <2>2 DEF SameElsewhere
    <2>4. Mirrors(graph', s, Empty)
      <3>1. {n \in (graph').nodes : n[1] = s} = {} /\ {e \in (graph').edges : e.from[1] = s} = {}
        BY <2>2
      <3>2. Uids(s, DOMAIN Empty.text \cup TablesOf(DOMAIN Empty.text)) = {}
        BY EmptyRows DEF Uids, TablesOf
      <3>3. \A type \in KeyTypes : Edges(s, type, Bound(Empty.keys[type], DOMAIN Empty.text)) = {}
        BY EmptyRows DEF Edges, Bound
      <3>4. QED BY <3>1, <3>2, <3>3 DEF Mirrors
    <2>5. QED BY <1>3, <2>3, <2>4
  <1>6. QED
    BY <1>4, <1>5

LEMMA CleanUpKeeps ==
    ASSUME NEW h \in Handlers PROVE KnowledgeInv /\ CleanUp(h) => KnowledgeInv'
  <1> SUFFICES ASSUME KnowledgeInv, CleanUp(h) PROVE KnowledgeInv'
    OBVIOUS
  <1> DEFINE s == ops[h].src
  <1>1. PICK failed \in SUBSET Stores :
          Clear(s, Stores \ failed) /\ spared' = spared \cup {k \in Kept(s) : k[1] \in failed}
    BY DEF CleanUp
  <1>2. /\ ops[h].at = "cleaning" /\ Finish(h) /\ rows' = rows /\ made' = made /\ rivals' = rivals
        /\ catalogue' = catalogue /\ rev' = rev /\ jobs' = jobs /\ mirrored' = mirrored
    BY DEF CleanUp, At
  <1>3. s \in Sources /\ rows[s] = "gone" /\ catalogue[s] = Empty
    BY <1>2 DEF KnowledgeInv, RowsAgree, At, RegistryInv, RegistryTypeOK
  <1>4. RegistryInv'
    BY <1>2, FinishKeeps DEF KnowledgeInv
  <1>5. ops'[h].at = "done" /\ \A g \in Handlers : g # h => ops'[g] = ops[g]
    BY <1>2, Finished DEF KnowledgeInv, RegistryInv
  <1>6. /\ vectors' \in [Sources -> Partial(Texts \ (LongTexts \cup {"none"}))]
        /\ \A t \in Sources : t # s => vectors'[t] = vectors[t]
        /\ "vectors" \in failed \/ vectors'[s] = NoTexts
        /\ SameElsewhere(graph', graph, s)
        /\ "graph" \in failed \/ \A n \in (graph').nodes : n[1] # s
        /\ Mirrors(graph, s, Empty) => Mirrors(graph', s, Empty)
    BY <1>1, <1>3, Cleared
  <1>7. GraphOK(graph')
    BY <1>6 DEF SameElsewhere
  <1>8. spared \subseteq spared' /\ spared' \subseteq Stores \X Sources \X Names
    BY <1>1, <1>3, KeptRecords DEF KnowledgeInv, TypeOK
  <1>9. TypeOK'
    BY <1>2, <1>4, <1>6, <1>7, <1>8 DEF KnowledgeInv, TypeOK, RegistryInv, InFlight, GraphOK
  <1>10. RowsAgree' /\ NothingUnowned'
    BY <1>2, <1>5, <1>7 DEF KnowledgeInv, RowsAgree, NothingUnowned, At, GraphOK
  <1>11. JobsAgree'
    <2> SUFFICES ASSUME NEW r \in Refreshes, InFlight(r)
                 PROVE  /\ rows[jobs[r].src] = "gone" => Held(jobs[r]) \subseteq spared'
                        /\ jobs[r].rev = Never \/ jobs[r].rev <= rev[jobs[r].src]
                        /\ jobs[r].rev = rev[jobs[r].src] => AsRead(jobs[r], catalogue[jobs[r].src])
      BY <1>2 DEF JobsAgree, InFlight, Never
    <2>1. QED BY <1>8 DEF KnowledgeInv, JobsAgree
  <1>12. StoresAgree'
    BY <1>2, <1>7 DEF KnowledgeInv, StoresAgree, GraphOK, Never
  <1>13. GoneStaysGone'
    <2> SUFFICES ASSUME NEW t \in Sources, rows[t] = "gone",
                        \A g \in Handlers : ~(ops'[g].at = "cleaning" /\ ops'[g].src = t)
                 PROVE  Kept(t)' \subseteq spared'
      BY <1>2 DEF GoneStaysGone, At
    <2>1. CASE t = s
      <3>1. /\ "vectors" \notin failed => DOMAIN vectors'[s] = {}
            /\ "vectors" \in failed => vectors' = vectors
        BY <1>1, <1>6 DEF Clear, NoTexts
      <3>2. /\ "graph" \notin failed => {m \in (graph').nodes : m[1] = s} = {}
            /\ "graph" \in failed => graph' = graph
        BY <1>1, <1>6 DEF Clear
      <3>3. \A c \in DOMAIN vectors'[t] : "vectors" \in failed /\ c \in DOMAIN vectors[t]
        BY <2>1, <3>1
      <3>4. \A n \in (graph').nodes : n[1] = t => "graph" \in failed /\ n \in graph.nodes
        BY <2>1, <3>2
      <3>5. Kept(t)' \subseteq {k \in Kept(t) : k[1] \in failed}
        BY <3>3, <3>4 DEF Kept
      <3>6. QED BY <2>1, <3>5, <1>1
    <2>2. CASE t # s
      <3>1. \A g \in Handlers : ~(ops[g].at = "cleaning" /\ ops[g].src = t)
        BY <2>2, <1>5
      <3>2. Kept(t) \subseteq spared
        BY <3>1 DEF KnowledgeInv, GoneStaysGone, At
      <3>3. {m \in (graph').nodes : m[1] = t} = {m \in graph.nodes : m[1] = t}
        BY <2>2, <1>6 DEF SameElsewhere
      <3>4. QED BY <3>2, <3>3, <2>2, <1>6, <1>8 DEF Kept
    <2>3. QED BY <2>1, <2>2
  <1>14. VectorsCurrent'
    BY <1>2, <1>3, <1>6, EmptyRows DEF KnowledgeInv, VectorsCurrent
  <1>15. GraphMirrors'
    <2>1. \A t \in Sources : t # s => (Mirrors(graph', t, catalogue[t]) <=> Mirrors(graph, t, catalogue[t]))
      BY <1>6, MirrorsElsewhere
    <2>2. QED BY <2>1, <1>2, <1>3, <1>6 DEF KnowledgeInv, GraphMirrors
  <1>16. QED
    BY <1>4, <1>9, <1>10, <1>11, <1>12, <1>13, <1>14, <1>15 DEF KnowledgeInv

LEMMA RestartKeeps == KnowledgeInv /\ Restart => KnowledgeInv'
  <1> SUFFICES ASSUME KnowledgeInv, Restart PROVE KnowledgeInv'
    OBVIOUS
  <1> DEFINE cut == {ops[h].src : h \in {g \in Handlers : At(g, "cleaning")}}
  <1>1. /\ jobs' = [r \in Refreshes |-> IF InFlight(r) THEN Blank("over", "none") ELSE jobs[r]]
        /\ spared' = spared \cup UNION {Kept(s) : s \in cut}
        /\ rows' = rows /\ made' = made /\ rivals' = rivals /\ catalogue' = catalogue /\ rev' = rev
        /\ vectors' = vectors /\ graph' = graph /\ mirrored' = mirrored
    BY DEF Restart
  <1>2. RegistryInv' /\ \A h \in Handlers : ~At(h, "cleaning")'
    BY RestartRegistry DEF KnowledgeInv
  <1>3. cut \subseteq Sources
    BY DEF At, KnowledgeInv, RegistryInv, RegistryTypeOK
  <1>3a. spared' \subseteq Stores \X Sources \X Names
    <2>1. \A s \in cut : Kept(s) \subseteq Stores \X Sources \X Names
      BY <1>3, KeptRecords
    <2>2. spared \subseteq Stores \X Sources \X Names
      BY DEF KnowledgeInv, TypeOK
    <2>3. QED BY <2>1, <2>2, <1>1
  <1> HIDE DEF cut
  <1>4. jobs' \in [Refreshes -> RefreshJob] /\ \A r \in Refreshes : jobs'[r].at \in {"idle", "over"}
    <2>1. \A r \in Refreshes : jobs'[r] \in RefreshJob
      BY <1>1, OverJob, JobsOK
    <2>2. Blank("over", "none").at = "over"
      BY DEF Blank
    <2>3. QED BY <1>1, <2>1, <2>2 DEF InFlight
  <1>5. TypeOK'
    BY <1>1, <1>2, <1>4, <1>3a DEF KnowledgeInv, TypeOK, RegistryInv, InFlight
  <1>6. JobsAgree'
    BY <1>4 DEF JobsAgree, InFlight
  <1>7. RowsAgree' /\ StoresAgree' /\ NothingUnowned'
    BY <1>1, <1>2 DEF KnowledgeInv, RowsAgree, StoresAgree, NothingUnowned, At
  <1>8. GoneStaysGone'
    <2> SUFFICES ASSUME NEW t \in Sources, rows[t] = "gone"
                 PROVE  Kept(t) \subseteq spared \cup UNION {Kept(s) : s \in cut}
      BY <1>1 DEF GoneStaysGone, Kept
    <2>1. CASE t \in cut
      BY <2>1
    <2>2. CASE t \notin cut
      BY <2>2 DEF KnowledgeInv, GoneStaysGone, cut
    <2>3. QED BY <2>1, <2>2
  <1>9. VectorsCurrent'
    BY <1>1 DEF KnowledgeInv, VectorsCurrent
  <1>10. GraphMirrors'
    BY <1>1 DEF KnowledgeInv, GraphMirrors
  <1>11. QED
    BY <1>2, <1>5, <1>6, <1>7, <1>8, <1>9, <1>10 DEF KnowledgeInv

(***************************************************************************)
(* The invariant                                                           *)
(***************************************************************************)
LEMMA InitEstablishes == Init => KnowledgeInv
  <1> SUFFICES ASSUME Init PROVE KnowledgeInv
    OBVIOUS
  <1>1. /\ jobs = [r \in Refreshes |-> Blank("idle", "none")]
        /\ catalogue = [s \in Sources |->
                          IF s \notin Learned THEN Empty
                          ELSE [text |-> InitialText, keys |-> [t \in KeyTypes |-> Keys]]]
        /\ rev = [s \in Sources |-> 0] /\ vectors = [s \in Sources |-> NoTexts]
        /\ graph = [nodes |-> {}, owned |-> {}, edges |-> {}]
        /\ mirrored = [st \in Stores |-> [s \in Sources |-> Never]] /\ spared = {}
    BY DEF Init
  <1>2. /\ RegistryInv /\ \A s \in Sources : rows[s] # "gone"
        /\ \A h \in Handlers : ops[h].at = "free"
    BY RegistryInitEstablishes DEF Init, RegistryInit, Free
  <1>3. MaxCommits \in Nat /\ Never = MaxCommits + 2 /\ 0 # Never /\ 0 \in 0..Never - 1 /\ Never \in 0..Never
    BY KnowledgeAssumption DEF Never
  <1>4. \A r \in Refreshes : jobs[r].at = "idle" /\ jobs[r] \in RefreshJob
    BY <1>1, <1>3, NoTextsMade DEF Blank, RefreshJob, NoKeys
  <1>5. catalogue \in [Sources -> [text: Partial(Texts), keys: [KeyTypes -> SUBSET Keys]]]
    <2>1. InitialText \in Partial(Texts)
      BY KnowledgeAssumption, PartialMade
    <2>2. QED BY <1>1, <2>1, EmptyRows
  <1>6. vectors \in [Sources -> Partial(Texts \ (LongTexts \cup {"none"}))]
    BY <1>1, NoTextsMade
  <1>7. TypeOK
    <2>1. jobs \in [Refreshes -> RefreshJob]
      BY <1>1, <1>4
    <2>2. QED BY <1>1, <1>2, <1>3, <1>4, <1>5, <1>6, <2>1 DEF TypeOK, RegistryInv, InFlight
  <1>8. RowsAgree /\ JobsAgree /\ StoresAgree
    <2>1. RowsAgree
      BY <1>1, <1>2, <1>3 DEF RowsAgree, At
    <2>2. JobsAgree
      BY <1>4 DEF JobsAgree, InFlight
    <2>3. StoresAgree
      BY <1>1 DEF StoresAgree
    <2>4. QED BY <2>1, <2>2, <2>3
  <1>9. NothingUnowned /\ GoneStaysGone
    BY <1>1, <1>2 DEF NothingUnowned, GoneStaysGone
  <1>10. VectorsCurrent /\ GraphMirrors
    BY <1>1, <1>3 DEF VectorsCurrent, GraphMirrors, Stores
  <1>11. QED
    BY <1>2, <1>7, <1>8, <1>9, <1>10 DEF KnowledgeInv

LEMMA NextKeeps == KnowledgeInv /\ [Next]_vars => KnowledgeInv'
  <1> SUFFICES ASSUME KnowledgeInv, [Next]_vars PROVE KnowledgeInv'
    OBVIOUS
  <1>1. CASE \E s \in Learned : Commit(s)
    BY <1>1, CommitKeeps
  <1>2. CASE \E s \in Learned, r \in Refreshes : Start(r, s)
    BY <1>2, StartKeeps
  <1>3. CASE /\ UNCHANGED knowledge
             /\ \/ \E s \in Sources : Create(s)
                \/ \E s \in Sources, h \in Handlers, what \in {"activate", "deactivate", "delete"} :
                     Load(h, what, s)
                \/ \E h \in Handlers : ListActive(h) \/ CommitActivate(h) \/ CommitDeactivate(h)
    BY <1>3, RegistryStepKeeps
  <1>4. CASE \E h \in Handlers : DeleteSource(h)
    BY <1>4, DeleteSourceKeeps
  <1>5. CASE \E h \in Handlers : CleanUp(h)
    BY <1>5, CleanUpKeeps
  <1>6. CASE \E r \in Refreshes : ReadFields(r)
    BY <1>6, ReadFieldsKeeps
  <1>7. CASE \E r \in Refreshes : BuildVectors(r)
    BY <1>7, BuildVectorsKeeps
  <1>8. CASE \E r \in Refreshes : ReadTables(r)
    BY <1>8, ReadTablesKeeps
  <1>9. CASE \E r \in Refreshes : ReadColumns(r)
    BY <1>9, ReadColumnsKeeps
  <1>10. CASE \E r \in Refreshes : ReadKeys(r)
    BY <1>10, ReadKeysKeeps
  <1>11. CASE \E r \in Refreshes : ReadInferred(r)
    BY <1>11, ReadInferredKeeps
  <1>12. CASE \E r \in Refreshes : RebuildGraph(r)
    BY <1>12, RebuildGraphKeeps
  <1>13. CASE \E r \in Refreshes : QueryFails(r)
    BY <1>13, QueryFailsKeeps
  <1>14. CASE Restart
    BY <1>14, RestartKeeps
  <1>15. CASE UNCHANGED vars
    <2>1. UNCHANGED registry /\ UNCHANGED knowledge
      BY <1>15 DEF vars
    <2>2. RegistryInv' /\ rows' = rows /\ ops' = ops
      BY <2>1, RegistryStutter DEF KnowledgeInv, registry
    <2>3. QED BY <2>1, <2>2, QuietStep DEF At
  <1>16. QED
    BY <1>1, <1>2, <1>3, <1>4, <1>5, <1>6, <1>7, <1>8, <1>9, <1>10, <1>11, <1>12, <1>13,
       <1>14, <1>15 DEF Next

\* The registry, what each refresh has read and what both stores hold agree in
\* every reachable state, for any number of sources, handlers and refreshes.
THEOREM KnowledgeInvariant == Spec => []KnowledgeInv
  <1>1. QED BY InitEstablishes, NextKeeps, PTL DEF Spec

\* Rows, handlers, refreshes and stores only ever hold values of their kinds;
\* no text over Milvus's limit, and no blank one, is ever stored.
THEOREM TypeCorrect == Spec => []TypeOK
  <1>1. KnowledgeInv => TypeOK
    BY DEF KnowledgeInv
  <1>2. QED BY <1>1, KnowledgeInvariant, PTL

\* Two active sources were made so by two activations that were at work at the
\* same time, whatever else went on in between (activate_data_source).
THEOREM ActiveTogether == Spec => []OnlyRivalsActive
  <1>1. KnowledgeInv => OnlyRivalsActive
    BY DEF KnowledgeInv, RegistryInv
  <1>2. QED BY <1>1, KnowledgeInvariant, PTL

\* A complete vector build leaves every described column under its description,
\* until the rows change (build_field_vectors).
THEOREM VectorsUpToDate == Spec => []VectorsCurrent
  <1>1. KnowledgeInv => VectorsCurrent
    BY DEF KnowledgeInv
  <1>2. QED BY <1>1, KnowledgeInvariant, PTL

\* A complete rebuild leaves exactly the rows in the graph, until they change
\* (build_graph, rebuild).
THEOREM GraphUpToDate == Spec => []GraphMirrors
  <1>1. KnowledgeInv => GraphMirrors
    BY DEF KnowledgeInv
  <1>2. QED BY <1>1, KnowledgeInvariant, PTL

\* At whichever transaction a rebuild stops, the clean-up finds every node
\* (rebuild, delete_by_data_source).
THEOREM EveryNodeOwned == Spec => []NothingUnowned
  <1>1. KnowledgeInv => NothingUnowned
    BY DEF KnowledgeInv
  <1>2. QED BY <1>1, KnowledgeInvariant, PTL

\* After its clean-up, all that is left of a deleted source is what a failing
\* store, a restart in the clean-up or a refresh that had already read it spared,
\* record by record (cleanup_knowledge_base, refresh_knowledge_base).
THEOREM OnlySparedLeft == Spec => []GoneStaysGone
  <1>1. KnowledgeInv => GoneStaysGone
    BY DEF KnowledgeInv
  <1>2. QED BY <1>1, KnowledgeInvariant, PTL
=============================================================================
