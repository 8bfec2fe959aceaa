----------------------------- MODULE Knowledge ------------------------------
(***************************************************************************)
(* The knowledge base of src/src/knowledge: field vectors in Milvus and a  *)
(* graph of tables, columns and foreign keys in Neo4j, both derived from   *)
(* the catalogue rows of the application database.  A learning run         *)
(* refreshes them when it is over; deleting a data source cleans them up.  *)
(*                                                                         *)
(* The application database is read with await, one statement at a time,   *)
(* each seeing what is committed when it is answered.  The stores are      *)
(* called synchronously, so within this process a build or a clean-up is   *)
(* one step; it may fail between any two of its transactions.              *)
(*                                                                         *)
(* Nodes are named by source and name, as table_uid and column_uid do.     *)
(***************************************************************************)
EXTENDS Registry

CONSTANTS Learned,    \* bound: the sources that have columns and are learned
          Refreshes,  \* bound: the refreshes, one per learning run
          Columns, Tables,
          TableOf,    \* [Columns -> Tables]
          Texts,      \* descriptions
          LongTexts,  \* those over the 500 bytes of description_text
          Keys,       \* pairs of columns a foreign key can name
          InitialText, \* [Columns -> Texts], the descriptions at first
          MaxCommits  \* bound: changes of each source's rows

ASSUME KnowledgeAssumption ==
    /\ Learned \subseteq Sources
    /\ TableOf \in [Columns -> Tables]
    /\ LongTexts \subseteq Texts
    /\ Keys \subseteq Columns \X Columns
    /\ Columns \cap Tables = {}
    /\ InitialText \in [Columns -> Texts] /\ MaxCommits \in Nat

VARIABLES catalogue, \* the rows of each source: columns, declared and inferred keys
          rev,       \* history: how often they changed
          jobs,      \* the refreshes at work, with what each has read
          vectors,   \* column -> description_text, per source
          graph,     \* nodes, those that carry data_source_id, edges
          mirrored,  \* history: the rev the last complete build of a store had read
          spared     \* history: records a deletion could not be rid of, with their store

knowledge == <<catalogue, rev, jobs, vectors, graph, mirrored, spared>>
vars == <<registry, knowledge>>

Stores == {"vectors", "graph"}
Names == Columns \cup Tables
KeyTypes == {"REFERENCES", "INFERRED_REF"}
\* A source's rows change MaxCommits times at most, and once more when it goes.
Never == MaxCommits + 2

NoKeys == [t \in KeyTypes |-> {}]
NoTexts == [c \in {} |-> "none"]
\* A refresh that has nothing in hand.
Blank(stage, s) == [at |-> stage, src |-> s, items |-> NoTexts, rev |-> Never,
                    tables |-> {}, columns |-> {}, keys |-> NoKeys]
Empty == [text |-> NoTexts, keys |-> NoKeys]

\* The rows of a source have a description, or "none", for each of its columns.
Has(s) == DOMAIN catalogue[s].text
Covered(text) == {c \in DOMAIN text : text[c] # "none"}

Descriptions(text) == [c \in Covered(text) |-> text[c]]
TablesOf(cs) == {TableOf[c] : c \in cs}

(***************************************************************************)
(* The graph store: MERGE finds a node by its uid or creates it bare; only *)
(* the table and column statements set data_source_id.                     *)
(***************************************************************************)
Uids(s, names) == {s} \X names

Without(g, s) ==
    LET doomed == {n \in g.owned : n[1] = s}
    IN [nodes |-> g.nodes \ doomed,
        owned |-> g.owned \ doomed,
        edges |-> {e \in g.edges : e.from \notin doomed /\ e.to \notin doomed}]

MergeOwned(g, s, names) ==
    [g EXCEPT !.nodes = @ \cup Uids(s, names), !.owned = @ \cup Uids(s, names)]

Edges(s, type, pairs) ==
    {[type |-> type, from |-> <<s, p[1]>>, to |-> <<s, p[2]>>] : p \in pairs}

MergeKeys(g, s, type, pairs) ==
    [g EXCEPT !.nodes = @ \cup Uids(s, {p[1] : p \in pairs} \cup {p[2] : p \in pairs}),
              !.edges = @ \cup Edges(s, type, pairs)]

\* Mutant: an edge is kept when one of its ends is a column read.
HalfBound(pairs, cols) == {p \in pairs : p[1] \in cols \/ p[2] \in cols}

\* Only edges between two columns that were read.
Bound(pairs, cols) == {p \in pairs : p[1] \in cols /\ p[2] \in cols}

\* Mutant: the source's old subgraph is merged into.
RebuildOver(g, s, j) ==
    LET g2 == MergeOwned(g, s, j.tables)
        g3 == MergeOwned(g2, s, j.columns)
        g4 == MergeKeys(g3, s, "REFERENCES", Bound(j.keys["REFERENCES"], j.columns))
    IN <<g, g2, g3, g4, MergeKeys(g4, s, "INFERRED_REF", Bound(j.keys["INFERRED_REF"], j.columns))>>

\* The graph after each of the five transactions of rebuild.
Rebuild(g, s, j) ==
    LET g1 == Without(g, s)
        g2 == MergeOwned(g1, s, j.tables)
        g3 == MergeOwned(g2, s, j.columns)
        g4 == MergeKeys(g3, s, "REFERENCES", Bound(j.keys["REFERENCES"], j.columns))
    IN <<g1, g2, g3, g4, MergeKeys(g4, s, "INFERRED_REF", Bound(j.keys["INFERRED_REF"], j.columns))>>

Init ==
    /\ RegistryInit
    /\ \A s \in Sources : s \in Learned <=> rows[s] \in Present
    /\ catalogue = [s \in Sources |->
                      IF s \notin Learned THEN Empty
                      ELSE [text |-> InitialText,
                            keys |-> [t \in KeyTypes |-> Keys]]]
    /\ rev = [s \in Sources |-> 0]
    /\ jobs = [r \in Refreshes |-> Blank("idle", "none")]
    /\ vectors = [s \in Sources |-> NoTexts]
    /\ graph = [nodes |-> {}, owned |-> {}, edges |-> {}]
    /\ mirrored = [st \in Stores |-> [s \in Sources |-> Never]]
    /\ spared = {}

(***************************************************************************)
(* The catalogue under the refreshes: a sync, an extraction or a learning  *)
(* run commits a description, the loss of a column, or a change of keys.   *)
(***************************************************************************)
Describe(s) ==
    \E c \in Has(s), x \in Texts \ {"none"} :
        /\ catalogue[s].text[c] # x
        /\ catalogue' = [catalogue EXCEPT ![s].text[c] = x]

DropColumn(s) ==
    \E c \in Has(s) :
        catalogue' = [catalogue EXCEPT ![s].text = [d \in Has(s) \ {c} |-> @[d]]]

ChangeKeys(s) ==
    \E t \in KeyTypes, p \in Keys :
        catalogue' = [catalogue EXCEPT ![s].keys[t] = IF p \in @ THEN @ \ {p} ELSE @ \cup {p}]

Commit(s) ==
    /\ rows[s] \in Present
    /\ rev[s] < MaxCommits
    /\ Describe(s) \/ DropColumn(s) \/ ChangeKeys(s)
    /\ rev' = [rev EXCEPT ![s] = @ + 1]
    /\ UNCHANGED <<registry, jobs, vectors, graph, mirrored, spared>>

(***************************************************************************)
(* One refresh                                                             *)
(***************************************************************************)
Job(r, stage) == jobs[r].at = stage
InFlight(r) == jobs[r].at \notin {"idle", "over"}

\* The records a refresh still has to write, and those the stores have of s.
Held(j) == ({"vectors"} \X {j.src} \X DOMAIN j.items)
           \cup ({"graph"} \X {j.src} \X (j.tables \cup j.columns))
Kept(s) == ({"vectors"} \X {s} \X DOMAIN vectors[s])
           \cup ({"graph"} \X {s} \X {n[2] : n \in {m \in graph.nodes : m[1] = s}})

Reading == {"fields", "tables", "columns", "keys", "inferred"}

OnlyJobs == UNCHANGED <<registry, catalogue, rev, vectors, graph, mirrored, spared>>

\* The source is looked up first: one that is gone or not active is left alone.
Start(r, s) ==
    /\ Job(r, "idle")
    /\ rows[s] = "active"
    /\ jobs' = [jobs EXCEPT ![r] = Blank("fields", s)]
    /\ OnlyJobs

\* collect_covered_fields
ReadFields(r) ==
    /\ Job(r, "fields")
    /\ jobs' = [jobs EXCEPT ![r].at = "vectors",
                            ![r].items = Descriptions(catalogue[jobs[r].src].text),
                            ![r].rev = rev[jobs[r].src]]
    /\ OnlyJobs

\* Mutant: a column that has a vector is not looked at again.
PlanMissing(items, stored) == {c \in DOMAIN items : c \notin DOMAIN stored}

\* compute_upsert_plan
Plan(items, stored) ==
    {c \in DOMAIN items : c \notin DOMAIN stored \/ stored[c] # items[c]}

\* Either all of the plan is upserted or nothing is: the stores may be out of
\* reach, and one over-long text is refused with all the others.
BuildVectors(r) ==
    LET s == jobs[r].src
        items == jobs[r].items
        plan == Plan(items, vectors[s])
    IN /\ Job(r, "vectors")
       /\ jobs' = [jobs EXCEPT ![r] = Blank("tables", s)]
       /\ \/ UNCHANGED <<vectors, mirrored>>
          \/ /\ \A c \in plan : items[c] \notin LongTexts
             /\ vectors' = [vectors EXCEPT ![s] =
                              [c \in DOMAIN @ \cup plan |-> IF c \in plan THEN items[c] ELSE @[c]]]
             /\ mirrored' = [mirrored EXCEPT !["vectors"][s] = jobs[r].rev]
       /\ UNCHANGED <<registry, catalogue, rev, graph, spared>>

\* The four reads of build_graph.
ReadTables(r) ==
    /\ Job(r, "tables")
    /\ jobs' = [jobs EXCEPT ![r].at = "columns",
                            ![r].tables = TablesOf(Has(jobs[r].src)),
                            ![r].rev = rev[jobs[r].src]]
    /\ OnlyJobs

ReadColumns(r) ==
    /\ Job(r, "columns")
    /\ jobs' = [jobs EXCEPT ![r].at = "keys",
                            ![r].columns = {c \in Has(jobs[r].src) : TableOf[c] \in jobs[r].tables}]
    /\ OnlyJobs

\* A declared key belongs to a table row, and goes with it.
ReadKeys(r) ==
    /\ Job(r, "keys")
    /\ jobs' = [jobs EXCEPT ![r].at = "inferred",
                            ![r].keys["REFERENCES"] =
                               {p \in catalogue[jobs[r].src].keys["REFERENCES"] :
                                  TableOf[p[1]] \in jobs[r].tables \cap TablesOf(Has(jobs[r].src))}]
    /\ OnlyJobs

ReadInferred(r) ==
    /\ Job(r, "inferred")
    /\ jobs' = [jobs EXCEPT ![r].at = "rebuild",
                            ![r].keys["INFERRED_REF"] = catalogue[jobs[r].src].keys["INFERRED_REF"]]
    /\ OnlyJobs

QueryFails(r) ==
    /\ jobs[r].at \in Reading
    /\ jobs' = [jobs EXCEPT ![r] = Blank("over", "none")]
    /\ OnlyJobs

RebuildGraph(r) ==
    LET s == jobs[r].src
        stages == Rebuild(graph, s, jobs[r])
    IN /\ Job(r, "rebuild")
       /\ jobs' = [jobs EXCEPT ![r] = Blank("over", "none")]
       /\ \/ UNCHANGED <<graph, mirrored>>
          \/ \E k \in 1..5 :
               /\ graph' = stages[k]
               /\ mirrored' = [mirrored EXCEPT !["graph"][s] = IF k = 5 THEN jobs[r].rev ELSE Never]
       /\ UNCHANGED <<registry, catalogue, rev, vectors, spared>>

(***************************************************************************)
(* Deletion                                                                *)
(***************************************************************************)
\* The rows go by cascade.  A refresh under way writes what it has read.
DeleteSource(h) ==
    LET s == ops[h].src
    IN /\ DeleteRow(h)
       /\ catalogue' = [catalogue EXCEPT ![s] = Empty]
       /\ rev' = [rev EXCEPT ![s] = IF rows[s] = "gone" THEN @ ELSE @ + 1]
       /\ spared' = spared \cup UNION {Held(jobs[r]) : r \in {q \in Refreshes : jobs[q].src = s}}
       /\ UNCHANGED <<jobs, vectors, graph, mirrored>>

Clear(s, stores) ==
    /\ vectors' = IF "vectors" \in stores THEN [vectors EXCEPT ![s] = NoTexts] ELSE vectors
    /\ graph' = IF "graph" \in stores THEN Without(graph, s) ELSE graph

\* Mutant: a clean-up of the vectors that fails ends the clean-up.
CleanUpInOneTry(h) ==
    LET s == ops[h].src
    IN /\ At(h, "cleaning")
       /\ \E failed \in SUBSET Stores :
            /\ Clear(s, IF "vectors" \in failed THEN {} ELSE Stores \ failed)
            /\ spared' = spared \cup {k \in Kept(s) : k[1] \in failed}
       /\ Finish(h)
       /\ UNCHANGED <<rows, made, rivals, catalogue, rev, jobs, mirrored>>

\* cleanup_knowledge_base: each store in a try of its own.  Constructing
\* VectorStore() connects, and when that fails no store is cleaned.
CleanUp(h) ==
    LET s == ops[h].src
    IN /\ At(h, "cleaning")
       /\ \E failed \in SUBSET Stores :
            /\ Clear(s, Stores \ failed)
            /\ spared' = spared \cup {k \in Kept(s) : k[1] \in failed}
       /\ Finish(h)
       /\ UNCHANGED <<rows, made, rivals, catalogue, rev, jobs, mirrored>>

\* The process ends: coroutines are lost, databases are not.
Restart ==
    /\ (\E h \in Handlers : ops[h].at \notin {"free", "done"}) \/ (\E r \in Refreshes : InFlight(r))
    /\ ops' = [h \in Handlers |-> IF At(h, "free") THEN Free ELSE [Free EXCEPT !.at = "done"]]
    /\ jobs' = [r \in Refreshes |-> IF InFlight(r) THEN Blank("over", "none") ELSE jobs[r]]
    /\ spared' = spared \cup UNION {Kept(s) : s \in {ops[h].src : h \in {g \in Handlers : At(g, "cleaning")}}}
    /\ UNCHANGED <<rows, made, rivals, catalogue, rev, vectors, graph, mirrored>>

Next ==
    \/ \E s \in Learned : Commit(s) \/ \E r \in Refreshes : Start(r, s)
    \/ \E s \in Sources :
         \/ Create(s) /\ UNCHANGED knowledge
         \/ \E h \in Handlers, what \in {"activate", "deactivate", "delete"} :
              Load(h, what, s) /\ UNCHANGED knowledge
    \/ \E h \in Handlers :
         \/ ListActive(h) /\ UNCHANGED knowledge
         \/ CommitActivate(h) /\ UNCHANGED knowledge
         \/ CommitDeactivate(h) /\ UNCHANGED knowledge
         \/ DeleteSource(h)
         \/ CleanUp(h)
    \/ \E r \in Refreshes :
         \/ ReadFields(r) \/ BuildVectors(r)
         \/ ReadTables(r) \/ ReadColumns(r) \/ ReadKeys(r) \/ ReadInferred(r)
         \/ RebuildGraph(r) \/ QueryFails(r)
    \/ Restart

Spec == Init /\ [][Next]_vars

(***************************************************************************)
(* Properties                                                              *)
(***************************************************************************)
Node == Sources \X Names
Edge == [type: KeyTypes, from: Node, to: Node]

\* The texts of some of the columns.
Partial(T) == UNION {[D -> T] : D \in SUBSET Columns}

RefreshJob == [at: Reading \cup {"idle", "vectors", "rebuild", "over"},
             src: Sources \cup {"none"},
             items: Partial(Texts \ {"none"}), rev: 0..Never,
             tables: SUBSET Tables, columns: SUBSET Columns,
             keys: [KeyTypes -> SUBSET Keys]]

TypeOK ==
    /\ RegistryTypeOK
    /\ catalogue \in [Sources -> [text: Partial(Texts), keys: [KeyTypes -> SUBSET Keys]]]
    /\ rev \in [Sources -> 0..Never - 1]
    /\ jobs \in [Refreshes -> RefreshJob]
    /\ \A r \in Refreshes : InFlight(r) => jobs[r].src \in Sources
    /\ vectors \in [Sources -> Partial(Texts \ (LongTexts \cup {"none"}))]
    /\ graph \in [nodes: SUBSET Node, owned: SUBSET Node, edges: SUBSET Edge]
    /\ mirrored \in [Stores -> [Sources -> 0..Never]]
    /\ spared \subseteq Stores \X Sources \X Names

\* When the rows of a source are still the ones its last complete vector build
\* had read, every described column is found under its present description
\* (build_field_vectors upserts what differs, and nothing else is written).
VectorsCurrent ==
    \A s \in Sources : mirrored["vectors"][s] = rev[s] =>
        \A c \in Covered(catalogue[s].text) : /\ c \in DOMAIN vectors[s]
                                                /\ vectors[s][c] = catalogue[s].text[c]

\* The graph holds of s the tables, columns and keys in found, no more, no less.
Mirrors(g, s, found) ==
    LET has == DOMAIN found.text
    IN /\ {n \in g.nodes : n[1] = s} = Uids(s, has \cup TablesOf(has))
       /\ {e \in g.edges : e.from[1] = s} =
            UNION {Edges(s, type, Bound(found.keys[type], has)) : type \in KeyTypes}

\* And when they are the ones its last complete rebuild began to read, the
\* graph holds exactly the source's rows (build_graph reads in four statements,
\* rebuild writes in five).
GraphMirrors ==
    \A s \in Sources : mirrored["graph"][s] = rev[s] => Mirrors(graph, s, catalogue[s])

\* No node is without data_source_id, at whichever point of a rebuild a store
\* failed: delete_by_data_source would never find it.
NothingUnowned == graph.nodes = graph.owned

\* Of a deleted source, once its clean-up is over, the stores have nothing but
\* records one of three things has spared: the store could not be cleaned while
\* it had them, a restart cut the clean-up short, or a refresh had already read
\* them when the rows went.  Nothing is read anew, a store that can be cleaned is
\* cleaned whatever happens to the other, and a clean-up once done is not undone.
GoneStaysGone ==
    \A s \in Sources :
        rows[s] = "gone" /\ (\A h \in Handlers : ~(At(h, "cleaning") /\ ops[h].src = s)) =>
            Kept(s) \subseteq spared

(***************************************************************************)
(* The inductive invariant                                                 *)
(***************************************************************************)
\* A source that is gone has no rows, and its row is gone before the clean-up.
RowsAgree ==
    /\ \A h \in Handlers : At(h, "cleaning") => rows[ops[h].src] = "gone"
    /\ \A s \in Sources : IF rows[s] = "gone" THEN catalogue[s] = Empty
                                             ELSE rev[s] <= MaxCommits

\* What a refresh has read is what the rows said.
AsRead(j, found) ==
    LET has == DOMAIN found.text
    IN /\ j.at = "vectors" => j.items = Descriptions(found.text)
       /\ j.at \in {"columns", "keys", "inferred", "rebuild"} => j.tables = TablesOf(has)
       /\ j.at \in {"keys", "inferred", "rebuild"} => j.columns = has
       /\ j.at \in {"inferred", "rebuild"} =>
            Bound(j.keys["REFERENCES"], has) = Bound(found.keys["REFERENCES"], has)
       /\ j.at = "rebuild" => j.keys["INFERRED_REF"] = found.keys["INFERRED_REF"]

\* It still is while the rows have not changed; and of a source that is gone a
\* refresh has nothing to write that was not spared.
JobsAgree ==
    \A r \in Refreshes : InFlight(r) =>
        LET s == jobs[r].src
        IN /\ rows[s] = "gone" => Held(jobs[r]) \subseteq spared
           /\ jobs[r].rev = Never \/ jobs[r].rev <= rev[s]
           /\ jobs[r].rev = rev[s] => AsRead(jobs[r], catalogue[s])

\* No store has seen rows that are still to come, and an edge joins two nodes
\* there are, of one source.
StoresAgree ==
    /\ \A st \in Stores, s \in Sources : mirrored[st][s] = Never \/ mirrored[st][s] <= rev[s]
    /\ \A e \in graph.edges :
         e.from \in graph.nodes /\ e.to \in graph.nodes /\ e.from[1] = e.to[1]

KnowledgeInv ==
    /\ RegistryInv /\ TypeOK /\ RowsAgree /\ JobsAgree /\ StoresAgree
    /\ NothingUnowned /\ GoneStaysGone /\ VectorsCurrent /\ GraphMirrors
=============================================================================
