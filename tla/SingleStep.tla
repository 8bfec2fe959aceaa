----------------------------- MODULE SingleStep -----------------------------
(***************************************************************************)
(* run_single_step of src/src/pipeline/single_step.py with the semantic    *)
(* matcher, the enum normaliser, the SQL generator and the validator it    *)
(* calls: one question on its way to an answer, as the pipeline task of    *)
(* the gateway (QueryStream) runs it.  Every prompt passes one counter;    *)
(* past max_llm_calls a prompt is refused, and each caller treats the      *)
(* refusal as a failed prompt.                                             *)
(*                                                                         *)
(* A statement is its place in the conversation with the model, "first" or *)
(* "second"; whether validate_sql passes it, refuses it or raises over it  *)
(* (the number of its LIMIT is converted outside its try) is the model's   *)
(* choice.                                                                 *)
(***************************************************************************)
EXTENDS Naturals, Sequences

CONSTANTS MaxLlmCalls,  \* max_llm_calls
          MaxFields     \* bound: the columns one question can match

ASSUME BudgetAssumption == MaxLlmCalls \in Nat /\ MaxFields \in Nat

VARIABLES pc,         \* the stage
          llmCalls,   \* llm_calls
          refused,    \* history: a prompt was refused by the counter
          matched,    \* how many columns the question matched
          todo,       \* those whose value is still to be normalised
          unsure,     \* need_confirm_list is not empty
          sql,        \* sql
          safe,       \* the statements validate_sql passes
          faulty,     \* those it refuses; it raises over any other
          ran,        \* history: the statement the data source was sent
          progress,   \* the phases the client was told
          answer      \* what run_single_step returned

budget == <<llmCalls, refused>>
doubts == <<matched, todo, unsure>>
statement == <<sql, safe, faulty>>
vars == <<pc, budget, doubts, statement, ran, progress, answer>>

None == [kind |-> "none", sql |-> "none", confirm |-> FALSE]

Goto(to) == pc' = to /\ UNCHANGED answer
Tell(phases) == progress' = progress \o phases

\* Only an answer or a request for confirmation carries need_confirm_list.
End(kind, shown) ==
    /\ pc' = "done"
    /\ answer' = [kind |-> kind, sql |-> shown,
                  confirm |-> unsure /\ kind \in {"confirm", "result"}]

Granted == llmCalls < MaxLlmCalls
Ask ==
    /\ llmCalls' = IF Granted THEN llmCalls + 1 ELSE llmCalls
    /\ refused' = (refused \/ ~Granted)

Init ==
    /\ pc = "source"
    /\ llmCalls = 0 /\ refused = FALSE
    /\ matched = 0 /\ todo = 0 /\ unsure = FALSE
    /\ sql = "none" /\ safe = {} /\ faulty = {}
    /\ ran = "none"
    /\ progress = <<>>
    /\ answer = None

\* No data source of that id, or none active.
FindSource ==
    /\ pc = "source"
    /\ Goto("words") \/ End("no_source", "none")
    /\ UNCHANGED <<budget, doubts, statement, ran, progress>>

----------------------------------------------------------------------------
(* Semantic matching: hot words and industry terms, vectors, the model.    *)

Matched(n, doubt) ==
    /\ matched' = n /\ todo' = n
    /\ unsure' = doubt
    /\ Tell(<<"semantic", "normalize">>)
    /\ Goto("normalise")

\* A hot word may stand for a formula and name no column.
MatchWords ==
    /\ pc = "words"
    /\ \/ \E n \in 0..MaxFields : Matched(n, FALSE)
       \/ Goto("vectors") /\ UNCHANGED <<doubts, progress>>
    /\ UNCHANGED <<budget, statement, ran>>

\* The best three; a failed search finds nothing.
SearchVectors ==
    /\ pc = "vectors"
    /\ \/ \E n \in (1..3) \intersect (0..MaxFields) : Matched(n, FALSE)
       \/ Goto("fallback") /\ UNCHANGED <<doubts, progress>>
    /\ UNCHANGED <<budget, statement, ran>>

AskForFields ==
    /\ pc = "fallback"
    /\ Ask
    /\ \/ Granted /\ \E n \in 1..MaxFields, doubt \in BOOLEAN : Matched(n, doubt)
       \/ End("no_match", "none") /\ UNCHANGED <<doubts, progress>>
    /\ UNCHANGED <<statement, ran>>

----------------------------------------------------------------------------
(* Values.                                                                 *)

\* The enum dictionary answers without a prompt, and a failure of it is
\* swallowed; otherwise the model is asked, for columns without a dictionary too.
NormaliseColumn ==
    /\ pc = "normalise" /\ todo > 0
    /\ todo' = todo - 1
    /\ \/ UNCHANGED <<budget, unsure>>
       \/ Ask /\ \E doubt \in BOOLEAN : unsure' = (unsure \/ doubt)
    /\ UNCHANGED <<pc, matched, statement, ran, progress, answer>>

DetectQuantifier ==
    /\ pc = "normalise" /\ todo = 0
    /\ \E doubt \in BOOLEAN : unsure' = (unsure \/ doubt)
    /\ Tell(<<"generate">>)
    /\ Goto("generate")
    /\ UNCHANGED <<matched, todo, budget, statement, ran>>

----------------------------------------------------------------------------
(* The statement.                                                          *)

\* The verdict on a new statement, if there is one.
Proposed(s) ==
    \/ safe' = safe \union {s} /\ UNCHANGED faulty
    \/ faulty' = faulty \union {s} /\ UNCHANGED safe
    \/ UNCHANGED <<safe, faulty>>

\* The model may return no SELECT; an exception counts as that.
Generate ==
    /\ pc = "generate"
    /\ Ask
    /\ \/ /\ Granted
          /\ sql' = "first" /\ Proposed("first")
          /\ Tell(<<"sql">>)
          /\ Goto("check")
       \/ /\ Goto("gate")
          /\ UNCHANGED <<statement, progress>>
    /\ UNCHANGED <<doubts, ran>>

\* Mutant: "security" is announced before the verdict.
CheckLate ==
    /\ pc = "check"
    /\ Tell(<<"security">>)
    /\ Goto(IF sql \in faulty THEN "regenerate" ELSE "gate")
    /\ UNCHANGED <<budget, doubts, statement, ran>>

\* The handler around validate_sql passes over what it raises: without a
\* verdict the statement is announced and goes on as if it had passed.
Check ==
    /\ pc = "check"
    /\ \/ sql \notin faulty /\ Tell(<<"security">>) /\ Goto("gate")
       \/ sql \in faulty /\ Goto("regenerate") /\ UNCHANGED progress
    /\ UNCHANGED <<budget, doubts, statement, ran>>

\* The reason goes back to the model, once.
Regenerate ==
    /\ pc = "regenerate"
    /\ Ask
    /\ \/ Granted /\ Proposed("second") /\ Goto("recheck")
       \/ End("rejected", sql) /\ UNCHANGED <<safe, faulty>>
    /\ UNCHANGED <<doubts, sql, ran, progress>>

\* Mutant: the second statement is taken on trust.
RecheckTrusting ==
    /\ pc = "recheck"
    /\ sql' = "second" /\ Tell(<<"security">>) /\ Goto("gate")
    /\ UNCHANGED <<budget, doubts, safe, faulty, ran>>

\* Mutant: the model is asked again until a statement passes.
RecheckAgain ==
    /\ pc = "recheck"
    /\ \/ "second" \in safe /\ sql' = "second" /\ Tell(<<"security">>) /\ Goto("gate")
       \/ "second" \notin safe /\ Goto("regenerate") /\ UNCHANGED <<sql, progress>>
    /\ UNCHANGED <<budget, doubts, safe, faulty, ran>>

\* Here an exception is a rejection.
Recheck ==
    /\ pc = "recheck"
    /\ \/ "second" \in safe /\ sql' = "second" /\ Tell(<<"security">>) /\ Goto("gate")
       \/ "second" \notin safe /\ End("rejected", sql) /\ UNCHANGED <<sql, progress>>
    /\ UNCHANGED <<budget, doubts, safe, faulty, ran>>

\* Mutant: the gate forgets the items that wait for a confirmation.
GateBlind ==
    /\ pc = "gate"
    /\ \/ sql = "none" /\ End("no_sql", "none")
       \/ sql # "none" /\ Goto("execute")
    /\ UNCHANGED <<budget, doubts, statement, ran, progress>>

\* Open items block a query without a statement only.
Gate ==
    /\ pc = "gate"
    /\ \/ sql = "none" /\ unsure /\ End("confirm", "none")
       \/ sql = "none" /\ ~unsure /\ End("no_sql", "none")
       \/ sql # "none" /\ Goto("execute")
    /\ UNCHANGED <<budget, doubts, statement, ran, progress>>

----------------------------------------------------------------------------
\* Sets of at most fifty rows, but not empty ones, are summarised.
Execute ==
    /\ pc = "execute"
    /\ ran' = sql
    /\ \/ End("exec_error", sql) /\ UNCHANGED progress
       \/ Tell(<<"execute">>) /\ (Goto("summarise") \/ End("result", sql))
    /\ UNCHANGED <<budget, doubts, statement>>

\* Without the model's sentence the summary is the number of rows.
Summarise ==
    /\ pc = "summarise"
    /\ Ask
    /\ End("result", sql)
    /\ UNCHANGED <<doubts, statement, ran, progress>>

Next ==
    \/ FindSource \/ MatchWords \/ SearchVectors \/ AskForFields
    \/ NormaliseColumn \/ DetectQuantifier
    \/ Generate \/ Check \/ Regenerate \/ Recheck \/ Gate
    \/ Execute \/ Summarise

Spec == Init /\ [][Next]_vars

----------------------------------------------------------------------------
Statements == {"first", "second"}
Phases == {"semantic", "normalize", "generate", "sql", "security", "execute"}
Kinds == {"none", "no_source", "no_match", "no_sql", "confirm", "rejected",
          "exec_error", "result"}
Answers == [kind : Kinds, sql : {"none"} \union Statements, confirm : BOOLEAN]
BeforeStatement == {"source", "words", "vectors", "fallback", "normalise", "generate"}
BeforeVerdict == BeforeStatement \union {"check", "regenerate", "recheck"}

TypeOK ==
    /\ pc \in BeforeVerdict \union {"gate", "execute", "summarise", "done"}
    /\ llmCalls \in 0..MaxLlmCalls
    /\ refused \in BOOLEAN /\ unsure \in BOOLEAN
    /\ matched \in 0..MaxFields /\ todo \in 0..MaxFields
    /\ sql \in {"none"} \union Statements
    /\ safe \in SUBSET Statements /\ faulty \in SUBSET Statements
    /\ ran \in {"none"} \union Statements
    /\ progress \in Seq(Phases)
    /\ answer \in Answers

\* What can be sent: what passed, and a first statement without a verdict.
Admitted(s) == s \in safe \/ (s = "first" /\ s \notin faulty)

\* A statement validate_sql refused is never sent to the data source, and a
\* regenerated one only if it has itself passed: what runs without a verdict is a
\* first statement, over which validate_sql raised.
NoRefusedRuns == ran # "none" => ran \notin faulty /\ Admitted(ran)

\* An answer tells of the statement that ran and of no other; a rejection shows
\* one that did fail and did not run; doubts are never dropped for a bare
\* "SQL generation failed".
AnswerHonest ==
    /\ answer.kind \in {"result", "exec_error"} => ran # "none" /\ answer.sql = ran
    /\ answer.kind = "result" => answer.confirm = unsure
    /\ answer.kind = "rejected" => ran = "none" /\ answer.sql \in faulty
    /\ answer.kind \in {"no_source", "no_match", "no_sql", "confirm"} =>
          ran = "none" /\ answer.sql = "none"
    /\ answer.kind = "no_sql" => ~unsure
    /\ answer.kind = "confirm" => answer.confirm

Told(phase) == \E i \in 1..Len(progress) : progress[i] = phase

\* "security" is announced before a statement is sent, never of one that was
\* refused or is rejected, and of a regenerated one only if that passed; "execute"
\* only once the rows are there.  Of a first statement over which validate_sql
\* raised the client is told that it passed (Check).
ProgressTruthful ==
    /\ Told("security") => sql \notin faulty /\ Admitted(sql) /\ answer.kind # "rejected"
    /\ \A i \in 1..Len(progress) : progress[i] = "execute" =>
          ran # "none" /\ \E j \in 1..(i - 1) : progress[j] = "security"

\* The parts of the inductive invariant: what each stage can rely on.
StageAgrees ==
    /\ safe \intersect faulty = {}
    /\ pc # "done" => answer = None
    /\ pc \in BeforeStatement => sql = "none" /\ safe = {} /\ faulty = {}
    /\ pc \in BeforeVerdict \union {"gate", "execute"} => ran = "none"
    /\ pc \in {"check", "regenerate", "recheck"} => sql = "first"
    /\ pc \in {"check", "regenerate"} => "second" \notin safe \union faulty
    /\ pc \in {"regenerate", "recheck"} => "first" \in faulty
    /\ pc = "gate" => sql = "none" \/ Admitted(sql)
    /\ pc \in {"execute", "summarise"} => Admitted(sql)
    /\ pc = "summarise" => ran = sql

ToldInTime ==
    /\ pc \in BeforeVerdict => ~Told("security")
    /\ pc \in BeforeVerdict \union {"gate", "execute"} => ~Told("execute")
    /\ pc \in {"gate", "execute"} => (Told("security") <=> sql # "none")

StepInv == TypeOK /\ StageAgrees /\ ToldInTime /\ NoRefusedRuns /\ AnswerHonest /\ ProgressTruthful

\* The shared counter refuses a prompt only to a question that matched about as
\* many columns as it may ask prompts: the matcher spends at most one, the
\* normaliser one a column, and the statement two (_llm_call).
SmallQuestionsSpared ==
    refused =>
        /\ MaxLlmCalls <= matched + 3
        /\ answer.kind = "no_sql" => MaxLlmCalls <= matched + 1
        /\ answer.kind = "rejected" => MaxLlmCalls <= matched + 2

\* What the stages behind each can have spent, for the proof.
BudgetSpent ==
    /\ refused => llmCalls = MaxLlmCalls
    /\ todo <= matched
    /\ pc \in {"source", "words", "vectors", "fallback"} => llmCalls = 0 /\ ~refused
    /\ pc \in {"normalise", "generate"} => llmCalls + todo <= matched + 1
    /\ refused /\ (pc \in {"check", "regenerate"} \/ (pc = "gate" /\ sql = "none")) =>
          MaxLlmCalls <= matched + 1
    /\ pc \in {"check", "regenerate"} => llmCalls <= matched + 2
    /\ pc = "recheck" => llmCalls <= matched + 3 /\ (refused => MaxLlmCalls <= matched + 2)
    /\ pc \in {"gate", "execute", "summarise"} => llmCalls <= matched + 3

----------------------------------------------------------------------------
(* The question seen as a Pipeline.                                        *)

PhaseRank == [semantic |-> 1, normalize |-> 2, generate |-> 3, sql |-> 4,
              security |-> 5, execute |-> 6]

\* Mutant: items to confirm are announced instead of the rows they come with.
AnnouncedConfirmFirst ==
    CASE answer.kind = "none" -> "pending"
      [] answer.kind # "none" /\ answer.confirm -> "unsure"
      [] answer.kind = "result" /\ ~answer.confirm -> "answered"
      [] OTHER -> "failed"

\* How _run_pipeline announces what it was returned: rows, else items to
\* confirm, else an error; of anything else the client would hear nothing.
Announced ==
    CASE answer.kind = "none" -> "pending"
      [] answer.kind = "result" /\ ~answer.confirm -> "answered"
      [] answer.kind = "result" /\ answer.confirm -> "answered_unsure"
      [] answer.kind = "confirm" /\ answer.confirm -> "unsure"
      [] answer.kind = "confirm" /\ ~answer.confirm -> "silent"
      [] OTHER -> "failed"

Question == INSTANCE Pipeline WITH
    Rank <- PhaseRank, told <- progress, sent <- ran, outcome <- Announced

\* run_single_step is the pipeline the gateway counts on: whatever fails or is
\* refused, no phase is told twice or out of order, at most one statement is sent and
\* none before "security", and the answer is one the gateway announces, and the right one
\* for what the client was told.
ImplementsPipeline == Question!Spec

\* What the client can have heard last at each stage.
Latest ==
    CASE pc \in {"source", "words", "vectors", "fallback"} -> 0
      [] pc = "normalise" -> 2
      [] pc = "generate" -> 3
      [] pc \in {"check", "regenerate", "recheck"} -> 4
      [] pc \in {"gate", "execute"} -> IF sql = "none" THEN 3 ELSE 5
      [] pc \in {"summarise", "done"} -> 6

ToldInOrder ==
    /\ \A i, j \in 1..Len(progress) : i < j => PhaseRank[progress[i]] < PhaseRank[progress[j]]
    /\ \A i \in 1..Len(progress) : PhaseRank[progress[i]] <= Latest
    /\ pc = "summarise" => Told("execute")

\* The steps a question has left at most.
Weight == [source |-> 14, words |-> 13, vectors |-> 12, fallback |-> 11, normalise |-> 9,
           generate |-> 8, check |-> 7, regenerate |-> 6, recheck |-> 5, gate |-> 4,
           execute |-> 3, summarise |-> 2, done |-> 0]
StepsLeft ==
    Weight[pc] + (IF pc \in {"source", "words", "vectors", "fallback"} THEN MaxFields ELSE todo)

\* No retry goes round in circles: every step of a question, refused and failed
\* ones too, brings it nearer to its answer.
StepsRunOut == [][StepsLeft' < StepsLeft /\ StepsLeft' \in Nat]_vars
=============================================================================
