-------------------------- MODULE SingleStepProofs --------------------------
(***************************************************************************)
(* The safety properties of SingleStep for every budget and number of      *)
(* matched columns.  StageAgrees says what each stage has established      *)
(* about the statement, ToldInTime what the client has been told by then.  *)
(***************************************************************************)
EXTENDS SingleStep, SequenceTheorems, TLAPS

\* Telling the client one phase appends it.
LEMMA TellOne ==
    ASSUME progress \in Seq(Phases), NEW phase \in Phases, Tell(<<phase>>)
    PROVE  /\ progress' \in Seq(Phases)
           /\ \A p : Told(p)' <=> Told(p) \/ p = phase
           /\ Len(progress') = Len(progress) + 1
           /\ \A i \in 1..Len(progress) : progress'[i] = progress[i]
           /\ progress'[Len(progress) + 1] = phase
<1>1. <<phase>> \in Seq(Phases) /\ Len(<<phase>>) = 1 /\ <<phase>>[1] = phase
  OBVIOUS
<1>2. Len(progress) \in Nat
  BY LenProperties
<1>3. /\ progress' \in Seq(Phases)
      /\ Len(progress') = Len(progress) + 1
      /\ \A i \in 1..Len(progress) + 1 :
            progress'[i] = IF i <= Len(progress) THEN progress[i] ELSE <<phase>>[i - Len(progress)]
  BY <1>1, ConcatProperties DEF Tell
<1>4. /\ \A i \in 1..Len(progress) : progress'[i] = progress[i]
      /\ progress'[Len(progress) + 1] = phase
  BY <1>1, <1>2, <1>3
<1>5. \A p : Told(p)' <=> Told(p) \/ p = phase
  BY <1>2, <1>3, <1>4 DEF Told
<1> QED
  BY <1>3, <1>4, <1>5

\* After a match the client hears of it, and nothing of a statement.
LEMMA TellMatch ==
    ASSUME progress \in Seq(Phases), Tell(<<"semantic", "normalize">>),
           ~Told("security"), ~Told("execute")
    PROVE  progress' \in Seq(Phases) /\ ~Told("security")' /\ ~Told("execute")'
<1> DEFINE heard == <<"semantic", "normalize">>
<1>1. heard \in Seq(Phases) /\ Len(heard) = 2 /\ heard[1] = "semantic" /\ heard[2] = "normalize"
  BY DEF Phases
<1>2. Len(progress) \in Nat
  BY LenProperties
<1> HIDE DEF heard
<1>3. /\ progress' \in Seq(Phases)
      /\ Len(progress') = Len(progress) + 2
      /\ \A i \in 1..Len(progress) + 2 :
            progress'[i] = IF i <= Len(progress) THEN progress[i] ELSE heard[i - Len(progress)]
  BY <1>1, ConcatProperties DEF Tell, heard
<1>4. \A i \in 1..Len(progress') : progress'[i] \notin {"security", "execute"}
  BY <1>1, <1>2, <1>3 DEF Told
<1> QED
  BY <1>3, <1>4 DEF Told

\* A step that tells the client nothing.
LEMMA ToldSame ==
    ASSUME UNCHANGED progress
    PROVE  \A p : Told(p)' <=> Told(p)
  BY DEF Told

\* Nothing has been asked, proposed or told.
LEMMA InitStep == Init => StepInv
<1> SUFFICES ASSUME Init
             PROVE  StepInv
  OBVIOUS
<1>1. progress = <<>> /\ progress \in Seq(Phases) /\ Len(progress) = 0
  BY EmptySeq DEF Init
<1>2. \A p : ~Told(p)
  BY <1>1 DEF Told
<1>3. llmCalls \in 0..MaxLlmCalls /\ todo \in 0..MaxFields
  BY BudgetAssumption DEF Init
<1>4. answer \in Answers
  BY DEF Init, None, Kinds, Answers
<1>5. TypeOK
  BY <1>1, <1>3, <1>4 DEF Init, TypeOK, BeforeVerdict, BeforeStatement
<1>6. StageAgrees /\ NoRefusedRuns /\ AnswerHonest
  BY DEF Init, StageAgrees, NoRefusedRuns, AnswerHonest, None, BeforeVerdict,
     BeforeStatement
<1>7. ToldInTime
  BY <1>2 DEF Init, ToldInTime
<1>8. ProgressTruthful
  BY <1>1, <1>2 DEF ProgressTruthful
<1> QED
  BY <1>5, <1>6, <1>7, <1>8 DEF StepInv

\* The counter stays within its budget whether or not the prompt is granted.
LEMMA AskTypes ==
    ASSUME llmCalls \in 0..MaxLlmCalls, refused \in BOOLEAN, Ask
    PROVE  llmCalls' \in 0..MaxLlmCalls /\ refused' \in BOOLEAN
  BY BudgetAssumption DEF Ask, Granted

\* What the pipeline returns is an answer.
LEMMA EndTypes ==
    ASSUME NEW kind \in Kinds, NEW shown \in {"none"} \union Statements, End(kind, shown)
    PROVE  answer' \in Answers
<1> DEFINE told == unsure /\ kind \in {"confirm", "result"}
<1>1. told \in BOOLEAN
  OBVIOUS
<1>2. answer' = [kind |-> kind, sql |-> shown, confirm |-> told]
  BY DEF End
<1> HIDE DEF told
<1> QED
  BY <1>1, <1>2 DEF Answers

\* No data source ends the question with nothing proposed or sent.
LEMMA FindSourceStep == StepInv /\ FindSource => StepInv'
<1> SUFFICES ASSUME StepInv, FindSource
             PROVE  StepInv'
  OBVIOUS
<1> USE DEF StepInv, Admitted
<1>1. progress \in Seq(Phases)
  BY DEF TypeOK
<1>2. progress' = progress /\ \A p : Told(p)' <=> Told(p)
  BY ToldSame DEF FindSource
<1>3. TypeOK'
  <2>1. answer' \in Answers
    BY EndTypes DEF FindSource, Goto, TypeOK, Kinds, Statements, statement
  <2> QED
    BY <1>1, <1>2, <2>1 DEF FindSource, End, Goto, TypeOK, BeforeVerdict,
       BeforeStatement, Statements, budget, doubts, statement
<1>4. StageAgrees' /\ ToldInTime'
  BY <1>2 DEF FindSource, End, Goto, None, StageAgrees, ToldInTime, BeforeVerdict,
     BeforeStatement, doubts, statement
<1>5. NoRefusedRuns' /\ AnswerHonest'
  BY DEF FindSource, End, Goto, None, TypeOK, StageAgrees, NoRefusedRuns,
     AnswerHonest, BeforeVerdict, BeforeStatement, Statements, doubts, statement
<1>6. ProgressTruthful'
  BY <1>2 DEF FindSource, End, Goto, None, StageAgrees, ToldInTime, ProgressTruthful,
     Told, BeforeVerdict, BeforeStatement, statement
<1> QED
  BY <1>3, <1>4, <1>5, <1>6

\* A match tells of itself; without one the search goes on.
LEMMA MatchWordsStep == StepInv /\ MatchWords => StepInv'
<1> SUFFICES ASSUME StepInv, MatchWords
             PROVE  StepInv'
  OBVIOUS
<1> USE DEF StepInv, Admitted
<1>1. progress \in Seq(Phases)
  BY DEF TypeOK
<1>2. /\ progress' \in Seq(Phases)
      /\ ~Told("security")' /\ ~Told("execute")'
  <2>1. ~Told("security") /\ ~Told("execute")
    BY DEF MatchWords, ToldInTime, BeforeVerdict, BeforeStatement
  <2>2. CASE Tell(<<"semantic", "normalize">>)
    BY <1>1, <2>1, <2>2, TellMatch
  <2>3. CASE UNCHANGED progress
    BY <1>1, <2>1, <2>3, ToldSame
  <2> QED
    BY <2>2, <2>3 DEF MatchWords, Matched
<1>3. TypeOK'
  <2> QED
    BY <1>1, <1>2 DEF MatchWords, Matched, Goto, TypeOK, BeforeVerdict, BeforeStatement,
       Statements, budget, doubts, statement
<1>4. StageAgrees' /\ ToldInTime'
  BY <1>2 DEF MatchWords, Matched, Goto, None, StageAgrees, ToldInTime, BeforeVerdict,
     BeforeStatement, doubts, statement
<1>5. NoRefusedRuns' /\ AnswerHonest'
  BY DEF MatchWords, Matched, Goto, None, TypeOK, StageAgrees, NoRefusedRuns,
     AnswerHonest, BeforeVerdict, BeforeStatement, Statements, doubts, statement
<1>6. ProgressTruthful'
  BY <1>2 DEF MatchWords, Matched, Goto, None, StageAgrees, ToldInTime,
     ProgressTruthful, Told, BeforeVerdict, BeforeStatement, statement
<1> QED
  BY <1>3, <1>4, <1>5, <1>6

\* The same for a match among the vectors.
LEMMA SearchVectorsStep == StepInv /\ SearchVectors => StepInv'
<1> SUFFICES ASSUME StepInv, SearchVectors
             PROVE  StepInv'
  OBVIOUS
<1> USE DEF StepInv, Admitted
<1>1. progress \in Seq(Phases)
  BY DEF TypeOK
<1>2. /\ progress' \in Seq(Phases)
      /\ ~Told("security")' /\ ~Told("execute")'
  <2>1. ~Told("security") /\ ~Told("execute")
    BY DEF SearchVectors, ToldInTime, BeforeVerdict, BeforeStatement
  <2>2. CASE Tell(<<"semantic", "normalize">>)
    BY <1>1, <2>1, <2>2, TellMatch
  <2>3. CASE UNCHANGED progress
    BY <1>1, <2>1, <2>3, ToldSame
  <2> QED
    BY <2>2, <2>3 DEF SearchVectors, Matched
<1>3. TypeOK'
  <2> QED
    BY <1>1, <1>2 DEF SearchVectors, Matched, Goto, TypeOK, BeforeVerdict,
       BeforeStatement, Statements, budget, doubts, statement
<1>4. StageAgrees' /\ ToldInTime'
  BY <1>2 DEF SearchVectors, Matched, Goto, None, StageAgrees, ToldInTime,
     BeforeVerdict, BeforeStatement, doubts, statement
<1>5. NoRefusedRuns' /\ AnswerHonest'
  BY DEF SearchVectors, Matched, Goto, None, TypeOK, StageAgrees, NoRefusedRuns,
     AnswerHonest, BeforeVerdict, BeforeStatement, Statements, doubts, statement
<1>6. ProgressTruthful'
  BY <1>2 DEF SearchVectors, Matched, Goto, None, StageAgrees, ToldInTime,
     ProgressTruthful, Told, BeforeVerdict, BeforeStatement, statement
<1> QED
  BY <1>3, <1>4, <1>5, <1>6

\* The prompt is counted; it ends in a match or without one.
LEMMA AskForFieldsStep == StepInv /\ AskForFields => StepInv'
<1> SUFFICES ASSUME StepInv, AskForFields
             PROVE  StepInv'
  OBVIOUS
<1> USE DEF StepInv, Admitted
<1>1. progress \in Seq(Phases)
  BY DEF TypeOK
<1>2. /\ progress' \in Seq(Phases)
      /\ ~Told("security")' /\ ~Told("execute")'
  <2>1. ~Told("security") /\ ~Told("execute")
    BY DEF AskForFields, ToldInTime, BeforeVerdict, BeforeStatement
  <2>2. CASE Tell(<<"semantic", "normalize">>)
    BY <1>1, <2>1, <2>2, TellMatch
  <2>3. CASE UNCHANGED progress
    BY <1>1, <2>1, <2>3, ToldSame
  <2> QED
    BY <2>2, <2>3 DEF AskForFields, Matched
<1>3. TypeOK'
  <2>1. llmCalls' \in 0..MaxLlmCalls /\ refused' \in BOOLEAN
    BY AskTypes DEF AskForFields, TypeOK, budget
  <2>2. answer' \in Answers
    BY EndTypes DEF AskForFields, Matched, Goto, TypeOK, Kinds, Statements, statement
  <2> QED
    BY <1>1, <1>2, <2>1, <2>2 DEF AskForFields, Matched, End, Goto, TypeOK,
       BeforeVerdict, BeforeStatement, Statements, budget, doubts, statement
<1>4. StageAgrees' /\ ToldInTime'
  BY <1>2 DEF AskForFields, Matched, End, Goto, None, StageAgrees, ToldInTime,
     BeforeVerdict, BeforeStatement, doubts, statement
<1>5. NoRefusedRuns' /\ AnswerHonest'
  BY DEF AskForFields, Matched, End, Goto, None, TypeOK, StageAgrees, NoRefusedRuns,
     AnswerHonest, BeforeVerdict, BeforeStatement, Statements, doubts, statement
<1>6. ProgressTruthful'
  BY <1>2 DEF AskForFields, Matched, End, Goto, None, StageAgrees, ToldInTime,
     ProgressTruthful, Told, BeforeVerdict, BeforeStatement, statement
<1> QED
  BY <1>3, <1>4, <1>5, <1>6

\* A column more is normalised: no statement exists yet.
LEMMA NormaliseColumnStep == StepInv /\ NormaliseColumn => StepInv'
<1> SUFFICES ASSUME StepInv, NormaliseColumn
             PROVE  StepInv'
  OBVIOUS
<1> USE DEF StepInv, Admitted
<1>1. progress \in Seq(Phases)
  BY DEF TypeOK
<1>2. progress' = progress /\ \A p : Told(p)' <=> Told(p)
  BY ToldSame DEF NormaliseColumn
<1>3. TypeOK'
  <2>1. llmCalls' \in 0..MaxLlmCalls /\ refused' \in BOOLEAN
    BY AskTypes DEF NormaliseColumn, TypeOK, budget
  <2>2. unsure' \in BOOLEAN
    BY Zenon DEF NormaliseColumn, TypeOK
  <2> QED
    BY <1>1, <1>2, <2>1, <2>2, BudgetAssumption DEF NormaliseColumn, TypeOK,
       BeforeVerdict, BeforeStatement, Statements, budget, doubts, statement
<1>4. StageAgrees' /\ ToldInTime'
  BY <1>2 DEF NormaliseColumn, None, StageAgrees, ToldInTime, BeforeVerdict,
     BeforeStatement, doubts, statement
<1>5. NoRefusedRuns' /\ AnswerHonest'
  BY DEF NormaliseColumn, None, TypeOK, StageAgrees, NoRefusedRuns, AnswerHonest,
     BeforeVerdict, BeforeStatement, Statements, doubts, statement
<1>6. ProgressTruthful'
  BY <1>2 DEF NormaliseColumn, None, StageAgrees, ToldInTime, ProgressTruthful, Told,
     BeforeVerdict, BeforeStatement, statement
<1> QED
  BY <1>3, <1>4, <1>5, <1>6

\* The doubts may grow; no statement exists yet.
LEMMA DetectQuantifierStep == StepInv /\ DetectQuantifier => StepInv'
<1> SUFFICES ASSUME StepInv, DetectQuantifier
             PROVE  StepInv'
  OBVIOUS
<1> USE DEF StepInv, Admitted
<1>1. progress \in Seq(Phases)
  BY DEF TypeOK
<1>2. progress' \in Seq(Phases) /\ \A p : Told(p)' <=> Told(p) \/ p = "generate"
  BY <1>1, TellOne DEF DetectQuantifier, Phases
<1>3. TypeOK'
  <2>1. unsure' \in BOOLEAN
    BY Zenon DEF DetectQuantifier, TypeOK
  <2> QED
    BY <1>1, <1>2, <2>1 DEF DetectQuantifier, Goto, TypeOK, BeforeVerdict,
       BeforeStatement, Statements, budget, doubts, statement
<1>4. StageAgrees' /\ ToldInTime'
  BY <1>2 DEF DetectQuantifier, Goto, None, StageAgrees, ToldInTime, BeforeVerdict,
     BeforeStatement, doubts, statement
<1>5. NoRefusedRuns' /\ AnswerHonest'
  BY DEF DetectQuantifier, Goto, None, TypeOK, StageAgrees, NoRefusedRuns,
     AnswerHonest, BeforeVerdict, BeforeStatement, Statements, doubts, statement
<1>6. ProgressTruthful'
  BY <1>2 DEF DetectQuantifier, Goto, None, StageAgrees, ToldInTime, ProgressTruthful,
     Told, BeforeVerdict, BeforeStatement, statement
<1> QED
  BY <1>3, <1>4, <1>5, <1>6

\* A first statement awaits its verdict, or there is none.
LEMMA GenerateStep == StepInv /\ Generate => StepInv'
<1> SUFFICES ASSUME StepInv, Generate
             PROVE  StepInv'
  OBVIOUS
<1> USE DEF StepInv, Admitted
<1>1. progress \in Seq(Phases)
  BY DEF TypeOK
<1>2. /\ progress' \in Seq(Phases)
      /\ \/ pc' = "check" /\ \A p : Told(p)' <=> Told(p) \/ p = "sql"
         \/ pc' = "gate" /\ \A p : Told(p)' <=> Told(p)
  <2>1. Tell(<<"sql">>) =>
           /\ progress' \in Seq(Phases)
           /\ \A p : Told(p)' <=> Told(p) \/ p = "sql"
    BY <1>1, TellOne DEF Phases
  <2>2. UNCHANGED progress => \A p : Told(p)' <=> Told(p)
    BY ToldSame
  <2> QED
    BY <1>1, <2>1, <2>2 DEF Generate, Goto, End
<1>3. TypeOK'
  <2>1. llmCalls' \in 0..MaxLlmCalls /\ refused' \in BOOLEAN
    BY AskTypes DEF Generate, TypeOK, budget
  <2> QED
    BY <1>1, <1>2, <2>1 DEF Generate, Proposed, Goto, TypeOK, BeforeVerdict,
       BeforeStatement, Statements, budget, doubts, statement
<1>4. StageAgrees' /\ ToldInTime'
  BY <1>2 DEF Generate, Proposed, Goto, None, StageAgrees, ToldInTime, BeforeVerdict,
     BeforeStatement, doubts, statement
<1>5. NoRefusedRuns' /\ AnswerHonest'
  BY DEF Generate, Proposed, Goto, None, TypeOK, StageAgrees, NoRefusedRuns,
     AnswerHonest, BeforeVerdict, BeforeStatement, Statements, doubts, statement
<1>6. ProgressTruthful'
  BY <1>2 DEF Generate, Proposed, Goto, None, StageAgrees, ToldInTime, ProgressTruthful,
     Told, BeforeVerdict, BeforeStatement, statement
<1> QED
  BY <1>3, <1>4, <1>5, <1>6

\* Security is announced with a verdict that passes or, over an exception, without one.
LEMMA CheckStep == StepInv /\ Check => StepInv'
<1> SUFFICES ASSUME StepInv, Check
             PROVE  StepInv'
  OBVIOUS
<1> USE DEF StepInv, Admitted
<1>1. progress \in Seq(Phases)
  BY DEF TypeOK
<1>2. /\ progress' \in Seq(Phases)
      /\ \/ pc' = "gate" /\ \A p : Told(p)' <=> Told(p) \/ p = "security"
         \/ pc' = "regenerate" /\ \A p : Told(p)' <=> Told(p)
  <2>1. Tell(<<"security">>) =>
           /\ progress' \in Seq(Phases)
           /\ \A p : Told(p)' <=> Told(p) \/ p = "security"
    BY <1>1, TellOne DEF Phases
  <2>2. UNCHANGED progress => \A p : Told(p)' <=> Told(p)
    BY ToldSame
  <2> QED
    BY <1>1, <2>1, <2>2 DEF Check, Goto, End
<1>3. TypeOK'
  <2> QED
    BY <1>1, <1>2 DEF Check, Goto, TypeOK, BeforeVerdict, BeforeStatement, Statements,
       budget, doubts, statement
<1>4. StageAgrees' /\ ToldInTime'
  BY <1>2 DEF Check, Goto, None, StageAgrees, ToldInTime, BeforeVerdict,
     BeforeStatement, doubts, statement
<1>5. NoRefusedRuns' /\ AnswerHonest'
  BY DEF Check, Goto, None, TypeOK, StageAgrees, NoRefusedRuns, AnswerHonest,
     BeforeVerdict, BeforeStatement, Statements, doubts, statement
<1>6. ProgressTruthful'
  <2>1. ~Told("execute")'
    BY <1>2 DEF Check, ToldInTime, BeforeVerdict, BeforeStatement
  <2>2. Told("security")' => sql' \notin faulty' /\ Admitted(sql)' /\ answer'.kind # "rejected"
    BY <1>2 DEF Check, Goto, None, StageAgrees, ToldInTime, BeforeVerdict,
       BeforeStatement, statement
  <2> QED
    BY <2>1, <2>2 DEF ProgressTruthful, Told
<1> QED
  BY <1>3, <1>4, <1>5, <1>6

\* The first statement failed; a second awaits its verdict.
LEMMA RegenerateStep == StepInv /\ Regenerate => StepInv'
<1> SUFFICES ASSUME StepInv, Regenerate
             PROVE  StepInv'
  OBVIOUS
<1> USE DEF StepInv, Admitted
<1>1. progress \in Seq(Phases)
  BY DEF TypeOK
<1>2. progress' = progress /\ \A p : Told(p)' <=> Told(p)
  BY ToldSame DEF Regenerate
<1>3. TypeOK'
  <2>1. llmCalls' \in 0..MaxLlmCalls /\ refused' \in BOOLEAN
    BY AskTypes DEF Regenerate, TypeOK, budget
  <2>2. answer' \in Answers
    BY EndTypes DEF Regenerate, Proposed, Goto, TypeOK, Kinds, Statements, statement
  <2> QED
    BY <1>1, <1>2, <2>1, <2>2 DEF Regenerate, Proposed, End, Goto, TypeOK,
       BeforeVerdict, BeforeStatement, Statements, budget, doubts, statement
<1>4. StageAgrees' /\ ToldInTime'
  BY <1>2 DEF Regenerate, Proposed, End, Goto, None, StageAgrees, ToldInTime,
     BeforeVerdict, BeforeStatement, doubts, statement
<1>5. NoRefusedRuns' /\ AnswerHonest'
  BY DEF Regenerate, Proposed, End, Goto, None, TypeOK, StageAgrees, NoRefusedRuns,
     AnswerHonest, BeforeVerdict, BeforeStatement, Statements, doubts, statement
<1>6. ProgressTruthful'
  BY <1>2 DEF Regenerate, Proposed, End, Goto, None, StageAgrees, ToldInTime,
     ProgressTruthful, Told, BeforeVerdict, BeforeStatement, statement
<1> QED
  BY <1>3, <1>4, <1>5, <1>6

\* The second statement takes the first one's place when it passes.
LEMMA RecheckStep == StepInv /\ Recheck => StepInv'
<1> SUFFICES ASSUME StepInv, Recheck
             PROVE  StepInv'
  OBVIOUS
<1> USE DEF StepInv, Admitted
<1>1. progress \in Seq(Phases)
  BY DEF TypeOK
<1>2. /\ progress' \in Seq(Phases)
      /\ \/ pc' = "gate" /\ \A p : Told(p)' <=> Told(p) \/ p = "security"
         \/ pc' = "done" /\ \A p : Told(p)' <=> Told(p)
  <2>1. Tell(<<"security">>) =>
           /\ progress' \in Seq(Phases)
           /\ \A p : Told(p)' <=> Told(p) \/ p = "security"
    BY <1>1, TellOne DEF Phases
  <2>2. UNCHANGED progress => \A p : Told(p)' <=> Told(p)
    BY ToldSame
  <2> QED
    BY <1>1, <2>1, <2>2 DEF Recheck, Goto, End
<1>3. TypeOK'
  <2>1. answer' \in Answers
    BY EndTypes DEF Recheck, Goto, TypeOK, Kinds, Statements, statement
  <2> QED
    BY <1>1, <1>2, <2>1 DEF Recheck, End, Goto, TypeOK, BeforeVerdict, BeforeStatement,
       Statements, budget, doubts, statement
<1>4. StageAgrees' /\ ToldInTime'
  BY <1>2 DEF Recheck, End, Goto, None, StageAgrees, ToldInTime, BeforeVerdict,
     BeforeStatement, doubts, statement
<1>5. NoRefusedRuns' /\ AnswerHonest'
  BY DEF Recheck, End, Goto, None, TypeOK, StageAgrees, NoRefusedRuns, AnswerHonest,
     BeforeVerdict, BeforeStatement, Statements, doubts, statement
<1>6. ProgressTruthful'
  <2>1. ~Told("execute")'
    BY <1>2 DEF Recheck, ToldInTime, BeforeVerdict, BeforeStatement
  <2>2. Told("security")' => sql' \notin faulty' /\ Admitted(sql)' /\ answer'.kind # "rejected"
    BY <1>2 DEF Recheck, End, Goto, None, StageAgrees, ToldInTime, BeforeVerdict,
       BeforeStatement, statement
  <2> QED
    BY <2>1, <2>2 DEF ProgressTruthful, Told
<1> QED
  BY <1>3, <1>4, <1>5, <1>6

\* A statement that arrives here was not refused.
LEMMA GateStep == StepInv /\ Gate => StepInv'
<1> SUFFICES ASSUME StepInv, Gate
             PROVE  StepInv'
  OBVIOUS
<1> USE DEF StepInv, Admitted
<1>1. progress \in Seq(Phases)
  BY DEF TypeOK
<1>2. progress' = progress /\ \A p : Told(p)' <=> Told(p)
  BY ToldSame DEF Gate
<1>3. TypeOK'
  <2>1. answer' \in Answers
    BY EndTypes DEF Gate, Goto, TypeOK, Kinds, Statements, statement
  <2> QED
    BY <1>1, <1>2, <2>1 DEF Gate, End, Goto, TypeOK, BeforeVerdict, BeforeStatement,
       Statements, budget, doubts, statement
<1>4. StageAgrees' /\ ToldInTime'
  BY <1>2 DEF Gate, End, Goto, None, StageAgrees, ToldInTime, BeforeVerdict,
     BeforeStatement, doubts, statement
<1>5. NoRefusedRuns' /\ AnswerHonest'
  BY DEF Gate, End, Goto, None, TypeOK, StageAgrees, NoRefusedRuns, AnswerHonest,
     BeforeVerdict, BeforeStatement, Statements, doubts, statement
<1>6. ProgressTruthful'
  BY <1>2 DEF Gate, End, Goto, None, StageAgrees, ToldInTime, ProgressTruthful, Told,
     BeforeVerdict, BeforeStatement, statement
<1> QED
  BY <1>3, <1>4, <1>5, <1>6

\* What is sent is a statement that was not refused.
LEMMA ExecuteStep == StepInv /\ Execute => StepInv'
<1> SUFFICES ASSUME StepInv, Execute
             PROVE  StepInv'
  OBVIOUS
<1> USE DEF StepInv, Admitted
<1>1. progress \in Seq(Phases)
  BY DEF TypeOK
<1>2. \/ progress' = progress /\ \A p : Told(p)' <=> Told(p)
      \/ /\ progress' \in Seq(Phases)
         /\ \A p : Told(p)' <=> Told(p) \/ p = "execute"
         /\ Len(progress') = Len(progress) + 1
         /\ \A i \in 1..Len(progress) : progress'[i] = progress[i]
  <2>1. Tell(<<"execute">>) =>
           /\ progress' \in Seq(Phases)
           /\ \A p : Told(p)' <=> Told(p) \/ p = "execute"
           /\ Len(progress') = Len(progress) + 1
           /\ \A i \in 1..Len(progress) : progress'[i] = progress[i]
    BY <1>1, TellOne DEF Phases
  <2>2. UNCHANGED progress => \A p : Told(p)' <=> Told(p)
    BY ToldSame
  <2> QED
    BY <1>1, <2>1, <2>2 DEF Execute
<1>3. TypeOK'
  <2>1. answer' \in Answers
    BY EndTypes DEF Execute, Goto, TypeOK, Kinds, Statements, statement
  <2> QED
    BY <1>1, <1>2, <2>1 DEF Execute, End, Goto, TypeOK, BeforeVerdict, BeforeStatement,
       Statements, budget, doubts, statement
<1>4. StageAgrees' /\ ToldInTime'
  BY <1>2 DEF Execute, End, Goto, None, StageAgrees, ToldInTime, BeforeVerdict,
     BeforeStatement, doubts, statement
<1>5. NoRefusedRuns' /\ AnswerHonest'
  BY DEF Execute, End, Goto, None, TypeOK, StageAgrees, NoRefusedRuns, AnswerHonest,
     BeforeVerdict, BeforeStatement, Statements, doubts, statement
<1>6. ProgressTruthful'
  <2>1. Told("security") /\ ~Told("execute") /\ sql \notin faulty /\ Admitted(sql) /\ sql # "none"
    BY DEF Execute, TypeOK, StageAgrees, ToldInTime, Statements
  <2>2. Told("security")' => sql' \notin faulty' /\ Admitted(sql)' /\ answer'.kind # "rejected"
    BY <2>1 DEF Execute, End, Goto, None, StageAgrees, statement
  <2>3. ran' # "none"
    BY <2>1 DEF Execute
  <2>4. PICK j \in 1..Len(progress) : progress[j] = "security"
    BY <2>1 DEF Told
  <2>5. ASSUME NEW i \in 1..Len(progress'), progress'[i] = "execute"
        PROVE  \E k \in 1..(i - 1) : progress'[k] = "security"
    <3>1. Len(progress) \in Nat
      BY <1>1, LenProperties
    <3>2. i = Len(progress) + 1 /\ progress'[j] = "security"
      BY <1>2, <2>1, <2>4, <2>5, <3>1 DEF Told
    <3> QED
      BY <2>4, <3>1, <3>2
  <2> QED
    BY <2>2, <2>3, <2>5 DEF ProgressTruthful
<1> QED
  BY <1>3, <1>4, <1>5, <1>6

\* The answer is about the statement that ran.
LEMMA SummariseStep == StepInv /\ Summarise => StepInv'
<1> SUFFICES ASSUME StepInv, Summarise
             PROVE  StepInv'
  OBVIOUS
<1> USE DEF StepInv, Admitted
<1>1. progress \in Seq(Phases)
  BY DEF TypeOK
<1>2. progress' = progress /\ \A p : Told(p)' <=> Told(p)
  BY ToldSame DEF Summarise
<1>3. TypeOK'
  <2>1. llmCalls' \in 0..MaxLlmCalls /\ refused' \in BOOLEAN
    BY AskTypes DEF Summarise, TypeOK, budget
  <2>2. answer' \in Answers
    BY EndTypes DEF Summarise, TypeOK, Kinds, Statements, statement
  <2> QED
    BY <1>1, <1>2, <2>1, <2>2 DEF Summarise, End, TypeOK, BeforeVerdict,
       BeforeStatement, Statements, budget, doubts, statement
<1>4. StageAgrees' /\ ToldInTime'
  BY <1>2 DEF Summarise, End, None, StageAgrees, ToldInTime, BeforeVerdict,
     BeforeStatement, doubts, statement
<1>5. NoRefusedRuns' /\ AnswerHonest'
  BY DEF Summarise, End, None, TypeOK, StageAgrees, NoRefusedRuns, AnswerHonest,
     BeforeVerdict, BeforeStatement, Statements, doubts, statement
<1>6. ProgressTruthful'
  BY <1>2 DEF Summarise, End, None, StageAgrees, ToldInTime, ProgressTruthful, Told,
     BeforeVerdict, BeforeStatement, statement
<1> QED
  BY <1>3, <1>4, <1>5, <1>6

\* A question that is answered, or a step of nothing at all.
LEMMA StutterStep == StepInv /\ UNCHANGED vars => StepInv'
<1> SUFFICES ASSUME StepInv, UNCHANGED vars
             PROVE  StepInv'
  OBVIOUS
<1> USE DEF StepInv, Admitted, vars, budget, doubts, statement
<1>1. TypeOK' /\ StageAgrees' /\ NoRefusedRuns' /\ AnswerHonest'
  BY DEF TypeOK, StageAgrees, NoRefusedRuns, AnswerHonest
<1>2. ToldInTime' /\ ProgressTruthful'
  BY DEF ToldInTime, ProgressTruthful, Told
<1> QED
  BY <1>1, <1>2

\* What every stage relies on holds throughout: one step per stage.
THEOREM StepInvariant == Spec => []StepInv
<1>1. Init => StepInv
  BY InitStep
<1>2. StepInv /\ [Next]_vars => StepInv'
  BY FindSourceStep, MatchWordsStep, SearchVectorsStep, AskForFieldsStep,
     NormaliseColumnStep, DetectQuantifierStep, GenerateStep, CheckStep,
     RegenerateStep, RecheckStep, GateStep, ExecuteStep, SummariseStep,
     StutterStep DEF Next
<1> QED
  BY <1>1, <1>2, PTL DEF Spec

\* The prompt counter never passes max_llm_calls.
THEOREM TypeCorrect == Spec => []TypeOK
<1>1. StepInv => TypeOK
  BY DEF StepInv
<1> QED
  BY <1>1, StepInvariant, PTL

\* The data source is sent no statement that was refused, and no regenerated one
\* that has not itself passed; what it is sent without a verdict is a first
\* statement over which validate_sql raised (single_step.py:222).
THEOREM RefusedNeverRuns == Spec => []NoRefusedRuns
<1>1. StepInv => NoRefusedRuns
  BY DEF StepInv
<1> QED
  BY <1>1, StepInvariant, PTL

\* The answer tells of the statement that ran, a rejection of one that did not.
THEOREM AnswersHonest == Spec => []AnswerHonest
<1>1. StepInv => AnswerHonest
  BY DEF StepInv
<1> QED
  BY <1>1, StepInvariant, PTL

\* The client is told that the check passed only of a statement that was not
\* refused, and of rows only once they are there.
THEOREM ProgressTrue == Spec => []ProgressTruthful
<1>1. StepInv => ProgressTruthful
  BY DEF StepInv
<1> QED
  BY <1>1, StepInvariant, PTL

\* Each stage keeps to its share of the prompts: one for the match, one for each
\* column, two for the statement.
LEMMA BudgetStep ==
    ASSUME TypeOK, BudgetSpent, SmallQuestionsSpared, StageAgrees, [Next]_vars
    PROVE  BudgetSpent' /\ SmallQuestionsSpared'
<1> USE BudgetAssumption DEF TypeOK, BudgetSpent, SmallQuestionsSpared, StageAgrees, None
<1>1. CASE FindSource
  BY <1>1 DEF FindSource, Goto, End, budget, doubts, statement
<1>2. CASE MatchWords
  BY <1>2 DEF MatchWords, Matched, Goto, budget, doubts, statement, BeforeVerdict, BeforeStatement
<1>3. CASE SearchVectors
  BY <1>3 DEF SearchVectors, Matched, Goto, budget, doubts, statement, BeforeVerdict, BeforeStatement
<1>4. CASE AskForFields
  BY <1>4 DEF AskForFields, Ask, Granted, Matched, Goto, End, doubts, statement
<1>5. CASE NormaliseColumn
  BY <1>5 DEF NormaliseColumn, Ask, Granted, budget, statement
<1>6. CASE DetectQuantifier
  BY <1>6 DEF DetectQuantifier, Goto, budget, statement
<1>7. CASE Generate
  BY <1>7 DEF Generate, Ask, Granted, Goto, doubts, statement
<1>8. CASE Check
  BY <1>8 DEF Check, Goto, budget, doubts, statement, Statements
<1>9. CASE Regenerate
  BY <1>9 DEF Regenerate, Ask, Granted, Goto, End, doubts
<1>10. CASE Recheck
  BY <1>10 DEF Recheck, Goto, End, budget, doubts
<1>11. CASE Gate
  BY <1>11 DEF Gate, Goto, End, budget, doubts, statement
<1>12. CASE Execute
  BY <1>12 DEF Execute, Goto, End, budget, doubts, statement
<1>13. CASE Summarise
  BY <1>13 DEF Summarise, Ask, Granted, End, doubts, statement
<1>14. CASE UNCHANGED vars
  BY <1>14 DEF vars, budget, doubts, statement
<1> QED
  BY <1>1, <1>2, <1>3, <1>4, <1>5, <1>6, <1>7, <1>8, <1>9, <1>10, <1>11, <1>12, <1>13,
     <1>14 DEF Next

\* The prompt counter refuses nothing to a question that matched few columns.
THEOREM CapSparesSmallQuestions == Spec => []SmallQuestionsSpared
<1>1. Init => BudgetSpent /\ SmallQuestionsSpared
  BY BudgetAssumption DEF Init, BudgetSpent, SmallQuestionsSpared
<1>2. /\ StepInv /\ BudgetSpent /\ SmallQuestionsSpared /\ [Next]_vars
      => BudgetSpent' /\ SmallQuestionsSpared'
  BY BudgetStep DEF StepInv
<1> QED
  BY <1>1, <1>2, StepInvariant, PTL DEF Spec

----------------------------------------------------------------------------
(* The order of what the client is told, and the pipeline of the gateway.  *)

LEMMA RankTypes ==
    /\ DOMAIN PhaseRank = Phases
    /\ \A p \in Phases : PhaseRank[p] \in 1..6
    /\ PhaseRank["semantic"] = 1 /\ PhaseRank["normalize"] = 2
    /\ PhaseRank["generate"] = 3 /\ PhaseRank["sql"] = 4
    /\ PhaseRank["security"] = 5 /\ PhaseRank["execute"] = 6
  BY DEF PhaseRank, Phases

LEMMA LatestType == TypeOK => Latest \in 0..6
  BY DEF TypeOK, Latest, BeforeVerdict, BeforeStatement

\* A phase later than any the client has heard keeps the order.
LEMMA TellLater ==
    ASSUME progress \in Seq(Phases), NEW latest \in 0..6, NEW phase \in Phases,
           Tell(<<phase>>),
           \A i, j \in 1..Len(progress) : i < j => PhaseRank[progress[i]] < PhaseRank[progress[j]],
           \A i \in 1..Len(progress) : PhaseRank[progress[i]] <= latest,
           latest < PhaseRank[phase]
    PROVE  /\ progress' = Append(progress, phase)
           /\ \A i, j \in 1..Len(progress') :
                 i < j => PhaseRank[progress'[i]] < PhaseRank[progress'[j]]
           /\ \A i \in 1..Len(progress') : PhaseRank[progress'[i]] <= PhaseRank[phase]
<1> DEFINE n == Len(progress)
<1>1. n \in Nat /\ \A i \in 1..n : progress[i] \in Phases
  BY LenProperties, ElementOfSeq
<1>2. /\ Len(progress') = n + 1
      /\ \A i \in 1..n : progress'[i] = progress[i]
      /\ progress'[n + 1] = phase
  BY TellOne
<1>3. progress' = Append(progress, phase)
  BY AppendIsConcat DEF Tell
<1> HIDE DEF n
<1>4. \A i \in 1..n : PhaseRank[progress[i]] \in Int /\ PhaseRank[progress[i]] <= latest
  BY <1>1, RankTypes DEF n
<1>5. PhaseRank[phase] \in Int
  BY RankTypes
<1>6. ASSUME NEW i \in 1..n + 1, NEW j \in 1..n + 1, i < j
      PROVE  PhaseRank[progress'[i]] < PhaseRank[progress'[j]]
  <2>1. i \in 1..n /\ progress'[i] = progress[i]
    BY <1>1, <1>2, <1>6
  <2>2. CASE j = n + 1
    BY <1>2, <1>4, <1>5, <2>1, <2>2
  <2>3. CASE j \in 1..n
    BY <1>2, <1>6, <2>1, <2>3 DEF n
  <2> QED
    BY <1>1, <2>2, <2>3
<1>7. ASSUME NEW i \in 1..n + 1
      PROVE  PhaseRank[progress'[i]] <= PhaseRank[phase]
  <2>1. CASE i = n + 1
    BY <1>2, <1>5, <2>1
  <2>2. CASE i \in 1..n
    BY <1>2, <1>4, <1>5, <2>2
  <2> QED
    BY <1>1, <2>1, <2>2
<1> QED
  BY <1>2, <1>3, <1>6, <1>7

\* What a client that has heard nothing is told of a match.
LEMMA TellMatchFirst ==
    ASSUME progress \in Seq(Phases), Tell(<<"semantic", "normalize">>),
           \A i \in 1..Len(progress) : PhaseRank[progress[i]] <= 0
    PROVE  /\ \A i, j \in 1..Len(progress') :
                 i < j => PhaseRank[progress'[i]] < PhaseRank[progress'[j]]
           /\ \A i \in 1..Len(progress') : PhaseRank[progress'[i]] <= 2
<1> DEFINE heard == <<"semantic", "normalize">>
<1>1. Len(progress) = 0
  <2>1. Len(progress) \in Nat /\ \A i \in 1..Len(progress) : progress[i] \in Phases
    BY LenProperties, ElementOfSeq
  <2>2. \A i \in 1..Len(progress) : FALSE
    BY <2>1, RankTypes
  <2> QED
    BY <2>1, <2>2
<1>2. heard \in Seq(Phases) /\ Len(heard) = 2 /\ heard[1] = "semantic" /\ heard[2] = "normalize"
  BY DEF Phases
<1> HIDE DEF heard
<1>3. /\ Len(progress') = 2
      /\ \A i \in 1..2 : progress'[i] = heard[i]
  BY <1>1, <1>2, ConcatProperties DEF Tell, heard
<1> QED
  BY <1>2, <1>3, RankTypes

\* The order goes on: one case per action.
LEMMA OrderStep ==
    ASSUME StepInv, ToldInOrder, [Next]_vars
    PROVE  ToldInOrder'
<1> DEFINE Ordered == \A i, j \in 1..Len(progress) :
                         i < j => PhaseRank[progress[i]] < PhaseRank[progress[j]]
           Within(n) == \A i \in 1..Len(progress) : PhaseRank[progress[i]] <= n
<1>1. /\ progress \in Seq(Phases) /\ Ordered /\ Within(Latest)
      /\ pc = "summarise" => Told("execute")
  BY DEF StepInv, TypeOK, ToldInOrder
<1>2. Latest \in 0..6
  BY LatestType DEF StepInv
<1>3. \A i \in 1..Len(progress) : PhaseRank[progress[i]] \in 1..6
  BY <1>1, RankTypes, ElementOfSeq
<1>4. SUFFICES /\ Ordered'
               /\ \E n \in 0..6 : n <= Latest' /\ Within(n)'
               /\ Latest' \in 0..6
               /\ pc' = "summarise" => Told("execute")'
               /\ progress' \in Seq(Phases)
  <2> SUFFICES \A i \in 1..Len(progress') : PhaseRank[progress'[i]] <= Latest'
    BY <1>4 DEF ToldInOrder
  <2>1. \A i \in 1..Len(progress') : PhaseRank[progress'[i]] \in 1..6
    BY <1>4, RankTypes, ElementOfSeq
  <2> QED
    BY <1>4, <2>1
<1>5. StepInv'
  BY FindSourceStep, MatchWordsStep, SearchVectorsStep, AskForFieldsStep,
     NormaliseColumnStep, DetectQuantifierStep, GenerateStep, CheckStep,
     RegenerateStep, RecheckStep, GateStep, ExecuteStep, SummariseStep,
     StutterStep DEF Next
<1>6. progress' \in Seq(Phases) /\ Latest' \in 0..6
  BY <1>5 DEF StepInv, TypeOK, Latest, BeforeVerdict, BeforeStatement
<1>7. ASSUME UNCHANGED progress
      PROVE  Ordered' /\ (\A n \in 0..6 : Within(n) => Within(n)') /\ \A p : Told(p)' <=> Told(p)
  BY <1>1, <1>7, ToldSame
<1>8. ASSUME NEW phase \in Phases, Tell(<<phase>>), Latest < PhaseRank[phase]
      PROVE  Ordered' /\ Within(PhaseRank[phase])' /\ Told(phase)'
  BY <1>1, <1>2, <1>8, TellLater, TellOne
<1>9. ASSUME Tell(<<"semantic", "normalize">>), Latest = 0
      PROVE  Ordered' /\ Within(2)'
  BY <1>1, <1>9, TellMatchFirst
<1>10. ASSUME NEW phase \in Phases, Tell(<<phase>>)
       PROVE  progress' # progress
  BY <1>1, <1>10, TellOne, LenProperties
<1> HIDE DEF Ordered, Within
<1>11. Within(Latest) /\ ToldInTime
  BY <1>1 DEF StepInv
<1>12. CASE FindSource
  <2>1. UNCHANGED progress /\ Latest <= Latest' /\ pc' # "summarise"
    BY <1>12 DEF FindSource, Goto, End, Latest, StepInv, TypeOK, StageAgrees
  <2> QED
    BY <1>2, <1>6, <1>7, <1>11, <2>1
<1>13. CASE MatchWords
  <2>1. Latest = 0 /\ pc' # "summarise"
    BY <1>13 DEF MatchWords, Matched, Goto, End, Latest
  <2>2. CASE Tell(<<"semantic", "normalize">>) /\ pc' = "normalise"
    <3>1. Latest' = 2
      BY <2>2 DEF Latest
    <3> QED
      BY <1>6, <1>9, <2>1, <2>2, <3>1
  <2>3. CASE UNCHANGED progress
    BY <1>6, <1>7, <1>11, <2>1, <2>3
  <2> QED
    BY <1>13, <2>2, <2>3 DEF MatchWords, Matched, Goto
<1>14. CASE SearchVectors
  <2>1. Latest = 0 /\ pc' # "summarise"
    BY <1>14 DEF SearchVectors, Matched, Goto, End, Latest
  <2>2. CASE Tell(<<"semantic", "normalize">>) /\ pc' = "normalise"
    <3>1. Latest' = 2
      BY <2>2 DEF Latest
    <3> QED
      BY <1>6, <1>9, <2>1, <2>2, <3>1
  <2>3. CASE UNCHANGED progress
    BY <1>6, <1>7, <1>11, <2>1, <2>3
  <2> QED
    BY <1>14, <2>2, <2>3 DEF SearchVectors, Matched, Goto
<1>15. CASE AskForFields
  <2>1. Latest = 0 /\ pc' # "summarise"
    BY <1>15 DEF AskForFields, Matched, Goto, End, Latest
  <2>2. CASE Tell(<<"semantic", "normalize">>) /\ pc' = "normalise"
    <3>1. Latest' = 2
      BY <2>2 DEF Latest
    <3> QED
      BY <1>6, <1>9, <2>1, <2>2, <3>1
  <2>3. CASE UNCHANGED progress
    BY <1>6, <1>7, <1>11, <2>1, <2>3
  <2> QED
    BY <1>15, <2>2, <2>3 DEF AskForFields, Matched, Goto
<1>16. CASE NormaliseColumn
  <2>1. UNCHANGED progress /\ Latest <= Latest' /\ pc' # "summarise"
    BY <1>16 DEF NormaliseColumn, Latest, StepInv, TypeOK, StageAgrees
  <2> QED
    BY <1>2, <1>6, <1>7, <1>11, <2>1
<1>17. CASE DetectQuantifier
  <2>1. CASE Tell(<<"generate">>)
    <3>0. "generate" \in Phases /\ progress' # progress
      BY <1>10, <2>1 DEF Phases
    <3>1. Latest < PhaseRank["generate"] /\ PhaseRank["generate"] <= Latest' /\ "generate" \in Phases
      BY <1>17, <2>1, <3>0, RankTypes DEF DetectQuantifier, Goto, End, Proposed, Latest, StepInv, TypeOK, StageAgrees, Statements, Phases
    <3>2. pc' = "summarise" => "generate" = "execute"
      BY <1>17 DEF DetectQuantifier, Goto, End
    <3> QED
      BY <1>6, <1>8, <2>1, <3>1, <3>2, RankTypes
  <2>2. CASE UNCHANGED progress
    <3>0. ~Tell(<<"generate">>)
      BY <1>10, <2>2 DEF Phases
    <3>1. Latest <= Latest' /\ pc' # "summarise"
      BY <1>17, <2>2, <3>0 DEF DetectQuantifier, Goto, End, Proposed, Latest, StepInv, TypeOK, StageAgrees, statement
    <3> QED
      BY <1>2, <1>6, <1>7, <1>11, <2>2, <3>1
  <2> QED
    BY <1>17, <2>1, <2>2 DEF DetectQuantifier
<1>18. CASE Generate
  <2>1. CASE Tell(<<"sql">>)
    <3>0. "sql" \in Phases /\ progress' # progress
      BY <1>10, <2>1 DEF Phases
    <3>1. Latest < PhaseRank["sql"] /\ PhaseRank["sql"] <= Latest' /\ "sql" \in Phases
      BY <1>18, <2>1, <3>0, RankTypes DEF Generate, Goto, End, Proposed, Latest, StepInv, TypeOK, StageAgrees, Statements, Phases
    <3>2. pc' = "summarise" => "sql" = "execute"
      BY <1>18 DEF Generate, Goto, End
    <3> QED
      BY <1>6, <1>8, <2>1, <3>1, <3>2, RankTypes
  <2>2. CASE UNCHANGED progress
    <3>0. ~Tell(<<"sql">>)
      BY <1>10, <2>2 DEF Phases
    <3>1. Latest <= Latest' /\ pc' # "summarise"
      BY <1>18, <2>2, <3>0 DEF Generate, Goto, End, Proposed, Latest, StepInv, TypeOK, StageAgrees, statement
    <3> QED
      BY <1>2, <1>6, <1>7, <1>11, <2>2, <3>1
  <2> QED
    BY <1>18, <2>1, <2>2 DEF Generate
<1>19. CASE Check
  <2>1. CASE Tell(<<"security">>)
    <3>0. "security" \in Phases /\ progress' # progress
      BY <1>10, <2>1 DEF Phases
    <3>1. Latest < PhaseRank["security"] /\ PhaseRank["security"] <= Latest' /\ "security" \in Phases
      BY <1>19, <2>1, <3>0, RankTypes DEF Check, Goto, End, Proposed, statement, Latest, StepInv, TypeOK, StageAgrees, Statements, Phases
    <3>2. pc' = "summarise" => "security" = "execute"
      BY <1>19 DEF Check, Goto, End
    <3> QED
      BY <1>6, <1>8, <2>1, <3>1, <3>2, RankTypes
  <2>2. CASE UNCHANGED progress
    <3>0. ~Tell(<<"security">>)
      BY <1>10, <2>2 DEF Phases
    <3>1. Latest <= Latest' /\ pc' # "summarise"
      BY <1>19, <2>2, <3>0 DEF Check, Goto, End, Proposed, Latest, StepInv, TypeOK, StageAgrees, statement
    <3> QED
      BY <1>2, <1>6, <1>7, <1>11, <2>2, <3>1
  <2> QED
    BY <1>19, <2>1, <2>2 DEF Check
<1>20. CASE Regenerate
  <2>1. UNCHANGED progress /\ Latest <= Latest' /\ pc' # "summarise"
    BY <1>20 DEF Regenerate, Goto, End, Latest, StepInv, TypeOK, StageAgrees
  <2> QED
    BY <1>2, <1>6, <1>7, <1>11, <2>1
<1>21. CASE Recheck
  <2>1. CASE Tell(<<"security">>)
    <3>0. "security" \in Phases /\ progress' # progress
      BY <1>10, <2>1 DEF Phases
    <3>1. Latest < PhaseRank["security"] /\ PhaseRank["security"] <= Latest' /\ "security" \in Phases
      BY <1>21, <2>1, <3>0, RankTypes DEF Recheck, Goto, End, Proposed, Latest, StepInv, TypeOK, StageAgrees, Statements, Phases
    <3>2. pc' = "summarise" => "security" = "execute"
      BY <1>21 DEF Recheck, Goto, End
    <3> QED
      BY <1>6, <1>8, <2>1, <3>1, <3>2, RankTypes
  <2>2. CASE UNCHANGED progress
    <3>0. ~Tell(<<"security">>)
      BY <1>10, <2>2 DEF Phases
    <3>1. Latest <= Latest' /\ pc' # "summarise"
      BY <1>21, <2>2, <3>0 DEF Recheck, Goto, End, Proposed, Latest, StepInv, TypeOK, StageAgrees, statement
    <3> QED
      BY <1>2, <1>6, <1>7, <1>11, <2>2, <3>1
  <2> QED
    BY <1>21, <2>1, <2>2 DEF Recheck
<1>22. CASE Gate
  <2>1. UNCHANGED progress /\ Latest <= Latest' /\ pc' # "summarise"
    BY <1>22 DEF Gate, Goto, End, statement, Latest, StepInv, TypeOK, StageAgrees
  <2> QED
    BY <1>2, <1>6, <1>7, <1>11, <2>1
<1>23. CASE Execute
  <2>1. CASE Tell(<<"execute">>)
    <3>0. "execute" \in Phases /\ progress' # progress
      BY <1>10, <2>1 DEF Phases
    <3>1. Latest < PhaseRank["execute"] /\ PhaseRank["execute"] <= Latest' /\ "execute" \in Phases
      BY <1>23, <2>1, <3>0, RankTypes DEF Execute, Goto, End, Proposed, Latest, StepInv, TypeOK, StageAgrees, Statements, Phases
    <3>2. pc' = "summarise" => "execute" = "execute"
      BY <1>23 DEF Execute, Goto, End
    <3> QED
      BY <1>6, <1>8, <2>1, <3>1, <3>2, RankTypes
  <2>2. CASE UNCHANGED progress
    <3>0. ~Tell(<<"execute">>)
      BY <1>10, <2>2 DEF Phases
    <3>1. Latest <= Latest' /\ pc' # "summarise"
      BY <1>23, <2>2, <3>0 DEF Execute, Goto, End, Proposed, Latest, StepInv, TypeOK, StageAgrees, statement
    <3> QED
      BY <1>2, <1>6, <1>7, <1>11, <2>2, <3>1
  <2> QED
    BY <1>23, <2>1, <2>2 DEF Execute
<1>24. CASE Summarise
  <2>1. UNCHANGED progress /\ Latest <= Latest' /\ pc' # "summarise"
    BY <1>24 DEF Summarise, Goto, End, Latest, StepInv, TypeOK, StageAgrees
  <2> QED
    BY <1>2, <1>6, <1>7, <1>11, <2>1
<1>25. CASE UNCHANGED vars
  <2>1. UNCHANGED progress /\ Latest' = Latest /\ pc' = pc
    BY <1>25 DEF vars, budget, doubts, statement, Latest
  <2> QED
    BY <1>1, <1>2, <1>6, <1>7, <1>11, <2>1
<1> QED
  BY <1>12, <1>13, <1>14, <1>15, <1>16, <1>17, <1>18, <1>19, <1>20, <1>21, <1>22, <1>23, <1>24, <1>25 DEF Next

\* Nothing is told out of order or twice.
THEOREM ToldOnceInOrder == Spec => []ToldInOrder
<1>1. Init => ToldInOrder
  BY EmptySeq DEF Init, ToldInOrder
<1>2. StepInv /\ ToldInOrder /\ [Next]_vars => ToldInOrder'
  BY OrderStep
<1> QED
  BY <1>1, <1>2, StepInvariant, PTL DEF Spec

\* A question takes at most MaxFields + 14 steps.
LEMMA StepBringsNearer ==
    ASSUME TypeOK, Next
    PROVE  StepsLeft' < StepsLeft /\ StepsLeft' \in Nat
<1> USE BudgetAssumption DEF TypeOK, StepsLeft, Weight, Goto, End, BeforeVerdict, BeforeStatement
<1>1. CASE FindSource
  BY <1>1 DEF FindSource, budget, doubts, statement
<1>2. CASE MatchWords
  BY <1>2 DEF MatchWords, Matched, budget, doubts, statement
<1>3. CASE SearchVectors
  BY <1>3 DEF SearchVectors, Matched, budget, doubts, statement
<1>4. CASE AskForFields
  BY <1>4 DEF AskForFields, Matched, budget, doubts, statement
<1>5. CASE NormaliseColumn
  BY <1>5 DEF NormaliseColumn, budget, doubts, statement
<1>6. CASE DetectQuantifier
  BY <1>6 DEF DetectQuantifier, budget, doubts, statement
<1>7. CASE Generate
  BY <1>7 DEF Generate, budget, doubts, statement
<1>8. CASE Check
  BY <1>8 DEF Check, budget, doubts, statement
<1>9. CASE Regenerate
  BY <1>9 DEF Regenerate, budget, doubts, statement
<1>10. CASE Recheck
  BY <1>10 DEF Recheck, budget, doubts, statement
<1>11. CASE Gate
  BY <1>11 DEF Gate, budget, doubts, statement
<1>12. CASE Execute
  BY <1>12 DEF Execute, budget, doubts, statement
<1>13. CASE Summarise
  BY <1>13 DEF Summarise, budget, doubts, statement
<1> QED
  BY <1>1, <1>2, <1>3, <1>4, <1>5, <1>6, <1>7, <1>8, <1>9, <1>10, <1>11, <1>12, <1>13 DEF Next

\* No question goes round in circles: each has at most MaxFields + 14 steps.
THEOREM QuestionsRunOut == Spec => StepsRunOut
<1>1. TypeOK /\ [Next]_vars => [StepsLeft' < StepsLeft /\ StepsLeft' \in Nat]_vars
  BY StepBringsNearer
<1> QED
  BY <1>1, TypeCorrect, PTL DEF Spec, StepsRunOut

\* Each step of run_single_step is one of the pipeline or none: what is told
\* keeps the order, what is sent was vetted, and what is answered fits.
LEMMA PipelineStep ==
    ASSUME StepInv, StepInv', ToldInOrder, ToldInOrder', [Next]_vars
    PROVE  [Question!Next]_(Question!vars)
<1> DEFINE Speaks ==
             \/ UNCHANGED progress
             \/ \E p \in DOMAIN PhaseRank : progress' = Append(progress, p)
             \/ \E p, q \in DOMAIN PhaseRank : progress' = progress \o <<p, q>>
           Sends == Told("security") /\ ran = "none" /\ ran' # "none"
           Suits == /\ answer.kind # "none" => (Told("execute") <=> answer.kind = "result")
                    /\ answer.kind = "confirm" => ~Told("sql")
<1>1. CASE UNCHANGED vars
  BY <1>1 DEF vars, budget, doubts, statement, Question!vars, Announced
<1>2. CASE Next
  <2>1. pc # "done" /\ answer = None /\ answer' \in Answers /\ progress \in Seq(Phases)
    <3>1. pc # "done"
      BY <1>2 DEF Next, FindSource, MatchWords, SearchVectors, AskForFields, NormaliseColumn,
         DetectQuantifier, Generate, Check, Regenerate, Recheck, Gate, Execute, Summarise
    <3> QED
      BY <3>1 DEF StepInv, StageAgrees, TypeOK
  <2>2. Speaks
    <3>1. \A p \in Phases : Tell(<<p>>) => progress' = Append(progress, p)
      BY <2>1, AppendIsConcat DEF Tell
    <3>2. /\ Phases = DOMAIN PhaseRank
          /\ {"semantic", "normalize", "generate", "sql", "security", "execute"} \subseteq Phases
      BY RankTypes DEF Phases
    <3>3. Tell(<<"semantic", "normalize">>) => Speaks
      BY <3>2 DEF Tell
    <3>4. \A p \in Phases : Tell(<<p>>) => Speaks
      BY <3>1, <3>2
    <3> HIDE DEF Speaks
    <3>5. UNCHANGED progress => Speaks
      BY DEF Speaks
    <3> QED
      BY <1>2, <3>2, <3>3, <3>4, <3>5 DEF Next, FindSource, MatchWords, SearchVectors,
         AskForFields, Matched, NormaliseColumn, DetectQuantifier, Generate, Check,
         Regenerate, Recheck, Gate, Execute, Summarise
  <2>3. Sends \/ UNCHANGED ran
    <3>1. CASE Execute
      BY <3>1 DEF Execute, StepInv, StageAgrees, ToldInTime, TypeOK, BeforeVerdict,
         BeforeStatement, Statements
    <3>2. CASE ~Execute
      BY <1>2, <3>2 DEF Next, FindSource, MatchWords, SearchVectors, AskForFields,
         NormaliseColumn, DetectQuantifier, Generate, Check, Regenerate, Recheck, Gate,
         Summarise
    <3> QED
      BY <3>1, <3>2
  <2>4. Suits'
    <3>1. CASE pc' # "done"
      BY <3>1 DEF StepInv, StageAgrees, None
    <3>2. CASE FindSource \/ AskForFields \/ Regenerate \/ Recheck
      <4>1. ~Told("execute")
        BY <3>2 DEF FindSource, AskForFields, Regenerate, Recheck, StepInv, ToldInTime,
           BeforeVerdict, BeforeStatement
      <4>2. CASE UNCHANGED progress /\ answer'.kind \in {"no_source", "no_match", "rejected"}
        BY <4>1, <4>2, ToldSame
      <4> QED
        BY <3>1, <3>2, <4>2 DEF FindSource, AskForFields, Matched, Regenerate, Recheck, Goto, End
    <3>3. CASE Gate
      <4>1. UNCHANGED progress /\ ~Told("execute")
        BY <3>3 DEF Gate, StepInv, ToldInTime
      <4>2. answer'.kind = "confirm" => ~Told("sql")
        <5>1. CASE sql # "none"
          BY <2>1, <3>3, <5>1 DEF Gate, Goto, None
        <5>2. CASE sql = "none"
          BY <3>3, <5>2, RankTypes DEF Gate, ToldInOrder, Latest, Told
        <5> QED
          BY <5>1, <5>2
      <4>3. answer'.kind # "result"
        BY <2>1, <3>3 DEF Gate, Goto, End, None
      <4> QED
        BY <4>1, <4>2, <4>3, ToldSame
    <3>4. CASE Execute
      <4>1. ~Told("execute")
        BY <3>4 DEF Execute, StepInv, ToldInTime
      <4>2. CASE End("exec_error", sql) /\ UNCHANGED progress
        BY <4>1, <4>2, ToldSame DEF End
      <4>3. CASE Tell(<<"execute">>) /\ End("result", sql)
        BY <2>1, <4>3, TellOne DEF End, Phases
      <4> QED
        BY <3>1, <3>4, <4>2, <4>3 DEF Execute, Goto
    <3>5. CASE Summarise
      <4>1. UNCHANGED progress /\ Told("execute") /\ answer'.kind = "result"
        BY <3>5 DEF Summarise, End, ToldInOrder
      <4> QED
        BY <4>1, ToldSame
    <3> QED
      BY <1>2, <3>1, <3>2, <3>3, <3>4, <3>5 DEF Next, MatchWords, SearchVectors, Matched,
         NormaliseColumn, DetectQuantifier, Generate, Check, Goto
  <2>5. /\ Announced = "pending"
        /\ Announced' \in Question!Outcome \union {"pending"}
        /\ Announced' = "pending" <=> answer'.kind = "none"
        /\ Announced' \in {"answered", "answered_unsure"} <=> answer'.kind = "result"
        /\ Announced' = "unsure" => answer'.kind = "confirm"
    <3>1. answer'.kind = "confirm" => answer'.confirm
      BY DEF StepInv, AnswerHonest
    <3>2. answer'.confirm \in BOOLEAN
      BY <2>1 DEF Answers
    <3> QED
      BY <2>1, <3>1, <3>2 DEF Announced, None, Question!Outcome
  <2>6. Question!Fits'
    <3>1. Told("execute")' => ran' # "none"
      BY DEF StepInv, ProgressTruthful, Told
    <3>2. answer'.kind = "confirm" => ran' = "none"
      BY DEF StepInv, AnswerHonest
    <3>3. \A p : Question!Heard(p)' <=> Told(p)'
      BY DEF Question!Heard, Told
    <3> HIDE DEF Announced
    <3> QED
      BY <2>4, <2>5, <3>1, <3>2, <3>3 DEF Question!Fits
  <2>7. Question!Tell /\ (Question!Send \/ UNCHANGED ran) /\ Question!InOrder'
    <3>1. Question!Tell
      BY <2>2 DEF Question!Tell
    <3>2. Question!Send \/ UNCHANGED ran
      BY <2>3 DEF Question!Send, Question!Heard, Told
    <3>3. Question!InOrder'
      BY DEF Question!InOrder, ToldInOrder
    <3> QED
      BY <3>1, <3>2, <3>3
  <2> HIDE DEF Speaks, Sends, Suits
  <2>8. Announced' \in Question!Outcome \/ Announced' = Announced
    BY <2>5
  <2> QED
    BY <2>5, <2>6, <2>7, <2>8 DEF Question!Next, Question!Conclude
<1> QED
  BY <1>1, <1>2

\* The pipeline task keeps to what the gateway counts on, for every question.
THEOREM SingleStepImplementsPipeline == Spec => ImplementsPipeline
<1>1. Init => Question!Init
  BY DEF Init, None, Question!Init, Announced
<1>2. StepInv /\ StepInv' /\ ToldInOrder /\ ToldInOrder' /\ [Next]_vars
      => [Question!Next]_(Question!vars)
  BY PipelineStep
<1> QED
  BY <1>1, <1>2, StepInvariant, ToldOnceInOrder, PTL DEF Spec, ImplementsPipeline, Question!Spec
=============================================================================
