SPECIFICATION Spec
CONSTANTS
  MaxLlmCalls = 5
  MaxFields = 6
INVARIANTS NoRefusedRuns AnswerHonest ProgressTruthful SmallQuestionsSpared
PROPERTIES ImplementsPipeline
CHECK_DEADLOCK FALSE
