SPECIFICATION FairSpec
CONSTANTS
  MaxQuestions = 4
  MaxBatch = 3
  MaxFaults = 2
INVARIANTS TypeOK AnsweredOnce LossNeedsFault
PROPERTIES EveryQuestionIsShown QuestionsAreSettled
