\* Every request of the gate, every provider, every answer of a model.
SPECIFICATION Spec
INVARIANTS TypeOK OtherRequestsTaken AnswersPassTwice LocalAdviceResolves
CONSTANTS
  Plans <- MCPlans
  Samples <- MCSamples
  Providers <- MCProviders
  ModelAnswers <- MCModelAnswers
  LongSegments <- MCLongSegments
  MinimumConfidence = 8000
  LargestShortFloat = 9
  MaxInt = 7
CHECK_DEADLOCK FALSE
