SPECIFICATION HostFairSpec
CONSTANTS
  red = red
  blue = blue
  None = None
  Calls = {first, second}
  first = first
  second = second
  Sims <- MCSims
  Weight <- MCWeight
  SimOutcomes <- MCSimOutcomes
  MaxPlans = 2
INVARIANTS
  HostTypeOK
  RankingIsSound
  AnswerIsOfOneEvaluation
  ConsentMissesOnlyByOverlap
PROPERTIES
  KeepsPromise
  GenerationIsAnswered
CHECK_DEADLOCK FALSE
