SPECIFICATION Spec
CONSTANTS
  building = building
  casefile = casefile
  None = None
  PublicSamples <- MCPublic
  VettedSamples <- MCVetted
  MaxGestures = 5
INVARIANTS TypeOK NothingRememberedUnshown CardsResolve AnswerHasItsEvidence SampleOncePerThread
CHECK_DEADLOCK FALSE
