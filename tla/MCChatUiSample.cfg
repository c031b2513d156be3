SPECIFICATION Spec
CONSTANTS
  building = building
  casefile = casefile
  None = None
  PublicSamples <- MCPublic
  VettedSamples <- MCVetted
  MaxGestures = 4
INVARIANTS SampleSubmittedOnce
CHECK_DEADLOCK FALSE
