\* Two turns of a thread, idle timeout of one tick.  The user may simply stop.
CONSTANTS
  None = None
  l1 = l1
  l2 = l2
  b1 = b1
  r1 = r1
  r2 = r2
  Landlords <- MCLandlords
  Buildings <- MCBuildings
  Reports <- MCReports
  CandidateLists <- MCCandidateLists
  Payloads <- MCPayloads
  Texts <- MCTexts
  Timeout = 1
  MaxTime = 3
  MaxResults = 2
  MaxTurns = 2
  MaxOrdinal = 2
SPECIFICATION Spec
INVARIANTS
  TypeOK
  HeldMeansStamped
  Grounded
  CompletedTurnRemembered
PROPERTIES
  FreshReferences
  NeverGuesses
  ForgottenOnlyWhenIdle
  DurableSlotsSurvive
  ImplementsThreadMemory
CHECK_DEADLOCK FALSE
