SPECIFICATION StreamSpec
CONSTANTS
  record = record
  membership = membership
  compare = compare
  investigation = investigation
  cypher = cypher
  search = search
  typo = typo
  Unknown = Unknown
  Missing = Missing
  Functions <- MCFunctions
  Declared <- MCDeclared
  Delegates <- MCDelegates
  Deep = investigation
  MaxModelCalls = 3
  MaxParallel = 2
  StepLimit = 2
INVARIANTS StreamTypeOK GatedNeedsVetted OfferedIsEntitled OnlyGatedRefused CaveatsTravel
           EvidenceIsTheTurns EveryCallPriced InvestigationHasPanel
