\* Two overlapping investigations; the process may stop once both have ended.
CONSTANTS
  None = None
  i1 = i1
  i2 = i2
  Runs <- MCRuns
  Calls <- MCCalls
  AgentCalls <- MCAgentCalls
  WEB_SEARCH_BUDGET = 1
  RECURSION_LIMIT = 5
  AGENT_LIMIT = 3
  KeyConfigured = TRUE
SPECIFICATION FairSpec
INVARIANTS
  TypeOK
  OverrunBounded
  SourcesKept
PROPERTIES
  InvestigationEnds
  ImplementsOutcome
CHECK_DEADLOCK FALSE
