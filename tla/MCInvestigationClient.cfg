\* One investigation, the first to use the search client.
CONSTANTS
  None = None
  i1 = i1
  i2 = i2
  Runs <- MCOneRun
  Calls <- MCOneRunCalls
  AgentCalls <- MCAgentCalls
  WEB_SEARCH_BUDGET = 1
  RECURSION_LIMIT = 5
  AGENT_LIMIT = 3
  KeyConfigured = TRUE
SPECIFICATION Spec
INVARIANT
  ClientWhenConfigured
CHECK_DEADLOCK FALSE
