SPECIFICATION Spec
CONSTANTS
  l1 = l1
  l2 = l2
  l3 = l3
  party = party
  b1 = b1
  b2 = b2
  p1 = p1
  cox = cox
  aaron = aaron
  r = r
  s = s
  llc = llc
  aaronCox = aaronCox
  mark = mark
  None = None
  Unknown = Unknown
  Token <- MCToken
  Initial = {"r", "s"}
  LegalForm = {"llc"}
  Word = {cox, aaron, r, s, llc, aaronCox, mark}
  TokensOf <- MCTokensOf
  Actor = {l1, l2, l3, party}
  Landlord = {l1, l2, l3}
  Building = {b1, b2}
  Portfolio = {p1}
  Graphs <- MCGraphs
  Queries <- MCQueries
  FetchLimit = 2
  TraceLimit = 2
  MaxCandidates = 1
  RegisteredCap = 1
  ControllerCap = 1
  HandleCap = 2
  MaxAnswers = 2
CHECK_DEADLOCK FALSE
INVARIANTS TrueTotals
