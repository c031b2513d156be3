SPECIFICATION Spec
CONSTANTS
  eviction = eviction
  filing = filing
  dobComplaint = dobComplaint
  Impossible <- MCImpossible
  Every = Every
  Misspelt = Misspelt
  open = open
  pending = pending
  east = east
  classA = classA
  e1 = e1
  e2 = e2
  e3 = e3
  Null = Null
  Blank = Blank
  Concluded <- MCConcluded
  Pairs <- MCPairs
  Litigation = filing
  Words <- MCWords
  Writings <- MCWritings
  StatusOf <- MCStatusOf
  ListedRaw <- MCListedRaw
  Events <- MCEvents
  Classes <- MCClasses
  RowCap = 2
  Limit = 1
SYMMETRY Sym
INVARIANTS TypeOK ToolsAgree NothingDropped
CHECK_DEADLOCK FALSE
