SPECIFICATION Spec
CONSTANTS
  a = a
  b = b
  c = c
  w = w
  NumEntries = 4
  NumWindows = 8
  NumActions = 4
  NumBytes = 8
  Addresses = {a, b, c}
  Windows = {w}
  Responses <- AllResponses
  Paths <- BothPaths
  Extras <- OneExtra
INVARIANTS EntriesExact RulesWhole NoDuplicates PoolsExact
PROPERTIES PathLearnt OrderKept
