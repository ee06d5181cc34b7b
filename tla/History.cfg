SPECIFICATION Spec
CONSTANTS
  Changes <- FourChanges
  Workers = {w1}
  MaxDepth = 2
  MaxNodes = 7
  MaxHistory = 1
  Days = 1
  MaxTime = 3
  None = None
INVARIANT HistoryIsOfTheWindow
