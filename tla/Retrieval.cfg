SPECIFICATION Spec
CONSTANTS
  d1 = d1
  d2 = d2
  d3 = d3
  p1 = p1
  p2 = p2
  p3 = p3
  v1 = v1
  v2 = v2
  c1 = c1
  c2 = c2
  Documents <- ThreeDocuments
  Providers <- ThreeProviders
  Versions <- TwoVersions
  VersionOf <- Declared
  Callers <- TwoCallers
  BatchSize = 1
  MaxChunks = 2
  MaxCalls = 4
  MaxExpired = 1
CHECK_DEADLOCK FALSE
CONSTANTS
  Lexical = Lexical
  NoProvider = NoProvider
SYMMETRY RetrievalSymmetry
INVARIANTS IngestedIsIndexed EmbedsWhatWasReserved HitsAreFreshAndComparable
PROPERTY SideBySide
