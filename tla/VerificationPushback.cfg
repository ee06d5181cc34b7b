SPECIFICATION Spec
CONSTANTS
  h1 = h1
  h2 = h2
  x = x
  y = y
  z = z
  i1 = i1
  i2 = i2
  k1 = k1
  k2 = k2
  Heads <- TwoHeads
  Evidenced <- BothHeads
  Contents <- ThreeContents
  Valid <- OneValid
  Images <- TwoImages
  Keys <- TwoKeys
  Attempts <- OneAttempt
  Reports <- SomeReports
  Citations <- AllOrAllButOne
  Band <- LowThenHigh
  Retrieved <- BothHeads
  MaxPlans = 2
  MaxResults = 0
  NoHead = NoHead
  NoContent = NoContent
  NoRun = NoRun
  NoTx = NoTx
CHECK_DEADLOCK FALSE
SYMMETRY ChainSymmetry
INVARIANT ApprovalFollowsHead
