SPECIFICATION FairSpec
CONSTANTS
  a1 = a1
  a2 = a2
  a3 = a3
  c1 = c1
  c2 = c2
  Artifacts <- ThreeArtifacts
  Calls <- TwoCalls
  Demands <- AllDemands
  MaxGeneration = 5
  NoArtifact = NoArtifact
  NoCall = NoCall
CHECK_DEADLOCK FALSE
INVARIANT PointerAgrees
PROPERTIES EveryCallEnds ReplacementIsApproved ImplementsServingModel
