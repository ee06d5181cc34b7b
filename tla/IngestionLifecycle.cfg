SPECIFICATION FairSpec
CONSTANTS
  q1 = q1
  q2 = q2
  q3 = q3
  d1 = d1
  d2 = d2
  d3 = d3
  pub1 = pub1
  pub2 = pub2
  Requests <- TwoRequests
  Webhooks <- LifecycleWebhooks
  Contents <- TwoHeads
  Publishers = {}
  Faults <- AllFaults
  MaxPushes = 2
  NoWebhook = NoWebhook
  NoContent = NoContent
CHECK_DEADLOCK FALSE
PROPERTIES RevocationStands EveryRequestAnswered
