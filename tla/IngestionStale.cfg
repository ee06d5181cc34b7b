SPECIFICATION Spec
CONSTANTS
  q1 = q1
  q2 = q2
  q3 = q3
  d1 = d1
  d2 = d2
  d3 = d3
  pub1 = pub1
  pub2 = pub2
  Requests <- TwoRequests
  Webhooks <- TwoPulls
  Contents <- TwoHeads
  Publishers <- TwoPublishers
  Faults <- NoFaults
  MaxPushes = 2
  NoWebhook = NoWebhook
  NoContent = NoContent
CHECK_DEADLOCK FALSE
PROPERTY NewestHeadStands
