--------------------------- MODULE MCWebhookIngestion ---------------------------
(* Model values for webhook ingestion.  Two contents share a head (an edited       *)
(* title), the third is a later head; two payloads share a delivery.               *)
EXTENDS WebhookIngestion, TLC

CONSTANTS q1, q2, q3, d1, d2, d3, pub1, pub2

TwoRequests   == {q1, q2}
ThreeRequests == {q1, q2, q3}
OnePublisher  == {pub1}
TwoPublishers == {pub1, pub2}

Hook(d, a)    == [delivery |-> d, action |-> a]
Snap(h, t)    == [head |-> h, text |-> t]

PullWebhooks  == {Hook(d1, "pull_request"), Hook(d2, "pull_request"), Hook(d1, "suspend")}
LifecycleWebhooks ==
  {Hook(d1, "pull_request"), Hook(d2, "suspend"), Hook(d2, "removed"), Hook(d3, "deleted"),
   Hook(d3, "added"), Hook(d1, "unsuspend")}
TwoPulls      == {Hook(d1, "pull_request"), Hook(d2, "pull_request")}

ThreeContents == {Snap(1, "title"), Snap(1, "edited"), Snap(2, "title")}
TwoHeads      == {Snap(1, "title"), Snap(2, "title")}

\* Requests are interchangeable; used with invariants and step properties only.
RequestSymmetry == Permutations(ThreeRequests)

AllFaults     == FaultKinds
RequestFaults == {"crash", "provider", "quota"}
NoFaults      == {}
================================================================================
