---------------------------- MODULE DurableIngestion ----------------------------
(***************************************************************************)
(* What webhook ingestion promises, with requests, locks and the provider  *)
(* hidden: a delivery is stored at most once, for good, together with its  *)
(* job and, for a pull request, with a snapshot of which there is one per  *)
(* head.                                                                   *)
(***************************************************************************)
CONSTANTS
  Webhooks,    \* signed payloads: [delivery, action]
  Contents,    \* what a snapshot may hold: [head, text]
  NoWebhook

VARIABLES
  receipts,    \* the payload stored for each delivery
  snapshots,   \* snapshots stored
  jobs         \* jobs requested, by delivery or by content

vars == <<receipts, snapshots, jobs>>

Init ==
  /\ receipts = [d \in {w.delivery : w \in Webhooks} |-> NoWebhook]
  /\ snapshots = {}
  /\ jobs = {}

Receive(w) ==
  /\ receipts[w.delivery] = NoWebhook
  /\ receipts' = [receipts EXCEPT ![w.delivery] = w]

AcceptLifecycle(w) ==
  /\ w.action # "pull_request"
  /\ Receive(w)
  /\ jobs' = jobs \cup {w.delivery}
  /\ UNCHANGED snapshots

AcceptPullRequest(w, c) ==
  /\ w.action = "pull_request"
  /\ \A d \in snapshots : d.head = c.head => d = c
  /\ Receive(w)
  /\ snapshots' = snapshots \cup {c}
  /\ jobs' = jobs \cup {c}

Next == \E w \in Webhooks : AcceptLifecycle(w) \/ \E c \in Contents : AcceptPullRequest(w, c)

Spec == Init /\ [][Next]_vars
================================================================================
