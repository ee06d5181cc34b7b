------------------------ MODULE WebhookIngestionProofs ------------------------
(***************************************************************************)
(* Proofs about WebhookIngestion for any number of requests, publishers,   *)
(* payloads and contents.  The two unique keys are the argument: while a   *)
(* transaction holds an uncommitted receipt or snapshot nobody else holds  *)
(* or has stored one with that key, so what its commit stores is new.      *)
(***************************************************************************)
EXTENDS WebhookIngestion, TLAPS

Lifecycles == {"active", "suspended", "revoked"}

\* Requests that the webhook quota has counted and not refused, and those in the transaction.
Inside  == {"begin", "validate", "insert", "staged", "new", "commit"}
Counted == {"find", "fetch"} \cup Inside
Pulls(q) == Action(q) \in PullRequestActions
Storing(q) == pc[q] = "commit" /\ Pulls(q)

\* What a request has, by the step it is at.
RequestInv ==
  \A q \in Requests :
    /\ pc[q] = "idle" <=> hook[q] = NoWebhook
    /\ pc[q] = "done" <=> reply[q] # "none"
    /\ pc[q] \in {"find", "fetch", "new"} => Pulls(q)
    /\ pc[q] \in Inside /\ Pulls(q) => fetched[q] \in Contents
    /\ pc[q] \in Counted => Delivery(q) \in charged

\* The unique key of receipts: one open transaction per delivery, and no stored receipt then.
ReceiptInv ==
  /\ \A d \in Deliveries : receipts[d] # NoWebhook => receipts[d].delivery = d
  /\ \A q \in Requests : ReceiptOpen(q) =>
       /\ ~HasReceipt(q)
       /\ \A r \in Requests : ReceiptOpen(r) /\ Delivery(r) = Delivery(q) => r = q

\* The unique key of snapshots, in the same way.
SnapshotInv ==
  \A q \in Requests : SnapshotOpen(q) =>
    /\ SameHead(q) = {}
    /\ \A r \in Requests : SnapshotOpen(r) /\ fetched[r].head = fetched[q].head => r = q

\* Snapshots, stored or about to be, are in the order of their insertion.
Inserted(c) == c \in snapshots \/ \E q \in Requests : Storing(q) /\ fetched[q] = c
OrderInv ==
  \A c, d \in Contents : Inserted(c) /\ Inserted(d) /\ c # d =>
    <<c, d>> \in created \/ <<d, c>> \in created

\* What a publisher has in hand is not older than what is shown.
Newer(c) == published \in {NoContent, c} \/ <<published, c>> \in created
PublishInv ==
  /\ published # NoContent => published \in snapshots
  /\ \A p \in Publishers : publishing[p] # NoContent =>
       publishing[p] \in snapshots /\ Newer(publishing[p])

\* What a request has read stands until another delivery saves the installation.
CopyInv == \A q \in Requests : Holding(q) => q \in overtaken \/ held[q] = installation

IInv ==
  /\ TypeOK /\ RequestInv /\ ReceiptInv /\ SnapshotInv /\ CopyInv
  /\ OneEffectPerDelivery /\ SnapshotLineage /\ StoredIsCharged

--------------------------------------------------------------------------------
(* Steps of a request that store nothing and take no key: where it goes, what  *)
(* it answers, and the content it has.                                         *)

Quiet(q, step, outcome, content) ==
  /\ UNCHANGED <<rows, created, repository, github, hook, admin, adv>>
  /\ charged \subseteq charged' /\ charged' \in SUBSET Deliveries
  /\ \/ pc[q] = "lookup" /\ held' = [held EXCEPT ![q] = installation]
     \/ UNCHANGED held /\ (pc[q] \in {"verified", "lookup"} => step \in {"lookup", "done"})
  /\ pc[q] \notin {"idle", "done"}
  /\ step \in Steps \ {"idle"} /\ outcome \in Replies \ {"accepted"}
  /\ content \in Contents \cup {NoContent}
  /\ pc' = [pc EXCEPT ![q] = step]
  /\ reply' = [reply EXCEPT ![q] = outcome]
  /\ fetched' = [fetched EXCEPT ![q] = content]
  /\ step = "done" <=> outcome # "none"
  /\ outcome = "deduplicated" => receipts[Delivery(q)] = hook[q]
  /\ step \in {"find", "fetch", "new"} => Pulls(q)
  /\ step \in Inside /\ Pulls(q) => content \in Contents
  /\ step \in Counted => Delivery(q) \in charged'
  /\ step \in {"staged", "new", "commit"} => pc[q] \in {"staged", "new", "commit"}
  /\ step = "commit" /\ Pulls(q) => content \in snapshots

LEMMA HookFacts ==
  ASSUME IInv, NEW q \in Requests, pc[q] # "idle"
  PROVE  /\ hook[q] \in Webhooks /\ hook[q] # NoWebhook
         /\ Delivery(q) \in Deliveries
  BY IngestionAssumption DEF IInv, TypeOK, Deliveries, Delivery

LEMMA QuietPreserves ==
  ASSUME IInv, NEW q \in Requests, NEW step, NEW outcome, NEW content,
         Quiet(q, step, outcome, content)
  PROVE  IInv'
<1> USE DEF Pulls, Action, Delivery
<1>1. TypeOK'
  BY DEF IInv, TypeOK, Quiet, rows, github, adv, Inside, Lifecycles
<1>2. RequestInv'
  BY DEF IInv, TypeOK, RequestInv, Quiet, Counted, Inside
<1>3. ReceiptInv'
  BY DEF IInv, TypeOK, ReceiptInv, Quiet, rows, ReceiptOpen, HasReceipt
<1>4. SnapshotInv'
  BY DEF IInv, TypeOK, SnapshotInv, Quiet, rows, SnapshotOpen, SameHead
<1>5. OneEffectPerDelivery'
  BY DEF IInv, TypeOK, RequestInv, OneEffectPerDelivery, Quiet, rows
<1>6. SnapshotLineage' /\ StoredIsCharged'
  BY DEF IInv, SnapshotLineage, StoredIsCharged, Quiet, rows
<1>7. CopyInv'
  BY DEF IInv, TypeOK, CopyInv, Holding, Quiet, rows
<1>. QED
  BY <1>1, <1>2, <1>3, <1>4, <1>5, <1>6, <1>7 DEF IInv

QuietAction(q) ==
  \/ CheckExisting(q) \/ ReadInstallation(q) \/ ReserveWebhookQuota(q)
  \/ WebhookQuotaExceeded(q) \/ FindRepository(q) \/ Fetch(q)
  \/ ValidateReceipt(q) \/ ReceiptRefused(q) \/ ReadSnapshot(q) \/ SnapshotRefused(q)
  \/ UpdateInstallation(q) \/ UpdateRepository(q) \/ AnalysisQuotaExceeded(q) \/ Crash(q)
QuietStep(q) == \E step, outcome, content : Quiet(q, step, outcome, content)

LEMMA QuietActionsAreQuiet ==
  ASSUME IInv, NEW q \in Requests, QuietAction(q)
  PROVE  QuietStep(q)
<1>. SUFFICES Quiet(q, pc'[q], reply'[q], fetched'[q])
  BY DEF QuietStep
<1>. USE HookFacts DEF IInv, TypeOK, RequestInv, Quiet, Goto, Answer, AnswerExisting, HasReceipt,
       rows, req, github, adv, Inside, Counted, Steps, Replies, Lifecycles, Pulls
<1>1. CASE CheckExisting(q)
  BY <1>1 DEF CheckExisting
<1>2. CASE ReadInstallation(q)
  BY <1>2 DEF ReadInstallation
<1>3. CASE ReserveWebhookQuota(q)
  BY <1>3 DEF ReserveWebhookQuota, Charge, AfterQuota
<1>4. CASE WebhookQuotaExceeded(q)
  BY <1>4 DEF WebhookQuotaExceeded
<1>5. CASE FindRepository(q)
  BY <1>5 DEF FindRepository
<1>6. CASE Fetch(q)
  BY <1>6 DEF Fetch
<1>7. CASE ValidateReceipt(q)
  BY <1>7 DEF ValidateReceipt
<1>8. CASE ReceiptRefused(q)
  BY <1>8 DEF ReceiptRefused
<1>9. CASE ReadSnapshot(q)
  BY <1>9 DEF ReadSnapshot, SameHead
<1>10. CASE SnapshotRefused(q)
  BY <1>10 DEF SnapshotRefused
<1>11. CASE UpdateInstallation(q)
  BY <1>11 DEF UpdateInstallation, PullRequestActions, InstallationActions
<1>12. CASE UpdateRepository(q)
  BY <1>12 DEF UpdateRepository, PullRequestActions, RepositoryActions
<1>13. CASE AnalysisQuotaExceeded(q)
  BY <1>13 DEF AnalysisQuotaExceeded
<1>14. CASE Crash(q)
  BY <1>14 DEF Crash
<1>. QED
  BY <1>1, <1>2, <1>3, <1>4, <1>5, <1>6, <1>7, <1>8, <1>9, <1>10, <1>11, <1>12, <1>13, <1>14
  DEF QuietAction

--------------------------------------------------------------------------------
(* Steps that take a key or store something *)

LEMMA ArrivePreserves ==
  ASSUME IInv, NEW q \in Requests, NEW w \in Webhooks, Arrive(q, w)
  PROVE  IInv'
<1>. USE DEF Pulls, Action, Delivery, Arrive, Goto
<1>1. TypeOK'
  BY IngestionAssumption DEF IInv, TypeOK, rows, github, adv, Steps
<1>2. RequestInv'
  BY IngestionAssumption DEF IInv, TypeOK, RequestInv, Counted, Inside
<1>3. ReceiptInv' /\ SnapshotInv'
  BY DEF IInv, TypeOK, ReceiptInv, SnapshotInv, rows, ReceiptOpen, SnapshotOpen, HasReceipt,
      SameHead
<1>4. OneEffectPerDelivery'
  BY DEF IInv, TypeOK, RequestInv, OneEffectPerDelivery, rows
<1>5. SnapshotLineage' /\ StoredIsCharged'
  BY DEF IInv, SnapshotLineage, StoredIsCharged, rows
<1>6. CopyInv'
  BY DEF IInv, TypeOK, CopyInv, Holding, rows
<1>. QED
  BY <1>1, <1>2, <1>3, <1>4, <1>5, <1>6 DEF IInv

LEMMA InsertReceiptPreserves ==
  ASSUME IInv, NEW q \in Requests, InsertReceipt(q)
  PROVE  IInv'
<1>. USE DEF Pulls, Action, Delivery, InsertReceipt, Goto
<1>1. TypeOK' /\ RequestInv'
  BY DEF IInv, TypeOK, RequestInv, rows, github, adv, Steps, Counted, Inside
<1>2. ReceiptInv'
  BY DEF IInv, TypeOK, ReceiptInv, rows, ReceiptOpen, ReceiptKeyFree, HasReceipt
<1>3. SnapshotInv'
  BY DEF IInv, TypeOK, SnapshotInv, rows, SnapshotOpen, SameHead
<1>4. OneEffectPerDelivery'
  BY DEF IInv, OneEffectPerDelivery, rows
<1>5. SnapshotLineage' /\ StoredIsCharged'
  BY DEF IInv, SnapshotLineage, StoredIsCharged, rows
<1>6. CopyInv'
  BY DEF IInv, TypeOK, CopyInv, Holding, rows
<1>. QED
  BY <1>1, <1>2, <1>3, <1>4, <1>5, <1>6 DEF IInv

LEMMA InsertSnapshotPreserves ==
  ASSUME IInv, NEW q \in Requests, InsertSnapshot(q)
  PROVE  IInv'
<1>. USE DEF Pulls, Action, Delivery, InsertSnapshot, Goto
<1>1. TypeOK' /\ RequestInv'
  BY DEF IInv, TypeOK, RequestInv, rows, github, adv, Steps, Counted, Inside
<1>2. ReceiptInv'
  BY DEF IInv, TypeOK, ReceiptInv, rows, ReceiptOpen, HasReceipt
<1>3. SnapshotInv'
  BY DEF IInv, TypeOK, SnapshotInv, rows, SnapshotOpen, SnapshotKeyFree, SameHead
<1>4. OneEffectPerDelivery'
  BY DEF IInv, OneEffectPerDelivery, rows
<1>5. SnapshotLineage' /\ StoredIsCharged'
  BY DEF IInv, SnapshotLineage, StoredIsCharged, rows
<1>6. CopyInv'
  BY DEF IInv, TypeOK, CopyInv, Holding, rows
<1>. QED
  BY <1>1, <1>2, <1>3, <1>4, <1>5, <1>6 DEF IInv

\* What is stored is new: neither key was stored, or held by another request.
LEMMA CommitPreserves ==
  ASSUME IInv, NEW q \in Requests, Commit(q)
  PROVE  IInv'
<1>. USE HookFacts DEF Pulls, Action, Delivery, Commit, Answer, Goto
<1>1. TypeOK'
  <2>1. /\ installation' \in [lifecycle : Lifecycles, revoked : BOOLEAN]
        /\ overtaken' \in SUBSET Requests
    <3>1. CASE Action(q) \in InstallationActions
      <4>1. Saved(q) \in [lifecycle : Lifecycles, revoked : BOOLEAN]
        BY <3>1 DEF IInv, TypeOK, Saved, Bound, LifecycleAfter, RevokedAfter,
                    InstallationActions, Lifecycles
      <4>. QED
        BY <3>1, <4>1 DEF IInv, TypeOK
    <3>2. CASE Action(q) \notin InstallationActions
      BY <3>2 DEF IInv, TypeOK, Lifecycles
    <3>. QED
      BY <3>1, <3>2
  <2>. QED
    BY <2>1 DEF IInv, TypeOK, RequestInv, github, adv, Steps, Replies, Inside, CreateJob, JobKey,
                Lifecycles
<1>2. RequestInv'
  BY DEF IInv, TypeOK, RequestInv, Counted, Inside
<1>3. ReceiptInv'
  BY DEF IInv, TypeOK, ReceiptInv, ReceiptOpen, HasReceipt
<1>4. SnapshotInv'
  BY DEF IInv, TypeOK, SnapshotInv, SnapshotOpen, SameHead
<1>5. OneEffectPerDelivery'
  BY DEF IInv, TypeOK, RequestInv, ReceiptInv, ReceiptOpen, HasReceipt, OneEffectPerDelivery
<1>6. SnapshotLineage'
  BY DEF IInv, TypeOK, ReceiptInv, SnapshotInv, ReceiptOpen, SnapshotOpen, SameHead, HasReceipt,
      SnapshotLineage, CreateJob, JobKey
<1>7. StoredIsCharged'
  BY DEF IInv, TypeOK, RequestInv, Counted, Inside, StoredIsCharged
<1>8. CopyInv'
  BY DEF IInv, TypeOK, CopyInv, Holding
<1>. QED
  BY <1>1, <1>2, <1>3, <1>4, <1>5, <1>6, <1>7, <1>8 DEF IInv

--------------------------------------------------------------------------------
(* Around the requests *)

LEMMA EnvironmentPreserves ==
  ASSUME IInv,
         \/ \E c \in Contents : Push(c)
         \/ \E lifecycle \in {"active", "disabled"} : AdminRead(lifecycle)
         \/ AdminSave
         \/ \E p \in Publishers : (\E c \in Contents : PublishCheck(p, c)) \/ PublishReport(p)
         \/ UNCHANGED vars
  PROVE  IInv'
<1>1. UNCHANGED <<rows, charged, req>>
  BY DEF Push, AdminRead, AdminSave, PublishCheck, PublishReport, vars
<1>2. TypeOK'
  <2>. USE DEF IInv, TypeOK, Action, rows, req, github, adv
  <2>1. CASE \E c \in Contents : Push(c)
    BY <2>1, IngestionAssumption DEF Push
  <2>2. CASE \E lifecycle \in {"active", "disabled"} : AdminRead(lifecycle)
    BY <2>2 DEF AdminRead
  <2>3. CASE AdminSave
    BY <2>3 DEF AdminSave
  <2>4. CASE \E p \in Publishers : (\E c \in Contents : PublishCheck(p, c)) \/ PublishReport(p)
    BY <2>4 DEF PublishCheck, PublishReport
  <2>5. CASE UNCHANGED vars
    BY <2>5 DEF vars
  <2>. QED
    BY <2>1, <2>2, <2>3, <2>4, <2>5
<1>3. RequestInv' /\ ReceiptInv' /\ SnapshotInv' /\ CopyInv'
  BY <1>1 DEF IInv, RequestInv, ReceiptInv, SnapshotInv, CopyInv, Holding, rows, req, ReceiptOpen,
      SnapshotOpen, HasReceipt, SameHead, Pulls, Action, Delivery
<1>4. OneEffectPerDelivery' /\ SnapshotLineage' /\ StoredIsCharged'
  BY <1>1 DEF IInv, OneEffectPerDelivery, SnapshotLineage, StoredIsCharged,
      rows, req, Delivery
<1>. QED
  BY <1>2, <1>3, <1>4 DEF IInv

LEMMA NextPreserves ==
  ASSUME IInv, [Next]_vars
  PROVE  IInv'
<1>1. ASSUME NEW q \in Requests, QuietAction(q) PROVE IInv'
  BY <1>1, QuietActionsAreQuiet, QuietPreserves DEF QuietStep
<1>. QED
  BY <1>1, ArrivePreserves, InsertReceiptPreserves, InsertSnapshotPreserves, CommitPreserves,
     EnvironmentPreserves DEF Next, Step, QuietAction

LEMMA InitEstablishes == Init => IInv
<1>. SUFFICES ASSUME Init PROVE IInv
  OBVIOUS
<1>. USE DEF Init, Bound
<1>1. TypeOK
  BY IngestionAssumption DEF TypeOK, Steps, Replies, Deliveries
<1>2. RequestInv /\ ReceiptInv /\ SnapshotInv /\ CopyInv
  BY DEF RequestInv, ReceiptInv, SnapshotInv, CopyInv, Holding, ReceiptOpen, SnapshotOpen, Counted,
     Inside
<1>3. OneEffectPerDelivery /\ SnapshotLineage /\ StoredIsCharged
  BY DEF OneEffectPerDelivery, SnapshotLineage, StoredIsCharged
<1>. QED
  BY <1>1, <1>2, <1>3 DEF IInv

\* The inductive invariant holds in every state, for any requests, payloads, contents,
\* publishers, faults and bounds.
THEOREM IngestionInvariant == Spec => []IInv
<1>1. Init => IInv
  BY InitEstablishes
<1>2. IInv /\ [Next]_vars => IInv'
  BY NextPreserves
<1>. QED
  BY <1>1, <1>2, PTL DEF Spec

\* Types of receipts, snapshots, requests and publications.
THEOREM TypeCorrect == Spec => []TypeOK
<1>1. IInv => TypeOK
  BY DEF IInv
<1>. QED
  BY <1>1, IngestionInvariant, PTL

\* However many requests carry a delivery, at once or after one another, one of them brings
\* it in, and who is told that it is stored finds it stored.
THEOREM DeliveriesTakeEffectOnce == Spec => []OneEffectPerDelivery
<1>1. IInv => OneEffectPerDelivery
  BY DEF IInv
<1>. QED
  BY <1>1, IngestionInvariant, PTL

\* A snapshot has its receipt and its job and is the only one of its head, whatever crashes
\* and whoever else stores the same head.
THEOREM SnapshotsHaveLineage == Spec => []SnapshotLineage
<1>1. IInv => SnapshotLineage
  BY DEF IInv
<1>. QED
  BY <1>1, IngestionInvariant, PTL

\* Nothing is stored that the quota did not count.
THEOREM StoredDeliveriesAreCharged == Spec => []StoredIsCharged
<1>1. IInv => StoredIsCharged
  BY DEF IInv
<1>. QED
  BY <1>1, IngestionInvariant, PTL

\* Only deletions make and only creations and ends of suspensions erase the record of a
\* revocation, except for a suspension overtaken by the saving of another delivery: until
\* then its request holds the record that it saves.
THEOREM RevocationsStand == Spec => RevocationStands
<1>1. IInv /\ [Next]_vars =>
        [installation'.revoked # installation.revoked =>
           \E q \in Requests :
             /\ pc[q] = "commit" /\ reply'[q] = "accepted"
             /\ \/ Action(q) \in IF installation'.revoked THEN {"deleted"}
                                                         ELSE {"created", "unsuspend"}
                \/ Action(q) = "suspend" /\ q \in overtaken]_installation
  <2>. SUFFICES ASSUME IInv, [Next]_vars, installation' # installation,
                       installation'.revoked # installation.revoked
                PROVE  \E q \in Requests :
                         /\ pc[q] = "commit" /\ reply'[q] = "accepted"
                         /\ \/ Action(q) \in IF installation'.revoked THEN {"deleted"}
                                                                     ELSE {"created", "unsuspend"}
                            \/ Action(q) = "suspend" /\ q \in overtaken
    OBVIOUS
  <2>1. ASSUME NEW q \in Requests, QuietAction(q) PROVE UNCHANGED installation
    BY <2>1, QuietActionsAreQuiet DEF QuietStep, Quiet, rows
  <2>2. PICK q \in Requests : Commit(q)
    BY <2>1 DEF Next, Step, QuietAction, Arrive, InsertReceipt, InsertSnapshot, Push, AdminRead,
                AdminSave, PublishCheck, PublishReport, rows, vars
  <2>3. Action(q) \in InstallationActions /\ installation'.revoked = RevokedAfter(q)
    BY <2>2 DEF Commit, Saved, Bound
  <2>4. pc[q] = "commit" /\ reply'[q] = "accepted"
    BY <2>2 DEF Commit, Answer, IInv, TypeOK
  <2>5. q \in overtaken \/ held[q] = installation
    BY <2>4 DEF IInv, CopyInv, Holding
  <2>6. installation.revoked \in BOOLEAN /\ installation'.revoked \in BOOLEAN
    BY NextPreserves DEF IInv, TypeOK
  <2>7. CASE q \in overtaken /\ Action(q) = "suspend"
    BY <2>4, <2>7
  <2>8. CASE held[q] = installation /\ Action(q) = "suspend"
    BY <2>3, <2>6, <2>8 DEF RevokedAfter
  <2>9. CASE Action(q) = "deleted"
    BY <2>3, <2>4, <2>9 DEF RevokedAfter
  <2>10. CASE Action(q) \in {"created", "unsuspend"}
    BY <2>3, <2>4, <2>10 DEF RevokedAfter
  <2>. QED
    BY <2>3, <2>5, <2>7, <2>8, <2>9, <2>10 DEF InstallationActions
<1>. QED
  BY <1>1, IngestionInvariant, PTL DEF Spec, RevocationStands

--------------------------------------------------------------------------------
(* One publisher *)

\* Stored snapshots stay, and no stored one is inserted again: the order among them is fixed.
LEMMA StoredOrderIsFixed ==
  ASSUME IInv, [Next]_vars
  PROVE  /\ snapshots \subseteq snapshots'
         /\ \A c \in snapshots : \A d : <<c, d>> \in created => <<c, d>> \in created'
<1>1. CASE \E q \in Requests : InsertSnapshot(q)
  BY <1>1 DEF InsertSnapshot, SnapshotKeyFree, SameHead, rows
<1>2. CASE \E q \in Requests : Commit(q)
  BY <1>2 DEF Commit
<1>3. ASSUME NEW q \in Requests, QuietAction(q)
      PROVE  UNCHANGED <<snapshots, created>>
  BY <1>3, QuietActionsAreQuiet DEF QuietStep, Quiet, rows
<1>. QED
  BY <1>1, <1>2, <1>3
  DEF Next, Step, QuietAction, Arrive, InsertReceipt, Push, AdminRead, AdminSave, PublishCheck,
      PublishReport, rows, vars

LEMMA OrderPreserved ==
  ASSUME IInv, OrderInv, [Next]_vars
  PROVE  OrderInv'
<1>1. ASSUME NEW q \in Requests, InsertSnapshot(q) PROVE OrderInv'
  <2>1. \A c \in Contents : Inserted(c)' => Inserted(c) \/ c = fetched[q]
    BY <1>1 DEF InsertSnapshot, Goto, Inserted, Storing, Pulls, Action, IInv, TypeOK, rows
  <2>2. fetched[q] \in Contents
    BY <1>1 DEF InsertSnapshot, IInv, RequestInv, Inside
  <2>. QED
    BY <1>1, <2>1, <2>2 DEF OrderInv, InsertSnapshot
<1>2. ASSUME UNCHANGED created, \A c \in Contents : Inserted(c)' => Inserted(c)
      PROVE  OrderInv'
  BY <1>2 DEF OrderInv
<1>3. ASSUME NEW q \in Requests, Commit(q) PROVE OrderInv'
  <2>1. \A c \in Contents : Inserted(c)' => Inserted(c)
    BY <1>3 DEF Commit, Answer, Goto, Inserted, Storing, Pulls, Action, IInv, TypeOK
  <2>. QED
    BY <1>2, <1>3, <2>1 DEF Commit
<1>4. ASSUME NEW q \in Requests, QuietAction(q) PROVE OrderInv'
  <2>1. QuietStep(q)
    BY <1>4, QuietActionsAreQuiet
  <2>2. \A c \in Contents : Inserted(c)' => Inserted(c)
    BY <2>1 DEF QuietStep, Quiet, Inserted, Storing, Pulls, Action, IInv, TypeOK, rows
  <2>. QED
    BY <1>2, <2>1, <2>2 DEF QuietStep, Quiet
<1>5. ASSUME NEW q \in Requests, (\E w \in Webhooks : Arrive(q, w)) \/ InsertReceipt(q)
      PROVE  OrderInv'
  <2>1. \A c \in Contents : Inserted(c)' => Inserted(c)
    BY <1>5 DEF Arrive, InsertReceipt, Goto, Inserted, Storing, Pulls, Action, IInv, TypeOK, rows
  <2>. QED
    BY <1>2, <1>5, <2>1 DEF Arrive, InsertReceipt
<1>6. ASSUME UNCHANGED <<rows, created, req>> PROVE OrderInv'
  BY <1>2, <1>6 DEF Inserted, Storing, Pulls, Action, rows, req
<1>. QED
  BY <1>1, <1>3, <1>4, <1>5, <1>6
  DEF Next, Step, QuietAction, Push, AdminRead, AdminSave, PublishCheck, PublishReport, vars

\* What becomes the latest is younger than every other stored snapshot.
LEMMA LatestIsNewer ==
  ASSUME IInv, OrderInv, PublishInv, NEW c, IsLatest(c)
  PROVE  Newer(c)
  BY DEF IInv, TypeOK, OrderInv, PublishInv, IsLatest, Newer, Inserted

LEMMA PublishPreserved ==
  ASSUME IInv, OrderInv, PublishInv, [Next]_vars,
         \A p, r \in Publishers : p = r
  PROVE  PublishInv'
<1>1. ASSUME NEW p \in Publishers, NEW c \in Contents, PublishCheck(p, c) PROVE PublishInv'
  <2>1. c \in snapshots /\ Newer(c)
    BY <1>1, LatestIsNewer DEF PublishCheck, IsLatest
  <2>2. /\ UNCHANGED <<snapshots, created, published>>
        /\ \A r \in Publishers : publishing'[r] = IF r = p THEN c ELSE publishing[r]
    BY <1>1 DEF PublishCheck, rows, IInv, TypeOK
  <2>. QED
    BY <2>1, <2>2 DEF PublishInv, Newer
<1>2. ASSUME NEW p \in Publishers, PublishReport(p) PROVE PublishInv'
  BY <1>2 DEF PublishReport, PublishInv, rows, IInv, TypeOK
<1>3. ASSUME UNCHANGED adv PROVE PublishInv'
  BY <1>3, StoredOrderIsFixed DEF PublishInv, Newer, adv
<1>4. ASSUME NEW q \in Requests, QuietAction(q) PROVE UNCHANGED adv
  BY <1>4, QuietActionsAreQuiet DEF QuietStep, Quiet
<1>. QED
  BY <1>1, <1>2, <1>3, <1>4
  DEF Next, Step, QuietAction, Arrive, InsertReceipt, InsertSnapshot, Commit, Push, AdminRead,
      AdminSave, vars

\* A single publisher replaces what it shows by younger snapshots only, whatever order
\* requests insert and commit them in.
THEOREM OnePublisherKeepsOrder ==
  ASSUME \A p, r \in Publishers : p = r
  PROVE  Spec => PublisherKeepsOrder
<1>1. Init => OrderInv /\ PublishInv
  BY DEF Init, OrderInv, Inserted, Storing, PublishInv
<1>2. IInv /\ OrderInv /\ PublishInv /\ [Next]_vars => OrderInv' /\ PublishInv'
  BY OrderPreserved, PublishPreserved
<1>3. IInv /\ PublishInv /\ [Next]_vars =>
        [published # NoContent => <<published, published'>> \in created]_published
  <2>. SUFFICES ASSUME IInv, PublishInv, [Next]_vars, published' # published, published # NoContent
                PROVE  <<published, published'>> \in created
    OBVIOUS
  <2>1. ASSUME NEW q \in Requests, QuietAction(q) PROVE UNCHANGED published
    BY <2>1, QuietActionsAreQuiet DEF QuietStep, Quiet, adv
  <2>2. PICK p \in Publishers : PublishReport(p)
    BY <2>1 DEF Next, Step, QuietAction, Arrive, InsertReceipt, InsertSnapshot, Commit, Push,
                AdminRead, AdminSave, PublishCheck, adv, vars
  <2>. QED
    BY <2>2 DEF PublishReport, PublishInv, Newer
<1>. QED
  BY <1>1, <1>2, <1>3, IngestionInvariant, PTL DEF Spec, PublisherKeepsOrder

--------------------------------------------------------------------------------
(* Refinement *)

LEMMA DurableStep ==
  ASSUME IInv, [Next]_vars
  PROVE  [Durable!Next]_(Durable!vars)
<1>1. ASSUME NEW q \in Requests, Commit(q) PROVE Durable!Next
  <2>1. /\ hook[q] \in Webhooks
        /\ receipts[hook[q].delivery] = NoWebhook
        /\ receipts' = [receipts EXCEPT ![hook[q].delivery] = hook[q]]
    BY <1>1, HookFacts DEF Commit, IInv, ReceiptInv, ReceiptOpen, HasReceipt, Delivery
  <2>2. CASE Pulls(q)
    <3>1. fetched[q] \in Contents
      BY <1>1, <2>2 DEF Commit, IInv, RequestInv, Inside
    <3>2. \A d \in snapshots : d.head = fetched[q].head => d = fetched[q]
      BY <1>1, <2>2 DEF Commit, IInv, SnapshotInv, SnapshotOpen, SameHead, SnapshotLineage, Pulls
    <3>3. snapshots' = snapshots \cup {fetched[q]} /\ jobs' = jobs \cup {fetched[q]}
      BY <1>1, <2>2 DEF Commit, Pulls, CreateJob, JobKey
    <3>4. Durable!AcceptPullRequest(hook[q], fetched[q])
      BY <2>1, <2>2, <3>2, <3>3
      DEF Durable!AcceptPullRequest, Durable!Receive, Pulls, PullRequestActions, Action
    <3>. QED
      BY <2>1, <3>1, <3>4 DEF Durable!Next
  <2>3. CASE ~Pulls(q)
    <3>1. snapshots' = snapshots /\ jobs' = jobs \cup {hook[q].delivery}
      BY <1>1, <2>3 DEF Commit, Pulls, CreateJob, JobKey, Delivery
    <3>2. Durable!AcceptLifecycle(hook[q])
      BY <2>1, <2>3, <3>1
      DEF Durable!AcceptLifecycle, Durable!Receive, Pulls, PullRequestActions, Action
    <3>. QED
      BY <2>1, <3>2 DEF Durable!Next
  <2>. QED
    BY <2>2, <2>3
<1>2. ASSUME NEW q \in Requests, QuietAction(q) PROVE UNCHANGED Durable!vars
  BY <1>2, QuietActionsAreQuiet DEF QuietStep, Quiet, rows, Durable!vars
<1>. QED
  BY <1>1, <1>2
  DEF Next, Step, QuietAction, Arrive, InsertReceipt, InsertSnapshot, Push, AdminRead, AdminSave,
      PublishCheck, PublishReport, rows, vars, Durable!vars

\* Whatever the requests do side by side, a delivery is stored with its job and its snapshot
\* as if it had been handled in one step, and once.
THEOREM Refinement == Spec => ImplementsDurableIngestion
<1>1. Init => Durable!Init
  BY DEF Init, Durable!Init, Deliveries
<1>2. IInv /\ [Next]_vars => [Durable!Next]_(Durable!vars)
  BY DurableStep
<1>. QED
  BY <1>1, <1>2, IngestionInvariant, PTL DEF Spec, ImplementsDurableIngestion, Durable!Spec

================================================================================
