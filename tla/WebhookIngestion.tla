--------------------------- MODULE WebhookIngestion ---------------------------
(***************************************************************************)
(* Signed GitHub deliveries for one installation, one of its repositories  *)
(* and one pull request, handled by concurrent web requests.               *)
(*                                                                         *)
(* A request reads the receipts, the installation and the repository,      *)
(* charges its own quota transaction and asks the provider for the pull    *)
(* request before it opens the transaction that stores everything.  Each   *)
(* of these is a step of its own.  Inside the transaction a step is a      *)
(* statement another request can wait for or be refused by: a unique key   *)
(* that is inserted but not committed blocks, one that is committed fails. *)
(***************************************************************************)
EXTENDS Naturals

CONSTANTS
  Requests,    \* web requests, each carrying one delivery
  Webhooks,    \* signed payloads: [delivery, action]; unequal payloads may share a delivery
  Contents,    \* what the pull request may contain: [head, text]
  Publishers,  \* processes that publish the advisory of a snapshot
  Faults,      \* which of FaultKinds the environment may inject
  MaxPushes,   \* bound on changes of the pull request
  NoWebhook, NoContent

Deliveries == {w.delivery : w \in Webhooks}
FaultKinds ==
  {"crash",        \* the web process of a request dies
   "provider",     \* GitHub is unavailable
   "quota",        \* a quota of the organization is used up
   "admin"}        \* an administrator enables or disables the repository

PullRequestActions  == {"pull_request"}   \* opened, synchronize, reopened
InstallationActions == {"created", "unsuspend", "suspend", "deleted"}
RepositoryActions   == {"added", "removed"}

ASSUME IngestionAssumption ==
  /\ \A w \in Webhooks :
       w.action \in PullRequestActions \cup InstallationActions \cup RepositoryActions
  /\ NoWebhook \notin Webhooks /\ NoContent \notin Contents
  /\ Contents # {} /\ Contents \cap Deliveries = {}
  /\ Faults \subseteq FaultKinds
  /\ MaxPushes \in Nat

VARIABLES
  receipts,      \* WebhookReceipt of each delivery
  snapshots,     \* PullRequestSnapshot rows
  created,       \* pairs of contents, the first with the earlier created_at, uncommitted
                 \*   snapshots included
  firstReceipt,  \* PullRequestSnapshot.first_receipt
  jobs,          \* idempotency keys of AnalysisJob rows: a content or a delivery
  charged,       \* deliveries with a webhook quota reservation
  installation,  \* [lifecycle, revoked]: GitHubInstallation.lifecycle, revoked_at is set
  overtaken,     \* history: requests whose installation, as read, was saved by another since
  repository,    \* Repository.lifecycle
  head, pushes,  \* the pull request at GitHub, and how often it changed
  headAt,        \* history: the push that last made a content the head
  pc, hook, held, fetched,   \* per request: step, delivery, installation as read, answer
  reply,         \* per request: the outcome it was answered with
  admin,         \* the lifecycle an administrator's request is about to save
  publishing, published      \* snapshots being published, and the one shown at GitHub

github == <<head, pushes, headAt>>
rows   == <<receipts, snapshots, firstReceipt, jobs, installation, overtaken>>
req    == <<pc, hook, held, fetched, reply>>
adv    == <<publishing, published>>
vars   == <<rows, created, charged, repository, github, req, admin, adv>>

Bound(lifecycle, revoked) == [lifecycle |-> lifecycle, revoked |-> revoked]

Init ==
  /\ receipts = [d \in Deliveries |-> NoWebhook]
  /\ snapshots = {}
  /\ created = {}
  /\ firstReceipt = [c \in Contents |-> NoWebhook]
  /\ jobs = {}
  /\ charged = {}
  /\ installation = Bound("active", FALSE)
  /\ overtaken = {}
  /\ repository = "active"
  /\ head \in Contents
  /\ pushes = 1
  /\ headAt = [c \in Contents |-> IF c = head THEN 1 ELSE 0]
  /\ pc = [q \in Requests |-> "idle"]
  /\ hook = [q \in Requests |-> NoWebhook]
  /\ held = [q \in Requests |-> installation]
  /\ fetched = [q \in Requests |-> NoContent]
  /\ reply = [q \in Requests |-> "none"]
  /\ admin = "none"
  /\ publishing = [p \in Publishers |-> NoContent]
  /\ published = NoContent

Delivery(q) == hook[q].delivery
Action(q)   == hook[q].action

Goto(q, step) == pc' = [pc EXCEPT ![q] = step]
Answer(q, outcome) ==
  /\ Goto(q, "done")
  /\ reply' = [reply EXCEPT ![q] = outcome]

--------------------------------------------------------------------------------
(* Before the transaction.                                                  *)

Arrive(q, w) ==
  /\ pc[q] = "idle"
  /\ hook' = [hook EXCEPT ![q] = w]
  /\ Goto(q, "verified")
  /\ UNCHANGED <<rows, created, charged, repository, github, held, fetched, reply, admin, adv>>

\* The answer to a delivery that has a receipt: the receipt's own result, or a
\* conflict when the payload differs.
AnswerExisting(q) ==
  Answer(q, IF receipts[Delivery(q)] = hook[q] THEN "deduplicated" ELSE "conflict")

HasReceipt(q) == receipts[Delivery(q)] # NoWebhook

\* _existing_result, before anything else (from "verified") and again inside the
\* transaction (from "begin").
CheckExisting(q) ==
  /\ pc[q] \in {"verified", "begin"}
  /\ \/ HasReceipt(q) /\ AnswerExisting(q)
     \/ /\ ~HasReceipt(q)
        /\ Goto(q, IF pc[q] = "verified" THEN "lookup" ELSE "validate")
        /\ UNCHANGED reply
  /\ UNCHANGED <<rows, created, charged, repository, github, hook, held, fetched, admin, adv>>

ReadCached(q) ==   \* mutated form: the installation is the one the process read at its start
  /\ pc[q] = "lookup"
  /\ Goto(q, "quota")
  /\ UNCHANGED <<rows, created, charged, repository, github, hook, held, fetched, reply, admin,
                 adv>>
ReadInstallation(q) ==
  /\ pc[q] = "lookup"
  /\ held' = [held EXCEPT ![q] = installation]
  /\ Goto(q, "quota")
  /\ UNCHANGED <<rows, created, charged, repository, github, hook, fetched, reply, admin, adv>>

\* Its own transaction; a delivery charged before is not charged again.
ChargeLater(q) == UNCHANGED charged   \* mutated form: the reservation is lost
Charge(q) == charged' = charged \cup {Delivery(q)}

AfterQuota(q) == IF Action(q) \in PullRequestActions THEN "find" ELSE "begin"

\* Once charged, a pull request needs the installation to have been active when read.
ReserveWebhookQuota(q) ==
  /\ pc[q] = "quota"
  /\ Charge(q)
  /\ IF Action(q) \in PullRequestActions /\ held[q].lifecycle # "active"
       THEN Answer(q, "not_found")
       ELSE Goto(q, AfterQuota(q)) /\ UNCHANGED reply
  /\ UNCHANGED <<rows, created, repository, github, hook, held, fetched, admin, adv>>

WebhookQuotaExceeded(q) ==
  /\ "quota" \in Faults
  /\ pc[q] = "quota" /\ Delivery(q) \notin charged
  /\ Answer(q, "rate_limited")
  /\ UNCHANGED <<rows, created, charged, repository, github, hook, held, fetched, admin, adv>>

FindRepository(q) ==
  /\ pc[q] = "find"
  /\ IF repository = "active" /\ installation.lifecycle = "active"
       THEN Goto(q, "fetch") /\ UNCHANGED reply
       ELSE Answer(q, "not_found")
  /\ UNCHANGED <<rows, created, charged, repository, github, hook, held, fetched, admin, adv>>

\* provider.get_pull_request
Fetch(q) ==
  /\ pc[q] = "fetch"
  /\ \/ /\ fetched' = [fetched EXCEPT ![q] = head]
        /\ Goto(q, "begin")
        /\ UNCHANGED reply
     \/ /\ "provider" \in Faults
        /\ Answer(q, "unavailable")
        /\ UNCHANGED fetched
  /\ UNCHANGED <<rows, created, charged, repository, github, hook, held, admin, adv>>

--------------------------------------------------------------------------------
(* The transaction.                                                         *)

\* Requests whose open transaction has inserted a receipt, a snapshot, or updated
\* the installation or the repository.
ReceiptOpenFor(q) == pc[q] \in {"staged", "new", "commit", "done"}   \* mutated form: never released
ReceiptOpen(q)  == pc[q] \in {"staged", "new", "commit"}
SnapshotOpen(q) == pc[q] = "commit" /\ Action(q) \in PullRequestActions
                   /\ fetched[q] \notin snapshots
InstallationOpen(q) == pc[q] = "commit" /\ Action(q) \in InstallationActions
RepositoryOpen(q)   == pc[q] = "commit" /\ Action(q) \in RepositoryActions

\* full_clean of the receipt: a delivery committed since raises ValidationError,
\* which no caller handles.
ValidateReceipt(q) ==
  /\ pc[q] = "validate"
  /\ IF HasReceipt(q) THEN Answer(q, "server_error")
                      ELSE Goto(q, "insert") /\ UNCHANGED reply
  /\ UNCHANGED <<rows, created, charged, repository, github, hook, held, fetched, admin, adv>>

ReceiptNotUnique(q) == TRUE   \* mutated form: no unique constraint on delivery_id
ReceiptKeyFree(q) ==
  /\ \A r \in Requests \ {q} : ReceiptOpen(r) => Delivery(r) # Delivery(q)
  /\ ~HasReceipt(q)

InsertReceipt(q) ==
  /\ pc[q] = "insert"
  /\ ReceiptKeyFree(q)
  /\ Goto(q, "staged")
  /\ UNCHANGED <<rows, created, charged, repository, github, hook, held, fetched, reply, admin,
                 adv>>

\* IntegrityError: the transaction is gone, the other request's receipt answers.
ReceiptRefused(q) ==
  /\ pc[q] = "insert"
  /\ HasReceipt(q)
  /\ AnswerExisting(q)
  /\ UNCHANGED <<rows, created, charged, repository, github, hook, held, fetched, admin, adv>>

SameHead(q) == {c \in snapshots : c.head = fetched[q].head}

\* An immutable snapshot of this head is reused, unless its content differs.
ReadSnapshot(q) ==
  /\ pc[q] = "staged" /\ Action(q) \in PullRequestActions
  /\ \/ SameHead(q) = {} /\ Goto(q, "new") /\ UNCHANGED reply
     \/ fetched[q] \in SameHead(q) /\ Goto(q, "commit") /\ UNCHANGED reply
     \/ SameHead(q) \ {fetched[q]} # {} /\ Answer(q, "conflict")
  /\ UNCHANGED <<rows, created, charged, repository, github, hook, held, fetched, admin, adv>>

SnapshotNotUnique(q) == TRUE   \* mutated form: no unique constraint on the identity
SnapshotKeyFree(q) ==
  /\ \A r \in Requests \ {q} : SnapshotOpen(r) => fetched[r].head # fetched[q].head
  /\ SameHead(q) = {}

\* created_at is taken here, not at the commit: the snapshot is now younger than any other.
InsertSnapshot(q) ==
  /\ pc[q] = "new"
  /\ SnapshotKeyFree(q)
  /\ created' = {o \in created : o[1] # fetched[q]} \cup ((Contents \ {fetched[q]}) \X {fetched[q]})
  /\ Goto(q, "commit")
  /\ UNCHANGED <<rows, charged, repository, github, hook, held, fetched, reply, admin, adv>>

\* The head was committed since: a ValidationError, or an IntegrityError for which
\* no receipt of this delivery exists.
SnapshotRefused(q) ==
  /\ pc[q] = "new"
  /\ SameHead(q) # {}
  /\ Answer(q, "server_error")
  /\ UNCHANGED <<rows, created, charged, repository, github, hook, held, fetched, admin, adv>>

\* installation.save, and the update of the repository, wait for another request's
\* update of the row.
UpdateInstallation(q) ==
  /\ pc[q] = "staged" /\ Action(q) \in InstallationActions
  /\ \A r \in Requests : ~InstallationOpen(r)
  /\ Goto(q, "commit")
  /\ UNCHANGED <<rows, created, charged, repository, github, hook, held, fetched, reply, admin,
                 adv>>

UpdateRepository(q) ==
  /\ pc[q] = "staged" /\ Action(q) \in RepositoryActions
  /\ \A r \in Requests : ~RepositoryOpen(r)
  /\ Goto(q, "commit")
  /\ UNCHANGED <<rows, created, charged, repository, github, hook, held, fetched, reply, admin,
                 adv>>

\* The saved fields come from the installation as it was read before the transaction.
LifecycleAfter ==
  [created |-> "active", unsuspend |-> "active", suspend |-> "suspended", deleted |-> "revoked"]
RevokedAfter(q) ==
  (held[q].revoked /\ Action(q) = "suspend") \/ Action(q) = "deleted"
Saved(q) == Bound(LifecycleAfter[Action(q)], RevokedAfter(q))

\* Requests that have read the installation and not answered yet.
Holding(q) == pc[q] \notin {"idle", "verified", "lookup", "done"}

JobKey(q) == IF Action(q) \in PullRequestActions THEN fetched[q] ELSE Delivery(q)
CreateNoJob(q) == UNCHANGED jobs   \* mutated form: the job is left to a later call
CreateJob(q) == jobs' = jobs \cup {JobKey(q)}

\* create_job_with_outbox, under the organization lock, and the commit.
Commit(q) ==
  LET d == Delivery(q)
      c == fetched[q]
      new == Action(q) \in PullRequestActions /\ c \notin snapshots
  IN
  /\ pc[q] = "commit"
  /\ receipts' = [receipts EXCEPT ![d] = hook[q]]
  /\ snapshots' = IF new THEN snapshots \cup {c} ELSE snapshots
  /\ firstReceipt' = IF new THEN [firstReceipt EXCEPT ![c] = hook[q]] ELSE firstReceipt
  /\ IF Action(q) \in InstallationActions
       THEN /\ installation' = Saved(q)
            /\ overtaken' = overtaken \cup {r \in Requests : Holding(r)}
       ELSE UNCHANGED <<installation, overtaken>>
  /\ repository' = IF Action(q) = "added" THEN "active"
                   ELSE IF Action(q) = "removed" THEN "removed" ELSE repository
  /\ CreateJob(q)
  /\ Answer(q, "accepted")
  /\ UNCHANGED <<created, charged, github, hook, held, fetched, admin, adv>>

\* The analysis quota is used up, and the job's key has no reservation yet.
AnalysisQuotaExceeded(q) ==
  /\ "quota" \in Faults
  /\ pc[q] = "commit" /\ JobKey(q) \notin jobs
  /\ Answer(q, "rate_limited")
  /\ UNCHANGED <<rows, created, charged, repository, github, hook, held, fetched, admin, adv>>

\* The web process dies; its transaction rolls back.
Crash(q) ==
  /\ "crash" \in Faults
  /\ pc[q] \notin {"idle", "done"}
  /\ Answer(q, "lost")
  /\ UNCHANGED <<rows, created, charged, repository, github, hook, held, fetched, admin, adv>>

--------------------------------------------------------------------------------
(* Around the requests.                                                     *)

Push(c) ==
  /\ pushes < MaxPushes
  /\ c # head
  /\ head' = c
  /\ pushes' = pushes + 1
  /\ headAt' = [headAt EXCEPT ![c] = pushes + 1]
  /\ UNCHANGED <<rows, created, charged, repository, req, admin, adv>>

\* RepositoryLifecycleView reads the binding, then saves the lifecycle.
AdminRead(lifecycle) ==
  /\ "admin" \in Faults
  /\ admin = "none"
  /\ repository # "removed" /\ installation.lifecycle = "active"
  /\ admin' = lifecycle
  /\ UNCHANGED <<rows, created, charged, repository, github, req, adv>>

AdminSave ==
  /\ admin # "none"
  /\ \A r \in Requests : ~RepositoryOpen(r)
  /\ repository' = admin
  /\ admin' = "none"
  /\ UNCHANGED <<rows, created, charged, github, req, adv>>

\* publish_snapshot_advisory: the latest snapshot is looked up, then published.
IsStored(c) == c \in snapshots   \* mutated form: any snapshot may be published
IsLatest(c) == c \in snapshots /\ \A d \in snapshots : <<c, d>> \notin created
PublishCheck(p, c) ==
  /\ publishing[p] = NoContent
  /\ IsLatest(c)
  /\ publishing' = [publishing EXCEPT ![p] = c]
  /\ UNCHANGED <<rows, created, charged, repository, github, req, admin, published>>

PublishReport(p) ==
  /\ publishing[p] # NoContent
  /\ published' = publishing[p]
  /\ publishing' = [publishing EXCEPT ![p] = NoContent]
  /\ UNCHANGED <<rows, created, charged, repository, github, req, admin>>

--------------------------------------------------------------------------------
Step(q) ==
  \/ CheckExisting(q)
  \/ ReadInstallation(q)
  \/ ReserveWebhookQuota(q)
  \/ WebhookQuotaExceeded(q)
  \/ FindRepository(q)
  \/ Fetch(q)
  \/ ValidateReceipt(q)
  \/ InsertReceipt(q)
  \/ ReceiptRefused(q)
  \/ ReadSnapshot(q)
  \/ InsertSnapshot(q)
  \/ SnapshotRefused(q)
  \/ UpdateInstallation(q)
  \/ UpdateRepository(q)
  \/ Commit(q)
  \/ AnalysisQuotaExceeded(q)

Next ==
  \/ \E q \in Requests : (\E w \in Webhooks : Arrive(q, w)) \/ Step(q) \/ Crash(q)
  \/ \E c \in Contents : Push(c)
  \/ \E lifecycle \in {"active", "disabled"} : AdminRead(lifecycle)
  \/ AdminSave
  \/ \E p \in Publishers : (\E c \in Contents : PublishCheck(p, c)) \/ PublishReport(p)

Spec == Init /\ [][Next]_vars

\* A web server finishes the requests it has begun.
FairSpec == Spec /\ \A q \in Requests : WF_vars(Step(q))

--------------------------------------------------------------------------------
(* Properties.                                                              *)

Steps == {"idle", "verified", "lookup", "quota", "find", "fetch", "begin", "validate", "insert",
          "staged", "new", "commit", "done"}
Replies == {"none", "accepted", "deduplicated", "conflict", "not_found", "rate_limited",
            "unavailable", "server_error", "lost"}

\* Types; a request inside the transaction of a pull request holds its content.
TypeOK ==
  /\ receipts \in [Deliveries -> Webhooks \cup {NoWebhook}]
  /\ snapshots \in SUBSET Contents
  /\ created \in SUBSET (Contents \X Contents)
  /\ firstReceipt \in [Contents -> Webhooks \cup {NoWebhook}]
  /\ jobs \in SUBSET (Contents \cup Deliveries)
  /\ charged \in SUBSET Deliveries
  /\ installation \in [lifecycle : {"active", "suspended", "revoked"}, revoked : BOOLEAN]
  /\ overtaken \in SUBSET Requests
  /\ repository \in {"active", "disabled", "removed"}
  /\ head \in Contents /\ pushes \in 1 .. MaxPushes + 1
  /\ headAt \in [Contents -> Nat]
  /\ pc \in [Requests -> Steps]
  /\ hook \in [Requests -> Webhooks \cup {NoWebhook}]
  /\ held \in [Requests -> [lifecycle : {"active", "suspended", "revoked"}, revoked : BOOLEAN]]
  /\ fetched \in [Requests -> Contents \cup {NoContent}]
  /\ reply \in [Requests -> Replies]
  /\ admin \in {"none", "active", "disabled"}
  /\ publishing \in [Publishers -> Contents \cup {NoContent}]
  /\ published \in Contents \cup {NoContent}
  /\ \A q \in Requests :
       /\ pc[q] # "idle" => hook[q] \in Webhooks
       /\ pc[q] \in {"staged", "new", "commit"} /\ Action(q) \in PullRequestActions
            => fetched[q] \in Contents

\* Only one request is ever told that it brought a delivery in, and whoever is told
\* accepted or deduplicated finds its own payload stored.
OneEffectPerDelivery ==
  \A q \in Requests :
    /\ reply[q] \in {"accepted", "deduplicated"} => receipts[Delivery(q)] = hook[q]
    /\ \A r \in Requests :
         reply[q] = "accepted" /\ reply[r] = "accepted" /\ Delivery(q) = Delivery(r) => q = r

\* A snapshot is there only with the receipt that brought it and a job to analyse
\* it, and no two snapshots share a head; a lifecycle receipt has its own job.
SnapshotLineage ==
  /\ \A c \in snapshots :
       /\ c \in jobs
       /\ firstReceipt[c] # NoWebhook /\ receipts[firstReceipt[c].delivery] = firstReceipt[c]
       /\ \A d \in snapshots : c.head = d.head => c = d
  /\ \A d \in Deliveries :
       receipts[d] # NoWebhook /\ receipts[d].action \notin PullRequestActions => d \in jobs

\* Nothing is stored for a delivery that was not counted against the tenant's quota.
StoredIsCharged == \A d \in Deliveries : receipts[d] # NoWebhook => d \in charged

\* The record of a revocation is made by a deletion and ended by a creation or an end of a
\* suspension.  A suspension, which saves revoked_at as its request read it, changes the
\* record only when another lifecycle delivery was saved while that request was handled.
RevocationStands ==
  [][installation'.revoked # installation.revoked =>
       \E q \in Requests :
         /\ pc[q] = "commit" /\ reply'[q] = "accepted"
         /\ \/ Action(q) \in IF installation'.revoked THEN {"deleted"}
                                                     ELSE {"created", "unsuspend"}
            \/ Action(q) = "suspend" /\ q \in overtaken]_installation

\* The requests together store deliveries as if each were handled in one step.
Durable == INSTANCE DurableIngestion
ImplementsDurableIngestion == Durable!Spec

\* Every request is answered: waiting for another request's keys and rows ends.
EveryRequestAnswered == \A q \in Requests : pc[q] = "verified" ~> pc[q] = "done"

\* One publisher never puts an older snapshot over a newer one, whatever order the
\* requests that stored them committed in.
PublisherKeepsOrder ==
  [][published # NoContent => <<published, published'>> \in created]_published

\* "Stale run cannot overwrite the latest head conclusion"
\* (docs/05_GITHUB_INTEGRATION.md): what is shown at GitHub never goes back to an
\* earlier head.
NewestHeadStands ==
  [][published # NoContent => headAt[published'] >= headAt[published]]_published
================================================================================
