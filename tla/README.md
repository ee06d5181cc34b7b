# A TLA+ model of ReleaseProof

ReleaseProof is a Django, Celery and PostgreSQL service that turns GitHub
pull-request webhooks into release-risk evidence: it stores immutable snapshots
of pull requests, analyses them, scores them with governed models, proposes and
executes generated tests in an isolated runner, compares base and head, and
fuses the evidence into an advisory decision. This directory models the parts
of it whose correctness depends on the order in which things happen.

## 1. Inventory

Everything runs in autocommit mode on PostgreSQL at READ COMMITTED (no
`ATOMIC_REQUESTS`); a service function opens `transaction.atomic()` itself.
Several web processes, several Celery workers and the management commands
(`relay_outbox`, retention, model governance) run at once and share only the
database, the broker and the object store. All state below is database rows
unless said otherwise, and every row belongs to one organization (tenant).

| Component | State | Operations | What must hold | Hard because |
|---|---|---|---|---|
| Job pipeline: `apps/web/analysis/services.py`, `tasks.py`, `relay_outbox.py`, `adapters/tasks` | `AnalysisJob`, `OutboxEvent`, the broker's queue | create job and event, relay, process | job and event exist together; evidence exactly for completed jobs; a settled job is final; a requested job settles | relay and worker die between steps, at-least-once delivery, stale listings, broker outages |
| Webhook ingestion: `apps/web/changes/webhooks.py`, `views.py`, `apps/web/repositories` | `WebhookReceipt`, `PullRequestSnapshot`, installation and repository lifecycle | verify, deduplicate, reserve quota, fetch from GitHub, commit | one effect per delivery; a snapshot only with its receipt and job; snapshots immutable; revocation not undone | concurrent redelivery, state read before the transaction and used inside it, the provider's answer is from another time |
| Quota: `apps/web/organizations/operational_services.py` | `OperationalPolicy`, `UsageCounter`, `UsageReservation` | reserve, reserve bundle, create policy | consumption within the window's limit; a key is charged once; a bundle is all or nothing | retries, window and policy changes between two calls |
| Retention: same file | `RetentionDeletionPlan`, `RetentionDeletionGrant`, `RetentionDeletionExecution`, four classes of expiring rows, the object store | plan, dry run, execute | a row goes only under an executed, unexpired plan and past its retention; a plan is executed once; its result says what was deleted | other plans, new references and policy changes between plan and execution |
| Model governance: `apps/web/risk/governance_services.py` | `GovernedModelArtifact`, approvals, `ModelDeployment`, events | register, approve, promote, activate, retire, roll back | at most one active artifact per deployment; nothing serves without its approvals; rollback target was served | two operators at once; approvals used after they went stale |
| Outcomes and drift: same file, `packages/ml_core/governance.py` | `DeploymentOutcome`, `DriftAssessmentRecord`, `DriftReview` | report an outcome, assess drift, review | one row per key and it says what was reported; only outcomes with a closed window and consent are eligible for training; a drift verdict has the rows it needs | two reports of one event; consent withdrawn meanwhile |
| Risk scoring: `apps/web/risk/services.py`, `packages/ml_core/baseline.py` | `RiskScore` | score a feature set deterministically | one score per feature set and model | concurrent analysis of one snapshot |
| Proposals: `apps/web/verification/services.py` | `GeneratedTestProposal` | generate, edit, accept, reject, export | only a draft is decided, only accepted is exported, an edited proposal is superseded | reviewer and editor act at once |
| Execution: `execution_services.py`, `packages/execution_contracts` | `ExecutionPlan`, approval, `ExecutionRun` | plan, approve, grant, record | only an approved, unexpired, current plan runs; a result is recorded once | time limits, new heads during a run |
| Fixture runner: `runner/`, `packages/execution_contracts` | the container of one signed plan | create, inspect, start, check, remove | a result that claims a clean host left no container; a test passes only if its isolation was checked; a verdict blames what misbehaved | every docker call may fail or time out with its effect unknown |
| Differential verification: `differential_services.py`, `packages/execution_contracts/differential.py`, `packages/recommendation_core` | `DifferentialRun`, `RecommendationDecision` | record, classify, fuse | a decision follows from its lineage; HOLD dominates | stale results, partial runs |
| Publication: `verification/services.py` (`publish_snapshot_advisory`), `adapters/github` | the GitHub check (external) | publish for the latest snapshot | an old head never overwrites a newer one | check and publication are not atomic |
| Retrieval: `apps/web/retrieval`, `packages/retrieval_core` | sources, chunks, indexes and their entries, object store | ingest, build index, activate, search | at most one active index per kind; an active index covers the live chunks | builds race with ingestion and expiry |
| LLM evidence: `apps/web/analysis/llm_evidence.py`, `packages/ai_core` | hosted-LLM policy, evidence rows | route, reserve, call, persist | evidence leaves only as the policy permits and after it was charged; one grounded, immutable row per key | provider called between two transactions, retries, policy changes |
| Agent investigation: `agent_investigation.py`, `packages/agent_core` | an in-memory graph state, a stored run | bounded nodes and tool calls | budgets respected, terminates, a completed run earned its recommendation and a partial one is cautious | stop conditions at every node |
| Change intelligence: `packages/change_intel`, `apps/web/analysis/change_intelligence.py` | stored features and scores | parse diff, history, graph, features | the blast radius is what the reverse imports reach within depth and size; the history is the window before the prediction; stored scores are of stored features | size limits and truncation, two workers on one snapshot, history read while snapshots commit |
| Offline ML, datasets, evaluation: `packages/ml_core`, `packages/dataset_core`, `eng/` | files | extract, label, split, train, select, evaluate | splits do not leak; selection does not look at the test rows; the kept head is the best of its data | ties, early stopping, rows that may appear in two splits |
| Database integrity controls: the integrity migrations of `analysis`, `risk`, `verification`, `organizations`, `retrieval` | triggers and composite foreign keys | any SQL statement | references stay within tenant and repository, immutable rows do not change, a new row agrees with the rows it was made from | two writers, triggers that see less than constraints |
| Release bundle contracts: `packages/release_core` | none (pure) | validate manifests | completeness | pure validation |
| Observability, identity, audit, admin, templates, deployment | logs, sessions, audit rows | | | framework behaviour |

How they interact: a webhook transaction calls quota and creates the job and
its event; the relay publishes the event's message; the worker calls change
intelligence and scoring and writes evidence; people (through the API views)
start proposals, plans, approvals and differential runs on a snapshot;
execution and embeddings reserve quota; publication asks which snapshot is the
latest.

## 2. The modules and the code

| Module | Models | Composed with |
|---|---|---|
| `JobPipeline` | the outbox pipeline: jobs, events, relays, broker, workers | implements `DurableJobs` |
| `DurableJobs` | what the pipeline promises: a requested job is settled once | |
| `WebhookIngestion` | web requests that ingest deliveries, administration, advisory publishers | implements `DurableIngestion` |
| `DurableIngestion` | what ingestion promises: one delivery, one atomic effect | |
| `Quota` | the ledger of reservations and the policies of one organization | |
| `ModelGovernance` | artifacts of one model name and its deployment | implements `ServingModel` |
| `ServingModel` | what governance promises: one pointer, activated and rolled back | |
| `VerificationChain` | proposals, plans, approvals, results, differential evidence, decisions | implements `ExecutionAuthority` |
| `ExecutionAuthority` | what the chain promises of a plan: void is void, trust is earned | |
| `RetrievalIndex` | documents, indexes and queries of one repository | stands alone |
| `Retention` | plans and executions of governed deletion | in `Services` |
| `EvidenceRouting` | the privacy router, as operators | extended by `LlmEvidence` |
| `LlmEvidence` | requests for an analysis by a language model | in `Services` |
| `AgentGraph` | one bounded investigation and its stored result | in `Services` |
| `FixtureRunner` | one run of a plan in a disposable container | in `Services` |
| `OfflineEvaluation` | datasets, splits, training, selection | in `Services` |
| `ChangeIntelligence` | analysis of the snapshots of a repository | in `Services`, `MCChangeIntelligence` |
| `Feedback` | outcomes, drift assessments and their reviews | in `Services` |
| `TenantSchema` | triggers and foreign keys against any writer | in `Services` |
| `ChangeExamples`, `SchemaExamples` | the changes and the rows these two are given | |
| `Services` | the quota ledger beside an instance of each of the other eight services, with what they promise | extends `Quota` |
| `MCServices` | one of the nine services of `Services`, which share no state, chosen at the start | extends `Services` |
| other `MC*` | model values for TLC | one per detailed module |
| `*Proofs` | theorems and their proofs | one per proved module |

PROJECT.json maps every definition to the lines it stands for. What follows is
how to read the correspondence.

**What is one step.** PostgreSQL runs the services at READ COMMITTED. A step of
a model is the longest piece of a transaction (or of code outside one) that no
other process can see into, wait for or break: a module splits a transaction
where a lock may be waited for, where another process's commit changes what a
later statement sees, where an external call happens before the commit, and
where a crash leaves something behind. Writes become visible at the commit
unless a comment says otherwise. A row lock is a variable where the order of
waiting matters (`ModelGovernance`, the `tx` of `VerificationChain`) and a
predicate over program counters where it follows from them (`JobPipeline`,
`WebhookIngestion`, `Quota`).

**JobPipeline.** `CreateJob` is `create_job_with_outbox`: both rows in one
transaction. The relay is `relay_pending_outbox`: `RelayScan` lists pending
events without a lock, `RelayClaim` re-reads one `FOR UPDATE` and drops it when
it is no longer pending, `RelayPublish` hands the message to the broker and
`RelayCommit` marks it published, so that a crash between the two sends it
again. `RelayPublishError` counts an attempt and gives the event up at
`MaxAttempts`. The worker is `process_job` under Celery's late acknowledgement:
`WorkerBegin` takes the job row and the organization, `WorkerComplete` and
`WorkerInvalid` commit the attempt with its evidence or its failure,
`WorkerAck` acknowledges only then, and `WorkerLost` returns the message and
rolls the attempt back. `WorkerRaise` is the exception of a task that
acknowledges without settling anything. `queue` counts copies of a message,
because the broker may deliver one twice.

**Quota.** `Lock` is the `SELECT ... FOR UPDATE` of the organization with which
every reservation begins. For each kind of a bundle, in any order, `Replay`
finds a key's rows in whatever window they are, `Charge` opens the window's
counters at the current policy and charges tenant and user, `Refuse` raises. An
exception leaves through the caller's transaction, so it restores `undo`, what
was committed when the lock was taken; `Abandon` does the same for a caller
that fails later. `CreatePolicy` and `NextWindow` are the administrator and the
clock.

**WebhookIngestion.** A request goes through the steps of `ingest_webhook` in
source order: look for a receipt, read the installation, reserve the quota,
find the repository, ask GitHub for the pull request, open the transaction,
look for a receipt again, validate it, insert it, read and insert the snapshot
(or update installation or repository), create the job and commit. Everything
before the transaction is a read that may be stale by the time it is used. An
insert under a unique key that another open transaction has inserted waits; if
that one commits the insert fails, and the branch of the code that answers the
failure is the action `ReceiptRefused` or `SnapshotRefused`. `full_clean`
validates uniqueness with a query of its own, which is why `ValidateReceipt`
can fail where the insert would have been handled. `created` is the order of
`created_at`, which Django sets before the insert and not at the commit: a
relation between contents, so that "the latest" is a stored content that
precedes no other. `PublishCheck` and `PublishReport` are
`publish_snapshot_advisory`. `overtaken` is a history variable: the requests
that hold an installation which another request has saved since they read it.
GitHub (`Push`) and the administrator (`AdminRead`, `AdminSave`) are the
environment.

**ModelGovernance.** One action per statement that can wait. Promotion and
activation lock the artifact `FOR UPDATE`, activation then the deployment;
rollback locks the deployment alone; an event that refers to an artifact takes
the foreign key's `KEY SHARE` on it. So activation and rollback wait for each
other in opposite orders and PostgreSQL's deadlock detector (external,
`BreakDeadlock`) rolls one back. When no deployment exists there is no row to
lock and the unique key decides (`KeyFree`). Rollback's query joins the
artifacts, so a call that waited for a deployment that changed is told there is
nothing to roll back to. An approval is abstracted to the artifact it
authorizes; approvals are not consumed and may be presented again.

**VerificationChain.** `_load_plan(lock=True)` and the two `create_*` functions
lock with `select_for_update` and no `of=`, so they lock every joined row from
the plan to the repository. Two such transactions therefore exclude each other,
and a delivery that inserts a snapshot waits for them, because its foreign key
needs the repository row. `tx` is that one transaction: `Start...` does the
checks, `Create...` or `Approve` writes, and between the two happens whatever
those locks leave free. A result's checks and write are one step, as nothing
they read can move in between. The services of a proposal lock only the
proposal (`of=("self",)`), which is what `ProposalFree` and `EvidenceFree`
express. A decision locks run, plans, proposal and snapshot and does not look
at freshness again. All locking queries follow the lineage in one direction, so
there is no deadlock to model. Rows of the chain other than these are immutable
by database trigger.

**RetrievalIndex.** A document stands for its one chunk, a profile for the
lexical index or the embedding index of one artifact version. An ingestion
stores the document, takes the lexical profile, finds what it misses, indexes
it and activates the profile, each in a transaction of its own. A build lists
the missing chunks, reserves quota, and then embeds and stores one batch after
the other, the provider being called outside the transactions; `SaveReady` and
`ActivateEmbedding` end it. A query reads the lexical hits, selects the active
profile, has the query embedded and reads that profile's entries, all at
different times. `LooksComplete` compares two counts, as the code does.
`Collision` is the duplicate entry of two callers, answered in two ways:
`full_clean` raises past the handler, the constraint raises into it.
`PurgeEmbedding` is what retention does to entries, `Expire` the clock.

**Retention.** `CreatePlan` lists at most `MaxCandidates` rows that outlived
the retention of their class, in the order of the code's classes. Which
embeddings the query leaves out because their document is still to be retained
is any set of them, chosen anew for each plan. `StartExecution` locks the plan,
looks for a stored result and checks that the plan is no dry run, is within its
lifetime and of the current policy; `DeleteRow`, `BlockRow` and `SkipMissing`
are the loop over its rows in that one transaction, a row being blocked by rows
that refer to it; `Commit` deletes and stores the result together.
`HeldByOther` is the row lock of another execution.

**EvidenceRouting, LlmEvidence.** `Checks` lists the router's conditions in the
order of the code; `Route` is the first that fails. A call looks for a stored
row, routes, computes its worst cost, reserves quota in a transaction of its
own, sends the evidence up to `attempts` times, checks the answer and stores a
row. Each of those is a step, because another caller may do the same between.

**AgentGraph.** The walk is a sequence of nodes with three kinds of step: a
tool reads evidence, the model is asked, the node ends. `EnterNode`, `ReadTool`
and `CallModel` name the guards in the order the code has them. `Criticise` and
`Compose` are the last two nodes, `Persist` the insert under the identity of
the run, which `RivalPersists` may do first. The events of a node's tools are
part of what the node returns, so `Stop` loses them while what they used stays
counted. The critic looks at `Factual` claims only: one that the model marks as
a hypothesis may cite and say anything, and is stored with the others.

**FixtureRunner.** One action per docker command, each of which succeeds, fails
with an exit status, or goes unanswered with its effect on the container
unknown to the host (`Answers`); `container` is the truth and `created` what
the host believes. `Sentinels`, `Execute` and `Differ` happen inside the
container.

**OfflineEvaluation.** `Extract` admits a payload, `Build` labels, splits and
checks it; `TrainClassical`, `EvaluateBaseline`, `StartTraining`, `Epoch` and
`FinishTraining` fit, tune and evaluate. What a fitted model answers is a
constant function of the rows it was fitted on, so that using other rows shows.
`BestOf` compares candidates as `_candidate_key` does: by cost, F1, average
precision on the validation rows (times a common denominator, so that ratios
are integers) and the hash of configuration and threshold, a constant that has
no collisions. Logistic regression and boosted trees are selected each in this
way, and `classical` stands for either.

**ChangeIntelligence.** `Visit` is a turn of the code's breadth-first search
with its limits on depth and nodes, and `Walk` takes as many turns as there can
be paths, because a path is queued once (that these are enough is the lemma
`WalkEnds`). The graph is the one the code built: an import lost to a file that
does not parse is not an edge, so `BlastsAreExact` is about the search and not
about the parser. `MayRead` and `Window` are the two queries for history; rows
of one time come in any order, because ties are broken by random ids.
`ReturnExisting`, `ReadHistory` and `Persist` are the steps of
`analyze_snapshot`; ingestion stamps a snapshot (`Stamp`) and commits it later
(`Commit`).

**Feedback.** A request looks for the row under its key and inserts one under
the unique constraint; both compare what is stored with what was asked.
`Decision` is the drift decision over two profiles. An outcome's eligibility
uses the consent that was loaded when the request came in.

**TenantSchema.** A row is a record with its table and its columns. A statement
is two steps: at its start its row triggers see the committed rows, at its end
its constraints do. `Relations` lists the composite foreign keys with the
columns they carry along, `Validate...` are the binding triggers. One statement
makes one transaction, and unique constraints are the primary keys and those
the lifecycle rests on.

**Abstractions common to all modules** but `TenantSchema`. One tenant, one pull
request, one model name: the services' locks are per organization, repository
or model, and rows of different tenants do not meet in a query. That rows
cannot refer across tenants at all is what `TenantSchema` is about. Roles,
signatures, checksums, payload validation and audit rows are left out; they
refuse a call before it reads anything the models contain, or are inserted
together with the rows that are modelled.

## 3. Runs

All runs finish in well under five minutes with two TLC workers.

| Run | Instance | Question it answers |
|---|---|---|
| `pipeline_safety` | 2 jobs, 2 relays, 2 workers, `RelayLimit` 2, `MaxAttempts` 2, broker refusals and invalid input at any time, and one crash, loss, exception or suspension | is a published event one that was sent; does the pipeline implement `DurableJobs`, so that evidence, completion and finality of a job never come apart |
| `pipeline_live` | same processes, invalid input at any time and two crashes, fair | is every requested job settled, and some message or event always under way for it |
| `pipeline_loss` (violation) | one lost message | the same, with a broker that loses a message |
| `ingestion_pulls` | 3 requests, 3 contents of which two share a head, one publisher, up to 2 versions of the pull request | one effect per delivery, lineage, charging, the order of advisories of one publisher, and the refinement of `DurableIngestion` |
| `ingestion_lifecycle` | 2 fair requests, six webhooks over every lifecycle action, an administrator | which steps may make or undo the record of a revocation, and that every request is answered |
| `ingestion_stale` (violation) | 2 requests, 2 publishers, 2 heads | does the newest head's advisory stand |
| `governance` | 3 artifacts, 2 callers, `MaxGeneration` 5 | pointer, rollback, approvals, refinement of `ServingModel`, and that calls end |
| `verification_chain` | 2 heads with evidence for the first, 3 contents (one valid), 2 images, 2 keys, 1 attempt, 4 reports, 2 plans, 2 results | reviews, plans, results and decisions against head movement; refinement of `ExecutionAuthority` |
| `verification_pushback` (violation) | 2 heads, no results | does an approval follow the head |
| `retrieval` | 3 documents, 3 providers of which two claim one version, 2 callers, batches of 1, 2 live chunks at most, 4 calls, 1 expiry | is an acknowledged document in the lexical index, is what was embedded what was reserved, does a query see only live chunks of its own artifact, is the active index left alone by the builds of other versions |
| `services` | one of nine services at a time, see below | the quota ledger and the eight services composed in `Services` |
| `history` (violation) | one worker, history of 1 snapshot | is the history that of the window before the prediction |

**The instances of `services`.** Quota: 2 kinds, 2 users, 2 keys, 2 processes,
four calls, two policies, two windows. Retention: 3 rows of two classes, 2
plans of at most 2 rows, 2 executors, three policy versions of which the last
keeps one class longer, ages 0 and 1. LLM evidence: one request by 2 callers, 2
policies of which the second lets through fewer bytes, two attempts (only a
cancelled call is refused by the adapter; a price above the limit takes the
same way), answers that are right, incomplete, too expensive, or cite what was
not sent, a budget of one bundle per window. Agent: 5 requests (everything, a
failing tool, and the limits on steps, tool calls and model calls each
reached), 3 answers, one of them with a hypothesis nothing supports. Runner:
both kinds of plan, valid or not, two observable facts. Offline: 4 changes in 5
forms (original, another test signal, a patch and a head that leak, an unknown
label), 3 configurations that cost and F1 do not tell apart, of which average
precision leaves two and the hash decides, 3 epochs with patience 2. Change: 3
snapshots, 2 workers, depth 2, 7 nodes, history of 2. Feedback: one event, 3
signals, 7 pairs of profiles, 2 callers, 2 requests, 2 ticks. Schema: a
database of two tenants with a row or two of the tables the triggers look at,
candidate rows that fit and that do not under old and new keys, 2 writers, 2
statements.

**Why the bounds are enough to be interesting.** Two of each concurrent actor
is the least that races, and every race in this code is between two
transactions over one row; a third web request is there because a redelivery
and a different payload can meet one first delivery. `MaxAttempts` 2 separates
a retry from the last attempt. A window bound of 1 gives each kind two windows,
so a retry crosses one. `MaxGeneration` 5 reaches a rollback of a rollback with
a third artifact waiting. `Citations` are all components, none, and all but
each one, so that each component is missed alone. `MaxPlans` 2 with two images
gives a test two plans, which a decision may mix up, and `MaxResults` 2 is an
execution and a comparison, or a duplicate of either. The evidenced head of
`verification_chain` has risk band `low`: with another band no favourable
decision is reachable there, and theorem `DecisionSafe` covers every assignment
of bands. In `retrieval` two of three documents fit an index, so one call runs
into `MaxChunks`, and one expiry is enough for two counts to agree by accident.
The limits of the investigations are set below what the walk needs, one limit
per request. In `services` a plan of two among three expired rows leaves one
behind, the rows of two plans overlap, and one is blocked. Two statements of
the schema are the least that race, and one may undo what the other's trigger
relied on. Bounds that only cap a counter (`MaxFaults`, `MaxGeneration`,
`MaxPushes`, `MaxPlans`, `MaxResults`, `MaxWindow`, `MaxCalls`, `MaxExpired`,
`MaxAge`, `MaxTime`, `MaxWrites`, `MaxRevisions`) are guards of environment or
begin actions and say so in the module; the proofs hold for any value of them.

**Symmetry** is used in `ingestion_pulls` (requests), `verification_chain`
(images, keys, the two invalid contents) and its violation counterpart,
`retrieval` (callers and documents that nothing tells apart) and `services`
(the two processes, which each service uses for its callers, workers or plans);
these runs check invariants and step properties only, no liveness.

**Deadlock checking** is off, because all these systems may rest: deliveries
are finite in `WebhookIngestion`, the calls of `ModelGovernance` stop at
`MaxGeneration`, a chain may be complete, a pipeline with all jobs settled is
idle, and the services run out of calls, windows or plans. Where resting must
not mean being stuck, a liveness property says so (`ImplementsLiveJobs`,
`EveryRequestAnswered`, `EveryCallEnds`).

**Fairness.** `JobPipeline`: weak fairness of each relay and worker step,
because the relay command is scheduled again and again, a Celery worker that is
up consumes its queue, and its tasks have a time limit; and of reactivation,
which is an administrator's promise. Faults are never fair. `WebhookIngestion`:
weak fairness of a request's own steps, since a web server runs its requests
on. `ModelGovernance`: strong fairness of a call's steps, since PostgreSQL
grants a row in the order it was asked for: a row that is free again and again
is eventually granted. The other services claim no liveness: their loops are
bounded by counters, and a process may be killed at any point.

**What each mutant shows.** For each property PROJECT.json names a plausible
mistake (a dropped lock, a missing unique key, a check of the wrong window, a
crash that loses the message) under which the same run finds the property
violated. Mutated forms stand beside the definition they mutate and are used
nowhere else.

### Findings

Four runs end in a violation of a sentence the repository states.

- `pipeline_loss`: ADR-004 says a recovery scan republishes *stale* outbox
  rows. The relay selects pending events only; a message lost after the broker
  accepted it leaves its job pending for ever.
- `ingestion_stale`: docs/05 says a stale run cannot overwrite the latest
  head's conclusion. The look-up of the latest snapshot and the publication are
  not one step, and `created_at` orders snapshots by insertion, not by when the
  head was fetched.
- `verification_pushback`: docs/04 says head movement invalidates a prior
  approval. A head that is pushed back to an earlier one keeps the earlier
  snapshot and its place, so the abandoned head still counts as the latest.
- `history`: docs/06 says the history is that of the 90 days before the
  prediction, 10,000 snapshots at most. The code takes the oldest 10,001
  snapshots of the repository and applies the window to these, so that a
  repository with a long past has an empty history.

### Where the models follow the code against a document

These disagreements are in the models as the code has them; no run states the
document's sentence.

- *Pipeline.* After `max_attempts` refused publications an event is `failed`
  and nothing selects it again, while docs/04:35 says an outage leaves
  committed work pending.
- *Ingestion.* The installation a lifecycle delivery saves was read before its
  transaction. A suspension writes `revoked_at` back as it read it, so one that
  is handled while a deletion is saved takes the record of the revocation away
  again, and the installation ends suspended instead of revoked;
  `RevocationStands` says that this is the only way, and excepts it. A retry
  between the second look-up and `full_clean` is answered with a server error,
  while docs/04:39 says an identical retry returns 200.
- *Retrieval.* A build without activation writes `READY` over an active profile
  (docs/22:162 and docs/10:30 ask for a build beside it), and the handler of a
  collision writes `FAILED` over one another caller activated. A rebuild with
  another number of missing chunks is refused for ever by the quota key of the
  first build. Activation compares counts, so the entry of an expired chunk
  stands in for a missing live one.
- *Retention.* The lifetime of a plan is checked before its stored result is
  looked up, so a late repeat is refused, while docs/51:87 promises the prior
  result. An artifact always has lifecycle events that protect it, so the purge
  of objects is not reached.
- *LLM evidence.* Two callers that race send the evidence twice on one charge.
  The policy that counts is the one a request was routed under: a switch of
  hosted models that is turned off between routing and call does not stop the
  call. A failure row is as permanent as an answer, and a denial may be stored
  for evidence a racing caller did send.
- *Runner.* A creation that times out may leave a container the host does not
  remove (docs/40:36 and 56-57 promise removal). The exit status of `docker rm`
  reaches the result only: after an error it is dropped, so that a container
  which docker refused to remove is reported by nobody, while
  docs/decisions/ADR-018:26 makes the result of the cleanup evidence;
  `CleanupIsTruthful` excepts this case and says so. A container whose `kill`
  failed runs on until it is removed. A differential run goes on after failed
  sentinel checks and may come out positive (docs/40:61-64): `VerdictsAreFair`
  asks for isolation of a passed execution only.
- *Agent.* A claim marked as a hypothesis is checked by nobody, so a completed
  result may hold some that cite evidence no tool returned. The node that ends
  with more than 80 claims, or cites more than 64 references, raises outside
  the handler; the critic's rule on missing evidence and the detection of loops
  are not reached.
- *Offline.* A training label may be observed after the predictions of the
  validation rows (docs/22:112 asks for none of this), and the semantic dataset
  compares the ids of its admission and not the payload (docs/07:102-103).
- *Feedback.* A report that loses the race to an identical one raises where
  `full_clean` meets the committed row, instead of returning it. An assessment
  of the same artifact and current profile against a second reference conflicts
  with the first for ever. Drift may pass without labelled rows when neither
  profile has a performance, while docs/49:94-95 asks for 100. Consent is the
  one loaded with the request.
- *Schema.* That an outcome's snapshot is of its repository, and a plan's
  snapshot its proposal's, is checked by the models and not by the database.

## 4. Proofs

TLAPS proves the theorems below for every value of the constants that satisfies
the named assumptions of the module (`PipelineAssumption`, `QuotaAssumption`,
`IngestionAssumption`, `RetrievalAssumption`, `GovernanceAssumption`,
`ChainAssumption`, and in `Services` one for each service whose theorems need
it, `RetentionAssumed` to `FeedbackAssumed`): any numbers of jobs, processes,
users, artifacts, documents, callers, heads and contents, any bounds. The
assumptions say no more than the types of the bounds and of the constant
functions, that the "no value" constants are not values, and that the
collections a sum or a minimum ranges over are finite. Each proof module
defines an inductive invariant (`IInv`, or one per service), proves that `Init`
establishes it, one lemma per action (or per conjunct, in
`VerificationChainProofs`) that the action preserves it, and draws the theorems
from it.

**`JobPipelineProofs`.** The safety invariants are not inductive on their own:
that a relay marks as published only what it sent depends on the relay still
holding the pending event, and that a worker commits an attempt within the
bound on the job still being pending. `IInv` adds `RelaysHoldPending`,
`WorkersHoldRequested` and `AttemptsLeft`, which hold because of the row locks
(`JobRowExclusive`, itself a conjunct). Theorems: `TypeCorrect`,
`OutboxIsTransactional`, `PublishedOnlyIfSent`, `RowLocksExclude`,
`EvidenceIsAtomic`, `SettledJobsAreFinal` (both also follow from the
refinement, which is what the run checks), and `PipelineImplementsDurableJobs`:
every step is a step of `DurableJobs` or leaves the jobs alone.
`NothingIsForgotten` adds `CarriedInv` and states under `Lossless` (the
environment neither loses messages, nor raises, nor suspends) that a pending
job's event or message is under way through any number of crashes.

**`QuotaProofs`.** The ledger is consistent only between transactions, so
`IInv` describes the transaction in flight: `LockInv` (one call holds the
organization), `BackupInv` (what a rollback restores is itself a legal ledger)
and `ProgressInv` (the transaction wrote rows of its own key only, and holds
every kind it has passed). Theorems: `TypeCorrect`, `ConsumptionIsLimited`,
`KeysChargeOnce`, `BundlesAreAtomic`, `CommittedRowsStay` and
`CountersAreSums`, that every counter is the sum of its reservations, between
the steps of a bundle and after a rollback (`LedgerInv`: what a rollback
restores balances too, and every ledger is finite). A sum over a set is a fold
that takes the rows in an unknown order, and what it computes is an induction
over the set. The library's induction theorems cannot be instantiated, but the
well-foundedness of the finite subsets can be cited, so each of these lemmas
takes a smallest set for which it would fail (`SmallestSet`): the fold exists
(`SumsExist`), does not depend on the set it is computed within (`SumsAgree`),
and may take any row first (`SumWithout`, for any weights; `TotalWithout` for
the quantities of reservations).

**`WebhookIngestionProofs`.** A request acts in its transaction on what it read
before it. `RequestInv` says what of this lasts (a request in the transaction
has its content and was charged), `ReceiptInv` and `SnapshotInv` that of the
requests with an uncommitted row under one key there is one, and no committed
row: the unique keys are the whole argument, and what a commit stores is new
because of them. Steps that store nothing are proved once, as `Quiet`.
Theorems, under `IngestionAssumption`: `TypeCorrect`,
`DeliveriesTakeEffectOnce`, `SnapshotsHaveLineage`,
`StoredDeliveriesAreCharged`, `RevocationsStand` and `Refinement` of
`DurableIngestion`. For revocations `CopyInv` says that a request which holds
an installation and was not overtaken holds the installation as it is.
`OnePublisherKeepsOrder` adds `OrderInv` (snapshots, stored or about to be, are
ordered) and `PublishInv` (what a publisher has in hand is not older than what
is shown). It is stated for at most one publisher because it is false for two,
which is what the run `ingestion_stale` shows.

**`RetrievalIndexProofs`.** Callers act on what earlier transactions told them.
`Lasts` says what every step leaves true for the others: documents stay and
only expire, lexical entries and the artifacts of versions stay, and a
reservation keeps its quantity. `Good` says what a caller relies on: an
ingestion's chunk is in what it will index, there already, or expired
(`Reached`), what is left to embed was paid (`Paid`), a query's hits were fresh
when it began and its artifact is the one it selected (`Fresh`). `OneActive`
makes the demotion of a version the promotion of another. Theorems, under
`RetrievalAssumption`: `TypeCorrect`, `IngestionsAreIndexed`,
`BuildsEmbedWhatTheyReserved`, `AnswersAreFreshAndComparable`,
`OneVersionServes`, `VersionsAreBuiltSideBySide`.

**`ModelGovernanceProofs`.** `PointerAgrees` is kept by a call that acts on
what it read some steps earlier; `HeldInv` says that who holds the deployment
row has read the current deployment, `CallInv` that a call has checked what its
step assumes, `DeploymentInv` that a pointer exists from the first generation
on. Theorems: `TypeCorrect`, `PointerAndStatesAgree`, `RollbackStaysKnown`,
`ReplacementsAreApproved`, `RefinesServingModel`.

**`VerificationChainProofs`.** `TxInv` says that what a transaction checked is
still true while it holds its rows; it is what plans, approvals and comparisons
rest on. `RevisionInv` strengthens `RevisionsFormChains` (whatever has a parent
is a proposal, so that a new revision cannot already be somebody's), `HeadInv`
says that proposals and plans are of stored heads. `NoRevival` states what the
refinement needs beyond them: a plan that was void does not become active,
because neither a superseded proposal nor a former head comes back. With it
each step is a step of `ExecutionAuthority`, which voids plans (`VoidStep`) or
adds trust (`TrustStep`). Theorems: `TypeCorrect`, `RevisionsSafe`,
`PlannedSafe`, `ResultsSafe`, `DecisionSafe`, `Refinement`.

**`AdvisoryProofs`** is about the two services that ask a language model.
`LlmInv` follows one request: what it routed it routed under the policy version
that the cache key names, it reserved before it sent, and what is stored under
a key was written once and never replaced. `AgentInv` follows one
investigation: `Places` says at which node the walk can be, `AgentCounts` that
steps, tool calls and model calls are counted as they are made, `Gathered` that
evidence comes from nodes that were reached, `Unfailing` that without an error
no failing tool was read, `Accepted` that the composer gets only what the
critic let through. Theorems: `LlmInvariant`, `SendingIsPermitted`,
`AnswersAreGrounded`, `AgentInvariant`, `InvestigationsAreEarned`.

**`ServicesProofs`** has a section per service.

- *Schema.* A trigger fires at the start of a statement and is not asked again
  at its end, when other statements may have finished in between.
  `StatementInv` says that what it found lasts: no pending statement takes a
  verification record away, and what each is about to put is `Founded` on the
  committed rows now, not only when it began (`FoundedLasts`). The foreign keys
  and the unique keys are checked at the end, and `KeysGiveAgreement` draws the
  agreement of references from them. `LineageIsSound` holds for every database
  that is sound to begin with, any candidate rows and any writers.
- *Retention.* An execution works from its plan alone. `PlanInv` says that the
  rows of a plan had outlived its policy and have ever since, because rows only
  grow older; `RunInv` that a transaction runs under the policy of its plan,
  which is no dry run, and that nothing refers to the rows it is about to
  delete; `TallyInv` that a transaction counts the rows it deletes, each once,
  and counts as blocked at least what it passed and leaves, and that a plan has
  one execution. Theorems: `RetentionInvariant`, `DeletionIsWarranted`, the
  action half of `DeletionIsGoverned`, and `DeletionIsAccounted`, all of it:
  the rows that are gone are the sum of what the results say, by the lemmas on
  sums of `QuotaProofs`.
- *Runner.* The host does not know what the container did when a command goes
  unanswered. `HostInv` says which container there can be at each step and that
  a run ends with a result or an error, `LeftInv` what became of the call that
  should have removed the container, `WrittenIsTrue` that what the container
  wrote is what happened in it, `ResultInv` that a claim of cleanup comes last.
  Theorems: `RunnerInvariant`, `CleanHostsAreClean`, `VerdictsAreTrue`.
- *Offline.* `DataInv` says that a dataset is the labelled rows of one admitted
  source and does not leak; `ChoiceInv` that the stored choice is the one its
  rows give, from which `TestRowsAreUnseen` follows because no criterion of the
  order reads a test row; `TrainingInv` that training keeps the best loss it
  has seen, to the tolerance of its early stopping. Theorems:
  `OfflineInvariant`, `NoChangeIsInTwoSplits`, `TestRowsAreUnseen`,
  `HeadsAreBest`.
- *Change.* The search first. While nothing is cut off (`Searching`), paths in
  the queue are ordered by length and differ by one at most, only the end of a
  queued path may have dependents that are not reached, and every path is a
  shortest one: what is nearer than the ends of all queued paths has been
  reached (`NearerIsReached`). Each turn takes a path from the queue and a path
  is queued once, so a walk that is not truncated ends (`WalkEnds`), with all
  that can be reached (`WalkIsExact`), and that is all there ever will be
  within as many imports as there are modules (`WithinFar`). The recursions are
  over numbers: each lemma looks at a smallest counterexample. Then the
  service: `Histories` says that what was read precedes the snapshot it was
  read for, and does so for good because a snapshot is stamped once; `Scored`
  and `Exact` follow the features from the worker that computed them. Theorems:
  `ScoresAreOfStoredFeatures`, `BlastsAreExact`, for every graph of finitely
  many modules and all limits.
- *Feedback.* `OneRowEach` is the unique key, `PastReports` that an outcome is
  of the past and as eligible as its report and the policy of its time say,
  `HeardWhatIsStored` that a caller who was answered was told what is stored.
  Theorem: `ReportsAreGoverned`.
- `ServicesTypes` is the type invariant of the composition, under which
  `services` runs.

**Only model-checked.** Liveness is outside the prover's reach:
`RequestedIsSettled`, `ImplementsLiveJobs`, `EveryRequestAnswered`,
`EveryCallEnds`. Everything else that a passing run checks is a theorem.

## 5. Not modelled

- *Web shell*: identity, sessions, audit rows, administration screens and
  telemetry have no protocol of their own; audit rows are inserted in the
  transactions that are modelled.
- *Release bundle contracts*: manifests are validated without state.
- *Adapters*: GitHub, the broker, the object store and the docker daemon appear
  as the environment of the modules that call them; the language-model client
  is part of `LlmEvidence`; MLflow is written to and never read.
- *Parsing and validation*: signatures, contracts, payload schemas, Python
  source and diffs are abstracted to what they yield, or to a call that is
  refused before it reads anything.
- *Numeric work*: fitting parameters, embeddings, bootstrap intervals and
  histograms are constant functions of their inputs.
- *SQLite triggers*: the test setup's triggers check only the child side of a
  relation; `TenantSchema` is the PostgreSQL schema.
- *Object storage in retention*: no row that names an object is ever eligible.

## 6. Plan

Done: the protocols in the order of their importance for the product's claims
(accepted work is not lost, a tenant stays within its limits, deliveries have
one effect, one approved model serves, only approved current tests run and
decide), then retrieval, retention, language-model evidence, investigations,
the runner, offline evaluation, change intelligence, feedback and the schema.

The proof work that this plan listed is done: every invariant, action property
and refinement of safety that a run checks is a theorem. What could follow:

1. The safety half of the liveness properties, as `NothingIsForgotten` is for
   jobs: that whatever has to end has, in every state, a step left to take.
2. The publication of an advisory with each call to GitHub a step of its own;
   `PublishReport` is one step.

A composition of `WebhookIngestion` with `JobPipeline` (a delivery answered
*accepted* ends as evidence) would share only the row pair that both create in
one step; `DurableIngestion` and `DurableJobs` state the two halves.
