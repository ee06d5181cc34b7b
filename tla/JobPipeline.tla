------------------------------ MODULE JobPipeline ------------------------------
(***************************************************************************)
(* The analysis-job pipeline of one organization: the authoritative        *)
(* AnalysisJob row and its OutboxEvent row, the relay_outbox command that  *)
(* publishes pending events, the broker, and the Celery workers that run   *)
(* process_job.                                                            *)
(*                                                                         *)
(* A relay and a worker each run inside a database transaction, split here *)
(* where another process can see or break something: the relay publishes   *)
(* to the broker before it commits, and the worker analyses before it      *)
(* commits and acknowledges after.  Row locks are not variables: who holds *)
(* one follows from where the processes are.                               *)
(***************************************************************************)
EXTENDS Naturals, FiniteSets

CONSTANTS
  Jobs,         \* idempotency keys of the jobs that may be requested
  Relays,       \* concurrent relay_outbox commands
  Workers,      \* concurrent Celery worker processes
  NoJob,        \* a process that is not working on a job
  RelayLimit,   \* --limit of the relay command
  MaxAttempts,  \* max_attempts of a job row and of an event row
  MaxFaults,    \* bound on environment faults, to keep the model finite
  Faults        \* which of FaultKinds the environment may inject

FaultKinds ==
  {"crash",        \* a relay or worker process dies
   "unavailable",  \* the broker refuses or times out on a publication
   "invalid",      \* the analysis rejects the snapshot with a ValueError
   "lose",         \* the broker loses a message it had accepted
   "raise",        \* the task ends with another exception or its time limit
   "suspend"}      \* an administrator suspends the organization

ASSUME PipelineAssumption ==
  /\ MaxAttempts \in Nat \ {0}
  /\ RelayLimit \in Nat \ {0}
  /\ MaxFaults \in Nat
  /\ Faults \subseteq FaultKinds
  /\ Relays \cap Workers = {}
  /\ NoJob \notin Jobs

VARIABLES
  orgActive,      \* Organization.lifecycle is active
  jobState,       \* AnalysisJob.state
  jobAttempts,    \* AnalysisJob.attempt_count
  evidence,       \* jobs whose feature set, evidence and score rows exist
  eventState,     \* OutboxEvent.state
  eventAttempts,  \* OutboxEvent.attempt_count
  queue,          \* copies of the task message the broker holds for each job
  relayPc, relayBatch, relayJob,
  workerPc, workerJob,
  faultsLeft,     \* faults the environment may still inject
  sent            \* history: jobs whose message the broker ever accepted

orgVars    == orgActive
jobVars    == <<jobState, jobAttempts, evidence>>
eventVars  == <<eventState, eventAttempts>>
brokerVars == <<queue, sent>>
relayVars  == <<relayPc, relayBatch, relayJob>>
workerVars == <<workerPc, workerJob>>
vars == <<orgVars, jobVars, eventVars, brokerVars, relayVars, workerVars, faultsLeft>>

JobStates   == {"absent", "pending", "completed", "failed"}
EventStates == {"absent", "pending", "published", "failed"}

\* SELECT ... FOR UPDATE on an event locks the joined job row as well; the
\* worker's query locks the job row and the joined organization row.
RelayLocks(r, k)  == relayPc[r] \in {"publishing", "accepted"} /\ relayJob[r] = k
WorkerLocks(w, k) == workerPc[w] = "analyzing" /\ workerJob[w] = k
JobRowFree(k) ==
  /\ \A r \in Relays : ~RelayLocks(r, k)
  /\ \A w \in Workers : ~WorkerLocks(w, k)
OrgRowFree == \A w \in Workers : workerPc[w] # "analyzing"

MayFault(f) == f \in Faults /\ faultsLeft > 0 /\ faultsLeft' = faultsLeft - 1

Init ==
  /\ orgActive = TRUE
  /\ jobState = [k \in Jobs |-> "absent"]
  /\ jobAttempts = [k \in Jobs |-> 0]
  /\ evidence = {}
  /\ eventState = [k \in Jobs |-> "absent"]
  /\ eventAttempts = [k \in Jobs |-> 0]
  /\ queue = [k \in Jobs |-> 0]
  /\ relayPc = [r \in Relays |-> "idle"]
  /\ relayBatch = [r \in Relays |-> {}]
  /\ relayJob = [r \in Relays |-> NoJob]
  /\ workerPc = [w \in Workers |-> "idle"]
  /\ workerJob = [w \in Workers |-> NoJob]
  /\ faultsLeft = MaxFaults
  /\ sent = {}

--------------------------------------------------------------------------------
(* The request: create_job_with_outbox writes both rows in the caller's     *)
(* transaction, after reserve_quota has locked the organization row.        *)

NewEvent(k) == eventState' = [eventState EXCEPT ![k] = "pending"]

CreateJob(k) ==
  /\ jobState[k] = "absent"
  /\ OrgRowFree
  /\ jobState' = [jobState EXCEPT ![k] = "pending"]
  /\ NewEvent(k)
  /\ UNCHANGED <<orgVars, jobAttempts, evidence, eventAttempts, brokerVars,
                 relayVars, workerVars, faultsLeft>>

--------------------------------------------------------------------------------
(* The relay command.                                                       *)

Publishable == {k \in Jobs : eventState[k] = "pending" /\ eventAttempts[k] < MaxAttempts}

\* The unlocked listing: at most RelayLimit events, which may be stale by the
\* time each is visited.
RelayScan(r) ==
  /\ orgActive
  /\ relayPc[r] = "idle" /\ relayBatch[r] = {}
  /\ \E batch \in SUBSET Publishable :
       /\ batch # {}
       /\ Cardinality(batch) <= RelayLimit
       /\ batch # Publishable => Cardinality(batch) = RelayLimit
       /\ relayBatch' = [relayBatch EXCEPT ![r] = batch]
  /\ UNCHANGED <<orgVars, jobVars, eventVars, brokerVars, relayPc, relayJob,
                 workerVars, faultsLeft>>

\* One listed event is locked and its state read again.
RelayClaim(r, k) ==
  /\ relayPc[r] = "idle" /\ k \in relayBatch[r]
  /\ relayBatch' = [relayBatch EXCEPT ![r] = @ \ {k}]
  /\ \/ /\ eventState[k] = "pending" /\ JobRowFree(k)
        /\ relayPc' = [relayPc EXCEPT ![r] = "publishing"]
        /\ relayJob' = [relayJob EXCEPT ![r] = k]
     \/ /\ eventState[k] # "pending"
        /\ UNCHANGED <<relayPc, relayJob>>
  /\ UNCHANGED <<orgVars, jobVars, eventVars, brokerVars, workerVars, faultsLeft>>

\* publisher.publish returns; nothing is committed yet.
RelayPublish(r) ==
  /\ relayPc[r] = "publishing"
  /\ relayPc' = [relayPc EXCEPT ![r] = "accepted"]
  /\ queue' = [queue EXCEPT ![relayJob[r]] = @ + 1]
  /\ sent' = sent \cup {relayJob[r]}
  /\ UNCHANGED <<orgVars, jobVars, eventVars, relayBatch, relayJob, workerVars, faultsLeft>>

RelayRelease(r) ==
  /\ relayPc' = [relayPc EXCEPT ![r] = "idle"]
  /\ relayJob' = [relayJob EXCEPT ![r] = NoJob]

MayCommitEarly(r) == relayPc[r] \in {"publishing", "accepted"}   \* mutated form: before publish
MayCommit(r) == relayPc[r] = "accepted"

RelayCommit(r) ==
  LET k == relayJob[r] IN
  /\ MayCommit(r)
  /\ eventAttempts' = [eventAttempts EXCEPT ![k] = @ + 1]
  /\ eventState' = [eventState EXCEPT ![k] = "published"]
  /\ RelayRelease(r)
  /\ UNCHANGED <<orgVars, jobVars, brokerVars, relayBatch, workerVars, faultsLeft>>

OutOfAttempts(k) == eventAttempts[k] + 1 >= MaxAttempts

\* TaskPublisherError: the broker may or may not have kept the message.
RelayPublishError(r) ==
  LET k == relayJob[r] IN
  /\ "unavailable" \in Faults
  /\ relayPc[r] \in {"publishing", "accepted"}
  /\ eventAttempts' = [eventAttempts EXCEPT ![k] = @ + 1]
  /\ eventState' =
       [eventState EXCEPT ![k] = IF OutOfAttempts(k) THEN "failed" ELSE @]
  /\ RelayRelease(r)
  /\ UNCHANGED <<orgVars, jobVars, brokerVars, relayBatch, workerVars, faultsLeft>>

\* The command dies: its transaction rolls back, a published message does not.
RelayCrash(r) ==
  /\ MayFault("crash")
  /\ relayPc[r] # "idle" \/ relayBatch[r] # {}
  /\ relayBatch' = [relayBatch EXCEPT ![r] = {}]
  /\ RelayRelease(r)
  /\ UNCHANGED <<orgVars, jobVars, eventVars, brokerVars, workerVars>>

--------------------------------------------------------------------------------
(* The worker: process_job and process_ingestion_job under acks_late and    *)
(* reject_on_worker_lost.                                                   *)

WorkerReceive(w, k) ==
  /\ workerPc[w] = "idle"
  /\ queue[k] > 0
  /\ queue' = [queue EXCEPT ![k] = @ - 1]
  /\ workerPc' = [workerPc EXCEPT ![w] = "received"]
  /\ workerJob' = [workerJob EXCEPT ![w] = k]
  /\ UNCHANGED <<orgVars, jobVars, eventVars, sent, relayVars, faultsLeft>>

TerminalByAttempts(k) == jobAttempts[k] >= MaxAttempts   \* mutated form: state not looked at
Terminal(k) == jobState[k] \in {"completed", "failed"} \/ jobAttempts[k] >= MaxAttempts

WorkerTo(w, pc) == workerPc' = [workerPc EXCEPT ![w] = pc]

\* "not_found", "duplicate" or "terminal": nothing is written.
WorkerDecline(w) ==
  LET k == workerJob[w] IN
  /\ workerPc[w] = "received"
  /\ \/ ~orgActive
     \/ JobRowFree(k) /\ OrgRowFree /\ Terminal(k)
  /\ WorkerTo(w, "acking")
  /\ UNCHANGED <<orgVars, jobVars, eventVars, brokerVars, relayVars, workerJob, faultsLeft>>

WorkerBegin(w) ==
  LET k == workerJob[w] IN
  /\ workerPc[w] = "received"
  /\ orgActive
  /\ JobRowFree(k) /\ OrgRowFree
  /\ ~Terminal(k)
  /\ WorkerTo(w, "analyzing")
  /\ UNCHANGED <<orgVars, jobVars, eventVars, brokerVars, relayVars, workerJob, faultsLeft>>

\* The single commit of attempt, evidence and outcome.
PersistAnalysisLater(k) == UNCHANGED evidence   \* mutated form: evidence outside the transaction
PersistAnalysis(k) == evidence' = evidence \cup {k}

WorkerComplete(w) ==
  LET k == workerJob[w] IN
  /\ workerPc[w] = "analyzing"
  /\ jobState' = [jobState EXCEPT ![k] = "completed"]
  /\ jobAttempts' = [jobAttempts EXCEPT ![k] = @ + 1]
  /\ PersistAnalysis(k)
  /\ WorkerTo(w, "acking")
  /\ UNCHANGED <<orgVars, eventVars, brokerVars, relayVars, workerJob, faultsLeft>>

\* ValueError: the savepoint of the analysis is gone, the outcome is kept.
WorkerInvalid(w) ==
  LET k == workerJob[w] IN
  /\ "invalid" \in Faults
  /\ workerPc[w] = "analyzing"
  /\ jobState' = [jobState EXCEPT ![k] = "failed"]
  /\ jobAttempts' = [jobAttempts EXCEPT ![k] = @ + 1]
  /\ WorkerTo(w, "acking")
  /\ UNCHANGED <<orgVars, evidence, eventVars, brokerVars, relayVars, workerJob,
                 faultsLeft>>

WorkerRelease(w) ==
  /\ WorkerTo(w, "idle")
  /\ workerJob' = [workerJob EXCEPT ![w] = NoJob]

WorkerAck(w) ==
  /\ workerPc[w] = "acking"
  /\ WorkerRelease(w)
  /\ UNCHANGED <<orgVars, jobVars, eventVars, brokerVars, relayVars, faultsLeft>>

\* Any other exception, or the time limit: the transaction rolls back and
\* Celery acknowledges the failed task.
WorkerRaise(w) ==
  /\ MayFault("raise")
  /\ workerPc[w] \in {"received", "analyzing"}
  /\ WorkerTo(w, "acking")
  /\ UNCHANGED <<orgVars, jobVars, eventVars, brokerVars, relayVars, workerJob>>

RedeliverNever(k) == UNCHANGED queue   \* mutated form: acknowledged on receipt
Redeliver(k) == queue' = [queue EXCEPT ![k] = @ + 1]

\* The process is lost: what it had not committed rolls back, and what it had
\* not acknowledged is delivered again.
WorkerLost(w) ==
  /\ MayFault("crash")
  /\ workerPc[w] # "idle"
  /\ Redeliver(workerJob[w])
  /\ WorkerRelease(w)
  /\ UNCHANGED <<orgVars, jobVars, eventVars, sent, relayVars>>

--------------------------------------------------------------------------------
(* The environment.                                                         *)

BrokerLose(k) ==
  /\ MayFault("lose")
  /\ queue[k] > 0
  /\ queue' = [queue EXCEPT ![k] = @ - 1]
  /\ UNCHANGED <<orgVars, jobVars, eventVars, sent, relayVars, workerVars>>

\* A worker's row lock on the organization holds the change back.
SuspendOrg ==
  /\ MayFault("suspend")
  /\ orgActive /\ OrgRowFree
  /\ orgActive' = FALSE
  /\ UNCHANGED <<jobVars, eventVars, brokerVars, relayVars, workerVars>>

ReactivateOrg ==
  /\ ~orgActive
  /\ orgActive' = TRUE
  /\ UNCHANGED <<jobVars, eventVars, brokerVars, relayVars, workerVars, faultsLeft>>

--------------------------------------------------------------------------------
RelayNext(r) ==
  \/ RelayScan(r)
  \/ \E k \in Jobs : RelayClaim(r, k)
  \/ RelayPublish(r)
  \/ RelayCommit(r)
  \/ RelayPublishError(r)
  \/ RelayCrash(r)

WorkerNext(w) ==
  \/ \E k \in Jobs : WorkerReceive(w, k)
  \/ WorkerDecline(w)
  \/ WorkerBegin(w)
  \/ WorkerComplete(w)
  \/ WorkerInvalid(w)
  \/ WorkerAck(w)
  \/ WorkerRaise(w)
  \/ WorkerLost(w)

Next ==
  \/ \E k \in Jobs : CreateJob(k) \/ BrokerLose(k)
  \/ \E r \in Relays : RelayNext(r)
  \/ \E w \in Workers : WorkerNext(w)
  \/ SuspendOrg
  \/ ReactivateOrg

Spec == Init /\ [][Next]_vars

\* The relay command is run again and again, a publication ends one way or the
\* other, a worker that is up takes messages and finishes them within its time
\* limit, and a suspended organization is reactivated.
Fairness ==
  /\ \A r \in Relays :
       /\ WF_vars(RelayScan(r))
       /\ \A k \in Jobs : WF_vars(RelayClaim(r, k))
       /\ WF_vars(RelayPublish(r) \/ RelayPublishError(r))
       /\ WF_vars(RelayCommit(r))
  /\ \A w \in Workers :
       /\ WF_vars(\E k \in Jobs : WorkerReceive(w, k))
       /\ WF_vars(WorkerDecline(w) \/ WorkerBegin(w))
       /\ WF_vars(WorkerComplete(w) \/ WorkerInvalid(w))
       /\ WF_vars(WorkerAck(w))
  /\ WF_vars(ReactivateOrg)

FairSpec == Spec /\ Fairness

--------------------------------------------------------------------------------
(* Properties.                                                              *)

\* Every variable keeps its type; the attempt counters stay within the bound the
\* rows' check constraints state.
TypeOK ==
  /\ orgActive \in BOOLEAN
  /\ jobState \in [Jobs -> JobStates]
  /\ jobAttempts \in [Jobs -> 0 .. MaxAttempts]
  /\ evidence \in SUBSET Jobs
  /\ eventState \in [Jobs -> EventStates]
  /\ eventAttempts \in [Jobs -> 0 .. MaxAttempts]
  /\ queue \in [Jobs -> Nat]
  /\ relayPc \in [Relays -> {"idle", "publishing", "accepted"}]
  /\ relayBatch \in [Relays -> SUBSET Jobs]
  /\ relayJob \in [Relays -> Jobs \cup {NoJob}]
  /\ workerPc \in [Workers -> {"idle", "received", "analyzing", "acking"}]
  /\ workerJob \in [Workers -> Jobs \cup {NoJob}]
  /\ faultsLeft \in 0 .. MaxFaults
  /\ sent \in SUBSET Jobs

\* Transactional outbox: whatever the interleaving, a job row exists exactly when
\* its event row does, and only a requested job is ever sent to the broker.
TransactionalOutbox ==
  /\ \A k \in Jobs : jobState[k] = "absent" <=> eventState[k] = "absent"
  /\ \A k \in sent : eventState[k] # "absent"

\* An event leaves the pending state as published only after the broker accepted
\* its message, however many relays race over stale listings and however they die.
PublishedWasSent == \A k \in Jobs : eventState[k] = "published" => k \in sent

\* Two transactions never work on the same rows: no two relays publish one event,
\* no worker analyses a job that a relay is publishing, and no two workers analyse
\* jobs of the same organization at once.
JobRowExclusive ==
  /\ \A r, q \in Relays : \A k \in Jobs : RelayLocks(r, k) /\ RelayLocks(q, k) => r = q
  /\ \A w, v \in Workers : workerPc[w] = "analyzing" /\ workerPc[v] = "analyzing" => w = v
  /\ \A r \in Relays, w \in Workers : \A k \in Jobs : ~(RelayLocks(r, k) /\ WorkerLocks(w, k))

\* The analysis evidence is visible exactly when the job is completed, through
\* worker loss, duplicate delivery and failed analyses alike.
EvidenceIffCompleted == \A k \in Jobs : k \in evidence <=> jobState[k] = "completed"

\* Where a pending job's progress comes from.
InFlight(k) ==
  \/ queue[k] > 0
  \/ \E w \in Workers : workerPc[w] \in {"received", "analyzing"} /\ workerJob[w] = k

\* With a broker that keeps what it accepted, tasks that end only by settling the
\* job or by worker loss, and no suspension, a pending job is never forgotten:
\* its event is still to be published, ran out of attempts, or its message is on
\* the way.  Late acknowledgement and commit-after-publish are what make it so.
PendingIsCarried ==
  \A k \in Jobs : jobState[k] = "pending" =>
    \/ eventState[k] \in {"pending", "failed"}
    \/ InFlight(k)

\* A settled job never changes again, not even its attempt count: a duplicate or
\* late task delivery is harmless.
SettledStays ==
  \A k \in Jobs : jobState[k] \in {"completed", "failed"} =>
    /\ jobState'[k] = jobState[k]
    /\ jobAttempts'[k] = jobAttempts[k]
    /\ (k \in evidence') = (k \in evidence)
SettledIsFinal == [][SettledStays]_vars

\* The pipeline implements the abstract promise of DurableJobs.
Durable == INSTANCE DurableJobs WITH status <- jobState
ImplementsDurableJobs == Durable!Spec
ImplementsLiveJobs == Durable!LiveSpec

\* Every requested analysis is eventually settled: "Redis/Celery transport loss
\* cannot erase an accepted webhook, requested analysis, or authoritative result"
\* (docs/decisions/ADR-004_CELERY_REDIS_ASYNC.md).
RequestedIsSettled == \A k \in Jobs : jobState[k] = "pending" ~> jobState[k] # "pending"

================================================================================
