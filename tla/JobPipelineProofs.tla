--------------------------- MODULE JobPipelineProofs ---------------------------
(***************************************************************************)
(* Proofs about JobPipeline for any sets of jobs, relays and workers and   *)
(* any bounds.  The invariant says what each process may rely on while it  *)
(* holds a row lock; every safety property of the module follows from it.  *)
(***************************************************************************)
EXTENDS JobPipeline, TLAPS

\* A relay that holds an event holds a pending one of a known job, and has really
\* sent it once the broker accepted.
RelaysHoldPending ==
  \A r \in Relays : relayPc[r] # "idle" =>
    /\ relayJob[r] \in Jobs
    /\ eventState[relayJob[r]] = "pending"
    /\ relayPc[r] = "accepted" => relayJob[r] \in sent

\* A busy worker has a requested job, and an analysed job is still pending.
WorkersHoldRequested ==
  \A w \in Workers : workerPc[w] # "idle" =>
    /\ workerJob[w] \in Jobs
    /\ jobState[workerJob[w]] # "absent"
    /\ workerPc[w] = "analyzing" => jobState[workerJob[w]] = "pending"

\* Only requested jobs have messages; unsettled rows have attempts left.
AttemptsLeft ==
  \A k \in Jobs :
    /\ queue[k] > 0 => jobState[k] # "absent"
    /\ jobState[k] \in {"absent", "pending"} => jobAttempts[k] = 0
    /\ eventState[k] \in {"absent", "pending"} => eventAttempts[k] < MaxAttempts

IInv ==
  /\ TypeOK
  /\ TransactionalOutbox
  /\ PublishedWasSent
  /\ JobRowExclusive
  /\ EvidenceIffCompleted
  /\ RelaysHoldPending
  /\ WorkersHoldRequested
  /\ AttemptsLeft

--------------------------------------------------------------------------------
(* Each action preserves the invariant.                                    *)

LEMMA CreateJobPreserves ==
  ASSUME IInv, NEW k \in Jobs, CreateJob(k)
  PROVE  IInv'
<1>. USE DEF IInv
<1>1. TypeOK'
  BY PipelineAssumption DEF TypeOK, RelaysHoldPending, WorkersHoldRequested,
    AttemptsLeft, CreateJob, NewEvent, OrgRowFree, orgVars, brokerVars, relayVars,
    workerVars, JobStates, EventStates
<1>2. TransactionalOutbox'
  BY DEF TypeOK, TransactionalOutbox, RelaysHoldPending, WorkersHoldRequested,
    CreateJob, NewEvent, OrgRowFree, orgVars, brokerVars, relayVars, workerVars
<1>3. PublishedWasSent'
  BY DEF TypeOK, PublishedWasSent, RelaysHoldPending, CreateJob, NewEvent, OrgRowFree,
    orgVars, brokerVars, relayVars, workerVars
<1>4. EvidenceIffCompleted'
  BY DEF TypeOK, EvidenceIffCompleted, WorkersHoldRequested, CreateJob, NewEvent,
    OrgRowFree, orgVars, brokerVars, relayVars, workerVars
<1>5. RelaysHoldPending'
  BY DEF TypeOK, RelaysHoldPending, JobRowExclusive, CreateJob, NewEvent, OrgRowFree,
    orgVars, brokerVars, relayVars, workerVars, RelayLocks, WorkerLocks
<1>6. WorkersHoldRequested'
  BY DEF TypeOK, WorkersHoldRequested, JobRowExclusive, AttemptsLeft, CreateJob,
    NewEvent, OrgRowFree, orgVars, brokerVars, relayVars, workerVars, RelayLocks,
    WorkerLocks
<1>7. AttemptsLeft'
  BY PipelineAssumption DEF TypeOK, AttemptsLeft, RelaysHoldPending,
    WorkersHoldRequested, TransactionalOutbox, CreateJob, NewEvent, OrgRowFree, orgVars,
    brokerVars, relayVars, workerVars
<1>8. JobRowExclusive'
  BY DEF JobRowExclusive, CreateJob, NewEvent, orgVars, brokerVars, relayVars,
    workerVars, RelayLocks, WorkerLocks
<1>. QED  BY <1>1, <1>2, <1>3, <1>4, <1>5, <1>6, <1>7, <1>8

LEMMA RelayScanPreserves ==
  ASSUME IInv, NEW r \in Relays, RelayScan(r)
  PROVE  IInv'
<1>. USE DEF IInv
<1>1. TypeOK'
  BY PipelineAssumption DEF TypeOK, RelaysHoldPending, WorkersHoldRequested,
    AttemptsLeft, RelayScan, Publishable, orgVars, jobVars, eventVars, brokerVars,
    workerVars, JobStates, EventStates
<1>2. /\ TransactionalOutbox'
      /\ PublishedWasSent'
      /\ JobRowExclusive'
      /\ EvidenceIffCompleted'
      /\ RelaysHoldPending'
      /\ WorkersHoldRequested'
      /\ AttemptsLeft'
  BY DEF TransactionalOutbox, PublishedWasSent, JobRowExclusive, EvidenceIffCompleted,
    RelaysHoldPending, WorkersHoldRequested, AttemptsLeft, RelayScan, orgVars, jobVars,
    eventVars, brokerVars, workerVars, RelayLocks, WorkerLocks
<1>. QED  BY <1>1, <1>2

LEMMA RelayClaimPreserves ==
  ASSUME IInv, NEW r \in Relays, NEW k \in Jobs, RelayClaim(r, k)
  PROVE  IInv'
<1>. USE DEF IInv
<1>1. TypeOK'
  BY PipelineAssumption DEF TypeOK, RelaysHoldPending, WorkersHoldRequested,
    AttemptsLeft, RelayClaim, JobRowFree, orgVars, jobVars, eventVars, brokerVars,
    workerVars, JobStates, EventStates
<1>2. JobRowExclusive'
  BY DEF TypeOK, JobRowExclusive, RelaysHoldPending, WorkersHoldRequested, RelayClaim,
    JobRowFree, orgVars, jobVars, eventVars, brokerVars, workerVars, RelayLocks,
    WorkerLocks
<1>3. RelaysHoldPending'
  BY DEF TypeOK, RelaysHoldPending, JobRowExclusive, RelayClaim, JobRowFree, orgVars,
    jobVars, eventVars, brokerVars, workerVars, RelayLocks, WorkerLocks
<1>4. /\ TransactionalOutbox'
      /\ PublishedWasSent'
      /\ EvidenceIffCompleted'
      /\ WorkersHoldRequested'
      /\ AttemptsLeft'
  BY DEF TransactionalOutbox, PublishedWasSent, EvidenceIffCompleted,
    WorkersHoldRequested, AttemptsLeft, RelayClaim, orgVars, jobVars, eventVars,
    brokerVars, workerVars
<1>. QED  BY <1>1, <1>2, <1>3, <1>4

LEMMA RelayPublishPreserves ==
  ASSUME IInv, NEW r \in Relays, RelayPublish(r)
  PROVE  IInv'
<1>. USE DEF IInv
<1>1. TypeOK'
  BY PipelineAssumption DEF TypeOK, RelaysHoldPending, WorkersHoldRequested,
    AttemptsLeft, RelayPublish, orgVars, jobVars, eventVars, workerVars, JobStates,
    EventStates
<1>2. TransactionalOutbox'
  BY DEF TypeOK, TransactionalOutbox, RelaysHoldPending, WorkersHoldRequested,
    RelayPublish, orgVars, jobVars, eventVars, workerVars
<1>3. PublishedWasSent'
  BY DEF TypeOK, PublishedWasSent, RelaysHoldPending, RelayPublish, orgVars, jobVars,
    eventVars, workerVars
<1>4. JobRowExclusive'
  BY DEF TypeOK, JobRowExclusive, RelaysHoldPending, WorkersHoldRequested, RelayPublish,
    orgVars, jobVars, eventVars, workerVars, RelayLocks, WorkerLocks
<1>5. RelaysHoldPending'
  BY DEF TypeOK, RelaysHoldPending, JobRowExclusive, RelayPublish, orgVars, jobVars,
    eventVars, workerVars, RelayLocks, WorkerLocks
<1>6. AttemptsLeft'
  BY PipelineAssumption DEF TypeOK, AttemptsLeft, RelaysHoldPending,
    WorkersHoldRequested, TransactionalOutbox, RelayPublish, orgVars, jobVars,
    eventVars, workerVars
<1>7. EvidenceIffCompleted' /\ WorkersHoldRequested'
  BY DEF EvidenceIffCompleted, WorkersHoldRequested, RelayPublish, orgVars, jobVars,
    eventVars, workerVars
<1>. QED  BY <1>1, <1>2, <1>3, <1>4, <1>5, <1>6, <1>7

LEMMA RelayCommitPreserves ==
  ASSUME IInv, NEW r \in Relays, RelayCommit(r)
  PROVE  IInv'
<1>. USE DEF IInv
<1>1. TypeOK'
  BY PipelineAssumption DEF TypeOK, RelaysHoldPending, WorkersHoldRequested,
    AttemptsLeft, RelayCommit, MayCommit, RelayRelease, orgVars, jobVars, brokerVars,
    workerVars, JobStates, EventStates
<1>2. TransactionalOutbox'
  BY DEF TypeOK, TransactionalOutbox, RelaysHoldPending, WorkersHoldRequested,
    RelayCommit, MayCommit, RelayRelease, orgVars, jobVars, brokerVars, workerVars
<1>3. PublishedWasSent'
  BY DEF TypeOK, PublishedWasSent, RelaysHoldPending, RelayCommit, MayCommit,
    RelayRelease, orgVars, jobVars, brokerVars, workerVars
<1>4. JobRowExclusive'
  BY DEF TypeOK, JobRowExclusive, RelaysHoldPending, WorkersHoldRequested, RelayCommit,
    MayCommit, RelayRelease, orgVars, jobVars, brokerVars, workerVars, RelayLocks,
    WorkerLocks
<1>5. RelaysHoldPending'
  BY DEF TypeOK, RelaysHoldPending, JobRowExclusive, RelayCommit, MayCommit,
    RelayRelease, orgVars, jobVars, brokerVars, workerVars, RelayLocks, WorkerLocks
<1>6. AttemptsLeft'
  BY PipelineAssumption DEF TypeOK, AttemptsLeft, RelaysHoldPending,
    WorkersHoldRequested, TransactionalOutbox, RelayCommit, MayCommit, RelayRelease,
    orgVars, jobVars, brokerVars, workerVars
<1>7. EvidenceIffCompleted' /\ WorkersHoldRequested'
  BY DEF EvidenceIffCompleted, WorkersHoldRequested, RelayCommit, RelayRelease, orgVars,
    jobVars, brokerVars, workerVars
<1>. QED  BY <1>1, <1>2, <1>3, <1>4, <1>5, <1>6, <1>7

LEMMA RelayPublishErrorPreserves ==
  ASSUME IInv, NEW r \in Relays, RelayPublishError(r)
  PROVE  IInv'
<1>. USE DEF IInv
<1>1. TypeOK'
  BY PipelineAssumption DEF TypeOK, RelaysHoldPending, WorkersHoldRequested,
    AttemptsLeft, RelayPublishError, OutOfAttempts, RelayRelease, orgVars, jobVars,
    brokerVars, workerVars, JobStates, EventStates
<1>2. TransactionalOutbox'
  BY DEF TypeOK, TransactionalOutbox, RelaysHoldPending, WorkersHoldRequested,
    RelayPublishError, OutOfAttempts, RelayRelease, orgVars, jobVars, brokerVars,
    workerVars
<1>3. PublishedWasSent'
  BY DEF TypeOK, PublishedWasSent, RelaysHoldPending, RelayPublishError, OutOfAttempts,
    RelayRelease, orgVars, jobVars, brokerVars, workerVars
<1>4. JobRowExclusive'
  BY DEF TypeOK, JobRowExclusive, RelaysHoldPending, WorkersHoldRequested,
    RelayPublishError, OutOfAttempts, RelayRelease, orgVars, jobVars, brokerVars,
    workerVars, RelayLocks, WorkerLocks
<1>5. RelaysHoldPending'
  BY DEF TypeOK, RelaysHoldPending, JobRowExclusive, RelayPublishError, OutOfAttempts,
    RelayRelease, orgVars, jobVars, brokerVars, workerVars, RelayLocks, WorkerLocks
<1>6. AttemptsLeft'
  BY PipelineAssumption DEF TypeOK, AttemptsLeft, RelaysHoldPending,
    WorkersHoldRequested, TransactionalOutbox, RelayPublishError, OutOfAttempts,
    RelayRelease, orgVars, jobVars, brokerVars, workerVars
<1>7. EvidenceIffCompleted' /\ WorkersHoldRequested'
  BY DEF EvidenceIffCompleted, WorkersHoldRequested, RelayPublishError, RelayRelease,
    orgVars, jobVars, brokerVars, workerVars
<1>. QED  BY <1>1, <1>2, <1>3, <1>4, <1>5, <1>6, <1>7

LEMMA RelayCrashPreserves ==
  ASSUME IInv, NEW r \in Relays, RelayCrash(r)
  PROVE  IInv'
<1>. USE DEF IInv
<1>1. TypeOK'
  BY PipelineAssumption DEF TypeOK, RelaysHoldPending, WorkersHoldRequested,
    AttemptsLeft, RelayCrash, RelayRelease, MayFault, orgVars, jobVars, eventVars,
    brokerVars, workerVars, JobStates, EventStates
<1>2. JobRowExclusive'
  BY DEF TypeOK, JobRowExclusive, RelaysHoldPending, WorkersHoldRequested, RelayCrash,
    RelayRelease, MayFault, orgVars, jobVars, eventVars, brokerVars, workerVars,
    RelayLocks, WorkerLocks
<1>3. RelaysHoldPending'
  BY DEF TypeOK, RelaysHoldPending, JobRowExclusive, RelayCrash, RelayRelease, MayFault,
    orgVars, jobVars, eventVars, brokerVars, workerVars, RelayLocks, WorkerLocks
<1>4. /\ TransactionalOutbox'
      /\ PublishedWasSent'
      /\ EvidenceIffCompleted'
      /\ WorkersHoldRequested'
      /\ AttemptsLeft'
  BY DEF TransactionalOutbox, PublishedWasSent, EvidenceIffCompleted,
    WorkersHoldRequested, AttemptsLeft, RelayCrash, MayFault, RelayRelease, orgVars,
    jobVars, eventVars, brokerVars, workerVars
<1>. QED  BY <1>1, <1>2, <1>3, <1>4

LEMMA WorkerReceivePreserves ==
  ASSUME IInv, NEW w \in Workers, NEW k \in Jobs, WorkerReceive(w, k)
  PROVE  IInv'
<1>. USE DEF IInv
<1>1. TypeOK'
  BY PipelineAssumption DEF TypeOK, RelaysHoldPending, WorkersHoldRequested,
    AttemptsLeft, WorkerReceive, orgVars, jobVars, eventVars, relayVars, JobStates,
    EventStates
<1>2. JobRowExclusive'
  BY DEF TypeOK, JobRowExclusive, RelaysHoldPending, WorkersHoldRequested,
    WorkerReceive, orgVars, jobVars, eventVars, relayVars, RelayLocks, WorkerLocks
<1>3. WorkersHoldRequested'
  BY DEF TypeOK, WorkersHoldRequested, JobRowExclusive, AttemptsLeft, WorkerReceive,
    orgVars, jobVars, eventVars, relayVars, RelayLocks, WorkerLocks
<1>4. AttemptsLeft'
  BY PipelineAssumption DEF TypeOK, AttemptsLeft, RelaysHoldPending,
    WorkersHoldRequested, TransactionalOutbox, WorkerReceive, orgVars, jobVars,
    eventVars, relayVars
<1>5. /\ TransactionalOutbox'
      /\ PublishedWasSent'
      /\ EvidenceIffCompleted'
      /\ RelaysHoldPending'
  BY DEF TransactionalOutbox, PublishedWasSent, EvidenceIffCompleted, RelaysHoldPending,
    WorkerReceive, orgVars, jobVars, eventVars, relayVars
<1>. QED  BY <1>1, <1>2, <1>3, <1>4, <1>5

LEMMA WorkerDeclinePreserves ==
  ASSUME IInv, NEW w \in Workers, WorkerDecline(w)
  PROVE  IInv'
<1>. USE DEF IInv
<1>1. TypeOK'
  BY PipelineAssumption DEF TypeOK, RelaysHoldPending, WorkersHoldRequested,
    AttemptsLeft, WorkerDecline, WorkerTo, orgVars, jobVars, eventVars, brokerVars,
    relayVars, JobStates, EventStates
<1>2. JobRowExclusive'
  BY DEF TypeOK, JobRowExclusive, RelaysHoldPending, WorkersHoldRequested,
    WorkerDecline, WorkerTo, orgVars, jobVars, eventVars, brokerVars, relayVars,
    RelayLocks, WorkerLocks
<1>3. WorkersHoldRequested'
  BY DEF TypeOK, WorkersHoldRequested, JobRowExclusive, AttemptsLeft, WorkerDecline,
    WorkerTo, orgVars, jobVars, eventVars, brokerVars, relayVars, RelayLocks,
    WorkerLocks
<1>4. /\ TransactionalOutbox'
      /\ PublishedWasSent'
      /\ EvidenceIffCompleted'
      /\ RelaysHoldPending'
      /\ AttemptsLeft'
  BY DEF TransactionalOutbox, PublishedWasSent, EvidenceIffCompleted, RelaysHoldPending,
    AttemptsLeft, WorkerDecline, WorkerTo, orgVars, jobVars, eventVars, brokerVars,
    relayVars
<1>. QED  BY <1>1, <1>2, <1>3, <1>4

LEMMA WorkerBeginPreserves ==
  ASSUME IInv, NEW w \in Workers, WorkerBegin(w)
  PROVE  IInv'
<1>. USE DEF IInv
<1>1. TypeOK'
  BY PipelineAssumption DEF TypeOK, RelaysHoldPending, WorkersHoldRequested,
    AttemptsLeft, WorkerBegin, WorkerTo, Terminal, JobRowFree, OrgRowFree, orgVars,
    jobVars, eventVars, brokerVars, relayVars, JobStates, EventStates
<1>2. JobRowExclusive'
  BY DEF TypeOK, JobRowExclusive, RelaysHoldPending, WorkersHoldRequested, WorkerBegin,
    WorkerTo, Terminal, JobRowFree, OrgRowFree, orgVars, jobVars, eventVars, brokerVars,
    relayVars, RelayLocks, WorkerLocks
<1>3. WorkersHoldRequested'
  BY DEF TypeOK, WorkersHoldRequested, JobRowExclusive, AttemptsLeft, WorkerBegin,
    WorkerTo, Terminal, JobRowFree, OrgRowFree, orgVars, jobVars, eventVars, brokerVars,
    relayVars, RelayLocks, WorkerLocks, JobStates
<1>4. /\ TransactionalOutbox'
      /\ PublishedWasSent'
      /\ EvidenceIffCompleted'
      /\ RelaysHoldPending'
      /\ AttemptsLeft'
  BY DEF TransactionalOutbox, PublishedWasSent, EvidenceIffCompleted, RelaysHoldPending,
    AttemptsLeft, WorkerBegin, WorkerTo, orgVars, jobVars, eventVars, brokerVars,
    relayVars
<1>. QED  BY <1>1, <1>2, <1>3, <1>4

LEMMA WorkerCompletePreserves ==
  ASSUME IInv, NEW w \in Workers, WorkerComplete(w)
  PROVE  IInv'
<1>. USE DEF IInv
<1>1. TypeOK'
  BY PipelineAssumption DEF TypeOK, RelaysHoldPending, WorkersHoldRequested,
    AttemptsLeft, WorkerComplete, WorkerTo, PersistAnalysis, orgVars, eventVars,
    brokerVars, relayVars, JobStates, EventStates
<1>2. TransactionalOutbox'
  BY DEF TypeOK, TransactionalOutbox, RelaysHoldPending, WorkersHoldRequested,
    WorkerComplete, WorkerTo, PersistAnalysis, orgVars, eventVars, brokerVars, relayVars
<1>3. JobRowExclusive'
  BY DEF TypeOK, JobRowExclusive, RelaysHoldPending, WorkersHoldRequested,
    WorkerComplete, WorkerTo, PersistAnalysis, orgVars, eventVars, brokerVars,
    relayVars, RelayLocks, WorkerLocks
<1>4. EvidenceIffCompleted'
  BY DEF TypeOK, EvidenceIffCompleted, WorkersHoldRequested, WorkerComplete, WorkerTo,
    PersistAnalysis, orgVars, eventVars, brokerVars, relayVars
<1>5. WorkersHoldRequested'
  BY DEF TypeOK, WorkersHoldRequested, JobRowExclusive, AttemptsLeft, WorkerComplete,
    WorkerTo, PersistAnalysis, orgVars, eventVars, brokerVars, relayVars, RelayLocks,
    WorkerLocks
<1>6. AttemptsLeft'
  BY PipelineAssumption DEF TypeOK, AttemptsLeft, RelaysHoldPending,
    WorkersHoldRequested, TransactionalOutbox, WorkerComplete, WorkerTo,
    PersistAnalysis, orgVars, eventVars, brokerVars, relayVars
<1>7. PublishedWasSent' /\ RelaysHoldPending'
  BY DEF PublishedWasSent, RelaysHoldPending, WorkerComplete, WorkerTo, PersistAnalysis,
    orgVars, eventVars, brokerVars, relayVars
<1>. QED  BY <1>1, <1>2, <1>3, <1>4, <1>5, <1>6, <1>7

LEMMA WorkerInvalidPreserves ==
  ASSUME IInv, NEW w \in Workers, WorkerInvalid(w)
  PROVE  IInv'
<1>. USE DEF IInv
<1>1. TypeOK'
  BY PipelineAssumption DEF TypeOK, RelaysHoldPending, WorkersHoldRequested,
    AttemptsLeft, WorkerInvalid, WorkerTo, orgVars, eventVars, brokerVars, relayVars,
    JobStates, EventStates
<1>2. TransactionalOutbox'
  BY DEF TypeOK, TransactionalOutbox, RelaysHoldPending, WorkersHoldRequested,
    WorkerInvalid, WorkerTo, orgVars, eventVars, brokerVars, relayVars
<1>3. JobRowExclusive'
  BY DEF TypeOK, JobRowExclusive, RelaysHoldPending, WorkersHoldRequested,
    WorkerInvalid, WorkerTo, orgVars, eventVars, brokerVars, relayVars, RelayLocks,
    WorkerLocks
<1>4. EvidenceIffCompleted'
  BY DEF TypeOK, EvidenceIffCompleted, WorkersHoldRequested, WorkerInvalid, WorkerTo,
    orgVars, eventVars, brokerVars, relayVars
<1>5. WorkersHoldRequested'
  BY DEF TypeOK, WorkersHoldRequested, JobRowExclusive, AttemptsLeft, WorkerInvalid,
    WorkerTo, orgVars, eventVars, brokerVars, relayVars, RelayLocks, WorkerLocks
<1>6. AttemptsLeft'
  BY PipelineAssumption DEF TypeOK, AttemptsLeft, RelaysHoldPending,
    WorkersHoldRequested, TransactionalOutbox, WorkerInvalid, WorkerTo, orgVars,
    eventVars, brokerVars, relayVars
<1>7. PublishedWasSent' /\ RelaysHoldPending'
  BY DEF PublishedWasSent, RelaysHoldPending, WorkerInvalid, WorkerTo, orgVars,
    eventVars, brokerVars, relayVars
<1>. QED  BY <1>1, <1>2, <1>3, <1>4, <1>5, <1>6, <1>7

LEMMA WorkerAckPreserves ==
  ASSUME IInv, NEW w \in Workers, WorkerAck(w)
  PROVE  IInv'
<1>. USE DEF IInv
<1>1. TypeOK'
  BY PipelineAssumption DEF TypeOK, RelaysHoldPending, WorkersHoldRequested,
    AttemptsLeft, WorkerAck, WorkerTo, WorkerRelease, orgVars, jobVars, eventVars,
    brokerVars, relayVars, JobStates, EventStates
<1>2. JobRowExclusive'
  BY DEF TypeOK, JobRowExclusive, RelaysHoldPending, WorkersHoldRequested, WorkerAck,
    WorkerTo, WorkerRelease, orgVars, jobVars, eventVars, brokerVars, relayVars,
    RelayLocks, WorkerLocks
<1>3. WorkersHoldRequested'
  BY DEF TypeOK, WorkersHoldRequested, JobRowExclusive, AttemptsLeft, WorkerAck,
    WorkerTo, WorkerRelease, orgVars, jobVars, eventVars, brokerVars, relayVars,
    RelayLocks, WorkerLocks
<1>4. /\ TransactionalOutbox'
      /\ PublishedWasSent'
      /\ EvidenceIffCompleted'
      /\ RelaysHoldPending'
      /\ AttemptsLeft'
  BY DEF TransactionalOutbox, PublishedWasSent, EvidenceIffCompleted, RelaysHoldPending,
    AttemptsLeft, WorkerAck, WorkerTo, WorkerRelease, orgVars, jobVars, eventVars,
    brokerVars, relayVars
<1>. QED  BY <1>1, <1>2, <1>3, <1>4

LEMMA WorkerRaisePreserves ==
  ASSUME IInv, NEW w \in Workers, WorkerRaise(w)
  PROVE  IInv'
<1>. USE DEF IInv
<1>1. TypeOK'
  BY PipelineAssumption DEF TypeOK, RelaysHoldPending, WorkersHoldRequested,
    AttemptsLeft, WorkerRaise, WorkerTo, MayFault, orgVars, jobVars, eventVars,
    brokerVars, relayVars, JobStates, EventStates
<1>2. JobRowExclusive'
  BY DEF TypeOK, JobRowExclusive, RelaysHoldPending, WorkersHoldRequested, WorkerRaise,
    WorkerTo, MayFault, orgVars, jobVars, eventVars, brokerVars, relayVars, RelayLocks,
    WorkerLocks
<1>3. WorkersHoldRequested'
  BY DEF TypeOK, WorkersHoldRequested, JobRowExclusive, AttemptsLeft, WorkerRaise,
    WorkerTo, MayFault, orgVars, jobVars, eventVars, brokerVars, relayVars, RelayLocks,
    WorkerLocks
<1>4. /\ TransactionalOutbox'
      /\ PublishedWasSent'
      /\ EvidenceIffCompleted'
      /\ RelaysHoldPending'
      /\ AttemptsLeft'
  BY DEF TransactionalOutbox, PublishedWasSent, EvidenceIffCompleted, RelaysHoldPending,
    AttemptsLeft, WorkerRaise, MayFault, WorkerTo, orgVars, jobVars, eventVars,
    brokerVars, relayVars
<1>. QED  BY <1>1, <1>2, <1>3, <1>4

LEMMA WorkerLostPreserves ==
  ASSUME IInv, NEW w \in Workers, WorkerLost(w)
  PROVE  IInv'
<1>. USE DEF IInv
<1>1. TypeOK'
  BY PipelineAssumption DEF TypeOK, RelaysHoldPending, WorkersHoldRequested,
    AttemptsLeft, WorkerLost, WorkerTo, WorkerRelease, MayFault, Redeliver, orgVars,
    jobVars, eventVars, relayVars, JobStates, EventStates
<1>2. JobRowExclusive'
  BY DEF TypeOK, JobRowExclusive, RelaysHoldPending, WorkersHoldRequested, WorkerLost,
    WorkerTo, WorkerRelease, MayFault, Redeliver, orgVars, jobVars, eventVars,
    relayVars, RelayLocks, WorkerLocks
<1>3. WorkersHoldRequested'
  BY DEF TypeOK, WorkersHoldRequested, JobRowExclusive, AttemptsLeft, WorkerLost,
    WorkerTo, WorkerRelease, MayFault, Redeliver, orgVars, jobVars, eventVars,
    relayVars, RelayLocks, WorkerLocks
<1>4. AttemptsLeft'
  BY PipelineAssumption DEF TypeOK, AttemptsLeft, RelaysHoldPending,
    WorkersHoldRequested, TransactionalOutbox, WorkerLost, WorkerTo, WorkerRelease,
    MayFault, Redeliver, orgVars, jobVars, eventVars, relayVars
<1>5. /\ TransactionalOutbox'
      /\ PublishedWasSent'
      /\ EvidenceIffCompleted'
      /\ RelaysHoldPending'
  BY DEF TransactionalOutbox, PublishedWasSent, EvidenceIffCompleted, RelaysHoldPending,
    WorkerLost, MayFault, WorkerTo, WorkerRelease, Redeliver, orgVars, jobVars,
    eventVars, relayVars
<1>. QED  BY <1>1, <1>2, <1>3, <1>4, <1>5

LEMMA BrokerLosePreserves ==
  ASSUME IInv, NEW k \in Jobs, BrokerLose(k)
  PROVE  IInv'
<1>. USE DEF IInv
<1>1. TypeOK'
  BY PipelineAssumption DEF TypeOK, RelaysHoldPending, WorkersHoldRequested,
    AttemptsLeft, BrokerLose, MayFault, orgVars, jobVars, eventVars, relayVars,
    workerVars, JobStates, EventStates
<1>2. AttemptsLeft'
  BY PipelineAssumption DEF TypeOK, AttemptsLeft, RelaysHoldPending,
    WorkersHoldRequested, TransactionalOutbox, BrokerLose, MayFault, orgVars, jobVars,
    eventVars, relayVars, workerVars
<1>3. /\ TransactionalOutbox'
      /\ PublishedWasSent'
      /\ JobRowExclusive'
      /\ EvidenceIffCompleted'
      /\ RelaysHoldPending'
      /\ WorkersHoldRequested'
  BY DEF TransactionalOutbox, PublishedWasSent, JobRowExclusive, EvidenceIffCompleted,
    RelaysHoldPending, WorkersHoldRequested, BrokerLose, MayFault, orgVars, jobVars,
    eventVars, relayVars, workerVars, RelayLocks, WorkerLocks
<1>. QED  BY <1>1, <1>2, <1>3

LEMMA SuspendOrgPreserves ==
  ASSUME IInv, SuspendOrg
  PROVE  IInv'
<1>. USE DEF IInv
<1>1. TypeOK'
  <2>1. orgActive' \in BOOLEAN
    BY DEF SuspendOrg
  <2>2. faultsLeft' \in 0 .. MaxFaults
    BY PipelineAssumption DEF TypeOK, SuspendOrg, MayFault
  <2>. QED
    BY <2>1, <2>2 DEF TypeOK, SuspendOrg, jobVars, eventVars, brokerVars, relayVars, workerVars
<1>2. /\ TransactionalOutbox'
      /\ PublishedWasSent'
      /\ JobRowExclusive'
      /\ EvidenceIffCompleted'
      /\ RelaysHoldPending'
      /\ WorkersHoldRequested'
      /\ AttemptsLeft'
  BY DEF TransactionalOutbox, PublishedWasSent, JobRowExclusive, EvidenceIffCompleted,
    RelaysHoldPending, WorkersHoldRequested, AttemptsLeft, SuspendOrg, MayFault,
    jobVars, eventVars, brokerVars, relayVars, workerVars, RelayLocks, WorkerLocks
<1>. QED  BY <1>1, <1>2

LEMMA ReactivateOrgPreserves ==
  ASSUME IInv, ReactivateOrg
  PROVE  IInv'
<1>. USE DEF IInv
<1>1. TypeOK'
  <2>1. orgActive' \in BOOLEAN
    BY DEF ReactivateOrg
  <2>2. faultsLeft' \in 0 .. MaxFaults
    BY PipelineAssumption DEF TypeOK, ReactivateOrg
  <2>. QED
    BY <2>1, <2>2 DEF TypeOK, ReactivateOrg, jobVars, eventVars, brokerVars, relayVars, workerVars
<1>2. /\ TransactionalOutbox'
      /\ PublishedWasSent'
      /\ JobRowExclusive'
      /\ EvidenceIffCompleted'
      /\ RelaysHoldPending'
      /\ WorkersHoldRequested'
      /\ AttemptsLeft'
  BY DEF TransactionalOutbox, PublishedWasSent, JobRowExclusive, EvidenceIffCompleted,
    RelaysHoldPending, WorkersHoldRequested, AttemptsLeft, ReactivateOrg, jobVars,
    eventVars, brokerVars, relayVars, workerVars, RelayLocks, WorkerLocks
<1>. QED  BY <1>1, <1>2

--------------------------------------------------------------------------------
(* The invariant holds of every behaviour of the pipeline.                  *)

LEMMA InitEstablishes == Init => IInv
  BY PipelineAssumption
  DEF Init, IInv, TypeOK, TransactionalOutbox, PublishedWasSent, JobRowExclusive,
    EvidenceIffCompleted, RelaysHoldPending, WorkersHoldRequested, AttemptsLeft,
    RelayLocks, WorkerLocks, JobStates, EventStates

LEMMA StutterPreserves == IInv /\ UNCHANGED vars => IInv'
  BY DEF vars, orgVars, jobVars, eventVars, brokerVars, relayVars, workerVars, IInv, TypeOK,
    TransactionalOutbox, PublishedWasSent, JobRowExclusive, EvidenceIffCompleted,
    RelaysHoldPending, WorkersHoldRequested, AttemptsLeft, RelayLocks, WorkerLocks

LEMMA NextPreserves == IInv /\ [Next]_vars => IInv'
<1>. SUFFICES ASSUME IInv, [Next]_vars PROVE IInv'
  OBVIOUS
<1>1. CASE \E k \in Jobs : CreateJob(k) \/ BrokerLose(k)
  BY <1>1, CreateJobPreserves, BrokerLosePreserves
<1>2. CASE \E r \in Relays : RelayNext(r)
  BY <1>2, RelayScanPreserves, RelayClaimPreserves, RelayPublishPreserves,
     RelayCommitPreserves, RelayPublishErrorPreserves, RelayCrashPreserves DEF RelayNext
<1>3. CASE \E w \in Workers : WorkerNext(w)
  BY <1>3, WorkerReceivePreserves, WorkerDeclinePreserves, WorkerBeginPreserves,
     WorkerCompletePreserves, WorkerInvalidPreserves, WorkerAckPreserves,
     WorkerRaisePreserves, WorkerLostPreserves DEF WorkerNext
<1>4. CASE SuspendOrg \/ ReactivateOrg
  BY <1>4, SuspendOrgPreserves, ReactivateOrgPreserves
<1>5. CASE UNCHANGED vars
  BY <1>5, StutterPreserves
<1>. QED
  BY <1>1, <1>2, <1>3, <1>4, <1>5 DEF Next

\* In every reachable state relays hold only pending events, workers analyse only
\* pending jobs and unsettled rows have attempts left.
THEOREM PipelineInvariant == Spec => []IInv
  BY InitEstablishes, NextPreserves, PTL DEF Spec

\* Type correctness, the attempt bounds of the rows' check constraints included.
THEOREM TypeCorrect == Spec => []TypeOK
<1>1. IInv => TypeOK
  BY DEF IInv
<1>. QED
  BY <1>1, PipelineInvariant, PTL

\* create_job_with_outbox: the job row and the event row exist together.
THEOREM OutboxIsTransactional == Spec => []TransactionalOutbox
<1>1. IInv => TransactionalOutbox
  BY DEF IInv
<1>. QED
  BY <1>1, PipelineInvariant, PTL

\* relay_outbox_for_organization: no event is published that was not sent.
THEOREM PublishedOnlyIfSent == Spec => []PublishedWasSent
<1>1. IInv => PublishedWasSent
  BY DEF IInv
<1>. QED
  BY <1>1, PipelineInvariant, PTL

\* The row locks of relay and worker exclude each other.
THEOREM RowLocksExclude == Spec => []JobRowExclusive
<1>1. IInv => JobRowExclusive
  BY DEF IInv
<1>. QED
  BY <1>1, PipelineInvariant, PTL

\* process_ingestion_job: evidence is visible exactly for completed jobs.
THEOREM EvidenceIsAtomic == Spec => []EvidenceIffCompleted
<1>1. IInv => EvidenceIffCompleted
  BY DEF IInv
<1>. QED
  BY <1>1, PipelineInvariant, PTL

--------------------------------------------------------------------------------
(* Every step is a step of DurableJobs or leaves its variables alone.        *)

\* What a step of the pipeline does to the authoritative rows: nothing, or the
\* request, the completion or the failure of one job that was waiting for it.
AuthoritativeStep ==
  \/ UNCHANGED <<jobState, jobAttempts, evidence>>
  \/ \E k \in Jobs :
       /\ jobState[k] = "absent"
       /\ jobState' = [jobState EXCEPT ![k] = "pending"]
       /\ UNCHANGED <<jobAttempts, evidence>>
  \/ \E k \in Jobs :
       /\ jobState[k] = "pending"
       /\ jobAttempts' = [jobAttempts EXCEPT ![k] = @ + 1]
       /\ \/ /\ jobState' = [jobState EXCEPT ![k] = "completed"]
             /\ evidence' = evidence \cup {k}
          \/ /\ jobState' = [jobState EXCEPT ![k] = "failed"]
             /\ UNCHANGED evidence

LEMMA StepIsAuthoritative == IInv /\ [Next]_vars => AuthoritativeStep
<1>. SUFFICES ASSUME IInv, [Next]_vars PROVE AuthoritativeStep
  OBVIOUS
<1>1. ASSUME NEW k \in Jobs, CreateJob(k) PROVE AuthoritativeStep
  BY <1>1 DEF CreateJob, AuthoritativeStep
<1>2. ASSUME NEW w \in Workers, WorkerComplete(w) \/ WorkerInvalid(w) PROVE AuthoritativeStep
  <2>1. workerJob[w] \in Jobs /\ jobState[workerJob[w]] = "pending"
    BY <1>2 DEF IInv, WorkersHoldRequested, WorkerComplete, WorkerInvalid
  <2>. QED
    BY <1>2, <2>1 DEF WorkerComplete, WorkerInvalid, PersistAnalysis, AuthoritativeStep
<1>3. ASSUME NEW w \in Workers, WorkerNext(w), ~WorkerComplete(w), ~WorkerInvalid(w)
      PROVE  UNCHANGED jobVars
  BY <1>3 DEF WorkerNext, WorkerReceive, WorkerDecline, WorkerBegin, WorkerAck, WorkerRaise,
    WorkerLost
<1>4. ASSUME NEW r \in Relays, RelayNext(r) PROVE UNCHANGED jobVars
  BY <1>4 DEF RelayNext, RelayScan, RelayClaim, RelayPublish, RelayCommit, RelayPublishError,
    RelayCrash
<1>5. ASSUME (\E k \in Jobs : BrokerLose(k)) \/ SuspendOrg \/ ReactivateOrg \/ UNCHANGED vars
      PROVE  UNCHANGED jobVars
  BY <1>5 DEF BrokerLose, SuspendOrg, ReactivateOrg, vars
<1>6. UNCHANGED jobVars => AuthoritativeStep
  BY DEF jobVars, AuthoritativeStep
<1>. QED
  BY <1>1, <1>2, <1>3, <1>4, <1>5, <1>6 DEF Next

LEMMA AuthoritativeImplements == IInv /\ AuthoritativeStep => [Durable!Next]_(Durable!vars)
  BY DEF AuthoritativeStep, Durable!Next, Durable!Request, Durable!Settle, Durable!Complete,
    Durable!Fail, Durable!vars

\* The relays, the broker and the workers together do to a job no more than the
\* abstract promise allows: settle it once, with its evidence.
THEOREM PipelineImplementsDurableJobs == Spec => ImplementsDurableJobs
<1>1. Init => Durable!Init
  BY DEF Init, Durable!Init
<1>2. IInv /\ [Next]_vars => [Durable!Next]_(Durable!vars)
  BY StepIsAuthoritative, AuthoritativeImplements
<1>. QED
  BY <1>1, <1>2, PipelineInvariant, PTL DEF Spec, Durable!Spec, ImplementsDurableJobs

\* A settled job keeps its outcome, its attempt count and its evidence.
THEOREM SettledJobsAreFinal == Spec => SettledIsFinal
<1>1. IInv /\ [Next]_vars => [SettledStays]_vars
  <2>1. IInv /\ AuthoritativeStep => SettledStays
    BY DEF AuthoritativeStep, SettledStays, IInv, TypeOK
  <2>. QED
    BY <2>1, StepIsAuthoritative
<1>. QED
  BY <1>1, PipelineInvariant, PTL DEF Spec, SettledIsFinal

--------------------------------------------------------------------------------
(* Nothing is forgotten, under the faults process death and broker outage.   *)

Lossless == Faults \cap {"lose", "raise", "suspend"} = {}

Accepted(k) == \E r \in Relays : relayPc[r] = "accepted" /\ relayJob[r] = k

\* Between the broker's acceptance and the relay's commit the message is already
\* as safe as after it, because the job row stays locked.
CarriedInv ==
  /\ orgActive = TRUE
  /\ \A k \in Jobs :
       jobState[k] = "pending" /\ (eventState[k] = "published" \/ Accepted(k)) => InFlight(k)

LEMMA InitCarried == Init => CarriedInv
  BY DEF Init, CarriedInv

LEMMA RelayCarries ==
  ASSUME IInv, CarriedInv, NEW r \in Relays, RelayNext(r)
  PROVE  CarriedInv'
<1>. USE DEF IInv, TypeOK, CarriedInv, Accepted, InFlight
<1>1. CASE RelayScan(r)
  BY <1>1 DEF RelayScan, orgVars, jobVars, eventVars, brokerVars, workerVars
<1>2. CASE \E k \in Jobs : RelayClaim(r, k)
  BY <1>2 DEF RelayClaim, orgVars, jobVars, eventVars, brokerVars, workerVars
<1>3. CASE RelayPublish(r)
  BY <1>3 DEF RelayPublish, RelaysHoldPending, orgVars, jobVars, eventVars, workerVars
<1>4. CASE RelayCommit(r)
  BY <1>4 DEF RelayCommit, MayCommit, RelayRelease, RelaysHoldPending, orgVars, jobVars,
    brokerVars, workerVars
<1>5. CASE RelayPublishError(r)
  BY <1>5 DEF RelayPublishError, RelayRelease, RelaysHoldPending, OutOfAttempts, orgVars,
    jobVars, brokerVars, workerVars
<1>6. CASE RelayCrash(r)
  BY <1>6 DEF RelayCrash, RelayRelease, orgVars, jobVars, eventVars, brokerVars, workerVars
<1>. QED  BY <1>1, <1>2, <1>3, <1>4, <1>5, <1>6 DEF RelayNext

LEMMA WorkerCarries ==
  ASSUME Lossless, IInv, CarriedInv, NEW w \in Workers, WorkerNext(w)
  PROVE  CarriedInv'
<1>. USE DEF IInv, TypeOK, CarriedInv, Accepted, InFlight, WorkerTo, WorkersHoldRequested
<1>1. CASE \E k \in Jobs : WorkerReceive(w, k)
  BY <1>1 DEF WorkerReceive, orgVars, jobVars, eventVars, relayVars
<1>2. CASE WorkerDecline(w)
  <2>1. jobState[workerJob[w]] # "pending"
    BY <1>2, PipelineAssumption DEF WorkerDecline, Terminal, AttemptsLeft
  <2>. QED
    BY <1>2, <2>1 DEF WorkerDecline, orgVars, jobVars, eventVars, brokerVars, relayVars
<1>3. CASE WorkerBegin(w)
  BY <1>3 DEF WorkerBegin, orgVars, jobVars, eventVars, brokerVars, relayVars
<1>4. CASE WorkerComplete(w)
  BY <1>4 DEF WorkerComplete, orgVars, eventVars, brokerVars, relayVars
<1>5. CASE WorkerInvalid(w)
  BY <1>5 DEF WorkerInvalid, orgVars, eventVars, brokerVars, relayVars
<1>6. CASE WorkerAck(w)
  BY <1>6 DEF WorkerAck, WorkerRelease, orgVars, jobVars, eventVars, brokerVars, relayVars
<1>7. CASE WorkerRaise(w)
  BY <1>7 DEF WorkerRaise, MayFault, Lossless
<1>8. CASE WorkerLost(w)
  BY <1>8 DEF WorkerLost, WorkerRelease, Redeliver, orgVars, jobVars, eventVars, relayVars
<1>. QED  BY <1>1, <1>2, <1>3, <1>4, <1>5, <1>6, <1>7, <1>8 DEF WorkerNext

LEMMA NextCarries == Lossless /\ IInv /\ CarriedInv /\ [Next]_vars => CarriedInv'
<1>. SUFFICES ASSUME Lossless, IInv, CarriedInv, [Next]_vars PROVE CarriedInv'
  OBVIOUS
<1>1. ASSUME NEW k \in Jobs, CreateJob(k) PROVE CarriedInv'
  <2>1. eventState[k] = "absent" /\ ~Accepted(k)
    BY <1>1 DEF CreateJob, IInv, TransactionalOutbox, RelaysHoldPending, Accepted
  <2>. QED
    BY <1>1, <2>1 DEF CreateJob, NewEvent, CarriedInv, Accepted, InFlight, IInv, TypeOK, orgVars,
      brokerVars, relayVars, workerVars
<1>2. ASSUME NEW k \in Jobs, BrokerLose(k) PROVE CarriedInv'
  BY <1>2 DEF BrokerLose, MayFault, Lossless
<1>3. CASE SuspendOrg
  BY <1>3 DEF SuspendOrg, MayFault, Lossless
<1>4. CASE ReactivateOrg
  BY <1>4 DEF ReactivateOrg, CarriedInv
<1>5. CASE UNCHANGED vars
  BY <1>5 DEF vars, CarriedInv, Accepted, InFlight, orgVars, jobVars, eventVars, brokerVars,
    relayVars, workerVars
<1>. QED  BY <1>1, <1>2, <1>3, <1>4, <1>5, RelayCarries, WorkerCarries DEF Next

\* While the broker keeps its messages, no task ends in an exception that Celery
\* acknowledges and the organization stays active, every pending job still has its
\* event to publish, has exhausted it, or has its message on the way.
THEOREM NothingIsForgotten ==
  ASSUME Lossless
  PROVE  Spec => []PendingIsCarried
<1>1. IInv /\ CarriedInv => PendingIsCarried
  BY DEF IInv, TypeOK, TransactionalOutbox, CarriedInv, PendingIsCarried, EventStates
<1>2. IInv /\ CarriedInv /\ [Next]_vars => CarriedInv'
  BY NextCarries
<1>. QED
  BY <1>1, <1>2, InitCarried, PipelineInvariant, PTL DEF Spec

================================================================================
