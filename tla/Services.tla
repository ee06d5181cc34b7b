-------------------------------- MODULE Services --------------------------------
(***************************************************************************)
(* The services that share no state with one another, side by side: the    *)
(* quota ledger, which this module extends, and an instance of each of the *)
(* other eight, with the properties they promise.                          *)
(***************************************************************************)
EXTENDS Quota

CONSTANTS
  None,              \* nothing, where a value may be missing
  Callers,           \* concurrent requests, workers and connections
  MaxTime,           \* bound on the passing of time
  \* retention
  KeptRows, ClassOf, RetentionDays, Plans, Executors, MaxCandidates, MaxAge, NoPlan, NoResult,
  \* model analyses
  Selections, EvidenceOf, PrivacyPolicies, Provider, LlmAnswers, Budget,
  \* investigations
  EvidenceItems, CategoryOf, FactsOf, AgentAnswers, Investigations,
  \* the fixture runner
  RunRequests, ProbeFacts,
  \* offline evaluation
  Sources, Skeleton, AsOf, OutcomeWindow, TrainBefore, ValidationBefore, TestBefore, Configs,
  ModelScore(_, _, _), ConfigDigest(_, _), Thresholds, BaselineThreshold, MaxEpochs, Patience,
  MinDelta, Losses, MaxRevisions,
  \* change intelligence
  Changes, MaxDepth, MaxNodes, MaxHistory, HistoryDays,
  \* outcomes and drift
  ReportedEvents, Signals, Comparisons, Artifacts, Stability, DriftPolicy, MinimumWindow,
  MaximumWindow, MaxCalls,
  \* the schema
  Databases, CandidateRows, MaxWrites

--------------------------------------------------------------------------------
VARIABLES stored, age, pinned, retentionPolicy, plan, lapsed, execution, running
retentionVars == <<stored, age, pinned, retentionPolicy, plan, lapsed, execution, running>>

Retention == INSTANCE Retention WITH
  Rows <- KeptRows, Days <- RetentionDays, rows <- stored, policy <- retentionPolicy

ASSUME RetentionAssumed == Retention!RetentionAssumption

\* Rows are deleted under an executed plan and past their retention, and the stored results
\* say what was deleted (organizations/operational_services.py).
DeletionIsGoverned == Retention!DeletionIsGoverned

--------------------------------------------------------------------------------
VARIABLES privacyPolicy, hostedEnabled, reserved, bundles, items, calling, sent
llmVars == <<privacyPolicy, hostedEnabled, reserved, bundles, items, calling, sent>>

Llm == INSTANCE LlmEvidence WITH
  Requests <- Selections, Policies <- PrivacyPolicies, Answers <- LlmAnswers,
  policy <- privacyPolicy, left <- bundles, rows <- items, call <- calling

ASSUME LlmAssumed == Llm!LlmAssumption

\* Evidence reaches a provider only as the policy it was sent under permits, and after it
\* was paid for (ai_core/policy.py, analysis/llm_evidence.py).
SentWasPermitted == Llm!SentWasPermitted

\* One grounded answer is kept per request, and every caller hears it
\* (analysis/llm_evidence.py).
RowsAreGrounded == Llm!RowsAreGrounded

--------------------------------------------------------------------------------
VARIABLES investigation, node, phase, todo, work, state, usage, trace, verdict, termination,
          cancelled, late, row
agentVars == <<investigation, node, phase, todo, work, state, usage, trace, verdict, termination,
               cancelled, late, row>>

Agent == INSTANCE AgentGraph WITH
  Evidence <- EvidenceItems, Answers <- AgentAnswers, Requests <- Investigations,
  request <- investigation

ASSUME AgentAssumed == Agent!AgentAssumption

\* A completed investigation earned its recommendation, a partial one stays cautious
\* (agent_core/graph.py).
ResultsAreEarned == Agent!ResultsAreEarned

--------------------------------------------------------------------------------
VARIABLES job, step, known, container, hardened, isolated, workload, output, removal, result,
          error
runnerVars == <<job, step, known, container, hardened, isolated, workload, output, removal, result,
                error>>

Runner == INSTANCE FixtureRunner WITH
  Requests <- RunRequests, Facts <- ProbeFacts, request <- job, created <- known

ASSUME RunnerAssumed == Runner!RunnerAssumption

\* A result that claims a clean host comes from a run that left no container, and one is left
\* only when docker refuses its removal, which a result says, or does not answer
\* (runner/docker_cli.py).
CleanupIsTruthful == Runner!CleanupIsTruthful

\* Verdicts say what happened inside the container (execution_contracts/differential.py).
VerdictsAreFair == Runner!VerdictsAreFair

--------------------------------------------------------------------------------
VARIABLES source, revisions, dataset, annotation, semantic, embeddings, baseline, classical,
          training, head
offlineVars == <<source, revisions, dataset, annotation, semantic, embeddings, baseline, classical,
                 training, head>>

Offline == INSTANCE OfflineEvaluation WITH
  Score <- ModelScore, Digest <- ConfigDigest, Window <- OutcomeWindow

ASSUME OfflineAssumed == Offline!OfflineAssumption

\* No change reaches two splits of a dataset, and splits follow one another in time
\* (dataset_core/splits.py).
SplitsAreSeparated == Offline!SplitsAreSeparated

\* The test rows do not influence what is selected (ml_core/classical.py).
SelectionIgnoresTest == Offline!SelectionIgnoresTest

\* A semantic head is of its own dataset and the best of its epochs (ml_core/semantic.py).
HeadIsTheBestOfItsData == Offline!HeadIsTheBestOfItsData

--------------------------------------------------------------------------------
VARIABLES now, created, visible, analysis, features, score
changeVars == <<now, created, visible, analysis, features, score>>

Change == INSTANCE ChangeIntelligence WITH Workers <- Callers, Days <- HistoryDays

ASSUME ChangeAssumed == Change!ChangeAssumption

\* A blast radius that is stored is the one of the whole import graph (change_intel/graph.py).
BlastIsExact == Change!BlastIsExact

\* A score is the score of the stored features, whoever stored them (risk/services.py).
ScoreIsOfStoredFeatures == Change!ScoreIsOfStoredFeatures

--------------------------------------------------------------------------------
VARIABLES clock, learning, outcomes, assessments, reviews, asking, asked
feedbackVars == <<clock, learning, outcomes, assessments, reviews, asking, asked>>

Feedback == INSTANCE Feedback WITH
  Events <- ReportedEvents, Policy <- DriftPolicy, now <- clock, request <- asking

ASSUME FeedbackAssumed == Feedback!FeedbackAssumption

\* Outcomes and drift assessments are what their callers reported, once, and judged by the
\* policy whatever is missing (risk/governance_services.py, ml_core/governance.py).
FeedbackIsGoverned == Feedback!OutcomesAreFaithful /\ Feedback!DriftIsJudged

--------------------------------------------------------------------------------
VARIABLES tables, statement, statements
schemaVars == <<tables, statement, statements>>

Schema == INSTANCE TenantSchema WITH
  Candidates <- CandidateRows, Writers <- Callers, Null <- None,
  rows <- tables, pending <- statement, written <- statements

\* References stay inside their tenant, and what rows were bound by when they were stored
\* stays true, against any writer (the integrity migrations).
LineageHolds == Schema!LineageHolds

--------------------------------------------------------------------------------
\* Types of every service, the locks of the ledger, the budgets of an investigation, and
\* containers started only when verified and hardened.
ServicesTypeOK ==
  TypeOK /\ Retention!TypeOK /\ Llm!TypeOK /\ Agent!TypeOK /\ Runner!TypeOK
================================================================================
