--------------------------- MODULE VerificationChain ---------------------------
(***************************************************************************)
(* The chain from a generated test to an advisory decision, for one pull   *)
(* request: proposals and their revisions, execution plans, approvals,     *)
(* execution results, differential plans and results, and the decision     *)
(* fused from them, while deliveries move the head of the pull request.    *)
(*                                                                         *)
(* Plan creation, approval and the recording of results lock every row     *)
(* their query joins, down to the proposal and the repository, check under *)
(* those locks and write at the end; `tx' is the one such transaction the  *)
(* repository row admits.  The services of a proposal lock the proposal    *)
(* only, a delivery that stores a snapshot refers to the repository, and a *)
(* decision locks from the differential run to the proposal.               *)
(***************************************************************************)
EXTENDS Naturals, FiniteSets

CONSTANTS
  Heads,      \* heads of the pull request; each has one snapshot
  Evidenced,  \* heads whose snapshot has LLM evidence tests can be generated from
  Contents,   \* contents of a generated test
  Valid,      \* the contents static validation finds valid
  Images,     \* runner images (and resources) a plan may ask for
  Keys,       \* idempotency keys of result deliveries
  Reports,    \* <<outcome, mutation score>> a differential run may report
  Citations,  \* sets of evidence components a caller may declare available
  Attempts,   \* attempts the runner may report, 1..20 in the contract
  Band,       \* risk band of each head's snapshot
  Retrieved,  \* heads with retrieval evidence
  MaxPlans, MaxResults,   \* bounds on plans, and on runs and differential runs together
  NoHead, NoContent, NoRun, NoTx

Proposals == Heads \X Contents
Plans     == Proposals \X Images
HeadOf(p)     == p[1][1]
ProposalOf(p) == p[1]

Lifecycles == {"none", "draft", "accepted_for_export", "rejected", "superseded"}
ExecutionOutcomes    == {"passed", "failed", "error"}   \* error: timeout, killed, isolation or runner
DifferentialOutcomes == {"no_difference", "difference", "inconclusive"}
MutationScores       == {"strong", "weak", "incomplete"}
Components == {"model_risk", "retrieval", "generated_tests", "execution", "differential", "mutation"}
Recommendations == {"SHIP", "REVIEW", "HOLD", "UNKNOWN"}

TxKinds == {"plan", "approve", "differential"}

Runs     == [plan : Plans, attempt : Attempts, outcome : ExecutionOutcomes, key : Keys,
             stale : BOOLEAN]
DiffRuns == [plan : Plans, attempt : Attempts, outcome : DifferentialOutcomes,
             mutation : MutationScores, key : Keys, stale : BOOLEAN]

ASSUME ChainAssumption ==
  /\ Evidenced \subseteq Heads
  /\ Valid \subseteq Contents
  /\ Attempts \subseteq Nat
  /\ Reports \subseteq DifferentialOutcomes \X MutationScores
  /\ Citations \subseteq SUBSET Components
  /\ Band \in [Heads -> {"high", "low", "unknown"}]
  /\ Retrieved \subseteq Heads
  /\ MaxPlans \in Nat /\ MaxResults \in Nat
  /\ NoHead \notin Heads /\ NoContent \notin Contents
  /\ NoRun \notin Runs
  /\ NoTx \notin [kind : TxKinds, plan : Plans]

VARIABLES
  stored,     \* heads whose snapshot is stored
  latest,     \* the head of the snapshot with the greatest created_at
  current,    \* history: the head the last delivery reported
  lifecycle,  \* the latest lifecycle event of each proposal
  parent,     \* parent_proposal of each proposal, as a content of the same head
  plans,      \* ExecutionPlan rows
  approvals,  \* plans with an ExecutionApproval
  runs,       \* ExecutionRun rows
  diffPlans,  \* execution plans with a DifferentialPlan
  diffRuns,   \* DifferentialRun rows
  decisions,  \* RecommendationDecision rows
  tx          \* the transaction that holds the repository row

headVars     == <<stored, latest, current>>
proposalVars == <<lifecycle, parent>>
planVars     == <<plans, approvals, diffPlans>>
resultVars   == <<runs, diffRuns, decisions>>
vars == <<headVars, proposalVars, planVars, resultVars, tx>>

Init ==
  /\ stored = {} /\ latest = NoHead /\ current = NoHead
  /\ lifecycle = [q \in Proposals |-> "none"]
  /\ parent = [q \in Proposals |-> NoContent]
  /\ plans = {} /\ approvals = {} /\ diffPlans = {}
  /\ runs = {} /\ diffRuns = {} /\ decisions = {}
  /\ tx = NoTx

\* What a transaction in flight leaves free: another proposal, another head's
\* evidence.  A delivery refers to the repository row it holds.
MayStoreUnlocked == TRUE   \* mutated form: the repository row is not locked
MayStore         == tx = NoTx
ProposalFree(q)  == tx # NoTx => ProposalOf(tx.plan) # q
EvidenceFree(h)  == tx # NoTx => HeadOf(tx.plan) # h

Accepted(q) == lifecycle[q] = "accepted_for_export"
Active(p)   == latest = HeadOf(p) /\ Accepted(ProposalOf(p))

--------------------------------------------------------------------------------
(* A delivery: a head seen before keeps its snapshot, and its place.        *)
LatestTouched(h) == h   \* mutated form: a head seen again becomes the latest
LatestAfter(h) == IF h \in stored THEN latest ELSE h

Deliver(h) ==
  /\ h \in stored \/ MayStore
  /\ stored' = stored \cup {h}
  /\ latest' = LatestAfter(h)
  /\ current' = h
  /\ UNCHANGED <<proposalVars, planVars, resultVars, tx>>

--------------------------------------------------------------------------------
(* Proposals.                                                               *)

CreateProposal(q) ==
  /\ q[1] \in stored \cap Evidenced /\ EvidenceFree(q[1])
  /\ lifecycle[q] = "none"
  /\ lifecycle' = [lifecycle EXCEPT ![q] = "draft"]
  /\ UNCHANGED <<headVars, parent, planVars, resultVars, tx>>

DecidableAgain(q) == lifecycle[q] \notin {"none", "rejected"}   \* mutated form
Decidable(q) == lifecycle[q] = "draft"

Transition(q, target) ==
  /\ ProposalFree(q)
  /\ Decidable(q)
  /\ target = "accepted_for_export" => q[2] \in Valid
  /\ lifecycle' = [lifecycle EXCEPT ![q] = target]
  /\ UNCHANGED <<headVars, parent, planVars, resultVars, tx>>

\* A content the evidence already has a proposal of fails its validation.
Editable(q) == lifecycle[q] \notin {"none", "superseded"}

Edit(q, c) ==
  LET revised == <<q[1], c>> IN
  /\ ProposalFree(q) /\ EvidenceFree(q[1])
  /\ Editable(q)
  /\ lifecycle[revised] = "none"
  /\ lifecycle' = [lifecycle EXCEPT ![revised] = "draft", ![q] = "superseded"]
  /\ parent' = [parent EXCEPT ![revised] = q[2]]
  /\ UNCHANGED <<headVars, planVars, resultVars, tx>>

--------------------------------------------------------------------------------
(* Plans, approvals and results: checks under the locks, then the write.    *)

Start(kind, p) ==
  /\ tx = NoTx
  /\ tx' = [kind |-> kind, plan |-> p]
  /\ UNCHANGED <<headVars, proposalVars, planVars, resultVars>>

Holding(kind, p) == tx = [kind |-> kind, plan |-> p]

StartPlan(p) ==
  /\ Accepted(ProposalOf(p)) /\ p[1][2] \in Valid
  /\ latest = HeadOf(p)
  /\ p \notin plans /\ Cardinality(plans) < MaxPlans
  /\ Start("plan", p)

CreatePlan(p) ==
  /\ Holding("plan", p)
  /\ plans' = plans \cup {p}
  /\ tx' = NoTx
  /\ UNCHANGED <<headVars, proposalVars, approvals, diffPlans, resultVars>>

MayApprove(p) == Active(p)

StartApproval(p) ==
  /\ p \in plans \ approvals
  /\ MayApprove(p)
  /\ Start("approve", p)

Approve(p) ==
  /\ Holding("approve", p)
  /\ approvals' = approvals \cup {p}
  /\ tx' = NoTx
  /\ UNCHANGED <<headVars, proposalVars, plans, diffPlans, resultVars>>

Approved(p) == p \in approvals

StartDiffPlan(p) ==
  /\ Approved(p) /\ p \notin diffPlans
  /\ Active(p)
  /\ Start("differential", p)

CreateDiffPlan(p) ==
  /\ Holding("differential", p)
  /\ diffPlans' = diffPlans \cup {p}
  /\ tx' = NoTx
  /\ UNCHANGED <<headVars, proposalVars, plans, approvals, resultVars>>

\* A row that answers a delivery instead of a new one: same key, or same attempt.
AnswersKey(r, p, a, k) == r.key = k   \* mutated form: attempts are not looked at
Answers(r, p, a, k) == r.key = k \/ (r.plan = p /\ r.attempt = a)

Room == Cardinality(runs) + Cardinality(diffRuns) < MaxResults

\* A result's check and write are one step: its transaction holds the same rows.
RecordResult(p, a, o, k) ==
  /\ tx = NoTx
  /\ Approved(p)
  /\ Room
  /\ \A r \in runs : ~Answers(r, p, a, k)
  /\ runs' = runs \cup
       {[plan |-> p, attempt |-> a, outcome |-> o, key |-> k, stale |-> ~Active(p)]}
  /\ UNCHANGED <<headVars, proposalVars, planVars, diffRuns, decisions, tx>>

RecordDiffResult(p, a, report, k) ==
  /\ tx = NoTx
  /\ p \in diffPlans
  /\ Room
  /\ \A r \in diffRuns : ~Answers(r, p, a, k)
  /\ diffRuns' = diffRuns \cup
       {[plan |-> p, attempt |-> a, outcome |-> report[1], mutation |-> report[2], key |-> k,
         stale |-> ~Active(p)]}
  /\ UNCHANGED <<headVars, proposalVars, planVars, runs, decisions, tx>>

\* An existing answer, a refusal (no quota, a conflicting duplicate), or a crash.
Abandon ==
  /\ tx # NoTx
  /\ tx' = NoTx
  /\ UNCHANGED <<headVars, proposalVars, planVars, resultVars>>

--------------------------------------------------------------------------------
(* The decision.  A caller claims which components are available, cites an  *)
(* execution, and may claim a reason to hold or to review of its own.       *)

Claims == {"clear", "review", "hold"}

CitableAnyPlan(e, d) == ~e.stale /\ e.outcome \in {"passed", "failed"}   \* mutated form
CitableRun(e, d) == e.plan = d.plan /\ ~e.stale /\ e.outcome \in {"passed", "failed"}

LineageHolds(d, e, cited) ==
  /\ "model_risk" \in cited => Band[HeadOf(d.plan)] # "unknown"
  /\ "retrieval" \in cited => HeadOf(d.plan) \in Retrieved
  /\ "generated_tests" \in cited => Accepted(ProposalOf(d.plan))
  /\ "execution" \in cited => e \in runs /\ CitableRun(e, d)
  /\ "differential" \in cited => ~d.stale /\ d.outcome # "inconclusive"
  /\ "mutation" \in cited => ~d.stale /\ d.mutation # "incomplete"

Holds(d, e, cited) ==
  \/ "model_risk" \in cited /\ Band[HeadOf(d.plan)] = "high"
  \/ "execution" \in cited /\ e.outcome = "failed"
  \/ "differential" \in cited /\ d.outcome = "difference"

Fuse(hold, complete, review) ==
  CASE hold -> "HOLD"
    [] ~hold /\ ~complete -> "UNKNOWN"
    [] ~hold /\ complete /\ review -> "REVIEW"
    [] OTHER -> "SHIP"

Undecided == {d \in diffRuns : \A x \in decisions : x.run # d}

Decide(d, e, cited, claim) ==
  /\ ProposalFree(ProposalOf(d.plan))
  /\ LineageHolds(d, e, cited)
  /\ decisions' = decisions \cup
       {[run |-> d, execution |-> e,
         value |-> Fuse(claim = "hold" \/ Holds(d, e, cited), cited = Components,
                        claim = "review" \/ d.mutation = "weak")]}
  /\ UNCHANGED <<headVars, proposalVars, planVars, runs, diffRuns, tx>>

--------------------------------------------------------------------------------
PlanStep(p) ==
  \/ StartPlan(p) \/ CreatePlan(p)
  \/ StartApproval(p) \/ Approve(p)
  \/ StartDiffPlan(p) \/ CreateDiffPlan(p)
  \/ \E a \in Attempts, k \in Keys, o \in ExecutionOutcomes : RecordResult(p, a, o, k)
  \/ \E a \in Attempts, k \in Keys, report \in Reports : RecordDiffResult(p, a, report, k)

Next ==
  \/ \E h \in Heads : Deliver(h)
  \/ \E q \in Proposals : CreateProposal(q)
  \/ \E q \in Proposals, t \in {"accepted_for_export", "rejected"} : Transition(q, t)
  \/ \E q \in Proposals, c \in Contents : Edit(q, c)
  \/ \E p \in Plans : PlanStep(p)
  \/ Abandon
  \/ \E d \in Undecided, e \in runs \cup {NoRun}, cited \in Citations, claim \in Claims :
       Decide(d, e, cited, claim)

Spec == Init /\ [][Next]_vars

--------------------------------------------------------------------------------
(* Properties.                                                              *)

\* Every variable keeps its type; decisions cite rows that exist.
TypeOK ==
  /\ stored \subseteq Heads
  /\ latest \in stored \cup {NoHead} /\ current \in Heads \cup {NoHead}
  /\ lifecycle \in [Proposals -> Lifecycles]
  /\ parent \in [Proposals -> Contents \cup {NoContent}]
  /\ plans \subseteq Plans /\ approvals \subseteq plans /\ diffPlans \subseteq approvals
  /\ runs \subseteq Runs /\ diffRuns \subseteq DiffRuns
  /\ decisions \subseteq [run : diffRuns, execution : runs \cup {NoRun}, value : Recommendations]
  /\ tx \in [kind : TxKinds, plan : Plans] \cup {NoTx}

\* Whatever editors do at once and however often, revisions form chains: a proposal
\* is superseded exactly when it has a revision, and it never has two.
Revisions(q) == {c \in Contents : parent[<<q[1], c>>] = q[2]}
RevisionsFormChains ==
  \A q \in Proposals :
    /\ Cardinality(Revisions(q)) <= 1
    /\ lifecycle[q] = "superseded" <=> Revisions(q) # {}

\* A test that has a plan was once accepted and can since only have been superseded:
\* no order of reviews, edits and transactions in flight leaves a plan with a
\* rejected or an undecided test.
PlannedWasAccepted ==
  \A p \in plans :
    /\ lifecycle[ProposalOf(p)] \in {"accepted_for_export", "superseded"}
    /\ ProposalOf(p)[2] \in Valid

SameAttempt(r, s) == r.plan = s.plan /\ r.attempt = s.attempt

\* Results may be delivered twice, late and under reused keys: a plan has one result
\* per attempt, a key names one result, and every result is of an approved plan.
OneResultPerAttempt ==
  /\ \A r, s \in runs : r.key = s.key \/ SameAttempt(r, s) => r = s
  /\ \A r, s \in diffRuns : r.key = s.key \/ SameAttempt(r, s) => r = s
  /\ \A r \in runs : r.plan \in approvals
  /\ \A r \in diffRuns : r.plan \in diffPlans

\* A favourable decision rests on the whole chain of its own plan: an approved plan,
\* an execution that passed and a comparison without difference, both recorded while
\* the plan was current, complete mutation evidence, no high risk.
DecisionIsEarned ==
  \A x \in decisions : x.value \in {"SHIP", "REVIEW"} =>
    /\ x.execution \in runs /\ x.execution.plan = x.run.plan
    /\ x.execution.outcome = "passed" /\ ~x.execution.stale
    /\ x.run.outcome = "no_difference" /\ ~x.run.stale
    /\ x.run.mutation = "strong" \/ (x.run.mutation = "weak" /\ x.value = "REVIEW")
    /\ x.run.plan \in approvals
    /\ Band[HeadOf(x.run.plan)] = "low"

\* What the chain promises of each plan: ExecutionAuthority.
Status(p) ==
  CASE p \notin plans -> "absent"
    [] p \in plans /\ ~Active(p) -> "void"
    [] p \in approvals /\ Active(p) -> "approved"
    [] OTHER -> "planned"
Authority == INSTANCE ExecutionAuthority
  WITH status <- [p \in Plans |-> Status(p)],
       trusted <- {r.plan : r \in {s \in runs \cup diffRuns : ~s.stale}}
ImplementsExecutionAuthority == Authority!Spec

\* "Editing or head movement invalidates prior execution approval"
\* (docs/04_API_AND_CONTRACTS.md): an approved plan stays executable only while the
\* pull request is at its head.
ApprovalFollowsHead == \A p \in approvals : Active(p) => current = HeadOf(p)
================================================================================
