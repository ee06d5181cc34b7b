------------------------ MODULE VerificationChainProofs ------------------------
(***************************************************************************)
(* Proofs about VerificationChain for any heads, contents, images, keys    *)
(* and bounds.  The one fact everything rests on is that a transaction in  *)
(* flight still sees what it checked: its plan is active until it commits. *)
(***************************************************************************)
EXTENDS VerificationChain, FiniteSetTheorems, TLAPS

\* Proposals and plans are of heads that are stored.
HeadInv ==
  /\ \A q \in Proposals : lifecycle[q] # "none" => q[1] \in stored
  /\ \A p \in plans : HeadOf(p) \in stored

\* What a transaction in flight has checked still holds.
TxInv ==
  tx # NoTx =>
    /\ Active(tx.plan)
    /\ tx.kind = "plan" => tx.plan \notin plans /\ ProposalOf(tx.plan)[2] \in Valid
    /\ tx.kind = "approve" => tx.plan \in plans \ approvals
    /\ tx.kind = "differential" => tx.plan \in approvals

\* A revision is a proposal, no proposal has two, and those that have one are superseded.
RevisionInv ==
  /\ \A q \in Proposals : parent[q] # NoContent => lifecycle[q] # "none"
  /\ \A q \in Proposals : \A c, d \in Revisions(q) : c = d
  /\ \A q \in Proposals : lifecycle[q] = "superseded" <=> Revisions(q) # {}

IInv ==
  /\ TypeOK
  /\ HeadInv
  /\ TxInv
  /\ RevisionInv
  /\ PlannedWasAccepted
  /\ OneResultPerAttempt
  /\ DecisionIsEarned

LEMMA InitInv == Init => IInv
<1> SUFFICES ASSUME Init PROVE IInv
  OBVIOUS
<1>1. TypeOK
  BY DEF Init, TypeOK, Lifecycles
<1>2. HeadInv /\ PlannedWasAccepted
  BY DEF Init, HeadInv, PlannedWasAccepted
<1>3. TxInv /\ OneResultPerAttempt /\ DecisionIsEarned
  BY DEF Init, TxInv, OneResultPerAttempt, DecisionIsEarned
<1>4. RevisionInv
  <2>1. ASSUME NEW q \in Proposals PROVE Revisions(q) = {}
    BY ChainAssumption DEF Init, Revisions, Proposals
  <2>2. QED
    BY <2>1 DEF Init, RevisionInv
<1>5. QED
  BY <1>1, <1>2, <1>3, <1>4 DEF IInv

\* A fused value is a recommendation, and favours only what is complete.
LEMMA FuseFavours ==
  ASSUME NEW hold \in BOOLEAN, NEW complete \in BOOLEAN, NEW review \in BOOLEAN
  PROVE  /\ Fuse(hold, complete, review) \in Recommendations
         /\ Fuse(hold, complete, review) \in {"SHIP", "REVIEW"} => ~hold /\ complete
         /\ Fuse(hold, complete, review) = "SHIP" => ~review
  BY DEF Fuse, Recommendations

\* Every step keeps the types.
LEMMA TypeStep == TypeOK /\ TxInv /\ [Next]_vars => TypeOK'
<1> SUFFICES ASSUME TypeOK, TxInv, [Next]_vars PROVE TypeOK'
  OBVIOUS
<1> USE DEF headVars, proposalVars, planVars, resultVars
<1>1. CASE \E h \in Heads : Deliver(h)
  BY <1>1 DEF TypeOK, Deliver, LatestAfter
<1>2. ASSUME NEW q \in Proposals, CreateProposal(q) PROVE TypeOK'
  BY <1>2 DEF TypeOK, CreateProposal, Lifecycles
<1>3. ASSUME NEW q \in Proposals, NEW t \in {"accepted_for_export", "rejected"}, Transition(q, t)
      PROVE  TypeOK'
  BY <1>3 DEF TypeOK, Transition, Lifecycles
<1>4. ASSUME NEW q \in Proposals, NEW c \in Contents, Edit(q, c) PROVE TypeOK'
  <2>1. <<q[1], c>> \in Proposals /\ q[2] \in Contents
    BY DEF Proposals
  <2>2. QED
    BY <1>4, <2>1 DEF TypeOK, Edit, Lifecycles
<1>5. ASSUME NEW p \in Plans, PlanStep(p) PROVE TypeOK'
  <2>1. CASE StartPlan(p) \/ StartApproval(p) \/ StartDiffPlan(p)
    BY <2>1 DEF TypeOK, StartPlan, StartApproval, StartDiffPlan, Start, TxKinds
  <2>2. CASE CreatePlan(p)
    BY <2>2 DEF TypeOK, CreatePlan
  <2>3. CASE Approve(p)
    BY <2>3, ChainAssumption DEF TypeOK, TxInv, Approve, Holding, TxKinds
  <2>4. CASE CreateDiffPlan(p)
    BY <2>4, ChainAssumption DEF TypeOK, TxInv, CreateDiffPlan, Holding, TxKinds
  <2>5. ASSUME NEW a \in Attempts, NEW k \in Keys, NEW o \in ExecutionOutcomes,
               RecordResult(p, a, o, k)
        PROVE  TypeOK'
    <3>1. (~Active(p)) \in BOOLEAN
      OBVIOUS
    <3>2. [plan |-> p, attempt |-> a, outcome |-> o, key |-> k, stale |-> ~Active(p)] \in Runs
      BY <3>1 DEF Runs
    <3>3. runs' \subseteq Runs /\ runs \subseteq runs'
      BY <2>5, <3>2 DEF TypeOK, RecordResult
    <3>4. QED
      BY <2>5, <3>3 DEF TypeOK, RecordResult
  <2>6. ASSUME NEW a \in Attempts, NEW k \in Keys, NEW report \in Reports,
               RecordDiffResult(p, a, report, k)
        PROVE  TypeOK'
    <3>1. report[1] \in DifferentialOutcomes /\ report[2] \in MutationScores
      BY ChainAssumption
    <3>2. (~Active(p)) \in BOOLEAN
      OBVIOUS
    <3>3. [plan |-> p, attempt |-> a, outcome |-> report[1], mutation |-> report[2], key |-> k,
           stale |-> ~Active(p)] \in DiffRuns
      BY <3>1, <3>2 DEF DiffRuns
    <3>4. diffRuns' \subseteq DiffRuns /\ diffRuns \subseteq diffRuns'
      BY <2>6, <3>3 DEF TypeOK, RecordDiffResult
    <3>5. QED
      BY <2>6, <3>4 DEF TypeOK, RecordDiffResult
  <2>7. QED
    BY <1>5, <2>1, <2>2, <2>3, <2>4, <2>5, <2>6 DEF PlanStep
<1>6. CASE Abandon
  BY <1>6 DEF TypeOK, Abandon
<1>7. ASSUME NEW d \in Undecided, NEW e \in runs \cup {NoRun}, NEW cited \in Citations,
             NEW claim \in Claims, Decide(d, e, cited, claim)
      PROVE  TypeOK'
  <2> DEFINE hold == claim = "hold" \/ Holds(d, e, cited)
             review == claim = "review" \/ d.mutation = "weak"
  <2>1. Fuse(hold, cited = Components, review) \in Recommendations
    BY FuseFavours DEF Holds
  <2>2. d \in diffRuns
    BY DEF Undecided
  <2>3. QED
    BY <1>7, <2>1, <2>2 DEF TypeOK, Decide
<1>8. CASE UNCHANGED vars
  BY <1>8 DEF TypeOK, vars
<1>9. QED
  BY <1>1, <1>2, <1>3, <1>4, <1>5, <1>6, <1>7, <1>8 DEF Next

\* Proposals and plans stay within the stored heads.
LEMMA HeadStep == TypeOK /\ TxInv /\ HeadInv /\ [Next]_vars => HeadInv'
<1> SUFFICES ASSUME TypeOK, TxInv, HeadInv, [Next]_vars PROVE HeadInv'
  OBVIOUS
<1> USE DEF headVars, proposalVars, planVars, resultVars
<1>1. stored \subseteq stored'
  BY DEF Next, Deliver, CreateProposal, Transition, Edit, PlanStep, StartPlan, CreatePlan,
         StartApproval, Approve, StartDiffPlan, CreateDiffPlan, Start, RecordResult,
         RecordDiffResult, Abandon, Decide, vars
<1>2. ASSUME NEW q \in Proposals, CreateProposal(q) PROVE HeadInv'
  BY <1>2 DEF TypeOK, HeadInv, CreateProposal
<1>3. ASSUME NEW q \in Proposals, NEW t \in {"accepted_for_export", "rejected"}, Transition(q, t)
      PROVE  HeadInv'
  BY <1>3 DEF TypeOK, HeadInv, Transition, Decidable
<1>4. ASSUME NEW q \in Proposals, NEW c \in Contents, Edit(q, c) PROVE HeadInv'
  <2>1. <<q[1], c>> \in Proposals /\ <<q[1], c>>[1] = q[1] /\ q[1] \in stored
    BY <1>4 DEF Proposals, HeadInv, Edit, Editable
  <2>2. QED
    BY <1>4, <2>1 DEF TypeOK, HeadInv, Edit
<1>5. ASSUME NEW p \in Plans, CreatePlan(p) PROVE HeadInv'
  <2>1. latest = HeadOf(p) /\ HeadOf(p) \in Heads
    BY <1>5, ChainAssumption
       DEF TypeOK, TxInv, CreatePlan, Holding, Active, TxKinds, Plans, Proposals, HeadOf
  <2>2. HeadOf(p) \in stored
    BY <2>1, ChainAssumption DEF TypeOK
  <2>3. QED
    BY <1>5, <2>2 DEF HeadInv, CreatePlan
<1>6. CASE UNCHANGED <<lifecycle, plans>>
  BY <1>1, <1>6 DEF HeadInv
<1>7. QED
  BY <1>2, <1>3, <1>4, <1>5, <1>6
     DEF Next, Deliver, PlanStep, StartPlan, StartApproval, Approve, StartDiffPlan, CreateDiffPlan,
         Start, RecordResult, RecordDiffResult, Abandon, Decide, vars

\* While a transaction is in flight its plan stays active: a new head waits for the
\* repository row, a review and an edit for the proposal row.
LEMMA ActiveStep ==
  ASSUME TypeOK, TxInv, [Next]_vars, tx # NoTx, NEW p \in Plans, p = tx.plan
  PROVE  Active(p)'
<1> USE DEF headVars, proposalVars, planVars, resultVars
<1>0. Active(p) /\ ProposalOf(p) \in Proposals
  BY DEF TypeOK, TxInv, Plans, ProposalOf
<1>1. CASE \E h \in Heads : Deliver(h)
  BY <1>0, <1>1 DEF Deliver, MayStore, LatestAfter, Active, Accepted
<1>2. ASSUME NEW q \in Proposals, CreateProposal(q) PROVE Active(p)'
  BY <1>0, <1>2 DEF TypeOK, CreateProposal, Active, Accepted
<1>3. ASSUME NEW q \in Proposals, NEW t \in {"accepted_for_export", "rejected"}, Transition(q, t)
      PROVE  Active(p)'
  BY <1>0, <1>3 DEF TypeOK, Transition, ProposalFree, Active, Accepted
<1>4. ASSUME NEW q \in Proposals, NEW c \in Contents, Edit(q, c) PROVE Active(p)'
  <2>1. ProposalOf(p) # q /\ ProposalOf(p) # <<q[1], c>>
    BY <1>0, <1>4 DEF Edit, ProposalFree, Active, Accepted
  <2>2. \A r \in Proposals \ {q, <<q[1], c>>} : lifecycle'[r] = lifecycle[r]
    BY <1>4 DEF TypeOK, Edit
  <2>3. lifecycle'[ProposalOf(p)] = "accepted_for_export"
    BY <1>0, <2>1, <2>2 DEF Active, Accepted
  <2>4. latest' = latest
    BY <1>4 DEF Edit
  <2>5. QED
    BY <1>0, <2>3, <2>4 DEF Active, Accepted
<1>5. CASE UNCHANGED <<latest, lifecycle>>
  BY <1>0, <1>5 DEF Active, Accepted
<1>6. QED
  BY <1>1, <1>2, <1>3, <1>4, <1>5
     DEF Next, PlanStep, StartPlan, CreatePlan, StartApproval, Approve, StartDiffPlan,
         CreateDiffPlan, Start, RecordResult, RecordDiffResult, Abandon, Decide, vars

LEMMA TxStep == TypeOK /\ TxInv /\ [Next]_vars => TxInv'
<1> SUFFICES ASSUME TypeOK, TxInv, [Next]_vars PROVE TxInv'
  OBVIOUS
<1> USE DEF headVars, proposalVars, planVars, resultVars
<1>1. ASSUME NEW p \in Plans, StartPlan(p) \/ StartApproval(p) \/ StartDiffPlan(p) PROVE TxInv'
  <2>1. Active(p)
    BY <1>1 DEF StartPlan, StartApproval, StartDiffPlan, Active, MayApprove
  <2>2. Active(p)'
    BY <1>1, <2>1 DEF StartPlan, StartApproval, StartDiffPlan, Start, Active, Accepted
  <2>3. CASE StartPlan(p)
    BY <2>2, <2>3 DEF TxInv, StartPlan, Start, ProposalOf
  <2>4. CASE StartApproval(p)
    BY <2>2, <2>4 DEF TxInv, StartApproval, Start
  <2>5. CASE StartDiffPlan(p)
    BY <2>2, <2>5 DEF TxInv, StartDiffPlan, Start, Approved
  <2>6. QED
    BY <1>1, <2>3, <2>4, <2>5
<1>2. CASE tx' = NoTx
  BY <1>2 DEF TxInv
<1>3. CASE tx' = tx /\ tx # NoTx /\ UNCHANGED <<plans, approvals>>
  <2>1. tx.plan \in Plans
    BY <1>3 DEF TypeOK
  <2>2. Active(tx.plan)'
    BY <1>3, <2>1, ActiveStep
  <2>3. QED
    BY <1>3, <2>2 DEF TxInv
<1>4. QED
  BY <1>1, <1>2, <1>3
     DEF Next, Deliver, CreateProposal, Transition, Edit, PlanStep, CreatePlan, Approve,
         CreateDiffPlan, RecordResult, RecordDiffResult, Abandon, Decide, vars

\* Only an edit makes a revision, of a proposal that had none.
LEMMA RevisionStep == TypeOK /\ RevisionInv /\ [Next]_vars => RevisionInv'
<1> SUFFICES ASSUME TypeOK, RevisionInv, [Next]_vars PROVE RevisionInv'
  OBVIOUS
<1> USE DEF headVars, proposalVars, planVars, resultVars
<1>1. ASSUME NEW q \in Proposals, CreateProposal(q) PROVE RevisionInv'
  <2>1. \A r \in Proposals : Revisions(r)' = Revisions(r)
    BY <1>1 DEF CreateProposal, Revisions
  <2>2. QED
    BY <1>1, <2>1 DEF TypeOK, RevisionInv, CreateProposal
<1>2. ASSUME NEW q \in Proposals, NEW t \in {"accepted_for_export", "rejected"}, Transition(q, t)
      PROVE  RevisionInv'
  <2>1. \A r \in Proposals : Revisions(r)' = Revisions(r)
    BY <1>2 DEF Transition, Revisions
  <2>2. QED
    BY <1>2, <2>1 DEF TypeOK, RevisionInv, Transition, Decidable
<1>3. ASSUME NEW q \in Proposals, NEW c \in Contents, Edit(q, c) PROVE RevisionInv'
  <2> DEFINE revised == <<q[1], c>>
  <2>1. /\ revised \in Proposals /\ revised[1] = q[1] /\ revised[2] = c
        /\ q = <<q[1], q[2]>> /\ q[1] \in Heads /\ q[2] \in Contents
    BY DEF Proposals
  <2>2. parent[revised] = NoContent /\ lifecycle[revised] = "none" /\ revised # q
    BY <1>3, <2>1 DEF Edit, Editable, RevisionInv
  <2>3. /\ lifecycle'[revised] = "draft" /\ lifecycle'[q] = "superseded"
        /\ \A r \in Proposals \ {revised, q} : lifecycle'[r] = lifecycle[r]
    BY <1>3, <2>1, <2>2 DEF TypeOK, Edit
  <2>4. /\ parent'[revised] = q[2]
        /\ \A r \in Proposals \ {revised} : parent'[r] = parent[r]
    BY <1>3, <2>1 DEF TypeOK, Edit
  <2>5. ASSUME NEW r \in Proposals, r # q
        PROVE  Revisions(r)' = Revisions(r)
    <3>1. r[1] \in Heads /\ r[2] \in Contents /\ r = <<r[1], r[2]>>
      BY DEF Proposals
    <3>2. ASSUME NEW d \in Contents
          PROVE  parent'[<<r[1], d>>] = r[2] <=> parent[<<r[1], d>>] = r[2]
      <4>1. <<r[1], d>> \in Proposals
        BY <3>1 DEF Proposals
      <4>2. CASE <<r[1], d>> = revised
        <5>1. r[1] = q[1]
          BY <4>2, <2>1
        <5>2. r[2] # q[2]
          BY <5>1, <3>1, <2>1, <2>5
        <5>3. r[2] # NoContent
          BY <3>1, ChainAssumption
        <5>4. QED
          BY <4>2, <5>2, <5>3, <2>2, <2>4
      <4>3. CASE <<r[1], d>> # revised
        BY <4>1, <4>3, <2>4
      <4>4. QED
        BY <4>2, <4>3
    <3>3. QED
      BY <3>2 DEF Revisions
  <2>6. Revisions(q) = {}
    BY <1>3 DEF RevisionInv, Edit, Editable
  <2>7. Revisions(q)' = {c}
    <3>1. ASSUME NEW d \in Contents
          PROVE  parent'[<<q[1], d>>] = q[2] <=> d = c
      <4>1. <<q[1], d>> \in Proposals
        BY <2>1 DEF Proposals
      <4>2. CASE d = c
        BY <4>2, <2>4
      <4>3. CASE d # c
        <5>1. <<q[1], d>> # revised
          BY <4>3
        <5>2. parent[<<q[1], d>>] # q[2]
          BY <2>6 DEF Revisions
        <5>3. QED
          BY <4>1, <4>3, <5>1, <5>2, <2>4
      <4>4. QED
        BY <4>2, <4>3
    <3>2. QED
      BY <3>1 DEF Revisions
  <2>8. ASSUME NEW r \in Proposals
        PROVE  /\ parent'[r] # NoContent => lifecycle'[r] # "none"
               /\ \A d, e \in Revisions(r)' : d = e
               /\ lifecycle'[r] = "superseded" <=> Revisions(r)' # {}
    <3>1. CASE r = q
      BY <3>1, <2>3, <2>7
    <3>2. CASE r = revised
      BY <3>2, <2>2, <2>3, <2>5 DEF RevisionInv
    <3>3. CASE r # q /\ r # revised
      BY <3>3, <2>3, <2>4, <2>5 DEF RevisionInv
    <3>4. QED
      BY <3>1, <3>2, <3>3
  <2>9. QED
    BY <2>8 DEF RevisionInv
<1>4. CASE UNCHANGED <<lifecycle, parent>>
  BY <1>4 DEF RevisionInv, Revisions
<1>5. QED
  BY <1>1, <1>2, <1>3, <1>4
     DEF Next, Deliver, PlanStep, StartPlan, CreatePlan, StartApproval, Approve, StartDiffPlan,
         CreateDiffPlan, Start, RecordResult, RecordDiffResult, Abandon, Decide, vars

\* A plan's proposal was accepted when it was planned and can since only be superseded.
LEMMA PlannedStep == TypeOK /\ TxInv /\ PlannedWasAccepted /\ [Next]_vars => PlannedWasAccepted'
<1> SUFFICES ASSUME TypeOK, TxInv, PlannedWasAccepted, [Next]_vars PROVE PlannedWasAccepted'
  OBVIOUS
<1> USE DEF headVars, proposalVars, planVars, resultVars
<1>0. \A p \in Plans : ProposalOf(p) \in Proposals
  BY DEF Plans, ProposalOf
<1>1. ASSUME NEW q \in Proposals, CreateProposal(q) PROVE PlannedWasAccepted'
  BY <1>0, <1>1 DEF TypeOK, PlannedWasAccepted, CreateProposal
<1>2. ASSUME NEW q \in Proposals, NEW t \in {"accepted_for_export", "rejected"}, Transition(q, t)
      PROVE  PlannedWasAccepted'
  BY <1>0, <1>2 DEF TypeOK, PlannedWasAccepted, Transition, Decidable
<1>3. ASSUME NEW q \in Proposals, NEW c \in Contents, Edit(q, c) PROVE PlannedWasAccepted'
  <2>1. \A p \in plans : ProposalOf(p) # <<q[1], c>>
    BY <1>3 DEF PlannedWasAccepted, Edit
  <2>2. \A p \in plans : lifecycle'[ProposalOf(p)] \in {lifecycle[ProposalOf(p)], "superseded"}
    BY <1>0, <1>3, <2>1 DEF TypeOK, Edit
  <2>3. QED
    BY <1>3, <2>2 DEF PlannedWasAccepted, Edit
<1>4. ASSUME NEW p \in Plans, CreatePlan(p) PROVE PlannedWasAccepted'
  <2>1. Accepted(ProposalOf(p)) /\ ProposalOf(p)[2] \in Valid
    BY <1>4, ChainAssumption DEF TxInv, CreatePlan, Holding, Active, TxKinds
  <2>2. QED
    BY <1>4, <2>1 DEF PlannedWasAccepted, CreatePlan, Accepted
<1>5. CASE UNCHANGED <<lifecycle, plans>>
  BY <1>5 DEF PlannedWasAccepted
<1>6. QED
  BY <1>1, <1>2, <1>3, <1>4, <1>5
     DEF Next, Deliver, PlanStep, StartPlan, StartApproval, Approve, StartDiffPlan,
         CreateDiffPlan, Start, RecordResult, RecordDiffResult, Abandon, Decide, vars

\* A recorded result answers no earlier one, and is of an approved plan.
LEMMA ResultStep == OneResultPerAttempt /\ [Next]_vars => OneResultPerAttempt'
<1> SUFFICES ASSUME OneResultPerAttempt, [Next]_vars PROVE OneResultPerAttempt'
  OBVIOUS
<1> USE DEF headVars, proposalVars, planVars, resultVars
<1>1. approvals \subseteq approvals' /\ diffPlans \subseteq diffPlans'
  BY DEF Next, Deliver, CreateProposal, Transition, Edit, PlanStep, StartPlan, CreatePlan,
         StartApproval, Approve, StartDiffPlan, CreateDiffPlan, Start, RecordResult,
         RecordDiffResult, Abandon, Decide, vars
<1>2. ASSUME NEW p \in Plans, NEW a \in Attempts, NEW k \in Keys, NEW o \in ExecutionOutcomes,
             RecordResult(p, a, o, k)
      PROVE  OneResultPerAttempt'
  <2> DEFINE new == [plan |-> p, attempt |-> a, outcome |-> o, key |-> k, stale |-> ~Active(p)]
  <2>1. runs' = runs \cup {new} /\ UNCHANGED <<approvals, diffPlans, diffRuns>>
    BY <1>2 DEF RecordResult
  <2>2. \A r \in runs : r.key # k /\ ~(r.plan = p /\ r.attempt = a)
    BY <1>2 DEF RecordResult, Answers
  <2>3. new.key = k /\ new.plan = p /\ new.attempt = a /\ p \in approvals
    BY <1>2 DEF RecordResult, Approved
  <2> HIDE DEF new
  <2>4. QED
    BY <2>1, <2>2, <2>3 DEF OneResultPerAttempt, SameAttempt
<1>3. ASSUME NEW p \in Plans, NEW a \in Attempts, NEW k \in Keys, NEW report \in Reports,
             RecordDiffResult(p, a, report, k)
      PROVE  OneResultPerAttempt'
  <2> DEFINE new == [plan |-> p, attempt |-> a, outcome |-> report[1], mutation |-> report[2],
                     key |-> k, stale |-> ~Active(p)]
  <2>1. diffRuns' = diffRuns \cup {new} /\ UNCHANGED <<approvals, diffPlans, runs>>
    BY <1>3 DEF RecordDiffResult
  <2>2. \A r \in diffRuns : r.key # k /\ ~(r.plan = p /\ r.attempt = a)
    BY <1>3 DEF RecordDiffResult, Answers
  <2>3. new.key = k /\ new.plan = p /\ new.attempt = a /\ p \in diffPlans
    BY <1>3 DEF RecordDiffResult
  <2> HIDE DEF new
  <2>4. QED
    BY <2>1, <2>2, <2>3 DEF OneResultPerAttempt, SameAttempt
<1>4. CASE UNCHANGED <<runs, diffRuns>>
  BY <1>1, <1>4 DEF OneResultPerAttempt, SameAttempt
<1>5. QED
  BY <1>2, <1>3, <1>4
     DEF Next, Deliver, CreateProposal, Transition, Edit, PlanStep, StartPlan, CreatePlan,
         StartApproval, Approve, StartDiffPlan, CreateDiffPlan, Start, Abandon, Decide, vars

\* What the lineage checks and the fusion policy let through.
LEMMA FavourableDecision ==
  ASSUME TypeOK, OneResultPerAttempt,
         NEW d \in diffRuns, NEW e \in runs \cup {NoRun}, NEW cited \in SUBSET Components,
         NEW claim \in Claims, LineageHolds(d, e, cited),
         NEW value, value = Fuse(claim = "hold" \/ Holds(d, e, cited), cited = Components,
                                 claim = "review" \/ d.mutation = "weak"),
         value \in {"SHIP", "REVIEW"}
  PROVE  /\ e \in runs /\ e.plan = d.plan
         /\ e.outcome = "passed" /\ ~e.stale
         /\ d.outcome = "no_difference" /\ ~d.stale
         /\ d.mutation = "strong" \/ (d.mutation = "weak" /\ value = "REVIEW")
         /\ d.plan \in approvals
         /\ Band[HeadOf(d.plan)] = "low"
<1> DEFINE hold == claim = "hold" \/ Holds(d, e, cited)
           review == claim = "review" \/ d.mutation = "weak"
<1>1. hold \in BOOLEAN /\ (cited = Components) \in BOOLEAN /\ review \in BOOLEAN
  BY DEF Holds
<1>2. ~hold /\ cited = Components /\ (value = "SHIP" => ~review)
  <2> HIDE DEF hold, review
  <2>1. value = Fuse(hold, cited = Components, review)
    BY DEF hold, review
  <2>2. QED
    BY <1>1, <2>1, FuseFavours
<1>3. {"model_risk", "execution", "differential", "mutation"} \subseteq cited
  BY <1>2 DEF Components
<1>4. d \in DiffRuns /\ d.plan \in Plans
  BY DEF TypeOK, DiffRuns
<1>5. e \in runs /\ CitableRun(e, d) /\ e.outcome = "passed"
  BY <1>2, <1>3 DEF LineageHolds, Holds, CitableRun
<1>6. d.outcome = "no_difference" /\ ~d.stale
  BY <1>2, <1>3, <1>4 DEF LineageHolds, Holds, DiffRuns, DifferentialOutcomes
<1>7. d.mutation \in {"strong", "weak"}
  BY <1>3, <1>4 DEF LineageHolds, DiffRuns, MutationScores
<1>8. d.mutation = "strong" \/ (d.mutation = "weak" /\ value = "REVIEW")
  BY <1>2, <1>7
<1>9. Band[HeadOf(d.plan)] = "low"
  <2>1. HeadOf(d.plan) \in Heads
    BY <1>4 DEF Plans, Proposals, HeadOf
  <2>2. Band[HeadOf(d.plan)] \in {"high", "low", "unknown"}
    BY <2>1, ChainAssumption
  <2>3. QED
    BY <1>2, <1>3, <2>2 DEF LineageHolds, Holds
<1>10. d.plan \in approvals
  BY DEF OneResultPerAttempt, TypeOK
<1>11. QED
  BY <1>5, <1>6, <1>8, <1>9, <1>10 DEF CitableRun

\* Rows a decision rests on stay; a new decision was let through by the checks.
LEMMA DecisionStep ==
  TypeOK /\ OneResultPerAttempt /\ DecisionIsEarned /\ [Next]_vars => DecisionIsEarned'
<1> SUFFICES ASSUME TypeOK, OneResultPerAttempt, DecisionIsEarned, [Next]_vars
             PROVE  DecisionIsEarned'
  OBVIOUS
<1> USE DEF headVars, proposalVars, planVars, resultVars
<1>1. approvals \subseteq approvals' /\ runs \subseteq runs'
  BY DEF Next, Deliver, CreateProposal, Transition, Edit, PlanStep, StartPlan, CreatePlan,
         StartApproval, Approve, StartDiffPlan, CreateDiffPlan, Start, RecordResult,
         RecordDiffResult, Abandon, Decide, vars
<1>2. CASE UNCHANGED decisions
  BY <1>1, <1>2 DEF DecisionIsEarned
<1>3. ASSUME NEW d \in Undecided, NEW e \in runs \cup {NoRun}, NEW cited \in Citations,
             NEW claim \in Claims, Decide(d, e, cited, claim)
      PROVE  DecisionIsEarned'
  <2> DEFINE value == Fuse(claim = "hold" \/ Holds(d, e, cited), cited = Components,
                           claim = "review" \/ d.mutation = "weak")
             new == [run |-> d, execution |-> e, value |-> value]
  <2>1. d \in diffRuns /\ cited \in SUBSET Components /\ LineageHolds(d, e, cited)
    BY <1>3, ChainAssumption DEF Undecided, Decide
  <2>2. decisions' = decisions \cup {new} /\ UNCHANGED <<runs, approvals>>
    BY <1>3 DEF Decide
  <2>3. value \in {"SHIP", "REVIEW"} =>
          /\ e \in runs /\ e.plan = d.plan
          /\ e.outcome = "passed" /\ ~e.stale
          /\ d.outcome = "no_difference" /\ ~d.stale
          /\ d.mutation = "strong" \/ (d.mutation = "weak" /\ value = "REVIEW")
          /\ d.plan \in approvals
          /\ Band[HeadOf(d.plan)] = "low"
    BY <2>1, FavourableDecision
  <2>4. new.run = d /\ new.execution = e /\ new.value = value
    OBVIOUS
  <2> HIDE DEF new, value
  <2>5. QED
    BY <2>2, <2>3, <2>4 DEF DecisionIsEarned
<1>4. QED
  BY <1>2, <1>3
     DEF Next, Deliver, CreateProposal, Transition, Edit, PlanStep, StartPlan, CreatePlan,
         StartApproval, Approve, StartDiffPlan, CreateDiffPlan, Start, RecordResult,
         RecordDiffResult, Abandon, vars

LEMMA InvStep == IInv /\ [Next]_vars => IInv'
  BY TypeStep, HeadStep, TxStep, RevisionStep, PlannedStep, ResultStep, DecisionStep DEF IInv

LEMMA Invariance == Spec => []IInv
<1>1. Init => IInv
  BY InitInv
<1>2. IInv /\ [Next]_vars => IInv'
  BY InvStep
<1>3. QED
  BY <1>1, <1>2, PTL DEF Spec

\* Every variable keeps its type, whatever the constants.
THEOREM TypeCorrect == Spec => []TypeOK
<1>1. IInv => TypeOK
  BY DEF IInv
<1>2. QED
  BY <1>1, Invariance, PTL

\* Revisions form chains, however many editors revise however many contents.
THEOREM RevisionsSafe == Spec => []RevisionsFormChains
<1>1. ASSUME IInv PROVE RevisionsFormChains
  <2>1. ASSUME NEW q \in Proposals PROVE Cardinality(Revisions(q)) <= 1
    <3>1. CASE Revisions(q) = {}
      BY <3>1, FS_EmptySet
    <3>2. CASE Revisions(q) # {}
      <4>1. PICK c : c \in Revisions(q)
        BY <3>2
      <4>2. Revisions(q) = {c}
        BY <1>1, <4>1 DEF IInv, RevisionInv
      <4>3. QED
        BY <4>2, FS_Singleton
    <3>3. QED
      BY <3>1, <3>2
  <2>2. QED
    BY <1>1, <2>1 DEF IInv, RevisionInv, RevisionsFormChains
<1>2. IInv => RevisionsFormChains
  BY <1>1
<1>3. QED
  BY <1>2, Invariance, PTL

\* A plan's test was accepted and can since only have been superseded.
THEOREM PlannedSafe == Spec => []PlannedWasAccepted
<1>1. IInv => PlannedWasAccepted
  BY DEF IInv
<1>2. QED
  BY <1>1, Invariance, PTL

\* One result per attempt and per key, of approved plans only.
THEOREM ResultsSafe == Spec => []OneResultPerAttempt
<1>1. IInv => OneResultPerAttempt
  BY DEF IInv
<1>2. QED
  BY <1>1, Invariance, PTL

\* A favourable decision rests on current evidence of its own approved plan, and on a
\* low risk band: the run can show the band for one assignment only, this for any.
THEOREM DecisionSafe == Spec => []DecisionIsEarned
<1>1. IInv => DecisionIsEarned
  BY DEF IInv
<1>2. QED
  BY <1>1, Invariance, PTL

--------------------------------------------------------------------------------
(* The chain implements ExecutionAuthority.                                 *)

StatusMap  == [p \in Plans |-> Status(p)]
TrustedMap == {r.plan : r \in {s \in runs \cup diffRuns : ~s.stale}}

LEMMA StatusIs ==
  ASSUME NEW p \in Plans, approvals \subseteq plans
  PROVE  /\ Status(p) = "absent" <=> p \notin plans
         /\ Status(p) = "void" <=> p \in plans /\ ~Active(p)
         /\ Status(p) = "approved" <=> p \in approvals /\ Active(p)
         /\ Status(p) = "planned" <=> p \in plans \ approvals /\ Active(p)
         /\ Status(p) \in Authority!Statuses
  BY DEF Status, Authority!Statuses

\* Nothing an edit, a review or a delivery does revives a plan.
LEMMA NoRevival ==
  ASSUME IInv, [Next]_vars, NEW p \in plans, Active(p)'
  PROVE  Active(p)
<1> USE DEF headVars, proposalVars, planVars, resultVars
<1>0. /\ p \in Plans /\ ProposalOf(p) \in Proposals /\ HeadOf(p) \in stored
      /\ lifecycle[ProposalOf(p)] \in {"accepted_for_export", "superseded"}
  BY DEF IInv, TypeOK, HeadInv, PlannedWasAccepted, Plans, ProposalOf
<1>1. CASE \E h \in Heads : Deliver(h)
  BY <1>0, <1>1 DEF Deliver, LatestAfter, Active, Accepted
<1>2. ASSUME NEW q \in Proposals, CreateProposal(q) PROVE Active(p)
  BY <1>0, <1>2 DEF IInv, TypeOK, CreateProposal, Active, Accepted
<1>3. ASSUME NEW q \in Proposals, NEW t \in {"accepted_for_export", "rejected"}, Transition(q, t)
      PROVE  Active(p)
  BY <1>0, <1>3 DEF IInv, TypeOK, Transition, Decidable, Active, Accepted
<1>4. ASSUME NEW q \in Proposals, NEW c \in Contents, Edit(q, c) PROVE Active(p)
  <2>1. ProposalOf(p) # <<q[1], c>>
    BY <1>0, <1>4 DEF Edit
  <2>2. lifecycle'[ProposalOf(p)] \in {lifecycle[ProposalOf(p)], "superseded"} /\ latest' = latest
    BY <1>0, <1>4, <2>1 DEF IInv, TypeOK, Edit
  <2>3. QED
    BY <1>0, <2>2 DEF Active, Accepted
<1>5. CASE UNCHANGED <<latest, lifecycle>>
  BY <1>5 DEF Active, Accepted
<1>6. QED
  BY <1>1, <1>2, <1>3, <1>4, <1>5
     DEF Next, PlanStep, StartPlan, CreatePlan, StartApproval, Approve, StartDiffPlan,
         CreateDiffPlan, Start, RecordResult, RecordDiffResult, Abandon, Decide, vars

\* A step that leaves plans, approvals and results alone makes plans void or nothing.
LEMMA VoidStep ==
  ASSUME IInv, [Next]_vars, UNCHANGED <<plans, approvals, runs, diffRuns>>
  PROVE  Authority!Void
<1>1. approvals \subseteq plans /\ plans \subseteq Plans
  BY DEF IInv, TypeOK
<1>2. ASSUME NEW p \in Plans
      PROVE  /\ Status(p)' \in Authority!Statuses
             /\ \/ Status(p)' = Status(p)
                \/ Status(p) \in {"planned", "approved"} /\ Status(p)' = "void"
  <2>1. p \in plans /\ Active(p)' => Active(p)
    BY NoRevival
  <2>2. QED
    BY <1>1, <2>1 DEF Status, Authority!Statuses
<1>3. StatusMap' \in [Plans -> Authority!Statuses]
  BY <1>2 DEF StatusMap
<1>4. \A p \in Plans : StatusMap[p] = Status(p) /\ StatusMap'[p] = Status(p)'
  BY DEF StatusMap
<1>5. UNCHANGED TrustedMap
  BY DEF TrustedMap
<1>6. QED
  BY <1>2, <1>3, <1>4, <1>5 DEF Authority!Void, StatusMap, TrustedMap

\* A result recorded for an active, approved plan makes it trusted; any other nothing.
LEMMA TrustStep ==
  ASSUME IInv, NEW p \in approvals, UNCHANGED <<plans, approvals, latest, lifecycle>>,
         NEW r, r.plan = p, r.stale = ~Active(p),
         (runs \cup diffRuns)' = (runs \cup diffRuns) \cup {r}
  PROVE  \/ Authority!Trust(p)
         \/ UNCHANGED <<StatusMap, TrustedMap>>
<1>1. p \in Plans /\ approvals \subseteq plans
  BY DEF IInv, TypeOK
<1>2. \A k \in Plans : Status(k)' = Status(k)
  BY DEF Status, Active, Accepted
<1>3. UNCHANGED StatusMap
  BY <1>2 DEF StatusMap
<1>4. CASE Active(p)
  <2>1. TrustedMap' = TrustedMap \cup {p}
    BY <1>4 DEF TrustedMap
  <2>2. StatusMap[p] = "approved"
    BY <1>1, <1>4, StatusIs DEF StatusMap
  <2>3. QED
    BY <1>1, <1>3, <2>1, <2>2 DEF Authority!Trust, StatusMap, TrustedMap
<1>5. CASE ~Active(p)
  <2>1. TrustedMap' = TrustedMap
    BY <1>5 DEF TrustedMap
  <2>2. QED
    BY <1>3, <2>1
<1>6. QED
  BY <1>4, <1>5

LEMMA AuthorityInit == Init => Authority!Init
  BY DEF Init, Authority!Init, Status

LEMMA AuthorityStep ==
  ASSUME IInv, [Next]_vars
  PROVE  [Authority!Next]_<<StatusMap, TrustedMap>>
<1> USE DEF headVars, proposalVars, planVars, resultVars
<1>0. approvals \subseteq plans /\ plans \subseteq Plans /\ diffPlans \subseteq approvals
  BY DEF IInv, TypeOK
<1>1. ASSUME NEW p \in Plans, CreatePlan(p) PROVE Authority!Plan(p)
  <2>1. p \notin plans /\ Active(p) /\ plans' = plans \cup {p}
        /\ UNCHANGED <<approvals, latest, lifecycle, runs, diffRuns>>
    BY <1>1, ChainAssumption DEF IInv, TxInv, CreatePlan, Holding, TxKinds
  <2>2. \A k \in Plans : Active(k)' = Active(k)
    BY <2>1 DEF Active, Accepted
  <2>3. Status(p) = "absent" /\ Status(p)' = "planned"
    BY <1>0, <2>1, <2>2 DEF Status
  <2>4. \A k \in Plans \ {p} : Status(k)' = Status(k)
    BY <2>1, <2>2 DEF Status
  <2>5. StatusMap' = [StatusMap EXCEPT ![p] = "planned"] /\ StatusMap[p] = "absent"
    BY <2>3, <2>4 DEF StatusMap
  <2>6. UNCHANGED TrustedMap
    BY <2>1 DEF TrustedMap
  <2>7. QED
    BY <2>5, <2>6 DEF Authority!Plan, StatusMap, TrustedMap
<1>2. ASSUME NEW p \in Plans, Approve(p) PROVE Authority!Approve(p)
  <2>1. p \in plans \ approvals /\ Active(p) /\ approvals' = approvals \cup {p}
        /\ UNCHANGED <<plans, latest, lifecycle, runs, diffRuns>>
    BY <1>2, ChainAssumption DEF IInv, TxInv, Approve, Holding, TxKinds
  <2>2. \A k \in Plans : Active(k)' = Active(k)
    BY <2>1 DEF Active, Accepted
  <2>3. Status(p) = "planned" /\ Status(p)' = "approved"
    BY <1>0, <2>1, <2>2 DEF Status
  <2>4. \A k \in Plans \ {p} : Status(k)' = Status(k)
    BY <2>1, <2>2 DEF Status
  <2>5. StatusMap' = [StatusMap EXCEPT ![p] = "approved"] /\ StatusMap[p] = "planned"
    BY <2>3, <2>4 DEF StatusMap
  <2>6. UNCHANGED TrustedMap
    BY <2>1 DEF TrustedMap
  <2>7. QED
    BY <2>5, <2>6 DEF Authority!Approve, StatusMap, TrustedMap
<1>3. ASSUME NEW p \in Plans, NEW a \in Attempts, NEW k \in Keys, NEW o \in ExecutionOutcomes,
             RecordResult(p, a, o, k)
      PROVE  Authority!Trust(p) \/ UNCHANGED <<StatusMap, TrustedMap>>
  <2> DEFINE new == [plan |-> p, attempt |-> a, outcome |-> o, key |-> k, stale |-> ~Active(p)]
  <2>1. new.plan = p /\ new.stale = ~Active(p)
    OBVIOUS
  <2>2. /\ runs' = runs \cup {new} /\ p \in approvals
        /\ UNCHANGED <<plans, approvals, latest, lifecycle, diffRuns>>
    BY <1>3 DEF RecordResult, Approved
  <2> HIDE DEF new
  <2>3. (runs \cup diffRuns)' = (runs \cup diffRuns) \cup {new}
    BY <2>2
  <2>4. QED
    BY <2>1, <2>2, <2>3, TrustStep
<1>4. ASSUME NEW p \in Plans, NEW a \in Attempts, NEW k \in Keys, NEW report \in Reports,
             RecordDiffResult(p, a, report, k)
      PROVE  Authority!Trust(p) \/ UNCHANGED <<StatusMap, TrustedMap>>
  <2> DEFINE new == [plan |-> p, attempt |-> a, outcome |-> report[1], mutation |-> report[2],
                     key |-> k, stale |-> ~Active(p)]
  <2>1. new.plan = p /\ new.stale = ~Active(p)
    OBVIOUS
  <2>2. /\ diffRuns' = diffRuns \cup {new} /\ p \in approvals
        /\ UNCHANGED <<plans, approvals, latest, lifecycle, runs>>
    BY <1>0, <1>4 DEF RecordDiffResult
  <2> HIDE DEF new
  <2>3. (runs \cup diffRuns)' = (runs \cup diffRuns) \cup {new}
    BY <2>2
  <2>4. QED
    BY <2>1, <2>2, <2>3, TrustStep
<1>5. CASE UNCHANGED <<plans, approvals, runs, diffRuns>>
  BY <1>5, VoidStep DEF Authority!Next
<1>6. QED
  BY <1>1, <1>2, <1>3, <1>4, <1>5
     DEF Next, Deliver, CreateProposal, Transition, Edit, PlanStep, StartPlan, StartApproval,
         StartDiffPlan, CreateDiffPlan, Start, Abandon, Decide, vars, Authority!Next

\* The chain keeps what it promises of every plan: approval only while current, void for
\* good, trust only for results recorded while approved and current.
THEOREM Refinement == Spec => ImplementsExecutionAuthority
<1>1. Init => Authority!Init
  BY AuthorityInit
<1>2. IInv /\ [Next]_vars => [Authority!Next]_<<StatusMap, TrustedMap>>
  BY AuthorityStep
<1>3. QED
  BY <1>1, <1>2, Invariance, PTL
     DEF Spec, ImplementsExecutionAuthority, Authority!Spec, StatusMap, TrustedMap
================================================================================
