------------------------------ MODULE TenantSchema ------------------------------
(***************************************************************************)
(* What the PostgreSQL schema holds against any writer, whether or not it  *)
(* goes through the models: composite foreign keys that carry the tenant   *)
(* along, rows that cannot change, and triggers that bind a new row to the *)
(* rows it was made from.  A row is a record with its table and its key.   *)
(* The triggers of a statement see the rows of its start, its constraints  *)
(* those of its end.                                                       *)
(***************************************************************************)
EXTENDS Naturals

CONSTANTS
  Writers,      \* connections, each with one statement at a time
  Databases,    \* contents to start from
  Candidates,   \* rows somebody may try to write
  MaxWrites,    \* bound on the statements
  Null

VARIABLES
  rows,         \* committed rows
  pending,      \* statement of each writer whose triggers have fired: rows it takes and puts
  written       \* statements so far

vars == <<rows, pending, written>>

--------------------------------------------------------------------------------
(* Foreign keys: column refers to the id, and same are equal in both rows.       *)

Own == {"organization"}
OwnRepository == {"organization", "repository"}
Fk(child, same, column, parent) ==
  [child |-> child, same |-> same, column |-> column, parent |-> parent]

IngestionRelations ==
  { Fk("repository", Own, "installation", "githubinstallation"),
    Fk("webhookreceipt", Own, "installation", "githubinstallation"),
    Fk("pullrequestsnapshot", Own, "repository", "repository"),
    Fk("pullrequestsnapshot", Own, "first_receipt", "webhookreceipt"),
    Fk("analysisjob", Own, "snapshot", "pullrequestsnapshot"),
    Fk("outboxevent", Own, "job", "analysisjob") }

EvidenceRelations ==
  { Fk("changefeatureset", Own, "snapshot", "pullrequestsnapshot"),
    Fk("evidenceitem", Own, "snapshot", "pullrequestsnapshot"),
    Fk("evidenceitem", Own \cup {"snapshot"}, "feature_set", "changefeatureset") }

RiskRelations ==
  { Fk("riskscore", Own, "snapshot", "pullrequestsnapshot"),
    Fk("riskscore", Own \cup {"snapshot"}, "feature_set", "changefeatureset") }

PolicyRelations == { Fk("hostedllmpolicy", Own, "repository", "repository") }

IndexRelations ==
  { Fk(child, Own, "repository", "repository") :
      child \in {"knowledgedocument", "knowledgechunk", "lexicalindexprofile",
                 "knowledgelexicalindex", "embeddingindexprofile", "knowledgeembedding384"} }
  \cup
  { Fk("knowledgechunk", OwnRepository, "document", "knowledgedocument"),
    Fk("knowledgelexicalindex", OwnRepository, "chunk", "knowledgechunk"),
    Fk("knowledgelexicalindex", OwnRepository, "profile", "lexicalindexprofile"),
    Fk("knowledgeembedding384", OwnRepository, "chunk", "knowledgechunk"),
    Fk("knowledgeembedding384", OwnRepository, "profile", "embeddingindexprofile") }

ProposalRelations ==
  { Fk("generatedtestproposal", Own, "source_llm_evidence", "evidenceitem"),
    Fk("generatedtestproposal", Own, "parent_proposal", "generatedtestproposal"),
    Fk("proposallifecycleevent", Own, "proposal", "generatedtestproposal") }

ExecutionRelations ==
  { Fk("executionplan", Own, "proposal", "generatedtestproposal"),
    Fk("executionplan", Own, "snapshot", "pullrequestsnapshot"),
    Fk("executionapproval", Own, "plan", "executionplan"),
    Fk("executionrun", Own, "plan", "executionplan"),
    Fk("executionrun", Own, "approval", "executionapproval") }

DifferentialRelations ==
  { Fk("differentialplan", Own, "source_execution_plan", "executionplan"),
    Fk("differentialplan", Own, "source_approval", "executionapproval"),
    Fk("differentialrun", Own, "plan", "differentialplan"),
    Fk("recommendationdecision", Own, "differential_run", "differentialrun"),
    Fk("recommendationdecision", Own, "snapshot", "pullrequestsnapshot") }

GovernanceRelations ==
  { Fk("modellifecycleevent", Own, "artifact", "governedmodelartifact"),
    Fk("modeldeployment", Own \cup {"model_name"}, "active_artifact", "governedmodelartifact"),
    Fk("modeldeployment", Own \cup {"model_name"}, "rollback_artifact", "governedmodelartifact"),
    Fk("deploymentoutcome", Own, "repository", "repository"),
    Fk("deploymentoutcome", Own, "snapshot", "pullrequestsnapshot"),
    Fk("deploymentoutcome", Own \cup {"snapshot"}, "prediction", "riskscore"),
    Fk("driftassessmentrecord", Own, "artifact", "governedmodelartifact"),
    Fk("driftreview", Own, "assessment", "driftassessmentrecord") }

RetentionRelations ==
  { Fk("retentiondeletionplan", Own, "policy", "operationalpolicy"),
    Fk("retentiondeletiongrant", Own, "plan", "retentiondeletionplan"),
    Fk("retentiondeletionexecution", Own, "plan", "retentiondeletionplan"),
    Fk("usagereservation", Own, "counter", "usagecounter") }

Relations ==
  IngestionRelations \cup EvidenceRelations \cup RiskRelations \cup PolicyRelations
  \cup IndexRelations \cup ProposalRelations \cup ExecutionRelations
  \cup DifferentialRelations \cup GovernanceRelations \cup RetentionRelations

Rows(table, db) == {r \in db : r.table = table}
Same(fk, r, p) == \A c \in fk.same : p[c] = r[c]
Satisfied(fk, r, db) ==
  \/ r[fk.column] = Null
  \/ \E p \in Rows(fk.parent, db) : p.id = r[fk.column] /\ Same(fk, r, p)
Referential(db) == \A fk \in Relations : \A r \in Rows(fk.child, db) : Satisfied(fk, r, db)

SameId(r, s) == r.table = s.table /\ r.id = s.id   \* mutated form: nothing orders the events
\* Of the unique constraints, the primary keys and the one the triggers count on.
SameKey(r, s) ==
  /\ r.table = s.table
  /\ \/ r.id = s.id
     \/ /\ r.table = "proposallifecycleevent"
        /\ r.proposal = s.proposal
        /\ r.sequence = s.sequence \/ r.to = s.to
Unique(db) == \A r, s \in db : SameKey(r, s) => r = s

--------------------------------------------------------------------------------
(* Triggers *)

\* Rows of these tables are deleted under a grant for a plan that lists them.
Governed ==
  {"pullrequestsnapshot", "knowledgeembedding384", "governedmodelartifact", "evidenceitem"}
VerificationRecords ==
  {"generatedtestproposal", "proposallifecycleevent", "executionplan", "executionapproval",
   "executionrun", "differentialplan", "differentialrun", "recommendationdecision"}
OtherRecords ==
  {"webhookreceipt", "auditlog", "changefeatureset", "riskscore", "hostedllmpolicy",
   "knowledgedocument", "knowledgechunk", "knowledgelexicalindex",
   "modellifecycleevent", "deploymentoutcome", "driftassessmentrecord", "driftreview",
   "operationalpolicy", "usagereservation", "retentiondeletionplan",
   "retentiondeletionexecution"}
ImmutableButPlans ==   \* mutated form: execution plans have no trigger
  Governed \cup OtherRecords \cup (VerificationRecords \ {"executionplan"})
Immutable == Governed \cup OtherRecords \cup VerificationRecords

\* An active grant is one that has not expired either.
Granted(r, db) ==
  /\ r.table \in Governed
  /\ \E plan \in Rows("retentiondeletionplan", db), grant \in Rows("retentiondeletiongrant", db) :
       /\ grant.plan = plan.id /\ grant.active /\ ~ plan.dry_run
       /\ grant.organization = r.organization /\ plan.organization = r.organization
       /\ <<r.table, r.id>> \in plan.candidates

LegalTransition(before, after) ==
  \/ before = "draft" /\ after \in {"accepted_for_export", "rejected", "superseded"}
  \/ before \in {"accepted_for_export", "rejected"} /\ after = "superseded"
Events(e, db) == {f \in Rows("proposallifecycleevent", db) : f.proposal = e.proposal}
Follows(e, f) ==
  e.sequence = f.sequence + 1 /\ e.from = f.to /\ LegalTransition(f.to, e.to)
ValidateProposalEvent(e, db) ==
  /\ IF Events(e, db) = {}
     THEN e.sequence = 0 /\ e.from = Null /\ e.to = "draft"
     ELSE \E f \in Events(e, db) : Follows(e, f) /\ \A g \in Events(e, db) : g.sequence <= f.sequence
  /\ e.to = "accepted_for_export" =>
       \E p \in Rows("generatedtestproposal", db) : p.id = e.proposal /\ p.valid

\* bound stands for the head, the proposal hash and the plan hash.
ValidateExecutionApproval(a, db) ==
  \E p \in Rows("executionplan", db) :
    p.id = a.plan /\ p.organization = a.organization /\ p.bound = a.bound
ValidateExecutionRun(r, db) ==
  \E a \in Rows("executionapproval", db) :
    a.id = r.approval /\ a.plan = r.plan /\ a.organization = r.organization
ValidateDifferentialPlan(d, db) ==
  \E a \in Rows("executionapproval", db) :
    a.id = d.source_approval /\ a.plan = d.source_execution_plan
    /\ a.organization = d.organization
ValidateRecommendation(d, db) ==
  \E r \in Rows("differentialrun", db), p \in Rows("differentialplan", db),
     e \in Rows("executionplan", db) :
    /\ r.id = d.differential_run /\ r.organization = d.organization
    /\ p.id = r.plan /\ e.id = p.source_execution_plan /\ e.snapshot = d.snapshot

MayInsert(r, db) ==
  /\ r.table = "proposallifecycleevent" => ValidateProposalEvent(r, db)
  /\ r.table = "executionapproval" => ValidateExecutionApproval(r, db)
  /\ r.table = "executionrun" => ValidateExecutionRun(r, db)
  /\ r.table = "differentialplan" => ValidateDifferentialPlan(r, db)
  /\ r.table = "recommendationdecision" => ValidateRecommendation(r, db)

--------------------------------------------------------------------------------
\* Whatever a row refers to is of its tenant, and of its snapshot, repository or model where
\* both have one.
ReferencesAgree(db) ==
  \A fk \in Relations : \A r \in Rows(fk.child, db), p \in Rows(fk.parent, db) :
    r[fk.column] # Null /\ p.id = r[fk.column] => Same(fk, r, p)

\* The chain from a recommendation back to what was approved is the one its rows were bound
\* by when they were stored.
BindingsStand(db) ==
  \A r \in db : r.table # "proposallifecycleevent" => MayInsert(r, db)

\* The events of a proposal are one path of its lifecycle.
LifecycleIsAPath(db) ==
  \A e \in Rows("proposallifecycleevent", db) :
    /\ \A f \in Events(e, db) : e.sequence = f.sequence => e = f
    /\ \/ e.sequence = 0 /\ e.to = "draft"
       \/ \E f \in Events(e, db) : Follows(e, f)
    /\ e.to = "accepted_for_export" =>
         \E p \in Rows("generatedtestproposal", db) : p.id = e.proposal /\ p.valid

Sound(db) == ReferencesAgree(db) /\ BindingsStand(db) /\ LifecycleIsAPath(db)

--------------------------------------------------------------------------------
Idle == [takes |-> {}, puts |-> {}]
Init ==
  /\ rows \in {db \in Databases : Referential(db) /\ Unique(db) /\ Sound(db)}
  /\ pending = [w \in Writers |-> Idle] /\ written = 0

Begin(w, takes, puts) ==
  /\ pending[w] = Idle /\ written < MaxWrites
  /\ written' = written + 1
  /\ pending' = [pending EXCEPT ![w] = [takes |-> takes, puts |-> puts]]
  /\ UNCHANGED rows

Insert(w, r) == MayInsert(r, rows) /\ Begin(w, {}, {r})
Update(w, old, new) == old.table \notin Immutable /\ Begin(w, {old}, {new})
Delete(w, r) ==
  /\ r.table \notin Immutable \/ Granted(r, rows)
  /\ Begin(w, {r}, {})

\* A statement whose row was taken by another one, or that breaks a constraint, does nothing.
Finish(w) ==
  LET after == (rows \ pending[w].takes) \cup pending[w].puts IN
  /\ pending[w] # Idle
  /\ rows' = IF pending[w].takes \subseteq rows /\ Unique(after) /\ Referential(after)
             THEN after ELSE rows
  /\ pending' = [pending EXCEPT ![w] = Idle]
  /\ UNCHANGED written

Next ==
  \E w \in Writers :
    \/ \E r \in Candidates : Insert(w, r)
    \/ \E old \in rows : \E new \in Rows(old.table, Candidates) : Update(w, old, new)
    \/ \E r \in rows : Delete(w, r)
    \/ Finish(w)

Spec == Init /\ [][Next]_vars

--------------------------------------------------------------------------------
\* Lineage holds against any writer: what was true when a row was stored stays true.
LineageHolds == Sound(rows)
================================================================================
