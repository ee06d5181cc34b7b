----------------------------- MODULE SchemaExamples -----------------------------
(***************************************************************************)
(* A small database of two tenants: a repository each, three snapshots, a  *)
(* proposal with two plans and the evidence they led to, a deployed model, *)
(* and a grant that lists rows of both tenants.                            *)
(***************************************************************************)

Row(table, id, organization, columns) ==
  [c \in {"table", "id", "organization"} \cup DOMAIN columns |->
     CASE c = "table" -> table [] c = "id" -> id [] c = "organization" -> organization
       [] OTHER -> columns[c]]

Installation(i, org)   == Row("githubinstallation", i, org, [name |-> i])
Repository(r, org, i)  == Row("repository", r, org, [installation |-> i])
Snapshot(s, org, r, null) ==
  Row("pullrequestsnapshot", s, org, [repository |-> r, first_receipt |-> null])
Evidence(e, org, s) == Row("evidenceitem", e, org, [snapshot |-> s, feature_set |-> "f1"])
Proposal(p, valid, null) ==
  Row("generatedtestproposal", p, "A",
      [source_llm_evidence |-> "e1", parent_proposal |-> null, valid |-> valid])
Event(p, n, before, after) ==
  Row("proposallifecycleevent", <<p, n, after>>, "A",
      [proposal |-> p, sequence |-> n, from |-> before, to |-> after])
Plan(x, s, bound) ==
  Row("executionplan", x, "A", [proposal |-> "p1", snapshot |-> s, bound |-> bound])
Approval(a, x, bound) == Row("executionapproval", a, "A", [plan |-> x, bound |-> bound])
Run(x, a) == Row("executionrun", "run", "A", [plan |-> x, approval |-> a])
Differential(d, x, a) ==
  Row("differentialplan", d, "A", [source_execution_plan |-> x, source_approval |-> a])
Recommendation(s) ==
  Row("recommendationdecision", "rec", "A", [differential_run |-> "q1", snapshot |-> s])
Deployment(m, n) ==
  Row("modeldeployment", "dep", "A",
      [model_name |-> "m", active_artifact |-> m, rollback_artifact |-> n])
Artifact(m, name) == Row("governedmodelartifact", m, "A", [model_name |-> name])
Grant(active) == Row("retentiondeletiongrant", "grant", "A", [plan |-> "purge", active |-> active])

SmallDatabase(null) ==
  { Installation("i1", "A"), Installation("i2", "B"), Repository("r1", "A", "i1"),
    Repository("r2", "B", "i2"), Snapshot("s1", "A", "r1", null), Snapshot("s2", "A", "r1", null),
    Snapshot("s3", "B", "r2", null), Row("changefeatureset", "f1", "A", [snapshot |-> "s1"]),
    Evidence("e1", "A", "s1"), Evidence("e2", "A", "s1"),
    Proposal("p1", TRUE, null), Proposal("p2", FALSE, null),
    Event("p1", 0, null, "draft"), Event("p2", 0, null, "draft"),
    Plan("x1", "s1", "h1"), Plan("x2", "s2", "h2"), Approval("a1", "x1", "h1"),
    Approval("a2", "x2", "h2"), Differential("d1", "x1", "a1"),
    Row("differentialrun", "q1", "A", [plan |-> "d1"]),
    Artifact("m1", "m"), Artifact("m2", "m"), Artifact("n1", "n"), Deployment("m1", null),
    Row("operationalpolicy", "policy", "A", [version |-> 1]),
    Row("retentiondeletionplan", "purge", "A",
        [policy |-> "policy", dry_run |-> FALSE,
         candidates |-> {"pullrequestsnapshot", "evidenceitem"} \X {"s1", "s2", "s3", "e1", "e2"}]),
    Grant(TRUE) }

\* Rows that fit and rows that do not, under old and new keys.
SomeRows(null) ==
  { Installation("i1", "B"), Repository("r1", "B", "i2"), Repository("r3", "A", "i2"),
    Grant(FALSE), Plan("x1", "s1", "h2"), Plan("x1", "s2", "h1") }
  \cup { Snapshot(s, org, "r2", null) : s \in {"s1", "s2"}, org \in {"A", "B"} }
  \cup { Evidence("e2", org, s) : org \in {"A", "B"}, s \in {"s1", "s2"} }
  \cup { Event(p, n, before, after) :
           p \in {"p1", "p2"}, n \in {1, 2}, before \in {"draft", "rejected"},
           after \in {"accepted_for_export", "rejected", "superseded"} }
  \cup { Approval("a3", x, bound) : x \in {"x1", "x2"}, bound \in {"h1", "h2"} }
  \cup { Run(x, a) : x \in {"x1", "x2"}, a \in {"a1", "a2"} }
  \cup { Differential("d2", x, a) : x \in {"x1", "x2"}, a \in {"a1", "a2"} }
  \cup { Recommendation(s) : s \in {"s1", "s2"} }
  \cup { Deployment(m, n) : m \in {"m2", "n1"}, n \in {null, "m1"} }
================================================================================
