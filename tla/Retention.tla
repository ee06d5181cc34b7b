------------------------------- MODULE Retention -------------------------------
(***************************************************************************)
(* Governed deletion in one organization.  A plan lists the rows that had  *)
(* outlived the policy when it was made; an execution of it is one         *)
(* transaction that deletes them row by row under a grant the immutability *)
(* trigger looks for.  Meanwhile policies are replaced, other plans run    *)
(* over the same rows, proposals start to refer to evidence, and an        *)
(* execution may be killed.                                                *)
(***************************************************************************)
EXTENDS Integers, FiniteSets, FiniteSetsExt

CONSTANTS
  Rows,            \* rows of the four retention classes
  ClassOf,         \* the class of a row
  Days,            \* retention of each class, in ages, by policy version, 0 being the default
  Plans,           \* plans that may be made
  Executors,       \* processes that execute plans
  MaxCandidates,   \* MAX_RETENTION_CANDIDATES
  MaxAge,          \* bound on the age of a row
  NoPlan, NoResult

\* The order in which candidates are collected, and the reverse one in which the keys of
\* the stored plan are walked.
Classes == <<"source_snapshot", "embedding", "artifact", "analysis">>
Rank(c) == CHOOSE i \in 1 .. 4 : Classes[i] = c
Walk    == <<"analysis", "artifact", "embedding", "source_snapshot">>
Turn(c) == CHOOSE i \in 1 .. 4 : Walk[i] = c

RetentionAssumption ==
  /\ ClassOf \in [Rows -> {Classes[i] : i \in 1 .. 4}]
  /\ 0 \in DOMAIN Days /\ DOMAIN Days \subseteq Nat
  /\ \A v \in DOMAIN Days : Days[v] \in [{Classes[i] : i \in 1 .. 4} -> Nat]
  /\ MaxCandidates \in Nat \ {0} /\ MaxAge \in Nat
  /\ NoPlan \notin Plans \cup [policy : Nat, dry : BOOLEAN, candidates : SUBSET Rows]
  /\ NoResult \notin [deleted : Nat, blocked : Nat]
  /\ IsFiniteSet(Rows)

VARIABLES
  rows,        \* rows that exist
  age,         \* how long ago each row was created
  pinned,      \* rows that other rows refer to
  policy,      \* version of the newest OperationalPolicy, 0 while there is none
  plan,        \* RetentionDeletionPlan rows
  lapsed,      \* plans older than RETENTION_PLAN_TTL
  execution,   \* RetentionDeletionExecution of each plan
  running      \* the transaction of each executor

vars == <<rows, age, pinned, policy, plan, lapsed, execution, running>>

Idle == [plan |-> NoPlan]
Busy(e) == running[e].plan # NoPlan

\* A snapshot has its job and an artifact its lifecycle events from the start.
Init ==
  /\ rows = Rows
  /\ age = [r \in Rows |-> 0]
  /\ pinned = {r \in Rows : ClassOf[r] \in {"source_snapshot", "artifact"}}
  /\ policy = 0
  /\ plan = [p \in Plans |-> NoPlan] /\ lapsed = {}
  /\ execution = [p \in Plans |-> NoResult]
  /\ running = [e \in Executors |-> Idle]

--------------------------------------------------------------------------------
\* Rows past the retention of their class; an embedding must also be of a document that need
\* not be retained any longer.  The earlier classes fill the plan first, up to the limit.
Eligible(v, retained) == {r \in rows \ retained : age[r] > Days[v][ClassOf[r]]}
MayList(candidates, eligible) ==
  /\ candidates \subseteq eligible
  /\ Cardinality(candidates) = Min({MaxCandidates, Cardinality(eligible)})
  /\ \A c \in candidates, r \in eligible \ candidates :
       Rank(ClassOf[c]) <= Rank(ClassOf[r])

\* Without any policy row the default is written down first, as version 1.
CreatePlan(p, dry) ==
  LET v == IF policy = 0 THEN 1 ELSE policy IN
  /\ plan[p] = NoPlan
  /\ v \in DOMAIN Days
  /\ policy' = v
  /\ \E candidates \in SUBSET rows, retained \in SUBSET {r \in rows : ClassOf[r] = "embedding"} :
       /\ MayList(candidates, Eligible(v, retained))
       /\ plan' = [plan EXCEPT ![p] = [policy |-> v, dry |-> dry, candidates |-> candidates]]
  /\ UNCHANGED <<rows, age, pinned, lapsed, execution, running>>

MayExecuteDry(p) == p \notin lapsed /\ plan[p].policy = policy   \* mutated form
MayExecuteLate(p) == ~ plan[p].dry /\ p \notin lapsed            \* mutated form
MayExecute(p) ==
  /\ ~ plan[p].dry
  /\ p \notin lapsed
  /\ plan[p].policy = policy

\* The plan row is locked; a call that finds a stored result returns it and changes nothing.
StartExecution(e, p) ==
  /\ ~ Busy(e) /\ plan[p] # NoPlan
  /\ \A f \in Executors : running[f].plan # p
  /\ execution[p] = NoResult
  /\ MayExecute(p)
  /\ running' = [running EXCEPT ![e] =
       [plan |-> p, left |-> plan[p].candidates, deleted |-> {}, counted |-> 0,
        blocked |-> 0, under |-> policy]]
  /\ UNCHANGED <<rows, age, pinned, policy, plan, lapsed, execution>>

NextRow(e, r) ==
  /\ Busy(e) /\ r \in running[e].left
  /\ \A q \in running[e].left : Turn(ClassOf[r]) <= Turn(ClassOf[q])
HeldByOther(e, r) == \E f \in Executors \ {e} : Busy(f) /\ r \in running[f].deleted

\* The row is gone already: nothing is deleted and nothing blocked.
SkipMissing(e, r) ==
  /\ NextRow(e, r) /\ ~ HeldByOther(e, r) /\ r \notin rows
  /\ running' = [running EXCEPT ![e].left = @ \ {r}]
  /\ UNCHANGED <<rows, age, pinned, policy, plan, lapsed, execution>>

\* The trigger lets the row go for a candidate of a granted plan, in a savepoint.
DeleteRow(e, r) ==
  /\ NextRow(e, r) /\ ~ HeldByOther(e, r) /\ r \in rows
  /\ r \notin pinned
  /\ running' = [running EXCEPT ![e].left = @ \ {r}, ![e].deleted = @ \cup {r},
                                ![e].counted = @ + 1]
  /\ UNCHANGED <<rows, age, pinned, policy, plan, lapsed, execution>>

\* References protect it, or two executions wait for each other's rows and this one is
\* chosen to give up its statement.
BlockRow(e, r) ==
  /\ NextRow(e, r)
  /\ \/ r \in rows /\ r \in pinned
     \/ \E f \in Executors \ {e} :
          Busy(f) /\ r \in running[f].deleted /\ running[f].left \cap running[e].deleted # {}
  /\ running' = [running EXCEPT ![e].left = @ \ {r}, ![e].blocked = @ + 1]
  /\ UNCHANGED <<rows, age, pinned, policy, plan, lapsed, execution>>

\* The grant of the execution is withdrawn before the commit: no other session ever sees it.
Commit(e) ==
  LET p == running[e].plan IN
  /\ Busy(e) /\ running[e].left = {}
  /\ rows' = rows \ running[e].deleted
  /\ execution' = [execution EXCEPT ![p] =
       [deleted |-> running[e].counted, blocked |-> running[e].blocked]]
  /\ running' = [running EXCEPT ![e] = Idle]
  /\ UNCHANGED <<age, pinned, policy, plan, lapsed>>

Rollback(e) ==
  /\ Busy(e)
  /\ running' = [running EXCEPT ![e] = Idle]
  /\ UNCHANGED <<rows, age, pinned, policy, plan, lapsed, execution>>

--------------------------------------------------------------------------------
(* Environment *)

ChangePolicy ==
  /\ policy + 1 \in DOMAIN Days
  /\ policy' = policy + 1
  /\ UNCHANGED <<rows, age, pinned, plan, lapsed, execution, running>>

GrowOld(r) ==
  /\ r \in rows /\ age[r] < MaxAge
  /\ age' = [age EXCEPT ![r] = @ + 1]
  /\ UNCHANGED <<rows, pinned, policy, plan, lapsed, execution, running>>

\* A proposal generated from a piece of evidence; it waits for a delete in progress.
Refer(r) ==
  /\ r \in rows \ pinned /\ ClassOf[r] = "analysis"
  /\ \A e \in Executors : Busy(e) => r \notin running[e].deleted
  /\ pinned' = pinned \cup {r}
  /\ UNCHANGED <<rows, age, policy, plan, lapsed, execution, running>>

Lapse(p) ==
  /\ plan[p] # NoPlan /\ p \notin lapsed
  /\ lapsed' = lapsed \cup {p}
  /\ UNCHANGED <<rows, age, pinned, policy, plan, execution, running>>

Next ==
  \/ \E p \in Plans : Lapse(p) \/ \E dry \in BOOLEAN : CreatePlan(p, dry)
  \/ \E e \in Executors :
       \/ Commit(e) \/ Rollback(e)
       \/ \E p \in Plans : StartExecution(e, p)
       \/ \E r \in Rows : SkipMissing(e, r) \/ DeleteRow(e, r) \/ BlockRow(e, r)
  \/ ChangePolicy
  \/ \E r \in Rows : GrowOld(r) \/ Refer(r)

Spec == Init /\ [][Next]_vars

--------------------------------------------------------------------------------
Transaction ==
  [plan : Plans, left : SUBSET Rows, deleted : SUBSET rows, counted : 0 .. Cardinality(Rows),
   blocked : 0 .. Cardinality(Rows), under : DOMAIN Days]

\* Types of the rows; a transaction deletes rows that exist, no row is deleted by two of
\* them, and only rows of a plan that was made are processed.
TypeOK ==
  /\ rows \subseteq Rows /\ pinned \subseteq rows /\ age \in [Rows -> 0 .. MaxAge]
  /\ policy \in DOMAIN Days /\ lapsed \subseteq Plans
  /\ plan \in [Plans -> {NoPlan} \cup
       [policy : DOMAIN Days, dry : BOOLEAN, candidates : SUBSET Rows]]
  /\ execution \in [Plans -> {NoResult} \cup
       [deleted : 0 .. Cardinality(Rows), blocked : 0 .. Cardinality(Rows)]]
  /\ \A e \in Executors : Busy(e) =>
       /\ running[e] \in Transaction
       /\ plan[running[e].plan] # NoPlan
       /\ running[e].left \cup running[e].deleted \subseteq plan[running[e].plan].candidates
       /\ \A f \in Executors \ {e} : Busy(f) => running[e].deleted \cap running[f].deleted = {}

\* A row disappears only when a plan that is no dry run and lists it is executed, and only
\* when it had outlived the policy that was in force as the execution began.
DeletionWasWarranted ==
  [][\A r \in rows \ rows' :
       \E e \in Executors :
         /\ Busy(e) /\ r \in running[e].deleted
         /\ execution'[running[e].plan] # NoResult
         /\ ~ plan[running[e].plan].dry /\ r \in plan[running[e].plan].candidates
         /\ age[r] > Days[running[e].under][ClassOf[r]]]_vars

\* What the executions say was deleted is what was deleted, however many plans listed the
\* same rows; and a listed row that is left was counted as blocked.
ResultsAddUp ==
  LET done == {p \in Plans : execution[p] # NoResult} IN
  /\ MapThenSumSet(LAMBDA p : execution[p].deleted, done) = Cardinality(Rows \ rows)
  /\ \A p \in done : execution[p].blocked >= Cardinality(plan[p].candidates \cap rows)

\* Deletion is governed: each one was warranted, and the stored results account for all.
DeletionIsGoverned == DeletionWasWarranted /\ []ResultsAddUp
================================================================================
