---------------------------- MODULE ServicesProofs -----------------------------
(***************************************************************************)
(* What the services without a language model promise, for any values of   *)
(* their constants, one section for each of them.                          *)
(***************************************************************************)
EXTENDS Services, QuotaProofs, AdvisoryProofs, Sequences, FiniteSetTheorems, SequenceTheorems,
        NaturalsInduction, WellFoundedInduction, TLAPS

--------------------------------------------------------------------------------
(* Retention.  An execution works from its plan alone, so what was true of the *)
(* plan's rows when it was made has to last: rows only grow older, and a plan  *)
(* is executed under the very policy it was made under.                        *)

\* The rows of a plan had outlived its policy and have ever since.
PlanInv ==
  \A p \in Plans : plan[p] # NoPlan =>
    \A r \in plan[p].candidates : age[r] > RetentionDays[plan[p].policy][ClassOf[r]]

\* A transaction runs under the policy of its plan, which is no dry run; it counts at most
\* the rows it was given, and nothing refers to what it is deleting.
RunInv ==
  \A e \in Executors : Retention!Busy(e) =>
    /\ running[e].under = plan[running[e].plan].policy
    /\ ~ plan[running[e].plan].dry
    /\ running[e].counted + running[e].blocked + Retention!Cardinality(running[e].left)
         <= Retention!Cardinality(KeptRows)
    /\ running[e].deleted \cap pinned = {}

IdleInv == running \in [Executors -> {Retention!Idle} \cup Retention!Transaction]

RetentionInv == Retention!TypeOK /\ IdleInv /\ PlanInv /\ RunInv

\* The instance counts as everybody does.
LEMMA SameCounting ==
  \A S : Retention!IsFiniteSet(S) = IsFiniteSet(S) /\ Retention!Cardinality(S) = Cardinality(S)
  BY DEF Retention!IsFiniteSet, IsFiniteSet, Retention!Cardinality, Cardinality

\* Sets of rows can be counted, and lose one row at a time.
LEMMA RowsAreFinite ==
  ASSUME Retention!RetentionAssumption
  PROVE  /\ Retention!IsFiniteSet(KeptRows) /\ Retention!Cardinality(KeptRows) \in Nat
         /\ \A s \in SUBSET KeptRows :
              /\ Retention!IsFiniteSet(s) /\ Retention!Cardinality(s) \in Nat
              /\ Retention!Cardinality(s) <= Retention!Cardinality(KeptRows)
<1>1. Retention!IsFiniteSet(KeptRows)
  BY DEF Retention!RetentionAssumption
<1>2. Retention!Cardinality(KeptRows) \in Nat
  BY <1>1, FS_CardinalityType, SameCounting
<1>3. ASSUME NEW s \in SUBSET KeptRows
      PROVE  Retention!IsFiniteSet(s) /\ Retention!Cardinality(s) \in Nat
               /\ Retention!Cardinality(s) <= Retention!Cardinality(KeptRows)
  BY <1>1, FS_Subset, FS_CardinalityType, SameCounting
<1> QED BY <1>1, <1>2, <1>3

LEMMA OneLess ==
  ASSUME Retention!RetentionAssumption, NEW s \in SUBSET KeptRows, NEW r \in s
  PROVE  /\ s \ {r} \in SUBSET KeptRows
         /\ Retention!Cardinality(s \ {r}) = Retention!Cardinality(s) - 1
  BY RowsAreFinite, FS_RemoveElement, SameCounting

LEMMA DaysType ==
  ASSUME Retention!RetentionAssumption
  PROVE  /\ DOMAIN RetentionDays \subseteq Nat
         /\ \A v \in DOMAIN RetentionDays, r \in KeptRows : RetentionDays[v][ClassOf[r]] \in Nat
         /\ 0 \in DOMAIN RetentionDays
  BY DEF Retention!RetentionAssumption

\* Nothing is planned and nobody is busy at the start.
LEMMA RetentionInit == ASSUME Retention!RetentionAssumption, Retention!Init PROVE RetentionInv
<1>1. \A e \in Executors : ~ Retention!Busy(e)
  BY DEF Retention!Init, Retention!Busy, Retention!Idle
<1>2. Retention!TypeOK
  BY <1>1, DaysType DEF Retention!Init, Retention!TypeOK, Retention!RetentionAssumption
<1>3. IdleInv
  BY DEF Retention!Init, IdleInv
<1>4. PlanInv
  BY DEF Retention!Init, PlanInv
<1>5. RunInv
  BY <1>1 DEF RunInv
<1> QED BY <1>2, <1>3, <1>4, <1>5 DEF RetentionInv

\* A plan that is made lists rows past their retention; transactions do not notice.
LEMMA CreatePlanInv ==
  ASSUME Retention!RetentionAssumption, RetentionInv, NEW p \in Plans, NEW dry \in BOOLEAN,
         Retention!CreatePlan(p, dry)
  PROVE  RetentionInv'
<1> DEFINE v == IF retentionPolicy = 0 THEN 1 ELSE retentionPolicy
<1>1. PICK candidates \in SUBSET stored, retained \in SUBSET stored :
        /\ Retention!MayList(candidates, Retention!Eligible(v, retained))
        /\ plan' = [plan EXCEPT ![p] = [policy |-> v, dry |-> dry, candidates |-> candidates]]
  BY DEF Retention!CreatePlan
<1>2. v \in DOMAIN RetentionDays /\ retentionPolicy' = v /\ plan[p] = NoPlan
      /\ UNCHANGED <<stored, age, pinned, lapsed, execution, running>>
  BY DEF Retention!CreatePlan
<1>3. \A e \in Executors : Retention!Busy(e) => plan'[running[e].plan] = plan[running[e].plan]
  BY <1>1, <1>2 DEF RetentionInv, Retention!TypeOK, Retention!Transaction
<1>4. plan'[p] = [policy |-> v, dry |-> dry, candidates |-> candidates] 
      /\ \A q \in Plans \ {p} : plan'[q] = plan[q]
  BY <1>1 DEF RetentionInv, Retention!TypeOK
<1>5. \A r \in candidates : age[r] > RetentionDays[v][ClassOf[r]]
  BY <1>1 DEF Retention!MayList, Retention!Eligible
<1>6. [policy |-> v, dry |-> dry, candidates |-> candidates] # NoPlan
  BY <1>2, DaysType DEF Retention!RetentionAssumption, RetentionInv, Retention!TypeOK
<1>7. Retention!TypeOK'
  <2>1. plan' \in [Plans -> {NoPlan} \cup
                     [policy : DOMAIN RetentionDays, dry : BOOLEAN, candidates : SUBSET KeptRows]]
    BY <1>1, <1>2 DEF RetentionInv, Retention!TypeOK
  <2>2. \A e \in Executors : Retention!Busy(e)' <=> Retention!Busy(e)
    BY <1>2 DEF Retention!Busy
  <2>3. Retention!Transaction' = Retention!Transaction
    BY <1>2 DEF Retention!Transaction
  <2>4. \A e \in Executors : Retention!Busy(e)' => plan'[running[e].plan] # NoPlan
    BY <1>3, <2>2 DEF RetentionInv, Retention!TypeOK
  <2> QED BY <1>2, <1>3, <2>1, <2>2, <2>3, <2>4 DEF RetentionInv, Retention!TypeOK
<1>8. IdleInv'
  BY <1>2 DEF RetentionInv, IdleInv, Retention!Transaction
<1>9. PlanInv'
  BY <1>2, <1>4, <1>5 DEF RetentionInv, PlanInv
<1>10. RunInv'
  BY <1>2, <1>3 DEF RetentionInv, RunInv, Retention!Busy
<1> QED BY <1>7, <1>8, <1>9, <1>10 DEF RetentionInv

\* An execution starts with all rows of its plan before it.
LEMMA StartInv ==
  ASSUME Retention!RetentionAssumption, RetentionInv, NEW e \in Executors, NEW p \in Plans,
         Retention!StartExecution(e, p)
  PROVE  RetentionInv'
<1> DEFINE begun == [plan |-> p, left |-> plan[p].candidates, deleted |-> {}, counted |-> 0,
                     blocked |-> 0, under |-> retentionPolicy]
<1>1. /\ plan[p] # NoPlan /\ ~ plan[p].dry /\ plan[p].policy = retentionPolicy
      /\ running' = [running EXCEPT ![e] = begun]
      /\ UNCHANGED <<stored, age, pinned, retentionPolicy, plan, lapsed, execution>>
  BY DEF Retention!StartExecution, Retention!MayExecute
<1>2. running'[e] = begun /\ \A f \in Executors \ {e} : running'[f] = running[f]
  BY <1>1 DEF RetentionInv, IdleInv
<1>3. plan[p].candidates \in SUBSET KeptRows /\ retentionPolicy \in DOMAIN RetentionDays
  BY <1>1 DEF RetentionInv, Retention!TypeOK
<1>4. begun \in Retention!Transaction
  BY <1>3, RowsAreFinite DEF Retention!Transaction
<1>5. Retention!Transaction' = Retention!Transaction
  BY <1>1 DEF Retention!Transaction
<1>6. \A f \in Executors \ {e} : Retention!Busy(f)' <=> Retention!Busy(f)
  BY <1>2 DEF Retention!Busy
<1>7. Retention!TypeOK'
  <2>1. ASSUME NEW f \in Executors, Retention!Busy(f)'
        PROVE  /\ running'[f] \in Retention!Transaction'
               /\ plan'[running'[f].plan] # NoPlan
               /\ running'[f].left \cup running'[f].deleted
                    \subseteq plan'[running'[f].plan].candidates
               /\ \A g \in Executors \ {f} :
                    Retention!Busy(g)' => running'[f].deleted \cap running'[g].deleted = {}
    BY <1>1, <1>2, <1>4, <1>5, <1>6, <2>1 DEF RetentionInv, Retention!TypeOK
  <2> QED BY <1>1, <2>1 DEF RetentionInv, Retention!TypeOK
<1>8. IdleInv'
  BY <1>1, <1>4, <1>5 DEF RetentionInv, IdleInv
<1>9. PlanInv'
  BY <1>1 DEF RetentionInv, PlanInv
<1>10. RunInv'
  BY <1>1, <1>2, <1>3, <1>6, RowsAreFinite DEF RetentionInv, RunInv
<1> QED BY <1>7, <1>8, <1>9, <1>10 DEF RetentionInv

\* What the three steps of the loop have in common: one row fewer is left, it may be among
\* the deleted ones, and the counts grow by at most one.
LEMMA LoopInv ==
  ASSUME Retention!RetentionAssumption, RetentionInv, NEW e \in Executors, Retention!Busy(e),
         NEW r \in running[e].left,
         NEW deleted, deleted = running[e].deleted \/ deleted = running[e].deleted \cup {r},
         NEW counted \in Nat, NEW blocked \in Nat,
         counted + blocked <= running[e].counted + running[e].blocked + 1,
         deleted \subseteq stored, deleted \cap pinned = {},
         \A f \in Executors \ {e} : Retention!Busy(f) => deleted \cap running[f].deleted = {},
         running' = [running EXCEPT ![e] =
           [plan |-> running[e].plan, left |-> running[e].left \ {r}, deleted |-> deleted,
            counted |-> counted, blocked |-> blocked, under |-> running[e].under]],
         UNCHANGED <<stored, age, pinned, retentionPolicy, plan, lapsed, execution>>
  PROVE  RetentionInv'
<1> DEFINE p == running[e].plan
           next == [plan |-> p, left |-> running[e].left \ {r}, deleted |-> deleted,
                    counted |-> counted, blocked |-> blocked, under |-> running[e].under]
<1>1. running[e] \in Retention!Transaction /\ p \in Plans /\ p # NoPlan
  BY DEF RetentionInv, Retention!TypeOK, Retention!Transaction, Retention!Busy
<1>2. running'[e] = next /\ \A f \in Executors \ {e} : running'[f] = running[f]
  BY DEF RetentionInv, IdleInv
<1>3. running[e].left \in SUBSET KeptRows
  BY <1>1 DEF Retention!Transaction
<1>4. Retention!Cardinality(running[e].left \ {r}) = Retention!Cardinality(running[e].left) - 1
      /\ running[e].left \ {r} \in SUBSET KeptRows
      /\ Retention!Cardinality(running[e].left) \in Nat
      /\ Retention!Cardinality(running[e].left \ {r}) \in Nat
      /\ Retention!Cardinality(KeptRows) \in Nat
  BY <1>3, OneLess, RowsAreFinite
<1>5. running[e].counted \in Nat /\ running[e].blocked \in Nat
      /\ counted + blocked + Retention!Cardinality(running[e].left \ {r})
           <= Retention!Cardinality(KeptRows)
  <2>1. running[e].counted + running[e].blocked + Retention!Cardinality(running[e].left)
          <= Retention!Cardinality(KeptRows)
    BY DEF RetentionInv, RunInv
  <2>2. running[e].counted \in Nat /\ running[e].blocked \in Nat
    BY <1>1, <1>4 DEF Retention!Transaction
  <2> QED BY <1>4, <2>1, <2>2
<1>6. next \in Retention!Transaction
  <2>1. counted \in 0 .. Retention!Cardinality(KeptRows)
          /\ blocked \in 0 .. Retention!Cardinality(KeptRows)
    BY <1>4, <1>5
  <2> QED BY <1>1, <1>4, <2>1 DEF Retention!Transaction
<1>7. Retention!Transaction' = Retention!Transaction
  BY DEF Retention!Transaction
<1>8. \A f \in Executors : Retention!Busy(f)' <=> Retention!Busy(f)
  BY <1>2 DEF Retention!Busy
<1>9. Retention!TypeOK'
  <2>1. ASSUME NEW f \in Executors, Retention!Busy(f)'
        PROVE  /\ running'[f] \in Retention!Transaction'
               /\ plan'[running'[f].plan] # NoPlan
               /\ running'[f].left \cup running'[f].deleted
                    \subseteq plan'[running'[f].plan].candidates
               /\ \A g \in Executors \ {f} :
                    Retention!Busy(g)' => running'[f].deleted \cap running'[g].deleted = {}
    <3>1. CASE f = e
      <4>1. running[e].left \cup running[e].deleted \subseteq plan[p].candidates
        BY DEF RetentionInv, Retention!TypeOK
      <4>2. next.left \cup next.deleted \subseteq plan[p].candidates
        BY <4>1
      <4>3. plan[p] # NoPlan
        BY DEF RetentionInv, Retention!TypeOK
      <4>4. \A g \in Executors \ {e} : Retention!Busy(g)' => deleted \cap running'[g].deleted = {}
        BY <1>2, <1>8
      <4> QED BY <1>2, <1>6, <1>7, <3>1, <4>2, <4>3, <4>4
    <3>2. CASE f # e
      <4>1. running'[f] = running[f] /\ Retention!Busy(f)
        BY <1>2, <1>8, <2>1, <3>2
      <4>2. ASSUME NEW g \in Executors \ {f}, Retention!Busy(g)'
            PROVE  running'[f].deleted \cap running'[g].deleted = {}
        <5>1. CASE g = e
          BY <1>2, <3>2, <4>1, <5>1
        <5>2. CASE g # e
          BY <1>2, <1>8, <4>1, <4>2, <5>2 DEF RetentionInv, Retention!TypeOK
        <5> QED BY <5>1, <5>2
      <4>3. /\ running[f] \in Retention!Transaction /\ plan[running[f].plan] # NoPlan
            /\ running[f].left \cup running[f].deleted \subseteq plan[running[f].plan].candidates
        BY <4>1 DEF RetentionInv, Retention!TypeOK
      <4> QED BY <1>7, <4>1, <4>2, <4>3
    <3> QED BY <3>1, <3>2
  <2> QED BY <2>1 DEF RetentionInv, Retention!TypeOK
<1>10. IdleInv'
  BY <1>2, <1>6, <1>7 DEF RetentionInv, IdleInv
<1>11. PlanInv'
  BY DEF RetentionInv, PlanInv
<1>12. RunInv'
  <2>1. ASSUME NEW f \in Executors, Retention!Busy(f)'
        PROVE  /\ running'[f].under = plan[running'[f].plan].policy
               /\ ~ plan[running'[f].plan].dry
               /\ running'[f].counted + running'[f].blocked
                    + Retention!Cardinality(running'[f].left) <= Retention!Cardinality(KeptRows)
               /\ running'[f].deleted \cap pinned = {}
    <3>1. CASE f = e
      <4>1. running[e].under = plan[p].policy /\ ~ plan[p].dry
        BY DEF RetentionInv, RunInv
      <4>2. next.under = running[e].under /\ next.deleted = deleted
            /\ next.counted = counted /\ next.blocked = blocked
            /\ next.left = running[e].left \ {r} /\ next.plan = p
        OBVIOUS
      <4>3. next.deleted \cap pinned = {}
        BY <4>2
      <4> QED BY <1>2, <1>5, <3>1, <4>1, <4>2, <4>3
    <3>2. CASE f # e
      BY <1>2, <1>8, <2>1, <3>2 DEF RetentionInv, RunInv
    <3> QED BY <3>1, <3>2
  <2> QED BY <2>1 DEF RunInv
<1> QED BY <1>9, <1>10, <1>11, <1>12 DEF RetentionInv

\* A transaction in flight is a record of its kind.
LEMMA BusyType ==
  ASSUME Retention!RetentionAssumption, RetentionInv, NEW e \in Executors, Retention!Busy(e)
  PROVE  /\ running[e] \in Retention!Transaction
         /\ running[e].counted \in Nat /\ running[e].blocked \in Nat
         /\ running[e].deleted \subseteq stored /\ running[e].deleted \cap pinned = {}
         /\ \A f \in Executors \ {e} :
              Retention!Busy(f) => running[e].deleted \cap running[f].deleted = {}
  BY RowsAreFinite DEF RetentionInv, Retention!TypeOK, RunInv, Retention!Transaction

LEMMA SkipInv ==
  ASSUME Retention!RetentionAssumption, RetentionInv, NEW e \in Executors, NEW r \in KeptRows,
         Retention!SkipMissing(e, r)
  PROVE  RetentionInv'
<1>1. Retention!Busy(e) /\ r \in running[e].left
  BY DEF Retention!SkipMissing, Retention!NextRow
<1>2. running' = [running EXCEPT ![e] =
        [plan |-> running[e].plan, left |-> running[e].left \ {r},
         deleted |-> running[e].deleted, counted |-> running[e].counted,
         blocked |-> running[e].blocked, under |-> running[e].under]]
  <2>1. running[e] \in Retention!Transaction
    BY <1>1, BusyType
  <2>2. [running[e] EXCEPT !.left = @ \ {r}] =
          [plan |-> running[e].plan, left |-> running[e].left \ {r},
           deleted |-> running[e].deleted, counted |-> running[e].counted,
           blocked |-> running[e].blocked, under |-> running[e].under]
    BY <2>1 DEF Retention!Transaction
  <2>3. running' = [running EXCEPT ![e] = [running[e] EXCEPT !.left = @ \ {r}]]
    BY DEF Retention!SkipMissing
  <2> QED BY <2>2, <2>3
<1>3. UNCHANGED <<stored, age, pinned, retentionPolicy, plan, lapsed, execution>>
  BY DEF Retention!SkipMissing
<1>4. running[e].counted \in Nat /\ running[e].blocked \in Nat
      /\ running[e].counted + running[e].blocked <= running[e].counted + running[e].blocked + 1
  BY <1>1, BusyType
<1> QED BY <1>1, <1>2, <1>3, <1>4, BusyType, LoopInv

LEMMA DeleteInv ==
  ASSUME Retention!RetentionAssumption, RetentionInv, NEW e \in Executors, NEW r \in KeptRows,
         Retention!DeleteRow(e, r)
  PROVE  RetentionInv'
<1> DEFINE deleted == running[e].deleted \cup {r}
<1>1. Retention!Busy(e) /\ r \in running[e].left /\ r \in stored /\ r \notin pinned
        /\ ~ Retention!HeldByOther(e, r)
      /\ UNCHANGED <<stored, age, pinned, retentionPolicy, plan, lapsed, execution>>
  BY DEF Retention!DeleteRow, Retention!NextRow
<1>2. running' = [running EXCEPT ![e] =
        [plan |-> running[e].plan, left |-> running[e].left \ {r}, deleted |-> deleted,
         counted |-> running[e].counted + 1, blocked |-> running[e].blocked,
         under |-> running[e].under]]
  BY <1>1, BusyType DEF Retention!DeleteRow, Retention!Transaction, RetentionInv, IdleInv
<1>3. \A f \in Executors \ {e} : Retention!Busy(f) => deleted \cap running[f].deleted = {}
  BY <1>1, BusyType DEF Retention!HeldByOther
<1>4. deleted \subseteq stored /\ deleted \cap pinned = {}
  BY <1>1, BusyType
<1>5. running[e].counted + 1 \in Nat /\ running[e].blocked \in Nat
      /\ running[e].counted + 1 + running[e].blocked
           <= running[e].counted + running[e].blocked + 1
  BY <1>1, BusyType
<1> QED BY <1>1, <1>2, <1>3, <1>4, <1>5, LoopInv

LEMMA BlockInv ==
  ASSUME Retention!RetentionAssumption, RetentionInv, NEW e \in Executors, NEW r \in KeptRows,
         Retention!BlockRow(e, r)
  PROVE  RetentionInv'
<1>1. Retention!Busy(e) /\ r \in running[e].left
      /\ UNCHANGED <<stored, age, pinned, retentionPolicy, plan, lapsed, execution>>
  BY DEF Retention!BlockRow, Retention!NextRow
<1>2. running' = [running EXCEPT ![e] =
        [plan |-> running[e].plan, left |-> running[e].left \ {r},
         deleted |-> running[e].deleted, counted |-> running[e].counted,
         blocked |-> running[e].blocked + 1, under |-> running[e].under]]
  BY <1>1, BusyType DEF Retention!BlockRow, Retention!Transaction, RetentionInv, IdleInv
<1>3. running[e].blocked + 1 \in Nat
      /\ running[e].counted + (running[e].blocked + 1)
           <= running[e].counted + running[e].blocked + 1
  BY <1>1, BusyType
<1> QED BY <1>1, <1>2, <1>3, BusyType, LoopInv

\* The commit takes the rows of one transaction away: the others delete other rows, and
\* nothing refers to the ones that go.
LEMMA CommitInv ==
  ASSUME Retention!RetentionAssumption, RetentionInv, NEW e \in Executors, Retention!Commit(e)
  PROVE  RetentionInv'
<1> DEFINE p == running[e].plan
           counts == [deleted |-> running[e].counted, blocked |-> running[e].blocked]
<1>1. Retention!Busy(e) /\ stored' = stored \ running[e].deleted
      /\ execution' = [execution EXCEPT ![p] = counts]
      /\ running' = [running EXCEPT ![e] = Retention!Idle]
      /\ UNCHANGED <<age, pinned, retentionPolicy, plan, lapsed>>
  BY DEF Retention!Commit
<1>2. running'[e] = Retention!Idle /\ \A f \in Executors \ {e} : running'[f] = running[f]
  BY <1>1 DEF RetentionInv, IdleInv
<1>3. ~ Retention!Busy(e)' /\ \A f \in Executors \ {e} : Retention!Busy(f)' <=> Retention!Busy(f)
  BY <1>2 DEF Retention!Busy, Retention!Idle
<1>4. counts \in [deleted : 0 .. Retention!Cardinality(KeptRows), blocked :
        0 .. Retention!Cardinality(KeptRows)]
  BY <1>1, BusyType DEF Retention!Transaction
<1>5. \A f \in Executors \ {e} : Retention!Busy(f) => running[f] \in Retention!Transaction'
  BY <1>1, BusyType DEF Retention!Transaction
<1>6. Retention!TypeOK'
  <2>1. stored' \subseteq KeptRows /\ pinned \subseteq stored'
    BY <1>1, BusyType DEF RetentionInv, Retention!TypeOK
  <2>2. execution' \in [Plans -> {NoResult} \cup
          [deleted : 0 .. Retention!Cardinality(KeptRows), blocked :
            0 .. Retention!Cardinality(KeptRows)]]
    BY <1>1, <1>4 DEF RetentionInv, Retention!TypeOK
  <2>3. ASSUME NEW f \in Executors, Retention!Busy(f)'
        PROVE  /\ running'[f] \in Retention!Transaction'
               /\ plan[running'[f].plan] # NoPlan
               /\ running'[f].left \cup running'[f].deleted
                    \subseteq plan[running'[f].plan].candidates
               /\ \A g \in Executors \ {f} :
                    Retention!Busy(g)' => running'[f].deleted \cap running'[g].deleted = {}
    <3>1. f # e /\ Retention!Busy(f) /\ running'[f] = running[f]
      BY <1>2, <1>3, <2>3
    <3>2. ASSUME NEW g \in Executors \ {f}, Retention!Busy(g)'
          PROVE  running[f].deleted \cap running'[g].deleted = {}
      BY <1>2, <1>3, <3>1, <3>2, BusyType
    <3>3. /\ plan[running[f].plan] # NoPlan
          /\ running[f].left \cup running[f].deleted \subseteq plan[running[f].plan].candidates
      BY <3>1 DEF RetentionInv, Retention!TypeOK
    <3> QED BY <1>5, <3>1, <3>2, <3>3
  <2> QED BY <1>1, <2>1, <2>2, <2>3 DEF RetentionInv, Retention!TypeOK
<1>7. IdleInv'
  <2>1. \A f \in Executors \ {e} : running[f] = Retention!Idle \/ Retention!Busy(f)
    <3>1. \A x \in Retention!Transaction : x.plan \in Plans
      BY DEF Retention!Transaction
    <3>2. NoPlan \notin Plans
      BY DEF Retention!RetentionAssumption
    <3> QED BY <3>1, <3>2 DEF RetentionInv, IdleInv, Retention!Busy
  <2> QED BY <1>1, <1>2, <1>5, <2>1 DEF RetentionInv, IdleInv
<1>8. PlanInv'
  BY <1>1 DEF RetentionInv, PlanInv
<1>9. RunInv'
  BY <1>1, <1>2, <1>3 DEF RetentionInv, RunInv
<1> QED BY <1>6, <1>7, <1>8, <1>9 DEF RetentionInv

LEMMA RollbackInv ==
  ASSUME Retention!RetentionAssumption, RetentionInv, NEW e \in Executors, Retention!Rollback(e)
  PROVE  RetentionInv'
<1>1. Retention!Busy(e) /\ running' = [running EXCEPT ![e] = Retention!Idle]
      /\ UNCHANGED <<stored, age, pinned, retentionPolicy, plan, lapsed, execution>>
  BY DEF Retention!Rollback
<1>2. running'[e] = Retention!Idle /\ \A f \in Executors \ {e} : running'[f] = running[f]
  BY <1>1 DEF RetentionInv, IdleInv
<1>3. ~ Retention!Busy(e)' /\ \A f \in Executors \ {e} : Retention!Busy(f)' <=> Retention!Busy(f)
  BY <1>2 DEF Retention!Busy, Retention!Idle
<1>4. Retention!Transaction' = Retention!Transaction
  BY <1>1 DEF Retention!Transaction
<1>5. Retention!TypeOK'
  <2>1. ASSUME NEW f \in Executors, Retention!Busy(f)'
        PROVE  /\ running'[f] \in Retention!Transaction
               /\ plan[running'[f].plan] # NoPlan
               /\ running'[f].left \cup running'[f].deleted
                    \subseteq plan[running'[f].plan].candidates
               /\ \A g \in Executors \ {f} :
                    Retention!Busy(g)' => running'[f].deleted \cap running'[g].deleted = {}
    BY <1>2, <1>3, <2>1 DEF RetentionInv, Retention!TypeOK
  <2> QED BY <1>1, <1>4, <2>1 DEF RetentionInv, Retention!TypeOK
<1>6. IdleInv'
  BY <1>1, <1>4 DEF RetentionInv, IdleInv
<1>7. PlanInv' /\ RunInv'
  BY <1>1, <1>2, <1>3 DEF RetentionInv, PlanInv, RunInv
<1> QED BY <1>5, <1>6, <1>7 DEF RetentionInv

\* Steps that leave rows, plans and transactions alone.
LEMMA RetentionEnvironmentInv ==
  ASSUME Retention!RetentionAssumption, RetentionInv,
         UNCHANGED <<stored, plan, execution, running>>,
         retentionPolicy' \in DOMAIN RetentionDays, lapsed' \subseteq Plans,
         age' \in [KeptRows -> 0 .. MaxAge], \A r \in KeptRows : age'[r] >= age[r],
         pinned' \subseteq stored,
         \A e \in Executors : Retention!Busy(e) => running[e].deleted \cap pinned' = {}
  PROVE  RetentionInv'
<1>1. \A e \in Executors : Retention!Busy(e)' <=> Retention!Busy(e)
  BY DEF Retention!Busy
<1>2. Retention!Transaction' = Retention!Transaction
  BY DEF Retention!Transaction
<1>3. Retention!TypeOK'
  BY <1>1, <1>2 DEF RetentionInv, Retention!TypeOK
<1>4. IdleInv'
  BY <1>2 DEF RetentionInv, IdleInv
<1>5. PlanInv'
  <2> SUFFICES ASSUME NEW p \in Plans, plan[p] # NoPlan, NEW r \in plan[p].candidates
               PROVE  age'[r] > RetentionDays[plan[p].policy][ClassOf[r]]
    BY DEF PlanInv
  <2>1. r \in KeptRows /\ RetentionDays[plan[p].policy][ClassOf[r]] \in Nat
    BY DaysType DEF RetentionInv, Retention!TypeOK
  <2>2. age[r] > RetentionDays[plan[p].policy][ClassOf[r]]
    BY DEF RetentionInv, PlanInv
  <2>3. age[r] \in Nat /\ age'[r] \in Nat /\ age'[r] >= age[r]
    BY <2>1 DEF RetentionInv, Retention!TypeOK
  <2> QED BY <2>1, <2>2, <2>3
<1>6. RunInv'
  BY <1>1 DEF RetentionInv, RunInv
<1> QED BY <1>3, <1>4, <1>5, <1>6 DEF RetentionInv

LEMMA RetentionOthersInv ==
  ASSUME Retention!RetentionAssumption, RetentionInv,
         \/ Retention!ChangePolicy
         \/ \E r \in KeptRows : Retention!GrowOld(r) \/ Retention!Refer(r)
         \/ \E p \in Plans : Retention!Lapse(p)
  PROVE  RetentionInv'
<1>1. /\ retentionPolicy \in DOMAIN RetentionDays /\ lapsed \subseteq Plans
      /\ age \in [KeptRows -> 0 .. MaxAge]
      /\ MaxAge \in Nat /\ pinned \subseteq stored
      /\ \A e \in Executors : Retention!Busy(e) => running[e].deleted \cap pinned = {}
  BY DEF RetentionInv, Retention!TypeOK, RunInv, Retention!RetentionAssumption
<1>2. \A r \in KeptRows : age[r] \in Nat /\ age[r] >= age[r]
  BY <1>1
<1>3. CASE Retention!ChangePolicy
  BY <1>1, <1>2, <1>3, RetentionEnvironmentInv DEF Retention!ChangePolicy
<1>4. ASSUME NEW r \in KeptRows, Retention!GrowOld(r) PROVE RetentionInv'
  <2>1. age' \in [KeptRows -> 0 .. MaxAge] /\ \A q \in KeptRows : age'[q] >= age[q]
    BY <1>1, <1>2, <1>4 DEF Retention!GrowOld
  <2> QED BY <1>1, <1>4, <2>1, RetentionEnvironmentInv DEF Retention!GrowOld
<1>5. ASSUME NEW r \in KeptRows, Retention!Refer(r) PROVE RetentionInv'
  BY <1>1, <1>2, <1>5, RetentionEnvironmentInv DEF Retention!Refer
<1>6. ASSUME NEW p \in Plans, Retention!Lapse(p) PROVE RetentionInv'
  BY <1>1, <1>2, <1>6, RetentionEnvironmentInv DEF Retention!Lapse
<1> QED BY <1>3, <1>4, <1>5, <1>6

LEMMA RetentionNext ==
  ASSUME Retention!RetentionAssumption, RetentionInv, [Retention!Next]_(Retention!vars)
  PROVE  RetentionInv'
<1>1. CASE Retention!Next
  BY <1>1, CreatePlanInv, StartInv, SkipInv, DeleteInv, BlockInv, CommitInv, RollbackInv,
     RetentionOthersInv DEF Retention!Next
<1>2. CASE UNCHANGED Retention!vars
  BY <1>2 DEF Retention!vars, RetentionInv, Retention!TypeOK, IdleInv, PlanInv, RunInv,
    Retention!Busy, Retention!Transaction
<1> QED BY <1>1, <1>2

\* Transactions delete different rows, all of their plan and past its retention, and nothing
\* refers to these rows until the commit (organizations/operational_services.py,
\* execute_retention_deletion_plan).
THEOREM RetentionInvariant == Retention!Spec => []RetentionInv
<1>1. Retention!Init => RetentionInv
  BY RetentionInit, RetentionAssumed
<1>2. RetentionInv /\ [Retention!Next]_(Retention!vars) => RetentionInv'
  BY RetentionNext, RetentionAssumed
<1> QED BY <1>1, <1>2, PTL DEF Retention!Spec

\* Only a commit takes rows away, and only those its plan warrants.
LEMMA DeletionStep ==
  ASSUME Retention!RetentionAssumption, RetentionInv, [Retention!Next]_(Retention!vars),
         NEW r \in stored \ stored'
  PROVE  \E e \in Executors :
           /\ Retention!Busy(e) /\ r \in running[e].deleted
           /\ execution'[running[e].plan] # NoResult
           /\ ~ plan[running[e].plan].dry /\ r \in plan[running[e].plan].candidates
           /\ age[r] > RetentionDays[running[e].under][ClassOf[r]]
<1>1. PICK e \in Executors : Retention!Commit(e)
  <2>1. stored' # stored
    OBVIOUS
  <2> QED BY <2>1 DEF Retention!Next, Retention!vars, Retention!CreatePlan,
        Retention!StartExecution, Retention!SkipMissing, Retention!DeleteRow, Retention!BlockRow,
        Retention!Rollback, Retention!ChangePolicy, Retention!GrowOld, Retention!Refer,
        Retention!Lapse
<1>2. Retention!Busy(e) /\ r \in running[e].deleted
  BY <1>1 DEF Retention!Commit
<1>3. running[e].plan \in Plans /\ plan[running[e].plan] # NoPlan
      /\ r \in plan[running[e].plan].candidates
  BY <1>2 DEF RetentionInv, Retention!TypeOK, Retention!Transaction
<1>4. execution'[running[e].plan] # NoResult
  <2>1. execution'[running[e].plan] =
          [deleted |-> running[e].counted, blocked |-> running[e].blocked]
    BY <1>1, <1>3 DEF Retention!Commit, RetentionInv, Retention!TypeOK
  <2> QED BY <1>2, <2>1, BusyType DEF Retention!RetentionAssumption
<1>5. ~ plan[running[e].plan].dry /\ running[e].under = plan[running[e].plan].policy
  BY <1>2 DEF RetentionInv, RunInv
<1>6. age[r] > RetentionDays[running[e].under][ClassOf[r]]
  BY <1>3, <1>5 DEF RetentionInv, PlanInv
<1> QED BY <1>2, <1>3, <1>4, <1>5, <1>6

\* A row goes only with the commit of an execution of a plan that lists it and is no dry run,
\* and only past the retention of the policy in force when the execution began: the first
\* half of DeletionIsGoverned (organizations/operational_services.py).
THEOREM DeletionIsWarranted == Retention!Spec => Retention!DeletionWasWarranted
<1>1. RetentionInv /\ [Retention!Next]_(Retention!vars) =>
        [\A r \in stored \ stored' :
           \E e \in Executors :
             /\ Retention!Busy(e) /\ r \in running[e].deleted
             /\ execution'[running[e].plan] # NoResult
             /\ ~ plan[running[e].plan].dry /\ r \in plan[running[e].plan].candidates
             /\ age[r] > RetentionDays[running[e].under][ClassOf[r]]]_(Retention!vars)
  BY DeletionStep, RetentionAssumed
<1> QED BY <1>1, RetentionInvariant, PTL DEF Retention!Spec, Retention!DeletionWasWarranted

\* What the executions have reported: a weight for each plan whose result is stored.
Done == {p \in Plans : execution[p] # NoResult}
Deleted == [p \in Plans |-> IF p \in Done THEN execution[p].deleted ELSE 0]

\* What a transaction is going to report: its plan has no result and no other execution, it
\* counted each row it deletes once, and it blocked what it passed and leaves.
Passed(e) == ((plan[running[e].plan].candidates \cap stored) \ running[e].left) \ running[e].deleted
Counts(e) ==
  Retention!Busy(e) =>
    /\ running[e].plan \notin Done
    /\ \A f \in Executors \ {e} : running[f].plan # running[e].plan
    /\ running[e].left \cap running[e].deleted = {}
    /\ running[e].counted = Cardinality(running[e].deleted)
    /\ running[e].blocked >= Cardinality(Passed(e))

\* What was reported is what is gone and what stays.
Accounted ==
  /\ SumOf(Deleted, Done) = Cardinality(KeptRows \ stored)
  /\ \A p \in Done : execution[p].blocked >= Cardinality(plan[p].candidates \cap stored)

TallyInv ==
  /\ IsFiniteSet(Done) /\ \A p \in Done : plan[p] # NoPlan
  /\ \A e \in Executors : Counts(e)
  /\ Accounted

LEMMA RowSets ==
  ASSUME NEW s \in SUBSET KeptRows
  PROVE  /\ IsFiniteSet(s) /\ Cardinality(s) \in Nat
         /\ \A t \in SUBSET s : Cardinality(t) \in Nat /\ Cardinality(t) <= Cardinality(s)
         /\ \A r \in KeptRows \ s : Cardinality(s \cup {r}) = Cardinality(s) + 1
<1>1. IsFiniteSet(s) /\ Cardinality(s) \in Nat
  BY RetentionAssumed, RowsAreFinite, SameCounting
<1>2. \A t \in SUBSET s : Cardinality(t) \in Nat /\ Cardinality(t) <= Cardinality(s)
  BY <1>1, FS_Subset, FS_CardinalityType
<1>3. \A r \in KeptRows \ s : Cardinality(s \cup {r}) = Cardinality(s) + 1
  BY <1>1, FS_AddElement
<1> QED BY <1>1, <1>2, <1>3

\* What a transaction has passed are rows, and what is reported are numbers.
LEMMA TallyTypes ==
  ASSUME RetentionInv, TallyInv
  PROVE  /\ \A e \in Executors : Retention!Busy(e) =>
              /\ Passed(e) \in SUBSET KeptRows /\ running[e].deleted \in SUBSET KeptRows
              /\ running[e].left \in SUBSET KeptRows
              /\ running[e].counted \in Nat /\ running[e].blocked \in Nat
              /\ running[e].plan \in Plans /\ plan[running[e].plan] # NoPlan
              /\ plan[running[e].plan].candidates \in SUBSET KeptRows
         /\ \A p \in Done : /\ execution[p].deleted \in Nat /\ execution[p].blocked \in Nat
                            /\ plan[p].candidates \in SUBSET KeptRows
         /\ \A p \in DOMAIN Deleted : Deleted[p] \in Nat
         /\ Done \in Summable(Deleted)
<1>1. Retention!Cardinality(KeptRows) \in Nat
  BY RetentionAssumed, RowsAreFinite
<1>2. \A p \in Plans : plan[p] # NoPlan => plan[p].candidates \in SUBSET KeptRows
  BY DEF RetentionInv, Retention!TypeOK
<1>3. ASSUME NEW e \in Executors, Retention!Busy(e)
      PROVE  /\ Passed(e) \in SUBSET KeptRows /\ running[e].deleted \in SUBSET KeptRows
             /\ running[e].left \in SUBSET KeptRows
             /\ running[e].counted \in Nat /\ running[e].blocked \in Nat
             /\ running[e].plan \in Plans /\ plan[running[e].plan] # NoPlan
             /\ plan[running[e].plan].candidates \in SUBSET KeptRows
  BY <1>1, <1>2, <1>3, BusyType, RetentionAssumed
    DEF Passed, RetentionInv, Retention!TypeOK, Retention!Transaction
<1>4. \A p \in Done : execution[p].deleted \in Nat /\ execution[p].blocked \in Nat
  BY <1>1 DEF Done, RetentionInv, Retention!TypeOK
<1>5. \A p \in DOMAIN Deleted : Deleted[p] \in Nat
  BY <1>4 DEF Deleted
<1>6. Done \in Summable(Deleted)
  BY DEF Summable, FiniteSubsetsOf, Deleted, Done, TallyInv
<1>7. \A p \in Done : plan[p].candidates \in SUBSET KeptRows
  BY <1>2 DEF TallyInv, Done
<1> QED BY <1>3, <1>4, <1>5, <1>6, <1>7

LEMMA TallyInit == ASSUME Retention!Init PROVE TallyInv
<1>1. Done = {} /\ \A e \in Executors : ~ Retention!Busy(e)
  BY DEF Retention!Init, Done, Retention!Busy, Retention!Idle
<1>2. Done \in Summable(Deleted)
  BY <1>1, FS_EmptySet DEF Summable, FiniteSubsetsOf
<1>3. SumOf(Deleted, Done) = 0
  BY <1>1, <1>2, SumUnfolds
<1>4. Cardinality(KeptRows \ stored) = 0
  BY FS_EmptySet DEF Retention!Init
<1> QED BY <1>1, <1>3, <1>4, FS_EmptySet DEF TallyInv, Counts, Accounted

\* Steps that store no result and take no row away, and leave the plans with an execution as
\* they are.
LEMMA TallyKept ==
  ASSUME TallyInv, UNCHANGED <<stored, execution>>,
         \A p \in Plans : plan[p] # NoPlan => plan'[p] = plan[p],
         \A e \in Executors : Counts(e)'
  PROVE  TallyInv'
<1>1. Done' = Done /\ Deleted' = Deleted
  BY DEF Done, Deleted
<1>2. \A p \in Done : plan'[p] = plan[p]
  BY DEF Done, TallyInv
<1>3. Accounted'
  BY <1>1, <1>2 DEF TallyInv, Accounted
<1> QED BY <1>1, <1>2, <1>3 DEF TallyInv

LEMMA TallyPlan ==
  ASSUME RetentionInv, TallyInv, NEW p \in Plans, NEW dry \in BOOLEAN, Retention!CreatePlan(p, dry)
  PROVE  TallyInv'
<1>1. \A q \in Plans : plan[q] # NoPlan => plan'[q] = plan[q]
  BY DEF Retention!CreatePlan, RetentionInv, Retention!TypeOK
<1>2. UNCHANGED <<stored, execution, running>>
  BY DEF Retention!CreatePlan
<1>3. ASSUME NEW e \in Executors PROVE Counts(e)'
  BY <1>1, <1>2, TallyTypes DEF TallyInv, Counts, Passed, Done, Retention!Busy
<1> QED BY <1>1, <1>2, <1>3, TallyKept

LEMMA TallyStart ==
  ASSUME RetentionInv, TallyInv, NEW e \in Executors, NEW p \in Plans,
         Retention!StartExecution(e, p)
  PROVE  TallyInv'
<1> DEFINE begun == [plan |-> p, left |-> plan[p].candidates, deleted |-> {}, counted |-> 0,
                     blocked |-> 0, under |-> retentionPolicy]
<1>1. /\ plan[p] # NoPlan /\ execution[p] = NoResult /\ ~ Retention!Busy(e)
      /\ \A f \in Executors : running[f].plan # p
      /\ running' = [running EXCEPT ![e] = begun]
      /\ UNCHANGED <<stored, plan, execution>>
  BY DEF Retention!StartExecution
<1>2. running'[e] = begun /\ \A f \in Executors \ {e} : running'[f] = running[f]
  BY <1>1 DEF RetentionInv, IdleInv
<1>3. Counts(e)'
  <2>1. Passed(e)' = {}
    BY <1>1, <1>2 DEF Passed
  <2>2. p \notin Done'
    BY <1>1 DEF Done
  <2> QED BY <1>1, <1>2, <2>1, <2>2, FS_EmptySet DEF Counts
<1>4. ASSUME NEW f \in Executors \ {e} PROVE Counts(f)'
  <2>1. Passed(f)' = Passed(f) /\ Done' = Done
    BY <1>1, <1>2 DEF Passed, Done
  <2> QED BY <1>1, <1>2, <2>1 DEF TallyInv, Counts, Retention!Busy
<1> QED BY <1>1, <1>3, <1>4, TallyKept

\* One row of the loop: it is gone, it is deleted and counted, or it is blocked and counted.
LEMMA TallyRow ==
  ASSUME RetentionInv, TallyInv, NEW e \in Executors, NEW r \in KeptRows,
         \/ Retention!SkipMissing(e, r) \/ Retention!DeleteRow(e, r) \/ Retention!BlockRow(e, r)
  PROVE  TallyInv'
<1>1. /\ Retention!Busy(e) /\ r \in running[e].left
      /\ UNCHANGED <<stored, plan, execution>>
  BY DEF Retention!SkipMissing, Retention!DeleteRow, Retention!BlockRow, Retention!NextRow
<1>2. running[e] \in Retention!Transaction /\ Counts(e)
  BY <1>1, BusyType, RetentionAssumed DEF TallyInv
<1>3. /\ running'[e].plan = running[e].plan /\ running'[e].left = running[e].left \ {r}
      /\ \/ /\ r \notin stored /\ running'[e].deleted = running[e].deleted
            /\ running'[e].counted = running[e].counted
            /\ running'[e].blocked = running[e].blocked
         \/ /\ running'[e].deleted = running[e].deleted \cup {r}
            /\ running'[e].counted = running[e].counted + 1
            /\ running'[e].blocked = running[e].blocked
         \/ /\ running'[e].deleted = running[e].deleted
            /\ running'[e].counted = running[e].counted
            /\ running'[e].blocked = running[e].blocked + 1
  BY <1>2 DEF Retention!SkipMissing, Retention!DeleteRow, Retention!BlockRow, RetentionInv, IdleInv,
    Retention!Transaction
<1>4. \A f \in Executors \ {e} : running'[f] = running[f]
  BY DEF Retention!SkipMissing, Retention!DeleteRow, Retention!BlockRow, RetentionInv, IdleInv
<1>5. /\ Passed(e) \in SUBSET KeptRows /\ running[e].deleted \in SUBSET KeptRows
      /\ running[e].blocked \in Nat /\ running[e].counted \in Nat
  BY <1>1, TallyTypes
<1>6. \/ Passed(e)' = Passed(e)
      \/ Passed(e)' = Passed(e) \cup {r} /\ r \notin Passed(e)
           /\ running'[e].blocked = running[e].blocked + 1
  BY <1>1, <1>3 DEF Passed
<1>7. running'[e].blocked >= Cardinality(Passed(e)')
  <2>1. Cardinality(Passed(e)) \in Nat /\ running[e].blocked >= Cardinality(Passed(e))
    BY <1>1, <1>2, <1>5, RowSets DEF Counts
  <2>2. r \notin Passed(e) => Cardinality(Passed(e) \cup {r}) = Cardinality(Passed(e)) + 1
    BY <1>5, RowSets
  <2>3. PICK b \in Nat, n \in Nat : b = running[e].blocked /\ n = Cardinality(Passed(e)) /\ b >= n
    BY <1>5, <2>1
  <2>4. running'[e].blocked = b \/ running'[e].blocked = b + 1
    BY <1>3, <2>3
  <2>5. \/ Cardinality(Passed(e)') = n
        \/ Cardinality(Passed(e)') = n + 1 /\ running'[e].blocked = b + 1
    BY <1>6, <2>2, <2>3
  <2> QED BY <2>3, <2>4, <2>5
<1>8. running'[e].counted = Cardinality(running'[e].deleted)
  <2>1. r \notin running[e].deleted
    BY <1>1, <1>2 DEF Counts
  <2>2. Cardinality(running[e].deleted \cup {r}) = Cardinality(running[e].deleted) + 1
    BY <1>5, <2>1, RowSets
  <2> QED BY <1>1, <1>2, <1>3, <2>2 DEF Counts
<1>9. Done' = Done
  BY <1>1 DEF Done
<1>10. Counts(e)'
  <2>1. running'[e].left \cap running'[e].deleted = {}
    BY <1>1, <1>2, <1>3 DEF Counts
  <2>2. /\ running'[e].plan \notin Done'
        /\ \A f \in Executors \ {e} : running'[f].plan # running'[e].plan
    BY <1>1, <1>2, <1>3, <1>4, <1>9 DEF Counts
  <2> QED BY <1>7, <1>8, <2>1, <2>2 DEF Counts
<1>11. ASSUME NEW f \in Executors \ {e} PROVE Counts(f)'
  <2>1. Passed(f)' = Passed(f)
    BY <1>1, <1>4 DEF Passed
  <2> QED BY <1>3, <1>4, <1>9, <2>1 DEF TallyInv, Counts, Retention!Busy
<1> QED BY <1>1, <1>10, <1>11, TallyKept

\* A result is stored with the commit that takes its rows away.
LEMMA TallyCommit ==
  ASSUME RetentionInv, TallyInv, NEW e \in Executors, Retention!Commit(e)
  PROVE  TallyInv'
<1> DEFINE p == running[e].plan
           counts == [deleted |-> running[e].counted, blocked |-> running[e].blocked]
<1>1. /\ Retention!Busy(e) /\ running[e].left = {} /\ stored' = stored \ running[e].deleted
      /\ execution' = [execution EXCEPT ![p] = counts]
      /\ running' = [running EXCEPT ![e] = Retention!Idle] /\ plan' = plan
  BY DEF Retention!Commit
<1>2. Counts(e) /\ p \in Plans /\ plan[p] # NoPlan
      /\ running[e].deleted \in SUBSET stored /\ running[e].deleted \in SUBSET KeptRows
      /\ running[e].counted \in Nat /\ running[e].blocked \in Nat /\ counts # NoResult
  <2>1. NoResult \notin [deleted : Nat, blocked : Nat]
    BY RetentionAssumed DEF Retention!RetentionAssumption
  <2>2. running[e].counted \in Nat /\ running[e].blocked \in Nat
    BY <1>1, BusyType, RetentionAssumed
  <2>3. counts # NoResult
    BY <2>1, <2>2
  <2> QED BY <1>1, <2>2, <2>3, BusyType, TallyTypes, RetentionAssumed DEF TallyInv
<1>3. execution'[p] = counts /\ \A q \in Plans \ {p} : execution'[q] = execution[q]
  BY <1>1, <1>2 DEF RetentionInv, Retention!TypeOK
<1>4. Done' = Done \cup {p} /\ p \notin Done
  BY <1>1, <1>2, <1>3 DEF Done, Counts
<1>5. running'[e] = Retention!Idle /\ \A f \in Executors \ {e} : running'[f] = running[f]
  BY <1>1 DEF RetentionInv, IdleInv
<1>6. ASSUME NEW f \in Executors PROVE Counts(f)'
  <2>1. CASE f = e
    BY <1>5, <2>1 DEF Counts, Retention!Busy, Retention!Idle
  <2>2. CASE f # e /\ Retention!Busy(f)
    <3>1. Passed(f)' \in SUBSET Passed(f) /\ Passed(f) \in SUBSET KeptRows
      BY <1>1, <1>5, <2>2, TallyTypes DEF Passed
    <3>2. /\ Cardinality(Passed(f)') <= Cardinality(Passed(f))
          /\ Cardinality(Passed(f)') \in Nat /\ Cardinality(Passed(f)) \in Nat
      BY <3>1, RowSets
    <3>3. Counts(f) /\ running[f].blocked \in Nat /\ running'[f] = running[f]
      BY <1>5, <2>2, TallyTypes DEF TallyInv
    <3>4. running[f].plan \notin Done' /\ running[f].plan # p /\ Retention!Idle.plan = NoPlan
      BY <1>1, <1>2, <1>4, <2>2, <3>3 DEF Counts, Retention!Idle
    <3>5. \A g \in Executors \ {f} : running'[g].plan # running[f].plan
      BY <1>5, <2>2, <3>3, <3>4 DEF Counts, Retention!Busy
    <3>6. running[f].blocked >= Cardinality(Passed(f)')
      BY <2>2, <3>2, <3>3 DEF Counts
    <3> QED BY <2>2, <3>3, <3>4, <3>5, <3>6 DEF Counts
  <2>3. CASE f # e /\ ~ Retention!Busy(f)
    BY <1>5, <2>3 DEF Counts, Retention!Busy
  <2> QED BY <2>1, <2>2, <2>3
<1>7. IsFiniteSet(Done') /\ \A q \in Done' : plan'[q] # NoPlan
  BY <1>1, <1>2, <1>4, FS_AddElement DEF TallyInv
<1>8. SumOf(Deleted', Done') = Cardinality(KeptRows \ stored')
  <2> DEFINE w == Deleted'
  <2>1. w[p] = running[e].counted /\ \A q \in Done : w[q] = Deleted[q]
    BY <1>2, <1>3, <1>4 DEF Deleted, Done
  <2>2. DOMAIN w = Plans /\ \A x \in DOMAIN w : w[x] \in Nat
    <3>1. \A q \in Plans : w[q] = IF q \in Done' THEN execution'[q].deleted ELSE 0
      BY DEF Deleted
    <3>2. \A q \in Plans : w[q] \in Nat
      BY <1>2, <1>3, <1>4, <3>1, TallyTypes
    <3>. QED BY <3>2 DEF Deleted
  <2> HIDE DEF w
  <2>3. Done' \in Summable(w) /\ Done \in Summable(w)
    BY <1>4, <1>7, <2>2 DEF Summable, FiniteSubsetsOf, TallyInv, Done
  <2>4. SumOf(w, Done') = running[e].counted + SumOf(w, Done)
    <3>1. SumOf(w, Done') = w[p] + SumOf(w, Done' \ {p})
      BY <1>4, <2>2, <2>3, SumWithout
    <3>2. Done' \ {p} = Done
      BY <1>4
    <3> QED BY <2>1, <3>1, <3>2
  <2>5. SumOf(w, Done) = SumOf(Deleted, Done)
    <3>1. Done \in Summable(Deleted)
      BY TallyTypes
    <3>2. PICK h : Sums(h, Deleted, Done)
      BY <3>1, SumsExist
    <3>3. SumOf(Deleted, Done) = h[Done]
      BY <3>1, <3>2, SumIsComputed
    <3>4. SumOf(w, Done) = h[Done]
      BY <2>1, <2>3, <3>2, SumIsComputed
    <3> QED BY <3>3, <3>4
  <2>6. Cardinality(KeptRows \ stored') = Cardinality(running[e].deleted)
                                           + Cardinality(KeptRows \ stored)
    <3> DEFINE gone == KeptRows \ stored
               more == running[e].deleted
    <3>1. KeptRows \ stored' = gone \cup more /\ gone \cap more = {}
      BY <1>1, <1>2
    <3>2. IsFiniteSet(gone) /\ IsFiniteSet(more) /\ Cardinality(gone) \in Nat
          /\ Cardinality(more) \in Nat
      BY <1>2, RowSets
    <3> HIDE DEF gone, more
    <3>3. /\ Cardinality(gone \cup more)
               = Cardinality(gone) + Cardinality(more) - Cardinality(gone \cap more)
          /\ Cardinality(gone \cap more) = 0
      BY <3>1, <3>2, FS_Union, FS_EmptySet
    <3>4. Cardinality(gone \cup more) = Cardinality(more) + Cardinality(gone)
      BY <3>2, <3>3
    <3> QED BY <3>1, <3>4 DEF gone, more
  <2>7. SumOf(w, Done') = Cardinality(KeptRows \ stored')
    BY <1>1, <1>2, <2>4, <2>5, <2>6 DEF TallyInv, Accounted, Counts
  <2> QED BY <2>7 DEF w
<1>9. ASSUME NEW q \in Done'
      PROVE  execution'[q].blocked >= Cardinality(plan'[q].candidates \cap stored')
  <2>1. CASE q = p
    <3>1. plan'[q].candidates \cap stored' = Passed(e)
      BY <1>1, <2>1 DEF Passed
    <3>2. running[e].blocked >= Cardinality(Passed(e))
      BY <1>1, <1>2 DEF Counts
    <3>3. execution'[q].blocked = running[e].blocked
      BY <1>3, <2>1
    <3> QED BY <3>1, <3>2, <3>3
  <2>2. CASE q # p
    <3>1. q \in Done /\ q \in Plans /\ execution'[q] = execution[q]
      BY <1>3, <1>4, <2>2 DEF Done
    <3>2. plan[q].candidates \cap stored \in SUBSET KeptRows
      BY <3>1, TallyTypes
    <3>3. plan'[q].candidates \cap stored' \in SUBSET (plan[q].candidates \cap stored)
      BY <1>1
    <3>4. Cardinality(plan'[q].candidates \cap stored')
            <= Cardinality(plan[q].candidates \cap stored)
          /\ Cardinality(plan'[q].candidates \cap stored') \in Nat
          /\ Cardinality(plan[q].candidates \cap stored) \in Nat
      BY <3>2, <3>3, RowSets
    <3>5. /\ execution[q].blocked \in Nat
          /\ execution[q].blocked >= Cardinality(plan[q].candidates \cap stored)
      BY <3>1, TallyTypes DEF TallyInv, Accounted
    <3> QED BY <3>1, <3>4, <3>5
  <2> QED BY <2>1, <2>2
<1> QED BY <1>6, <1>7, <1>8, <1>9 DEF TallyInv, Accounted

LEMMA TallyRollback ==
  ASSUME RetentionInv, TallyInv, NEW e \in Executors, Retention!Rollback(e)
  PROVE  TallyInv'
<1>1. /\ Retention!Busy(e) /\ running' = [running EXCEPT ![e] = Retention!Idle]
      /\ UNCHANGED <<stored, plan, execution>>
  BY DEF Retention!Rollback
<1>2. running'[e] = Retention!Idle /\ \A f \in Executors \ {e} : running'[f] = running[f]
  BY <1>1 DEF RetentionInv, IdleInv
<1>3. Done' = Done
  BY <1>1 DEF Done
<1>4. ASSUME NEW f \in Executors PROVE Counts(f)'
  <2>1. CASE f = e
    BY <1>2, <2>1 DEF Counts, Retention!Busy, Retention!Idle
  <2>2. CASE f # e
    <3>1. Passed(f)' = Passed(f) /\ Counts(f)
      BY <1>1, <1>2, <2>2 DEF Passed, TallyInv
    <3> QED BY <1>2, <1>3, <2>2, <3>1 DEF Counts, Retention!Busy, Retention!Idle
  <2> QED BY <2>1, <2>2
<1> QED BY <1>1, <1>4, TallyKept

LEMMA TallyNext ==
  ASSUME RetentionInv, TallyInv, [Retention!Next]_(Retention!vars)
  PROVE  TallyInv'
<1>1. ASSUME UNCHANGED <<stored, plan, execution, running>> PROVE TallyInv'
  <2>1. \A e \in Executors : Counts(e)'
    BY <1>1 DEF TallyInv, Counts, Passed, Done, Retention!Busy
  <2> QED BY <1>1, <2>1, TallyKept
<1>2. CASE Retention!ChangePolicy
  BY <1>1, <1>2 DEF Retention!ChangePolicy
<1>3. ASSUME NEW r \in KeptRows, Retention!GrowOld(r) \/ Retention!Refer(r) PROVE TallyInv'
  BY <1>1, <1>3 DEF Retention!GrowOld, Retention!Refer
<1>4. ASSUME NEW p \in Plans, Retention!Lapse(p) PROVE TallyInv'
  BY <1>1, <1>4 DEF Retention!Lapse
<1>5. CASE UNCHANGED Retention!vars
  BY <1>1, <1>5 DEF Retention!vars
<1> QED BY <1>2, <1>3, <1>4, <1>5, TallyPlan, TallyStart, TallyRow, TallyCommit, TallyRollback
      DEF Retention!Next

\* The stored results are the sum and the bounds that ResultsAddUp takes.
LEMMA TallyAddsUp == ASSUME RetentionInv, TallyInv PROVE Retention!ResultsAddUp
<1> DEFINE Folds(g) ==
      g = [R \in SUBSET Done |->
             IF R = {} THEN 0 ELSE execution[First(R)].deleted + g[R \ {First(R)}]]
           total == Retention!MapThenSumSet(LAMBDA p : execution[p].deleted, Done)
<1>1. Done \in Summable(Deleted)
  BY TallyTypes
<1>2. \A R \in SUBSET Done : R # {} => execution[First(R)].deleted = Deleted[First(R)]
  BY DEF First, Deleted, Done
<1>3. ASSUME NEW g PROVE Folds(g) <=> Sums(g, Deleted, Done)
  BY <1>2 DEF Sums
<1>4. total = (CHOOSE g : Folds(g))[Done]
  BY DEF Retention!MapThenSumSet, Retention!MapThenFoldSet, First
<1> HIDE DEF Folds, total
<1>5. \E g : Folds(g)
  BY <1>1, <1>3, SumsExist
<1>6. PICK g : Folds(g) /\ total = g[Done]
  BY <1>4, <1>5
<1>7. total = SumOf(Deleted, Done)
  BY <1>1, <1>3, <1>6, SumIsComputed
<1>8. total = Retention!Cardinality(KeptRows \ stored)
  BY <1>7, SameCounting DEF TallyInv, Accounted
<1>9. \A p \in Done :
        execution[p].blocked >= Retention!Cardinality(plan[p].candidates \cap stored)
  BY SameCounting DEF TallyInv, Accounted
<1> QED BY <1>8, <1>9 DEF Retention!ResultsAddUp, Done, total

\* Rows are deleted as their plan warrants, and the stored results account for every one that
\* is gone and every listed one that stays (organizations/operational_services.py,
\* execute_retention_deletion_plan).
THEOREM DeletionIsAccounted == Retention!Spec => DeletionIsGoverned
<1>1. Retention!Init => TallyInv
  BY TallyInit
<1>2. RetentionInv /\ TallyInv /\ [Retention!Next]_(Retention!vars) => TallyInv'
  BY TallyNext
<1>3. RetentionInv /\ TallyInv => Retention!ResultsAddUp
  BY TallyAddsUp
<1>4. Retention!Spec => []Retention!ResultsAddUp
  BY <1>1, <1>2, <1>3, RetentionInvariant, PTL DEF Retention!Spec
<1> QED BY <1>4, DeletionIsWarranted, PTL DEF DeletionIsGoverned, Retention!DeletionIsGoverned

--------------------------------------------------------------------------------
(* The fixture runner.  The host only reads what the container wrote, and it   *)
(* knows of a container from the moment one may exist.                         *)

\* What the container wrote as its result is what happened in it.
WrittenIsTrue ==
  output = "result" =>
    IF job.kind = "execution"
    THEN \/ isolated = TRUE /\ workload \in Runner!Tests
         \/ isolated = FALSE /\ workload = None
    ELSE /\ isolated \in BOOLEAN
         /\ workload \in [base : Runner!Observations, candidate : Runner!Observations,
                          mutation : Runner!Tests]

\* Which container there is at each step, and that a run ends with a result or an error.
BeforeResult == step \notin {"remove", "done"}
\* At the end a known container has been removed, or the call that should have removed it says
\* why not.
LeftInv ==
  step = "done" =>
    IF known
    THEN /\ removal \in Runner!Answers
         /\ removal = "ok" => container = "removed"
         /\ removal = "failed" /\ result # None => ~ result.cleanup
         /\ removal = "unanswered" => error = "docker_unavailable"
    ELSE result = None /\ (container = "absent" \/ error = "docker_unavailable")
HostInv ==
  /\ hardened \in BOOLEAN
  /\ step \in {"check", "create"} => container = "absent" /\ ~ known
  /\ step \in {"create", "inspect", "start"} => job.valid
  /\ step \in {"inspect", "start"} => container = "created" /\ known
  /\ step = "start" => hardened
  /\ step \in {"wait", "kill"} => container \in {"running", "exited"}
  /\ step = "remove" => known
  /\ BeforeResult => result = None /\ error = None
  /\ ~ BeforeResult => (result = None) # (error = None)
  /\ LeftInv
\* Only a container that could not be killed runs on after there is a result.
ResultInv ==
  /\ result = None \/ result \in Runner!Reports
  /\ result # None =>
       \/ container \in {"exited", "removed"}
       \/ container = "running" /\ job.kind = "execution" /\ result.outcome = "timeout"
  /\ result # None /\ result.cleanup => step = "done" /\ container = "removed"

RunnerInv == Runner!TypeOK /\ HostInv /\ WrittenIsTrue /\ ResultInv /\ Runner!VerdictsAreFair

\* Nothing is neither an error nor a report.
LEMMA Codes == \A code \in Runner!Errors : code # None
  BY RunnerAssumed DEF Runner!RunnerAssumption

LEMMA NoReport == \A report \in Runner!Reports : report # None
  BY RunnerAssumed DEF Runner!RunnerAssumption

\* Steps that leave the run in the container and its result alone.
LEMMA RunnerElsewhere ==
  ASSUME RunnerInv, UNCHANGED <<job, isolated, workload, output, result>>,
         Runner!TypeOK', HostInv', ResultInv'
  PROVE  RunnerInv'
BY DEF RunnerInv, WrittenIsTrue, Runner!VerdictsAreFair, Runner!PassedWasIsolated,
  Runner!BlameIsFair

LEMMA RunnerCheckPreserves ==
  ASSUME RunnerInv, Runner!Check
  PROVE  RunnerInv'
<1>1. Runner!TypeOK'
  BY Codes DEF Runner!Errors, Runner!Check, Runner!Raise, RunnerInv, Runner!TypeOK, HostInv,
    LeftInv, BeforeResult
<1>2. HostInv'
  BY Codes DEF Runner!Errors, Runner!Check, Runner!Raise, RunnerInv, Runner!TypeOK, HostInv,
    LeftInv, BeforeResult
<1>3. ResultInv'
  BY Codes DEF Runner!Errors, Runner!Check, Runner!Raise, RunnerInv, HostInv, ResultInv,
    BeforeResult
<1>. QED
  BY <1>1, <1>2, <1>3, RunnerElsewhere DEF Runner!Check, Runner!Raise

LEMMA RunnerCreatePreserves ==
  ASSUME RunnerInv, NEW answer \in Runner!Answers, Runner!Create(answer)
  PROVE  RunnerInv'
<1>1. Runner!TypeOK'
  BY Codes DEF Runner!Errors, Runner!Create, Runner!Raise, RunnerInv, Runner!TypeOK, HostInv,
    LeftInv, BeforeResult
<1>2. HostInv'
  BY Codes DEF Runner!Errors, Runner!Create, Runner!Raise, RunnerInv, Runner!TypeOK, HostInv,
    LeftInv, BeforeResult
<1>3. ResultInv'
  BY Codes DEF Runner!Errors, Runner!Create, Runner!Raise, RunnerInv, HostInv, ResultInv,
    BeforeResult
<1>. QED
  BY <1>1, <1>2, <1>3, RunnerElsewhere DEF Runner!Create, Runner!Raise

LEMMA RunnerInspectPreserves ==
  ASSUME RunnerInv, NEW answer \in Runner!Answers, Runner!Inspect(answer)
  PROVE  RunnerInv'
<1>1. Runner!TypeOK'
  BY Codes DEF Runner!Errors, Runner!Inspect, Runner!Raise, RunnerInv, Runner!TypeOK, HostInv,
    LeftInv, BeforeResult
<1>2. HostInv'
  BY Codes DEF Runner!Errors, Runner!Inspect, Runner!Raise, RunnerInv, Runner!TypeOK, HostInv,
    LeftInv, BeforeResult
<1>3. ResultInv'
  BY Codes DEF Runner!Errors, Runner!Inspect, Runner!Raise, RunnerInv, HostInv, ResultInv,
    BeforeResult
<1>. QED
  BY <1>1, <1>2, <1>3, RunnerElsewhere DEF Runner!Inspect, Runner!Raise

LEMMA RunnerStartPreserves ==
  ASSUME RunnerInv, Runner!Start \/ Runner!GiveUp
  PROVE  RunnerInv'
<1>1. Runner!TypeOK'
  BY DEF Runner!Start, Runner!GiveUp, RunnerInv, Runner!TypeOK, HostInv, LeftInv, BeforeResult
<1>2. HostInv'
  BY DEF Runner!Start, Runner!GiveUp, RunnerInv, Runner!TypeOK, HostInv, LeftInv, BeforeResult
<1>3. ResultInv'
  BY DEF Runner!Start, Runner!GiveUp, RunnerInv, HostInv, ResultInv, BeforeResult
<1>. QED
  BY <1>1, <1>2, <1>3, RunnerElsewhere DEF Runner!Start, Runner!GiveUp

\* What the host makes of the result it reads blames nobody without cause.
LEMMA JudgedIsFair ==
  ASSUME RunnerInv, step = "wait", output = "result"
  PROVE  /\ Runner!Judged \in Runner!Reports /\ ~ Runner!Judged.cleanup
         /\ job.kind = "execution" =>
              /\ Runner!Judged.outcome = "passed"
                   => Runner!Judged.isolated = TRUE /\ workload = "zero"
              /\ Runner!Judged.outcome = "isolation_failure" => workload = None
         /\ job.kind = "differential" =>
              /\ Runner!Judged.outcome \in {"difference", "no_difference"} =>
                   workload.base.test = "zero" /\ workload.base.probe.exit = "zero"
              /\ Runner!Judged.outcome = "no_difference" => workload.candidate = workload.base
<1>1. CASE job.kind = "execution"
  BY <1>1, RunnerAssumed DEF Runner!RunnerAssumption, RunnerInv, WrittenIsTrue, Runner!Judged,
    Runner!Reports, Runner!Outcomes, Runner!Tests
<1>2. CASE job.kind = "differential"
  <2>1. /\ workload.base \in Runner!Observations /\ workload.candidate \in Runner!Observations
        /\ workload.mutation \in Runner!Tests
        /\ isolated \in BOOLEAN
    BY <1>2 DEF RunnerInv, WrittenIsTrue
  <2>2. Runner!Compare(workload.base, workload.candidate) \in Runner!Outcomes
          /\ Runner!Mutated(workload.mutation) \in Runner!Verdicts
    BY <2>1 DEF Runner!Compare, Runner!Mutated, Runner!Tests, Runner!Outcomes, Runner!Verdicts
  <2>3. /\ Runner!Judged.outcome = Runner!Compare(workload.base, workload.candidate)
        /\ Runner!Judged \in Runner!Reports /\ ~ Runner!Judged.cleanup
    BY <1>2, <2>1, <2>2 DEF Runner!Judged, Runner!Reports
  <2>4. \A o \in Runner!Observations : Runner!Reached(o) = "passed"
          => o.test = "zero" /\ o.probe.exit = "zero"
    BY DEF Runner!Reached
  <2>5. \A o, p \in Runner!Observations : Runner!Reached(o) = "passed"
          /\ Runner!Reached(p) = "passed" /\ o.probe.facts = p.probe.facts => o = p
    <3>1. \A x, y \in Runner!Probes : x.exit = "zero" /\ y.exit = "zero" /\ x.facts = y.facts
            => x = y
      BY DEF Runner!Probes
    <3>2. \A x, y \in Runner!Observations : x.test = y.test /\ x.probe = y.probe => x = y
      BY DEF Runner!Observations
    <3>. QED
      BY <2>4, <3>1, <3>2 DEF Runner!Observations
  <2>. QED
    BY <1>2, <2>1, <2>3, <2>4, <2>5 DEF Runner!Compare
<1>. QED
  BY <1>1, <1>2, RunnerAssumed DEF Runner!RunnerAssumption, Runner!RunKinds, RunnerInv,
    Runner!TypeOK
LEMMA RunnerKillPreserves ==
  ASSUME RunnerInv, NEW answer \in Runner!Answers, Runner!Kill(answer)
  PROVE  RunnerInv'
<1>1. CASE answer = "unanswered"
  BY <1>1, Codes DEF Runner!Errors, Runner!Kill, Runner!Raise, RunnerInv, Runner!TypeOK, HostInv,
    WrittenIsTrue, ResultInv, Runner!VerdictsAreFair, Runner!PassedWasIsolated,
    Runner!BlameIsFair, LeftInv, BeforeResult
<1>2. CASE answer # "unanswered" /\ job.kind # "execution"
  BY <1>2, Codes DEF Runner!Errors, Runner!Kill, Runner!Raise, RunnerInv, Runner!TypeOK, HostInv,
    WrittenIsTrue, ResultInv, Runner!VerdictsAreFair, Runner!PassedWasIsolated,
    Runner!BlameIsFair, LeftInv, BeforeResult
<1>3. CASE answer # "unanswered" /\ job.kind = "execution"
  <2>1. result' = [outcome |-> "timeout", isolated |-> None, cleanup |-> FALSE]
    BY <1>3 DEF Runner!Kill
  <2>2. result' \in Runner!Reports /\ result' # None
    BY <2>1, NoReport DEF Runner!Reports, Runner!Outcomes
  <2>3. /\ result'.outcome = "timeout" /\ ~ result'.cleanup
    BY <2>1
  <2>. QED
    BY <1>3, <2>2, <2>3 DEF Runner!Kill, RunnerInv, Runner!TypeOK, HostInv, WrittenIsTrue,
      ResultInv, Runner!VerdictsAreFair, Runner!PassedWasIsolated, Runner!BlameIsFair,
      LeftInv, BeforeResult
<1>. QED
  BY <1>1, <1>2, <1>3
LEMMA RunnerInsidePreserves == RunnerInv /\ Runner!Inside => RunnerInv'
<1>1. CASE Runner!Break
  BY <1>1 DEF Runner!Break, Runner!Ends, RunnerInv, Runner!TypeOK, HostInv, WrittenIsTrue,
    ResultInv, Runner!VerdictsAreFair, Runner!PassedWasIsolated, Runner!BlameIsFair, LeftInv,
    BeforeResult
<1>2. ASSUME RunnerInv, NEW found \in BOOLEAN, NEW test \in Runner!Tests,
             Runner!Execute(found, test)
      PROVE  RunnerInv'
  BY <1>2 DEF Runner!Execute, Runner!Sentinels, Runner!Ends, RunnerInv, Runner!TypeOK, HostInv,
    WrittenIsTrue, ResultInv, Runner!VerdictsAreFair, Runner!PassedWasIsolated,
    Runner!BlameIsFair, LeftInv, BeforeResult
<1>3. ASSUME RunnerInv, NEW found \in BOOLEAN, NEW base \in Runner!Observations, NEW candidate
             \in Runner!Observations,
             NEW mutation \in Runner!Tests, Runner!Differ(found, base, candidate, mutation)
      PROVE  RunnerInv'
  BY <1>3 DEF Runner!Differ, Runner!Sentinels, Runner!Ends, RunnerInv, Runner!TypeOK, HostInv,
    WrittenIsTrue, ResultInv, Runner!VerdictsAreFair, Runner!PassedWasIsolated,
    Runner!BlameIsFair, LeftInv, BeforeResult
<1>. QED
  BY <1>1, <1>2, <1>3 DEF Runner!Inside
LEMMA RunnerParsePreserves == RunnerInv /\ Runner!Parse => RunnerInv'
<1>. SUFFICES ASSUME RunnerInv, Runner!Parse PROVE RunnerInv'
  OBVIOUS
<1>1. CASE output # "result"
  BY <1>1, Codes DEF Runner!Errors, Runner!Parse, Runner!Raise, RunnerInv, Runner!TypeOK, HostInv,
    WrittenIsTrue, ResultInv, Runner!VerdictsAreFair, Runner!PassedWasIsolated,
    Runner!BlameIsFair, LeftInv, BeforeResult
<1>2. CASE output = "result"
  <2>1. result' = Runner!Judged
    BY <1>2 DEF Runner!Parse
  <2>. QED
    BY <1>2, <2>1, JudgedIsFair, NoReport DEF Runner!Parse, RunnerInv, Runner!TypeOK, HostInv,
      WrittenIsTrue, ResultInv, Runner!VerdictsAreFair, Runner!PassedWasIsolated,
      Runner!BlameIsFair, LeftInv, BeforeResult
<1>. QED
  BY <1>1, <1>2
LEMMA RunnerRemovePreserves ==
  ASSUME RunnerInv, NEW answer \in Runner!Answers, Runner!Remove(answer)
  PROVE  RunnerInv'
<1>1. CASE error # None \/ answer \notin {"ok", "failed"}
  BY <1>1, Codes DEF Runner!Errors, Runner!Remove, RunnerInv, Runner!TypeOK, HostInv,
    WrittenIsTrue, ResultInv, Runner!VerdictsAreFair, Runner!PassedWasIsolated,
    Runner!BlameIsFair, LeftInv, BeforeResult
<1>2. CASE error = None /\ answer = "failed"
  BY <1>2 DEF Runner!Remove, RunnerInv, Runner!TypeOK, HostInv, WrittenIsTrue, ResultInv,
    Runner!VerdictsAreFair, Runner!PassedWasIsolated, Runner!BlameIsFair, LeftInv, BeforeResult
<1>3. CASE error = None /\ answer = "ok"
  <2>1. result' = [result EXCEPT !.cleanup = TRUE] /\ result \in Runner!Reports
          /\ container' = "removed" /\ step' = "done"
    BY <1>3 DEF Runner!Remove, RunnerInv, HostInv, ResultInv, BeforeResult
  <2>2. result' \in Runner!Reports /\ result'.outcome = result.outcome
          /\ result'.isolated = result.isolated
    BY <2>1 DEF Runner!Reports
  <2>3. result # None /\ result' # None
    BY <2>1, <2>2, NoReport
  <2>. QED
    BY <1>3, <2>1, <2>2, <2>3 DEF Runner!Remove, RunnerInv, Runner!TypeOK, HostInv, WrittenIsTrue,
      ResultInv, Runner!VerdictsAreFair, Runner!PassedWasIsolated, Runner!BlameIsFair,
      LeftInv, BeforeResult
<1>. QED
  BY <1>1, <1>2, <1>3

\* A container runs only after its plan and its hardening were verified, and a result says
\* what happened in it, whatever step fails (runner/docker_cli.py, runner/differential.py).
THEOREM RunnerInvariant == Runner!Spec => []RunnerInv
<1>1. Runner!Init => RunnerInv
  BY RunnerAssumed, Codes DEF Runner!Errors, Runner!RunnerAssumption, Runner!Init, RunnerInv,
    Runner!TypeOK, HostInv, WrittenIsTrue, ResultInv, Runner!VerdictsAreFair,
    Runner!PassedWasIsolated, Runner!BlameIsFair, LeftInv, BeforeResult
<1>2. RunnerInv /\ UNCHANGED Runner!vars => RunnerInv'
  BY DEF Runner!vars, RunnerInv, Runner!TypeOK, HostInv, WrittenIsTrue, ResultInv,
    Runner!VerdictsAreFair, Runner!PassedWasIsolated, Runner!BlameIsFair, LeftInv, BeforeResult
<1>3. RunnerInv /\ [Runner!Next]_(Runner!vars) => RunnerInv'
  BY <1>2, RunnerCheckPreserves, RunnerCreatePreserves, RunnerInspectPreserves,
    RunnerStartPreserves, RunnerKillPreserves, RunnerInsidePreserves, RunnerParsePreserves,
    RunnerRemovePreserves DEF Runner!Next, Runner!Host
<1>. QED
  BY <1>1, <1>3, PTL DEF Runner!Spec

\* A result that claims a clean host comes from a run whose container was removed, and one is
\* left only when docker refuses its removal, which a result then says, or when its removal or
\* its creation goes unanswered, which the error then says (runner/docker_cli.py).
THEOREM CleanHostsAreClean == Runner!Spec => []CleanupIsTruthful
<1>1. RunnerInv => CleanupIsTruthful
  BY DEF RunnerInv, CleanupIsTruthful, Runner!CleanupIsTruthful, Runner!TypeOK, HostInv,
    ResultInv, LeftInv, BeforeResult, Runner!Answers
<1>. QED
  BY <1>1, RunnerInvariant, PTL

\* A pass was isolated, and a candidate is blamed only for a difference that its own code made
\* (execution_contracts/differential.py).
THEOREM VerdictsAreTrue == Runner!Spec => []VerdictsAreFair
<1>1. RunnerInv => VerdictsAreFair
  BY DEF RunnerInv, VerdictsAreFair
<1>. QED
  BY <1>1, RunnerInvariant, PTL

--------------------------------------------------------------------------------
(* Offline evaluation.  A dataset is the rows of one source that does not leak *)
(* across the splits; a choice is a function of the rows it was made from; and *)
(* training keeps the best loss it has seen, to the tolerance.                 *)

DataInv ==
  /\ source = None \/ source \in Sources
  /\ dataset # None =>
       \E payload \in Sources :
         /\ dataset = {Offline!Row(r) : r \in payload} /\ ~ Offline!Leaks(dataset)
         /\ \A r \in payload : ~ Offline!Impossible(r)
ChoiceInv ==
  classical # None =>
    LET chosen == Offline!Choice(classical.of) IN
      classical.config = chosen.config /\ classical.threshold = chosen.metrics.at

\* The best loss so far, to the tolerance.
Tracked(losses, best, checkpoint) ==
  /\ losses \in Seq(Losses)
  /\ losses = <<>> => best = None
  /\ losses # <<>> =>
       /\ checkpoint \in DOMAIN losses /\ best = losses[checkpoint]
       /\ \A e \in DOMAIN losses : best <= losses[e] + MinDelta

\* A training run over the vectors of one dataset.
Course(data) ==
  [of : {data}, vectors : {data}, losses : Seq(Losses), best : Int \cup {None}, checkpoint : Nat]
TrainingInv ==
  /\ training # None =>
       /\ \E data : training \in Course(data)
       /\ Tracked(training.losses, training.best, training.checkpoint)
  /\ Offline!HeadIsTheBestOfItsData

OfflineInv == DataInv /\ ChoiceInv /\ TrainingInv

\* Rows that do not leak are separated across the splits.
LEMMA SeparateRows ==
  ASSUME NEW payload \in Sources, \A r \in payload : ~ Offline!Impossible(r),
         ~ Offline!Leaks({Offline!Row(r) : r \in payload})
  PROVE  LET sample == {Offline!Row(r) : r \in payload} IN
    /\ \A r, s \in Offline!Included(sample) :
         /\ r.split # s.split => r.head # s.head /\ Skeleton[r.patch] # Skeleton[s.patch]
         /\ r.split = "train" /\ s.split # "train" => r.at < s.at
         /\ s.split = "test" /\ r.split # "test" => r.at < s.at
    /\ \A r \in Offline!Included(sample) : r.at <= r.seen /\ r.seen <= r.at + OutcomeWindow
         /\ r.at + OutcomeWindow <= AsOf
<1>. DEFINE sample == {Offline!Row(r) : r \in payload}
<1>1. ASSUME NEW x \in Offline!Included(sample)
      PROVE  /\ x.at \in Int
             /\ x.split \in {"train", "validation", "test"}
             /\ x.split = "train" => x.at < TrainBefore
             /\ x.split = "validation" => TrainBefore <= x.at /\ x.at < ValidationBefore
             /\ x.split = "test" => TrainBefore <= x.at /\ ValidationBefore <= x.at
             /\ x.at <= x.seen /\ x.seen <= x.at + OutcomeWindow /\ x.at + OutcomeWindow <= AsOf
  <2>1. PICK r \in payload : x = Offline!Row(r)
    BY DEF Offline!Included
  <2>2. x.at = r.at /\ x.seen = r.seen /\ x.split = Offline!Split(r)
    BY <2>1 DEF Offline!Row
  <2>3. r.at \in Int /\ r.seen \in Int \cup {None}
    BY OfflineAssumed DEF Offline!OfflineAssumption
  <2>4. Offline!Split(r) # "excluded"
    BY <2>2 DEF Offline!Included
  <2>5. Offline!Label(r) # "unknown"
    BY <2>4 DEF Offline!Split
  <2>6. ~ Offline!Late(r) /\ r.kind \notin {None, "ambiguous"} /\ r.seen # None
          /\ ~ (r.seen > r.at + OutcomeWindow)
    BY <2>5 DEF Offline!Label
  <2>7. r.seen \in Int /\ ~ (r.seen < r.at)
    BY <2>3, <2>6 DEF Offline!Impossible
  <2>8. r.at + OutcomeWindow <= AsOf
    BY <2>3, <2>6, OfflineAssumed DEF Offline!Late, Offline!OfflineAssumption
  <2>9. /\ Offline!Split(r) \in {"train", "validation", "test"}
        /\ Offline!Split(r) = "train" => r.at < TrainBefore
        /\ Offline!Split(r) = "validation" => TrainBefore <= r.at /\ r.at < ValidationBefore
        /\ Offline!Split(r) = "test" => TrainBefore <= r.at /\ ValidationBefore <= r.at
    BY <2>3, <2>4, <2>5, OfflineAssumed DEF Offline!Split, Offline!OfflineAssumption
  <2>. QED
    BY <2>2, <2>3, <2>6, <2>7, <2>8, <2>9, OfflineAssumed DEF Offline!OfflineAssumption
<1>2. ASSUME NEW r \in Offline!Included(sample), NEW s \in Offline!Included(sample)
      PROVE  /\ r.split # s.split => r.head # s.head /\ Skeleton[r.patch] # Skeleton[s.patch]
             /\ r.split = "train" /\ s.split # "train" => r.at < s.at
             /\ s.split = "test" /\ r.split # "test" => r.at < s.at
  <2>1. r.split # s.split => r.head # s.head /\ Skeleton[r.patch] # Skeleton[s.patch]
    BY DEF Offline!Leaks
  <2>2. /\ r.split = "train" /\ s.split # "train" => r.at < s.at
        /\ s.split = "test" /\ r.split # "test" => r.at < s.at
    BY <1>1, OfflineAssumed DEF Offline!OfflineAssumption
  <2>. QED
    BY <2>1, <2>2
<1>. QED
  BY <1>1, <1>2

LEMMA DataPreserves == DataInv /\ [Offline!Next]_(Offline!vars) => DataInv'
<1>. SUFFICES ASSUME DataInv, [Offline!Next]_(Offline!vars) PROVE DataInv'
  OBVIOUS
<1>1. CASE UNCHANGED <<source, dataset>>
  BY <1>1 DEF DataInv
<1>2. ASSUME NEW payload \in Sources, Offline!Extract(payload) PROVE DataInv'
  BY <1>2 DEF Offline!Extract, DataInv
<1>3. CASE Offline!Build
  <2>1. source \in Sources
    BY <1>3 DEF Offline!Build, DataInv
  <2>. QED
    BY <1>3, <2>1 DEF Offline!Build, DataInv
<1>. QED
  BY <1>1, <1>2, <1>3 DEF Offline!Next, Offline!vars, Offline!EvaluateBaseline,
    Offline!TrainClassical, Offline!Annotate, Offline!Derive, Offline!Embed,
    Offline!StartTraining, Offline!Epoch, Offline!FinishTraining

LEMMA ChoicePreserves == ChoiceInv /\ [Offline!Next]_(Offline!vars) => ChoiceInv'
<1>. SUFFICES ASSUME ChoiceInv, [Offline!Next]_(Offline!vars) PROVE ChoiceInv'
  OBVIOUS
<1>1. CASE UNCHANGED classical
  BY <1>1 DEF ChoiceInv
<1>2. CASE Offline!TrainClassical
  BY <1>2 DEF Offline!TrainClassical, ChoiceInv
<1>. QED
  BY <1>1, <1>2 DEF Offline!Next, Offline!vars, Offline!Extract, Offline!Build,
    Offline!EvaluateBaseline, Offline!Annotate, Offline!Derive, Offline!Embed,
    Offline!StartTraining, Offline!Epoch, Offline!FinishTraining

\* One more epoch is the best one exactly when it improves by more than the tolerance.
LEMMA EpochTracks ==
  ASSUME NEW losses, NEW best, NEW checkpoint, Tracked(losses, best, checkpoint), NEW loss
         \in Losses
  PROVE  LET seen == Append(losses, loss) IN
         /\ seen # <<>>
         /\ best = None \/ loss < best - MinDelta => Tracked(seen, loss, Len(seen))
         /\ ~ (best = None \/ loss < best - MinDelta) => Tracked(seen, best, checkpoint)
<1>. DEFINE seen == Append(losses, loss)
<1>0. losses \in Seq(Losses) /\ DOMAIN losses = 1 .. Len(losses) /\ Len(losses) \in Nat
  BY DEF Tracked
<1>a. Losses \subseteq Int /\ None \notin Int /\ MinDelta \in Nat
  BY OfflineAssumed DEF Offline!OfflineAssumption
<1>b. /\ seen \in Seq(Losses) /\ Len(seen) = Len(losses) + 1
      /\ \A e \in 1 .. Len(losses) : seen[e] = losses[e]
      /\ seen[Len(losses) + 1] = loss
  BY <1>0
<1>c. DOMAIN seen = 1 .. Len(losses) + 1
  BY <1>b
<1>1. /\ \A e \in DOMAIN losses : seen[e] = losses[e] /\ losses[e] \in Int
      /\ loss \in Int /\ seen # <<>>
      /\ Len(seen) \in DOMAIN seen /\ seen[Len(seen)] = loss
  <2>1. \A e \in DOMAIN losses : seen[e] = losses[e]
    BY <1>0, <1>b
  <2>2. \A e \in DOMAIN losses : losses[e] \in Int
    BY <1>0, <1>a, ElementOfSeq
  <2>3. loss \in Int
    BY <1>a
  <2>. HIDE DEF seen
  <2>4. seen # <<>>
    BY <1>0, <1>b
  <2>5. Len(seen) \in DOMAIN seen /\ seen[Len(seen)] = loss
    BY <1>0, <1>b, <1>c
  <2>. QED
    BY <2>1, <2>2, <2>3, <2>4, <2>5
<1>2. \A e \in DOMAIN seen : e \in DOMAIN losses \/ seen[e] = loss
  BY <1>0, <1>b, <1>c
<1>3. DOMAIN losses \subseteq DOMAIN seen
  BY <1>0, <1>c
<1>4. losses # <<>> => best \in Int /\ best # None
        /\ \A e \in DOMAIN losses : best <= losses[e] + MinDelta
  BY <1>1, <1>a DEF Tracked
<1>5. losses = <<>> => best = None /\ DOMAIN losses = {}
  BY DEF Tracked
<1>. HIDE DEF seen
<1>6. ASSUME best = None \/ loss < best - MinDelta PROVE Tracked(seen, loss, Len(seen))
  <2>1. ASSUME NEW e \in DOMAIN losses PROVE loss <= losses[e] + MinDelta
    BY <1>1, <1>4, <1>5, <1>6, <1>a
  <2>. QED
    BY <1>1, <1>2, <1>a, <1>b, <2>1 DEF Tracked
<1>7. ASSUME ~ (best = None \/ loss < best - MinDelta) PROVE Tracked(seen, best, checkpoint)
  <2>1. losses # <<>>
    BY <1>5, <1>7
  <2>2. checkpoint \in DOMAIN losses /\ best = losses[checkpoint]
    BY <2>1 DEF Tracked
  <2>3. checkpoint \in DOMAIN seen /\ best = seen[checkpoint]
    BY <1>1, <1>3, <2>2
  <2>4. best <= loss + MinDelta
    BY <1>1, <1>4, <1>7, <1>a, <2>1
  <2>. QED
    BY <1>1, <1>2, <1>4, <1>b, <2>1, <2>3, <2>4 DEF Tracked
<1>. QED
  BY <1>1, <1>6, <1>7 DEF seen

LEMMA TrainingPreserves == TrainingInv /\ [Offline!Next]_(Offline!vars) => TrainingInv'
<1>. SUFFICES ASSUME TrainingInv, [Offline!Next]_(Offline!vars) PROVE TrainingInv'
  OBVIOUS
<1>1. CASE UNCHANGED <<training, head>>
  BY <1>1 DEF TrainingInv, Offline!HeadIsTheBestOfItsData
<1>2. CASE Offline!StartTraining
  <2>1. training' = [of |-> semantic, vectors |-> semantic, losses |-> <<>>, best |-> None,
                     checkpoint |-> 0]
    BY <1>2 DEF Offline!StartTraining, Offline!EmbeddingsMatch
  <2>2. training' \in Course(semantic)
    BY <2>1 DEF Course
  <2>3. Tracked(<<>>, None, 0)
    BY DEF Tracked
  <2>. QED
    BY <1>2, <2>1, <2>2, <2>3 DEF Offline!StartTraining, TrainingInv,
      Offline!HeadIsTheBestOfItsData
<1>3. ASSUME NEW loss \in Losses, Offline!Epoch(loss) PROVE TrainingInv'
  <2>. DEFINE seen  == Append(training.losses, loss)
              least == [training EXCEPT !.losses = seen, !.best = loss, !.checkpoint = Len(seen)]
              other == [training EXCEPT !.losses = seen]
              falls == training.best = None \/ loss < training.best - MinDelta
  <2>1. PICK data : training \in Course(data)
    BY <1>3 DEF Offline!Epoch, TrainingInv
  <2>2. /\ seen \in Seq(Losses) /\ Len(seen) \in Nat /\ loss \in Int
        /\ falls => Tracked(seen, loss, Len(seen))
        /\ ~ falls => Tracked(seen, training.best, training.checkpoint)
    BY <1>3, <2>1, EpochTracks, OfflineAssumed DEF Offline!Epoch, TrainingInv, Course,
      Offline!OfflineAssumption
  <2>3. training' = IF falls THEN least ELSE other
    BY <1>3 DEF Offline!Epoch
  <2>. HIDE DEF seen, falls
  <2>4. /\ least \in Course(data) /\ least.losses = seen /\ least.best = loss
        /\ least.checkpoint = Len(seen)
    BY <2>1, <2>2 DEF Course
  <2>5. /\ other \in Course(data) /\ other.losses = seen /\ other.best = training.best
        /\ other.checkpoint = training.checkpoint
    BY <2>1, <2>2 DEF Course
  <2>. HIDE DEF least, other
  <2>6. training' \in Course(data)
          /\ Tracked(training'.losses, training'.best, training'.checkpoint)
    BY <2>2, <2>3, <2>4, <2>5
  <2>. QED
    BY <1>3, <2>6 DEF Offline!Epoch, TrainingInv, Offline!HeadIsTheBestOfItsData
<1>4. CASE Offline!FinishTraining
  <2>1. PICK data : training \in Course(data)
    BY <1>4 DEF Offline!FinishTraining, Offline!Exhausted, TrainingInv
  <2>2. head' = [of |-> data, vectors |-> data, losses |-> training.losses,
                 checkpoint |-> training.checkpoint]
    BY <1>4, <2>1 DEF Offline!FinishTraining, Course
  <2>3. \A e \in DOMAIN training.losses :
          training.losses[training.checkpoint] <= training.losses[e] + MinDelta
    BY <1>4 DEF Offline!FinishTraining, Offline!Exhausted, TrainingInv, Tracked
  <2>4. Offline!HeadIsTheBestOfItsData'
    BY <2>2, <2>3 DEF Offline!HeadIsTheBestOfItsData
  <2>. QED
    BY <1>4, <2>4 DEF Offline!FinishTraining, TrainingInv
<1>. QED
  BY <1>1, <1>2, <1>3, <1>4 DEF Offline!Next, Offline!vars, Offline!Extract, Offline!Build,
    Offline!EvaluateBaseline, Offline!TrainClassical, Offline!Annotate, Offline!Derive,
    Offline!Embed

\* Datasets are of one source, choices of the rows they name, and heads of the dataset they
\* were trained on (dataset_core, ml_core/classical.py, ml_core/semantic.py).
THEOREM OfflineInvariant == Offline!Spec => []OfflineInv
<1>1. Offline!Init => OfflineInv
  BY DEF Offline!Init, OfflineInv, DataInv, ChoiceInv, TrainingInv, Offline!HeadIsTheBestOfItsData
<1>2. OfflineInv /\ [Offline!Next]_(Offline!vars) => OfflineInv'
  BY DataPreserves, ChoicePreserves, TrainingPreserves DEF OfflineInv
<1>. QED
  BY <1>1, <1>2, PTL DEF Offline!Spec

\* No change, copy of one or commit is in two splits, and the splits follow one another in
\* time (dataset_core/splits.py).
THEOREM NoChangeIsInTwoSplits == Offline!Spec => []SplitsAreSeparated
<1>1. OfflineInv => SplitsAreSeparated
  BY SeparateRows DEF OfflineInv, DataInv, SplitsAreSeparated, Offline!SplitsAreSeparated
<1>. QED
  BY <1>1, OfflineInvariant, PTL

\* Whatever the test rows are, the same configuration and threshold are selected
\* (ml_core/classical.py).
THEOREM TestRowsAreUnseen == Offline!Spec => []SelectionIgnoresTest
<1>1. ASSUME OfflineInv PROVE SelectionIgnoresTest
  <2>1. ASSUME classical # None, NEW other,
               \A split \in {"train", "validation"} :
                 Offline!Eligible(other, split) = Offline!Eligible(classical.of, split)
        PROVE  Offline!Choice(other) = Offline!Choice(classical.of)
    BY <2>1 DEF Offline!Choice, Offline!Fitted
  <2>. QED
    BY <1>1, <2>1
    DEF SelectionIgnoresTest, Offline!SelectionIgnoresTest, OfflineInv, ChoiceInv
<1>. QED
  BY <1>1, OfflineInvariant, PTL

\* A head is stored for the dataset whose vectors it saw, with no epoch better than the one it
\* keeps by more than the tolerance (ml_core/semantic.py).
THEOREM HeadsAreBest == Offline!Spec => []HeadIsTheBestOfItsData
<1>1. OfflineInv => HeadIsTheBestOfItsData
  BY DEF OfflineInv, TrainingInv, HeadIsTheBestOfItsData
<1>. QED
  BY <1>1, OfflineInvariant, PTL

--------------------------------------------------------------------------------
(* The blast radius.  A queue ordered by length makes the search breadth-first: *)
(* what is nearer than the end of every queued path has been reached, so the    *)
(* first path to a module is a shortest one; and a walk in which nothing is cut *)
(* off takes no more turns than it has, because a path is queued once.          *)

\* The counting operators of the instance are those of the library.
LEMMA ChangeCounting ==
  \A S : Change!IsFiniteSet(S) = IsFiniteSet(S) /\ Change!Cardinality(S) = Cardinality(S)
  BY DEF Change!IsFiniteSet, IsFiniteSet, Change!Cardinality, Cardinality

\* A set of numbers has a least one; each induction below looks at a smallest counterexample.
LEMMA NatLeast ==
  ASSUME NEW S \in SUBSET Nat, S # {}
  PROVE  \E i \in S : \A j \in S : i <= j
<1>1. PICK i \in S : \A j \in S : <<j, i>> \notin OpToRel(<, Nat)
  BY NatLessThanWellFounded, WFMin
<1>2. \A j \in S : ~ (j < i)
  BY <1>1 DEF OpToRel
<1> QED BY <1>2

\* Modules in the order of their names: each of them once.
LEMMA OrderIsComplete ==
  ASSUME NEW S \in SUBSET Nat, IsFiniteSet(S)
  PROVE  LET order == Change!InOrder(S) IN
    /\ Cardinality(S) \in Nat /\ order \in [1 .. Cardinality(S) -> S]
    /\ \A i, j \in 1 .. Cardinality(S) : order[i] = order[j] => i = j
    /\ \A m \in S : \E i \in 1 .. Cardinality(S) : order[i] = m
<1> DEFINE upTo(m) == {n \in S : n <= m}
           rank(m) == Change!Cardinality(upTo(m))
           order == Change!InOrder(S)
           rankOf == [m \in S |-> rank(m)]
<1>1. Cardinality(S) \in Nat
  BY FS_CardinalityType
<1>2. ASSUME NEW m \in S PROVE rank(m) \in 1 .. Cardinality(S)
  <2>1. upTo(m) \in SUBSET S /\ m \in upTo(m)
    OBVIOUS
  <2>2. IsFiniteSet(upTo(m)) /\ Cardinality(upTo(m)) <= Cardinality(S)
    BY <2>1, FS_Subset
  <2>3. Cardinality(upTo(m)) \in Nat /\ Cardinality(upTo(m)) # 0
    BY <2>1, <2>2, FS_CardinalityType, FS_EmptySet
  <2> QED BY <1>1, <2>2, <2>3, ChangeCounting
<1>3. ASSUME NEW m \in S, NEW k \in S, m < k PROVE rank(m) # rank(k)
  <2>1. m \in Nat /\ k \in Nat /\ \A n \in S : n \in Nat
    OBVIOUS
  <2>2. upTo(m) \in SUBSET upTo(k) /\ k \in upTo(k) /\ k \notin upTo(m) /\ upTo(k) \in SUBSET S
    <3>1. \A n \in S : n <= m => n <= k
      BY <1>3, <2>1
    <3>2. k <= k /\ ~ (k <= m)
      BY <1>3, <2>1
    <3> QED BY <3>1, <3>2
  <2>3. IsFiniteSet(upTo(k))
    BY <2>2, FS_Subset
  <2>4. Cardinality(upTo(k)) = Cardinality(upTo(m)) => upTo(k) = upTo(m)
    BY <2>2, <2>3, FS_Subset
  <2> QED BY <2>2, <2>4, ChangeCounting
<1>4. \A m, k \in S : rank(m) = rank(k) => m = k
  <2> HIDE DEF rank
  <2>1. \A m, k \in S : m = k \/ m < k \/ k < m
    OBVIOUS
  <2> QED BY <1>3, <2>1
<1>5. \A i \in 1 .. Cardinality(S) : \E m \in S : rank(m) = i
  <2> HIDE DEF rank
  <2>1. rankOf \in Injection(S, 1 .. Cardinality(S))
    BY <1>2, <1>4 DEF Injection, IsInjective
  <2>2. IsFiniteSet(1 .. Cardinality(S)) /\ Cardinality(1 .. Cardinality(S)) = Cardinality(S)
    BY <1>1, FS_Interval
  <2>3. rankOf \in Surjection(S, 1 .. Cardinality(S))
    BY <2>1, <2>2, FS_Injection
  <2> QED BY <2>3 DEF Surjection
<1>6. order = [i \in 1 .. Cardinality(S) |-> CHOOSE m \in S : rank(m) = i]
  BY ChangeCounting DEF Change!InOrder
<1> HIDE DEF rank, order
<1>7. \A i \in 1 .. Cardinality(S) : order[i] \in S /\ rank(order[i]) = i
  BY <1>5, <1>6
<1>8. order \in [1 .. Cardinality(S) -> S]
  BY <1>6, <1>7
<1>9. \A m \in S : order[rank(m)] = m
  BY <1>2, <1>4, <1>7
<1> QED BY <1>1, <1>2, <1>7, <1>8, <1>9 DEF order

--------------------------------------------------------------------------------
Near(edges, modules) == modules \cup {e[1] : e \in {f \in edges : f[2] \in modules}}
Balls(b, changed, edges, n) ==
  b = [i \in 0 .. n |-> IF i = 0 THEN changed ELSE Near(edges, b[i - 1])]

\* The recursion of Within is well-founded, so there is a function it defines.
LEMMA BallsExist ==
  ASSUME NEW changed, NEW edges, NEW n \in Nat
  PROVE  \E b : Balls(b, changed, edges, n)
<1> DEFINE Bad == {k \in Nat : ~ \E b : Balls(b, changed, edges, k)}
<1> SUFFICES ASSUME Bad # {} PROVE FALSE
  OBVIOUS
<1>1. PICK k \in Bad : \A j \in Bad : k <= j
  <2>1. Bad \in SUBSET Nat
    OBVIOUS
  <2> HIDE DEF Bad
  <2> QED BY <2>1, NatLeast
<1>2. CASE k = 0
  <2>1. Balls([i \in 0 .. 0 |-> changed], changed, edges, 0)
    BY DEF Balls
  <2> QED BY <1>1, <1>2, <2>1
<1>3. CASE k # 0
  <2>1. k \in Nat /\ k - 1 \in Nat /\ k - 1 \notin Bad
    BY <1>1, <1>3
  <2>2. PICK b : Balls(b, changed, edges, k - 1)
    BY <2>1
  <2> DEFINE c == [i \in 0 .. k |-> IF i < k THEN b[i] ELSE Near(edges, b[k - 1])]
  <2>3. \A i \in 0 .. k - 1 : b[i] = IF i = 0 THEN changed ELSE Near(edges, b[i - 1])
    BY <2>1, <2>2 DEF Balls
  <2>4. \A i \in 0 .. k : c[i] = IF i = 0 THEN changed ELSE Near(edges, c[i - 1])
    <3> TAKE i \in 0 .. k
    <3>1. CASE i = k
      BY <1>3, <2>1, <3>1
    <3>2. CASE i # k
      BY <2>1, <2>3, <3>2
    <3> QED BY <3>1, <3>2
  <2>5. Balls(c, changed, edges, k)
    BY <2>4 DEF Balls
  <2> QED BY <1>1, <2>5
<1> QED BY <1>2, <1>3

\* Two such functions agree wherever both are defined.
LEMMA BallsAgree ==
  ASSUME NEW changed, NEW edges, NEW n \in Nat, NEW m \in Nat, NEW a, NEW b,
         Balls(a, changed, edges, n), Balls(b, changed, edges, m), NEW i \in Nat, i <= n, i <= m
  PROVE  a[i] = b[i]
<1> DEFINE Bad == {k \in Nat : k <= n /\ k <= m /\ a[k] # b[k]}
<1> SUFFICES ASSUME Bad # {} PROVE FALSE
  OBVIOUS
<1>1. PICK k \in Bad : \A j \in Bad : k <= j
  <2>1. Bad \in SUBSET Nat
    OBVIOUS
  <2> HIDE DEF Bad
  <2> QED BY <2>1, NatLeast
<1>2. k # 0
  BY <1>1 DEF Balls
<1>3. k - 1 \in Nat /\ k - 1 <= n /\ k - 1 <= m /\ k - 1 \notin Bad
  BY <1>1, <1>2
<1>4. a[k - 1] = b[k - 1]
  BY <1>3
<1>5. a[k] = Near(edges, a[k - 1]) /\ b[k] = Near(edges, b[k - 1])
  BY <1>1, <1>2 DEF Balls
<1> QED BY <1>1, <1>4, <1>5

\* What can be reached in at most n imports, import by import.
LEMMA WithinSteps ==
  ASSUME NEW changed, NEW edges
  PROVE  /\ Change!Within(changed, edges, 0) = changed
         /\ \A n \in Nat : Change!Within(changed, edges, n + 1)
                             = Near(edges, Change!Within(changed, edges, n))
<1>1. ASSUME NEW n \in Nat
      PROVE  \E b : Balls(b, changed, edges, n) /\ Change!Within(changed, edges, n) = b[n]
  <2>1. Change!Within(changed, edges, n) = (CHOOSE b : Balls(b, changed, edges, n))[n]
    BY DEF Change!Within, Balls, Near
  <2> QED BY <2>1, BallsExist
<1>2. Change!Within(changed, edges, 0) = changed
  BY <1>1 DEF Balls
<1>3. ASSUME NEW n \in Nat
      PROVE  Change!Within(changed, edges, n + 1) = Near(edges, Change!Within(changed, edges, n))
  <2>1. PICK a : Balls(a, changed, edges, n) /\ Change!Within(changed, edges, n) = a[n]
    BY <1>1
  <2>2. PICK b : Balls(b, changed, edges, n + 1) /\ Change!Within(changed, edges, n + 1) = b[n + 1]
    BY <1>1
  <2>3. b[n + 1] = Near(edges, b[n])
    BY <2>2 DEF Balls
  <2>4. a[n] = b[n]
    BY <2>1, <2>2, BallsAgree
  <2> QED BY <2>1, <2>2, <2>3, <2>4
<1> QED BY <1>2, <1>3

\* More imports reach no less.
LEMMA WithinGrows ==
  ASSUME NEW changed, NEW edges, NEW n \in Nat, NEW m \in Nat, n <= m
  PROVE  Change!Within(changed, edges, n) \subseteq Change!Within(changed, edges, m)
<1> DEFINE ball(k) == Change!Within(changed, edges, k)
           Bad == {k \in Nat : n <= k /\ ~ (ball(n) \subseteq ball(k))}
<1> SUFFICES ASSUME Bad # {} PROVE FALSE
  OBVIOUS
<1>1. PICK k \in Bad : \A j \in Bad : k <= j
  <2>1. Bad \in SUBSET Nat
    OBVIOUS
  <2> HIDE DEF Bad
  <2> QED BY <2>1, NatLeast
<1>2. k # n
  BY <1>1
<1>3. k - 1 \in Nat /\ n <= k - 1 /\ k - 1 \notin Bad
  BY <1>1, <1>2
<1>4. ball(n) \subseteq ball(k - 1)
  BY <1>3
<1>5. ball(k) = Near(edges, ball(k - 1))
  <2>1. PICK j \in Nat : k = j + 1 /\ k - 1 = j
    BY <1>1, <1>3
  <2>2. ball(j + 1) = Near(edges, ball(j))
    BY WithinSteps
  <2> HIDE DEF ball
  <2> QED BY <2>1, <2>2
<1> QED BY <1>1, <1>4, <1>5 DEF Near

--------------------------------------------------------------------------------
\* A graph of finitely many modules, some of them changed.
Graph(modules, changed, edges) ==
  /\ modules \subseteq Nat /\ IsFiniteSet(modules)
  /\ changed \subseteq modules /\ edges \subseteq modules \X modules

\* A path that leads as far as any path to its end must.
Shortest(changed, edges, p) ==
  /\ p \in Seq(Nat) /\ p # <<>>
  /\ Change!Last(p) \in Change!Within(changed, edges, Len(p) - 1)
  /\ \A n \in Nat : n < Len(p) - 1 => Change!Last(p) \notin Change!Within(changed, edges, n)

Reached(changed, w) == changed \cup {Change!Last(p) : p \in w.paths}
Fields(w) ==
  w = [queue |-> w.queue, paths |-> w.paths, truncated |-> w.truncated] /\ w.truncated \in BOOLEAN

\* The search as long as nothing is cut off: its paths are shortest ones, the queue is ordered by
\* length, and only what is at the end of a queued path may have dependents that are not reached.
Searching(changed, edges, w) ==
  /\ Fields(w) /\ w.queue \in Seq(Seq(Nat)) /\ IsFiniteSet(w.paths)
  /\ \A p \in w.paths : Shortest(changed, edges, p) /\ Len(p) > 1
  /\ \A i \in 1 .. Len(w.queue) :
       Shortest(changed, edges, w.queue[i]) /\ Change!Last(w.queue[i]) \in Reached(changed, w)
  /\ \A i, j \in 1 .. Len(w.queue) : i <= j =>
       Len(w.queue[i]) <= Len(w.queue[j]) /\ Len(w.queue[j]) <= Len(w.queue[i]) + 1
  /\ \A u \in Reached(changed, w) :
       \/ Change!Dependents(edges, u) \subseteq Reached(changed, w)
       \/ \E i \in 1 .. Len(w.queue) : u = Change!Last(w.queue[i])

\* One import more adds the dependents.
LEMMA NearMembers ==
  ASSUME NEW edges, NEW A, NEW v
  PROVE  v \in Near(edges, A) <=> v \in A \/ \E u \in A : v \in Change!Dependents(edges, u)
  BY DEF Near, Change!Dependents

\* What the search handles is a finite set of numbered modules.
LEMMA GraphSets ==
  ASSUME NEW modules, NEW changed, NEW edges, Graph(modules, changed, edges)
  PROVE  /\ changed \in SUBSET Nat /\ IsFiniteSet(changed)
         /\ \A u : Change!Dependents(edges, u) \subseteq modules
         /\ \A u, A : /\ Change!Dependents(edges, u) \ A \in SUBSET Nat
                      /\ IsFiniteSet(Change!Dependents(edges, u) \ A)
<1>1. \A u : Change!Dependents(edges, u) \subseteq modules
  BY DEF Graph, Change!Dependents
<1>2. ASSUME NEW S \in SUBSET modules PROVE S \in SUBSET Nat /\ IsFiniteSet(S)
  BY FS_Subset DEF Graph
<1>3. changed \in SUBSET modules
  BY DEF Graph
<1>4. \A u, A : Change!Dependents(edges, u) \ A \in SUBSET modules
  BY <1>1
<1> QED BY <1>1, <1>2, <1>3, <1>4

\* What is nearer than the end of every queued path has been reached.
LEMMA NearerIsReached ==
  ASSUME NEW changed, NEW edges, NEW w, Searching(changed, edges, w),
         NEW n \in Nat, \A i \in 1 .. Len(w.queue) : n < Len(w.queue[i])
  PROVE  Change!Within(changed, edges, n) \subseteq Reached(changed, w)
<1> DEFINE ball(k) == Change!Within(changed, edges, k)
           Bad == {k \in Nat : k <= n /\ ~ (ball(k) \subseteq Reached(changed, w))}
<1> SUFFICES ASSUME Bad # {} PROVE FALSE
  OBVIOUS
<1>1. PICK k \in Bad : \A j \in Bad : k <= j
  <2>1. Bad \in SUBSET Nat
    OBVIOUS
  <2> HIDE DEF Bad
  <2> QED BY <2>1, NatLeast
<1>2. k # 0
  BY <1>1, WithinSteps DEF Reached
<1>3. PICK j \in Nat : k = j + 1
  <2>1. k - 1 \in Nat /\ k = (k - 1) + 1
    BY <1>1, <1>2
  <2> QED BY <2>1
<1>4. ball(j) \subseteq Reached(changed, w)
  BY <1>1, <1>3
<1>5. ball(k) = Near(edges, ball(j))
  BY <1>3, WithinSteps
<1>6. PICK v \in ball(k) : v \notin Reached(changed, w)
  BY <1>1
<1>7. PICK u \in ball(j) : v \in Change!Dependents(edges, u)
  BY <1>4, <1>5, <1>6, NearMembers
<1>8. PICK i \in 1 .. Len(w.queue) : u = Change!Last(w.queue[i])
  BY <1>4, <1>6, <1>7 DEF Searching
<1>9. k <= n /\ n < Len(w.queue[i]) /\ w.queue[i] \in Seq(Nat)
  BY <1>1, <1>8 DEF Searching
<1>10. j < Len(w.queue[i]) - 1
  <2>1. Len(w.queue[i]) \in Nat
    BY <1>9
  <2> QED BY <1>3, <1>9, <2>1
<1> QED BY <1>7, <1>8, <1>10 DEF Searching, Shortest

\* A turn keeps the fields of a walk, and what was cut off stays so.
LEMMA VisitFields ==
  ASSUME NEW changed, NEW edges, NEW w, Fields(w)
  PROVE  LET v == Change!Visit(changed, edges, w) IN Fields(v) /\ (~ v.truncated => ~ w.truncated)
  BY DEF Fields, Change!Visit

Fresh(changed, edges, w) ==
  Change!Dependents(edges, Change!Last(Head(w.queue))) \ Reached(changed, w)

\* A turn that cuts nothing off takes one path from the queue and appends the paths to those
\* dependents of its end that were not reached.
Grows(changed, edges, w, v, path, fresh, grown) ==
  /\ grown \in Seq(Seq(Nat)) /\ Len(grown) = Cardinality(fresh)
  /\ \A i \in 1 .. Len(grown) : \E m \in fresh : grown[i] = Append(path, m)
  /\ \A m \in fresh : \E i \in 1 .. Len(grown) : grown[i] = Append(path, m)
  /\ v = [queue |-> Tail(w.queue) \o grown,
          paths |-> w.paths \cup {grown[i] : i \in 1 .. Len(grown)}, truncated |-> FALSE]
  /\ Cardinality(w.paths) + Cardinality(fresh) < MaxNodes

\* A turn after which nothing is truncated is such a turn.
LEMMA VisitGrows ==
  ASSUME NEW modules, NEW changed, NEW edges, Graph(modules, changed, edges), NEW w,
         Searching(changed, edges, w), w.queue # <<>>, Cardinality(w.paths) < MaxNodes,
         ~ Change!Visit(changed, edges, w).truncated, Change!ChangeAssumption
  PROVE  LET path == Head(w.queue)
             fresh == Fresh(changed, edges, w)
         IN  \E grown :
               Grows(changed, edges, w, Change!Visit(changed, edges, w), path, fresh, grown)
<1> DEFINE v == Change!Visit(changed, edges, w)
           path == Head(w.queue)
           next == Change!Dependents(edges, Change!Last(path))
           fresh == next \ Reached(changed, w)
           order == Change!InOrder(fresh)
           room == MaxNodes - Cardinality(w.paths)
           full == Len(order) >= room
           grown == [i \in 1 .. IF full THEN room ELSE Len(order) |-> Append(path, order[i])]
<1>1. /\ fresh \in SUBSET Nat /\ IsFiniteSet(fresh)
      /\ Cardinality(w.paths) \in Nat /\ MaxNodes \in Nat
      /\ path \in Seq(Nat) /\ ~ w.truncated /\ w.truncated \in BOOLEAN /\ Fields(w)
      /\ w.queue \in Seq(Seq(Nat))
  <2>1. fresh \in SUBSET Nat /\ IsFiniteSet(fresh)
    BY GraphSets
  <2>2. Fields(w) /\ ~ w.truncated /\ w.truncated \in BOOLEAN
    <3>1. Fields(w)
      BY DEF Searching
    <3>2. ~ v.truncated => ~ w.truncated
      BY <3>1, VisitFields
    <3> QED BY <3>1, <3>2 DEF Fields
  <2>3. Cardinality(w.paths) \in Nat /\ MaxNodes \in Nat
    BY FS_CardinalityType DEF Searching, Change!ChangeAssumption
  <2>4. path \in Seq(Nat) /\ w.queue \in Seq(Seq(Nat))
    <3>1. w.queue \in Seq(Seq(Nat)) /\ w.queue # <<>>
      BY DEF Searching
    <3> QED BY <3>1
  <2> QED BY <2>1, <2>2, <2>3, <2>4
<1>2. v = IF Len(path) > MaxDepth
          THEN [w EXCEPT !.queue = Tail(@), !.truncated = @ \/ next # {}]
          ELSE [queue |-> IF full THEN <<>> ELSE Tail(w.queue) \o grown,
                paths |-> w.paths \cup Change!Range(grown), truncated |-> w.truncated \/ full]
  BY ChangeCounting DEF Change!Visit, Reached
<1>3. /\ Cardinality(fresh) \in Nat /\ order \in [1 .. Cardinality(fresh) -> fresh]
      /\ \A m \in fresh : \E i \in 1 .. Cardinality(fresh) : order[i] = m
  BY <1>1, OrderIsComplete
<1>4. Len(order) = Cardinality(fresh)
  BY <1>3
<1>5. CASE Len(path) > MaxDepth
  <2>1. next = {}
    BY <1>1, <1>2, <1>5 DEF Fields
  <2>2. fresh = {} /\ Cardinality(fresh) = 0
    BY <2>1, FS_EmptySet
  <2>3. v = [queue |-> Tail(w.queue), paths |-> w.paths, truncated |-> FALSE]
    BY <1>1, <1>2, <1>5, <2>1 DEF Fields
  <2>4. Tail(w.queue) \o <<>> = Tail(w.queue)
    BY <1>1
  <2> HIDE DEF v, path, fresh
  <2>5. <<>> \in Seq(Seq(Nat)) /\ Len(<<>>) = 0 /\ 1 .. Len(<<>>) = {}
    OBVIOUS
  <2>6. w.paths \cup {<<>>[i] : i \in 1 .. Len(<<>>)} = w.paths
    BY <2>5
  <2>7. Cardinality(w.paths) + Cardinality(fresh) < MaxNodes
    BY <1>1, <2>2
  <2>8. Grows(changed, edges, w, v, path, fresh, <<>>)
    BY <2>2, <2>3, <2>4, <2>5, <2>6, <2>7 DEF Grows
  <2> QED BY <2>8 DEF v, path, fresh, Fresh
<1>6. CASE ~ (Len(path) > MaxDepth)
  <2>1. ~ full
    <3> HIDE DEF full, order, fresh
    <3>1. v.truncated = (w.truncated \/ full)
      BY <1>2, <1>6
    <3> QED BY <3>1
  <2>2. /\ grown = [i \in 1 .. Cardinality(fresh) |-> Append(path, order[i])]
        /\ v = [queue |-> Tail(w.queue) \o grown, paths |-> w.paths \cup Change!Range(grown),
                truncated |-> FALSE]
    BY <1>1, <1>2, <1>4, <1>6, <2>1
  <2>3. Cardinality(w.paths) + Cardinality(fresh) < MaxNodes
    BY <1>1, <1>3, <1>4, <2>1
  <2> HIDE DEF grown, fresh, order, v, path
  <2>4. grown \in Seq(Seq(Nat)) /\ Len(grown) = Cardinality(fresh)
    <3>1. \A i \in 1 .. Cardinality(fresh) : order[i] \in Nat
      BY <1>1, <1>3
    <3>2. \A i \in 1 .. Cardinality(fresh) : Append(path, order[i]) \in Seq(Nat)
      BY <1>1, <3>1
    <3>3. grown \in [1 .. Cardinality(fresh) -> Seq(Nat)]
      BY <2>2, <3>2
    <3> QED BY <1>3, <3>3
  <2>5. Change!Range(grown) = {grown[i] : i \in 1 .. Len(grown)}
    BY <1>3, <2>2, <2>4 DEF Change!Range
  <2>6. Grows(changed, edges, w, v, path, fresh, grown)
    BY <1>3, <2>2, <2>3, <2>4, <2>5 DEF Grows
  <2> QED BY <2>6 DEF v, path, fresh, Fresh
<1> QED BY <1>5, <1>6

\* What a turn leaves in the queue: all but the first, in their order, and then what it appends.
Requeued(queue, grown, q) ==
  /\ q \in Seq(Seq(Nat)) /\ Len(q) = Len(queue) - 1 + Len(grown)
  /\ \A i \in 1 .. Len(q) :
       \/ i < Len(queue) /\ q[i] = queue[i + 1]
       \/ /\ i >= Len(queue) /\ i - Len(queue) + 1 \in 1 .. Len(grown)
          /\ q[i] = grown[i - Len(queue) + 1]
  /\ \A i \in 1 .. Len(queue) : i = 1 \/ \E k \in 1 .. Len(q) : q[k] = queue[i]
  /\ \A i \in 1 .. Len(grown) : \E k \in 1 .. Len(q) : q[k] = grown[i]

LEMMA QueueAfter ==
  ASSUME NEW queue \in Seq(Seq(Nat)), queue # <<>>, NEW grown \in Seq(Seq(Nat)),
         NEW q, q = Tail(queue) \o grown
  PROVE  Requeued(queue, grown, q)
<1> DEFINE tail == Tail(queue)
<1>1. Len(queue) \in Nat \ {0} /\ Len(grown) \in Nat
  BY EmptySeq
<1>2. /\ tail \in Seq(Seq(Nat)) /\ Len(tail) = Len(queue) - 1
      /\ \A i \in 1 .. Len(tail) : tail[i] = queue[i + 1]
  BY HeadTailProperties
<1> HIDE DEF tail
<1>3. q = tail \o grown
  BY DEF tail
<1>4. /\ q \in Seq(Seq(Nat)) /\ Len(q) = Len(tail) + Len(grown)
      /\ \A i \in 1 .. Len(tail) + Len(grown) :
           q[i] = IF i <= Len(tail) THEN tail[i] ELSE grown[i - Len(tail)]
  <2>1. tail \in Seq(Seq(Nat)) /\ grown \in Seq(Seq(Nat))
    BY <1>2
  <2> QED BY <1>3, <2>1, ConcatProperties, Zenon
<1>5. \A i \in 1 .. Len(q) :
              \/ i < Len(queue) /\ q[i] = queue[i + 1]
              \/ /\ i >= Len(queue) /\ i - Len(queue) + 1 \in 1 .. Len(grown)
                 /\ q[i] = grown[i - Len(queue) + 1]
  <2> TAKE i \in 1 .. Len(q)
  <2>1. /\ i \in 1 .. Len(queue) - 1 + Len(grown)
        /\ q[i] = IF i <= Len(queue) - 1 THEN tail[i] ELSE grown[i - (Len(queue) - 1)]
    BY <1>2, <1>4
  <2>2. CASE i < Len(queue)
    BY <1>1, <1>2, <2>1, <2>2
  <2>3. CASE i >= Len(queue)
    <3>1. i - (Len(queue) - 1) = i - Len(queue) + 1
      BY <1>1
    <3> QED BY <1>1, <2>1, <2>3, <3>1
  <2> QED BY <1>1, <2>2, <2>3
<1>6. \A i \in 1 .. Len(queue) : i = 1 \/ \E k \in 1 .. Len(q) : q[k] = queue[i]
  <2> SUFFICES ASSUME NEW i \in 1 .. Len(queue), i # 1 PROVE \E k \in 1 .. Len(q) : q[k] = queue[i]
    OBVIOUS
  <2>1. i - 1 \in 1 .. Len(tail) /\ i - 1 \in 1 .. Len(q) /\ (i - 1) + 1 = i
    BY <1>1, <1>2, <1>4
  <2>2. q[i - 1] = tail[i - 1]
    BY <1>1, <1>2, <1>4, <2>1
  <2>3. tail[i - 1] = queue[i]
    BY <1>2, <2>1
  <2> QED BY <2>1, <2>2, <2>3
<1>7. \A i \in 1 .. Len(grown) : \E k \in 1 .. Len(q) : q[k] = grown[i]
  <2> TAKE i \in 1 .. Len(grown)
  <2>1. /\ Len(tail) + i \in 1 .. Len(q) /\ ~ (Len(tail) + i <= Len(tail))
        /\ (Len(tail) + i) - Len(tail) = i
    BY <1>1, <1>2, <1>4
  <2>2. q[Len(tail) + i] = grown[i]
    BY <1>4, <2>1
  <2> QED BY <2>1, <2>2
<1> QED BY <1>1, <1>2, <1>4, <1>5, <1>6, <1>7 DEF Requeued

\* A path is one import longer with another module at its end.
LEMMA Appended ==
  ASSUME NEW path \in Seq(Nat), NEW m \in Nat
  PROVE  /\ Append(path, m) \in Seq(Nat) /\ Append(path, m) # <<>>
         /\ Len(Append(path, m)) = Len(path) + 1 /\ Change!Last(Append(path, m)) = m
<1>1. /\ Append(path, m) \in Seq(Nat) /\ Append(path, m) # <<>>
      /\ Len(Append(path, m)) = Len(path) + 1 /\ Append(path, m)[Len(path) + 1] = m
  BY AppendProperties
<1> QED BY <1>1 DEF Change!Last

\* A path to a module that is reached for the first time is as short as can be.
LEMMA FirstIsShortest ==
  ASSUME NEW changed, NEW edges, NEW w, Searching(changed, edges, w), w.queue # <<>>,
         NEW m \in Nat, m \in Change!Dependents(edges, Change!Last(Head(w.queue))),
         m \notin Reached(changed, w)
  PROVE  Shortest(changed, edges, Append(Head(w.queue), m)) /\ Len(Append(Head(w.queue), m)) > 1
<1> DEFINE path == Head(w.queue)
<1>1. w.queue \in Seq(Seq(Nat)) /\ 1 \in 1 .. Len(w.queue) /\ path = w.queue[1]
  BY EmptySeq DEF Searching
<1>2. Shortest(changed, edges, path)
  BY <1>1 DEF Searching
<1>3. path \in Seq(Nat) /\ path # <<>> /\ Len(path) \in Nat /\ Len(path) # 0
  BY <1>2, EmptySeq DEF Shortest
<1>4. /\ Append(path, m) \in Seq(Nat) /\ Append(path, m) # <<>>
      /\ Len(Append(path, m)) = Len(path) + 1 /\ Change!Last(Append(path, m)) = m
  BY <1>3, Appended
<1>5. m \in Change!Within(changed, edges, Len(path))
  <2>1. PICK n \in Nat : n = Len(path) - 1 /\ n + 1 = Len(path)
    <3>1. \A k \in Nat : k # 0 => k - 1 \in Nat /\ (k - 1) + 1 = k
      OBVIOUS
    <3> QED BY <1>3, <3>1
  <2>2. Change!Last(path) \in Change!Within(changed, edges, n)
    BY <1>2, <2>1 DEF Shortest
  <2>3. m \in Near(edges, Change!Within(changed, edges, n))
    BY <2>2, NearMembers
  <2>4. m \in Change!Within(changed, edges, n + 1)
    BY <2>3, WithinSteps
  <2> QED BY <2>1, <2>4
<1>6. ASSUME NEW n \in Nat, n < Len(path) PROVE m \notin Change!Within(changed, edges, n)
  <2>1. \A i \in 1 .. Len(w.queue) : w.queue[i] \in Seq(Nat) /\ Len(path) <= Len(w.queue[i])
    BY <1>1 DEF Searching
  <2>2. \A i \in 1 .. Len(w.queue) : n < Len(w.queue[i])
    <3> TAKE i \in 1 .. Len(w.queue)
    <3>1. Len(w.queue[i]) \in Nat
      BY <2>1
    <3> QED BY <1>3, <1>6, <2>1, <3>1
  <2>3. Change!Within(changed, edges, n) \subseteq Reached(changed, w)
    BY <2>2, NearerIsReached
  <2> QED BY <2>3
<1> HIDE DEF path
<1>7. Len(Append(path, m)) - 1 = Len(path) /\ Len(Append(path, m)) > 1
  BY <1>3, <1>4
<1>8. Shortest(changed, edges, Append(path, m))
  BY <1>4, <1>5, <1>6, <1>7 DEF Shortest
<1> QED BY <1>7, <1>8 DEF path

\* Such a turn keeps the search in order.
LEMMA VisitSearches ==
  ASSUME NEW modules, NEW changed, NEW edges, Graph(modules, changed, edges), NEW w, NEW v,
         Searching(changed, edges, w), w.queue # <<>>, NEW grown,
         Grows(changed, edges, w, v, Head(w.queue), Fresh(changed, edges, w), grown)
  PROVE  /\ Searching(changed, edges, v)
         /\ Reached(changed, v) = Reached(changed, w) \cup Fresh(changed, edges, w)
<1> DEFINE path == Head(w.queue)
           fresh == Fresh(changed, edges, w)
<1>1. /\ w.queue \in Seq(Seq(Nat)) /\ Len(w.queue) \in Nat \ {0} /\ 1 \in 1 .. Len(w.queue)
      /\ path = w.queue[1] /\ path \in Seq(Nat) /\ Len(path) \in Nat
  BY EmptySeq DEF Searching
<1>2. fresh \in SUBSET Nat /\ grown \in Seq(Seq(Nat)) /\ Len(grown) \in Nat
  <2>1. \A u, A : Change!Dependents(edges, u) \ A \in SUBSET Nat
    BY GraphSets
  <2>2. fresh \in SUBSET Nat
    BY <2>1 DEF Fresh
  <2>3. grown \in Seq(Seq(Nat))
    BY DEF Grows
  <2> QED BY <2>2, <2>3
<1>3. /\ v.queue = Tail(w.queue) \o grown
      /\ v.paths = w.paths \cup {grown[i] : i \in 1 .. Len(grown)}
      /\ v.truncated = FALSE /\ Fields(v)
  BY DEF Grows, Fields
<1>4. \A m \in fresh : Change!Last(Append(path, m)) = m /\ Len(Append(path, m)) = Len(path) + 1
  BY <1>1, <1>2, Appended
<1>5. /\ \A i \in 1 .. Len(grown) : \E m \in fresh : grown[i] = Append(path, m)
      /\ \A m \in fresh : \E i \in 1 .. Len(grown) : grown[i] = Append(path, m)
  BY DEF Grows
<1>6. \A i \in 1 .. Len(grown) :
        Change!Last(grown[i]) \in fresh /\ grown[i] = Append(path, Change!Last(grown[i]))
  BY <1>4, <1>5
<1>7. \A m \in fresh : \E i \in 1 .. Len(grown) : Change!Last(grown[i]) = m
  BY <1>4, <1>5
<1>8. \A i \in 1 .. Len(grown) :
        Shortest(changed, edges, grown[i]) /\ Len(grown[i]) > 1 /\ Len(grown[i]) = Len(path) + 1
  <2>1. ASSUME NEW m \in fresh
        PROVE  Shortest(changed, edges, Append(path, m)) /\ Len(Append(path, m)) > 1
    <3>1. /\ m \in Nat /\ m \in Change!Dependents(edges, Change!Last(Head(w.queue)))
          /\ m \notin Reached(changed, w)
      BY <1>2 DEF Fresh
    <3>2. Shortest(changed, edges, Append(Head(w.queue), m)) /\ Len(Append(Head(w.queue), m)) > 1
      BY <3>1, FirstIsShortest
    <3> QED BY <3>2
  <2> QED BY <1>4, <1>5, <2>1
<1>9. Reached(changed, v) = Reached(changed, w) \cup fresh
  BY <1>3, <1>6, <1>7 DEF Reached
<1>10. IsFiniteSet(v.paths)
  <2>1. IsFiniteSet(1 .. Len(grown))
    BY <1>2, FS_Interval
  <2>2. IsFiniteSet({grown[i] : i \in 1 .. Len(grown)})
    <3> DEFINE indices == 1 .. Len(grown)
               f == [i \in indices |-> grown[i]]
    <3>1. f \in Surjection(indices, {grown[i] : i \in indices})
      BY DEF Surjection
    <3>2. IsFiniteSet(indices)
      BY <2>1
    <3> HIDE DEF indices, f
    <3>3. IsFiniteSet({grown[i] : i \in indices})
      BY <3>1, <3>2, FS_Surjection
    <3> QED BY <3>3 DEF indices
  <2>3. IsFiniteSet(w.paths)
    BY DEF Searching
  <2>4. IsFiniteSet(w.paths \cup {grown[i] : i \in 1 .. Len(grown)})
    BY <2>2, <2>3, FS_Union, Zenon
  <2> QED BY <1>3, <2>4
<1>11. \A p \in v.paths : Shortest(changed, edges, p) /\ Len(p) > 1
  BY <1>3, <1>8 DEF Searching
<1> DEFINE q == v.queue
<1>12. /\ q \in Seq(Seq(Nat)) /\ Len(q) = Len(w.queue) - 1 + Len(grown)
       /\ \A i \in 1 .. Len(q) :
            \/ i < Len(w.queue) /\ q[i] = w.queue[i + 1]
            \/ /\ i >= Len(w.queue) /\ i - Len(w.queue) + 1 \in 1 .. Len(grown)
               /\ q[i] = grown[i - Len(w.queue) + 1]
       /\ \A i \in 1 .. Len(w.queue) : i = 1 \/ \E k \in 1 .. Len(q) : q[k] = w.queue[i]
       /\ \A i \in 1 .. Len(grown) : \E k \in 1 .. Len(q) : q[k] = grown[i]
  <2>1. q = Tail(w.queue) \o grown /\ w.queue \in Seq(Seq(Nat)) /\ grown \in Seq(Seq(Nat))
    BY <1>1, <1>2, <1>3
  <2>2. Requeued(w.queue, grown, q)
    BY <2>1, QueueAfter
  <2> QED BY <2>2 DEF Requeued
<1> HIDE DEF q
<1>13. \A i \in 1 .. Len(q) :
         Shortest(changed, edges, q[i]) /\ Change!Last(q[i]) \in Reached(changed, v)
  <2> TAKE i \in 1 .. Len(q)
  <2>1. CASE i < Len(w.queue) /\ q[i] = w.queue[i + 1]
    <3>1. i + 1 \in 1 .. Len(w.queue)
      BY <1>1, <2>1
    <3> QED BY <1>9, <2>1, <3>1 DEF Searching
  <2>2. CASE i - Len(w.queue) + 1 \in 1 .. Len(grown) /\ q[i] = grown[i - Len(w.queue) + 1]
    BY <1>6, <1>8, <1>9, <2>2
  <2> QED BY <1>12, <2>1, <2>2
<1>14. \A i \in 1 .. Len(w.queue) :
         Len(w.queue[i]) \in Nat /\ Len(path) <= Len(w.queue[i]) /\ Len(w.queue[i]) <= Len(path) + 1
  BY <1>1 DEF Searching
<1>15. \A i, j \in 1 .. Len(q) : i <= j => Len(q[i]) <= Len(q[j]) /\ Len(q[j]) <= Len(q[i]) + 1
  <2> SUFFICES ASSUME NEW i \in 1 .. Len(q), NEW j \in 1 .. Len(q), i <= j
               PROVE  Len(q[i]) <= Len(q[j]) /\ Len(q[j]) <= Len(q[i]) + 1
    OBVIOUS
  <2>1. ASSUME NEW k \in 1 .. Len(q)
        PROVE  /\ k < Len(w.queue) => q[k] = w.queue[k + 1]
               /\ k >= Len(w.queue) => Len(q[k]) = Len(path) + 1
    <3>1. Len(w.queue) \in Nat /\ k \in Nat /\ ~ (k < Len(w.queue) /\ k >= Len(w.queue))
      BY <1>1, <1>12
    <3>2. CASE k < Len(w.queue) /\ q[k] = w.queue[k + 1]
      BY <3>1, <3>2
    <3>3. CASE /\ k >= Len(w.queue) /\ k - Len(w.queue) + 1 \in 1 .. Len(grown)
               /\ q[k] = grown[k - Len(w.queue) + 1]
      <4>1. Len(q[k]) = Len(path) + 1
        BY <1>8, <3>3
      <4> QED BY <3>1, <3>3, <4>1
    <3> QED BY <1>12, <3>2, <3>3
  <2>2. CASE i < Len(w.queue) /\ j < Len(w.queue)
    <3>1. i + 1 \in 1 .. Len(w.queue) /\ j + 1 \in 1 .. Len(w.queue) /\ i + 1 <= j + 1
      BY <1>1, <2>2
    <3>2. q[i] = w.queue[i + 1] /\ q[j] = w.queue[j + 1]
      BY <2>1, <2>2
    <3> QED BY <3>1, <3>2 DEF Searching
  <2>3. CASE i < Len(w.queue) /\ j >= Len(w.queue)
    <3>1. i + 1 \in 1 .. Len(w.queue)
      BY <1>1, <2>3
    <3>2. q[i] = w.queue[i + 1] /\ Len(q[j]) = Len(path) + 1
      BY <2>1, <2>3
    <3>3. Len(q[i]) \in Nat /\ Len(path) <= Len(q[i]) /\ Len(q[i]) <= Len(path) + 1
      BY <1>14, <3>1, <3>2
    <3> QED BY <1>1, <3>2, <3>3
  <2>4. CASE i >= Len(w.queue) /\ j >= Len(w.queue)
    <3>1. Len(q[i]) = Len(path) + 1 /\ Len(q[j]) = Len(path) + 1
      BY <2>1, <2>4
    <3> QED BY <1>1, <3>1
  <2> QED BY <1>1, <2>2, <2>3, <2>4
<1>16. ASSUME NEW u \in Reached(changed, v)
       PROVE  \/ Change!Dependents(edges, u) \subseteq Reached(changed, v)
              \/ \E i \in 1 .. Len(q) : u = Change!Last(q[i])
  <2>1. CASE u \in fresh
    BY <1>7, <1>12, <2>1
  <2>2. CASE u \in Reached(changed, w)
    <3>1. CASE Change!Dependents(edges, u) \subseteq Reached(changed, w)
      BY <1>9, <3>1
    <3>2. CASE \E i \in 1 .. Len(w.queue) : u = Change!Last(w.queue[i])
      <4>1. PICK i \in 1 .. Len(w.queue) : u = Change!Last(w.queue[i])
        BY <3>2
      <4>2. CASE i = 1
        BY <1>1, <1>9, <4>1, <4>2 DEF Fresh
      <4>3. CASE i # 1
        BY <1>12, <4>1, <4>3
      <4> QED BY <4>2, <4>3
    <3> QED BY <2>2, <3>1, <3>2 DEF Searching
  <2> QED BY <1>9, <2>1, <2>2
<1>17. Searching(changed, edges, v)
  BY <1>3, <1>10, <1>11, <1>12, <1>13, <1>15, <1>16 DEF Searching, q
<1> QED BY <1>9, <1>17

\* A path for each module that is reached for the first time.
LEMMA VisitCounts ==
  ASSUME NEW modules, NEW changed, NEW edges, Graph(modules, changed, edges), NEW w, NEW v,
         Searching(changed, edges, w), w.queue # <<>>, NEW grown,
         Grows(changed, edges, w, v, Head(w.queue), Fresh(changed, edges, w), grown)
  PROVE  /\ Len(v.queue) = Len(w.queue) - 1 + Cardinality(Fresh(changed, edges, w))
         /\ Cardinality(v.paths) = Cardinality(w.paths) + Cardinality(Fresh(changed, edges, w))
<1> DEFINE path == Head(w.queue)
           fresh == Fresh(changed, edges, w)
           f == [m \in fresh |-> Append(path, m)]
           new == {Append(path, m) : m \in fresh}
<1>1. w.queue \in Seq(Seq(Nat)) /\ path \in Seq(Nat) /\ IsFiniteSet(w.paths)
  BY DEF Searching
<1>2. fresh \in SUBSET Nat /\ IsFiniteSet(fresh)
  <2>1. \A u, A : /\ Change!Dependents(edges, u) \ A \in SUBSET Nat
                  /\ IsFiniteSet(Change!Dependents(edges, u) \ A)
    BY GraphSets
  <2> QED BY <2>1 DEF Fresh
<1>3. \A m \in fresh : Change!Last(Append(path, m)) = m
  BY <1>1, <1>2, Appended
<1>4. /\ grown \in Seq(Seq(Nat)) /\ Len(grown) = Cardinality(fresh)
      /\ v.queue = Tail(w.queue) \o grown
  BY DEF Grows
<1>5. v.paths = w.paths \cup new
  <2>1. /\ \A i \in 1 .. Len(grown) : \E m \in fresh : grown[i] = Append(path, m)
        /\ \A m \in fresh : \E i \in 1 .. Len(grown) : grown[i] = Append(path, m)
        /\ v.paths = w.paths \cup {grown[i] : i \in 1 .. Len(grown)}
    BY DEF Grows
  <2>2. {grown[i] : i \in 1 .. Len(grown)} = new
    BY <2>1
  <2> QED BY <2>1, <2>2
<1>6. Requeued(w.queue, grown, v.queue)
  BY <1>1, <1>4, QueueAfter
<1>7. IsFiniteSet(new) /\ Cardinality(new) = Cardinality(fresh)
  <2> HIDE DEF fresh, path
  <2>1. f \in Bijection(fresh, new)
    <3>1. f \in [fresh -> new] /\ \A m \in fresh : f[m] = Append(path, m)
      OBVIOUS
    <3>2. \A m, k \in fresh : f[m] = f[k] => m = k
      BY <1>3, <3>1
    <3>3. \A p \in new : \E m \in fresh : f[m] = p
      BY <3>1
    <3> HIDE DEF f, new
    <3> QED BY <3>1, <3>2, <3>3 DEF Bijection, Injection, IsInjective, Surjection
  <2> HIDE DEF f, new
  <2>2. ExistsBijection(fresh, new)
    BY <2>1 DEF ExistsBijection
  <2> QED BY <1>2, <2>2, FS_Bijection
<1>8. w.paths \cap new = {}
  <2>1. \A m \in fresh : m \notin Reached(changed, w)
    BY DEF Fresh
  <2> HIDE DEF fresh, path
  <2> QED BY <1>3, <2>1 DEF Reached
<1>9. Cardinality(v.paths) = Cardinality(w.paths) + Cardinality(new)
  <2> HIDE DEF new
  <2>1. Cardinality(w.paths \cap new) = 0
    BY <1>8, FS_EmptySet
  <2>2. Cardinality(w.paths) \in Nat /\ Cardinality(new) \in Nat
    BY <1>1, <1>7, FS_CardinalityType
  <2>3. Cardinality(w.paths \cup new)
          = Cardinality(w.paths) + Cardinality(new) - Cardinality(w.paths \cap new)
    BY <1>1, <1>7, FS_Union
  <2> QED BY <1>5, <2>1, <2>2, <2>3
<1>10. Len(v.queue) = Len(w.queue) - 1 + Cardinality(fresh)
  BY <1>4, <1>6 DEF Requeued
<1> QED BY <1>7, <1>9, <1>10

--------------------------------------------------------------------------------
Start(changed) ==
  [queue |-> [i \in DOMAIN Change!InOrder(changed) |-> <<Change!InOrder(changed)[i]>>],
   paths |-> {}, truncated |-> FALSE]
Turn(changed, edges, w) == IF w.queue = <<>> THEN w ELSE Change!Visit(changed, edges, w)
Turned(t, changed, edges, n) ==
  t = [k \in 0 .. n |-> IF k = 0 THEN Start(changed) ELSE Turn(changed, edges, t[k - 1])]

\* The recursion of Walk is well-founded, so there is a function it defines.
LEMMA TurnsExist ==
  ASSUME NEW changed, NEW edges, NEW n \in Nat
  PROVE  \E t : Turned(t, changed, edges, n)
<1> DEFINE Bad == {k \in Nat : ~ \E t : Turned(t, changed, edges, k)}
<1> SUFFICES ASSUME Bad # {} PROVE FALSE
  OBVIOUS
<1>1. PICK k \in Bad : \A j \in Bad : k <= j
  <2>1. Bad \in SUBSET Nat
    OBVIOUS
  <2> HIDE DEF Bad
  <2> QED BY <2>1, NatLeast
<1>2. CASE k = 0
  <2>1. Turned([i \in 0 .. 0 |-> Start(changed)], changed, edges, 0)
    BY DEF Turned
  <2> QED BY <1>1, <1>2, <2>1
<1>3. CASE k # 0
  <2>1. k \in Nat /\ k - 1 \in Nat /\ k - 1 \notin Bad
    BY <1>1, <1>3
  <2>2. PICK b : Turned(b, changed, edges, k - 1)
    BY <2>1
  <2> DEFINE c == [i \in 0 .. k |-> IF i < k THEN b[i] ELSE Turn(changed, edges, b[k - 1])]
  <2>3. \A i \in 0 .. k - 1 :
          b[i] = IF i = 0 THEN Start(changed) ELSE Turn(changed, edges, b[i - 1])
    BY <2>1, <2>2 DEF Turned
  <2>4. \A i \in 0 .. k : c[i] = IF i = 0 THEN Start(changed) ELSE Turn(changed, edges, c[i - 1])
    <3> TAKE i \in 0 .. k
    <3>1. CASE i = k
      BY <1>3, <2>1, <3>1
    <3>2. CASE i # k
      BY <2>1, <2>3, <3>2
    <3> QED BY <3>1, <3>2
  <2>5. Turned(c, changed, edges, k)
    BY <2>4 DEF Turned
  <2> QED BY <1>1, <2>5
<1> QED BY <1>2, <1>3

\* The search begins with a path for every changed module.
LEMMA StartSearches ==
  ASSUME NEW modules, NEW changed, NEW edges, Graph(modules, changed, edges)
  PROVE  /\ Searching(changed, edges, Start(changed))
         /\ Len(Start(changed).queue) = Cardinality(changed)
         /\ Cardinality(Start(changed).paths) = 0
<1> DEFINE order == Change!InOrder(changed)
           w == Start(changed)
           C == Cardinality(changed)
<1>1. /\ C \in Nat /\ order \in [1 .. C -> changed]
      /\ \A m \in changed : \E i \in 1 .. C : order[i] = m
  <2>1. changed \in SUBSET Nat /\ IsFiniteSet(changed)
    BY GraphSets
  <2> QED BY <2>1, OrderIsComplete
<1>2. changed \in SUBSET Nat
  BY GraphSets
<1> HIDE DEF order, C
<1>3. w.queue = [i \in 1 .. C |-> <<order[i]>>] /\ w.paths = {} /\ w.truncated = FALSE /\ Fields(w)
  BY <1>1 DEF Start, Fields, order
<1> HIDE DEF w
<1>4. \A m \in Nat : <<m>> \in Seq(Nat) /\ <<m>> # <<>> /\ Len(<<m>>) = 1 /\ <<m>>[1] = m
  OBVIOUS
<1>5. \A i \in 1 .. C : w.queue[i] = <<order[i]>> /\ order[i] \in changed /\ order[i] \in Nat
  BY <1>1, <1>2, <1>3
<1>6. \A i \in 1 .. C : /\ w.queue[i] = <<order[i]>> /\ order[i] \in changed /\ order[i] \in Nat
                        /\ <<order[i]>> \in Seq(Nat) /\ Len(<<order[i]>>) = 1
  BY <1>4, <1>5
<1>7. w.queue \in Seq(Seq(Nat)) /\ Len(w.queue) = C
  <2>1. w.queue \in [1 .. C -> Seq(Nat)]
    BY <1>3, <1>6
  <2> QED BY <1>1, <2>1
<1>8. \A i \in 1 .. C : Change!Last(w.queue[i]) = order[i]
  BY <1>6 DEF Change!Last
<1>9. Reached(changed, w) = changed
  BY <1>3 DEF Reached
<1>10. \A i \in 1 .. C : Shortest(changed, edges, w.queue[i])
  <2> TAKE i \in 1 .. C
  <2>1. /\ w.queue[i] \in Seq(Nat) /\ w.queue[i] # <<>>
        /\ Len(w.queue[i]) = 1 /\ Len(w.queue[i]) - 1 = 0
    <3>1. w.queue[i] = <<order[i]>> /\ order[i] \in Nat
      BY <1>5
    <3>2. <<order[i]>> \in Seq(Nat) /\ <<order[i]>> # <<>> /\ Len(<<order[i]>>) = 1
      BY <1>4, <3>1
    <3>3. w.queue[i] \in Seq(Nat) /\ w.queue[i] # <<>> /\ Len(w.queue[i]) = 1
      BY <3>1, <3>2, Zenon
    <3> QED BY <3>3
  <2>2. order[i] \in Change!Within(changed, edges, 0)
    BY <1>6, WithinSteps
  <2> QED BY <1>8, <2>1, <2>2 DEF Shortest
<1>11. \A u \in changed : \E i \in 1 .. C : u = Change!Last(w.queue[i])
  BY <1>1, <1>8
<1>12. IsFiniteSet(w.paths) /\ Cardinality(w.paths) = 0
  BY <1>3, FS_EmptySet
<1>13. \A i, j \in 1 .. C :
         Len(w.queue[i]) <= Len(w.queue[j]) /\ Len(w.queue[j]) <= Len(w.queue[i]) + 1
  BY <1>6
<1>14. Searching(changed, edges, w)
  BY <1>3, <1>6, <1>7, <1>8, <1>9, <1>10, <1>11, <1>12, <1>13 DEF Searching
<1> QED BY <1>7, <1>12, <1>14 DEF w, C

\* What holds after n turns: while nothing was cut off, a turn was taken for every path that was
\* queued and is no longer.
After(n, changed, edges, w) ==
  /\ Fields(w)
  /\ ~ w.truncated =>
       /\ Searching(changed, edges, w) /\ Cardinality(w.paths) < MaxNodes
       /\ w.queue # <<>> => n + Len(w.queue) <= Cardinality(changed) + Cardinality(w.paths)

\* Each turn that cuts nothing off is paid for by a path that leaves the queue.
LEMMA AfterATurn ==
  ASSUME NEW modules, NEW changed, NEW edges, Graph(modules, changed, edges),
         Change!ChangeAssumption, NEW n \in Nat, NEW w, After(n, changed, edges, w)
  PROVE  After(n + 1, changed, edges, Turn(changed, edges, w))
<1> DEFINE v == Turn(changed, edges, w)
<1>1. CASE w.queue = <<>>
  BY <1>1 DEF After, Turn
<1>2. CASE w.queue # <<>>
  <2>1. v = Change!Visit(changed, edges, w)
    BY <1>2 DEF Turn
  <2> HIDE DEF v
  <2>2. Fields(w)
    BY DEF After
  <2>3. Fields(v) /\ (~ v.truncated => ~ w.truncated)
    BY <2>1, <2>2, VisitFields
  <2>4. ASSUME ~ v.truncated
        PROVE  /\ Searching(changed, edges, v) /\ Cardinality(v.paths) < MaxNodes
               /\ n + 1 + Len(v.queue) <= Cardinality(changed) + Cardinality(v.paths)
    <3>1. /\ Searching(changed, edges, w) /\ Cardinality(w.paths) < MaxNodes
          /\ n + Len(w.queue) <= Cardinality(changed) + Cardinality(w.paths)
      BY <1>2, <2>3, <2>4 DEF After
    <3>2. PICK grown : Grows(changed, edges, w, v, Head(w.queue), Fresh(changed, edges, w), grown)
      BY <1>2, <2>1, <2>4, <3>1, VisitGrows
    <3>3. Searching(changed, edges, v)
      BY <1>2, <3>1, <3>2, VisitSearches
    <3>4. /\ Len(v.queue) = Len(w.queue) - 1 + Cardinality(Fresh(changed, edges, w))
          /\ Cardinality(v.paths) = Cardinality(w.paths) + Cardinality(Fresh(changed, edges, w))
      BY <1>2, <3>1, <3>2, VisitCounts
    <3>5. Cardinality(w.paths) + Cardinality(Fresh(changed, edges, w)) < MaxNodes
      BY <3>2 DEF Grows
    <3>6. /\ Cardinality(Fresh(changed, edges, w)) \in Nat /\ Cardinality(w.paths) \in Nat
          /\ Cardinality(changed) \in Nat /\ Len(w.queue) \in Nat
      <4>1. \A u, A : IsFiniteSet(Change!Dependents(edges, u) \ A)
        BY GraphSets
      <4>2. IsFiniteSet(Fresh(changed, edges, w)) /\ IsFiniteSet(changed) /\ IsFiniteSet(w.paths)
        BY <3>1, <4>1, GraphSets DEF Fresh, Searching
      <4>3. w.queue \in Seq(Seq(Nat))
        BY <3>1 DEF Searching
      <4> QED BY <4>2, <4>3, FS_CardinalityType
    <3> QED BY <3>1, <3>3, <3>4, <3>5, <3>6
  <2> QED BY <2>3, <2>4 DEF After, v
<1> QED BY <1>1, <1>2

\* A walk that is not truncated ends with an empty queue.
LEMMA WalkEnds ==
  ASSUME NEW modules, NEW changed, NEW edges, Graph(modules, changed, edges),
         Change!ChangeAssumption, ~ Change!Walk(changed, edges).truncated
  PROVE  LET w == Change!Walk(changed, edges) IN Searching(changed, edges, w) /\ w.queue = <<>>
<1> DEFINE turns == Change!Turns(changed)
           C == Cardinality(changed)
<1>1. C \in Nat /\ MaxNodes \in Nat \ {0} /\ turns \in Nat /\ turns = C + MaxNodes
  <2>1. IsFiniteSet(changed)
    BY GraphSets
  <2>2. C \in Nat
    BY <2>1, FS_CardinalityType
  <2> QED BY <2>2, ChangeCounting DEF Change!Turns, Change!ChangeAssumption
<1>2. PICK t : Turned(t, changed, edges, turns) /\ Change!Walk(changed, edges) = t[turns]
  <2>1. Change!Walk(changed, edges) = (CHOOSE t : Turned(t, changed, edges, turns))[turns]
    BY DEF Change!Walk, Turned, Start, Turn
  <2> HIDE DEF turns
  <2> QED BY <1>1, <2>1, TurnsExist
<1> HIDE DEF turns, C
<1>3. \A k \in 0 .. turns :
        t[k] = IF k = 0 THEN Start(changed) ELSE Turn(changed, edges, t[k - 1])
  BY <1>1, <1>2 DEF Turned
<1> DEFINE Bad == {n \in Nat : n <= turns /\ ~ After(n, changed, edges, t[n])}
<1>4. Bad = {}
  <2> SUFFICES ASSUME Bad # {} PROVE FALSE
    OBVIOUS
  <2>1. PICK n \in Bad : \A j \in Bad : n <= j
    <3>1. Bad \in SUBSET Nat
      OBVIOUS
    <3> HIDE DEF Bad
    <3> QED BY <3>1, NatLeast
  <2>2. n # 0
    <3>1. Searching(changed, edges, Start(changed)) /\ Len(Start(changed).queue) = C
             /\ Cardinality(Start(changed).paths) = 0
      BY StartSearches DEF C
    <3>2. 0 + Len(Start(changed).queue) <= C + Cardinality(Start(changed).paths)
             /\ Cardinality(Start(changed).paths) < MaxNodes
      BY <1>1, <3>1
    <3>3. After(0, changed, edges, Start(changed))
      BY <3>1, <3>2 DEF After, Searching, C
    <3> QED BY <1>1, <1>3, <2>1, <3>3
  <2>3. n \in Nat /\ n <= turns
    BY <2>1
  <2>4. PICK m \in Nat : n = m + 1 /\ m = n - 1
    <3>1. n - 1 \in Nat /\ n = (n - 1) + 1
      BY <2>2, <2>3
    <3> QED BY <3>1
  <2>5. After(m, changed, edges, t[m])
    BY <1>1, <2>1, <2>3, <2>4
  <2>6. t[n] = Turn(changed, edges, t[m])
    BY <1>1, <1>3, <2>2, <2>3, <2>4
  <2>7. After(m + 1, changed, edges, Turn(changed, edges, t[m]))
    BY <2>5, AfterATurn
  <2> QED BY <2>1, <2>4, <2>6, <2>7
<1>5. After(turns, changed, edges, t[turns])
  BY <1>1, <1>4
<1>6. Searching(changed, edges, t[turns]) /\ Cardinality(t[turns].paths) < MaxNodes
        /\ (t[turns].queue # <<>> => turns + Len(t[turns].queue) <= C + Cardinality(t[turns].paths))
  BY <1>2, <1>5 DEF After, C
<1>7. t[turns].queue = <<>>
  <2> DEFINE L == Len(t[turns].queue)
             P == Cardinality(t[turns].paths)
  <2>1. t[turns].queue \in Seq(Seq(Nat)) /\ P \in Nat
    BY <1>6, FS_CardinalityType DEF Searching
  <2>2. L \in Nat /\ (t[turns].queue # <<>> => L # 0)
    BY <2>1, EmptySeq
  <2>3. P < MaxNodes /\ (t[turns].queue # <<>> => turns + L <= C + P)
    BY <1>6
  <2> HIDE DEF L, P
  <2>4. ~ (turns + L <= C + P /\ L # 0)
    BY <1>1, <2>1, <2>2, <2>3
  <2> QED BY <2>2, <2>3, <2>4
<1> QED BY <1>2, <1>6, <1>7

--------------------------------------------------------------------------------
\* Within as many imports as there are modules, everything is reached that ever will be.
LEMMA WithinFar ==
  ASSUME NEW modules, NEW changed, NEW edges, Graph(modules, changed, edges), NEW n \in Nat
  PROVE  Change!Within(changed, edges, n)
           \subseteq Change!Within(changed, edges, Cardinality(modules))
<1> DEFINE ball(k) == Change!Within(changed, edges, k)
           N == Cardinality(modules)
           Grown(k) == Cardinality(ball(k)) >= k \/ \E i \in Nat : i < k /\ ball(i + 1) = ball(i)
           Bad == {k \in Nat : ~ (ball(k) \in SUBSET modules /\ Grown(k))}
<1>1. N \in Nat /\ IsFiniteSet(modules)
  BY FS_CardinalityType DEF Graph
<1>2. ball(0) = changed /\ \A k \in Nat : ball(k + 1) = Near(edges, ball(k))
  BY WithinSteps
<1>3. \A k, m \in Nat : k <= m => ball(k) \subseteq ball(m)
  BY WithinGrows
<1> HIDE DEF ball, N
<1>4. Bad = {}
  <2> SUFFICES ASSUME Bad # {} PROVE FALSE
    OBVIOUS
  <2>1. PICK k \in Bad : \A j \in Bad : k <= j
    <3>1. Bad \in SUBSET Nat
      OBVIOUS
    <3> HIDE DEF Bad
    <3> QED BY <3>1, NatLeast
  <2>2. k # 0
    <3>1. ball(0) \in SUBSET modules
      BY <1>2 DEF Graph
    <3>2. IsFiniteSet(ball(0))
      BY <1>1, <3>1, FS_Subset
    <3>3. Cardinality(ball(0)) \in Nat
      BY <3>2, FS_CardinalityType
    <3>4. Grown(0)
      BY <3>3
    <3> QED BY <2>1, <3>1, <3>4
  <2>3. PICK j \in Nat : k = j + 1
    <3>1. k - 1 \in Nat /\ k = (k - 1) + 1
      BY <2>1, <2>2
    <3> QED BY <3>1
  <2>4. ball(j) \in SUBSET modules /\ Grown(j)
    BY <2>1, <2>3
  <2>5. ball(j + 1) \in SUBSET modules
    <3>1. ball(j + 1) = Near(edges, ball(j))
      BY <1>2
    <3> QED BY <2>4, <3>1 DEF Near, Graph
  <2>6. CASE \E i \in Nat : i < j /\ ball(i + 1) = ball(i)
    BY <2>1, <2>3, <2>5, <2>6
  <2>7. CASE ball(j + 1) = ball(j)
    BY <2>1, <2>3, <2>5, <2>7
  <2>8. CASE Cardinality(ball(j)) >= j /\ ball(j + 1) # ball(j)
    <3>1. ball(j) \in SUBSET ball(j + 1)
      BY <1>3
    <3>2. IsFiniteSet(ball(j + 1))
      BY <1>1, <2>5, FS_Subset
    <3>3. /\ IsFiniteSet(ball(j)) /\ Cardinality(ball(j)) <= Cardinality(ball(j + 1))
          /\ Cardinality(ball(j + 1)) = Cardinality(ball(j)) => ball(j) = ball(j + 1)
      BY <3>1, <3>2, FS_Subset
    <3>4. Cardinality(ball(j)) \in Nat /\ Cardinality(ball(j + 1)) \in Nat
      BY <3>2, <3>3, FS_CardinalityType
    <3>5. Cardinality(ball(j + 1)) >= j + 1
      BY <2>8, <3>3, <3>4
    <3> QED BY <2>1, <2>3, <2>5, <3>5
  <2> QED BY <2>4, <2>6, <2>7, <2>8
<1>5. PICK i \in Nat : i <= N /\ ball(i + 1) = ball(i)
  <2>1. ball(N + 1) \in SUBSET modules /\ Grown(N + 1)
    BY <1>1, <1>4
  <2>2. IsFiniteSet(ball(N + 1)) /\ Cardinality(ball(N + 1)) <= N
    BY <1>1, <2>1, FS_Subset DEF N
  <2>3. Cardinality(ball(N + 1)) \in Nat
    BY <2>2, FS_CardinalityType
  <2>4. PICK i \in Nat : i < N + 1 /\ ball(i + 1) = ball(i)
    BY <1>1, <2>1, <2>2, <2>3
  <2> QED BY <1>1, <2>4
<1> DEFINE Later == {k \in Nat : i <= k /\ ball(k) # ball(i)}
<1>6. Later = {}
  <2> SUFFICES ASSUME Later # {} PROVE FALSE
    OBVIOUS
  <2>1. PICK k \in Later : \A j \in Later : k <= j
    <3>1. Later \in SUBSET Nat
      OBVIOUS
    <3> HIDE DEF Later
    <3> QED BY <3>1, NatLeast
  <2>2. PICK j \in Nat : k = j + 1 /\ i <= j
    <3>1. k - 1 \in Nat /\ k = (k - 1) + 1 /\ i <= k - 1
      BY <2>1
    <3> QED BY <3>1
  <2>3. ball(j) = ball(i)
    BY <2>1, <2>2
  <2>4. ball(j + 1) = Near(edges, ball(j)) /\ ball(i + 1) = Near(edges, ball(i))
    BY <1>2
  <2> QED BY <1>5, <2>1, <2>2, <2>3, <2>4
<1>7. ball(N) = ball(i)
  BY <1>1, <1>5, <1>6
<1>8. ball(n) \subseteq ball(N)
  <2>1. CASE n <= i
    BY <1>3, <1>5, <1>7, <2>1
  <2>2. CASE i <= n
    BY <1>6, <1>7, <2>2
  <2> QED BY <1>5, <2>1, <2>2
<1> QED BY <1>8 DEF ball, N

\* The end of a path of a finished walk is as far away as the path is long, and no farther than
\* there are modules; and everything within reach is such an end, or was changed.
LEMMA WalkIsExact ==
  ASSUME NEW modules, NEW changed, NEW edges, Graph(modules, changed, edges), NEW w,
         Searching(changed, edges, w), w.queue = <<>>
  PROVE  /\ \A p \in w.paths :
              /\ Len(p) - 1 \in Nat \ {0} /\ Len(p) - 1 <= Cardinality(modules)
              /\ Change!Last(p) \in Change!Within(changed, edges, Len(p) - 1)
              /\ \A n \in Nat : n < Len(p) - 1 =>
                   Change!Last(p) \notin Change!Within(changed, edges, n)
         /\ \A n \in Nat : Change!Within(changed, edges, n) \subseteq Reached(changed, w)
<1>1. \A n \in Nat : Change!Within(changed, edges, n) \subseteq Reached(changed, w)
  <2> TAKE n \in Nat
  <2>1. 1 .. Len(w.queue) = {}
    OBVIOUS
  <2> QED BY <2>1, NearerIsReached
<1>2. ASSUME NEW p \in w.paths
      PROVE  /\ Len(p) - 1 \in Nat \ {0} /\ Len(p) - 1 <= Cardinality(modules)
             /\ Change!Last(p) \in Change!Within(changed, edges, Len(p) - 1)
             /\ \A n \in Nat : n < Len(p) - 1 =>
                  Change!Last(p) \notin Change!Within(changed, edges, n)
  <2>1. Shortest(changed, edges, p) /\ Len(p) > 1
    BY DEF Searching
  <2>2. /\ p \in Seq(Nat) /\ Change!Last(p) \in Change!Within(changed, edges, Len(p) - 1)
        /\ \A n \in Nat : n < Len(p) - 1 => Change!Last(p) \notin Change!Within(changed, edges, n)
    BY <2>1 DEF Shortest
  <2>3. Len(p) - 1 \in Nat \ {0}
    <3>1. Len(p) \in Nat /\ Len(p) > 1
      BY <2>1, <2>2
    <3>2. \A k \in Nat : k > 1 => k - 1 \in Nat \ {0}
      OBVIOUS
    <3> QED BY <3>1, <3>2, Zenon
  <2>4. Cardinality(modules) \in Nat
    BY FS_CardinalityType DEF Graph
  <2>5. Change!Last(p) \in Change!Within(changed, edges, Cardinality(modules))
    <3>1. PICK n \in Nat : n = Len(p) - 1
      BY <2>3
    <3>2. Change!Last(p) \in Change!Within(changed, edges, n)
      BY <2>2, <3>1
    <3> QED BY <3>2, WithinFar
  <2> QED BY <2>2, <2>3, <2>4, <2>5
<1> QED BY <1>1, <1>2

\* The greatest of some bounded numbers.
LEMMA GreatestIsThere ==
  ASSUME NEW D \in SUBSET Nat, D # {}, NEW b \in Nat, \A d \in D : d <= b
  PROVE  Change!Max(D) \in D /\ \A d \in D : d <= Change!Max(D)
<1> DEFINE Bounds == {c \in Nat : \A d \in D : d <= c}
<1>1. PICK c \in Bounds : \A a \in Bounds : c <= a
  <2>1. Bounds \in SUBSET Nat /\ b \in Bounds
    OBVIOUS
  <2> HIDE DEF Bounds
  <2> QED BY <2>1, NatLeast
<1>2. c \in Nat /\ \A d \in D : d <= c
  BY <1>1
<1>3. c \in D
  <2> SUFFICES ASSUME c \notin D PROVE FALSE
    OBVIOUS
  <2>1. \A d \in D : d \in Nat /\ d <= c /\ d # c
    BY <1>2
  <2>2. c - 1 \in Nat
    <3>1. PICK d \in D : TRUE
      OBVIOUS
    <3>2. d \in Nat /\ d <= c /\ d # c
      BY <2>1
    <3> QED BY <1>2, <3>2
  <2>3. \A d \in D : d <= c - 1
    BY <1>2, <2>1
  <2>4. c - 1 \in Bounds /\ ~ (c <= c - 1)
    BY <1>2, <2>2, <2>3
  <2> QED BY <1>1, <2>4
<1>4. \E x \in D : \A y \in D : x >= y
  BY <1>2, <1>3
<1>5. Change!Max(D) = CHOOSE x \in D : \A y \in D : x >= y
  BY DEF Change!Max
<1>6. Change!Max(D) \in D /\ \A y \in D : Change!Max(D) >= y
  BY <1>4, <1>5
<1> QED BY <1>6

\* The blast features of a change are those of its whole graph.
ExactBlast(s, blast) ==
  LET within(n) == Change!Within(Change!Changed(s), s.edges, n)
      far == Cardinality(s.modules)
  IN  /\ blast.direct = within(1) \ Change!Changed(s)
      /\ blast.transitive = within(far) \ within(1)
      /\ within(blast.depth) = within(far)
      /\ blast.depth > 0 => within(blast.depth - 1) # within(far)

\* Blast features that are not null are exact: the walk they were drawn from was finished.
LEMMA BlastOfTheGraph ==
  ASSUME Change!ChangeAssumption, NEW s \in Changes, NEW tree, Change!Blast(s, tree) # None
  PROVE  ExactBlast(s, Change!Blast(s, tree))
<1> DEFINE changed == Change!Changed(s)
           w == Change!Walk(changed, s.edges)
           far == Cardinality(s.modules)
           within(n) == Change!Within(changed, s.edges, n)
           blast == Change!Blast(s, tree)
           depths == {0} \cup {Len(p) - 1 : p \in w.paths}
<1>1. Graph(s.modules, changed, s.edges)
  BY ChangeCounting DEF Graph, Change!ChangeAssumption, Change!Changed
<1>2. /\ ~ w.truncated
      /\ blast = [direct |-> {Change!Last(p) : p \in {q \in w.paths : FALSE = (Len(q) > 2)}},
                  transitive |-> {Change!Last(p) : p \in {q \in w.paths : TRUE = (Len(q) > 2)}},
                  depth |-> Change!Max(depths)]
  BY DEF Change!Blast
<1> HIDE DEF w, changed, within, blast
<1>3. Searching(changed, s.edges, w) /\ w.queue = <<>>
  BY <1>1, <1>2, WalkEnds DEF w
<1>4. /\ \A p \in w.paths :
           /\ Len(p) - 1 \in Nat \ {0} /\ Len(p) - 1 <= far
           /\ Change!Last(p) \in within(Len(p) - 1)
           /\ \A n \in Nat : n < Len(p) - 1 => Change!Last(p) \notin within(n)
      /\ \A n \in Nat : within(n) \subseteq Reached(changed, w)
  BY <1>1, <1>3, WalkIsExact DEF within
<1>5. /\ far \in Nat /\ within(0) = changed /\ \A n \in Nat : within(n) \subseteq within(far)
      /\ \A n, m \in Nat : n <= m => within(n) \subseteq within(m)
  <2>1. far \in Nat
    BY <1>1, FS_CardinalityType DEF Graph
  <2>2. \A n \in Nat : within(n) \subseteq within(far)
    BY <1>1, WithinFar DEF within
  <2> QED BY <2>1, <2>2, WithinSteps, WithinGrows DEF within
<1>6. \A p \in w.paths : Len(p) \in Int
  BY <1>3 DEF Searching, Shortest
<1>7. blast.direct = within(1) \ changed
  <2>1. ASSUME NEW p \in w.paths, ~ (Len(p) > 2) PROVE Change!Last(p) \in within(1) \ changed
    <3>1. Len(p) \in Int /\ Len(p) - 1 \in Nat \ {0}
      BY <1>4, <1>6
    <3>2. \A k \in Int : k - 1 \in Nat \ {0} /\ ~ (k > 2) => k - 1 = 1 /\ 0 < k - 1
      OBVIOUS
    <3>3. Len(p) - 1 = 1 /\ 0 < Len(p) - 1
      BY <2>1, <3>1, <3>2, Zenon
    <3>4. Change!Last(p) \in within(1)
      BY <1>4, <3>3, Zenon
    <3>5. Change!Last(p) \notin within(0)
      BY <1>4, <3>3
    <3> QED BY <1>5, <3>5, <3>4
  <2>2. ASSUME NEW u \in within(1) \ changed
        PROVE  \E p \in w.paths : ~ (Len(p) > 2) /\ u = Change!Last(p)
    <3>1. PICK p \in w.paths : u = Change!Last(p)
      BY <1>4 DEF Reached
    <3>2. ~ (1 < Len(p) - 1)
      BY <1>4, <3>1
    <3> QED BY <1>6, <3>1, <3>2
  <2> QED BY <1>2, <2>1, <2>2
<1>8. blast.transitive = within(far) \ within(1)
  <2>1. ASSUME NEW p \in w.paths, Len(p) > 2 PROVE Change!Last(p) \in within(far) \ within(1)
    <3>1. 1 < Len(p) - 1
      BY <1>6, <2>1
    <3> QED BY <1>4, <1>5, <3>1
  <2>2. ASSUME NEW u \in within(far) \ within(1)
        PROVE  \E p \in w.paths : Len(p) > 2 /\ u = Change!Last(p)
    <3>1. u \notin changed
      BY <1>5
    <3>2. PICK p \in w.paths : u = Change!Last(p)
      BY <1>4, <1>5, <3>1 DEF Reached
    <3>3. Len(p) - 1 # 1
      BY <1>4, <3>2
    <3>4. Len(p) \in Int /\ Len(p) - 1 \in Nat \ {0}
      BY <1>4, <1>6
    <3>5. \A k \in Int : k - 1 \in Nat \ {0} /\ k - 1 # 1 => k > 2
      OBVIOUS
    <3>6. Len(p) > 2
      BY <3>3, <3>4, <3>5, Zenon
    <3> QED BY <3>2, <3>6
  <2> QED BY <1>2, <2>1, <2>2
<1>9. depths \in SUBSET Nat /\ depths # {} /\ \A d \in depths : d <= far
  BY <1>4, <1>5
<1> DEFINE depth == Change!Max(depths)
<1>10. depth \in depths /\ \A d \in depths : d <= depth
  <2> HIDE DEF depths
  <2> QED BY <1>5, <1>9, GreatestIsThere
<1> HIDE DEF depth
<1>11. depth \in Nat /\ \A p \in w.paths : Len(p) - 1 <= depth
  BY <1>9, <1>10
<1>12. within(depth) = within(far)
  <2>1. ASSUME NEW u \in within(far) PROVE u \in within(depth)
    <3>1. CASE u \in changed
      BY <1>5, <1>11, <3>1
    <3>2. CASE \E p \in w.paths : u = Change!Last(p)
      <4>1. PICK p \in w.paths : u = Change!Last(p)
        BY <3>2
      <4>2. u \in within(Len(p) - 1) /\ Len(p) - 1 \in Nat /\ Len(p) - 1 <= depth
        BY <1>4, <1>11, <4>1
      <4> QED BY <1>5, <1>11, <4>2
    <3> QED BY <1>4, <1>5, <3>1, <3>2 DEF Reached
  <2> QED BY <1>5, <1>11, <2>1
<1>13. depth > 0 => within(depth - 1) # within(far)
  <2> SUFFICES ASSUME depth > 0 PROVE within(depth - 1) # within(far)
    OBVIOUS
  <2>1. PICK p \in w.paths : depth = Len(p) - 1
    BY <1>10
  <2>2. depth - 1 \in Nat /\ depth - 1 < Len(p) - 1
    BY <1>11, <2>1
  <2>3. Change!Last(p) \notin within(depth - 1) /\ Change!Last(p) \in within(far)
    BY <1>4, <1>5, <2>1, <2>2
  <2> QED BY <2>3
<1>14. blast.depth = depth
  BY <1>2 DEF depth
<1> QED BY <1>7, <1>8, <1>12, <1>13, <1>14 DEF ExactBlast, within, changed, blast

--------------------------------------------------------------------------------
(* Change intelligence.  A snapshot is stamped once, before it can be seen, so *)
(* what preceded another when a history was read precedes it for good; and the *)
(* score is inserted with the features it is computed from.                    *)

SnapshotTypes ==
  /\ now \in Int /\ created \in [Changes -> Int \cup {None}]
  /\ visible \subseteq {s \in Changes : created[s] # None}
  /\ analysis \in [Callers ->
       {None} \cup [of : Changes, rows : SUBSET Changes, known : SUBSET Changes]]

\* Snapshots in a history precede the one it was read for.
Precedes(s, history) == history \subseteq visible /\ \A r \in history : created[r] < created[s]
Histories ==
  /\ \A c \in Callers : analysis[c] # None =>
       analysis[c].of \in visible /\ Precedes(analysis[c].of, analysis[c].rows)
  /\ \A s \in DOMAIN features : s \in visible /\ Precedes(s, features[s].rows)

Scored ==
  /\ DOMAIN score = DOMAIN features
  /\ \A s \in DOMAIN features : score[s] = Change!Score(features[s].values)

\* Stored blast features are exact, or null.
Exact ==
  \A s \in DOMAIN features : features[s].values.blast # None =>
    ExactBlast(s, features[s].values.blast)

ChangeInv == SnapshotTypes /\ Histories /\ Scored /\ Exact

\* Nothing is stored at first.
LEMMA ChangeInit == ASSUME Change!Init PROVE ChangeInv
<1>1. SnapshotTypes
  BY DEF Change!Init, SnapshotTypes
<1>2. Histories /\ Scored /\ Exact
  BY DEF Change!Init, Histories, Scored, Exact
<1> QED BY <1>1, <1>2 DEF ChangeInv

\* Ingestion adds to what is stamped and visible, and changes nothing of it.
LEMMA IngestionInv ==
  ASSUME ChangeInv, Change!Tick \/ \E s \in Changes : Change!Stamp(s) \/ Change!Commit(s)
  PROVE  ChangeInv'
<1>1. UNCHANGED <<analysis, features, score>>
  BY DEF Change!Tick, Change!Stamp, Change!Commit
<1>2. /\ visible \subseteq visible' /\ \A s \in visible : created'[s] = created[s]
      /\ SnapshotTypes'
  <2>1. CASE Change!Tick
    BY <2>1 DEF Change!Tick, ChangeInv, SnapshotTypes
  <2>2. ASSUME NEW s \in Changes, Change!Stamp(s)
        PROVE  /\ visible \subseteq visible' /\ \A t \in visible : created'[t] = created[t]
               /\ SnapshotTypes'
    <3>1. created[s] = None /\ created' = [created EXCEPT ![s] = now] /\ now # None
          /\ UNCHANGED <<now, visible, analysis>>
      BY <2>2, ChangeAssumed DEF Change!Stamp, Change!ChangeAssumption, ChangeInv, SnapshotTypes
    <3>2. \A t \in visible : t # s /\ t \in Changes
      BY <3>1 DEF ChangeInv, SnapshotTypes
    <3> QED BY <3>1, <3>2 DEF ChangeInv, SnapshotTypes
  <2>3. ASSUME NEW s \in Changes, Change!Commit(s)
        PROVE  /\ visible \subseteq visible' /\ \A t \in visible : created'[t] = created[t]
               /\ SnapshotTypes'
    BY <2>3 DEF Change!Commit, ChangeInv, SnapshotTypes
  <2> QED BY <2>1, <2>2, <2>3
<1>3. \A s \in visible : \A history : Precedes(s, history) => Precedes(s, history)'
  BY <1>2 DEF Precedes
<1>4. Histories'
  BY <1>1, <1>2, <1>3 DEF ChangeInv, Histories
<1> QED BY <1>1, <1>2, <1>4 DEF ChangeInv, Scored, Exact

\* What is read precedes the snapshot it is read for.
LEMMA ReadInv ==
  ASSUME ChangeInv, NEW c \in Callers, NEW s \in Changes, Change!ReadHistory(c, s)
  PROVE  ChangeInv'
<1>1. PICK history \in SUBSET visible :
        /\ Change!MayRead(s, history)
        /\ analysis' = [analysis EXCEPT ![c] =
             [of |-> s, rows |-> history, known |-> {r \in visible : created[r] < created[s]}]]
  BY DEF Change!ReadHistory
<1>2. s \in visible /\ UNCHANGED <<now, created, visible, features, score>>
  BY DEF Change!ReadHistory
<1>3. Precedes(s, history)
  BY <1>1 DEF Change!MayRead, Change!Oldest, Precedes
<1>4. SnapshotTypes'
  BY <1>1, <1>2 DEF ChangeInv, SnapshotTypes
<1>5. Histories'
  BY <1>1, <1>2, <1>3 DEF ChangeInv, SnapshotTypes, Histories, Precedes
<1> QED BY <1>2, <1>4, <1>5 DEF ChangeInv, Scored, Exact

\* Features that are stored stay, and their score with them.
LEMMA ReturnInv ==
  ASSUME ChangeInv, NEW c \in Callers, NEW s \in Changes, Change!ReturnExisting(c, s)
  PROVE  ChangeInv'
<1>1. UNCHANGED <<now, created, visible, analysis, features, score>>
  BY DEF Change!ReturnExisting, Change!ScoreOnce, ChangeInv, Scored
<1> QED BY <1>1 DEF ChangeInv, SnapshotTypes, Histories, Scored, Exact, Precedes

\* What is stored is drawn from what was read, and scored as it is.
LEMMA PersistInv ==
  ASSUME ChangeInv, NEW c \in Callers, NEW tree \in BOOLEAN, Change!Persist(c, tree)
  PROVE  ChangeInv'
<1> DEFINE a == analysis[c]
           s == a.of
           fresh == Change!FeatureRow(a, tree)
<1>1. a # None /\ analysis' = [analysis EXCEPT ![c] = None] /\ UNCHANGED <<now, created, visible>>
  BY DEF Change!Persist
<1>2. s \in visible /\ Precedes(s, a.rows)
  BY <1>1 DEF ChangeInv, Histories
<1>3. SnapshotTypes'
  BY <1>1 DEF ChangeInv, SnapshotTypes
<1>4. \A d \in Callers : analysis'[d] = None \/ analysis'[d] = analysis[d]
  BY <1>1 DEF ChangeInv, SnapshotTypes
<1>5. CASE s \in DOMAIN features
  <2>1. UNCHANGED <<features, score>>
    BY <1>5 DEF Change!Persist, Change!ScoreOnce, ChangeInv, Scored
  <2> QED BY <1>1, <1>3, <1>4, <2>1 DEF ChangeInv, Histories, Scored, Exact, Precedes
<1>6. CASE s \notin DOMAIN features
  <2>1. /\ features' = Change!Put(features, s, fresh)
        /\ score' = Change!Put(score, s, Change!Score(fresh.values))
    BY <1>6 DEF Change!Persist, Change!ScoreOnce, ChangeInv, Scored
  <2>2. /\ DOMAIN features' = DOMAIN features \cup {s} /\ features'[s] = fresh
        /\ \A t \in DOMAIN features : t # s /\ features'[t] = features[t]
        /\ DOMAIN score' = DOMAIN score \cup {s} /\ score'[s] = Change!Score(fresh.values)
        /\ \A t \in DOMAIN score : t # s => score'[t] = score[t]
    BY <1>6, <2>1 DEF Change!Put
  <2>3. fresh.rows = a.rows
    BY DEF Change!FeatureRow
  <2> HIDE DEF fresh
  <2>4. Histories'
    BY <1>1, <1>2, <1>4, <2>2, <2>3 DEF ChangeInv, Histories, Precedes
  <2>5. Scored'
    BY <2>2 DEF ChangeInv, Scored
  <2>6. fresh.values.blast = Change!Blast(s, tree)
    BY DEF fresh, Change!FeatureRow, Change!FeatureSet
  <2>7. fresh.values.blast # None => ExactBlast(s, fresh.values.blast)
    <3>1. s \in Changes
      BY <1>2 DEF ChangeInv, SnapshotTypes
    <3> QED BY <2>6, <3>1, BlastOfTheGraph, ChangeAssumed
  <2>8. Exact'
    BY <2>2, <2>7 DEF ChangeInv, Exact
  <2> QED BY <1>3, <2>4, <2>5, <2>8 DEF ChangeInv
<1> QED BY <1>5, <1>6

\* An analysis that is given up leaves nothing.
LEMMA AbandonInv ==
  ASSUME ChangeInv, NEW c \in Callers, Change!Abandon(c)
  PROVE  ChangeInv'
<1>1. analysis' = [analysis EXCEPT ![c] = None]
      /\ UNCHANGED <<now, created, visible, features, score>>
  BY DEF Change!Abandon
<1>2. \A d \in Callers : analysis'[d] = None \/ analysis'[d] = analysis[d]
  BY <1>1 DEF ChangeInv, SnapshotTypes
<1> QED BY <1>1, <1>2 DEF ChangeInv, SnapshotTypes, Histories, Scored, Exact, Precedes

\* Every step keeps the invariant.
LEMMA ChangeNext == ASSUME ChangeInv, [Change!Next]_(Change!vars) PROVE ChangeInv'
<1>1. CASE UNCHANGED Change!vars
  BY <1>1 DEF Change!vars, ChangeInv, SnapshotTypes, Histories, Scored, Exact, Precedes
<1> QED BY <1>1, IngestionInv, ReadInv, ReturnInv, PersistInv, AbandonInv DEF Change!Next

\* Whoever stored it, a score is that of the stored features, and these count only snapshots
\* strictly before their own (analysis/change_intelligence.py, analyze_snapshot; risk/services.py).
THEOREM ScoresAreOfStoredFeatures == Change!Spec => []ScoreIsOfStoredFeatures
<1>1. Change!Init => ChangeInv
  BY ChangeInit
<1>2. ChangeInv /\ [Change!Next]_(Change!vars) => ChangeInv'
  BY ChangeNext
<1>3. ChangeInv => ScoreIsOfStoredFeatures
  BY DEF ChangeInv, Scored, Histories, Precedes, ScoreIsOfStoredFeatures,
    Change!ScoreIsOfStoredFeatures
<1> QED BY <1>1, <1>2, <1>3, PTL DEF Change!Spec

\* For every graph of modules and every change: blast features are stored only if they are those
\* of the whole graph, for any limits on depth and nodes (change_intel/graph.py,
\* compute_blast_radius; analysis/change_intelligence.py, analyze_snapshot).
THEOREM BlastsAreExact == Change!Spec => []BlastIsExact
<1>1. Change!Init => ChangeInv
  BY ChangeInit
<1>2. ChangeInv /\ [Change!Next]_(Change!vars) => ChangeInv'
  BY ChangeNext
<1>3. ChangeInv => BlastIsExact
  BY ChangeCounting DEF ChangeInv, Exact, ExactBlast, BlastIsExact, Change!BlastIsExact
<1> QED BY <1>1, <1>2, <1>3, PTL DEF Change!Spec

--------------------------------------------------------------------------------
(* Outcomes and drift.  An answer is a row that is stored, or nothing; a row   *)
(* is unique by the key its table says, and nothing takes it away.             *)

\* What an answer may be.
OutcomeRow ==
  [event : ReportedEvents, signal : Signals, at : Nat, enabled : BOOLEAN, eligible : BOOLEAN]
ReportOf   == {Feedback!Assessment(x[1], x[2]) : x \in Comparisons}
DriftRow   == [artifact : Artifacts, report : ReportOf]
Asking     ==
  [pc : {"lookup", "insert", "answered"}, event : ReportedEvents, signal : Signals, at : Nat,
   enabled : BOOLEAN, answer : OutcomeRow \cup {None}]
Assessing  ==
  [pc : {"compare", "record", "answered"}, artifact : Artifacts, report : ReportOf,
   answer : DriftRow \cup {None}]

FeedbackTypes ==
  /\ clock \in Nat /\ learning \in BOOLEAN
  /\ outcomes \subseteq OutcomeRow /\ assessments \subseteq DriftRow
  /\ asking \in [Callers -> {Feedback!Idle} \cup Asking \cup Assessing]
OneRowEach ==
  /\ \A r, s \in outcomes : r.event = s.event => r = s
  /\ \A x, y \in assessments :
       x.artifact = y.artifact /\ x.report.current = y.report.current => x = y
  /\ \A r, s \in reviews : r.assessment = s.assessment => r = s

\* What is reported lies in the past, and eligibility is what the report and the policy of its
\* time say.
PastReports ==
  /\ \A r \in outcomes :
       r.signal.end <= clock /\ r.eligible = Feedback!Eligible(r.signal, r.enabled)
  /\ \A c \in Callers : asking[c] \in Asking =>
       /\ asking[c].at <= clock
       /\ asking[c].pc = "insert" => Feedback!Timely(asking[c].signal, asking[c].at)

\* A caller that hears a row hears what it asked for.
HeardWhatIsStored(c) ==
  Feedback!At(c, "answered") /\ asking[c].answer # None =>
    /\ asking[c] \in Asking =>
         asking[c].answer \in outcomes /\ asking[c].answer.signal = asking[c].signal
    /\ asking[c] \in Assessing =>
         asking[c].answer \in assessments /\ asking[c].answer.report = asking[c].report

FeedbackInv ==
  /\ FeedbackTypes /\ OneRowEach /\ PastReports
  /\ \A c \in Callers : HeardWhatIsStored(c)

\* The two kinds of calls have different fields.
LEMMA CallsApart ==
  /\ \A w \in Asking : "signal" \in DOMAIN w /\ "report" \notin DOMAIN w
  /\ \A w \in Assessing : "report" \in DOMAIN w /\ "signal" \notin DOMAIN w
  /\ "signal" \notin DOMAIN Feedback!Idle /\ "report" \notin DOMAIN Feedback!Idle
  /\ Feedback!Idle \notin Asking /\ Feedback!Idle \notin Assessing
  /\ Asking \cap Assessing = {}
  BY DEF Asking, Assessing, Feedback!Idle

\* A step of one call that only adds to what is stored.
LEMMA FeedbackCallStep ==
  ASSUME FeedbackInv, NEW c \in Callers, NEW w \in {Feedback!Idle} \cup Asking \cup Assessing,
         asking' = [asking EXCEPT ![c] = w],
         UNCHANGED <<clock, learning, reviews>>,
         outcomes \subseteq outcomes', outcomes' \subseteq OutcomeRow,
         assessments \subseteq assessments', assessments' \subseteq DriftRow,
         OneRowEach',
         \A r \in outcomes' :
           r.signal.end <= clock /\ r.eligible = Feedback!Eligible(r.signal, r.enabled),
         w \in Asking => w.at <= clock /\ (w.pc = "insert" => Feedback!Timely(w.signal, w.at)),
         HeardWhatIsStored(c)'
  PROVE  FeedbackInv'
<1>1. asking'[c] = w /\ \A e \in Callers \ {c} : asking'[e] = asking[e]
  BY DEF FeedbackInv, FeedbackTypes
<1>2. FeedbackTypes'
  BY DEF FeedbackInv, FeedbackTypes
<1>3. PastReports'
  BY <1>1 DEF FeedbackInv, PastReports
<1>4. \A e \in Callers : HeardWhatIsStored(e)'
  BY <1>1 DEF FeedbackInv, HeardWhatIsStored, Feedback!At
<1>. QED
  BY <1>2, <1>3, <1>4 DEF FeedbackInv

\* A step of one call that stores nothing.
LEMMA FeedbackQuietStep ==
  ASSUME FeedbackInv, NEW c \in Callers, NEW w \in {Feedback!Idle} \cup Asking \cup Assessing,
         asking' = [asking EXCEPT ![c] = w],
         UNCHANGED <<clock, learning, outcomes, assessments, reviews>>,
         w \in Asking => w.at <= clock /\ (w.pc = "insert" => Feedback!Timely(w.signal, w.at)),
         HeardWhatIsStored(c)'
  PROVE  FeedbackInv'
<1>1. OneRowEach' /\ outcomes' \subseteq OutcomeRow /\ assessments' \subseteq DriftRow
  BY DEF FeedbackInv, FeedbackTypes, OneRowEach
<1>2. \A r \in outcomes' : r.signal.end <= clock
        /\ r.eligible = Feedback!Eligible(r.signal, r.enabled)
  BY DEF FeedbackInv, PastReports
<1>. QED
  BY <1>1, <1>2, FeedbackCallStep

LEMMA FeedbackBeginPreserves ==
  ASSUME FeedbackInv, NEW c \in Callers,
         \/ \E e \in ReportedEvents, s \in Signals : Feedback!AskOutcome(c, e, s, clock)
         \/ \E a \in Artifacts, x \in Comparisons : Feedback!AskAssessment(c, a, x[1], x[2])
         \/ Feedback!Return(c)
  PROVE  FeedbackInv'
<1>1. ASSUME NEW e \in ReportedEvents, NEW s \in Signals, Feedback!AskOutcome(c, e, s, clock)
      PROVE  FeedbackInv'
  <2>. DEFINE w == [pc |-> "lookup", event |-> e, signal |-> s, at |-> clock,
                     enabled |-> learning,
               answer |-> None]
  <2>1. w \in Asking /\ w.at = clock /\ w.pc = "lookup"
    BY DEF FeedbackInv, FeedbackTypes, Asking
  <2>2. asking' = [asking EXCEPT ![c] = w] /\ asking'[c] = w
    BY <1>1 DEF Feedback!AskOutcome, Feedback!Begin, FeedbackInv, FeedbackTypes
  <2>3. HeardWhatIsStored(c)'
    BY <2>2 DEF HeardWhatIsStored, Feedback!At
  <2>4. UNCHANGED <<clock, learning, outcomes, assessments, reviews>>
    BY <1>1 DEF Feedback!AskOutcome
  <2>. HIDE DEF w
  <2>5. w.at <= clock
    BY <2>1 DEF FeedbackInv, FeedbackTypes
  <2>. QED
    BY <2>1, <2>2, <2>3, <2>4, <2>5, FeedbackQuietStep
<1>2. ASSUME NEW a \in Artifacts, NEW x \in Comparisons, Feedback!AskAssessment(c, a, x[1], x[2])
      PROVE  FeedbackInv'
  <2>. DEFINE w == [pc |-> "compare", artifact |-> a, report |-> Feedback!Assessment(x[1], x[2]),
                     answer |-> None]
  <2>1. w \in Assessing /\ w.pc = "compare"
    BY DEF ReportOf, Assessing
  <2>2. asking' = [asking EXCEPT ![c] = w] /\ asking'[c] = w
    BY <1>2 DEF Feedback!AskAssessment, Feedback!Begin, FeedbackInv, FeedbackTypes
  <2>3. HeardWhatIsStored(c)'
    BY <2>2 DEF HeardWhatIsStored, Feedback!At
  <2>4. UNCHANGED <<clock, learning, outcomes, assessments, reviews>>
    BY <1>2 DEF Feedback!AskAssessment
  <2>. HIDE DEF w
  <2>. QED
    BY <2>1, <2>2, <2>3, <2>4, CallsApart, FeedbackQuietStep
<1>3. CASE Feedback!Return(c)
  <2>1. asking'[c] = Feedback!Idle /\ asking' = [asking EXCEPT ![c] = Feedback!Idle]
    BY <1>3 DEF Feedback!Return, FeedbackInv, FeedbackTypes
  <2>2. HeardWhatIsStored(c)'
    BY <2>1 DEF HeardWhatIsStored, Feedback!At, Feedback!Idle
  <2>. QED
    BY <1>3, <2>1, <2>2, CallsApart, FeedbackQuietStep DEF Feedback!Return
<1>. QED
  BY <1>1, <1>2, <1>3

\* A call that is answered stays what it was and has its answer.
LEMMA AnsweredCall ==
  ASSUME FeedbackInv, NEW c \in Callers, NEW reported, Feedback!Answer(c, reported)
  PROVE  \E w : /\ asking' = [asking EXCEPT ![c] = w] /\ asking'[c] = w
                /\ asking[c] \in Asking /\ reported \in OutcomeRow \cup {None} =>
                     /\ w \in Asking /\ w.at = asking[c].at /\ w.signal = asking[c].signal
                     /\ w.pc = "answered" /\ w.answer = reported
                /\ asking[c] \in Assessing /\ reported \in DriftRow \cup {None} =>
                     /\ w \in Assessing /\ w.report = asking[c].report
                     /\ w.pc = "answered" /\ w.answer = reported
<1>. DEFINE w == [asking[c] EXCEPT !.pc = "answered", !.answer = reported]
<1>1. asking' = [asking EXCEPT ![c] = w] /\ asking'[c] = w
  BY DEF Feedback!Answer, FeedbackInv, FeedbackTypes
<1>2. asking[c] \in Asking /\ reported \in OutcomeRow \cup {None} =>
              /\ w \in Asking /\ w.at = asking[c].at /\ w.signal = asking[c].signal
              /\ w.pc = "answered" /\ w.answer = reported
  BY DEF Asking
<1>3. asking[c] \in Assessing /\ reported \in DriftRow \cup {None} =>
              /\ w \in Assessing /\ w.report = asking[c].report
              /\ w.pc = "answered" /\ w.answer = reported
  BY DEF Assessing
<1>. HIDE DEF w
<1>. QED
  BY <1>1, <1>2, <1>3

\* The phase of a call tells its kind.
LEMMA CallPhases ==
  ASSUME FeedbackInv, NEW c \in Callers
  PROVE  /\ Feedback!At(c, "lookup") \/ Feedback!At(c, "insert") => asking[c] \in Asking
         /\ Feedback!At(c, "compare") \/ Feedback!At(c, "record") => asking[c] \in Assessing
  BY DEF FeedbackInv, FeedbackTypes, Feedback!At, Feedback!Idle, Asking, Assessing

\* An answer that leaves the tables alone: nothing, or a row that is stored.
LEMMA AnsweredOutcome ==
  ASSUME FeedbackInv, NEW c \in Callers, asking[c] \in Asking, NEW reported,
         Feedback!Answer(c, reported),
         reported = None \/ (reported \in outcomes /\ reported.signal = asking[c].signal),
         UNCHANGED <<clock, learning, outcomes, assessments, reviews>>
  PROVE  FeedbackInv'
<1>1. reported \in OutcomeRow \cup {None}
  BY DEF FeedbackInv, FeedbackTypes
<1>2. PICK w :
      /\ asking' = [asking EXCEPT ![c] = w] /\ asking'[c] = w
      /\ w \in Asking /\ w.at = asking[c].at /\ w.signal = asking[c].signal
      /\ w.pc = "answered" /\ w.answer = reported
  BY <1>1, AnsweredCall
<1>3. w.at <= clock
  BY <1>2 DEF FeedbackInv, PastReports
<1>4. HeardWhatIsStored(c)'
  BY <1>2, CallsApart DEF HeardWhatIsStored, Feedback!At
<1>. QED
  BY <1>2, <1>3, <1>4, FeedbackQuietStep

LEMMA FindPreserves ==
  ASSUME FeedbackInv, NEW c \in Callers, Feedback!FindOutcome(c)
  PROVE  FeedbackInv'
<1>0. asking[c] \in Asking
  BY CallPhases DEF Feedback!FindOutcome
<1>1. ASSUME NEW reported \in Feedback!RowsOf(asking[c].event), Feedback!AnswerStored(c, reported)
      PROVE  FeedbackInv'
  BY <1>0, <1>1, AnsweredOutcome DEF Feedback!FindOutcome, Feedback!AnswerStored, Feedback!RowsOf
<1>2. CASE /\ asking' = [asking EXCEPT ![c].pc = "insert"]
           /\ Feedback!Timely(asking[c].signal, asking[c].at)
  <2>. DEFINE w == [asking[c] EXCEPT !.pc = "insert"]
  <2>1. asking' = [asking EXCEPT ![c] = w] /\ asking'[c] = w
    BY <1>2 DEF FeedbackInv, FeedbackTypes
  <2>2. w \in Asking /\ w.pc = "insert" /\ w.at = asking[c].at /\ w.signal = asking[c].signal
    BY <1>0 DEF Asking
  <2>3. w.at <= clock
    BY <1>0, <2>2 DEF FeedbackInv, PastReports
  <2>. HIDE DEF w
  <2>4. HeardWhatIsStored(c)'
    BY <2>1, <2>2 DEF HeardWhatIsStored, Feedback!At
  <2>. QED
    BY <1>2, <2>1, <2>2, <2>3, <2>4, FeedbackQuietStep DEF Feedback!FindOutcome
<1>3. CASE Feedback!Answer(c, None)
  BY <1>0, <1>3, AnsweredOutcome DEF Feedback!FindOutcome
<1>. QED
  BY <1>1, <1>2, <1>3 DEF Feedback!FindOutcome

LEMMA InsertPreserves ==
  ASSUME FeedbackInv, NEW c \in Callers, Feedback!InsertOutcome(c)
  PROVE  FeedbackInv'
<1>. DEFINE r == asking[c]
            reported == [event |-> r.event, signal |-> r.signal, at |-> r.at,
                          enabled |-> r.enabled,
              eligible |-> Feedback!Eligible(r.signal, r.enabled)]
<1>0. r \in Asking /\ r.at <= clock /\ Feedback!Timely(r.signal, r.at)
  BY CallPhases DEF Feedback!InsertOutcome, FeedbackInv, PastReports, Feedback!At
<1>1. CASE Feedback!RowsOf(r.event) = {} /\ outcomes' = outcomes \cup {reported}
             /\ Feedback!Answer(c, reported)
  <2>1. /\ reported \in OutcomeRow /\ reported.event = r.event /\ reported.signal = r.signal
        /\ reported.eligible = Feedback!Eligible(reported.signal, reported.enabled)
    BY <1>0, FeedbackAssumed DEF Feedback!FeedbackAssumption, Asking, OutcomeRow,
      Feedback!Eligible
  <2>2. r.signal.end <= clock
    BY <1>0, FeedbackAssumed DEF Feedback!FeedbackAssumption, Feedback!Timely, Asking,
      FeedbackInv, FeedbackTypes
  <2>3. UNCHANGED <<clock, learning, assessments, reviews>>
    BY DEF Feedback!InsertOutcome
  <2>. HIDE DEF reported
  <2>4. PICK w :
        /\ asking' = [asking EXCEPT ![c] = w] /\ asking'[c] = w
        /\ w \in Asking /\ w.at = r.at /\ w.signal = r.signal
        /\ w.pc = "answered" /\ w.answer = reported
    BY <1>0, <1>1, <2>1, AnsweredCall
  <2>5. OneRowEach'
    BY <1>1, <2>1, <2>3 DEF OneRowEach, FeedbackInv, Feedback!RowsOf
  <2>6. HeardWhatIsStored(c)'
    BY <1>1, <2>1, <2>4, CallsApart DEF HeardWhatIsStored, Feedback!At
  <2>7. \A x \in outcomes' : x.signal.end <= clock
          /\ x.eligible = Feedback!Eligible(x.signal, x.enabled)
    BY <1>1, <2>1, <2>2 DEF FeedbackInv, PastReports
  <2>8. outcomes \subseteq outcomes' /\ outcomes' \subseteq OutcomeRow
    BY <1>1, <2>1 DEF FeedbackInv, FeedbackTypes
  <2>. QED
    BY <1>0, <2>3, <2>4, <2>5, <2>6, <2>7, <2>8, FeedbackCallStep DEF FeedbackInv, FeedbackTypes
<1>2. ASSUME NEW kept \in Feedback!RowsOf(r.event), Feedback!Answer(c, None)
             \/ Feedback!AnswerStored(c, kept), UNCHANGED outcomes
      PROVE  FeedbackInv'
  BY <1>0, <1>2, AnsweredOutcome DEF Feedback!InsertOutcome, Feedback!AnswerStored,
    Feedback!RowsOf
<1>. QED
  BY <1>1, <1>2 DEF Feedback!InsertOutcome

\* The same of an assessment.
LEMMA AnsweredDrift ==
  ASSUME FeedbackInv, NEW c \in Callers, asking[c] \in Assessing, NEW reported,
         Feedback!Answer(c, reported),
         reported = None \/ (reported \in assessments /\ reported.report = asking[c].report),
         UNCHANGED <<clock, learning, outcomes, assessments, reviews>>
  PROVE  FeedbackInv'
<1>1. reported \in DriftRow \cup {None}
  BY DEF FeedbackInv, FeedbackTypes
<1>2. PICK w :
      /\ asking' = [asking EXCEPT ![c] = w] /\ asking'[c] = w
      /\ w \in Assessing /\ w.report = asking[c].report
      /\ w.pc = "answered" /\ w.answer = reported
  BY <1>1, AnsweredCall
<1>4. HeardWhatIsStored(c)'
  BY <1>2, CallsApart DEF HeardWhatIsStored, Feedback!At
<1>. QED
  BY <1>2, <1>4, CallsApart, FeedbackQuietStep

LEMMA AssessPreserves ==
  ASSUME FeedbackInv, NEW c \in Callers, Feedback!FindAssessment(c)
         \/ Feedback!RecordAssessment(c)
  PROVE  FeedbackInv'
<1>0. asking[c] \in Assessing
  BY CallPhases DEF Feedback!FindAssessment, Feedback!RecordAssessment
<1>1. CASE Feedback!FindAssessment(c)
  <2>1. ASSUME NEW x \in Feedback!Stored(c),
               Feedback!Answer(c, IF x.report = asking[c].report THEN x ELSE None)
        PROVE  FeedbackInv'
    BY <1>0, <1>1, <2>1, AnsweredDrift DEF Feedback!FindAssessment, Feedback!Stored
  <2>2. CASE asking' = [asking EXCEPT ![c].pc = "record"]
    <3>. DEFINE w == [asking[c] EXCEPT !.pc = "record"]
    <3>1. asking' = [asking EXCEPT ![c] = w] /\ asking'[c] = w
      BY <2>2 DEF FeedbackInv, FeedbackTypes
    <3>2. w \in Assessing /\ w.pc = "record"
      BY <1>0 DEF Assessing
    <3>3. HeardWhatIsStored(c)'
      BY <3>1, <3>2 DEF HeardWhatIsStored, Feedback!At
    <3>. QED
      BY <1>1, <3>1, <3>2, <3>3, CallsApart, FeedbackQuietStep DEF Feedback!FindAssessment
  <2>. QED
    BY <1>1, <2>1, <2>2 DEF Feedback!FindAssessment
<1>2. CASE Feedback!RecordAssessment(c)
  <2>. DEFINE reported == [artifact |-> asking[c].artifact, report |-> asking[c].report]
  <2>1. CASE Feedback!Stored(c) = {} /\ assessments' = assessments \cup {reported}
               /\ Feedback!Answer(c, reported)
    <3>1. /\ reported \in DriftRow /\ reported.artifact = asking[c].artifact
          /\ reported.report = asking[c].report
      BY <1>0 DEF Assessing, DriftRow
    <3>2. UNCHANGED <<clock, learning, outcomes, reviews>>
      BY <1>2 DEF Feedback!RecordAssessment
    <3>. HIDE DEF reported
    <3>3. PICK w :
          /\ asking' = [asking EXCEPT ![c] = w] /\ asking'[c] = w
          /\ w \in Assessing /\ w.report = asking[c].report
          /\ w.pc = "answered" /\ w.answer = reported
      BY <1>0, <2>1, <3>1, AnsweredCall
    <3>4. OneRowEach'
      BY <2>1, <3>1, <3>2 DEF OneRowEach, FeedbackInv, Feedback!Stored
    <3>5. HeardWhatIsStored(c)'
      BY <2>1, <3>1, <3>3, CallsApart DEF HeardWhatIsStored, Feedback!At
    <3>6. \A x \in outcomes' : x.signal.end <= clock
            /\ x.eligible = Feedback!Eligible(x.signal, x.enabled)
      BY <3>2 DEF FeedbackInv, PastReports
    <3>7. assessments \subseteq assessments' /\ assessments' \subseteq DriftRow
      BY <2>1, <3>1 DEF FeedbackInv, FeedbackTypes
    <3>. QED
      BY <3>2, <3>3, <3>4, <3>5, <3>6, <3>7, CallsApart, FeedbackCallStep DEF FeedbackInv,
        FeedbackTypes
  <2>2. CASE UNCHANGED assessments /\ Feedback!Answer(c, None)
    BY <1>0, <1>2, <2>2, AnsweredDrift DEF Feedback!RecordAssessment
  <2>. QED
    BY <1>2, <2>1, <2>2 DEF Feedback!RecordAssessment
<1>. QED
  BY <1>1, <1>2

LEMMA FeedbackEnvironmentPreserves ==
  ASSUME FeedbackInv,
         \/ \E x \in assessments, d \in {"no_action", "approve_experiment"} :
              Feedback!Review(x, d)
         \/ Feedback!Tick \/ Feedback!ToggleLearning \/ UNCHANGED Feedback!vars
  PROVE  FeedbackInv'
<1>1. UNCHANGED <<outcomes, assessments, asking>> /\ clock' \in Nat /\ clock <= clock'
  BY DEF Feedback!Review, Feedback!Tick, Feedback!ToggleLearning, Feedback!vars, FeedbackInv,
    FeedbackTypes
<1>2. learning' \in BOOLEAN
  BY Zenon DEF Feedback!Review, Feedback!Tick, Feedback!ToggleLearning, Feedback!vars,
    FeedbackInv, FeedbackTypes
<1>3. \A r, s \in reviews' : r.assessment = s.assessment => r = s
  <2>1. ASSUME NEW x \in assessments, NEW d, Feedback!Review(x, d)
        PROVE  \A r, s \in reviews' : r.assessment = s.assessment => r = s
    BY <2>1 DEF Feedback!Review, FeedbackInv, OneRowEach
  <2>. QED
    BY <2>1 DEF Feedback!Tick, Feedback!ToggleLearning, Feedback!vars, FeedbackInv, OneRowEach
<1>4. FeedbackTypes' /\ OneRowEach'
  BY <1>1, <1>2, <1>3 DEF FeedbackInv, FeedbackTypes, OneRowEach
<1>5. PastReports'
  BY <1>1, FeedbackAssumed DEF Feedback!FeedbackAssumption, FeedbackInv, FeedbackTypes,
    PastReports, OutcomeRow, Asking
<1>6. \A c \in Callers : HeardWhatIsStored(c)'
  BY <1>1 DEF FeedbackInv, HeardWhatIsStored, Feedback!At
<1>. QED
  BY <1>4, <1>5, <1>6 DEF FeedbackInv

\* A report passes only what was compared and had not shifted, and asks for review otherwise.
LEMMA JudgedByPolicy ==
  ASSUME NEW report \in ReportOf
  PROVE  LET ref == report.reference  cur == report.current IN
       /\ report.decision = "review" => Feedback!Enough(ref, cur)
       /\ report.decision = "pass"
            => Feedback!SameSchema(ref, cur) /\ ~ Feedback!Shifted(ref, cur)
       /\ report.humanReview <=> report.decision # "pass"
<1>1. PICK x \in Comparisons : report = Feedback!Assessment(x[1], x[2])
  BY DEF ReportOf
<1>2. /\ report.reference = x[1] /\ report.current = x[2]
      /\ report.decision = Feedback!Decision(x[1], x[2])
      /\ report.humanReview = (Feedback!Decision(x[1], x[2]) # "pass")
  BY <1>1 DEF Feedback!Assessment
<1>. QED
  BY <1>2 DEF Feedback!Decision

\* One row is kept for an event and for a profile of an artifact; callers hear that row and
\* only if it says what they reported; and drift is judged by the policy, whatever is missing
\* (risk/governance_services.py, ml_core/governance.py).
THEOREM ReportsAreGoverned == Feedback!Spec => []FeedbackIsGoverned
<1>1. Feedback!Init => FeedbackInv
  BY FeedbackAssumed DEF Feedback!Init, FeedbackInv, FeedbackTypes, OneRowEach, PastReports,
    HeardWhatIsStored, Feedback!At, Feedback!Idle, Asking
<1>2. FeedbackInv /\ [Feedback!Next]_(Feedback!vars) => FeedbackInv'
  BY FeedbackBeginPreserves, FindPreserves, InsertPreserves, AssessPreserves,
    FeedbackEnvironmentPreserves DEF Feedback!Next
<1>3. FeedbackInv => Feedback!OutcomesAreFaithful
  <2>. SUFFICES ASSUME FeedbackInv PROVE Feedback!OutcomesAreFaithful
    OBVIOUS
  <2>1. \A c \in Callers : Feedback!Answered(c) /\ "signal" \in DOMAIN asking[c] =>
          asking[c].answer \in outcomes /\ asking[c].answer.signal = asking[c].signal
    BY CallsApart DEF FeedbackInv, FeedbackTypes, Feedback!Answered, HeardWhatIsStored
  <2>2. \A r \in outcomes : r.signal.end <= clock
          /\ (r.eligible => r.enabled /\ r.signal.optIn /\ r.signal.known)
    BY DEF FeedbackInv, PastReports, Feedback!Eligible
  <2>. QED
    BY <2>1, <2>2 DEF Feedback!OutcomesAreFaithful, FeedbackInv, OneRowEach
<1>4. FeedbackInv => Feedback!DriftIsJudged
  <2>. SUFFICES ASSUME FeedbackInv PROVE Feedback!DriftIsJudged
    OBVIOUS
  <2>1. \A c \in Callers : Feedback!Answered(c) /\ "report" \in DOMAIN asking[c] =>
          asking[c].answer \in assessments /\ asking[c].answer.report = asking[c].report
    BY CallsApart DEF FeedbackInv, FeedbackTypes, Feedback!Answered, HeardWhatIsStored
  <2>2. \A x \in assessments : x.report \in ReportOf
    BY DEF FeedbackInv, FeedbackTypes, DriftRow
  <2>. QED
    BY <2>1, <2>2, JudgedByPolicy DEF Feedback!DriftIsJudged, FeedbackInv, OneRowEach
<1>5. FeedbackInv => FeedbackIsGoverned
  BY <1>3, <1>4 DEF FeedbackIsGoverned
<1>. QED
  BY <1>1, <1>2, <1>5, PTL DEF Feedback!Spec

--------------------------------------------------------------------------------
(* The schema.  A trigger fires at the start of a statement and is not asked   *)
(* again at its end; what it saw is still true then, because it looked at      *)
(* verification records only, and no statement takes one of these away.        *)

\* What a proposal event needs of the rows and what only gets truer as rows are added.
StepsOn(e, db) ==
  /\ \/ e.sequence = 0 /\ e.to = "draft"
     \/ \E f \in Schema!Events(e, db) : Schema!Follows(e, f)
  /\ e.to = "accepted_for_export" =>
       \E p \in Schema!Rows("generatedtestproposal", db) : p.id = e.proposal /\ p.valid

\* The lasting part of what the triggers of an insert found.
Founded(r, db) ==
  /\ r.table = "proposallifecycleevent" => StepsOn(r, db)
  /\ r.table # "proposallifecycleevent" => Schema!MayInsert(r, db)

\* Nothing that is a verification record is in the one and not in the other.
Keeps(db, after) == \A r \in db : r.table \in Schema!VerificationRecords => r \in after

\* A statement takes no verification record, and what it puts is founded.
StatementInv ==
  \A w \in Callers :
    /\ \A r \in statement[w].takes : r.table \notin Schema!VerificationRecords
    /\ \A r \in statement[w].puts : Founded(r, tables)

SchemaInv ==
  /\ Schema!Unique(tables) /\ Schema!Referential(tables) /\ Schema!LineageHolds
  /\ DOMAIN statement = Callers /\ StatementInv

\* Governed deletion does not reach the verification records.
LEMMA GovernedAreOthers == \A t \in Schema!Governed : t \notin Schema!VerificationRecords
  BY DEF Schema!Governed, Schema!VerificationRecords

\* What was founded stays founded while verification records are kept.
LEMMA FoundedLasts ==
  ASSUME NEW r, NEW db, NEW after, Keeps(db, after), Founded(r, db)
  PROVE  Founded(r, after)
<1>1. ASSUME NEW t \in Schema!VerificationRecords
      PROVE  \A s \in Schema!Rows(t, db) : s \in Schema!Rows(t, after)
  BY <1>1 DEF Keeps, Schema!Rows
<1>2. /\ \A s \in Schema!Rows("generatedtestproposal", db) : s
           \in Schema!Rows("generatedtestproposal", after)
      /\ \A s \in Schema!Rows("proposallifecycleevent", db) : s
           \in Schema!Rows("proposallifecycleevent", after)
      /\ \A s \in Schema!Rows("executionplan", db) : s \in Schema!Rows("executionplan", after)
      /\ \A s \in Schema!Rows("executionapproval", db) : s
           \in Schema!Rows("executionapproval", after)
      /\ \A s \in Schema!Rows("differentialplan", db) : s
           \in Schema!Rows("differentialplan", after)
      /\ \A s \in Schema!Rows("differentialrun", db) : s \in Schema!Rows("differentialrun", after)
  BY <1>1 DEF Schema!VerificationRecords
<1>3. CASE r.table = "proposallifecycleevent"
  <2>1. StepsOn(r, db)
    BY <1>3 DEF Founded
  <2>2. \A f \in Schema!Events(r, db) : f \in Schema!Events(r, after)
    BY <1>2 DEF Schema!Events
  <2>3. StepsOn(r, after)
    BY <1>2, <2>1, <2>2 DEF StepsOn
  <2> QED BY <1>3, <2>3 DEF Founded
<1>4. CASE r.table # "proposallifecycleevent"
  <2>1. Schema!MayInsert(r, db)
    BY <1>4 DEF Founded
  <2>2. r.table = "executionapproval" => Schema!ValidateExecutionApproval(r, after)
    BY <1>2, <2>1 DEF Schema!MayInsert, Schema!ValidateExecutionApproval
  <2>3. r.table = "executionrun" => Schema!ValidateExecutionRun(r, after)
    BY <1>2, <2>1 DEF Schema!MayInsert, Schema!ValidateExecutionRun
  <2>4. r.table = "differentialplan" => Schema!ValidateDifferentialPlan(r, after)
    BY <1>2, <2>1 DEF Schema!MayInsert, Schema!ValidateDifferentialPlan
  <2>5. r.table = "recommendationdecision" => Schema!ValidateRecommendation(r, after)
    BY <1>2, <2>1 DEF Schema!MayInsert, Schema!ValidateRecommendation
  <2> QED BY <1>4, <2>2, <2>3, <2>4, <2>5 DEF Founded, Schema!MayInsert
<1> QED BY <1>3, <1>4

\* What the triggers let in is founded.
LEMMA InsertIsFounded ==
  ASSUME NEW r, NEW db, Schema!MayInsert(r, db)
  PROVE  Founded(r, db)
<1>1. CASE r.table = "proposallifecycleevent"
  <2>1. Schema!ValidateProposalEvent(r, db)
    BY <1>1 DEF Schema!MayInsert
  <2> QED BY <1>1, <2>1 DEF Founded, StepsOn, Schema!ValidateProposalEvent
<1>2. CASE r.table # "proposallifecycleevent"
  BY <1>2 DEF Founded
<1> QED BY <1>1, <1>2

\* Rows of tables without any trigger need nothing.
LEMMA PlainIsFounded ==
  ASSUME NEW r, NEW db, r.table \notin Schema!VerificationRecords
  PROVE  Founded(r, db)
  BY DEF Founded, Schema!MayInsert, Schema!VerificationRecords

\* A foreign key names one row, so the row it names is the one the constraint found.
LEMMA KeysGiveAgreement ==
  ASSUME NEW db, Schema!Unique(db), Schema!Referential(db)
  PROVE  Schema!ReferencesAgree(db)
<1> SUFFICES ASSUME NEW fk \in Schema!Relations, NEW r \in Schema!Rows(fk.child, db),
                    NEW p \in Schema!Rows(fk.parent, db), r[fk.column] # None, p.id = r[fk.column]
             PROVE  Schema!Same(fk, r, p)
  BY DEF Schema!ReferencesAgree
<1>1. PICK q \in Schema!Rows(fk.parent, db) : q.id = r[fk.column] /\ Schema!Same(fk, r, q)
  BY DEF Schema!Referential, Schema!Satisfied
<1>2. p \in db /\ q \in db /\ Schema!SameKey(p, q)
  BY <1>1 DEF Schema!Rows, Schema!SameKey
<1>3. p = q
  BY <1>2 DEF Schema!Unique
<1> QED BY <1>1, <1>3

\* Agreeing references, founded rows and unique events make a sound database.
LEMMA FoundedIsSound ==
  ASSUME NEW db, Schema!Unique(db), Schema!Referential(db), \A r \in db : Founded(r, db)
  PROVE  Schema!Sound(db)
<1>1. Schema!ReferencesAgree(db)
  BY KeysGiveAgreement
<1>2. Schema!BindingsStand(db)
  BY DEF Schema!BindingsStand, Founded
<1>3. Schema!LifecycleIsAPath(db)
  <2> SUFFICES ASSUME NEW e \in Schema!Rows("proposallifecycleevent", db)
               PROVE  /\ \A f \in Schema!Events(e, db) : e.sequence = f.sequence => e = f
                      /\ StepsOn(e, db)
    BY DEF Schema!LifecycleIsAPath, StepsOn
  <2>1. e \in db /\ e.table = "proposallifecycleevent"
    BY DEF Schema!Rows
  <2>2. ASSUME NEW f \in Schema!Events(e, db), e.sequence = f.sequence
        PROVE  e = f
    <3>1. f \in db /\ Schema!SameKey(e, f)
      BY <2>1, <2>2 DEF Schema!Events, Schema!Rows, Schema!SameKey
    <3> QED BY <2>1, <3>1 DEF Schema!Unique
  <2>3. StepsOn(e, db)
    BY <2>1 DEF Founded
  <2> QED BY <2>2, <2>3
<1> QED BY <1>1, <1>2, <1>3 DEF Schema!Sound

\* The other way round.
LEMMA SoundIsFounded ==
  ASSUME NEW db, Schema!Sound(db), NEW r \in db
  PROVE  Founded(r, db)
<1>1. CASE r.table = "proposallifecycleevent"
  <2>1. r \in Schema!Rows("proposallifecycleevent", db)
    BY <1>1 DEF Schema!Rows
  <2> QED BY <1>1, <2>1 DEF Schema!Sound, Schema!LifecycleIsAPath, Founded, StepsOn
<1>2. CASE r.table # "proposallifecycleevent"
  BY <1>2 DEF Schema!Sound, Schema!BindingsStand, Founded
<1> QED BY <1>1, <1>2

LEMMA SchemaInit == Schema!Init => SchemaInv
  BY DEF Schema!Init, SchemaInv, Schema!LineageHolds, StatementInv, Schema!Idle

\* The start of a statement changes no row.
LEMMA BeginKeeps ==
  ASSUME SchemaInv, NEW w \in Callers, NEW takes, NEW puts, Schema!Begin(w, takes, puts),
         \A r \in takes : r.table \notin Schema!VerificationRecords,
         \A r \in puts : Founded(r, tables)
  PROVE  SchemaInv'
<1>1. tables' = tables
  BY DEF Schema!Begin
<1>2. Schema!Unique(tables)' /\ Schema!Referential(tables)' /\ Schema!LineageHolds'
  BY <1>1 DEF SchemaInv, Schema!LineageHolds
<1>3. DOMAIN statement' = Callers
  BY DEF SchemaInv, Schema!Begin
<1>4. ASSUME NEW v \in Callers
      PROVE  /\ \A r \in statement'[v].takes : r.table \notin Schema!VerificationRecords
             /\ \A r \in statement'[v].puts : Founded(r, tables)
  <2>1. CASE v = w
    <3>1. statement'[v].takes = takes /\ statement'[v].puts = puts
      BY <2>1 DEF SchemaInv, Schema!Begin
    <3> QED BY <3>1
  <2>2. CASE v # w
    <3>1. statement'[v] = statement[v]
      BY <2>2 DEF SchemaInv, Schema!Begin
    <3> QED BY <3>1 DEF SchemaInv, StatementInv
  <2> QED BY <2>1, <2>2
<1>5. StatementInv'
  BY <1>1, <1>4 DEF StatementInv
<1> QED BY <1>2, <1>3, <1>5 DEF SchemaInv

LEMMA StatementInsertInv ==
  ASSUME SchemaInv, NEW w \in Callers, NEW r, Schema!Insert(w, r)
  PROVE  SchemaInv'
<1>1. Founded(r, tables) /\ Schema!Begin(w, {}, {r})
  BY InsertIsFounded DEF Schema!Insert
<1> QED BY <1>1, BeginKeeps

LEMMA StatementUpdateInv ==
  ASSUME SchemaInv, NEW w \in Callers, NEW old, NEW new \in Schema!Rows(old.table, CandidateRows),
         Schema!Update(w, old, new)
  PROVE  SchemaInv'
<1>1. Schema!Begin(w, {old}, {new}) /\ old.table \notin Schema!VerificationRecords
  BY DEF Schema!Update, Schema!Immutable
<1>2. new.table \notin Schema!VerificationRecords
  BY <1>1 DEF Schema!Rows
<1>3. Founded(new, tables)
  BY <1>2, PlainIsFounded
<1> QED BY <1>1, <1>3, BeginKeeps

LEMMA StatementDeleteInv ==
  ASSUME SchemaInv, NEW w \in Callers, NEW r, Schema!Delete(w, r)
  PROVE  SchemaInv'
<1>1. Schema!Begin(w, {r}, {}) /\ r.table \notin Schema!VerificationRecords
  BY GovernedAreOthers DEF Schema!Delete, Schema!Immutable, Schema!Granted
<1> QED BY <1>1, BeginKeeps

\* The end of a statement: kept rows and founded ones, checked for keys and references.
LEMMA StatementFinishInv == ASSUME SchemaInv, NEW w \in Callers, Schema!Finish(w) PROVE SchemaInv'
<1> DEFINE after == (tables \ statement[w].takes) \cup statement[w].puts
<1>1. tables' = tables \/ (tables' = after /\ Schema!Unique(after) /\ Schema!Referential(after))
  BY DEF Schema!Finish
<1>2. Keeps(tables, tables')
  <2>1. Keeps(tables, after)
    BY DEF Keeps, SchemaInv, StatementInv
  <2> QED BY <1>1, <2>1 DEF Keeps
<1>3. Schema!Unique(tables') /\ Schema!Referential(tables')
  BY <1>1 DEF SchemaInv
<1>4. \A r \in tables' : Founded(r, tables')
  <2> SUFFICES ASSUME NEW r \in tables' PROVE Founded(r, tables')
    OBVIOUS
  <2>1. r \in tables \/ r \in statement[w].puts
    BY <1>1
  <2>2. Founded(r, tables)
    BY <2>1, SoundIsFounded DEF SchemaInv, Schema!LineageHolds, StatementInv
  <2> QED BY <1>2, <2>2, FoundedLasts
<1>5. Schema!LineageHolds'
  BY <1>3, <1>4, FoundedIsSound DEF Schema!LineageHolds
<1>6. DOMAIN statement' = Callers
  BY DEF SchemaInv, Schema!Finish
<1>7. ASSUME NEW v \in Callers
      PROVE  /\ \A r \in statement'[v].takes : r.table \notin Schema!VerificationRecords
             /\ \A r \in statement'[v].puts : Founded(r, tables')
  <2>1. CASE v = w
    <3>1. statement'[v].takes = {} /\ statement'[v].puts = {}
      BY <2>1 DEF SchemaInv, Schema!Finish, Schema!Idle
    <3> QED BY <3>1
  <2>2. CASE v # w
    <3>1. statement'[v] = statement[v]
      BY <2>2 DEF SchemaInv, Schema!Finish
    <3>2. \A r \in statement[v].puts : Founded(r, tables')
      BY <1>2, FoundedLasts DEF SchemaInv, StatementInv
    <3> QED BY <3>1, <3>2 DEF SchemaInv, StatementInv
  <2> QED BY <2>1, <2>2
<1>8. StatementInv'
  BY <1>7 DEF StatementInv
<1>9. Schema!Unique(tables)' /\ Schema!Referential(tables)'
  BY <1>3
<1> QED BY <1>5, <1>6, <1>8, <1>9 DEF SchemaInv

LEMMA SchemaNext == SchemaInv /\ [Schema!Next]_(Schema!vars) => SchemaInv'
<1> SUFFICES ASSUME SchemaInv, [Schema!Next]_(Schema!vars) PROVE SchemaInv'
  OBVIOUS
<1>1. CASE Schema!Next
  <2>1. ASSUME NEW w \in Callers, NEW r \in CandidateRows, Schema!Insert(w, r) PROVE SchemaInv'
    BY <2>1, StatementInsertInv
  <2>2. ASSUME NEW w \in Callers, NEW old \in tables, NEW new
               \in Schema!Rows(old.table, CandidateRows),
               Schema!Update(w, old, new)
        PROVE  SchemaInv'
    BY <2>2, StatementUpdateInv
  <2>3. ASSUME NEW w \in Callers, NEW r \in tables, Schema!Delete(w, r) PROVE SchemaInv'
    BY <2>3, StatementDeleteInv
  <2>4. ASSUME NEW w \in Callers, Schema!Finish(w) PROVE SchemaInv'
    BY <2>4, StatementFinishInv
  <2> QED BY <1>1, <2>1, <2>2, <2>3, <2>4 DEF Schema!Next
<1>2. CASE UNCHANGED Schema!vars
  BY <1>2 DEF Schema!vars, SchemaInv, Schema!LineageHolds, StatementInv
<1> QED BY <1>1, <1>2

\* Whatever statements run side by side, a row refers to rows of its own tenant and context,
\* was bound to what it refers to, and the events of a proposal are one path of its lifecycle
\* (the triggers and foreign keys of the integrity migrations).
THEOREM LineageIsSound == Schema!Spec => []LineageHolds
<1>1. SchemaInv => LineageHolds
  BY DEF SchemaInv, LineageHolds
<1>. QED
  BY <1>1, SchemaInit, SchemaNext, PTL DEF Schema!Spec

--------------------------------------------------------------------------------
\* Every service keeps its types and the bounds they state: the locks of the ledger, the
\* transactions of retention, the bundles and attempts of model analyses, the budgets of an
\* investigation, and containers that start only verified and hardened.
THEOREM ServicesTypes ==
  Spec /\ Retention!Spec /\ Llm!Spec /\ Agent!Spec /\ Runner!Spec => []ServicesTypeOK
<1>1. TypeOK /\ RetentionInv /\ LlmInv /\ AgentInv /\ RunnerInv => ServicesTypeOK
  BY DEF RetentionInv, LlmInv, AgentInv, RunnerInv, ServicesTypeOK
<1>. QED
  BY <1>1, TypeCorrect, RetentionInvariant, LlmInvariant, AgentInvariant, RunnerInvariant, PTL
================================================================================
