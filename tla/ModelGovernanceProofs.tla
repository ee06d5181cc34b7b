------------------------- MODULE ModelGovernanceProofs -------------------------
(***************************************************************************)
(* Proofs about ModelGovernance for any artifacts, calls and demands.  The *)
(* one fact everything rests on is that a call which holds the deployment  *)
(* row has read it as it is: the pointer can then only move from what was  *)
(* read.                                                                   *)
(***************************************************************************)
EXTENDS ModelGovernance, TLAPS

\* Without a row there is nothing to point at; with one, something serves.
DeploymentInv ==
  /\ deployment.generation = 0 => deployment = NoDeployment
  /\ deployment.generation > 0 => deployment.active \in Artifacts

\* What a call has read is not newer than the deployment; read at the present
\* generation, or by the call that holds the row, it is the deployment.
HeldInv ==
  \A c \in Calls :
    /\ held[c].generation <= deployment.generation
    /\ held[c].generation = deployment.generation => held[c] = deployment
    /\ pc[c] = "lock" => held[c].generation > 0
    /\ deployLock = c => held[c] = deployment /\ deployment.generation > 0

\* What a call has checked before its present step.
CallInv ==
  \A c \in Calls :
    /\ pc[c] = "begin" => Asked(c) \in Artifacts
    /\ pc[c] = "activate"
         => held[c].active # Asked(c) /\ RetirementApproved(c, held[c].active)
    /\ pc[c] \in {"retire", "restore"} => held[c].rollback \in Artifacts
    /\ pc[c] = "restore" => RetirementApproved(c, held[c].active)

IInv ==
  /\ TypeOK
  /\ PointerAgrees
  /\ RollbackIsKnown
  /\ DeploymentInv
  /\ HeldInv
  /\ CallInv

\* The locks a call gives back are its own.
LEMMA ReleaseOwn ==
  ASSUME TypeOK, NEW c \in Calls, Release(c)
  PROVE  /\ artifactLock' \in [Artifacts -> Calls \cup {NoCall}]
         /\ share' \in [Calls -> SUBSET Artifacts]
         /\ deployLock' \in Calls \cup {NoCall}
         /\ deployLock' # c
         /\ \A d \in Calls \ {c} : deployLock' = d <=> deployLock = d
         /\ \A d \in Calls \ {c}, a \in Artifacts : artifactLock[a] = d => artifactLock'[a] = d
  BY GovernanceAssumption DEF TypeOK, Release

\* A call that ends keeps the types, whatever it did to the rows.
LEMMA FinishKeepsTypes ==
  ASSUME TypeOK, NEW c \in Calls, Finish(c),
         state' \in [Artifacts -> States],
         deployment' \in [active : Authorized, rollback : Authorized, generation : Nat]
  PROVE  TypeOK'
<1>1. /\ pc' = [pc EXCEPT ![c] = "idle"]
      /\ demand' = [demand EXCEPT ![c] = NoDemand]
      /\ held' = [held EXCEPT ![c] = NoDeployment]
      /\ Release(c)
  BY DEF Finish, Goto
<1>2. NoDeployment \in [active : Authorized, rollback : Authorized, generation : Nat]
  BY DEF NoDeployment, Deployed, Authorized
<1>3. /\ demand' \in [Calls -> Demands \cup {NoDemand}]
      /\ pc' \in [Calls -> Steps]
      /\ held' \in [Calls -> [active : Authorized, rollback : Authorized, generation : Nat]]
  BY <1>1, <1>2 DEF TypeOK, Steps
<1>4. /\ artifactLock' \in [Artifacts -> Calls \cup {NoCall}]
      /\ share' \in [Calls -> SUBSET Artifacts]
      /\ deployLock' \in Calls \cup {NoCall}
  BY <1>1, ReleaseOwn
<1>5. ASSUME NEW d \in Calls
      PROVE  pc'[d] \in {"replace", "activate", "retire", "restore"} <=> deployLock' = d
  BY <1>1, ReleaseOwn DEF TypeOK
<1>6. ASSUME NEW d \in Calls,
             pc'[d] \in {"promote", "deployment", "first", "replace", "activate"}
      PROVE  Asked(d)' \in Artifacts /\ artifactLock'[Asked(d)'] = d
  <2>1. d # c /\ pc'[d] = pc[d] /\ demand'[d] = demand[d]
    BY <1>1, <1>6 DEF TypeOK
  <2>2. demand[d].artifact \in Artifacts /\ artifactLock[demand[d].artifact] = d
    BY <2>1, <1>6 DEF TypeOK, Asked
  <2>. QED  BY <2>1, <2>2, <1>1, ReleaseOwn DEF Asked
<1>. QED  BY <1>3, <1>4, <1>5, <1>6 DEF TypeOK

\* A call that ends keeps what the others have checked and read, if the deployment
\* is left alone or moved on by a call that may move it.
LEMMA FinishKeepsCalls ==
  ASSUME IInv, NEW c \in Calls, Finish(c),
         \/ deployment' = deployment
         \/ /\ deployment'.generation = deployment.generation + 1
            /\ \A d \in Calls \ {c} : deployLock # d
  PROVE  HeldInv' /\ CallInv'
<1>1. /\ pc' = [pc EXCEPT ![c] = "idle"]
      /\ demand' = [demand EXCEPT ![c] = NoDemand]
      /\ held' = [held EXCEPT ![c] = NoDeployment]
      /\ Release(c)
  BY DEF Finish, Goto
<1>2. \A d \in Calls \ {c} : pc'[d] = pc[d] /\ demand'[d] = demand[d] /\ held'[d] = held[d]
  BY <1>1 DEF IInv, TypeOK
<1>3. pc'[c] = "idle" /\ held'[c] = NoDeployment
  BY <1>1 DEF IInv, TypeOK
<1>4. CallInv'
  BY <1>2, <1>3 DEF IInv, CallInv, Asked, RetirementApproved
<1>5. deployLock' # c /\ \A d \in Calls \ {c} : deployLock' = d <=> deployLock = d
  BY <1>1, ReleaseOwn DEF IInv
<1>6. deployment.generation \in Nat /\ \A d \in Calls : held[d].generation \in Nat
  BY DEF IInv, TypeOK
<1>7. HeldInv'
  <2>1. CASE deployment' = deployment
    BY <2>1, <1>2, <1>3, <1>5, <1>6 DEF IInv, HeldInv, DeploymentInv, NoDeployment, Deployed
  <2>2. CASE /\ deployment'.generation = deployment.generation + 1
             /\ \A d \in Calls \ {c} : deployLock # d
    BY <2>2, <1>2, <1>3, <1>5, <1>6 DEF IInv, HeldInv, NoDeployment, Deployed
  <2>. QED  BY <2>1, <2>2
<1>. QED  BY <1>4, <1>7

LEMMA RollsBackPreserves ==
  ASSUME IInv, NEW c \in Calls, RollsBack(c)
  PROVE  IInv'
<1>1. Finish(c) /\ state' = state /\ deployment' = deployment
  BY DEF RollsBack, rows
<1>2. TypeOK'
  BY <1>1, FinishKeepsTypes DEF IInv, TypeOK
<1>3. HeldInv' /\ CallInv'
  BY <1>1, FinishKeepsCalls
<1>4. PointerAgrees' /\ RollbackIsKnown' /\ DeploymentInv'
  BY <1>1 DEF IInv, PointerAgrees, RollbackIsKnown, DeploymentInv
<1>. QED  BY <1>2, <1>3, <1>4 DEF IInv

--------------------------------------------------------------------------------
LEMMA InitEstablishes == Init => IInv
<1>. SUFFICES ASSUME Init PROVE IInv
  OBVIOUS
<1>1. TypeOK
  BY GovernanceAssumption
  DEF Init, TypeOK, States, Steps, NoDeployment, Deployed, Authorized
<1>2. PointerAgrees /\ RollbackIsKnown /\ DeploymentInv
  BY GovernanceAssumption
  DEF Init, PointerAgrees, RollbackIsKnown, DeploymentInv, NoDeployment, Deployed
<1>3. HeldInv /\ CallInv
  BY GovernanceAssumption DEF Init, HeldInv, CallInv, NoDeployment, Deployed
<1>. QED  BY <1>1, <1>2, <1>3 DEF IInv

--------------------------------------------------------------------------------
(* Steps that change no row: a call begins, reads, checks or takes a lock.  *)

LEMMA RegisterPreserves ==
  ASSUME IInv, NEW a \in Artifacts, Register(a)
  PROVE  IInv'
<1>1. TypeOK'
  BY DEF IInv, TypeOK, Register, States, locks, Asked
<1>2. PointerAgrees' /\ RollbackIsKnown' /\ DeploymentInv'
  BY DEF IInv, TypeOK, Register, PointerAgrees, RollbackIsKnown, DeploymentInv
<1>3. HeldInv' /\ CallInv'
  BY DEF IInv, Register, HeldInv, CallInv, Asked, RetirementApproved, locks
<1>. QED  BY <1>1, <1>2, <1>3 DEF IInv

LEMMA BeginPreserves ==
  ASSUME IInv, NEW c \in Calls, NEW d \in Demands, Begin(c, d)
  PROVE  IInv'
<1>1. /\ demand' = [demand EXCEPT ![c] = d]
      /\ pc' = [pc EXCEPT ![c] = IF d.kind = "rollback" THEN "read" ELSE "begin"]
      /\ UNCHANGED <<rows, held, locks>>
      /\ pc[c] = "idle"
  BY DEF Begin, Goto
<1>2. d.kind # "rollback" => d.artifact \in Artifacts
  BY GovernanceAssumption
<1>3. TypeOK'
  BY <1>1 DEF IInv, TypeOK, Steps, rows, locks, Asked
<1>4. PointerAgrees' /\ RollbackIsKnown' /\ DeploymentInv'
  BY <1>1 DEF IInv, PointerAgrees, RollbackIsKnown, DeploymentInv, rows
<1>5. HeldInv'
  BY <1>1 DEF IInv, TypeOK, HeldInv, rows, locks
<1>6. CallInv'
  BY <1>1, <1>2 DEF IInv, TypeOK, CallInv, Asked, RetirementApproved
<1>. QED  BY <1>3, <1>4, <1>5, <1>6 DEF IInv

LEMMA LockArtifactPreserves ==
  ASSUME IInv, NEW c \in Calls, LockArtifact(c)
  PROVE  IInv'
<1>1. /\ artifactLock[Asked(c)] = NoCall /\ Asked(c) \in Artifacts
      /\ artifactLock' = [artifactLock EXCEPT ![Asked(c)] = c]
      /\ pc[c] = "begin"
      /\ pc' = [pc EXCEPT ![c] = IF demand[c].kind = "promote" THEN "promote" ELSE "deployment"]
      /\ UNCHANGED <<rows, demand, held, share, deployLock>>
  BY DEF LockArtifact, Goto, ArtifactFree, IInv, CallInv
<1>2. TypeOK'
  BY <1>1, GovernanceAssumption DEF IInv, TypeOK, Steps, rows, Asked
<1>3. PointerAgrees' /\ RollbackIsKnown' /\ DeploymentInv'
  BY <1>1 DEF IInv, PointerAgrees, RollbackIsKnown, DeploymentInv, rows
<1>4. HeldInv' /\ CallInv'
  BY <1>1 DEF IInv, TypeOK, HeldInv, CallInv, Asked, RetirementApproved, rows
<1>. QED  BY <1>2, <1>3, <1>4 DEF IInv

LEMMA LockDeploymentPreserves ==
  ASSUME IInv, NEW c \in Calls, LockDeployment(c)
  PROVE  IInv'
<1>1. /\ pc[c] = "deployment"
      /\ held' = [held EXCEPT ![c] = deployment]
      /\ UNCHANGED <<rows, demand, artifactLock, share>>
  BY DEF LockDeployment
<1>2. \/ pc' = [pc EXCEPT ![c] = "first"] /\ deployLock' = deployLock
      \/ /\ pc' = [pc EXCEPT ![c] = "replace"]
         /\ deployLock = NoCall /\ deployLock' = c
         /\ deployment.generation > 0
  BY DEF LockDeployment, Goto, DeploymentFree
<1>3. PointerAgrees' /\ RollbackIsKnown' /\ DeploymentInv'
  BY <1>1 DEF IInv, PointerAgrees, RollbackIsKnown, DeploymentInv, rows
<1>4. TypeOK'
  BY <1>1, <1>2, GovernanceAssumption DEF IInv, TypeOK, Steps, rows, Asked
<1>5. HeldInv'
  BY <1>1, <1>2, GovernanceAssumption DEF IInv, TypeOK, HeldInv, rows
<1>6. CallInv'
  BY <1>1, <1>2 DEF IInv, TypeOK, CallInv, Asked, RetirementApproved
<1>. QED  BY <1>3, <1>4, <1>5, <1>6 DEF IInv

LEMMA RetireReplacedPreserves ==
  ASSUME IInv, NEW c \in Calls, RetireReplaced(c)
  PROVE  IInv'
<1>1. /\ pc[c] = "replace"
      /\ pc' = [pc EXCEPT ![c] = "activate"]
      /\ share' = [share EXCEPT ![c] = @ \cup {held[c].active}]
      /\ UNCHANGED <<rows, demand, held, artifactLock, deployLock>>
      /\ held[c].active # Asked(c) /\ RetirementApproved(c, held[c].active)
  BY DEF RetireReplaced, MayReplace, Goto, Refer
<1>2. held[c] = deployment /\ held[c].active \in Artifacts
  BY <1>1 DEF IInv, TypeOK, HeldInv, DeploymentInv
<1>3. PointerAgrees' /\ RollbackIsKnown' /\ DeploymentInv'
  BY <1>1 DEF IInv, PointerAgrees, RollbackIsKnown, DeploymentInv, rows
<1>4. TypeOK'
  BY <1>1, <1>2 DEF IInv, TypeOK, Steps, rows, Asked
<1>5. HeldInv' /\ CallInv'
  BY <1>1 DEF IInv, TypeOK, HeldInv, CallInv, Asked, RetirementApproved, rows
<1>. QED  BY <1>3, <1>4, <1>5 DEF IInv

LEMMA ReadForRollbackPreserves ==
  ASSUME IInv, NEW c \in Calls, ReadForRollback(c)
  PROVE  IInv'
<1>1. /\ pc[c] = "read" /\ deployment.generation > 0
      /\ pc' = [pc EXCEPT ![c] = "lock"]
      /\ held' = [held EXCEPT ![c] = deployment]
      /\ UNCHANGED <<rows, demand, locks>>
  BY DEF ReadForRollback, Goto
<1>2. PointerAgrees' /\ RollbackIsKnown' /\ DeploymentInv'
  BY <1>1 DEF IInv, PointerAgrees, RollbackIsKnown, DeploymentInv, rows
<1>3. TypeOK'
  BY <1>1 DEF IInv, TypeOK, Steps, rows, locks, Asked
<1>4. HeldInv' /\ CallInv'
  BY <1>1 DEF IInv, TypeOK, HeldInv, CallInv, Asked, RetirementApproved, rows, locks
<1>. QED  BY <1>2, <1>3, <1>4 DEF IInv

LEMMA LockForRollbackPreserves ==
  ASSUME IInv, NEW c \in Calls, LockForRollback(c)
  PROVE  IInv'
<1>1. /\ pc[c] = "lock" /\ deployLock = NoCall
      /\ deployment.generation = held[c].generation /\ held[c].rollback # NoArtifact
      /\ pc' = [pc EXCEPT ![c] = "retire"]
      /\ deployLock' = c
      /\ UNCHANGED <<rows, demand, held, artifactLock, share>>
  BY DEF LockForRollback, Goto, DeploymentFree, Available
<1>2. held[c] = deployment /\ deployment.generation > 0 /\ held[c].rollback \in Artifacts
  BY <1>1 DEF IInv, TypeOK, HeldInv, Authorized
<1>3. PointerAgrees' /\ RollbackIsKnown' /\ DeploymentInv'
  BY <1>1 DEF IInv, PointerAgrees, RollbackIsKnown, DeploymentInv, rows
<1>4. TypeOK'
  BY <1>1, GovernanceAssumption DEF IInv, TypeOK, Steps, rows, Asked
<1>5. HeldInv' /\ CallInv'
  BY <1>1, <1>2, GovernanceAssumption
  DEF IInv, TypeOK, HeldInv, CallInv, Asked, RetirementApproved, rows
<1>. QED  BY <1>3, <1>4, <1>5 DEF IInv

LEMMA RetireForRollbackPreserves ==
  ASSUME IInv, NEW c \in Calls, RetireForRollback(c)
  PROVE  IInv'
<1>1. /\ pc[c] = "retire"
      /\ pc' = [pc EXCEPT ![c] = "restore"]
      /\ share' = [share EXCEPT ![c] = @ \cup {held[c].active}]
      /\ UNCHANGED <<rows, demand, held, artifactLock, deployLock>>
      /\ RetirementApproved(c, held[c].active)
  BY DEF RetireForRollback, MayRetire, Goto, Refer
<1>2. held[c].active \in Artifacts
  BY <1>1 DEF IInv, TypeOK, HeldInv, DeploymentInv
<1>3. PointerAgrees' /\ RollbackIsKnown' /\ DeploymentInv'
  BY <1>1 DEF IInv, PointerAgrees, RollbackIsKnown, DeploymentInv, rows
<1>4. TypeOK'
  BY <1>1, <1>2 DEF IInv, TypeOK, Steps, rows, Asked
<1>5. HeldInv' /\ CallInv'
  BY <1>1 DEF IInv, TypeOK, HeldInv, CallInv, Asked, RetirementApproved, rows
<1>. QED  BY <1>3, <1>4, <1>5 DEF IInv

--------------------------------------------------------------------------------
(* Commits.                                                                 *)

LEMMA PromotePreserves ==
  ASSUME IInv, NEW c \in Calls, Promote(c)
  PROVE  IInv'
<1>1. /\ Asked(c) \in Artifacts /\ state[Asked(c)] = "candidate"
      /\ state' = [state EXCEPT ![Asked(c)] = "staging"]
      /\ Finish(c) /\ deployment' = deployment
  BY DEF Promote, IInv, TypeOK
<1>2. TypeOK'
  BY <1>1, FinishKeepsTypes DEF IInv, TypeOK, States
<1>3. HeldInv' /\ CallInv'
  BY <1>1, FinishKeepsCalls
<1>4. PointerAgrees' /\ RollbackIsKnown' /\ DeploymentInv'
  BY <1>1 DEF IInv, TypeOK, PointerAgrees, RollbackIsKnown, DeploymentInv
<1>. QED  BY <1>2, <1>3, <1>4 DEF IInv

LEMMA ActivateFirstPreserves ==
  ASSUME IInv, NEW c \in Calls, ActivateFirst(c)
  PROVE  IInv'
<1>1. /\ Asked(c) \in Artifacts /\ state[Asked(c)] = "staging"
      /\ deployment.generation = 0
      /\ state' = [state EXCEPT ![Asked(c)] = "active"]
      /\ deployment' = Deployed(Asked(c), NoArtifact, 1)
      /\ Finish(c)
  BY DEF ActivateFirst, MayActivate, KeyFree, IInv, TypeOK
<1>2. \A a \in Artifacts : state[a] # "active"
  BY <1>1, GovernanceAssumption
  DEF IInv, PointerAgrees, DeploymentInv, NoDeployment, Deployed
<1>3. TypeOK'
  BY <1>1, FinishKeepsTypes DEF IInv, TypeOK, States, Deployed, Authorized
<1>4. HeldInv' /\ CallInv'
  <2>1. deployment'.generation = deployment.generation + 1
    BY <1>1 DEF Deployed
  <2>2. \A d \in Calls : deployLock # d
    BY <1>1 DEF IInv, HeldInv
  <2>. QED  BY <1>1, <2>1, <2>2, FinishKeepsCalls
<1>5. PointerAgrees' /\ RollbackIsKnown' /\ DeploymentInv'
  BY <1>1, <1>2, GovernanceAssumption
  DEF IInv, TypeOK, PointerAgrees, RollbackIsKnown, DeploymentInv, Deployed
<1>. QED  BY <1>3, <1>4, <1>5 DEF IInv

\* A commit of the call that holds the deployment moves on from what it has read.
LEMMA HolderMovesOn ==
  ASSUME IInv, NEW c \in Calls, pc[c] \in {"activate", "restore"},
         deployment'.generation = held[c].generation + 1, Finish(c)
  PROVE  HeldInv' /\ CallInv'
<1>1. deployLock = c /\ held[c] = deployment
  BY DEF IInv, TypeOK, HeldInv
<1>. QED  BY <1>1, FinishKeepsCalls

LEMMA ActivateReplacingPreserves ==
  ASSUME IInv, NEW c \in Calls, ActivateReplacing(c)
  PROVE  IInv'
<1>1. /\ pc[c] = "activate" /\ Asked(c) \in Artifacts /\ state[Asked(c)] = "staging"
      /\ state' = [state EXCEPT ![held[c].active] = "retired", ![Asked(c)] = "active"]
      /\ deployment' = Deployed(Asked(c), held[c].active, held[c].generation + 1)
      /\ Finish(c)
  BY DEF ActivateReplacing, MayActivate, Replaced, NextRollback, IInv, TypeOK
<1>2. held[c] = deployment /\ deployment.generation > 0 /\ deployment.generation \in Nat
  BY <1>1 DEF IInv, TypeOK, HeldInv
<1>3. deployment.active \in Artifacts /\ state[deployment.active] = "active"
  BY <1>2 DEF IInv, DeploymentInv, PointerAgrees
<1>4. deployment.active # Asked(c)
  BY <1>1, <1>3
<1>5. TypeOK'
  <2>1. /\ state' \in [Artifacts -> States]
        /\ deployment' \in [active : Authorized, rollback : Authorized, generation : Nat]
    BY <1>1, <1>2, <1>3 DEF IInv, TypeOK, States, Deployed, Authorized
  <2>. QED  BY <1>1, <2>1, FinishKeepsTypes DEF IInv
<1>6. HeldInv' /\ CallInv'
  BY <1>1, HolderMovesOn DEF Deployed
<1>7. PointerAgrees' /\ RollbackIsKnown' /\ DeploymentInv'
  BY <1>1, <1>2, <1>3, <1>4
  DEF IInv, TypeOK, PointerAgrees, RollbackIsKnown, DeploymentInv, Deployed
<1>. QED  BY <1>5, <1>6, <1>7 DEF IInv

LEMMA RestorePreserves ==
  ASSUME IInv, NEW c \in Calls, Restore(c)
  PROVE  IInv'
<1>1. /\ pc[c] = "restore" /\ state[held[c].rollback] = "retired"
      /\ state' = [state EXCEPT ![held[c].active] = "retired", ![held[c].rollback] = "active"]
      /\ deployment' = Deployed(held[c].rollback, held[c].active, held[c].generation + 1)
      /\ Finish(c)
  BY DEF Restore, MayRestore
<1>2. /\ held[c] = deployment /\ deployment.generation > 0 /\ deployment.generation \in Nat
      /\ deployment.rollback \in Artifacts
  BY <1>1 DEF IInv, TypeOK, HeldInv, CallInv
<1>3. deployment.active \in Artifacts /\ state[deployment.active] = "active"
  BY <1>2 DEF IInv, DeploymentInv, PointerAgrees
<1>4. deployment.active # deployment.rollback
  BY <1>1, <1>2, <1>3
<1>5. TypeOK'
  <2>1. /\ state' \in [Artifacts -> States]
        /\ deployment' \in [active : Authorized, rollback : Authorized, generation : Nat]
    BY <1>1, <1>2, <1>3 DEF IInv, TypeOK, States, Deployed, Authorized
  <2>. QED  BY <1>1, <2>1, FinishKeepsTypes DEF IInv
<1>6. HeldInv' /\ CallInv'
  BY <1>1, HolderMovesOn DEF Deployed
<1>7. PointerAgrees' /\ RollbackIsKnown' /\ DeploymentInv'
  BY <1>1, <1>2, <1>3, <1>4
  DEF IInv, TypeOK, PointerAgrees, RollbackIsKnown, DeploymentInv, Deployed
<1>. QED  BY <1>5, <1>6, <1>7 DEF IInv

--------------------------------------------------------------------------------
LEMMA StepPreserves ==
  ASSUME IInv, NEW c \in Calls, Step(c)
  PROVE  IInv'
<1>1. CASE \/ ArtifactMissing(c) \/ PromoteRefused(c) \/ ActivateFirstRefused(c)
           \/ ReplaceRefused(c) \/ RollbackUnavailable(c) \/ RollbackRefused(c)
           \/ BreakDeadlock(c)
  <2>1. RollsBack(c)
    BY <1>1 DEF ArtifactMissing, PromoteRefused, ActivateFirstRefused, ReplaceRefused,
      RollbackUnavailable, RollbackRefused, BreakDeadlock
  <2>. QED  BY <2>1, RollsBackPreserves
<1>2. CASE LockArtifact(c)      BY <1>2, LockArtifactPreserves
<1>3. CASE LockDeployment(c)    BY <1>3, LockDeploymentPreserves
<1>4. CASE RetireReplaced(c)    BY <1>4, RetireReplacedPreserves
<1>5. CASE ReadForRollback(c)   BY <1>5, ReadForRollbackPreserves
<1>6. CASE LockForRollback(c)   BY <1>6, LockForRollbackPreserves
<1>7. CASE RetireForRollback(c) BY <1>7, RetireForRollbackPreserves
<1>8. CASE Promote(c)           BY <1>8, PromotePreserves
<1>9. CASE ActivateFirst(c)     BY <1>9, ActivateFirstPreserves
<1>10. CASE ActivateReplacing(c) BY <1>10, ActivateReplacingPreserves
<1>11. CASE Restore(c)          BY <1>11, RestorePreserves
<1>. QED
  BY <1>1, <1>2, <1>3, <1>4, <1>5, <1>6, <1>7, <1>8, <1>9, <1>10, <1>11 DEF Step

LEMMA NextPreserves == IInv /\ [Next]_vars => IInv'
<1>. SUFFICES ASSUME IInv, [Next]_vars PROVE IInv'
  OBVIOUS
<1>1. CASE UNCHANGED vars
  BY <1>1 DEF vars, rows, locks, IInv, TypeOK, PointerAgrees, RollbackIsKnown, DeploymentInv,
    HeldInv, CallInv, Asked, RetirementApproved
<1>2. CASE Next
  BY <1>2, RegisterPreserves, BeginPreserves, StepPreserves DEF Next
<1>. QED  BY <1>1, <1>2

\* The locks of a transaction protect what it read until it commits (risk/governance_services.py).
THEOREM GovernanceInvariant == Spec => []IInv
  BY InitEstablishes, NextPreserves, PTL DEF Spec

--------------------------------------------------------------------------------
\* Types, and a call holds the rows of the step it is at.
THEOREM TypeCorrect == Spec => []TypeOK
<1>1. IInv => TypeOK
  BY DEF IInv
<1>. QED  BY <1>1, GovernanceInvariant, PTL

\* The deployment points at the one artifact in state active.
THEOREM PointerAndStatesAgree == Spec => []PointerAgrees
<1>1. IInv => PointerAgrees
  BY DEF IInv
<1>. QED  BY <1>1, GovernanceInvariant, PTL

\* From the second deployment on there is a retired artifact to roll back to.
THEOREM RollbackStaysKnown == Spec => []RollbackIsKnown
<1>1. IInv => RollbackIsKnown
  BY DEF IInv
<1>. QED  BY <1>1, GovernanceInvariant, PTL

\* What a commit of the holder of the deployment row replaces, and by whose approval.
LEMMA ApprovedMoves ==
  ASSUME IInv, NEW c \in Calls
  PROVE  /\ ActivateReplacing(c) =>
              /\ demand[c].retirement = deployment.active
              /\ demand[c].approval = deployment'.active
         /\ Restore(c) =>
              /\ demand[c].retirement = deployment.active
              /\ demand[c].approval = deployment'.active
<1>1. pc[c] \in {"activate", "restore"} =>
        /\ held[c] = deployment
        /\ RetirementApproved(c, held[c].active)
  BY DEF IInv, TypeOK, HeldInv, CallInv
<1>2. ActivateReplacing(c) => pc[c] = "activate" /\ demand[c].approval = deployment'.active
  BY DEF ActivateReplacing, MayActivate, Approved, Deployed
<1>3. Restore(c) => pc[c] = "restore" /\ demand[c].approval = deployment'.active
  BY DEF Restore, MayRestore, Approved, Deployed
<1>. QED  BY <1>1, <1>2, <1>3 DEF RetirementApproved

\* Which calls move the deployment, and which change a state.
LEMMA OnlyCommitsMove ==
  ASSUME [Next]_vars
  PROVE  \/ UNCHANGED rows
         \/ \E a \in Artifacts : Register(a)
         \/ \E c \in Calls : Promote(c) \/ ActivateFirst(c) \/ ActivateReplacing(c) \/ Restore(c)
<1>1. CASE UNCHANGED vars
  BY <1>1 DEF vars
<1>2. CASE \E a \in Artifacts : Register(a)
  BY <1>2
<1>3. ASSUME NEW c \in Calls, NEW d \in Demands, Begin(c, d)
      PROVE  UNCHANGED rows
  BY <1>3 DEF Begin
<1>4. ASSUME NEW c \in Calls, Step(c)
      PROVE  UNCHANGED rows \/ Promote(c) \/ ActivateFirst(c) \/ ActivateReplacing(c) \/ Restore(c)
  BY <1>4 DEF Step, LockArtifact, ArtifactMissing, PromoteRefused, LockDeployment,
    ActivateFirstRefused, RetireReplaced, ReplaceRefused, ReadForRollback, LockForRollback,
    RollbackUnavailable, RetireForRollback, RollbackRefused, BreakDeadlock, RollsBack
<1>. QED  BY <1>1, <1>2, <1>3, <1>4 DEF Next

\* The serving artifact is only replaced under approvals for it and for its successor.
THEOREM ReplacementsAreApproved == Spec => ReplacementIsApproved
<1>1. ASSUME IInv, [Next]_vars
      PROVE  [deployment.generation > 0 =>
                \E c \in Calls : /\ demand[c].retirement = deployment.active
                                 /\ demand[c].approval = deployment'.active]_deployment
  <2>1. CASE UNCHANGED rows
    BY <2>1 DEF rows
  <2>2. ASSUME NEW a \in Artifacts, Register(a)
        PROVE  deployment' = deployment
    BY <2>2 DEF Register
  <2>3. ASSUME NEW c \in Calls, Promote(c)
        PROVE  deployment' = deployment
    BY <2>3 DEF Promote
  <2>4. ASSUME NEW c \in Calls, ActivateFirst(c)
        PROVE  deployment.generation = 0
    BY <2>4 DEF ActivateFirst, KeyFree
  <2>. QED  BY <1>1, <2>1, <2>2, <2>3, <2>4, ApprovedMoves, OnlyCommitsMove
<1>. QED  BY <1>1, GovernanceInvariant, PTL DEF Spec, ReplacementIsApproved

\* Concurrent promotions, activations and rollbacks act as one deployment that is
\* activated and rolled back step by step.
THEOREM RefinesServingModel == Spec => ImplementsServingModel
<1>. DEFINE Used == {a \in Artifacts : state[a] \in {"active", "retired"}}
<1>1. Init => Serving!Init
  BY DEF Init, Serving!Init, NoDeployment, Deployed
<1>2. ASSUME IInv, [Next]_vars
      PROVE  [Serving!Next]_<<deployment.active, deployment.rollback, Used>>
  <2>1. UNCHANGED rows => deployment' = deployment /\ Used' = Used
    BY DEF rows
  <2>2. ASSUME NEW a \in Artifacts, Register(a)
        PROVE  deployment' = deployment /\ Used' = Used
    BY <1>2, <2>2 DEF Register, IInv, TypeOK
  <2>3. ASSUME NEW c \in Calls, Promote(c)
        PROVE  deployment' = deployment /\ Used' = Used
    BY <1>2, <2>3 DEF Promote, IInv, TypeOK
  <2>4. ASSUME NEW c \in Calls, ActivateFirst(c)
        PROVE  \E a \in Artifacts : Serving!Activate(a)
    BY <1>2, <2>4 DEF ActivateFirst, MayActivate, KeyFree, Serving!Activate, IInv, TypeOK,
      DeploymentInv, NoDeployment, Deployed
  <2>5. ASSUME NEW c \in Calls, ActivateReplacing(c)
        PROVE  \E a \in Artifacts : Serving!Activate(a)
    <3>1. /\ pc[c] = "activate" /\ Asked(c) \in Artifacts /\ state[Asked(c)] = "staging"
          /\ state' = [state EXCEPT ![held[c].active] = "retired", ![Asked(c)] = "active"]
          /\ deployment' = Deployed(Asked(c), held[c].active, held[c].generation + 1)
      BY <1>2, <2>5
      DEF ActivateReplacing, MayActivate, Replaced, NextRollback, IInv, TypeOK
    <3>2. held[c] = deployment /\ deployment.active \in Artifacts
      BY <1>2, <3>1 DEF IInv, TypeOK, HeldInv, DeploymentInv
    <3>3. state[deployment.active] = "active"
      BY <1>2, <3>2 DEF IInv, PointerAgrees
    <3>4. Used' = Used \cup {Asked(c)} /\ Asked(c) \notin Used
      BY <1>2, <3>1, <3>2, <3>3 DEF IInv, TypeOK
    <3>. QED  BY <3>1, <3>2, <3>4 DEF Serving!Activate, Deployed
  <2>6. ASSUME NEW c \in Calls, Restore(c)
        PROVE  Serving!Rollback
    <3>1. /\ pc[c] = "restore" /\ state[held[c].rollback] = "retired"
          /\ state' = [state EXCEPT ![held[c].active] = "retired", ![held[c].rollback] = "active"]
          /\ deployment' = Deployed(held[c].rollback, held[c].active, held[c].generation + 1)
      BY <2>6 DEF Restore, MayRestore
    <3>2. /\ held[c] = deployment /\ deployment.active \in Artifacts
          /\ deployment.rollback \in Artifacts
      BY <1>2, <3>1 DEF IInv, TypeOK, HeldInv, DeploymentInv, CallInv
    <3>3. state[deployment.active] = "active"
      BY <1>2, <3>2 DEF IInv, PointerAgrees
    <3>4. Used' = Used
      BY <1>2, <3>1, <3>2, <3>3 DEF IInv, TypeOK
    <3>. QED  BY <3>1, <3>2, <3>4, GovernanceAssumption DEF Serving!Rollback, Deployed
  <2>7. \/ deployment' = deployment /\ Used' = Used
        \/ Serving!Rollback
        \/ \E a \in Artifacts : Serving!Activate(a)
    <3>. HIDE DEF Used
    <3>1. \/ UNCHANGED rows
          \/ \E a \in Artifacts : Register(a)
          \/ \E c \in Calls : Promote(c) \/ ActivateFirst(c) \/ ActivateReplacing(c) \/ Restore(c)
      BY <1>2, OnlyCommitsMove
    <3>2. CASE UNCHANGED rows
      BY <3>2, <2>1
    <3>3. CASE \E a \in Artifacts : Register(a)
      BY <3>3, <2>2
    <3>4. ASSUME NEW c \in Calls, Promote(c) \/ ActivateFirst(c) \/ ActivateReplacing(c) \/ Restore(c)
          PROVE  \/ deployment' = deployment /\ Used' = Used
                 \/ Serving!Rollback
                 \/ \E a \in Artifacts : Serving!Activate(a)
      <4>1. CASE Promote(c)
        BY <4>1, <2>3
      <4>2. CASE ActivateFirst(c)
        BY <4>2, <2>4
      <4>3. CASE ActivateReplacing(c)
        BY <4>3, <2>5
      <4>4. CASE Restore(c)
        BY <4>4, <2>6
      <4>. QED  BY <3>4, <4>1, <4>2, <4>3, <4>4
    <3>. QED  BY <3>1, <3>2, <3>3, <3>4
  <2>. QED  BY <2>7 DEF Serving!Next
<1>. QED  BY <1>1, <1>2, GovernanceInvariant, PTL DEF Spec, ImplementsServingModel, Serving!Spec
================================================================================
