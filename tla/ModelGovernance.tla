---------------------------- MODULE ModelGovernance ----------------------------
(***************************************************************************)
(* Lifecycle of the artifacts of one model name and the deployment that    *)
(* points at the one that serves, under concurrent calls of promote_model_ *)
(* to_staging, activate_model and rollback_model.                          *)
(*                                                                         *)
(* A step ends where a transaction can wait: for an artifact row (taken    *)
(* FOR UPDATE by promotion and activation, and KEY SHARE by the event that *)
(* refers to it), for the deployment row, or for the key of a deployment   *)
(* that another transaction inserts.  What a transaction has written is    *)
(* seen at its commit; a refused one rolls back.                           *)
(***************************************************************************)
EXTENDS Naturals

CONSTANTS
  Artifacts,   \* GovernedModelArtifact rows of the model name
  Calls,       \* processes that call the three services, one call after another
  Demands,     \* what a call may ask: [kind, artifact, approval, retirement]
  MaxGeneration, \* bound: no call begins once the deployment has changed this often
  NoArtifact, NoCall

(* An approval is passing compatibility evidence for one artifact and the  *)
(* action it is used for; NoArtifact stands for one that authorizes        *)
(* neither.                                                                *)
Authorized == Artifacts \cup {NoArtifact}

ASSUME GovernanceAssumption ==
  /\ Demands \subseteq [kind : {"promote", "activate"}, artifact : Artifacts,
                        approval : Authorized, retirement : Authorized]
                 \cup [kind : {"rollback"}, artifact : {NoArtifact},
                       approval : Authorized, retirement : Authorized]
  /\ NoArtifact \notin Artifacts /\ NoCall \notin Calls
  /\ MaxGeneration \in Nat

Deployed(a, r, g) == [active |-> a, rollback |-> r, generation |-> g]
NoDeployment == Deployed(NoArtifact, NoArtifact, 0)
NoDemand == [kind |-> "none", artifact |-> NoArtifact, approval |-> NoArtifact,
             retirement |-> NoArtifact]

VARIABLES
  state,        \* to_state of the latest lifecycle event of each artifact
  deployment,   \* [active, rollback, generation]; generation 0: no row
  demand,       \* what each call asks
  pc,           \* where each call is
  held,         \* the deployment as each call has read it
  artifactLock, \* the call that holds an artifact FOR UPDATE
  share,        \* the artifacts a call holds FOR KEY SHARE
  deployLock    \* the call that holds the deployment FOR UPDATE

rows  == <<state, deployment>>
locks == <<artifactLock, share, deployLock>>
vars  == <<rows, demand, pc, held, locks>>

Init ==
  /\ state = [a \in Artifacts |-> "none"]
  /\ deployment = NoDeployment
  /\ demand = [c \in Calls |-> NoDemand]
  /\ pc = [c \in Calls |-> "idle"]
  /\ held = [c \in Calls |-> NoDeployment]
  /\ artifactLock = [a \in Artifacts |-> NoCall]
  /\ share = [c \in Calls |-> {}]
  /\ deployLock = NoCall

Goto(c, step) == pc' = [pc EXCEPT ![c] = step]

\* The end of a transaction gives its locks back.
Release(c) ==
  /\ artifactLock' = [a \in Artifacts |-> IF artifactLock[a] = c THEN NoCall ELSE artifactLock[a]]
  /\ share' = [share EXCEPT ![c] = {}]
  /\ deployLock' = IF deployLock = c THEN NoCall ELSE deployLock

Finish(c) ==
  /\ Goto(c, "idle")
  /\ demand' = [demand EXCEPT ![c] = NoDemand]
  /\ held' = [held EXCEPT ![c] = NoDeployment]
  /\ Release(c)
RollsBack(c) == Finish(c) /\ UNCHANGED rows

\* A row is free for one call to lock, or to refer to.
ArtifactFree(c, a) ==
  /\ artifactLock[a] = NoCall
  /\ \A d \in Calls \ {c} : a \notin share[d]
MayReferTo(c, a)   == artifactLock[a] \in {NoCall, c}
DeploymentUnlocked == TRUE   \* mutated form: the deployment is read without a lock
DeploymentFree     == deployLock = NoCall

Refer(c, a) == share' = [share EXCEPT ![c] = @ \cup {a}]

--------------------------------------------------------------------------------
\* register_model_artifact: a second registration of the version finds the first.
Register(a) ==
  /\ state[a] = "none"
  /\ state' = [state EXCEPT ![a] = "candidate"]
  /\ UNCHANGED <<deployment, demand, pc, held, locks>>

Begin(c, d) ==
  /\ pc[c] = "idle"
  /\ deployment.generation < MaxGeneration
  /\ demand' = [demand EXCEPT ![c] = d]
  /\ Goto(c, IF d.kind = "rollback" THEN "read" ELSE "begin")
  /\ UNCHANGED <<rows, held, locks>>

Asked(c) == demand[c].artifact

LockArtifact(c) ==
  /\ pc[c] = "begin"
  /\ state[Asked(c)] # "none"
  /\ ArtifactFree(c, Asked(c))
  /\ artifactLock' = [artifactLock EXCEPT ![Asked(c)] = c]
  /\ Goto(c, IF demand[c].kind = "promote" THEN "promote" ELSE "deployment")
  /\ UNCHANGED <<rows, demand, held, share, deployLock>>

\* No artifact has the identifier: 404.
ArtifactMissing(c) ==
  /\ pc[c] = "begin"
  /\ state[Asked(c)] = "none"
  /\ RollsBack(c)

\* validate_model_transition and the checks of _event.
Approved(c, a) == demand[c].approval = a
RetirementApprovedForAny(c, a) == demand[c].retirement # NoArtifact   \* mutated form
RetirementApproved(c, a) == demand[c].retirement = a

Promote(c) ==
  /\ pc[c] = "promote"
  /\ state[Asked(c)] = "candidate" /\ Approved(c, Asked(c))
  /\ state' = [state EXCEPT ![Asked(c)] = "staging"]
  /\ Finish(c)
  /\ UNCHANGED deployment

PromoteRefused(c) ==
  /\ pc[c] = "promote"
  /\ ~(state[Asked(c)] = "candidate" /\ Approved(c, Asked(c)))
  /\ RollsBack(c)

--------------------------------------------------------------------------------
(* activate_model                                                           *)

MayActivate(c) == state[Asked(c)] = "staging" /\ Approved(c, Asked(c))

LockDeployment(c) ==
  /\ pc[c] = "deployment"
  /\ \/ deployment.generation = 0 /\ Goto(c, "first") /\ UNCHANGED deployLock
     \/ /\ deployment.generation > 0
        /\ DeploymentFree
        /\ deployLock' = c
        /\ Goto(c, "replace")
  /\ held' = [held EXCEPT ![c] = deployment]
  /\ UNCHANGED <<rows, demand, artifactLock, share>>

\* There was no row to lock; the key of the deployment decides between two calls.
KeyIgnored(c) == TRUE   \* mutated form: no unique constraint on the model name
KeyFree(c) == deployment.generation = 0

ActivateFirst(c) ==
  /\ pc[c] = "first"
  /\ MayActivate(c) /\ KeyFree(c)
  /\ state' = [state EXCEPT ![Asked(c)] = "active"]
  /\ deployment' = Deployed(Asked(c), NoArtifact, 1)
  /\ Finish(c)

ActivateFirstRefused(c) ==
  /\ pc[c] = "first"
  /\ ~(MayActivate(c) /\ KeyFree(c))
  /\ RollsBack(c)

\* The event that retires the serving artifact refers to its row.
MayReplace(c) ==
  /\ held[c].active # Asked(c)
  /\ RetirementApproved(c, held[c].active)
  /\ state[held[c].active] = "active"

RetireReplaced(c) ==
  /\ pc[c] = "replace"
  /\ MayReplace(c)
  /\ MayReferTo(c, held[c].active)
  /\ Refer(c, held[c].active)
  /\ Goto(c, "activate")
  /\ UNCHANGED <<rows, demand, held, artifactLock, deployLock>>

ReplaceRefused(c) ==
  /\ \/ pc[c] = "replace" /\ ~MayReplace(c)
     \/ pc[c] = "activate" /\ ~MayActivate(c)
  /\ RollsBack(c)

NextRollback(c) == held[c].active

KeepServing(c) == [state EXCEPT ![Asked(c)] = "active"]   \* mutated form: nothing is retired
Replaced(c) == [state EXCEPT ![held[c].active] = "retired", ![Asked(c)] = "active"]

ActivateReplacing(c) ==
  /\ pc[c] = "activate"
  /\ MayActivate(c)
  /\ state' = Replaced(c)
  /\ deployment' = Deployed(Asked(c), NextRollback(c), held[c].generation + 1)
  /\ Finish(c)

--------------------------------------------------------------------------------
(* rollback_model                                                           *)

\* The query joins the artifacts and locks the deployment only.
ReadForRollback(c) ==
  /\ pc[c] = "read"
  /\ deployment.generation > 0
  /\ held' = [held EXCEPT ![c] = deployment]
  /\ Goto(c, "lock")
  /\ UNCHANGED <<rows, demand, locks>>

\* A deployment that changed while the query waited no longer joins, and the query
\* returns nothing.
Available(c) == deployment.generation = held[c].generation /\ held[c].rollback # NoArtifact

LockForRollback(c) ==
  /\ pc[c] = "lock"
  /\ DeploymentFree
  /\ Available(c)
  /\ deployLock' = c
  /\ Goto(c, "retire")
  /\ UNCHANGED <<rows, demand, held, artifactLock, share>>

RollbackUnavailable(c) ==
  /\ \/ pc[c] = "read" /\ deployment.generation = 0
     \/ pc[c] = "lock" /\ DeploymentFree /\ ~Available(c)
  /\ RollsBack(c)

MayRetire(c)  == state[held[c].active] = "active" /\ RetirementApproved(c, held[c].active)
MayRestore(c) == state[held[c].rollback] = "retired" /\ Approved(c, held[c].rollback)

RetireForRollback(c) ==
  /\ pc[c] = "retire"
  /\ MayRetire(c)
  /\ MayReferTo(c, held[c].active)
  /\ Refer(c, held[c].active)
  /\ Goto(c, "restore")
  /\ UNCHANGED <<rows, demand, held, artifactLock, deployLock>>

Restore(c) ==
  /\ pc[c] = "restore"
  /\ MayRestore(c)
  /\ MayReferTo(c, held[c].rollback)
  /\ state' = [state EXCEPT ![held[c].active] = "retired", ![held[c].rollback] = "active"]
  /\ deployment' = Deployed(held[c].rollback, held[c].active, held[c].generation + 1)
  /\ Finish(c)

RollbackRefused(c) ==
  /\ \/ pc[c] = "retire" /\ ~MayRetire(c)
     \/ pc[c] = "restore" /\ ~MayRestore(c)
  /\ RollsBack(c)

--------------------------------------------------------------------------------
(* The database breaks a deadlock by rolling one of its transactions back.  *)

WantsArtifact(c) ==
  CASE pc[c] = "begin"               -> Asked(c)
    [] pc[c] \in {"replace", "retire"} -> held[c].active
    [] pc[c] = "restore"             -> held[c].rollback
    [] OTHER                         -> NoArtifact

WaitsFor(c, d) ==
  /\ c # d
  /\ \/ pc[c] \in {"deployment", "lock"} /\ deployLock = d
     \/ /\ WantsArtifact(c) \in Artifacts
        /\ \/ artifactLock[WantsArtifact(c)] = d
           \/ pc[c] = "begin" /\ Asked(c) \in share[d]

NoCycle(c, d) == FALSE   \* mutated form: deadlocks are not detected
Cycle(c, d) == WaitsFor(c, d) /\ WaitsFor(d, c)

BreakDeadlock(c) ==
  /\ \E d \in Calls : Cycle(c, d)
  /\ RollsBack(c)

--------------------------------------------------------------------------------
Step(c) ==
  \/ LockArtifact(c) \/ ArtifactMissing(c) \/ Promote(c) \/ PromoteRefused(c)
  \/ LockDeployment(c) \/ ActivateFirst(c) \/ ActivateFirstRefused(c)
  \/ RetireReplaced(c) \/ ReplaceRefused(c) \/ ActivateReplacing(c)
  \/ ReadForRollback(c) \/ LockForRollback(c) \/ RollbackUnavailable(c)
  \/ RetireForRollback(c) \/ Restore(c) \/ RollbackRefused(c)
  \/ BreakDeadlock(c)

Next ==
  \/ \E a \in Artifacts : Register(a)
  \/ \E c \in Calls : (\E d \in Demands : Begin(c, d)) \/ Step(c)

Spec == Init /\ [][Next]_vars

\* A call that has begun runs on; the database detects deadlocks, and grants a row in
\* the order it was asked for, so that a row that is free again and again is granted.
FairSpec == Spec /\ \A c \in Calls : SF_vars(Step(c))

--------------------------------------------------------------------------------
Steps == {"idle", "begin", "promote", "deployment", "first", "replace", "activate",
          "read", "lock", "retire", "restore"}
States == {"none", "candidate", "staging", "active", "retired"}

\* Types, and the locks a call holds at each of its steps.
TypeOK ==
  /\ state \in [Artifacts -> States]
  /\ deployment \in [active : Authorized, rollback : Authorized, generation : Nat]
  /\ demand \in [Calls -> Demands \cup {NoDemand}]
  /\ pc \in [Calls -> Steps]
  /\ held \in [Calls -> [active : Authorized, rollback : Authorized, generation : Nat]]
  /\ artifactLock \in [Artifacts -> Calls \cup {NoCall}]
  /\ share \in [Calls -> SUBSET Artifacts]
  /\ deployLock \in Calls \cup {NoCall}
  /\ \A c \in Calls :
       /\ pc[c] \in {"replace", "activate", "retire", "restore"} <=> deployLock = c
       /\ pc[c] \in {"promote", "deployment", "first", "replace", "activate"}
            => Asked(c) \in Artifacts /\ artifactLock[Asked(c)] = c

\* Exactly the artifact the deployment points at is in state active, whatever calls
\* run at once; without a deployment none is.
PointerAgrees ==
  \A a \in Artifacts : state[a] = "active" <=> deployment.active = a

\* "an atomic deployment pointer preserves a known rollback": from the second
\* deployment on there is one, it is retired, and it is not the one serving.
RollbackIsKnown ==
  /\ deployment.generation > 1 => deployment.rollback \in Artifacts
  /\ deployment.rollback \in Artifacts => state[deployment.rollback] = "retired"

\* The serving artifact is only replaced by a call that carries the approval to
\* retire this very artifact, and to let the new one serve.
ReplacementIsApproved ==
  [][deployment.generation > 0 =>
       \E c \in Calls : /\ demand[c].retirement = deployment.active
                        /\ demand[c].approval = deployment'.active]_deployment

\* The calls together move the pointer as the abstract deployment does.
Serving == INSTANCE ServingModel
  WITH serving <- deployment.active, previous <- deployment.rollback,
       used <- {a \in Artifacts : state[a] \in {"active", "retired"}}
ImplementsServingModel == Serving!Spec

\* Every call ends, although activation and rollback lock rows in different orders.
EveryCallEnds == \A c \in Calls : pc[c] # "idle" ~> pc[c] = "idle"
================================================================================
