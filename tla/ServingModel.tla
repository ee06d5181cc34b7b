------------------------------ MODULE ServingModel ------------------------------
(***************************************************************************)
(* What the deployment of a model promises: an artifact is activated once, *)
(* the one it replaces is kept to roll back to, and a rollback exchanges   *)
(* the two.                                                                *)
(***************************************************************************)
CONSTANTS Artifacts, NoArtifact

VARIABLES
  serving,    \* the artifact that serves
  previous,   \* the artifact a rollback brings back
  used        \* artifacts that have served

Init == serving = NoArtifact /\ previous = NoArtifact /\ used = {}

Activate(a) ==
  /\ a \notin used
  /\ serving' = a
  /\ previous' = serving
  /\ used' = used \cup {a}

Rollback ==
  /\ previous # NoArtifact
  /\ serving' = previous
  /\ previous' = serving
  /\ UNCHANGED used

Next == Rollback \/ \E a \in Artifacts : Activate(a)

Spec == Init /\ [][Next]_<<serving, previous, used>>
================================================================================
