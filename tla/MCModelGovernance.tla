--------------------------- MODULE MCModelGovernance ---------------------------
(* Three artifacts and two callers: activations with the right and with a stale *)
(* retirement approval, rollbacks, promotions.                                    *)
EXTENDS ModelGovernance

CONSTANTS a1, a2, a3, c1, c2

ThreeArtifacts == {a1, a2, a3}
TwoCalls       == {c1, c2}

Ask(kind, a, x, y) == [kind |-> kind, artifact |-> a, approval |-> x, retirement |-> y]

PromoteAny == {Ask("promote", a, a, NoArtifact) : a \in ThreeArtifacts}
Activates  == {Ask("activate", a1, a1, a2), Ask("activate", a2, a2, a1), Ask("activate", a3, a3, a2)}
Rollbacks  == {Ask("rollback", NoArtifact, a1, a2), Ask("rollback", NoArtifact, a2, a1)}
Unapproved == {Ask("promote", a1, NoArtifact, NoArtifact), Ask("rollback", NoArtifact, a3, a2)}
AllDemands == PromoteAny \cup Activates \cup Rollbacks \cup Unapproved
================================================================================
