--------------------------- MODULE ExecutionAuthority ---------------------------
(***************************************************************************)
(* What people rely on about the authority to execute a generated test: a  *)
(* plan is approved only while it is current, once void it is never        *)
(* current again, and evidence is trusted only if it was recorded while    *)
(* its plan was approved and current.                                      *)
(***************************************************************************)
CONSTANT Plans

VARIABLES
  status,   \* of each plan: absent, planned, approved or void
  trusted   \* plans with evidence that is not marked stale

Statuses == {"absent", "planned", "approved", "void"}

Init ==
  /\ status = [p \in Plans |-> "absent"]
  /\ trusted = {}

Plan(p) ==
  /\ status[p] = "absent"
  /\ status' = [status EXCEPT ![p] = "planned"]
  /\ UNCHANGED trusted

Approve(p) ==
  /\ status[p] = "planned"
  /\ status' = [status EXCEPT ![p] = "approved"]
  /\ UNCHANGED trusted

\* A head or an edit makes any number of plans void at once.
Void ==
  /\ status' \in [Plans -> Statuses]
  /\ \A p \in Plans :
       \/ status'[p] = status[p]
       \/ status[p] \in {"planned", "approved"} /\ status'[p] = "void"
  /\ UNCHANGED trusted

Trust(p) ==
  /\ status[p] = "approved"
  /\ trusted' = trusted \cup {p}
  /\ UNCHANGED status

Next ==
  \/ \E p \in Plans : Plan(p) \/ Approve(p) \/ Trust(p)
  \/ Void

Spec == Init /\ [][Next]_<<status, trusted>>
================================================================================
