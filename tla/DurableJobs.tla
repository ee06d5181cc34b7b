------------------------------ MODULE DurableJobs ------------------------------
(***************************************************************************)
(* What the job subsystem promises, with the outbox, the broker, the       *)
(* relays and the workers hidden: every requested analysis settles once,   *)
(* as completed or failed, and the evidence of an analysis becomes visible *)
(* in the very step that completes its job.                                *)
(***************************************************************************)
CONSTANT Jobs            \* idempotency keys of analysis jobs

VARIABLES
  status,                \* authoritative outcome of each job
  evidence               \* jobs whose analysis evidence is persisted

vars == <<status, evidence>>

Settled == {"completed", "failed"}

Init ==
  /\ status = [k \in Jobs |-> "absent"]
  /\ evidence = {}

Request(k) ==
  /\ status[k] = "absent"
  /\ status' = [status EXCEPT ![k] = "pending"]
  /\ UNCHANGED evidence

Complete(k) ==
  /\ status[k] = "pending"
  /\ status' = [status EXCEPT ![k] = "completed"]
  /\ evidence' = evidence \cup {k}

Fail(k) ==
  /\ status[k] = "pending"
  /\ status' = [status EXCEPT ![k] = "failed"]
  /\ UNCHANGED evidence

Settle(k) == Complete(k) \/ Fail(k)

Next == \E k \in Jobs : Request(k) \/ Settle(k)

Spec == Init /\ [][Next]_vars

\* A requested analysis is not merely allowed to settle, it does.
LiveSpec == Spec /\ \A k \in Jobs : WF_vars(Settle(k))
================================================================================
