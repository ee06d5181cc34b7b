----------------------------- MODULE MCJobPipeline -----------------------------
(* Model values for the job pipeline, and the faults of each run.              *)
EXTENDS JobPipeline

CONSTANTS j1, j2, r1, r2, w1, w2

TwoJobs    == {j1, j2}
OneJob     == {j1}
TwoRelays  == {r1, r2}
OneRelay   == {r1}
TwoWorkers == {w1, w2}

AllFaults    == FaultKinds
CrashFaults  == {"crash", "invalid"}
LossOnly     == {"lose"}
================================================================================
