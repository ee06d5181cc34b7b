----------------------------- MODULE FixtureRunner -----------------------------
(***************************************************************************)
(* One run of a signed plan in a disposable container: the host's calls of *)
(* the docker command line, each of which may fail or go unanswered, the   *)
(* sentinel checks and the workload inside the container, and what the     *)
(* host makes of the result.  A plan is for one execution of a test or for *)
(* a differential run of base, candidate and mutations.                    *)
(***************************************************************************)
EXTENDS Integers, FiniteSets, Sequences

CONSTANTS
  Requests,    \* [kind, valid]: what is asked for, and whether signature, hashes, host and
               \*   image labels are what the plan says
  Facts,       \* HTTP answer, state and events of a probe, without the masked fields
  None

RunKinds == {"execution", "differential"}
Tests    == {"zero", "nonzero", "timeout"}
Probes   == [exit : {"zero"}, facts : Facts] \cup
            [exit : {"nonzero", "timeout", "invalid"}, facts : {None}]
Observations == [test : Tests, probe : Probes]

\* What the host may report.
Errors == {"rejected", "container_create_failed", "docker_unavailable", "container_inspect_failed",
           "container_policy_mismatch", "differential_runner_timeout", "runner_result_invalid"}
Outcomes == {"isolation_failure", "passed", "failed", "timeout", "base_failed", "unknown",
             "difference", "no_difference"}
Verdicts == {"inconclusive", "survived", "killed"}
Reports ==
  [outcome : Outcomes, isolated : BOOLEAN \cup {None}, cleanup : BOOLEAN] \cup
  [outcome : Outcomes, mutation : Verdicts, isolated : BOOLEAN \cup {None}, cleanup : BOOLEAN]

RunnerAssumption ==
  /\ Requests \subseteq [kind : RunKinds, valid : BOOLEAN]
  /\ None \notin Errors \cup Tests \cup {"garbage", "result"} \cup Reports

\* What becomes of a docker call: exit status zero, another one, or none in ten seconds.
Answers == {"ok", "failed", "unanswered"}

VARIABLES
  request,
  step,        \* next step of the host, "done" at the end
  created,     \* the host knows that the container was created
  container,   \* "absent", "created", "running", "exited" or "removed"
  hardened,    \* the container has the isolation its arguments asked for
  isolated,    \* the sentinel checks inside find it so, None before
  workload,    \* what ran inside: None, a test, or base, candidate and mutations
  output,      \* what the container wrote: None, "garbage" or "result"
  removal,     \* what became of the call that removes the container, None before
  result,      \* the parsed result
  error        \* RunnerRejectedError

vars == <<request, step, created, container, hardened, isolated, workload, output, removal,
          result, error>>

Init ==
  /\ request \in Requests
  /\ step = "check" /\ created = FALSE /\ container = "absent"
  /\ hardened \in BOOLEAN /\ isolated = None
  /\ workload = None /\ output = None
  /\ removal = None /\ result = None /\ error = None

--------------------------------------------------------------------------------
(* The host *)

RaiseAtOnce(code) == error' = code /\ step' = "done"   \* mutated form: no finally clause

\* An error after the container is known leads through the finally clause, as a result does.
Raise(code) ==
  /\ error' = code
  /\ step' = IF created THEN "remove" ELSE "done"

Check ==
  /\ step = "check"
  /\ IF request.valid THEN step' = "create" /\ UNCHANGED error
     ELSE Raise("rejected")
  /\ UNCHANGED <<request, created, container, hardened, isolated, workload, output, removal,
                 result>>

\* A call without an answer in ten seconds may have created the container all the same.
Create(answer) ==
  /\ step = "create"
  /\ CASE answer = "ok" ->
            created' = TRUE /\ container' = "created" /\ step' = "inspect" /\ UNCHANGED error
       [] answer = "failed" ->
            Raise("container_create_failed") /\ UNCHANGED <<created, container>>
       [] OTHER -> /\ Raise("docker_unavailable")
                   /\ container' \in {"absent", "created"} /\ UNCHANGED created
  /\ UNCHANGED <<request, hardened, isolated, workload, output, removal, result>>

\* An answer that cannot be read counts as a failure.
Inspect(answer) ==
  /\ step = "inspect"
  /\ CASE answer = "unanswered" -> Raise("docker_unavailable")
       [] answer = "failed" -> Raise("container_inspect_failed")
       [] OTHER -> IF hardened THEN step' = "start" /\ UNCHANGED error
                   ELSE Raise("container_policy_mismatch")
  /\ UNCHANGED <<request, created, container, hardened, isolated, workload, output, removal,
                 result>>

Start ==
  /\ step = "start"
  /\ container' = "running" /\ step' = "wait"
  /\ UNCHANGED <<request, created, hardened, isolated, workload, output, removal, result, error>>

\* The wall time of the plan and five seconds more.
GiveUp ==
  /\ step = "wait" /\ step' = "kill"
  /\ UNCHANGED <<request, created, container, hardened, isolated, workload, output, removal,
                 result, error>>

\* The exit status is not looked at: a container that could not be killed runs on.
Kill(answer) ==
  /\ step = "kill"
  /\ container' \in CASE answer = "ok" -> {"exited"}
                       [] answer = "failed" -> {container}
                       [] OTHER -> {container, "exited"}
  /\ IF answer = "unanswered" THEN Raise("docker_unavailable") /\ UNCHANGED result
     ELSE IF request.kind = "execution"
     THEN /\ result' = [outcome |-> "timeout", isolated |-> None, cleanup |-> FALSE]
          /\ step' = "remove" /\ UNCHANGED error
     ELSE Raise("differential_runner_timeout") /\ UNCHANGED result
  /\ UNCHANGED <<request, created, hardened, isolated, workload, output, removal>>

\* Two projections of an observation, and the first reason why they cannot be compared.
Reached(o) ==
  CASE o.test = "timeout" \/ o.probe.exit = "timeout" -> "timeout"
    [] o.test # "timeout" /\ o.probe.exit = "invalid" -> "unavailable"
    [] OTHER -> IF o.test = "zero" /\ o.probe.exit = "zero" THEN "passed" ELSE "failed"
CompareBlindly(base, candidate) ==   \* mutated form: a failing base is compared like any other
  CASE Reached(candidate) \in {"timeout", "unavailable"} -> "unknown"
    [] OTHER -> IF base.probe.facts = candidate.probe.facts /\ Reached(candidate) = Reached(base)
                THEN "no_difference" ELSE "difference"
Compare(base, candidate) ==
  CASE Reached(base) # "passed" -> "base_failed"
    [] Reached(base) = "passed" /\ Reached(candidate) \in {"timeout", "unavailable"} -> "unknown"
    [] OTHER -> IF Reached(candidate) # "passed" \/ base.probe.facts # candidate.probe.facts
                THEN "difference" ELSE "no_difference"
Mutated(test) ==
  CASE test = "timeout" -> "inconclusive"
    [] test = "zero" -> "survived"
    [] test = "nonzero" -> "killed"

\* A result is accepted when it parses, its hash and its comparison are what the host
\* computes, and it is for this plan; a passed execution must also have passed its checks.
Judged ==
  IF request.kind = "execution"
  THEN [outcome |-> IF workload = None THEN "isolation_failure"
                    ELSE CASE workload = "zero" -> "passed"
                           [] workload = "nonzero" -> "failed"
                           [] workload = "timeout" -> "timeout",
        isolated |-> isolated, cleanup |-> FALSE]
  ELSE [outcome |-> Compare(workload.base, workload.candidate),
        mutation |-> Mutated(workload.mutation), isolated |-> isolated, cleanup |-> FALSE]
Parse ==
  /\ step = "wait" /\ container = "exited"
  /\ IF output = "result"
     THEN result' = Judged /\ step' = "remove" /\ UNCHANGED error
     ELSE Raise("runner_result_invalid") /\ UNCHANGED result
  /\ UNCHANGED <<request, created, container, hardened, isolated, workload, output, removal>>

\* The finally clause.  What it raises replaces whatever was raised or returned before; its
\* exit status is lost when an error was raised before.
RemoveHopefully(answer) ==   \* mutated form: the exit status is not looked at
  /\ step = "remove"
  /\ step' = "done" /\ removal' = answer
  /\ container' = IF answer = "ok" THEN "removed" ELSE container
  /\ result' = IF error = None /\ result # None THEN [result EXCEPT !.cleanup = TRUE] ELSE None
  /\ UNCHANGED <<request, created, hardened, isolated, workload, output, error>>
Remove(answer) ==
  /\ step = "remove" /\ step' = "done" /\ removal' = answer
  /\ CASE answer = "ok" ->
            /\ container' = "removed"
            /\ result' = IF error = None THEN [result EXCEPT !.cleanup = TRUE] ELSE None
            /\ UNCHANGED error
       [] answer = "failed" ->
            /\ result' = IF error = None THEN result ELSE None
            /\ UNCHANGED <<container, error>>
       [] OTHER ->
            /\ container' \in {container, "removed"}
            /\ error' = "docker_unavailable" /\ result' = None
  /\ UNCHANGED <<request, created, hardened, isolated, workload, output>>

--------------------------------------------------------------------------------
(* Inside the container *)

Ends(wrote) == container' = "exited" /\ output' = wrote
Sentinels(found) ==
  /\ container = "running" /\ isolated = None
  /\ isolated' = found

\* An execution goes no further when a check fails.
Execute(found, test) ==
  /\ request.kind = "execution" /\ Sentinels(found)
  /\ workload' = IF found THEN test ELSE None
  /\ Ends("result")
  /\ UNCHANGED <<request, step, created, hardened, removal, result, error>>

\* A differential run reports its checks and runs in any case.
Differ(found, base, candidate, mutation) ==
  /\ request.kind = "differential" /\ Sentinels(found)
  /\ workload' = [base |-> base, candidate |-> candidate, mutation |-> mutation]
  /\ Ends("result")
  /\ UNCHANGED <<request, step, created, hardened, removal, result, error>>

\* The entry point fails, or writes too much or something else.
Break ==
  /\ container = "running"
  /\ Ends("garbage")
  /\ UNCHANGED <<request, step, created, hardened, isolated, workload, removal, result, error>>

Host ==
  \/ Check \/ Start \/ GiveUp \/ Parse
  \/ \E answer \in Answers : Create(answer) \/ Inspect(answer) \/ Kill(answer) \/ Remove(answer)
Inside ==
  \/ Break
  \/ \E found \in BOOLEAN :
       \/ \E test \in Tests : Execute(found, test)
       \/ \E base, candidate \in Observations, mutation \in Tests :
            Differ(found, base, candidate, mutation)
Next == Host \/ Inside

Spec == Init /\ [][Next]_vars

--------------------------------------------------------------------------------
\* Types, and that a container is started only for a plan that was verified and with the
\* isolation it was asked to have.
TypeOK ==
  /\ request \in Requests /\ created \in BOOLEAN /\ removal \in Answers \cup {None}
  /\ step \in {"check", "create", "inspect", "start", "wait", "kill", "remove", "done"}
  /\ container \in {"absent", "created", "running", "exited", "removed"}
  /\ container \in {"running", "exited"} => request.valid /\ hardened /\ created
  /\ step = "done" => (result = None) # (error = None)

\* A result that claims a clean host comes from a run that left none.  Whatever was raised on
\* the way, a container is left behind only when docker refused to remove it, and then a
\* result says so, or when its removal or its creation went unanswered, and then the error
\* says so.  (An error raised before a refused removal says nothing of the container.)
CleanupIsTruthful ==
  step = "done" =>
    /\ result # None /\ result.cleanup => container = "removed"
    /\ container \in {"created", "running", "exited"} =>
         \/ removal = "failed" /\ (result # None => ~ result.cleanup)
         \/ (removal = "unanswered" \/ ~ created) /\ error = "docker_unavailable"

\* A passed execution really ran to its end inside a container whose checks all held, and
\* nothing is reported of a workload that never started.
PassedWasIsolated ==
  result # None /\ request.kind = "execution" =>
    /\ result.outcome = "passed" => result.isolated = TRUE /\ workload = "zero"
    /\ result.outcome = "isolation_failure" => workload = None

\* The candidate is blamed only where the base passed, and cleared only where both showed
\* the same facts.
BlameIsFair ==
  result # None /\ request.kind = "differential" =>
    /\ result.outcome \in {"difference", "no_difference"} =>
         workload.base.test = "zero" /\ workload.base.probe.exit = "zero"
    /\ result.outcome = "no_difference" =>
         workload.candidate = workload.base

\* Verdicts of both kinds of plan say what happened inside the container.
VerdictsAreFair == PassedWasIsolated /\ BlameIsFair
================================================================================
