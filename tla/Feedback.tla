-------------------------------- MODULE Feedback --------------------------------
(***************************************************************************)
(* What comes back after a model was deployed: outcomes of the changes it  *)
(* scored, recorded once their observation window has passed, and drift    *)
(* assessments of its inputs, which people review.  Requests run side by   *)
(* side; a request works with the organization it loaded when it came in.  *)
(***************************************************************************)
EXTENDS Integers, FiniteSets

CONSTANTS
  Callers,       \* requests under way
  Events,        \* source_event_sha256 of outcome signals
  Signals,       \* [outcome, known, optIn, start, observed, end], in time since the snapshot
  Comparisons,   \* pairs of a reference and a current MonitoringProfile
  Artifacts,     \* governed model artifacts
  Stability,     \* population stability index of two histograms, in percent
  Policy,        \* DriftPolicy: rows, labels, and missing, stability and drop in percent
  MinimumWindow, MaximumWindow,
  MaxTime,       \* bound on the time since the snapshot
  MaxCalls,      \* bound on the requests
  None

FeedbackAssumption ==
  /\ MinimumWindow \in Nat \ {0} /\ MaximumWindow \in Nat /\ MaxTime \in Nat /\ MaxCalls \in Nat
  /\ Policy.rows \in Nat \ {0, 1} /\ Policy.labels \in Nat \ {0, 1}
  /\ \A s \in Signals : s.end \in Int /\ s.known \in BOOLEAN /\ s.optIn \in BOOLEAN

VARIABLES
  now,           \* time since the snapshot
  learning,      \* Organization.organization_learning_enabled
  outcomes,      \* DeploymentOutcome rows
  assessments,   \* DriftAssessmentRecord rows
  reviews,       \* DriftReview rows
  request,       \* what each caller is doing
  asked          \* requests so far

vars == <<now, learning, outcomes, assessments, reviews, request, asked>>

Idle == [pc |-> "idle"]
Init ==
  /\ now = 0 /\ learning \in BOOLEAN /\ asked = 0
  /\ outcomes = {} /\ assessments = {} /\ reviews = {}
  /\ request = [c \in Callers |-> Idle]

At(c, pc) == request[c].pc = pc
Begin(c, work) ==
  /\ At(c, "idle") /\ asked < MaxCalls
  /\ asked' = asked + 1
  /\ request' = [request EXCEPT ![c] = work]
\* None stands for every refusal and every error.
Answer(c, row) == request' = [request EXCEPT ![c] = [@ EXCEPT !.pc = "answered", !.answer = row]]

--------------------------------------------------------------------------------
(* Outcomes *)

Timely(s, at) ==
  /\ s.end - s.start \in MinimumWindow .. MaximumWindow
  /\ 0 <= s.start /\ s.start <= s.observed /\ s.observed <= s.end
  /\ s.end <= at
Eligible(s, enabled) == s.outcome # "unknown" /\ s.known /\ enabled /\ s.optIn

\* A caller that names the time of ingestion names the present.
AskOutcome(c, e, s, at) ==
  /\ Begin(c, [pc |-> "lookup", event |-> e, signal |-> s, at |-> at, enabled |-> learning,
               answer |-> None])
  /\ UNCHANGED <<now, learning, outcomes, assessments, reviews>>

RowsOf(e) == {r \in outcomes : r.event = e}
AnswerAnyhow(c, row) == Answer(c, row)   \* mutated form: the signal is not compared
AnswerStored(c, row) == Answer(c, IF row.signal = request[c].signal THEN row ELSE None)

FindOutcome(c) ==
  /\ At(c, "lookup")
  /\ \/ \E row \in RowsOf(request[c].event) : AnswerStored(c, row)
     \/ /\ RowsOf(request[c].event) = {}
        /\ IF Timely(request[c].signal, request[c].at)
           THEN request' = [request EXCEPT ![c].pc = "insert"]
           ELSE Answer(c, None)
  /\ UNCHANGED <<now, learning, outcomes, assessments, reviews, asked>>

\* Validation raises when it meets a row stored meanwhile; the unique constraint makes the
\* request look again.
InsertOutcome(c) ==
  LET r == request[c]
      row == [event |-> r.event, signal |-> r.signal, at |-> r.at, enabled |-> r.enabled,
              eligible |-> Eligible(r.signal, r.enabled)] IN
  /\ At(c, "insert")
  /\ \/ RowsOf(r.event) = {} /\ outcomes' = outcomes \cup {row} /\ Answer(c, row)
     \/ \E stored \in RowsOf(r.event) :
          /\ Answer(c, None) \/ AnswerStored(c, stored)
          /\ UNCHANGED outcomes
  /\ UNCHANGED <<now, learning, assessments, reviews, asked>>

--------------------------------------------------------------------------------
(* Drift *)

Abs(n) == IF n < 0 THEN -n ELSE n
SameSchema(ref, cur) == ref.schema = cur.schema /\ DOMAIN ref.features = DOMAIN cur.features
Measured(ref, cur) == ref.performance # None /\ cur.performance # None

\* Profiles without observed values, with other bins or with another metric are refused.
Comparable(ref, cur) ==
  /\ \A f \in DOMAIN ref.features :
       /\ <<ref.features[f].bins, cur.features[f].bins>> \in DOMAIN Stability
       /\ ref.features[f].missing < ref.rows /\ cur.features[f].missing < cur.rows
  /\ Measured(ref, cur) => ref.performance.metric = cur.performance.metric

MissingShift(ref, cur) ==
  \E f \in DOMAIN ref.features :
    Abs(cur.features[f].missing * ref.rows - ref.features[f].missing * cur.rows) * 100
      > Policy.missing * ref.rows * cur.rows
DistributionShift(ref, cur) ==
  \E f \in DOMAIN ref.features :
    Stability[<<ref.features[f].bins, cur.features[f].bins>>] > Policy.stability
Labelled(ref, cur) ==
  /\ Measured(ref, cur)
  /\ ref.performance.labels >= Policy.labels /\ cur.performance.labels >= Policy.labels
PerformanceShift(ref, cur) ==
  Labelled(ref, cur) /\ ref.performance.value - cur.performance.value > Policy.drop

Enough(ref, cur) ==
  /\ ref.rows >= Policy.rows /\ cur.rows >= Policy.rows
  /\ Labelled(ref, cur) \/ (ref.performance = None /\ cur.performance = None)
Shifted(ref, cur) ==
  MissingShift(ref, cur) \/ DistributionShift(ref, cur) \/ PerformanceShift(ref, cur)

DecisionHasty(ref, cur) ==   \* mutated form: a shift is claimed before the samples are counted
  CASE ~ SameSchema(ref, cur) -> "incompatible_schema"
    [] SameSchema(ref, cur) /\ Shifted(ref, cur) -> "review"
    [] OTHER -> IF Enough(ref, cur) THEN "pass" ELSE "insufficient_data"
Decision(ref, cur) ==
  CASE ~ SameSchema(ref, cur) -> "incompatible_schema"
    [] SameSchema(ref, cur) /\ ~ Enough(ref, cur) -> "insufficient_data"
    [] OTHER -> IF Shifted(ref, cur) THEN "review" ELSE "pass"

Assessment(ref, cur) ==
  [reference |-> ref, current |-> cur, decision |-> Decision(ref, cur),
   humanReview |-> Decision(ref, cur) # "pass"]

AskAssessment(c, a, ref, cur) ==
  /\ SameSchema(ref, cur) => Comparable(ref, cur)
  /\ Begin(c, [pc |-> "compare", artifact |-> a, report |-> Assessment(ref, cur),
               answer |-> None])
  /\ UNCHANGED <<now, learning, outcomes, assessments, reviews>>

\* The reference is not part of the key of a stored assessment.
Stored(c) ==
  {x \in assessments : /\ x.artifact = request[c].artifact
                       /\ x.report.current = request[c].report.current}
FindAssessment(c) ==
  /\ At(c, "compare")
  /\ \/ \E x \in Stored(c) : Answer(c, IF x.report = request[c].report THEN x ELSE None)
     \/ Stored(c) = {} /\ request' = [request EXCEPT ![c].pc = "record"]
  /\ UNCHANGED <<now, learning, outcomes, assessments, reviews, asked>>
RecordAssessment(c) ==
  LET row == [artifact |-> request[c].artifact, report |-> request[c].report] IN
  /\ At(c, "record")
  /\ IF Stored(c) = {} THEN assessments' = assessments \cup {row} /\ Answer(c, row)
                       ELSE UNCHANGED assessments /\ Answer(c, None)
  /\ UNCHANGED <<now, learning, outcomes, reviews, asked>>

\* One transaction that holds the row of the assessment.
Review(x, decision) ==
  /\ \A r \in reviews : r.assessment # x
  /\ reviews' = reviews \cup {[assessment |-> x, decision |-> decision]}
  /\ UNCHANGED <<now, learning, outcomes, assessments, request, asked>>

--------------------------------------------------------------------------------
Return(c) ==
  /\ At(c, "answered") /\ request' = [request EXCEPT ![c] = Idle]
  /\ UNCHANGED <<now, learning, outcomes, assessments, reviews, asked>>
Tick ==
  /\ now < MaxTime /\ now' = now + 1
  /\ UNCHANGED <<learning, outcomes, assessments, reviews, request, asked>>
ToggleLearning ==
  /\ learning' = ~ learning
  /\ UNCHANGED <<now, outcomes, assessments, reviews, request, asked>>

Next ==
  \/ \E c \in Callers :
       \/ FindOutcome(c) \/ InsertOutcome(c) \/ FindAssessment(c) \/ RecordAssessment(c)
       \/ Return(c)
       \/ \E e \in Events, s \in Signals : AskOutcome(c, e, s, now)
       \/ \E a \in Artifacts, x \in Comparisons : AskAssessment(c, a, x[1], x[2])
  \/ \E x \in assessments, d \in {"no_action", "approve_experiment"} : Review(x, d)
  \/ Tick \/ ToggleLearning

Spec == Init /\ [][Next]_vars

--------------------------------------------------------------------------------
Answered(c) == At(c, "answered") /\ request[c].answer # None

\* An event has one outcome, answered only to a caller that reports the very same signal;
\* it teaches the organization nothing unless everybody agreed and its window had closed.
OutcomesAreFaithful ==
  /\ \A r, s \in outcomes : r.event = s.event => r = s
  /\ \A c \in Callers : Answered(c) /\ "signal" \in DOMAIN request[c] =>
       /\ request[c].answer \in outcomes
       /\ request[c].answer.signal = request[c].signal
  /\ \A r \in outcomes :
       /\ r.signal.end <= now
       /\ r.eligible => r.enabled /\ r.signal.optIn /\ r.signal.known

\* "Insufficient samples do not become a drift claim. Every non-pass requires an append-only
\* human review" (docs/49_M13_GOVERNANCE_EVALUATION.md:99); a pass hides no shift, whatever
\* is missing from the profiles.
DriftIsJudged ==
  /\ \A x, y \in assessments :
       x.artifact = y.artifact /\ x.report.current = y.report.current => x = y
  /\ \A c \in Callers : Answered(c) /\ "report" \in DOMAIN request[c] =>
       request[c].answer \in assessments /\ request[c].answer.report = request[c].report
  /\ \A x \in assessments :
       LET ref == x.report.reference  cur == x.report.current IN
       /\ x.report.decision = "review" => Enough(ref, cur)
       /\ x.report.decision = "pass" => SameSchema(ref, cur) /\ ~ Shifted(ref, cur)
       /\ x.report.humanReview <=> x.report.decision # "pass"
  /\ \A r, s \in reviews : r.assessment = s.assessment => r = s
================================================================================
