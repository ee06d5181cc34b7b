------------------------------ MODULE LlmEvidence ------------------------------
(***************************************************************************)
(* Advisory analyses by a language model.  Several calls may ask for the   *)
(* same analysis at once: each looks for an answer, asks the router, pays  *)
(* from the quota, sends the evidence with a bounded number of attempts,   *)
(* checks what comes back and stores one row under the key of the request. *)
(* Meanwhile policies are replaced, hosted models are switched on and off, *)
(* quota windows pass and a caller may be killed.                          *)
(***************************************************************************)
EXTENDS EvidenceRouting, FiniteSets

CONSTANTS
  Requests,      \* selections of evidence, each within its tenant and repository
  EvidenceOf,    \* of each request: [classes, plain, redacted, ids, price]
  Policies,      \* versions of the privacy policy: the router's fields, maxInput, maxCost, attempts
  Provider,      \* the configured provider
  Answers,       \* what a provider may answer: [complete, wellFormed, cites, insufficient, cost,
                 \*   totalAddsUp, identity]
  Callers,
  Budget,        \* quota bundles of one window
  None

LlmAssumption ==
  /\ Len(Policies) \in Nat /\ DOMAIN Policies = 1 .. Len(Policies)
  /\ \A i \in DOMAIN Policies :
       /\ Policies[i].mode \in {"local_only", "hosted_allowed", "hosted_redacted"}
       /\ Policies[i].maxBytes \in Int /\ Policies[i].maxCost \in Int
       /\ Policies[i].attempts \in Nat \ {0}
  /\ \A r \in Requests : EvidenceOf[r].plain \in Int /\ EvidenceOf[r].redacted \in Int
  /\ \A a \in Answers : a.cost \in Int
  /\ Budget \in Nat

VARIABLES
  policy,        \* version in force, 0 while there is none
  hostedEnabled, \* organization.hosted_llm_enabled
  reserved,      \* keys with a quota reservation
  left,          \* bundles left in the window
  rows,          \* EvidenceItem rows of kind LLM
  call,          \* what each caller is doing
  sent           \* keys whose evidence reached the provider

vars == <<policy, hostedEnabled, reserved, left, rows, call, sent>>

Idle == [phase |-> "idle"]
Key(c) == <<call[c].request, call[c].policy>>
Under(c) == Policies[call[c].policy]
RowsAt(key) == {row \in rows : row.key = key}
Stored(key) == CHOOSE row \in RowsAt(key) : TRUE
Returned(key, status) == [phase |-> "return", key |-> key, status |-> status]

Init ==
  /\ policy = 0 /\ hostedEnabled = FALSE
  /\ reserved = {} /\ left = Budget
  /\ rows = {} /\ sent = {}
  /\ call = [c \in Callers |-> Idle]

--------------------------------------------------------------------------------
\* Asked before anything is paid or sent; "route_allowed" lets the call go on.
Denial(request) ==
  CASE policy = 0 -> "policy_missing"
    [] policy # 0 /\ Provider.kind = "hosted" /\ ~ hostedEnabled -> "hosted_llm_disabled"
    [] OTHER -> Route(Policies[policy], Provider, EvidenceOf[request])

Exceeds(p, request) == Transmitted(p, EvidenceOf[request]) > p.maxInput
Plan(request) ==
  LET denial == Denial(request) IN
  CASE denial # "route_allowed" -> [phase |-> "store", status |-> "policy_denied"]
    [] policy # 0 /\ denial = "route_allowed" /\ Exceeds(Policies[policy], request) ->
         [phase |-> "store", status |-> "llm_budget_exceeded"]
    [] OTHER -> [phase |-> "reserve", status |-> None]

Begin(c, request, cancelled) ==
  LET key == <<request, policy>>
      plan == Plan(request) IN
  /\ call[c] = Idle
  /\ call' = [call EXCEPT ![c] =
       IF RowsAt(key) # {} THEN Returned(key, Stored(key).status)
       ELSE [phase |-> plan.phase, status |-> plan.status, request |-> request,
             policy |-> policy, cancelled |-> cancelled, attempt |-> 0, answer |-> None]]
  /\ UNCHANGED <<policy, hostedEnabled, reserved, left, rows, sent>>

Store(c, status) == call' = [call EXCEPT ![c].phase = "store", ![c].status = status]

\* A key that has paid before is not charged again, in whatever window.
Reserve(c) ==
  /\ call[c].phase = "reserve"
  /\ \/ /\ Key(c) \in reserved
        /\ call' = [call EXCEPT ![c].phase = "send"]
        /\ UNCHANGED <<reserved, left>>
     \/ /\ Key(c) \notin reserved /\ left > 0
        /\ call' = [call EXCEPT ![c].phase = "send"]
        /\ reserved' = reserved \cup {Key(c)} /\ left' = left - 1
     \/ /\ Key(c) \notin reserved /\ left = 0
        /\ Store(c, "quota_exceeded")
        /\ UNCHANGED <<reserved, left>>
  /\ UNCHANGED <<policy, hostedEnabled, rows, sent>>

\* The adapter refuses before it connects.
Refusal(c) ==
  CASE call[c].cancelled -> "llm_cancelled"
    [] ~ call[c].cancelled /\ EvidenceOf[call[c].request].price > Under(c).maxCost ->
         "llm_budget_exceeded"
    [] OTHER -> None
Refuse(c) ==
  /\ call[c].phase = "send" /\ call[c].attempt = 0
  /\ Refusal(c) # None
  /\ Store(c, Refusal(c))
  /\ UNCHANGED <<policy, hostedEnabled, reserved, left, rows, sent>>

Send(c) ==
  /\ call[c].phase = "send"
  /\ call[c].attempt = 0 => Refusal(c) = None
  /\ sent' = sent \cup {Key(c)}

\* No answer: another attempt while there is one left, the last failure otherwise.
MayRetry(c) == call[c].attempt + 1 < Under(c).attempts
AttemptFails(c, failure) ==
  /\ Send(c)
  /\ IF MayRetry(c)
     THEN call' = [call EXCEPT ![c].attempt = @ + 1]
     ELSE Store(c, failure)
  /\ UNCHANGED <<policy, hostedEnabled, reserved, left, rows>>

AttemptRejected(c) ==
  /\ Send(c)
  /\ Store(c, "llm_schema_invalid")
  /\ UNCHANGED <<policy, hostedEnabled, reserved, left, rows>>

\* Every citation is of the request's evidence, and nothing is claimed without any.
GroundedAnyhow(answer, ids) == answer.insufficient \/ answer.cites # {}   \* mutated form
Grounded(answer, ids) ==
  /\ answer.cites \subseteq ids
  /\ answer.insufficient \/ answer.cites # {}

\* In the order of the adapter; a total below its parts raises an error nobody handles.
Verdict(answer, request, p) ==
  CASE ~ answer.complete -> "llm_provider_unavailable"
    [] answer.complete /\ ~ (answer.wellFormed /\ Grounded(answer, EvidenceOf[request].ids)) ->
         "llm_schema_invalid"
    [] OTHER ->
         CASE answer.cost > p.maxCost -> "llm_budget_exceeded"
           [] answer.cost <= p.maxCost /\ ~ answer.totalAddsUp -> "raise"
           [] OTHER -> IF answer.identity THEN "completed" ELSE "llm_schema_invalid"

Answer(c, answer) ==
  LET status == Verdict(answer, call[c].request, Under(c)) IN
  /\ Send(c)
  /\ call' = [call EXCEPT ![c] =
       IF status = "raise" THEN Idle
       ELSE [@ EXCEPT !.phase = "store", !.status = status,
                      !.answer = IF status = "completed" THEN answer ELSE None]]
  /\ UNCHANGED <<policy, hostedEnabled, reserved, left, rows>>

\* Under the lock of the feature set: the first row stored under a key stays the only one.
RowOf(c) ==
  [key |-> Key(c), status |-> call[c].status,
   cites |-> IF call[c].status = "completed" THEN call[c].answer.cites ELSE {},
   cost |-> IF call[c].status = "completed" THEN call[c].answer.cost ELSE 0]
PersistAgain(c) ==   \* mutated form: the look-up is not repeated under the lock
  /\ call[c].phase = "store"
  /\ rows' = rows \cup {RowOf(c)}
  /\ call' = [call EXCEPT ![c] = Returned(Key(c), call[c].status)]
  /\ UNCHANGED <<policy, hostedEnabled, reserved, left, sent>>
Persist(c) ==
  /\ call[c].phase = "store"
  /\ IF RowsAt(Key(c)) # {}
     THEN /\ call' = [call EXCEPT ![c] = Returned(Key(c), Stored(Key(c)).status)]
          /\ UNCHANGED rows
     ELSE /\ call' = [call EXCEPT ![c] = Returned(Key(c), call[c].status)]
          /\ rows' = rows \cup {RowOf(c)}
  /\ UNCHANGED <<policy, hostedEnabled, reserved, left, sent>>

--------------------------------------------------------------------------------
(* Environment *)

\* The caller has its result, or is killed before.
Leave(c) ==
  /\ call[c] # Idle
  /\ call' = [call EXCEPT ![c] = Idle]
  /\ UNCHANGED <<policy, hostedEnabled, reserved, left, rows, sent>>

ReplacePolicy ==
  /\ policy + 1 \in DOMAIN Policies
  /\ policy' = policy + 1
  /\ UNCHANGED <<hostedEnabled, reserved, left, rows, call, sent>>

ToggleHosted ==
  /\ hostedEnabled' = ~ hostedEnabled
  /\ UNCHANGED <<policy, reserved, left, rows, call, sent>>

NextWindow ==
  /\ left < Budget
  /\ left' = Budget
  /\ UNCHANGED <<policy, hostedEnabled, reserved, rows, call, sent>>

Next ==
  \/ \E c \in Callers :
       \/ \E r \in Requests, cancelled \in BOOLEAN : Begin(c, r, cancelled)
       \/ Reserve(c) \/ Refuse(c) \/ AttemptRejected(c) \/ Persist(c) \/ Leave(c)
       \/ \E f \in {"llm_provider_timeout", "llm_provider_unavailable"} : AttemptFails(c, f)
       \/ \E a \in Answers : Answer(c, a)
  \/ ReplacePolicy \/ ToggleHosted \/ NextWindow

Spec == Init /\ [][Next]_vars

--------------------------------------------------------------------------------
Statuses ==
  {"policy_denied", "quota_exceeded", "llm_cancelled", "llm_budget_exceeded",
   "llm_schema_invalid", "llm_provider_timeout", "llm_provider_unavailable", "completed"}
RuleIds == Requests \X (0 .. Len(Policies))

\* Types; the attempts of a call stay within its policy, and its outcome is a known status.
TypeOK ==
  /\ policy \in 0 .. Len(Policies) /\ hostedEnabled \in BOOLEAN
  /\ reserved \subseteq RuleIds /\ left \in 0 .. Budget
  /\ \A row \in rows : row.key \in RuleIds /\ row.status \in Statuses
  /\ \A c \in Callers : call[c].phase \notin {"idle", "return"} =>
       /\ Key(c) \in RuleIds
       /\ call[c].phase \in {"reserve", "send", "store"}
       /\ call[c].phase = "store" => call[c].status \in Statuses
       /\ call[c].phase = "send" => call[c].attempt < Under(c).attempts

\* Whatever reached the provider is permitted by the policy version it was sent under, however
\* many versions were put in force since, and was paid for before it was sent.
SentWasPermitted ==
  /\ \A key \in sent : key[2] # 0 /\ Permits(Policies[key[2]], Provider, EvidenceOf[key[1]])
  /\ sent \subseteq reserved

\* One row is kept for a key, whoever stored it, and it is what every caller is told; a
\* completed one was really sent, cites only evidence of its request and stays within the
\* cost the policy allows.
RowsAreGrounded ==
  /\ \A row \in rows :
       /\ RowsAt(row.key) = {row}
       /\ row.status = "completed" =>
            /\ row.key \in sent
            /\ row.cites \subseteq EvidenceOf[row.key[1]].ids
            /\ row.cost <= Policies[row.key[2]].maxCost
  /\ \A c \in Callers : call[c].phase = "return" =>
       Stored(call[c].key).status = call[c].status
================================================================================
