---------------------------- MODULE AdvisoryProofs -----------------------------
(***************************************************************************)
(* The two services that consult a language model, for any requests,       *)
(* policies, answers, limits and callers.  For model analyses: what a      *)
(* caller has established lasts until it is used, whatever is replaced or  *)
(* switched meanwhile, because a key names the version of the policy and   *)
(* a row is written once.  For investigations: every event of the walk is  *)
(* accounted for, and only a walk without an error and past the critic     *)
(* reaches the composer's end.                                             *)
(***************************************************************************)
EXTENDS Services, Sequences, SequenceTheorems, WellFoundedInduction, NaturalsInduction, TLAPS

\* Both services take the first of several reasons.
LEMMA SmallestOf ==
  ASSUME NEW S \in SUBSET Nat, S # {}
  PROVE  Llm!Min(S) \in S /\ Agent!Min(S) \in S
<1>1. PICK i \in S : \A j \in S : <<j, i>> \notin OpToRel(<, Nat)
  BY NatLessThanWellFounded, WFMin
<1>2. \A j \in S : ~ (j < i)
  BY <1>1 DEF OpToRel
<1>3. \A j \in S : i <= j
  BY <1>2
<1>. QED
  BY <1>3 DEF Llm!Min, Agent!Min

\* What the router lets through is permitted.
LEMMA RouteIsSound ==
  ASSUME NEW p, NEW evidence, p.mode \in {"local_only", "hosted_allowed", "hosted_redacted"},
         p.maxBytes \in Int, evidence.plain \in Int, evidence.redacted \in Int,
         Llm!Route(p, Provider, evidence) = "route_allowed"
  PROVE  Llm!Permits(p, Provider, evidence)
<1>. DEFINE checks == Llm!Checks(p, Provider, evidence)
            failed == {i \in DOMAIN checks : checks[i][2]}
<1>1. DOMAIN checks = 1 .. 11
  BY DEF Llm!Checks
<1>2. \A i \in 1 .. 11 : checks[i][1] # "route_allowed"
  BY DEF Llm!Checks
<1>3. failed = {}
  BY <1>1, <1>2, SmallestOf DEF Llm!Route
<1>4. \A i \in 1 .. 11 : ~ checks[i][2]
  BY <1>1, <1>3
<1>5. /\ ~ checks[1][2] /\ ~ checks[2][2] /\ ~ checks[3][2] /\ ~ checks[4][2]
      /\ ~ checks[5][2] /\ ~ checks[6][2] /\ ~ checks[7][2] /\ ~ checks[8][2]
      /\ ~ checks[9][2] /\ ~ checks[10][2] /\ ~ checks[11][2]
  BY <1>4
<1>6. /\ Provider.name \in p.providers /\ Provider.model \in p.models
      /\ evidence.classes \subseteq p.classes
      /\ p.mode = "local_only" <=> Provider.kind # "hosted"
      /\ Llm!Redacts(p) => p.redaction = "supported"
      /\ ~ (Llm!Transmitted(p, evidence) > p.maxBytes)
  BY <1>5 DEF Llm!Checks
<1>7. Provider.kind = "hosted" =>
        /\ Llm!ReviewCounts(p.reviewed) /\ Llm!Agree(p.training, Provider.training)
        /\ Llm!Agree(p.retention, Provider.retention)
        /\ Provider.region \in p.regions
        /\ p.noStorage => Provider.storageOff
  BY <1>5 DEF Llm!Checks
<1>. QED
  BY <1>6, <1>7 DEF Llm!Permits, Llm!Agree, Llm!ReviewCounts, Llm!Redacts, Llm!Transmitted

--------------------------------------------------------------------------------
\* A call of analyze_llm_evidence is at work, or has its answer.
WorkingCall ==
  [phase : {"reserve", "send", "store"}, status : Llm!Statuses \cup {None}, request : Selections,
   policy : 0 .. Len(PrivacyPolicies), cancelled : BOOLEAN, attempt : Nat,
   answer : LlmAnswers \cup {None}]
ReturningCall == [phase : {"return"}, key : Llm!RuleIds, status : Llm!Statuses]
LlmCallsOK == calling \in [Callers -> {Llm!Idle} \cup WorkingCall \cup ReturningCall]

\* A call that may go on was routed, whatever policy is in force by now.
Routed(key) == key[2] # 0 /\ Llm!Permits(PrivacyPolicies[key[2]], Provider, EvidenceOf[key[1]])

\* An answer that will be stored as completed was sent for and passed every check.
CheckedCall(c) ==
  LET answer == calling[c].answer IN
  calling[c].phase = "store" /\ calling[c].status = "completed" =>
    /\ Llm!Key(c) \in sent
    /\ answer.cites \subseteq EvidenceOf[calling[c].request].ids
    /\ answer.cost <= Llm!Under(c).maxCost
LlmCallInv(c) ==
  /\ calling[c].phase \in {"reserve", "send"} => Routed(Llm!Key(c))
  /\ calling[c].phase = "reserve" => calling[c].attempt = 0
  /\ calling[c].phase = "send" => Llm!Key(c) \in reserved
  /\ CheckedCall(c)
  /\ calling[c].phase = "return" =>
       \E item \in Llm!RowsAt(calling[c].key) : item.status = calling[c].status

\* There is one row for a key; a completed one is grounded and was paid for within the cost.
LlmRowInv ==
  \A item \in items :
    /\ Llm!RowsAt(item.key) = {item}
    /\ item.status = "completed" =>
         /\ item.key \in sent
         /\ item.cites \subseteq EvidenceOf[item.key[1]].ids
         /\ item.cost <= PrivacyPolicies[item.key[2]].maxCost

LlmInv ==
  /\ Llm!TypeOK /\ LlmCallsOK /\ Llm!SentWasPermitted /\ LlmRowInv
  /\ \A c \in Callers : LlmCallInv(c)

\* The phase of a call tells its fields.
LEMMA Shapes ==
  ASSUME LlmCallsOK, NEW c \in Callers
  PROVE  /\ calling[c].phase = "idle" => calling[c] = Llm!Idle
         /\ calling[c].phase \in {"reserve", "send", "store"} => calling[c] \in WorkingCall
         /\ calling[c].phase = "return" => calling[c] \in ReturningCall
         /\ calling[c] \in {Llm!Idle} \cup WorkingCall \cup ReturningCall
<1>1. Llm!Idle.phase = "idle"
  BY DEF Llm!Idle
<1>2. /\ \A w \in WorkingCall : w.phase \in {"reserve", "send", "store"}
      /\ \A w \in ReturningCall : w.phase = "return"
  BY DEF WorkingCall, ReturningCall
<1>. QED
  BY <1>1, <1>2 DEF LlmCallsOK

\* The row a key is answered with is the only one of the key.
LEMMA StoredRow ==
  ASSUME LlmRowInv, NEW key, Llm!RowsAt(key) # {}
  PROVE  Llm!Stored(key) \in Llm!RowsAt(key)
           /\ \A item \in Llm!RowsAt(key) : item = Llm!Stored(key)
  BY DEF LlmRowInv, Llm!RowsAt, Llm!Stored

\* What a step must give the call it is of, and may not take from the others.
LlmKept ==
  /\ reserved \subseteq reserved' /\ sent \subseteq sent' /\ items \subseteq items'
  /\ privacyPolicy' \in 0 .. Len(PrivacyPolicies) /\ hostedEnabled' \in BOOLEAN
  /\ bundles' \in 0 .. Budget
FineCall(c, w) ==
  /\ calling' = [calling EXCEPT ![c] = w]
  /\ w \in {Llm!Idle} \cup WorkingCall \cup ReturningCall
  /\ w.phase = "store" => w.status \in Llm!Statuses
  /\ w.phase = "send" => w.attempt < PrivacyPolicies[w.policy].attempts
  /\ LlmCallInv(c)'

\* A step of one call keeps the invariant if it gives that call what it needs.
LEMMA LlmCallStep ==
  ASSUME LlmInv, NEW c \in Callers, NEW w, FineCall(c, w), LlmKept,
         reserved' \subseteq Llm!RuleIds, Llm!SentWasPermitted', LlmRowInv',
         \A item \in items' : item.key \in Llm!RuleIds /\ item.status \in Llm!Statuses
  PROVE  LlmInv'
<1>1. calling'[c] = w /\ \A e \in Callers : e # c => calling'[e] = calling[e]
  BY DEF FineCall, LlmInv, LlmCallsOK
<1>2. LlmCallsOK'
  BY DEF FineCall, LlmInv, LlmCallsOK, Llm!Idle, WorkingCall, ReturningCall
<1>3. ASSUME NEW e \in Callers, e # c PROVE LlmCallInv(e)'
  <2>1. Llm!Key(e)' = Llm!Key(e) /\ Llm!Under(e)' = Llm!Under(e) /\ calling'[e] = calling[e]
    BY <1>1, <1>3 DEF Llm!Key, Llm!Under
  <2>. QED
    BY <2>1 DEF LlmInv, LlmCallInv, CheckedCall, LlmKept, Llm!RowsAt, Routed
<1>4. ASSUME NEW e \in Callers, calling'[e].phase \notin {"idle", "return"}
      PROVE  /\ Llm!Key(e)' \in Llm!RuleIds
             /\ calling'[e].phase \in {"reserve", "send", "store"}
             /\ calling'[e].phase = "store" => calling'[e].status \in Llm!Statuses
             /\ calling'[e].phase = "send" => calling'[e].attempt < Llm!Under(e)'.attempts
  <2>1. CASE e = c
    <3>1. w \in WorkingCall
      BY <1>1, <1>4, <2>1 DEF FineCall, Llm!Idle, ReturningCall
    <3>. QED
      BY <1>1, <2>1, <3>1 DEF FineCall, Llm!Key, Llm!Under, WorkingCall, Llm!RuleIds
  <2>2. CASE e # c
    BY <1>1, <1>4, <2>2 DEF LlmInv, Llm!TypeOK, Llm!Key, Llm!Under
  <2>. QED
    BY <2>1, <2>2
<1>5. Llm!TypeOK'
  BY <1>4 DEF Llm!TypeOK, LlmKept, LlmInv
<1>. QED
  BY <1>1, <1>2, <1>3, <1>5 DEF FineCall, LlmInv

\* Most steps of a call record nothing.
SameRecords == UNCHANGED <<reserved, sent, items>>

\* So does a step that records nothing.
LEMMA LlmQuietStep ==
  ASSUME LlmInv, NEW c \in Callers, NEW w, FineCall(c, w), SameRecords,
         UNCHANGED <<privacyPolicy, hostedEnabled, bundles>>
  PROVE  LlmInv'
<1>1. LlmKept /\ Llm!SentWasPermitted' /\ LlmRowInv' /\ reserved' \subseteq Llm!RuleIds
  BY DEF SameRecords, LlmKept, LlmInv, Llm!TypeOK, Llm!SentWasPermitted, LlmRowInv, Llm!RowsAt
<1>2. \A item \in items' : item.key \in Llm!RuleIds /\ item.status \in Llm!Statuses
  BY DEF SameRecords, LlmInv, Llm!TypeOK
<1>. QED
  BY <1>1, <1>2, LlmCallStep

LEMMA LeavePreserves ==
  ASSUME LlmInv, NEW c \in Callers, calling' = [calling EXCEPT ![c] = Llm!Idle],
         UNCHANGED <<privacyPolicy, hostedEnabled, reserved, bundles, items, sent>>
  PROVE  LlmInv'
<1>1. FineCall(c, Llm!Idle)
  BY DEF FineCall, Llm!Idle, LlmCallInv, CheckedCall, LlmInv, LlmCallsOK
<1>. QED
  BY <1>1, LlmQuietStep DEF SameRecords

LEMMA LlmBeginPreserves ==
  ASSUME LlmInv, NEW c \in Callers, NEW r \in Selections, NEW stopped \in BOOLEAN,
         Llm!Begin(c, r, stopped)
  PROVE  LlmInv'
<1>. DEFINE key == <<r, privacyPolicy>>
            way == Llm!Plan(r)
<1>0. key \in Llm!RuleIds /\ privacyPolicy \in 0 .. Len(PrivacyPolicies)
        /\ calling \in [Callers -> {Llm!Idle} \cup WorkingCall \cup ReturningCall]
  BY DEF LlmInv, Llm!TypeOK, Llm!RuleIds, LlmCallsOK
<1>1. CASE Llm!RowsAt(key) # {}
  <2>. DEFINE w == Llm!Returned(key, Llm!Stored(key).status)
  <2>1. calling' = [calling EXCEPT ![c] = w] /\ calling'[c] = w
    BY <1>0, <1>1 DEF Llm!Begin
  <2>2. Llm!Stored(key) \in Llm!RowsAt(key)
    BY <1>1, StoredRow DEF LlmInv
  <2>3. w \in ReturningCall
    BY <1>0, <2>2 DEF Llm!Returned, ReturningCall, LlmInv, Llm!TypeOK, Llm!RowsAt
  <2>4. w.phase = "return" /\ w.key = key /\ w.status = Llm!Stored(key).status
    BY DEF Llm!Returned
  <2>5. LlmCallInv(c)'
    BY <2>1, <2>2, <2>4 DEF LlmCallInv, CheckedCall, Llm!Begin, Llm!RowsAt
  <2>6. FineCall(c, w)
    BY <2>1, <2>3, <2>4, <2>5 DEF FineCall
  <2>. QED
    BY <2>6, LlmQuietStep DEF Llm!Begin, SameRecords
<1>2. CASE Llm!RowsAt(key) = {}
  <2>. DEFINE w == [phase |-> way.phase, status |-> way.status, request |-> r,
             policy |-> privacyPolicy, cancelled |-> stopped, attempt |-> 0, answer |-> None]
  <2>1. calling' = [calling EXCEPT ![c] = w] /\ calling'[c] = w
    BY <1>0, <1>2 DEF Llm!Begin
  <2>2. \/ way.phase = "store" /\ way.status \in {"policy_denied", "llm_budget_exceeded"}
        \/ way.phase = "reserve" /\ way.status = None /\ Llm!Denial(r) = "route_allowed"
    BY DEF Llm!Plan
  <2>3. Llm!Denial(r) = "route_allowed" => Routed(key)
    <3>1. ASSUME Llm!Denial(r) = "route_allowed"
          PROVE  privacyPolicy # 0 /\ Llm!Route(PrivacyPolicies[privacyPolicy], Provider,
                   EvidenceOf[r]) = "route_allowed"
      BY <3>1 DEF Llm!Denial
    <3>2. privacyPolicy # 0 => privacyPolicy \in DOMAIN PrivacyPolicies
      BY <1>0, LlmAssumed DEF Llm!LlmAssumption
    <3>. QED
      BY <3>1, <3>2, LlmAssumed, RouteIsSound DEF Llm!LlmAssumption, Routed
  <2>. HIDE DEF way
  <2>4. w \in WorkingCall
    BY <1>0, <2>2 DEF WorkingCall, Llm!Statuses
  <2>5. LlmCallInv(c)'
    BY <2>1, <2>2, <2>3 DEF LlmCallInv, CheckedCall, Llm!Key
  <2>6. FineCall(c, w)
    BY <2>1, <2>2, <2>4, <2>5 DEF FineCall, Llm!Statuses
  <2>. QED
    BY <2>6, LlmQuietStep DEF Llm!Begin, SameRecords
<1>. QED
  BY <1>1, <1>2

\* A call that failed only has its failure to store.
LEMMA StoreIsFine ==
  ASSUME LlmInv, NEW c \in Callers, calling[c] \in WorkingCall,
         NEW status \in Llm!Statuses \ {"completed"}, Llm!Store(c, status)
  PROVE  FineCall(c, [calling[c] EXCEPT !.phase = "store", !.status = status])
<1>. DEFINE w == [calling[c] EXCEPT !.phase = "store", !.status = status]
<1>1. calling' = [calling EXCEPT ![c] = w] /\ calling'[c] = w
  BY DEF Llm!Store, LlmInv, LlmCallsOK
<1>2. w \in WorkingCall /\ w.phase = "store" /\ w.status = status
  BY DEF WorkingCall
<1>. HIDE DEF w
<1>3. LlmCallInv(c)'
  BY <1>1, <1>2 DEF LlmCallInv, CheckedCall
<1>. QED
  BY <1>1, <1>2, <1>3 DEF FineCall, w

LEMMA ReservePreserves ==
  ASSUME LlmInv, NEW c \in Callers, Llm!Reserve(c)
  PROVE  LlmInv'
<1>0. /\ calling[c] \in WorkingCall /\ calling[c].phase = "reserve" /\ Llm!Key(c) \in Llm!RuleIds
      /\ Routed(Llm!Key(c)) /\ calling[c].answer \in LlmAnswers \cup {None}
      /\ calling[c].policy \in 1 .. Len(PrivacyPolicies)
  BY Shapes DEF Llm!Reserve, LlmInv, Llm!TypeOK, LlmCallInv, WorkingCall, Routed, Llm!Key,
    Llm!RuleIds
<1>1. CASE calling' = [calling EXCEPT ![c].phase = "send"] /\ Llm!Key(c) \in reserved'
  <2>. DEFINE w == [calling[c] EXCEPT !.phase = "send"]
  <2>1. calling' = [calling EXCEPT ![c] = w] /\ calling'[c] = w
    BY <1>1 DEF LlmInv, LlmCallsOK
  <2>2. /\ w \in WorkingCall /\ w.phase = "send" /\ w.request = calling[c].request
        /\ w.policy = calling[c].policy /\ w.attempt = calling[c].attempt
    BY <1>0 DEF WorkingCall
  <2>. HIDE DEF w
  <2>3. Llm!Key(c)' = Llm!Key(c)
    BY <2>1, <2>2 DEF Llm!Key
  <2>4. LlmCallInv(c)'
    BY <1>0, <1>1, <2>1, <2>2, <2>3 DEF LlmCallInv, CheckedCall, Routed
  <2>5. w.attempt < PrivacyPolicies[w.policy].attempts
    BY <1>0, <2>2, LlmAssumed DEF Llm!LlmAssumption, LlmInv, LlmCallInv
  <2>6. FineCall(c, w)
    BY <2>1, <2>2, <2>4, <2>5 DEF FineCall
  <2>7. /\ reserved \subseteq reserved' /\ reserved' \subseteq Llm!RuleIds
        /\ bundles' \in 0 .. Budget
        /\ UNCHANGED <<privacyPolicy, hostedEnabled, items, sent>>
    BY <1>0, LlmAssumed DEF Llm!Reserve, LlmInv, Llm!TypeOK, Llm!LlmAssumption
  <2>8. LlmKept /\ Llm!SentWasPermitted' /\ LlmRowInv'
    BY <2>7 DEF LlmKept, LlmInv, Llm!TypeOK, Llm!SentWasPermitted, LlmRowInv, Llm!RowsAt
  <2>. QED
    BY <2>6, <2>7, <2>8, LlmCallStep DEF LlmInv, Llm!TypeOK
<1>2. CASE Llm!Store(c, "quota_exceeded") /\ UNCHANGED <<reserved, bundles>>
  <2>1. SameRecords /\ UNCHANGED <<privacyPolicy, hostedEnabled, bundles>>
    BY <1>2 DEF Llm!Reserve, SameRecords
  <2>. QED
    BY <1>0, <1>2, <2>1, StoreIsFine, LlmQuietStep DEF Llm!Statuses
<1>. QED
  BY <1>1, <1>2 DEF Llm!Reserve

LEMMA RefusePreserves ==
  ASSUME LlmInv, NEW c \in Callers, Llm!Refuse(c)
  PROVE  LlmInv'
<1>1. calling[c] \in WorkingCall
  BY Shapes DEF Llm!Refuse, LlmInv
<1>2. Llm!Refusal(c) \in {"llm_cancelled", "llm_budget_exceeded"}
  BY DEF Llm!Refuse, Llm!Refusal
<1>3. SameRecords /\ UNCHANGED <<privacyPolicy, hostedEnabled, bundles>>
        /\ Llm!Store(c, Llm!Refusal(c))
  BY DEF Llm!Refuse, SameRecords
<1>. QED
  BY <1>1, <1>2, <1>3, StoreIsFine, LlmQuietStep DEF Llm!Statuses

\* What is sent was routed and paid for.
LEMMA SendIsPermitted ==
  ASSUME LlmInv, NEW c \in Callers, Llm!Send(c),
         UNCHANGED <<privacyPolicy, hostedEnabled, reserved, bundles, items>>
  PROVE  /\ LlmKept /\ Llm!SentWasPermitted' /\ LlmRowInv' /\ reserved' \subseteq Llm!RuleIds
         /\ \A item \in items' : item.key \in Llm!RuleIds /\ item.status \in Llm!Statuses
         /\ calling[c] \in WorkingCall /\ calling[c].phase = "send" /\ Llm!Key(c) \in sent'
         /\ Routed(Llm!Key(c)) /\ Llm!Key(c) \in reserved'
<1>1. calling[c] \in WorkingCall /\ calling[c].phase = "send" /\ Routed(Llm!Key(c))
        /\ Llm!Key(c) \in reserved
  BY Shapes DEF Llm!Send, LlmInv, LlmCallInv
<1>2. LlmKept /\ reserved' \subseteq Llm!RuleIds
  BY DEF Llm!Send, LlmKept, LlmInv, Llm!TypeOK
<1>3. Llm!SentWasPermitted'
  BY <1>1 DEF Llm!Send, LlmInv, Llm!SentWasPermitted, Routed
<1>4. LlmRowInv' /\ \A item \in items' : item.key \in Llm!RuleIds /\ item.status \in Llm!Statuses
  BY DEF Llm!Send, LlmInv, Llm!TypeOK, LlmRowInv, Llm!RowsAt
<1>. QED
  BY <1>1, <1>2, <1>3, <1>4 DEF Llm!Send

LEMMA AttemptPreserves ==
  ASSUME LlmInv, NEW c \in Callers,
         \/ \E f \in {"llm_provider_timeout", "llm_provider_unavailable"} : Llm!AttemptFails(c, f)
         \/ Llm!AttemptRejected(c)
  PROVE  LlmInv'
<1>0. Llm!Send(c) /\ UNCHANGED <<privacyPolicy, hostedEnabled, reserved, bundles, items>>
  BY DEF Llm!AttemptFails, Llm!AttemptRejected
<1>1. ASSUME NEW f \in {"llm_provider_timeout", "llm_provider_unavailable", "llm_schema_invalid"},
             Llm!Store(c, f)
      PROVE  LlmInv'
  BY <1>0, <1>1, SendIsPermitted, StoreIsFine, LlmCallStep DEF Llm!Statuses
<1>2. CASE calling' = [calling EXCEPT ![c].attempt = @ + 1] /\ Llm!MayRetry(c)
  <2>. DEFINE w == [calling[c] EXCEPT !.attempt = @ + 1]
  <2>0. calling[c] \in WorkingCall /\ calling[c].phase = "send"
    BY <1>0, SendIsPermitted
  <2>1. calling' = [calling EXCEPT ![c] = w] /\ calling'[c] = w
    BY <1>2 DEF LlmInv, LlmCallsOK
  <2>2. /\ w \in WorkingCall /\ w.phase = "send" /\ w.request = calling[c].request
        /\ w.policy = calling[c].policy /\ w.attempt = calling[c].attempt + 1
    BY <2>0 DEF WorkingCall
  <2>. HIDE DEF w
  <2>3. Llm!Key(c)' = Llm!Key(c)
    BY <2>1, <2>2 DEF Llm!Key
  <2>4. LlmCallInv(c)'
    BY <1>0, <2>1, <2>2, <2>3, SendIsPermitted DEF LlmCallInv, CheckedCall, Routed
  <2>5. FineCall(c, w)
    BY <1>2, <2>1, <2>2, <2>4 DEF FineCall, Llm!MayRetry, Llm!Under
  <2>. QED
    BY <1>0, <2>5, SendIsPermitted, LlmCallStep
<1>. QED
  BY <1>1, <1>2 DEF Llm!AttemptFails, Llm!AttemptRejected

LEMMA LlmAnswerPreserves ==
  ASSUME LlmInv, NEW c \in Callers, NEW a \in LlmAnswers, Llm!Answer(c, a)
  PROVE  LlmInv'
<1>. DEFINE status == Llm!Verdict(a, calling[c].request, Llm!Under(c))
            kept == IF status = "completed" THEN a ELSE None
            w == [calling[c] EXCEPT !.phase = "store", !.status = status, !.answer = kept]
<1>0. Llm!Send(c) /\ UNCHANGED <<privacyPolicy, hostedEnabled, reserved, bundles, items>>
  BY DEF Llm!Answer
<1>1. /\ status \in Llm!Statuses \cup {"raise"}
      /\ status = "completed" =>
           Llm!Grounded(a, EvidenceOf[calling[c].request].ids)
             /\ ~ (a.cost > Llm!Under(c).maxCost)
  BY DEF Llm!Verdict, Llm!Statuses
<1>2. /\ calling[c] \in WorkingCall /\ Llm!Key(c) \in sent'
      /\ calling[c].policy \in 1 .. Len(PrivacyPolicies)
  BY <1>0, SendIsPermitted DEF Routed, Llm!Key, WorkingCall
<1>3. Llm!Under(c).maxCost \in Int /\ a.cost \in Int
  BY <1>2, LlmAssumed DEF Llm!LlmAssumption, Llm!Under
<1>. HIDE DEF status
<1>4. CASE status = "raise"
  <2>1. calling' = [calling EXCEPT ![c] = Llm!Idle]
    BY <1>4 DEF Llm!Answer, status
  <2>2. FineCall(c, Llm!Idle)
    BY <2>1 DEF FineCall, Llm!Idle, LlmCallInv, CheckedCall, LlmInv, LlmCallsOK
  <2>. QED
    BY <1>0, <2>2, SendIsPermitted, LlmCallStep
<1>5. CASE status # "raise"
  <2>1. calling' = [calling EXCEPT ![c] = w]
    BY <1>5 DEF Llm!Answer, status
  <2>2. calling'[c] = w
    BY <2>1 DEF LlmInv, LlmCallsOK
  <2>3. /\ w \in WorkingCall /\ w.phase = "store" /\ w.status = status /\ w.answer = kept
        /\ w.request = calling[c].request /\ w.policy = calling[c].policy
    BY <1>1, <1>2, <1>5 DEF WorkingCall
  <2>. HIDE DEF w
  <2>4. Llm!Key(c)' = Llm!Key(c) /\ Llm!Under(c)' = Llm!Under(c)
    BY <2>2, <2>3 DEF Llm!Key, Llm!Under
  <2>5. CheckedCall(c)'
    BY <1>1, <1>2, <1>3, <2>2, <2>3, <2>4 DEF CheckedCall, Llm!Grounded
  <2>6. LlmCallInv(c)'
    BY <2>2, <2>3, <2>5 DEF LlmCallInv
  <2>7. FineCall(c, w)
    BY <1>1, <1>5, <2>1, <2>3, <2>6 DEF FineCall
  <2>. QED
    BY <1>0, <2>7, SendIsPermitted, LlmCallStep
<1>. QED
  BY <1>4, <1>5

LEMMA LlmPersistPreserves ==
  ASSUME LlmInv, NEW c \in Callers, Llm!Persist(c)
  PROVE  LlmInv'
<1>0. /\ calling[c] \in WorkingCall /\ calling[c].phase = "store"
      /\ calling[c].status \in Llm!Statuses
      /\ Llm!Key(c) \in Llm!RuleIds
  BY Shapes DEF Llm!Persist, LlmInv, Llm!TypeOK
<1>1. CASE Llm!RowsAt(Llm!Key(c)) # {}
  <2>. DEFINE w == Llm!Returned(Llm!Key(c), Llm!Stored(Llm!Key(c)).status)
  <2>1. calling' = [calling EXCEPT ![c] = w] /\ calling'[c] = w
    BY <1>1 DEF Llm!Persist, LlmInv, LlmCallsOK
  <2>2. Llm!Stored(Llm!Key(c)) \in Llm!RowsAt(Llm!Key(c))
    BY <1>1, StoredRow DEF LlmInv
  <2>3. w \in ReturningCall /\ w.phase = "return" /\ w.key = Llm!Key(c)
          /\ w.status = Llm!Stored(Llm!Key(c)).status
    BY <1>0, <2>2 DEF Llm!Returned, ReturningCall, LlmInv, Llm!TypeOK, Llm!RowsAt
  <2>4. UNCHANGED items
    BY <1>1 DEF Llm!Persist
  <2>5. LlmCallInv(c)'
    BY <2>1, <2>2, <2>3, <2>4 DEF LlmCallInv, CheckedCall, Llm!RowsAt
  <2>6. FineCall(c, w)
    BY <2>1, <2>3, <2>5 DEF FineCall
  <2>. QED
    BY <2>4, <2>6, LlmQuietStep DEF Llm!Persist, SameRecords
<1>2. CASE Llm!RowsAt(Llm!Key(c)) = {}
  <2>. DEFINE w == Llm!Returned(Llm!Key(c), calling[c].status)
              item == Llm!RowOf(c)
  <2>1. calling' = [calling EXCEPT ![c] = w] /\ calling'[c] = w /\ items' = items \cup {item}
    BY <1>2 DEF Llm!Persist, LlmInv, LlmCallsOK
  <2>2. w \in ReturningCall /\ w.phase = "return" /\ w.key = Llm!Key(c)
          /\ w.status = calling[c].status
    BY <1>0 DEF Llm!Returned, ReturningCall
  <2>3. /\ item.key = Llm!Key(c) /\ item.status = calling[c].status
        /\ item.status = "completed" =>
             item.cites = calling[c].answer.cites /\ item.cost = calling[c].answer.cost
    BY DEF Llm!RowOf
  <2>. HIDE DEF w, item
  <2>4. LlmCallInv(c)'
    BY <2>1, <2>2, <2>3 DEF LlmCallInv, CheckedCall, Llm!RowsAt
  <2>5. FineCall(c, w)
    BY <2>1, <2>2, <2>4 DEF FineCall
  <2>6. LlmRowInv'
    <3>1. item.status = "completed" =>
            /\ item.key \in sent
            /\ item.cites \subseteq EvidenceOf[item.key[1]].ids
            /\ item.cost <= PrivacyPolicies[item.key[2]].maxCost
      <4>1. CheckedCall(c)
        BY DEF LlmInv, LlmCallInv
      <4>2. Llm!Key(c)[1] = calling[c].request /\ Llm!Under(c) = PrivacyPolicies[Llm!Key(c)[2]]
        BY DEF Llm!Key, Llm!Under
      <4>. QED
        BY <1>0, <2>3, <4>1, <4>2 DEF CheckedCall
    <3>2. \A other \in items : other.key # item.key
      BY <1>2, <2>3 DEF Llm!RowsAt
    <3>3. \A other \in items : Llm!RowsAt(other.key)' = Llm!RowsAt(other.key)
      BY <2>1, <3>2 DEF Llm!RowsAt
    <3>4. {x \in items' : x.key = item.key} = {item}
      BY <2>1, <3>2
    <3>5. sent' = sent
      BY DEF Llm!Persist
    <3>6. ASSUME NEW other \in items
          PROVE  /\ Llm!RowsAt(other.key)' = {other}
                 /\ other.status = "completed" =>
                      /\ other.key \in sent'
                      /\ other.cites \subseteq EvidenceOf[other.key[1]].ids
                      /\ other.cost <= PrivacyPolicies[other.key[2]].maxCost
      BY <3>3, <3>5 DEF LlmInv, LlmRowInv
    <3>7. ASSUME NEW x \in items'
          PROVE  /\ Llm!RowsAt(x.key)' = {x}
                 /\ x.status = "completed" =>
                      /\ x.key \in sent'
                      /\ x.cites \subseteq EvidenceOf[x.key[1]].ids
                      /\ x.cost <= PrivacyPolicies[x.key[2]].maxCost
      <4>1. CASE x = item
        BY <3>1, <3>4, <3>5, <4>1 DEF Llm!RowsAt
      <4>2. CASE x \in items
        BY <3>6, <4>2
      <4>. QED
        BY <2>1, <4>1, <4>2
    <3>. QED
      BY <3>7 DEF LlmRowInv
  <2>7. /\ LlmKept /\ Llm!SentWasPermitted' /\ reserved' \subseteq Llm!RuleIds
        /\ \A other \in items' : other.key \in Llm!RuleIds /\ other.status \in Llm!Statuses
    BY <1>0, <2>1, <2>3 DEF Llm!Persist, LlmKept, LlmInv, Llm!TypeOK, Llm!SentWasPermitted
  <2>. QED
    BY <2>5, <2>6, <2>7, LlmCallStep
<1>. QED
  BY <1>1, <1>2

LEMMA LlmEnvironmentPreserves ==
  ASSUME LlmInv, Llm!ReplacePolicy \/ Llm!ToggleHosted \/ Llm!NextWindow \/ UNCHANGED Llm!vars
  PROVE  LlmInv'
<1>1. UNCHANGED <<reserved, items, calling, sent>>
  BY DEF Llm!ReplacePolicy, Llm!ToggleHosted, Llm!NextWindow, Llm!vars
<1>2. privacyPolicy' \in 0 .. Len(PrivacyPolicies) /\ hostedEnabled' \in BOOLEAN
        /\ bundles' \in 0 .. Budget
  <2>1. privacyPolicy \in 0 .. Len(PrivacyPolicies) /\ hostedEnabled \in BOOLEAN
          /\ bundles \in 0 .. Budget
    BY DEF LlmInv, Llm!TypeOK
  <2>2. privacyPolicy' \in 0 .. Len(PrivacyPolicies) /\ bundles' \in 0 .. Budget
    BY <2>1, LlmAssumed DEF Llm!ReplacePolicy, Llm!ToggleHosted, Llm!NextWindow, Llm!vars,
      Llm!LlmAssumption
  <2>3. hostedEnabled' \in BOOLEAN
    BY <2>1, Zenon DEF Llm!ReplacePolicy, Llm!ToggleHosted, Llm!NextWindow, Llm!vars
  <2>. QED
    BY <2>2, <2>3
<1>3. Llm!TypeOK'
  BY <1>1, <1>2 DEF LlmInv, Llm!TypeOK, Llm!Key, Llm!Under
<1>4. LlmCallsOK' /\ Llm!SentWasPermitted' /\ LlmRowInv' /\ \A c \in Callers : LlmCallInv(c)'
  <2>1. LlmCallsOK' /\ Llm!SentWasPermitted' /\ LlmRowInv'
    BY <1>1 DEF LlmInv, LlmCallsOK, Llm!SentWasPermitted, LlmRowInv, Llm!RowsAt
  <2>2. ASSUME NEW c \in Callers PROVE LlmCallInv(c)'
    <3>1. LlmCallInv(c)
      BY DEF LlmInv
    <3>2. Llm!Key(c)' = Llm!Key(c) /\ Llm!Under(c)' = Llm!Under(c)
      BY <1>1 DEF Llm!Key, Llm!Under
    <3>3. CheckedCall(c)' = CheckedCall(c)
      BY <1>1, <3>2 DEF CheckedCall
    <3>4. Routed(Llm!Key(c))' = Routed(Llm!Key(c))
      BY <3>2 DEF Routed
    <3>. QED
      BY <1>1, <3>1, <3>2, <3>3, <3>4 DEF LlmCallInv, Llm!RowsAt
  <2>. QED
    BY <2>1, <2>2
<1>. QED
  BY <1>3, <1>4 DEF LlmInv

\* At the start nobody calls and nothing is stored.
LEMMA LlmInit == Llm!Init => LlmInv
<1>. SUFFICES ASSUME Llm!Init PROVE LlmInv
  OBVIOUS
<1>1. \A c \in Callers : calling[c] = Llm!Idle /\ calling[c].phase = "idle"
  BY DEF Llm!Init, Llm!Idle
<1>2. LlmCallsOK
  BY DEF Llm!Init, LlmCallsOK
<1>3. Llm!TypeOK
  <2>1. privacyPolicy \in 0 .. Len(PrivacyPolicies) /\ bundles \in 0 .. Budget /\ reserved = {}
          /\ items = {}
    BY LlmAssumed DEF Llm!Init, Llm!LlmAssumption
  <2>2. hostedEnabled \in BOOLEAN
    BY Zenon DEF Llm!Init
  <2>. QED
    BY <1>1, <2>1, <2>2 DEF Llm!TypeOK
<1>. QED
  BY <1>1, <1>2, <1>3 DEF LlmInv, Llm!Init, Llm!SentWasPermitted, LlmRowInv, LlmCallInv,
    CheckedCall, Llm!Idle

\* Every call was routed under the version its key names and pays before it sends, and every
\* completed row was checked, whatever is replaced, switched off or reserved by others between
\* the steps (analysis/llm_evidence.py, analyze_llm_evidence).
THEOREM LlmInvariant == Llm!Spec => []LlmInv
<1>1. LlmInv /\ [Llm!Next]_(Llm!vars) => LlmInv'
  BY LeavePreserves, LlmBeginPreserves, ReservePreserves, RefusePreserves, AttemptPreserves,
     LlmAnswerPreserves, LlmPersistPreserves, LlmEnvironmentPreserves DEF Llm!Next, Llm!Leave
<1>. QED
  BY <1>1, LlmInit, PTL DEF Llm!Spec

\* Evidence reaches the provider only as the policy version it was sent under permits, and
\* after a bundle was reserved for it (ai_core/policy.py, analysis/llm_evidence.py).
THEOREM SendingIsPermitted == Llm!Spec => []SentWasPermitted
<1>1. LlmInv => SentWasPermitted
  BY DEF LlmInv, SentWasPermitted
<1>. QED
  BY <1>1, LlmInvariant, PTL

\* One row is kept for a request under a policy; if completed, it cites only selected evidence
\* and cost no more than allowed; and every caller hears the row that is kept
\* (analysis/llm_evidence.py).
THEOREM AnswersAreGrounded == Llm!Spec => []RowsAreGrounded
<1>1. ASSUME LlmInv PROVE RowsAreGrounded
  <2>1. ASSUME NEW c \in Callers, calling[c].phase = "return"
        PROVE  Llm!Stored(calling[c].key).status = calling[c].status
    BY <1>1, <2>1, StoredRow DEF LlmInv, LlmCallInv
  <2>. QED
    BY <1>1, <2>1 DEF LlmInv, LlmRowInv, RowsAreGrounded, Llm!RowsAreGrounded
<1>. QED
  BY <1>1, LlmInvariant, PTL

--------------------------------------------------------------------------------
\* The first of several reasons is one of them, if there is any.
LEMMA FirstReason ==
  ASSUME NEW n \in Nat, NEW reasons, DOMAIN reasons = 1 .. n
  PROVE  /\ Agent!FirstOf(reasons) = None => \A i \in 1 .. n : reasons[i] = None
         /\ Agent!FirstOf(reasons) # None => \E i \in 1 .. n : Agent!FirstOf(reasons) = reasons[i]
<1>. DEFINE given == {i \in DOMAIN reasons : reasons[i] # None}
<1>1. CASE given = {}
  BY <1>1 DEF Agent!FirstOf
<1>2. CASE given # {}
  <2>1. given \in SUBSET Nat
    OBVIOUS
  <2>. HIDE DEF given
  <2>2. Agent!Min(given) \in given
    BY <1>2, <2>1, SmallestOf
  <2>. QED
    BY <1>2, <2>2 DEF Agent!FirstOf, given
<1>. QED
  BY <1>1, <1>2

\* The same of two and of three reasons.
LEMMA FirstOfTwo ==
  ASSUME NEW a, NEW b
  PROVE  /\ Agent!FirstOf(<<a, b>>) = None => a = None /\ b = None
         /\ Agent!FirstOf(<<a, b>>) # None => Agent!FirstOf(<<a, b>>) \in {a, b}
<1>1. PICK reasons : reasons = <<a, b>>
  OBVIOUS
<1>2. DOMAIN reasons = 1 .. 2 /\ reasons[1] = a /\ reasons[2] = b
  BY <1>1
<1>3. /\ Agent!FirstOf(reasons) = None => \A i \in 1 .. 2 : reasons[i] = None
      /\ Agent!FirstOf(reasons) # None => \E i \in 1 .. 2 : Agent!FirstOf(reasons) = reasons[i]
  BY <1>2, FirstReason, 2 \in Nat
<1>. QED
  BY <1>1, <1>2, <1>3

LEMMA FirstOfThree ==
  ASSUME NEW a, NEW b, NEW c
  PROVE  /\ Agent!FirstOf(<<a, b, c>>) = None => a = None /\ b = None /\ c = None
         /\ Agent!FirstOf(<<a, b, c>>) # None => Agent!FirstOf(<<a, b, c>>) \in {a, b, c}
<1>1. PICK reasons : reasons = <<a, b, c>>
  OBVIOUS
<1>2. DOMAIN reasons = 1 .. 3 /\ reasons[1] = a /\ reasons[2] = b /\ reasons[3] = c
  BY <1>1
<1>3. /\ Agent!FirstOf(reasons) = None => \A i \in 1 .. 3 : reasons[i] = None
      /\ Agent!FirstOf(reasons) # None => \E i \in 1 .. 3 : Agent!FirstOf(reasons) = reasons[i]
  BY <1>2, FirstReason, 3 \in Nat
<1>. QED
  BY <1>1, <1>2, <1>3

\* Every reader has tools, every tool a reader, and only the last one reads executions.
Reads(n, tool) == \E i \in DOMAIN Agent!NodeTools[n] : Agent!NodeTools[n][i] = tool

LEMMA NodeToolsAre ==
  /\ \A n \in 1 .. 5 : Agent!NodeTools[n] \in Seq(Agent!Tools) /\ Agent!NodeTools[n] # <<>>
  /\ \A tool \in Agent!Tools : \E n \in 1 .. 5 : Reads(n, tool)
  /\ \A tool \in Agent!Tools \ {"execution"} : \E n \in 1 .. 4 : Reads(n, tool)
<1>1. /\ Agent!NodeTools[1] = <<"feature", "graph">> /\ Agent!NodeTools[2] = <<"retrieval">>
      /\ Agent!NodeTools[3] = <<"risk">> /\ Agent!NodeTools[4] = <<"test_result">>
      /\ Agent!NodeTools[5] = <<"execution">>
  BY DEF Agent!NodeTools
<1>2. \A n \in 1 .. 5 : n \in {1, 2, 3, 4, 5}
  OBVIOUS
<1>3. \A n \in 1 .. 5 : Agent!NodeTools[n] \in Seq(Agent!Tools) /\ Agent!NodeTools[n] # <<>>
  <2>1. Agent!NodeTools[1] \in Seq(Agent!Tools) /\ Agent!NodeTools[1] # <<>>
    BY <1>1 DEF Agent!Tools
  <2>2. \A n \in 2 .. 5 : Agent!NodeTools[n] \in Seq(Agent!Tools) /\ Agent!NodeTools[n] # <<>>
    <3>1. Agent!NodeTools[2] \in Seq(Agent!Tools) /\ Agent!NodeTools[2] # <<>>
      BY <1>1 DEF Agent!Tools
    <3>2. Agent!NodeTools[3] \in Seq(Agent!Tools) /\ Agent!NodeTools[3] # <<>>
      BY <1>1 DEF Agent!Tools
    <3>3. Agent!NodeTools[4] \in Seq(Agent!Tools) /\ Agent!NodeTools[4] # <<>>
      BY <1>1 DEF Agent!Tools
    <3>4. Agent!NodeTools[5] \in Seq(Agent!Tools) /\ Agent!NodeTools[5] # <<>>
      BY <1>1 DEF Agent!Tools
    <3>. QED
      BY <1>2, <3>1, <3>2, <3>3, <3>4
  <2>. QED
    BY <1>2, <2>1, <2>2
<1>4. /\ Reads(1, "feature") /\ Reads(1, "graph") /\ Reads(2, "retrieval") /\ Reads(3, "risk")
      /\ Reads(4, "test_result") /\ Reads(5, "execution")
  BY <1>1 DEF Reads
<1>. QED
  BY <1>3, <1>4 DEF Agent!Tools

--------------------------------------------------------------------------------
WalkUsage   == [steps : Nat, tools : Nat, toolErrors : Nat, calls : Nat, tokens : Nat]
WalkTrace   == [tools : Nat, nodes : Nat]
AnyClaim    == UNION {a.claims : a \in AgentAnswers}
AnyProposal == {a.proposed : a \in AgentAnswers} \cup {None}
AgentErrors == Agent!Stops \cup {"tool_failed"}

\* What finished nodes left, and what the node at work has so far.
NodeState ==
  [collected : SUBSET investigation.evidence, missing : SUBSET Agent!Tools,
   errors : SUBSET AgentErrors, claims : SUBSET AnyClaim, proposed : AnyProposal]
NodeWork ==
  [collected : SUBSET investigation.evidence, missing : SUBSET Agent!Tools,
   errors : SUBSET AgentErrors, tools : Nat, output : AgentAnswers \cup {None}]

AgentTypes ==
  /\ investigation \in Investigations
  /\ node \in 1 .. Agent!Composer /\ todo \in Seq(Agent!Tools)
  /\ work \in NodeWork /\ state \in NodeState /\ usage \in WalkUsage /\ trace \in WalkTrace

\* Readers come before the critic and the composer, and each left its event behind; only the
\* reader of executions may be passed over, when no execution is offered.
Places ==
  /\ phase \in {"tools", "called"} => node <= Agent!ExecutionReader
  /\ phase = "judge" => node > Agent!ExecutionReader
  /\ termination = "completed" => node = Agent!Composer /\ state.errors = {}
  /\ node <= Agent!ExecutionReader => trace.nodes = node - 1
  /\ node > Agent!ExecutionReader =>
       \/ trace.nodes = Agent!ExecutionReader
       \/ trace.nodes = Agent!ExecutionReader - 1 /\ Agent!Offered("execution") = {}

\* A walk that nothing interrupted has an event for everything its usage counts.
Healthy == termination \in {None, "completed"}
AgentCounts ==
  Healthy =>
    /\ trace.tools + (IF phase \in {"tools", "called"} THEN work.tools ELSE 0) = usage.tools
    /\ usage.calls = trace.nodes + (IF phase = "called" THEN 1 ELSE 0)
    /\ usage.steps = trace.nodes + (IF node = Agent!Composer THEN 1 ELSE 0)
                                 + (IF phase = "enter" THEN 0 ELSE 1)

\* Evidence comes from the tools of nodes that were reached.
ReadUpTo(n, e) == \E m \in 1 .. n : Reads(m, CategoryOf[e])
Gathered ==
  /\ \A e \in state.collected : ReadUpTo(trace.nodes, e)
  /\ phase \in {"tools", "called"} => \A e \in work.collected : ReadUpTo(node, e)

\* Without an error, no tool that fails has been read: it is still to come.
Unfailing ==
  /\ state.errors = {} =>
       \A n \in 1 .. trace.nodes, tool \in investigation.failed : ~ Reads(n, tool)
  /\ phase \in {"tools", "called"} => (work.errors = {} => state.errors = {})
  /\ phase \in {"tools", "called"} =>
       \A tool \in investigation.failed :
         work.errors = {} /\ Reads(node, tool) => \E j \in DOMAIN todo : todo[j] = tool
  /\ phase = "tools" => \A j \in DOMAIN todo : Reads(node, todo[j])
  /\ phase = "called" => todo = <<>> /\ work.output \in AgentAnswers

\* The critic lets only entailed claims and recommendations through to the composer.
Accepted == node = Agent!Composer => ~ Agent!Rejects

AgentInv ==
  /\ Agent!TypeOK /\ AgentTypes
  /\ Places /\ AgentCounts /\ Gathered /\ Unfailing /\ Accepted
  /\ Agent!ResultsAreEarned

\* While nodes are at work, nothing has ended the walk.
LEMMA Walking ==
  ASSUME AgentInv, phase \in {"enter", "tools", "called", "judge"}
  PROVE  termination = None /\ Healthy /\ usage.tokens <= Agent!Limits.tokens
           /\ Agent!Limits.tokens \in Nat
  BY AgentAssumed DEF AgentInv, Agent!TypeOK, Healthy, AgentTypes, Agent!AgentAssumption,
    Agent!Limits, WalkUsage, Agent!Stops

\* A walk that is stopped keeps what it has and completes nothing.
LEMMA StopPreserves ==
  ASSUME AgentInv, phase \in {"enter", "tools", "called", "judge"},
         NEW reason \in Agent!Stops \ {"completed"}, Agent!Stop(reason),
         UNCHANGED <<investigation, node, trace, row>>, usage' \in WalkUsage,
         usage'.steps = usage.steps, usage'.tools = usage.tools,
         usage'.toolErrors = usage.toolErrors,
         usage'.calls <= Agent!Limits.calls,
         usage'.tokens > Agent!Limits.tokens => reason = "llm_budget_exceeded"
  PROVE  AgentInv'
<1>1. /\ state' \in NodeState /\ state'.collected = state.collected
      /\ state'.claims = state.claims
      /\ state'.proposed = state.proposed /\ state'.errors # {}
  BY DEF Agent!Stop, AgentInv, AgentTypes, NodeState, AgentErrors
<1>2. /\ phase' = "end" /\ termination' = reason /\ work' = Agent!NoWork /\ todo' = <<>>
  BY DEF Agent!Stop
<1>3. AgentTypes'
  BY <1>1, <1>2 DEF AgentInv, AgentTypes, NodeState, NodeWork, Agent!NoWork
<1>4. Agent!TypeOK'
  BY <1>1, <1>2, AgentAssumed DEF AgentInv, Agent!TypeOK, AgentTypes, Agent!AgentAssumption,
    Agent!Limits, Agent!Stops, NodeState
<1>5. Places' /\ AgentCounts' /\ Gathered' /\ Unfailing'
  BY <1>1, <1>2, AgentAssumed DEF AgentInv, Places, Healthy, AgentCounts, Gathered, Unfailing,
    Agent!AgentAssumption, Agent!Stops, Agent!Offered, ReadUpTo
<1>6. Accepted'
  BY <1>1 DEF AgentInv, Accepted, Agent!Rejects, Agent!Factual, Agent!Entailed, Agent!Proposed,
    Agent!ExecutionFailed
<1>7. Agent!ResultsAreEarned'
  BY DEF AgentInv, Agent!ResultsAreEarned, Agent!CompletedIsEarned, Agent!PartialIsCautious,
    Agent!Offered
<1>. QED
  BY <1>3, <1>4, <1>5, <1>6, <1>7 DEF AgentInv

\* What a step leaves alone that does not end the walk.
LEMMA ResultIsKept ==
  ASSUME AgentInv, UNCHANGED <<investigation, row>>
  PROVE  Agent!ResultsAreEarned'
  BY DEF AgentInv, Agent!ResultsAreEarned, Agent!CompletedIsEarned, Agent!PartialIsCautious,
    Agent!Offered

LEMMA EnterPreserves ==
  ASSUME AgentInv, Agent!EnterNode
  PROVE  AgentInv'
<1>. DEFINE over == Agent!Over(usage.steps, Agent!Limits.steps, "step_budget_exceeded")
            reason == Agent!FirstOf(<<Agent!Common, over>>)
<1>0. /\ phase = "enter" /\ UNCHANGED <<investigation, node, trace, row>>
      /\ termination = None /\ Healthy
      /\ usage.tokens <= Agent!Limits.tokens /\ Agent!Limits.tokens \in Nat
      /\ usage \in WalkUsage
  BY Walking DEF Agent!EnterNode, AgentInv, AgentTypes
<1>1. CASE reason # None
  <2>1. reason \in {Agent!Common, over}
    BY <1>1, FirstOfTwo
  <2>2. reason \in Agent!Stops \ {"completed"}
    BY <1>1, <2>1 DEF Agent!Common, Agent!Over, Agent!Stops
  <2>3. Agent!Stop(reason) /\ UNCHANGED usage
    BY <1>1 DEF Agent!EnterNode
  <2>4. usage.calls <= Agent!Limits.calls
    BY DEF AgentInv, Agent!TypeOK
  <2>. HIDE DEF reason
  <2>5. /\ usage' \in WalkUsage
        /\ usage'.steps = usage.steps /\ usage'.tools = usage.tools
        /\ usage'.toolErrors = usage.toolErrors /\ usage'.calls <= Agent!Limits.calls
        /\ usage'.tokens > Agent!Limits.tokens => reason = "llm_budget_exceeded"
    BY <1>0, <2>3, <2>4 DEF Agent!Limits, WalkUsage
  <2>. QED
    BY <1>0, <2>2, <2>3, <2>5, StopPreserves
<1>2. CASE reason = None
  <2>1. /\ UNCHANGED <<state, termination>> /\ usage' = [usage EXCEPT !.steps = @ + 1]
        /\ IF node <= Agent!ExecutionReader
             THEN /\ phase' = "tools" /\ todo' = Agent!NodeTools[node]
                  /\ work' = [Agent!NoWork EXCEPT !.collected = state.collected,
                                !.missing = state.missing, !.errors = state.errors]
             ELSE phase' = "judge" /\ UNCHANGED <<todo, work>>
    BY <1>2 DEF Agent!EnterNode
  <2>2. over = None
    BY <1>2, FirstOfTwo
  <2>3. ~ (usage.steps >= Agent!Limits.steps)
    BY <2>2, AgentAssumed DEF Agent!Over, Agent!AgentAssumption, Agent!Stops
  <2>4. Agent!Limits.steps \in Nat
    BY AgentAssumed DEF AgentInv, AgentTypes, Agent!AgentAssumption, Agent!Limits
  <2>5. /\ usage' \in WalkUsage /\ usage'.steps = usage.steps + 1 /\ usage'.tools = usage.tools
        /\ usage'.toolErrors = usage.toolErrors /\ usage'.calls = usage.calls
        /\ usage'.tokens = usage.tokens
    BY <1>0, <2>1 DEF WalkUsage
  <2>6. node <= Agent!ExecutionReader =>
          /\ work' \in NodeWork /\ work'.collected = state.collected
          /\ work'.errors = state.errors /\ work'.tools = 0
          /\ todo' \in Seq(Agent!Tools)
    <3>1. ASSUME node <= Agent!ExecutionReader
          PROVE  /\ todo' \in Seq(Agent!Tools)
                 /\ work' \in NodeWork /\ work'.collected = state.collected
                 /\ work'.errors = state.errors /\ work'.tools = 0
      <4>1. Agent!NoWork \in NodeWork /\ Agent!NoWork.tools = 0
        BY DEF Agent!NoWork, NodeWork
      <4>2. /\ state.collected \in SUBSET investigation.evidence
            /\ state.missing \in SUBSET Agent!Tools
            /\ state.errors \in SUBSET AgentErrors
        BY DEF AgentInv, AgentTypes, NodeState
      <4>3. work' = [Agent!NoWork EXCEPT !.collected = state.collected, !.missing = state.missing,
                                   !.errors = state.errors]
        BY <2>1, <3>1
      <4>4. /\ work' \in NodeWork /\ work'.collected = state.collected
            /\ work'.errors = state.errors /\ work'.tools = 0
        BY <1>0, <4>1, <4>2, <4>3 DEF NodeWork
      <4>. QED
        BY <2>1, <3>1, <4>4, NodeToolsAre DEF AgentInv, AgentTypes, Agent!ExecutionReader,
          Agent!Composer
    <3>. QED
      BY <3>1
  <2>7. AgentTypes'
    BY <1>0, <2>1, <2>5, <2>6 DEF AgentInv, AgentTypes, NodeState, NodeWork
  <2>8. Agent!TypeOK'
    BY <1>0, <2>1, <2>3, <2>4, <2>5 DEF AgentInv, Agent!TypeOK, Agent!Limits, WalkUsage
  <2>9. Places'
    BY <1>0, <2>1 DEF AgentInv, AgentTypes, Places, Agent!Offered, Agent!ExecutionReader,
      Agent!Composer
  <2>13. AgentCounts'
    BY <1>0, <2>1, <2>5, <2>6 DEF AgentInv, AgentTypes, AgentCounts, Healthy, WalkUsage, WalkTrace,
      Agent!ExecutionReader, Agent!Composer
  <2>10. Gathered'
    BY <1>0, <2>1, <2>6 DEF AgentInv, AgentTypes, Gathered, Places, ReadUpTo,
      Agent!ExecutionReader, WalkTrace, Agent!Composer
  <2>11. Unfailing'
    BY <1>0, <2>1, <2>6 DEF AgentInv, Unfailing, Reads
  <2>12. Accepted' /\ Agent!ResultsAreEarned'
    BY <1>0, <2>1, ResultIsKept DEF AgentInv, Accepted, Agent!Rejects, Agent!Factual,
      Agent!Entailed,
      Agent!Proposed, Agent!ExecutionFailed
  <2>. QED
    BY <2>7, <2>8, <2>9, <2>10, <2>11, <2>12, <2>13 DEF AgentInv
<1>. QED
  BY <1>1, <1>2

LEMMA ReadPreserves ==
  ASSUME AgentInv, Agent!ReadTool
  PROVE  AgentInv'
<1>. DEFINE tool   == Head(todo)
            over   == Agent!Over(usage.tools, Agent!Limits.tools, "tool_budget_exceeded")
            reason == Agent!FirstOf(<<Agent!Common, over>>)
            failed == tool \in investigation.failed
<1>0. /\ phase = "tools" /\ todo # <<>>
      /\ UNCHANGED <<investigation, node, trace, verdict, cancelled, late, row>>
      /\ termination = None /\ Healthy
      /\ usage.tokens <= Agent!Limits.tokens /\ Agent!Limits.tokens \in Nat
      /\ usage \in WalkUsage /\ trace \in WalkTrace /\ todo \in Seq(Agent!Tools)
  BY Walking DEF Agent!ReadTool, AgentInv, AgentTypes
<1>1. CASE reason # None
  <2>1. reason \in {Agent!Common, over}
    BY <1>1, FirstOfTwo
  <2>2. reason \in Agent!Stops \ {"completed"}
    BY <1>1, <2>1 DEF Agent!Common, Agent!Over, Agent!Stops
  <2>3. Agent!Stop(reason) /\ UNCHANGED usage
    BY <1>1 DEF Agent!ReadTool
  <2>. HIDE DEF reason
  <2>5. /\ usage' \in WalkUsage
        /\ usage'.steps = usage.steps /\ usage'.tools = usage.tools
        /\ usage'.toolErrors = usage.toolErrors /\ usage'.calls <= Agent!Limits.calls
        /\ usage'.tokens > Agent!Limits.tokens => reason = "llm_budget_exceeded"
    BY <1>0, <2>3 DEF Agent!Limits, WalkUsage, AgentInv, Agent!TypeOK
  <2>. QED
    BY <1>0, <2>2, <2>3, <2>5, StopPreserves
<1>2. CASE reason = None
  <2>1. /\ usage' = [usage EXCEPT !.tools = @ + 1, !.toolErrors = @ + (IF failed THEN 1 ELSE 0)]
        /\ todo' = Tail(todo)
        /\ UNCHANGED <<state, termination, phase>>
    BY <1>2 DEF Agent!ReadTool
  <2>2. PICK found \in SUBSET Agent!Offered(tool) :
          /\ failed => found = {}
          /\ work' = [work EXCEPT
                    !.collected = @ \cup found,
                    !.missing = IF found = {} THEN @ \cup {tool} ELSE @,
                    !.errors = IF failed THEN @ \cup {"tool_failed"} ELSE @,
                    !.tools = @ + 1]
    BY <1>2 DEF Agent!ReadTool
  <2>3. over = None
    BY <1>2, FirstOfTwo
  <2>4. ~ (usage.tools >= Agent!Limits.tools) /\ Agent!Limits.tools \in Nat
    BY <2>3, AgentAssumed DEF Agent!Over, Agent!AgentAssumption, Agent!Stops, AgentInv,
      AgentTypes, Agent!Limits
  <2>5. /\ usage' \in WalkUsage /\ usage'.steps = usage.steps /\ usage'.tools = usage.tools + 1
        /\ usage'.toolErrors \in {usage.toolErrors, usage.toolErrors + 1}
        /\ usage'.calls = usage.calls
        /\ usage'.tokens = usage.tokens
    <3>. DEFINE more == IF failed THEN 1 ELSE 0
    <3>1. more \in {0, 1}
      OBVIOUS
    <3>2. usage' = [usage EXCEPT !.tools = @ + 1, !.toolErrors = @ + more]
      BY <2>1
    <3>. HIDE DEF more
    <3>3. PICK t \in Nat, e \in Nat : t = usage.tools + 1 /\ e = usage.toolErrors + more
      BY <1>0, <3>1 DEF WalkUsage
    <3>4. usage' = [usage EXCEPT !.tools = t, !.toolErrors = e]
      BY <3>2, <3>3
    <3>5. /\ usage' \in WalkUsage /\ usage'.steps = usage.steps /\ usage'.tools = t
          /\ usage'.toolErrors = e /\ usage'.calls = usage.calls /\ usage'.tokens = usage.tokens
      BY <1>0, <3>4 DEF WalkUsage
    <3>. QED
      BY <1>0, <3>1, <3>3, <3>5 DEF WalkUsage
  <2>7. /\ tool \in Agent!Tools /\ tool = todo[1] /\ 1 \in DOMAIN todo
        /\ todo' \in Seq(Agent!Tools)
        /\ \A j \in DOMAIN todo' : j + 1 \in DOMAIN todo /\ todo'[j] = todo[j + 1]
        /\ \A j \in DOMAIN todo : j = 1 \/ (j - 1 \in DOMAIN todo' /\ todo'[j - 1] = todo[j])
    BY <1>0, <2>1
  <2>8. work \in NodeWork /\ found \subseteq investigation.evidence
          /\ \A e \in found : CategoryOf[e] = tool
    BY DEF AgentInv, AgentTypes, Agent!Offered
  <2>9. /\ work' \in NodeWork /\ work'.collected = work.collected \cup found
        /\ work'.tools = work.tools + 1
        /\ work'.errors = IF failed THEN work.errors \cup {"tool_failed"} ELSE work.errors
    <3>1. PICK t \in Nat : t = work.tools + 1
      BY <2>8 DEF NodeWork
    <3>. HIDE DEF tool, failed
    <3>2. work' = [work EXCEPT !.collected = @ \cup found,
                     !.missing = IF found = {} THEN @ \cup {tool} ELSE @,
                     !.errors = IF failed THEN @ \cup {"tool_failed"} ELSE @, !.tools = t]
      BY <2>2, <2>8, <3>1 DEF NodeWork
    <3>3. "tool_failed" \in AgentErrors
      BY DEF AgentErrors
    <3>. QED
      BY <2>7, <2>8, <3>1, <3>2, <3>3 DEF NodeWork
  <2>10. AgentTypes'
    BY <1>0, <2>1, <2>5, <2>7, <2>9 DEF AgentInv, AgentTypes, NodeState, NodeWork
  <2>11. Agent!TypeOK'
    <3>1. usage'.tools <= Agent!Limits.tools
      BY <1>0, <2>4, <2>5 DEF AgentInv, Agent!TypeOK, WalkUsage
    <3>2. usage'.toolErrors <= usage'.tools
      BY <1>0, <2>5 DEF AgentInv, Agent!TypeOK, WalkUsage
    <3>. QED
      BY <1>0, <2>1, <2>5, <3>1, <3>2 DEF AgentInv, Agent!TypeOK, Agent!Limits
  <2>12. Places'
    BY <1>0, <2>1 DEF AgentInv, AgentTypes, Places, Agent!Offered, Agent!ExecutionReader,
      Agent!Composer
  <2>13. AgentCounts'
    BY <1>0, <2>1, <2>5, <2>8, <2>9 DEF AgentInv, AgentTypes, AgentCounts, Healthy, NodeWork,
      WalkUsage, WalkTrace
  <2>14. Reads(node, tool)
    BY <1>0, <2>7 DEF AgentInv, Unfailing
  <2>15. Gathered'
    <3>2. \A e \in found : \E m \in 1 .. node : Reads(m, CategoryOf[e])
      BY <2>8, <2>14 DEF AgentInv, AgentTypes
    <3>. HIDE DEF tool
    <3>. QED
      BY <1>0, <2>1, <2>9, <3>2 DEF AgentInv, Gathered, ReadUpTo
  <2>16. Unfailing'
    <3>1. ASSUME NEW t \in investigation.failed, work'.errors = {}, Reads(node, t)
          PROVE  \E j \in DOMAIN todo' : todo'[j] = t
      <4>1. work.errors = {} /\ ~ failed
        BY <2>9, <3>1
      <4>2. PICK j \in DOMAIN todo : todo[j] = t
        BY <1>0, <3>1, <4>1 DEF AgentInv, Unfailing
      <4>. QED
        BY <2>7, <4>1, <4>2
    <3>2. \A j \in DOMAIN todo' : Reads(node, todo'[j])
      BY <1>0, <2>7 DEF AgentInv, Unfailing
    <3>3. work'.errors = {} => state.errors = {}
      BY <1>0, <2>9 DEF AgentInv, Unfailing
    <3>. QED
      BY <1>0, <2>1, <3>1, <3>2, <3>3 DEF AgentInv, Unfailing, Reads
  <2>17. Accepted' /\ Agent!ResultsAreEarned'
    BY <1>0, <2>1, ResultIsKept DEF AgentInv, Accepted, Agent!Rejects, Agent!Factual,
      Agent!Entailed,
      Agent!Proposed, Agent!ExecutionFailed
  <2>. QED
    BY <2>10, <2>11, <2>12, <2>13, <2>15, <2>16, <2>17 DEF AgentInv
<1>. QED
  BY <1>1, <1>2

LEMMA CallPreserves ==
  ASSUME AgentInv, Agent!CallModel
  PROVE  AgentInv'
<1>0. /\ phase = "tools" /\ todo = <<>>
      /\ UNCHANGED <<investigation, node, trace, verdict, cancelled, late, row>>
      /\ termination = None /\ Healthy
      /\ usage.tokens <= Agent!Limits.tokens /\ Agent!Limits.tokens \in Nat
      /\ usage \in WalkUsage
  BY Walking DEF Agent!CallModel, AgentInv, AgentTypes
<1>a. Agent!Limits.calls \in Nat /\ \A answer \in AgentAnswers : answer.tokens \in Nat
        /\ answer # None
  BY AgentAssumed DEF AgentInv, AgentTypes, Agent!AgentAssumption, Agent!Limits
<1>1. CASE Agent!Refused # None
  <2>2. Agent!Refused \in Agent!Stops \ {"completed"}
    <3>1. Agent!Refused \in {Agent!Common,
            Agent!Over(usage.calls, Agent!Limits.calls, "llm_budget_exceeded"),
                       Agent!Over(usage.tokens, Agent!Limits.tokens, "llm_budget_exceeded")}
      BY <1>1, FirstOfThree DEF Agent!Refused
    <3>. QED
      BY <1>1, <3>1 DEF Agent!Common, Agent!Over, Agent!Stops
  <2>3. Agent!Stop(Agent!Refused) /\ UNCHANGED usage
    BY <1>1 DEF Agent!CallModel
  <2>4. /\ usage' \in WalkUsage
        /\ usage'.steps = usage.steps /\ usage'.tools = usage.tools
        /\ usage'.toolErrors = usage.toolErrors /\ usage'.calls <= Agent!Limits.calls
        /\ usage'.tokens > Agent!Limits.tokens => Agent!Refused = "llm_budget_exceeded"
    BY <1>0, <2>3 DEF Agent!Limits, WalkUsage, AgentInv, Agent!TypeOK
  <2>. QED
    BY <1>0, <2>2, <2>3, <2>4, StopPreserves
<1>2. CASE Agent!Refused = None
  <2>1. ~ (usage.calls >= Agent!Limits.calls)
    <3>1. Agent!Over(usage.calls, Agent!Limits.calls, "llm_budget_exceeded") = None
      BY <1>2, FirstOfThree DEF Agent!Refused
    <3>. QED
      BY <3>1, AgentAssumed DEF Agent!Over, Agent!AgentAssumption, Agent!Stops
  <2>2. CASE Agent!Stop("provider_failure") /\ usage' = [usage EXCEPT !.calls = @ + 1]
    <3>1. /\ usage' \in WalkUsage
          /\ usage'.steps = usage.steps /\ usage'.tools = usage.tools
          /\ usage'.toolErrors = usage.toolErrors /\ usage'.calls <= Agent!Limits.calls
          /\ usage'.tokens = usage.tokens
      BY <1>0, <1>a, <2>1, <2>2 DEF WalkUsage
    <3>2. ~ (usage'.tokens > Agent!Limits.tokens)
      BY <1>0, <3>1 DEF WalkUsage
    <3>. QED
      BY <1>0, <2>2, <3>1, <3>2, StopPreserves DEF Agent!Stops, Agent!Limits
  <2>3. ASSUME NEW answer \in AgentAnswers,
               usage' = [usage EXCEPT !.calls = @ + 1, !.tokens = @ + answer.tokens],
               IF usage'.tokens > Agent!Limits.tokens
                  THEN Agent!Stop("llm_budget_exceeded")
                  ELSE /\ work' = [work EXCEPT !.output = answer]
                       /\ phase' = "called"
                       /\ UNCHANGED <<todo, state, termination>>
        PROVE  AgentInv'
    <3>1. /\ usage' \in WalkUsage
          /\ usage'.steps = usage.steps /\ usage'.tools = usage.tools
          /\ usage'.toolErrors = usage.toolErrors /\ usage'.calls = usage.calls + 1
          /\ usage'.calls <= Agent!Limits.calls
      <4>1. /\ usage' \in WalkUsage
            /\ usage'.steps = usage.steps /\ usage'.tools = usage.tools
            /\ usage'.toolErrors = usage.toolErrors /\ usage'.calls = usage.calls + 1
        <5>1. PICK c \in Nat, t \in Nat : c = usage.calls + 1 /\ t = usage.tokens + answer.tokens
          BY <1>0, <1>a DEF WalkUsage
        <5>2. usage' = [usage EXCEPT !.calls = c, !.tokens = t]
          BY <2>3, <5>1
        <5>3. /\ usage' \in WalkUsage
              /\ usage'.steps = usage.steps /\ usage'.tools = usage.tools
              /\ usage'.toolErrors = usage.toolErrors /\ usage'.calls = c
          BY <1>0, <5>2 DEF WalkUsage
        <5>. QED
          BY <5>1, <5>3
      <4>. QED
        BY <1>0, <1>a, <2>1, <4>1 DEF WalkUsage
    <3>2. CASE usage'.tokens > Agent!Limits.tokens
      BY <1>0, <2>3, <3>1, <3>2, StopPreserves DEF Agent!Stops, Agent!Limits
    <3>3. CASE ~ (usage'.tokens > Agent!Limits.tokens)
      <4>1. /\ work' = [work EXCEPT !.output = answer] /\ phase' = "called"
            /\ UNCHANGED <<todo, state, termination>>
        BY <2>3, <3>3
      <4>2. /\ work' \in NodeWork /\ work'.collected = work.collected
            /\ work'.errors = work.errors
            /\ work'.output = answer
        BY <4>1 DEF AgentInv, AgentTypes, NodeWork
      <4>3. AgentTypes'
        BY <1>0, <3>1, <4>1, <4>2 DEF AgentInv, AgentTypes, NodeState, NodeWork
      <4>4. Agent!TypeOK'
        BY <1>0, <3>1, <3>3, <4>1 DEF AgentInv, Agent!TypeOK, Agent!Limits, WalkUsage
      <4>5. Places' /\ Gathered' /\ Unfailing'
        BY <1>0, <4>1, <4>2 DEF AgentInv, Places, Gathered, Unfailing, Agent!Offered, ReadUpTo
      <4>6. AgentCounts'
        BY <1>0, <3>1, <4>1 DEF AgentInv, AgentTypes, AgentCounts, Healthy, WalkUsage, WalkTrace
      <4>7. Accepted' /\ Agent!ResultsAreEarned'
        BY <1>0, <4>1, ResultIsKept DEF AgentInv, Accepted, Agent!Rejects, Agent!Factual,
          Agent!Entailed,
          Agent!Proposed, Agent!ExecutionFailed
      <4>. QED
        BY <4>3, <4>4, <4>5, <4>6, <4>7 DEF AgentInv
    <3>. QED
      BY <3>2, <3>3
  <2>. QED
    BY <1>2, <2>2, <2>3 DEF Agent!CallModel
<1>. QED
  BY <1>1, <1>2

\* What ends a node is never its completion.
LEMMA NodeEndsWith ==
  ASSUME NEW slow \in BOOLEAN, Agent!NodeEnds(slow) # None
  PROVE  Agent!NodeEnds(slow) \in Agent!Stops \ {"completed"}
<1>1. Agent!NodeEnds(slow) \in {IF slow THEN "node_timeout" ELSE None, Agent!Common}
  BY FirstOfTwo DEF Agent!NodeEnds
<1>. QED
  BY <1>1 DEF Agent!Common, Agent!Stops

\* A stop that counts nothing.
LEMMA StopHere ==
  ASSUME AgentInv, phase \in {"enter", "tools", "called", "judge"},
         NEW reason \in Agent!Stops \ {"completed"}, Agent!Stop(reason),
         UNCHANGED <<investigation, node, trace, row, usage>>
  PROVE  AgentInv'
<1>1. /\ usage' \in WalkUsage
      /\ usage'.steps = usage.steps /\ usage'.tools = usage.tools
      /\ usage'.toolErrors = usage.toolErrors /\ usage'.calls <= Agent!Limits.calls
      /\ usage'.tokens > Agent!Limits.tokens => reason = "llm_budget_exceeded"
  BY Walking DEF AgentInv, AgentTypes, Agent!TypeOK, Agent!Limits, WalkUsage
<1>. QED
  BY <1>1, StopPreserves

LEMMA FinishPreserves ==
  ASSUME AgentInv, NEW slow \in BOOLEAN, Agent!FinishNode(slow)
  PROVE  AgentInv'
<1>0. /\ phase = "called" /\ UNCHANGED <<investigation, usage, verdict, cancelled, late, row>>
      /\ termination = None /\ Healthy
      /\ usage.tokens <= Agent!Limits.tokens /\ Agent!Limits.tokens \in Nat
      /\ usage \in WalkUsage /\ trace \in WalkTrace /\ state \in NodeState /\ work \in NodeWork
  BY Walking DEF Agent!FinishNode, AgentInv, AgentTypes
<1>1. CASE Agent!NodeEnds(slow) # None
  BY <1>0, <1>1, NodeEndsWith, StopHere DEF Agent!FinishNode
<1>2. CASE Agent!NodeEnds(slow) = None
  <2>1. /\ state' = [collected |-> work.collected, missing |-> work.missing,
                     errors |-> work.errors,
                     claims |-> state.claims \cup work.output.claims,
                     proposed |-> IF work.output.proposed = None THEN state.proposed
                                  ELSE work.output.proposed]
        /\ trace' = [trace EXCEPT !.tools = @ + work.tools, !.nodes = @ + 1]
        /\ node' = Agent!Following /\ phase' = "enter" /\ work' = Agent!NoWork
        /\ UNCHANGED <<todo, termination>>
    BY <1>2 DEF Agent!FinishNode
  <2>2. work.output \in AgentAnswers /\ todo = <<>> /\ node \in 1 .. Agent!ExecutionReader
    BY <1>0 DEF AgentInv, Unfailing, Places, AgentTypes, Agent!ExecutionReader, Agent!Composer
  <2>3. /\ work.output.claims \subseteq AnyClaim /\ work.output.proposed \in AnyProposal
    BY <2>2 DEF AnyClaim, AnyProposal
  <2>4. state' \in NodeState /\ state'.collected = work.collected /\ state'.errors = work.errors
    BY <1>0, <2>1, <2>3 DEF NodeState, NodeWork
  <2>5. /\ trace' \in WalkTrace /\ trace'.tools = trace.tools + work.tools
        /\ trace'.nodes = trace.nodes + 1
    <3>1. PICK t \in Nat, n \in Nat : t = trace.tools + work.tools /\ n = trace.nodes + 1
      BY <1>0 DEF NodeWork, WalkTrace
    <3>2. trace' = [trace EXCEPT !.tools = t, !.nodes = n]
      BY <2>1, <3>1
    <3>. QED
      BY <1>0, <3>1, <3>2 DEF WalkTrace
  <2>6. trace.nodes = node - 1
    BY <2>2 DEF AgentInv, Places
  <2>7. /\ node' \in 1 .. Agent!Composer /\ node' # Agent!Composer
        /\ node' <= Agent!ExecutionReader => node' = node + 1
        /\ node' > Agent!ExecutionReader =>
             \/ node = Agent!ExecutionReader
             \/ node = Agent!ExecutionReader - 1 /\ Agent!Offered("execution") = {}
    BY <2>1, <2>2 DEF Agent!Following, Agent!ExecutionReader, Agent!Critic, Agent!Composer
  <2>8. work' \in NodeWork
    BY <2>1 DEF Agent!NoWork, NodeWork
  <2>9. AgentTypes'
    BY <1>0, <2>1, <2>4, <2>5, <2>7, <2>8 DEF AgentInv, AgentTypes, NodeState, NodeWork
  <2>10. Agent!TypeOK'
    BY <1>0, <2>1, <2>4, <2>7 DEF AgentInv, Agent!TypeOK, Agent!Limits, NodeState
  <2>11. Places'
    <3>1. node' <= Agent!ExecutionReader => trace'.nodes = node' - 1
      BY <2>2, <2>5, <2>6, <2>7 DEF WalkTrace
    <3>2. node' > Agent!ExecutionReader =>
            \/ trace'.nodes = Agent!ExecutionReader
            \/ trace'.nodes = Agent!ExecutionReader - 1 /\ Agent!Offered("execution")' = {}
      BY <1>0, <2>2, <2>5, <2>6, <2>7 DEF Agent!Offered, Agent!ExecutionReader
    <3>3. termination' = None /\ None # "completed"
      BY <1>0, <2>1, AgentAssumed DEF Agent!AgentAssumption, Agent!Stops
    <3>. QED
      BY <1>0, <2>1, <3>1, <3>2, <3>3 DEF Places
  <2>12. AgentCounts'
    BY <1>0, <2>1, <2>2, <2>5, <2>7 DEF AgentInv, AgentCounts, Healthy, WalkUsage, WalkTrace,
      Agent!ExecutionReader, Agent!Composer
  <2>13. Gathered'
    <3>1. trace'.nodes = node
      BY <2>2, <2>5, <2>6
    <3>. QED
      BY <1>0, <2>1, <2>4, <3>1 DEF AgentInv, Gathered, ReadUpTo, Reads
  <2>14. Unfailing'
    <3>1. ASSUME state'.errors = {}, NEW n \in 1 .. trace'.nodes,
                 NEW tool \in investigation.failed
          PROVE  ~ Reads(n, tool)
      <4>1. work.errors = {} /\ state.errors = {}
        BY <1>0, <2>4, <3>1 DEF AgentInv, Unfailing
      <4>2. CASE n = node
        BY <1>0, <2>2, <4>1, <4>2 DEF AgentInv, Unfailing
      <4>3. CASE n # node
        BY <1>0, <2>2, <2>5, <2>6, <3>1, <4>1, <4>3 DEF AgentInv, Unfailing, WalkTrace
      <4>. QED
        BY <4>2, <4>3
    <3>. QED
      BY <1>0, <2>1, <3>1 DEF Unfailing, Reads
  <2>15. Accepted' /\ Agent!ResultsAreEarned'
    BY <1>0, <2>7, ResultIsKept DEF AgentInv, Accepted
  <2>. QED
    BY <2>9, <2>10, <2>11, <2>12, <2>13, <2>14, <2>15 DEF AgentInv
<1>. QED
  BY <1>1, <1>2

LEMMA CriticPreserves ==
  ASSUME AgentInv, NEW slow \in BOOLEAN, Agent!Criticise(slow)
  PROVE  AgentInv'
<1>0. /\ phase = "judge" /\ node = Agent!Critic
      /\ UNCHANGED <<investigation, usage, trace, cancelled, late, row>>
      /\ termination = None /\ Healthy
      /\ usage.tokens <= Agent!Limits.tokens /\ Agent!Limits.tokens \in Nat
      /\ usage \in WalkUsage /\ trace \in WalkTrace
  BY Walking DEF Agent!Criticise, AgentInv, AgentTypes
<1>1. CASE Agent!NodeEnds(slow) # None
  BY <1>0, <1>1, NodeEndsWith, StopHere DEF Agent!Criticise
<1>2. CASE Agent!NodeEnds(slow) = None /\ Agent!Rejects
  <2>1. Agent!Stop("critic_rejected") /\ UNCHANGED node
    BY <1>2 DEF Agent!Criticise
  <2>2. "critic_rejected" \in Agent!Stops \ {"completed"}
    BY DEF Agent!Stops
  <2>. QED
    BY <1>0, <2>1, <2>2, StopHere
<1>3. CASE Agent!NodeEnds(slow) = None /\ ~ Agent!Rejects
  <2>1. node' = Agent!Composer /\ phase' = "enter" /\ UNCHANGED <<todo, work, state, termination>>
    BY <1>3 DEF Agent!Criticise
  <2>2. AgentTypes' /\ Agent!TypeOK'
    BY <1>0, <2>1 DEF AgentInv, AgentTypes, Agent!TypeOK, Agent!Limits, Agent!Composer, NodeState,
      NodeWork
  <2>3. Places'
    BY <1>0, <2>1 DEF AgentInv, Places, Agent!Offered, Agent!ExecutionReader, Agent!Critic,
      Agent!Composer
  <2>4. AgentCounts'
    BY <1>0, <2>1 DEF AgentInv, AgentCounts, Healthy, WalkUsage, WalkTrace, Agent!Critic,
      Agent!Composer
  <2>5. Gathered' /\ Unfailing'
    BY <1>0, <2>1 DEF AgentInv, Gathered, Unfailing, ReadUpTo
  <2>6. Accepted' /\ Agent!ResultsAreEarned'
    BY <1>0, <1>3, <2>1, ResultIsKept DEF Accepted, Agent!Rejects, Agent!Factual, Agent!Entailed,
      Agent!Proposed,
      Agent!ExecutionFailed
  <2>. QED
    BY <2>2, <2>3, <2>4, <2>5, <2>6 DEF AgentInv
<1>. QED
  BY <1>1, <1>2, <1>3

LEMMA ComposePreserves ==
  ASSUME AgentInv, NEW slow \in BOOLEAN, Agent!Compose(slow)
  PROVE  AgentInv'
<1>0. /\ phase = "judge" /\ node = Agent!Composer
      /\ UNCHANGED <<investigation, node, usage, trace, verdict, cancelled, late, row>>
      /\ termination = None /\ Healthy
      /\ usage.tokens <= Agent!Limits.tokens /\ Agent!Limits.tokens \in Nat
      /\ usage \in WalkUsage /\ trace \in WalkTrace
  BY Walking DEF Agent!Compose, AgentInv, AgentTypes
<1>1. CASE Agent!NodeEnds(slow) # None
  BY <1>0, <1>1, NodeEndsWith, StopHere DEF Agent!Compose
<1>2. CASE Agent!NodeEnds(slow) = None
  <2>1. termination' = Agent!Outcome /\ phase' = "end" /\ UNCHANGED <<todo, work, state>>
    BY <1>2 DEF Agent!Compose
  <2>2. /\ termination' \in Agent!Stops /\ termination' # None
        /\ termination' \in {"completed", "tool_failure"}
        /\ termination' = "completed" => state.errors = {}
    BY <2>1, AgentAssumed DEF Agent!Outcome, Agent!Stops, Agent!AgentAssumption
  <2>3. AgentTypes' /\ Agent!TypeOK'
    BY <1>0, <2>1, <2>2 DEF AgentInv, AgentTypes, Agent!TypeOK, Agent!Limits, Agent!Composer,
      NodeState, NodeWork, WalkUsage
  <2>4. Places'
    BY <1>0, <2>1, <2>2 DEF AgentInv, Places, Agent!Offered, Agent!ExecutionReader, Agent!Composer
  <2>5. AgentCounts'
    BY <1>0, <2>1, <2>2 DEF AgentInv, AgentCounts, Healthy, WalkUsage, WalkTrace, Agent!Composer
  <2>6. Gathered' /\ Unfailing'
    BY <1>0, <2>1 DEF AgentInv, Gathered, Unfailing, ReadUpTo
  <2>7. Accepted' /\ Agent!ResultsAreEarned'
    BY <1>0, <2>1, ResultIsKept DEF AgentInv, Accepted, Agent!Rejects, Agent!Factual,
      Agent!Entailed,
      Agent!Proposed, Agent!ExecutionFailed
  <2>. QED
    BY <2>3, <2>4, <2>5, <2>6, <2>7 DEF AgentInv
<1>. QED
  BY <1>1, <1>2

\* What the three ways to finish keep: only the row is new, or the caller gives up.
LEMMA RowPreserves ==
  ASSUME AgentInv, Agent!ResultsAreEarned',
         UNCHANGED <<investigation, node, todo, work, state, usage, trace, verdict, termination>>,
         phase' = phase \/ (phase = "end" /\ phase' \in {"stored", "known"})
  PROVE  AgentInv'
<1>1. AgentTypes' /\ Agent!TypeOK'
  BY DEF AgentInv, AgentTypes, Agent!TypeOK, Agent!Limits, NodeState, NodeWork
<1>2. Places' /\ AgentCounts' /\ Gathered' /\ Unfailing' /\ Accepted'
  BY DEF AgentInv, Places, AgentCounts, Healthy, Gathered, Unfailing, Accepted, Agent!Offered,
    ReadUpTo, Agent!Rejects, Agent!Factual, Agent!Entailed, Agent!Proposed, Agent!ExecutionFailed
<1>. QED
  BY <1>1, <1>2 DEF AgentInv

\* A completed walk ends with a result that is earned, and any other with a cautious one.
LEMMA ResultIsEarned ==
  ASSUME AgentInv, Agent!Result.termination = "completed", termination # None,
         row' = Agent!Result, phase = "end", UNCHANGED investigation
  PROVE  Agent!CompletedIsEarned'
<1>1. termination = "completed" /\ investigation \in Investigations /\ trace \in WalkTrace
        /\ usage \in WalkUsage
  BY DEF Agent!Result, AgentInv, AgentTypes
<1>2. /\ node = Agent!Composer /\ state.errors = {} /\ Healthy /\ ~ Agent!Rejects
  BY <1>1 DEF AgentInv, Places, Healthy, Accepted
<1>3. \/ trace.nodes = 5
      \/ trace.nodes = 4 /\ Agent!Offered("execution") = {}
  BY <1>2 DEF AgentInv, Places, Agent!Composer, Agent!ExecutionReader
<1>4. \A tool \in investigation.failed : tool = "execution" /\ Agent!Offered(tool) = {}
  <2>1. SUFFICES ASSUME NEW tool \in investigation.failed
                 PROVE  tool = "execution" /\ Agent!Offered(tool) = {}
    OBVIOUS
  <2>2. tool \in Agent!Tools
    BY <1>1, AgentAssumed DEF Agent!AgentAssumption
  <2>3. \A n \in 1 .. trace.nodes : ~ Reads(n, tool)
    BY <1>2 DEF AgentInv, Unfailing
  <2>. QED
    BY <1>3, <2>2, <2>3, NodeToolsAre
<1>5. trace.tools = usage.tools /\ trace.nodes = usage.calls /\ usage.steps = trace.nodes + 2
  BY <1>1, <1>2 DEF AgentInv, AgentCounts, WalkUsage, WalkTrace
<1>6. \A claim \in Agent!Factual(Agent!Result.claims) :
         /\ claim.cites \subseteq state.collected /\ claim.cites # {}
         /\ \A f \in claim.facts : \E e \in claim.cites : f \in FactsOf[e]
  <2>1. SUFFICES ASSUME NEW claim \in state.claims, ~ claim.hypothesis
                 PROVE  /\ claim.cites \subseteq state.collected /\ claim.cites # {}
                        /\ \A f \in claim.facts : \E e \in claim.cites : f \in FactsOf[e]
    BY DEF Agent!Result, Agent!Factual
  <2>2. claim \in AnyClaim
    BY DEF AgentInv, AgentTypes, NodeState
  <2>3. claim.cites # {}
    BY <2>1, <2>2, AgentAssumed DEF AnyClaim, Agent!AgentAssumption
  <2>4. Agent!Entailed(claim)
    BY <1>2, <2>1 DEF Agent!Rejects, Agent!Factual
  <2>. QED
    BY <2>3, <2>4 DEF Agent!Entailed
<1>7. Agent!Result.recommendation = "SHIP" =>
         \A e \in state.collected :
           CategoryOf[e] = "execution" => "execution:failed" \notin FactsOf[e]
  BY <1>1, <1>2 DEF Agent!Result, Agent!RecommendationOf, Agent!Rejects, Agent!ExecutionFailed
<1>8. Agent!Result.evidence = state.collected /\ Agent!Result.usage = usage
        /\ Agent!Result.trace = trace
  BY DEF Agent!Result
<1>. QED
  BY <1>4, <1>5, <1>6, <1>7, <1>8 DEF Agent!CompletedIsEarned, Agent!Offered

LEMMA ResultIsCautious ==
  ASSUME AgentInv, row' = Agent!Result, UNCHANGED investigation
  PROVE  Agent!PartialIsCautious'
<1>1. /\ Agent!Result.partial = (termination # "completed")
      /\ Agent!Result.evidence = state.collected /\ Agent!Result.trace = trace
      /\ Agent!Result.recommendation = Agent!RecommendationOf(investigation.policy, termination)
  BY DEF Agent!Result
<1>2. Agent!Result.partial =>
        /\ Agent!Result.recommendation \in {"HOLD", "UNKNOWN"}
        /\ Agent!Result.recommendation = "HOLD" => investigation.policy = "HOLD"
  BY <1>1 DEF Agent!RecommendationOf
<1>3. \A e \in Agent!Result.evidence :
         \E n \in 1 .. Agent!Result.trace.nodes : \E i \in DOMAIN Agent!NodeTools[n] :
           Agent!NodeTools[n][i] = CategoryOf[e]
  BY <1>1 DEF AgentInv, Gathered, ReadUpTo, Reads
<1>. QED
  BY <1>2, <1>3 DEF Agent!PartialIsCautious

LEMMA AgentPersistPreserves ==
  ASSUME AgentInv, Agent!Persist
  PROVE  AgentInv'
<1>1. termination # None /\ phase = "end"
  BY DEF Agent!Persist, AgentInv, Agent!TypeOK
<1>2. CASE row = None
  <2>1. row' = Agent!Result /\ phase' = "stored"
    BY <1>2 DEF Agent!Persist
  <2>2. UNCHANGED <<investigation, node, todo, work, state, usage, trace, verdict, termination>>
    BY DEF Agent!Persist
  <2>3. Agent!CompletedIsEarned'
    <3>1. CASE Agent!Result.termination = "completed"
      BY <1>1, <2>1, <2>2, <3>1, ResultIsEarned
    <3>2. CASE Agent!Result.termination # "completed"
      BY <2>1, <3>2 DEF Agent!CompletedIsEarned
    <3>. QED
      BY <3>1, <3>2
  <2>4. Agent!PartialIsCautious'
    BY <2>1, <2>2, ResultIsCautious
  <2>. QED
    BY <1>1, <2>1, <2>2, <2>3, <2>4, RowPreserves DEF Agent!ResultsAreEarned
<1>3. CASE row # None
  <2>1. phase' = "known" /\ UNCHANGED row
    BY <1>3 DEF Agent!Persist
  <2>2. UNCHANGED <<investigation, node, todo, work, state, usage, trace, verdict, termination>>
    BY DEF Agent!Persist
  <2>. QED
    BY <1>1, <2>1, <2>2, ResultIsKept, RowPreserves
<1>. QED
  BY <1>2, <1>3

LEMMA RivalPreserves ==
  ASSUME AgentInv, Agent!RivalPersists
  PROVE  AgentInv'
<1>. DEFINE results ==
              [recommendation : {investigation.policy, "HOLD", "UNKNOWN"},
               termination : Agent!Stops \cup {None}, partial : BOOLEAN,
               evidence : SUBSET investigation.evidence, claims : SUBSET AnyClaim,
               usage : WalkUsage, trace : WalkTrace]
<1>1. Agent!Result \in results
  BY DEF AgentInv, AgentTypes, Agent!TypeOK, NodeState, Agent!Result, Agent!RecommendationOf
<1>2. row' = [Agent!Result EXCEPT !.termination = "provider_failure", !.partial = TRUE,
               !.recommendation = Agent!RecommendationOf(investigation.policy,
                 "provider_failure"),
               !.evidence = {}, !.claims = {}, !.usage = Agent!NoUsage, !.trace = Agent!NoTrace]
  BY DEF Agent!RivalPersists
<1>3. /\ row'.recommendation = Agent!RecommendationOf(investigation.policy, "provider_failure")
      /\ row'.termination = "provider_failure" /\ row'.evidence = {}
  <2>. HIDE DEF Agent!Result
  <2>. QED
    BY <1>1, <1>2
<1>4. /\ row'.recommendation \in {"HOLD", "UNKNOWN"}
      /\ row'.recommendation = "HOLD" => investigation.policy = "HOLD"
  BY <1>3 DEF Agent!RecommendationOf
<1>5. UNCHANGED <<investigation, node, phase, todo, work, state, usage, trace, verdict,
        termination>>
  BY DEF Agent!RivalPersists
<1>6. Agent!ResultsAreEarned'
  BY <1>3, <1>4, <1>5 DEF Agent!ResultsAreEarned, Agent!CompletedIsEarned, Agent!PartialIsCautious
<1>. QED
  BY <1>5, <1>6, RowPreserves

LEMMA AgentInit == Agent!Init => AgentInv
<1>. SUFFICES ASSUME Agent!Init PROVE AgentInv
  OBVIOUS
<1>1. investigation \in Investigations
        /\ Agent!Limits \in [steps : Nat, tools : Nat, calls : Nat, tokens : Nat, perTool : Nat]
  BY AgentAssumed DEF Agent!Init, Agent!AgentAssumption, Agent!Limits
<1>2. AgentTypes
  BY <1>1 DEF Agent!Init, AgentTypes, Agent!Composer, Agent!NoWork, NodeWork, NodeState,
    WalkUsage, WalkTrace, Agent!NoUsage, Agent!NoTrace, AnyProposal
<1>3. Agent!TypeOK
  BY <1>1 DEF Agent!Init, Agent!TypeOK, Agent!Composer, Agent!NoUsage
<1>4. Places /\ AgentCounts /\ Gathered /\ Unfailing /\ Accepted
  BY <1>1, AgentAssumed DEF Agent!Init, Places, AgentCounts, Healthy, Gathered, Unfailing,
    Accepted, Agent!NoWork, Agent!NoUsage, Agent!NoTrace,
    Agent!ExecutionReader, Agent!Composer, Agent!AgentAssumption, Agent!Stops
<1>5. Agent!ResultsAreEarned
  BY DEF Agent!Init, Agent!ResultsAreEarned, Agent!CompletedIsEarned, Agent!PartialIsCautious
<1>. QED
  BY <1>2, <1>3, <1>4, <1>5 DEF AgentInv

LEMMA AgentNext == AgentInv /\ [Agent!Next]_(Agent!vars) => AgentInv'
<1>. SUFFICES ASSUME AgentInv, [Agent!Next]_(Agent!vars) PROVE AgentInv'
  OBVIOUS
<1>1. CASE Agent!EnterNode
  BY <1>1, EnterPreserves
<1>2. CASE Agent!ReadTool
  BY <1>2, ReadPreserves
<1>3. CASE Agent!CallModel
  BY <1>3, CallPreserves
<1>4. CASE Agent!Persist
  BY <1>4, AgentPersistPreserves
<1>5. ASSUME NEW slow \in BOOLEAN, Agent!FinishNode(slow)
      PROVE  AgentInv'
  BY <1>5, FinishPreserves
<1>6. ASSUME NEW slow \in BOOLEAN, Agent!Criticise(slow)
      PROVE  AgentInv'
  BY <1>6, CriticPreserves
<1>7. ASSUME NEW slow \in BOOLEAN, Agent!Compose(slow)
      PROVE  AgentInv'
  BY <1>7, ComposePreserves
<1>8. ASSUME UNCHANGED <<investigation, node, phase, todo, work, state, usage, trace, verdict,
             termination, row>>
      PROVE  AgentInv'
  <2>1. Agent!ResultsAreEarned'
    BY <1>8, ResultIsKept
  <2>. QED
    BY <1>8, <2>1, RowPreserves
<1>9. CASE Agent!RivalPersists
  BY <1>9, RivalPreserves
<1>10. CASE UNCHANGED Agent!vars
  BY <1>8, <1>10 DEF Agent!vars
<1>11. CASE Agent!Cancel \/ Agent!WallTimePasses
  BY <1>8, <1>11 DEF Agent!Cancel, Agent!WallTimePasses
<1>. QED
  BY <1>11, <1>1, <1>2, <1>3, <1>4, <1>5, <1>6, <1>7, <1>8, <1>9, <1>10 DEF Agent!Next, Agent!Walk

\* Every event of a walk is accounted for, its budgets hold, and what it may still complete
\* has been read without an error and accepted by the critic (agent_core/graph.py).
THEOREM AgentInvariant == Agent!Spec => []AgentInv
  BY AgentInit, AgentNext, PTL DEF Agent!Spec

\* Whatever fails, stops or overtakes an investigation, the result that is stored is earned if
\* completed and cautious otherwise (agent_core/graph.py, run_investigation).
THEOREM InvestigationsAreEarned == Agent!Spec => []ResultsAreEarned
<1>1. AgentInv => ResultsAreEarned
  BY DEF AgentInv, ResultsAreEarned
<1>. QED
  BY <1>1, AgentInvariant, PTL
================================================================================
