---------------------------- MODULE EvidenceRouting ----------------------------
(***************************************************************************)
(* The privacy router: which evidence a policy lets a provider see, and    *)
(* the first reason for which it is refused.  Pure operators.              *)
(*                                                                         *)
(* policy:   [mode, providers, models, classes, maxBytes, redaction,       *)
(*            training, reviewed, retention, regions, noStorage]           *)
(* provider: [name, model, kind, training, retention, region, storageOff]  *)
(* evidence: [classes, plain, redacted], the last two sizes in bytes; text *)
(*           shorter than its replacement grows when it is redacted.       *)
(***************************************************************************)
EXTENDS Integers, Sequences, FiniteSetsExt

\* A review counts on its own day and for a year.
ReviewCounts(reviewed) == reviewed = "current"

PlainSize(policy, evidence) == evidence.plain   \* mutated form: measured before redaction
Redacts(policy) == policy.mode = "hosted_redacted"
Transmitted(policy, evidence) == IF Redacts(policy) THEN evidence.redacted ELSE evidence.plain

\* A mode or a duration nobody declared agrees with nothing, not even with itself.
Agree(a, b) == a # "unknown" /\ b # "unknown" /\ a = b

\* Reasons of a refusal with their conditions, in the order in which they are examined.
Checks(policy, provider, evidence) ==
  LET hosted == provider.kind = "hosted" IN
  << <<"provider_not_allowed", provider.name \notin policy.providers>>,
     <<"model_not_allowed", provider.model \notin policy.models>>,
     <<"content_class_not_allowed", ~ evidence.classes \subseteq policy.classes>>,
     <<"hosted_route_disabled", policy.mode = "local_only" /\ hosted>>,
     <<"hosted_provider_required", policy.mode # "local_only" /\ ~ hosted>>,
     <<"redaction_version_incompatible", Redacts(policy) /\ policy.redaction # "supported">>,
     <<"training_terms_incompatible",
        hosted /\ ~ (ReviewCounts(policy.reviewed) /\ Agree(policy.training, provider.training))>>,
     <<"retention_incompatible", hosted /\ ~ Agree(policy.retention, provider.retention)>>,
     <<"region_not_allowed", hosted /\ provider.region \notin policy.regions>>,
     <<"response_storage_control_unavailable",
        hosted /\ policy.noStorage /\ ~ provider.storageOff>>,
     <<"transmission_size_exceeded", Transmitted(policy, evidence) > policy.maxBytes>> >>

Route(policy, provider, evidence) ==
  LET checks == Checks(policy, provider, evidence)
      failed == {i \in DOMAIN checks : checks[i][2]}
  IN  IF failed = {} THEN "route_allowed" ELSE checks[Min(failed)][1]

\* What a policy promises, said without the router: who may see, what may be seen, and on
\* which terms data may leave.
Permits(policy, provider, evidence) ==
  /\ provider.name \in policy.providers /\ provider.model \in policy.models
  /\ evidence.classes \subseteq policy.classes
  /\ \/ policy.mode = "local_only" /\ provider.kind # "hosted" /\ evidence.plain <= policy.maxBytes
     \/ /\ provider.kind = "hosted" /\ provider.region \in policy.regions
        /\ policy.reviewed = "current"
        /\ <<policy.training, policy.retention>> = <<provider.training, provider.retention>>
        /\ "unknown" \notin {policy.training, policy.retention}
        /\ policy.noStorage => provider.storageOff
        /\ \/ policy.mode = "hosted_allowed" /\ evidence.plain <= policy.maxBytes
           \/ /\ policy.mode = "hosted_redacted" /\ policy.redaction = "supported"
              /\ evidence.redacted <= policy.maxBytes
================================================================================
