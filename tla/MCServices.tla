------------------------------- MODULE MCServices -------------------------------
(***************************************************************************)
(* A small instance of each service.  A behaviour is one of one service,   *)
(* chosen at the start, while the others rest in an initial state.         *)
(***************************************************************************)
EXTENDS Services, TLC, ChangeExamples

CONSTANTS k1, k2, u1, u2, request, bundle, p1, p2

VARIABLE service

--------------------------------------------------------------------------------
(* Two kinds, two users: single tenant reservations, a bundle that two users   *)
(* ask for under one key, and its retry with another quantity.                 *)
TwoKinds     == {k1, k2}
TwoUsers     == {u1, u2}
TwoKeys      == {request, bundle}
TwoProcesses == {p1, p2}

Single       == [key |-> request, user |-> NoUser, items |-> k1 :> 1]
Bundle(u, n) == [key |-> bundle, user |-> u, items |-> k1 :> 1 @@ k2 :> n]
SomeCalls    == {Single, Bundle(u1, 2), Bundle(u2, 2), Bundle(u1, 1)}

Tight == k1 :> 1 @@ k2 :> 2
Loose == k1 :> 2 @@ k2 :> 1
SomePolicies == {Tight, Loose}

(* Two plans over three rows, of which at most two are listed.                 *)
ThreeRows    == {"e1", "e2", "n1"}
TheirClasses == "e1" :> "embedding" @@ "e2" :> "embedding" @@ "n1" :> "analysis"
Daily(rest)  == [c \in {"source_snapshot", "embedding", "artifact"} |-> 0] @@ "analysis" :> rest
SomeDays     == 0 :> Daily(0) @@ 1 :> Daily(0) @@ 2 :> Daily(1)
TwoExecutors == {"x1", "x2"}

--------------------------------------------------------------------------------
(* One selection of evidence, two callers, and answers of every kind.          *)
Hosted == [name |-> "openai", model |-> "gpt", kind |-> "hosted", training |-> "not_used",
           retention |-> "zero", region |-> "eu", storageOff |-> TRUE]
Privacy == [mode |-> "hosted_redacted", providers |-> {"openai"}, models |-> {"gpt"},
            classes |-> {"evidence"}, maxBytes |-> 2, redaction |-> "supported",
            training |-> "not_used", reviewed |-> "current", retention |-> "zero",
            regions |-> {"eu"}, noStorage |-> TRUE, maxInput |-> 2, maxCost |-> 2, attempts |-> 2]
Fine == [complete |-> TRUE, wellFormed |-> TRUE, cites |-> {"e"}, insufficient |-> FALSE,
         cost |-> 1, totalAddsUp |-> TRUE, identity |-> TRUE]

OneSelection == {"r1"}
ItsEvidence  ==
  "r1" :> [classes |-> {"evidence"}, plain |-> 1, redacted |-> 2, ids |-> {"e"}, price |-> 2]
TwoVersions  == <<Privacy, [Privacy EXCEPT !.maxBytes = 1]>>
SomeAnswers  == {Fine, [Fine EXCEPT !.complete = FALSE], [Fine EXCEPT !.cost = 3],
                 [Fine EXCEPT !.cites = {"f"}]}

(* Investigations with everything, with a tool that fails, and with limits.    *)
Claim(cite, fact) == [cites |-> {cite}, facts |-> {fact}, hypothesis |-> FALSE]
Guess == [cites |-> {"x1"}, facts |-> {"a"}, hypothesis |-> TRUE]
Room  == [steps |-> 8, tools |-> 8, calls |-> 5, tokens |-> 2, perTool |-> 1]
Asked == [evidence |-> {"f1", "f2", "x1"}, policy |-> "SHIP", failed |-> {}, limits |-> Room]
Calm  == [Asked EXCEPT !.evidence = {"f1", "f2"}]

SomeEvidence   == {"f1", "f2", "x1"}
ItsCategories  == "f1" :> "feature" @@ "f2" :> "feature" @@ "x1" :> "execution"
ItsFacts       == "f1" :> {"a"} @@ "f2" :> {"b"} @@ "x1" :> {"execution:failed"}
SomeReplies    == {[claims |-> {}, proposed |-> None, tokens |-> 1],
                   [claims |-> {Claim("f1", "a"), Guess}, proposed |-> "SHIP", tokens |-> 0],
                   [claims |-> {Claim("f1", "b")}, proposed |-> "HOLD", tokens |-> 0]}
Investigated   == {Asked, [Calm EXCEPT !.failed = {"graph"}],
                   [Calm EXCEPT !.policy = "HOLD", !.limits.steps = 6],
                   [Calm EXCEPT !.limits.tools = 4], [Calm EXCEPT !.limits.calls = 3]}

(* Both kinds of plan, verified or not.                                        *)
EveryRun  == [kind : {"execution", "differential"}, valid : BOOLEAN]
TwoFacts  == {"same", "other"}

--------------------------------------------------------------------------------
(* A source of four changes in five forms: the original, one whose test row    *)
(* differs, two that leak across the splits, and one with an unknown label.    *)
Example(id, at, kind, commit, patch, signal) ==
  [id |-> id, at |-> at, kind |-> kind, seen |-> at + 1, head |-> commit, patch |-> patch,
   signal |-> signal]
Older == {Example(1, 0, "hotfix", "h1", "p1", 2), Example(2, 3, "explicit_revert", "h2", "p2", 3),
          Example(3, 4, "no_proxy_observed", "h3", "p2", 2)}
Tested(commit, patch, signal) ==
  Older \cup {Example(4, 6, "no_proxy_observed", commit, patch, signal)}
Unseen(sample) == {[r EXCEPT !.seen = IF r.id = 1 THEN None ELSE @] : r \in sample}

FiveSources == {Tested("h4", "p3", 1), Tested("h4", "p3", 4), Tested("h4", "q1", 1),
                Tested("h2", "p3", 1), Unseen(Tested("h4", "p3", 1))}
Patches     == "p1" :> "s1" @@ "q1" :> "s1" @@ "p2" :> "s2" @@ "p3" :> "s3"
\* The first two are alike on the original's rows.  At its threshold the third is as good, but
\* it ranks the validation rows worse; its hash would be the greatest.
ThreeConfigs == {"raw", "centred", "clipped"}
Fit(config, sample, r) ==
  CASE config = "raw"     -> r.signal
    [] config = "centred" -> r.signal + 2 - Max({0} \cup {s.signal : s \in sample})
    [] config = "clipped" -> Min({2, r.signal})
SomeDigest(config, threshold) ==
  2 * ("raw" :> 1 @@ "centred" :> 2 @@ "clipped" :> 3)[config] - threshold
OneOrTwo    == {1, 2}
ThreeLosses == {0, 1, 3}

(* Three snapshots, two workers.                                               *)
ThreeChanges == Three(None)

(* Two signals of one event and one that comes too early; current profiles     *)
(* that are fine, shifted, too small, unlabelled, or of another schema.        *)
Hotfix  == [outcome |-> "hotfix", known |-> TRUE, optIn |-> TRUE, start |-> 0, observed |-> 1,
            end |-> 1]
Profile == [schema |-> 1, rows |-> 10, features |-> "f" :> [missing |-> 1, bins |-> "low"],
            performance |-> [metric |-> "recall", value |-> 90, labels |-> 10]]
Missed  == "f" :> [missing |-> 3, bins |-> "low"]

OneEvent     == {"event"}
OneModel     == {"model"}
ThreeSignals == {Hotfix, [Hotfix EXCEPT !.optIn = FALSE], [Hotfix EXCEPT !.end = 2]}
SomePairs    ==
  {Profile} \X
    {Profile, [Profile EXCEPT !.features = Missed], [Profile EXCEPT !.performance.value = 80],
     [Profile EXCEPT !.rows = 5, !.features = "f" :> [missing |-> 0, bins |-> "high"]],
     [Profile EXCEPT !.performance.labels = 5, !.performance.value = 80],
     [Profile EXCEPT !.schema = 2]}
  \cup {<<[Profile EXCEPT !.features = Missed], [Profile EXCEPT !.performance.value = 80]>>}
SomeStability ==
  [pair \in {"low", "high"} \X {"low", "high"} |-> IF pair[1] = pair[2] THEN 0 ELSE 30]
SomeThresholds == [rows |-> 10, labels |-> 10, missing |-> 10, stability |-> 20, drop |-> 5]

(* Two connections and a small database; each runs statements of any kind.     *)
Small        == INSTANCE SchemaExamples
OneDatabase  == {Small!SmallDatabase(None)}
SchemaRows   == Small!SomeRows(None)

--------------------------------------------------------------------------------
EveryService == {"quota", "retention", "llm", "agent", "runner", "offline", "change", "feedback",
                 "schema"}

ServicesInit ==
  /\ service \in EveryService
  /\ Init /\ Retention!Init /\ Llm!Init /\ Agent!Init /\ Runner!Init /\ Offline!Init /\ Change!Init
  /\ Feedback!Init /\ Schema!Init
  /\ service # "agent" => investigation = Asked
  /\ service # "runner" => hardened /\ job = [kind |-> "execution", valid |-> TRUE]
  /\ service # "feedback" => learning

ServicesNext ==
  /\ IF service = "quota" THEN Next ELSE UNCHANGED vars
  /\ IF service = "retention" THEN Retention!Next ELSE UNCHANGED retentionVars
  /\ IF service = "llm" THEN Llm!Next ELSE UNCHANGED llmVars
  /\ IF service = "agent" THEN Agent!Next ELSE UNCHANGED agentVars
  /\ IF service = "runner" THEN Runner!Next ELSE UNCHANGED runnerVars
  /\ IF service = "offline" THEN Offline!Next ELSE UNCHANGED offlineVars
  /\ IF service = "change" THEN Change!Next ELSE UNCHANGED changeVars
  /\ IF service = "feedback" THEN Feedback!Next ELSE UNCHANGED feedbackVars
  /\ IF service = "schema" THEN Schema!Next ELSE UNCHANGED schemaVars
  /\ UNCHANGED service

ServicesVars == <<service, vars, retentionVars, llmVars, agentVars, runnerVars, offlineVars,
                  changeVars, feedbackVars, schemaVars>>
ServicesSpec == ServicesInit /\ [][ServicesNext]_ServicesVars

\* Processes, callers, plans and workers are interchangeable.
ServicesSymmetry == Permutations({p1, p2})
================================================================================
