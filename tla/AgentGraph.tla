------------------------------- MODULE AgentGraph -------------------------------
(***************************************************************************)
(* A bounded investigation: a fixed walk over nodes that read evidence     *)
(* through tools and ask a local model for claims, a critic that checks    *)
(* the claims, a composer that ends the walk, and the row that keeps the   *)
(* result under the identity of the run.  Guards stop the walk at any      *)
(* step: cancellation, wall time, a node that takes too long, and budgets  *)
(* of steps, tool calls, model calls and tokens (input tokens, output      *)
(* tokens and cost behave alike and are one number here).  The graph has   *)
(* no cycle, so no node is entered twice.                                  *)
(***************************************************************************)
EXTENDS Integers, FiniteSets, Sequences, FiniteSetsExt

CONSTANTS
  Evidence,      \* references a request may select
  CategoryOf,    \* category of a reference
  FactsOf,       \* its structured facts
  Answers,       \* of the model: [claims, proposed, tokens], a claim being
                 \*   [cites, facts, hypothesis]
  Requests,      \* [evidence, policy, failed, limits : [steps, tools, calls, tokens, perTool]]
  None

\* Tools of the nodes that ask the model, in the order of the walk.
NodeTools ==
  << <<"feature", "graph">>, <<"retrieval">>, <<"risk">>, <<"test_result">>, <<"execution">> >>
ExecutionReader == 5
Critic   == 6
Composer == 7

Tools == {"feature", "graph", "retrieval", "risk", "test_result", "execution"}

\* How a walk may end.
Stops ==
  {"completed", "cancelled", "step_budget_exceeded", "tool_budget_exceeded",
   "llm_budget_exceeded", "wall_time_exceeded", "node_timeout", "tool_failure",
   "provider_failure", "critic_rejected"}

AgentAssumption ==
  /\ \A r \in Requests :
       /\ r.failed \subseteq Tools
       /\ r.limits \in [steps : Nat, tools : Nat, calls : Nat, tokens : Nat, perTool : Nat]
  /\ \A a \in Answers :
       /\ a.tokens \in Nat
       /\ \A claim \in a.claims : ~ claim.hypothesis => claim.cites # {} /\ claim.facts # {}
  /\ None \notin Stops /\ None \notin Answers

VARIABLES
  request,      \* what is investigated
  node,         \* current node
  phase,        \* "enter", "tools", "called", "judge", "end", "stored" or "known"
  todo,         \* tools the node still has to read
  work,         \* what the node has so far: [collected, missing, errors, tools, output],
                \*   tools being its events
  state,        \* what finished nodes left: [collected, missing, errors, claims, proposed]
  usage,        \* [steps, tools, toolErrors, calls, tokens], never taken back
  trace,        \* events of nodes that finished and of their tools: [tools, nodes]
  verdict,      \* of the critic
  termination,
  cancelled,    \* the caller cancelled
  late,         \* the wall time is used up
  row           \* the stored result of this identity

vars == <<request, node, phase, todo, work, state, usage, trace, verdict, termination,
          cancelled, late, row>>

NoWork == [collected |-> {}, missing |-> {}, errors |-> {}, tools |-> 0, output |-> None]
NoTrace == [tools |-> 0, nodes |-> 0]
NoUsage == [steps |-> 0, tools |-> 0, toolErrors |-> 0, calls |-> 0, tokens |-> 0]

Init ==
  /\ request \in Requests
  /\ node = 1 /\ phase = "enter" /\ todo = <<>> /\ work = NoWork
  /\ state = [collected |-> {}, missing |-> {}, errors |-> {}, claims |-> {}, proposed |-> None]
  /\ usage = NoUsage /\ trace = NoTrace
  /\ verdict = None /\ termination = None
  /\ cancelled = FALSE /\ late = FALSE
  /\ row = None

--------------------------------------------------------------------------------
Limits == request.limits
Offered(c) == {e \in request.evidence : CategoryOf[e] = c}

Common ==
  CASE cancelled -> "cancelled"
    [] ~ cancelled /\ late -> "wall_time_exceeded"
    [] OTHER -> None

\* The work of the node is lost with the events of its tools, what it used is not.
Stop(reason) ==
  /\ termination' = reason
  /\ state' = [state EXCEPT !.errors = @ \cup {reason}]
  /\ phase' = "end" /\ work' = NoWork /\ todo' = <<>>

FirstOf(reasons) ==
  LET given == {i \in DOMAIN reasons : reasons[i] # None} IN
  IF given = {} THEN None ELSE reasons[Min(given)]
OverLate(used, limit, reason) == IF used > limit THEN reason ELSE None   \* mutated form
Over(used, limit, reason) == IF used >= limit THEN reason ELSE None

EnterNode ==
  LET reason == FirstOf(<<Common, Over(usage.steps, Limits.steps, "step_budget_exceeded")>>) IN
  /\ phase = "enter"
  /\ IF reason # None
     THEN Stop(reason) /\ UNCHANGED usage
     ELSE /\ usage' = [usage EXCEPT !.steps = @ + 1]
          /\ IF node <= ExecutionReader
             THEN /\ phase' = "tools" /\ todo' = NodeTools[node]
                  /\ work' = [NoWork EXCEPT !.collected = state.collected,
                                !.missing = state.missing, !.errors = state.errors]
             ELSE phase' = "judge" /\ UNCHANGED <<todo, work>>
          /\ UNCHANGED <<state, termination>>
  /\ UNCHANGED <<request, node, trace, verdict, cancelled, late, row>>

\* The first references of the category, in the order of the selection; a failed tool is an
\* error, one without references leaves its category missing.
ReadTool ==
  LET tool   == Head(todo)
      reason == FirstOf(<<Common, Over(usage.tools, Limits.tools, "tool_budget_exceeded")>>)
      failed == tool \in request.failed IN
  /\ phase = "tools" /\ todo # <<>>
  /\ IF reason # None
     THEN Stop(reason) /\ UNCHANGED usage
     ELSE /\ usage' = [usage EXCEPT !.tools = @ + 1, !.toolErrors = @ + (IF failed THEN 1 ELSE 0)]
          /\ \E found \in SUBSET Offered(tool) :
               /\ IF failed THEN found = {}
                  ELSE \/ found = Offered(tool) /\ Cardinality(found) <= Limits.perTool
                       \/ Cardinality(found) = Limits.perTool
               /\ work' = [work EXCEPT
                    !.collected = @ \cup found,
                    !.missing = IF found = {} THEN @ \cup {tool} ELSE @,
                    !.errors = IF failed THEN @ \cup {"tool_failed"} ELSE @,
                    !.tools = @ + 1]
          /\ todo' = Tail(todo)
          /\ UNCHANGED <<state, termination, phase>>
  /\ UNCHANGED <<request, node, trace, verdict, cancelled, late, row>>

\* Any exception of the model, or an answer for another node, ends the walk.  Tokens beyond
\* the limit are recorded before they end it.
Refused ==
  FirstOf(<<Common, Over(usage.calls, Limits.calls, "llm_budget_exceeded"),
            Over(usage.tokens, Limits.tokens, "llm_budget_exceeded")>>)
CallModel ==
  /\ phase = "tools" /\ todo = <<>>
  /\ IF Refused # None
     THEN Stop(Refused) /\ UNCHANGED usage
     ELSE \/ /\ Stop("provider_failure")
             /\ usage' = [usage EXCEPT !.calls = @ + 1]
          \/ \E answer \in Answers :
               /\ usage' = [usage EXCEPT !.calls = @ + 1, !.tokens = @ + answer.tokens]
               /\ IF usage'.tokens > Limits.tokens
                  THEN Stop("llm_budget_exceeded")
                  ELSE /\ work' = [work EXCEPT !.output = answer]
                       /\ phase' = "called"
                       /\ UNCHANGED <<todo, state, termination>>
  /\ UNCHANGED <<request, node, trace, verdict, cancelled, late, row>>

\* Without execution evidence in the request its reader is passed over.
Following ==
  IF node = ExecutionReader - 1 /\ Offered("execution") = {} THEN Critic ELSE node + 1

\* The time a node took is looked at after it has done its work.
NodeEnds(slow) == FirstOf(<<IF slow THEN "node_timeout" ELSE None, Common>>)
FinishNode(slow) ==
  /\ phase = "called"
  /\ IF NodeEnds(slow) # None
     THEN Stop(NodeEnds(slow)) /\ UNCHANGED <<node, trace>>
     ELSE /\ state' = [collected |-> work.collected, missing |-> work.missing,
                       errors |-> work.errors,
                       claims |-> state.claims \cup work.output.claims,
                       proposed |-> IF work.output.proposed = None THEN state.proposed
                                    ELSE work.output.proposed]
          /\ trace' = [trace EXCEPT !.tools = @ + work.tools, !.nodes = @ + 1]
          /\ node' = Following /\ phase' = "enter" /\ work' = NoWork
          /\ UNCHANGED <<todo, termination>>
  /\ UNCHANGED <<request, usage, verdict, cancelled, late, row>>

\* What the critic finds wrong.  A claim is entailed by the facts of all it cites together;
\* hypotheses are not looked at.
Proposed == IF state.proposed = None THEN "UNKNOWN" ELSE state.proposed
EntailedAnyhow(claim) == claim.cites \subseteq state.collected   \* mutated form
Entailed(claim) ==
  /\ claim.cites \subseteq state.collected
  /\ claim.facts \subseteq UNION {FactsOf[e] : e \in claim.cites}
Factual(claims) == {claim \in claims : ~ claim.hypothesis}
ExecutionFailed ==
  \E e \in state.collected : CategoryOf[e] = "execution" /\ "execution:failed" \in FactsOf[e]
Rejects ==
  \/ \E claim \in Factual(state.claims) : ~ Entailed(claim)
  \/ Proposed # request.policy
  \/ ExecutionFailed /\ Proposed = "SHIP"

Criticise(slow) ==
  /\ phase = "judge" /\ node = Critic
  /\ IF NodeEnds(slow) # None
     THEN Stop(NodeEnds(slow)) /\ UNCHANGED <<verdict, node>>
     ELSE IF Rejects
     THEN Stop("critic_rejected") /\ verdict' = "reject" /\ UNCHANGED node
     ELSE /\ verdict' = "pass" /\ node' = Composer /\ phase' = "enter"
          /\ UNCHANGED <<todo, work, state, termination>>
  /\ UNCHANGED <<request, usage, trace, cancelled, late, row>>

\* Errors of tools on the way make a partial result of an accepted draft.
OutcomeAlways == "completed"   \* mutated form
Outcome == IF state.errors # {} THEN "tool_failure" ELSE "completed"
Compose(slow) ==
  /\ phase = "judge" /\ node = Composer
  /\ IF NodeEnds(slow) # None
     THEN Stop(NodeEnds(slow))
     ELSE termination' = Outcome /\ phase' = "end" /\ UNCHANGED <<todo, work, state>>
  /\ UNCHANGED <<request, node, usage, trace, verdict, cancelled, late, row>>

\* Without a finished walk nothing better than caution is said.
RecommendationOf(policy, ended) ==
  CASE ended = "completed" -> policy
    [] ended # "completed" /\ policy = "HOLD" -> "HOLD"
    [] OTHER -> "UNKNOWN"
Result ==
  [recommendation |-> RecommendationOf(request.policy, termination), termination |-> termination,
   partial |-> termination # "completed", evidence |-> state.collected,
   claims |-> IF verdict = None THEN {} ELSE state.claims, usage |-> usage, trace |-> trace]

\* Under the lock of the feature set: a row that is there already is returned, not replaced.
Persist ==
  /\ phase = "end"
  /\ IF row = None THEN row' = Result /\ phase' = "stored"
     ELSE phase' = "known" /\ UNCHANGED row
  /\ UNCHANGED <<request, node, todo, work, state, usage, trace, verdict, termination,
                 cancelled, late>>

--------------------------------------------------------------------------------
(* Environment *)

Cancel ==
  /\ ~ cancelled /\ cancelled' = TRUE
  /\ UNCHANGED <<request, node, phase, todo, work, state, usage, trace, verdict, termination,
                 late, row>>
WallTimePasses ==
  /\ ~ late /\ late' = TRUE
  /\ UNCHANGED <<request, node, phase, todo, work, state, usage, trace, verdict, termination,
                 cancelled, row>>

\* Another call of the same identity got there first; it may have ended otherwise.
RivalPersists ==
  /\ row = None
  /\ row' = [Result EXCEPT !.termination = "provider_failure", !.partial = TRUE,
               !.recommendation = RecommendationOf(request.policy, "provider_failure"),
               !.evidence = {}, !.claims = {}, !.usage = NoUsage, !.trace = NoTrace]
  /\ UNCHANGED <<request, node, phase, todo, work, state, usage, trace, verdict, termination,
                 cancelled, late>>

Walk ==
  \/ EnterNode \/ ReadTool \/ CallModel \/ Persist
  \/ \E slow \in BOOLEAN : FinishNode(slow) \/ Criticise(slow) \/ Compose(slow)
Next == Walk \/ Cancel \/ WallTimePasses \/ RivalPersists

Spec == Init /\ [][Next]_vars

--------------------------------------------------------------------------------
\* Types, and the budgets: no counter passes its limit, and the tokens of the one call that
\* does pass it are counted but end the walk.
TypeOK ==
  /\ node \in 1 .. Composer /\ termination \in Stops \cup {None}
  /\ phase \in {"enter", "tools", "called", "judge", "end", "stored", "known"}
  /\ state.collected \subseteq request.evidence
  /\ usage.steps <= Limits.steps /\ usage.tools <= Limits.tools /\ usage.calls <= Limits.calls
  /\ usage.toolErrors <= usage.tools
  /\ usage.tokens > Limits.tokens => termination = "llm_budget_exceeded"
  /\ phase \in {"end", "stored", "known"} <=> termination # None

\* A completed result has earned the recommendation of the policy: a walk in which every
\* tool was read without error and every node answered, whose claims, unless marked as
\* hypotheses, rest on evidence that the tools returned, and which no failed execution
\* contradicts.
CompletedIsEarned ==
  row # None /\ row.termination = "completed" =>
    /\ \A tool \in request.failed : tool = "execution" /\ Offered(tool) = {}
    /\ row.trace.tools = row.usage.tools /\ row.trace.nodes = row.usage.calls
    /\ row.usage.steps = row.trace.nodes + 2
    /\ \A claim \in Factual(row.claims) :
         /\ claim.cites \subseteq row.evidence /\ claim.cites # {}
         /\ \A f \in claim.facts : \E e \in claim.cites : f \in FactsOf[e]
    /\ row.recommendation = "SHIP" =>
         \A e \in row.evidence :
           CategoryOf[e] = "execution" => "execution:failed" \notin FactsOf[e]

\* A partial result never says more than the policy allows without it, and its evidence is
\* only what finished nodes had read: there is a node event for every node that left any.
PartialIsCautious ==
  row # None /\ row.partial =>
    /\ row.recommendation \in {"HOLD", "UNKNOWN"}
    /\ row.recommendation = "HOLD" => request.policy = "HOLD"
    /\ \A e \in row.evidence :
         \E n \in 1 .. row.trace.nodes :
           \E i \in DOMAIN NodeTools[n] : NodeTools[n][i] = CategoryOf[e]

\* Whatever interrupts a walk, its stored result is either earned or cautious.
ResultsAreEarned == CompletedIsEarned /\ PartialIsCautious
================================================================================
