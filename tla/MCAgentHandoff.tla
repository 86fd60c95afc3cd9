-------------------------- MODULE MCAgentHandoff ----------------------------
(***************************************************************************)
(* Instances of AgentHandoff for TLC: the private notes of                  *)
(* delta/scenarios.py and the summary that binds them, first done for agent A, *)
(* then handed to agent B.                                                  *)
(***************************************************************************)
EXTENDS AgentHandoff

CONSTANTS a, b   \* a call for agent A, a handoff to agent B

MCSteps == {"private_notes", "dependent_summary"}
MCOrder == <<"private_notes", "dependent_summary">>
MCDeps == [s \in MCSteps |-> IF s = "dependent_summary" THEN {"private_notes"} ELSE {}]
NotesExpire == [s \in MCSteps |-> IF s = "private_notes" THEN 1 ELSE Forever]
NeverExpire == [s \in MCSteps |-> Forever]

OneRequest == {[s \in MCSteps |-> 1]}
TwoRequests == OneRequest \cup {[s \in MCSteps |-> IF s = "private_notes" THEN 2 ELSE 1]}

\* A category for each step; the notes are internal only.
MCDeclaration == [s \in MCSteps |-> [category |-> s, shareable |-> s # "private_notes"]]
\* Agent A works for one provider, agent B for another, or for the same one.
MCPrincipal ==
    [r \in Runs |-> CASE r = a -> [agent |-> "agent-a", provider |-> "delta-fixture"]
                      [] r = b -> [agent |-> "agent-b", provider |-> "openai"]
                      [] OTHER -> None]
OneProvider ==
    [r \in Runs |-> IF MCPrincipal[r] = None THEN None
                   ELSE [MCPrincipal[r] EXCEPT !.provider = "delta-fixture"]]

\* The scenario's policies: the same provider, and of the notes what is shareable
Scenario ==
    [k \in Categories |-> [here |-> TRUE, agents |-> Agents, shareable_only |-> k = "private_notes",
                           providers |-> {}, rule |-> "same_provider"]]
\* Policies that let everyone of the same provider have everything, or everyone
OneProviderOnly == [k \in Categories |-> [Scenario[k] EXCEPT !.shareable_only = FALSE]]
Lenient == [k \in Categories |-> [OneProviderOnly[k] EXCEPT !.rule = "any_provider"]]
\* Policies by lists: B's provider may have the notes, and only A's the summary
Listed ==
    [k \in Categories |->
        [Lenient[k] EXCEPT !.rule = "provider_allowlist",
                           !.providers = IF k = "private_notes" THEN Providers ELSE {"delta-fixture"}]]
MCPolicySets == {Scenario, Lenient, Listed}
SameProvider == {OneProviderOnly}
LenientOnly == {Lenient}
=============================================================================
