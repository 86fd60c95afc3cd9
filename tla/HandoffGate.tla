---------------------------- MODULE HandoffGate ------------------------------
(***************************************************************************)
(* The gate of delta/handoff.py over the store the engine writes: for each   *)
(* step, which persisted result is the candidate, what the verdicts on it     *)
(* are, and whether its content may cross to the receiving agent.           *)
(*                                                                         *)
(* The gate only reads.                                                    *)
(***************************************************************************)
EXTENDS DeltaEngine, HandoffVerdicts

CONSTANTS
    Agents,
    Providers,
    Categories,
    Principal,   \* who a call of the engine works for; None for an engine without one
    Declaration, \* [Steps -> what the step's developer declared of its work, or None]
    PolicySets   \* what requests bring: a policy, or None, for each category

Principals == [agent: Agents, provider: Providers]
WorkDeclaration == [category: Categories, shareable: BOOLEAN]

\* here: both scopes of the policy are the request's; no allowlist of agents is all of them
InheritancePolicy ==
    [here: BOOLEAN, agents: SUBSET Agents, shareable_only: BOOLEAN, providers: SUBSET Providers,
     rule: {"any_provider", "same_provider", "provider_allowlist"}]

ASSUME GateAssumption ==
    /\ Principal \in [Runs -> Principals \cup {None}]
    /\ Declaration \in [Steps -> WorkDeclaration \cup {None}]
    /\ PolicySets \subseteq [Categories -> InheritancePolicy \cup {None}]

HandoffRequest == [inputs: Requests, recipient: Principals, policies: PolicySets]

\* What others than the engine have made of a record: attached a paid job, which is
\* settled or still open, lost its artifact, saved it without provenance as programs
\* before provenance did, or left it undecodable.
Marks == {"plain", "job_settled", "job_open", "artifact_lost", "unattributed", "undecodable"}

VARIABLE mark    \* [Signatures -> Marks], of the record work holds

-----------------------------------------------------------------------------
\* list_work_records: the records that decode, and the steps of those that do not
Decodable(g) == work[g] # None /\ mark[g] # "undecodable"
Corrupt(s) == \E g \in Signatures : g.step = s /\ work[g] # None /\ mark[g] = "undecodable"

CompletedAt(g) == run[work[g].by].began

\* _latest_for_step.  Results completed at the same time are told apart by their
\* output's hash: any of them may be the latest.
Latest(s) ==
    {g \in Signatures : /\ g.step = s
                        /\ Decodable(g)
                        /\ \A k \in Signatures :
                             k.step = s /\ Decodable(k) => CompletedAt(k) <= CompletedAt(g)}

\* What _provenance_for gave the record when it was saved, if the record still has it
Provenance(g) ==
    IF Principal[work[g].by] = None \/ Declaration[g.step] = None \/ mark[g] = "unattributed"
    THEN None
    ELSE [source |-> Principal[work[g].by], work |-> Declaration[g.step]]

\* What the request and the outputs inherited so far make of a step's bindings
Available(request, context, s) ==
    request.inputs[s] # None /\ \A d \in Deps[s] : context[d] # None

Wanted(request, context, s) ==
    [step |-> s, input |-> request.inputs[s], from |-> [d \in Deps[s] |-> context[d]]]

\* The rest of _validity_verdict, for a record found under the wanted signature
Valid(g, time) ==
    /\ work[g].until = Forever \/ time < work[g].until
    /\ mark[g] # "artifact_lost"

Trusted(g) == Provenance(g) # None

ProviderRuleHolds(policy, recipient, source) ==
    CASE policy.rule = "any_provider" -> TRUE
      [] policy.rule = "same_provider" -> recipient.provider = source.provider
      [] policy.rule = "provider_allowlist" -> recipient.provider \in policy.providers

\* _authorization_verdict, for a trusted record
Authorized(request, g) ==
    LET origin == Provenance(g)
        policy == request.policies[origin.work.category]
    IN /\ policy # None
       /\ policy.here
       /\ request.recipient.agent \in policy.agents
       /\ ProviderRuleHolds(policy, request.recipient, origin.source)
       /\ policy.shareable_only => origin.work.shareable

\* The record under the wanted signature, or else the latest one of the step, if any
Candidate(request, context, fallback, s) ==
    LET wanted == Wanted(request, context, s) IN
    IF Decodable(wanted) THEN wanted ELSE fallback[s]

\* The status the record's external job has for the gate: a job that is not settled, or
\* in a state that is not known, is open.
ExternalJobVerdict(g) ==
    CASE mark[g] = "job_open" -> "unsafe"
      [] mark[g] = "job_settled" -> "safe"
      [] OTHER -> "not_applicable"

\* Mutant: the signature of a candidate is not compared with the wanted one.
VerdictsUnmatched(request, g, wanted, time) ==
    [validity |-> IF Valid(g, time) THEN "valid" ELSE "invalid",
     trust |-> IF Trusted(g) THEN "trusted" ELSE "untrusted",
     authorization |-> IF ~ Trusted(g) THEN "unevaluated"
                       ELSE IF Authorized(request, g) THEN "authorized" ELSE "unauthorized",
     dependency |-> "satisfied",
     external_job |-> ExternalJobVerdict(g)]

\* _evaluate_candidate, for a record
VerdictsOn(request, g, wanted, time) ==
    [validity |-> IF g = wanted /\ Valid(g, time) THEN "valid" ELSE "invalid",
     trust |-> IF Trusted(g) THEN "trusted" ELSE "untrusted",
     authorization |-> IF ~ Trusted(g) THEN "unevaluated"
                       ELSE IF Authorized(request, g) THEN "authorized" ELSE "unauthorized",
     dependency |-> "satisfied",
     external_job |-> ExternalJobVerdict(g)]

\* The verdicts on a step, given its candidate and the outputs inherited before it
VerdictsFor(request, context, candidate, time, s) ==
    IF ~ Available(request, context, s) THEN PendingVerdicts
    ELSE IF candidate # None THEN VerdictsOn(request, candidate, Wanted(request, context, s), time)
    ELSE IF Corrupt(s) THEN UndecodableVerdicts
    ELSE NoCandidateVerdicts

DecisionOn(v) == IF v = UndecodableVerdicts THEN "undecodable" ELSE DecideOn(v)

\* The body of evaluate's loop
Decision(request, context, fallback, time, s) ==
    DecisionOn(VerdictsFor(request, context, Candidate(request, context, fallback, s), time, s))

\* Mutant: what a candidate holds is inherited whatever was decided on it.
InheritedUnchecked(request, context, fallback, time, s) ==
    IF Available(request, context, s) /\ Candidate(request, context, fallback, s) # None
    THEN work[Candidate(request, context, fallback, s)].output
    ELSE None

\* What the step adds to the inherited outputs
Inherited(request, context, fallback, time, s) ==
    IF Decision(request, context, fallback, time, s) = "reuse"
    THEN work[Candidate(request, context, fallback, s)].output
    ELSE None

\* The context evaluate builds: it takes the steps in topological order, so each one
\* sees what the steps it depends on have added, and one context fits them all.
Builds(request, context, fallback, time) ==
    \A s \in Steps : context[s] = Inherited(request, context, fallback, time, s)
=============================================================================
