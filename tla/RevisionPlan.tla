--------------------------- MODULE RevisionPlan -----------------------------
(***************************************************************************)
(* Plans over DeltaEngine: build_revision_plan of delta/core.py, and the      *)
(* preview and execute routes of delta/web.py, which run a plan only if the    *)
(* plan that was shown is still the one the store gives.                     *)
(*                                                                         *)
(* Between that comparison and each lookup of the engine other calls go on,   *)
(* so a run may do otherwise than its plan said.                             *)
(***************************************************************************)
EXTENDS DeltaEngine

CONSTANT Visitors   \* the runs that the execute route starts

ASSUME VisitorAssumption == Visitors \subseteq Runs

VARIABLES
    shown,     \* the plan a visitor's page shows, by its id
    admitted,  \* what the execute route found for a plan it let through
    changed    \* observer: the steps whose planned record was another when the run came to them

planVars == <<vars, shown, admitted, changed>>

-----------------------------------------------------------------------------
\* The outputs a plan reuses, None where it reuses none
PlannedOutputs == [Steps -> Outputs \cup {None}]

PlanResolved(p, request, s) == request[s] # None /\ \A d \in Deps[s] : p[d] # None

PlanSignature(p, request, s) ==
    [step |-> s, input |-> request[s], from |-> [d \in Deps[s] |-> p[d]]]

\* WorkResult.matches at a time
UsableAt(result, t) == result # None /\ (result.until = Forever \/ t < result.until)

\* Mutant: any fresh result of the step is reusable.
FollowsByStep(p, request, t) ==
    \A s \in Steps :
        LET found == {g \in Signatures : g.step = s /\ UsableAt(work[g], t)}
        IN IF PlanResolved(p, request, s) /\ found # {}
           THEN \E g \in found : p[s] = work[g].output ELSE p[s] = None

\* The loop of build_revision_plan: a step is reused if its bindings have values and a
\* result matches its signature.
Follows(p, request, t) ==
    \A s \in Steps :
        LET record == work[PlanSignature(p, request, s)]
        IN p[s] = IF PlanResolved(p, request, s) /\ UsableAt(record, t) THEN record.output ELSE None

ASSUME PlanAssumption == None \notin Signatures

\* What a plan's id hashes; a step whose dependencies wait has no signature.
PlanDecision == [decision: {"reuse", "rerun", "pending_dependency"}, sig: Signatures \cup {None}]
PlanId == [request: Requests, decisions: [Steps -> PlanDecision]]

PlanOf(p, request) ==
    [request |-> request,
     decisions |-> [s \in Steps |->
        IF PlanResolved(p, request, s)
        THEN [decision |-> IF p[s] # None THEN "reuse" ELSE "rerun", sig |-> PlanSignature(p, request, s)]
        ELSE [decision |-> "pending_dependency", sig |-> None]]]

Admission == [records: [Steps -> WorkResult \cup {None}], at: Nat]

\* The records under a plan's signatures
RecordsOf(id) ==
    [s \in Steps |-> IF id.decisions[s].sig = None THEN None ELSE work[id.decisions[s].sig]]

PlanTypeOK ==
    /\ TypeOK
    /\ shown \in [Visitors -> PlanId \cup {None}]
    /\ admitted \in [Visitors -> Admission \cup {None}]
    /\ changed \in [Visitors -> SUBSET Steps]

PlanInit ==
    /\ Init
    /\ shown = [r \in Visitors |-> None]
    /\ admitted = [r \in Visitors |-> None]
    /\ changed = [r \in Visitors |-> {}]

-----------------------------------------------------------------------------
\* _handle_preview; the plan it saves is never deleted.
Preview(r) ==
    /\ run[r].pc = "idle" /\ admitted[r] = None
    /\ \E request \in Requests, p \in PlannedOutputs :
         /\ Follows(p, request, now)
         /\ shown' = [shown EXCEPT ![r] = PlanOf(p, request)]
    /\ UNCHANGED <<vars, admitted, changed>>

\* Mutant: a plan with the same inputs is let through whatever its decisions are.
AdmitSameInputs(r) ==
    /\ run[r].pc = "idle" /\ admitted[r] = None /\ shown[r] # None
    /\ \E p \in PlannedOutputs :
         /\ Follows(p, shown[r].request, now)
         /\ admitted' = [admitted EXCEPT ![r] =
                           [records |-> RecordsOf(PlanOf(p, shown[r].request)), at |-> now]]
    /\ UNCHANGED <<vars, shown, changed>>

\* _handle_execute, up to the engine: a plan that is not the one of a preview made now is
\* refused, which changes nothing.
Admit(r) ==
    /\ run[r].pc = "idle" /\ admitted[r] = None /\ shown[r] # None
    /\ \E p \in PlannedOutputs :
         /\ Follows(p, shown[r].request, now)
         /\ PlanOf(p, shown[r].request) = shown[r]
    /\ admitted' = [admitted EXCEPT ![r] = [records |-> RecordsOf(shown[r]), at |-> now]]
    /\ UNCHANGED <<vars, shown, changed>>

\* _handle_execute, when it calls the engine
StartPlanned(r) ==
    /\ admitted[r] # None
    /\ BeginAt(r, shown[r].request, now)
    /\ UNCHANGED <<shown, admitted, changed>>

\* Crash, which also takes the requests that have not reached the engine
CrashPlanned ==
    /\ Crash
    /\ admitted' = [r \in Visitors |-> IF run[r].pc = "idle" THEN None ELSE admitted[r]]
    /\ UNCHANGED <<shown, changed>>

\* The run takes up its step: it looks at the store, or cannot.
TakesUp(r) == run[r].pc = "resolve" /\ run'[r] # run[r]

\* The other calls, and what goes on in those that were started
EngineMoves ==
    /\ (\E r \in Runs \ Visitors : Begin(r)) \/ (\E r \in Runs : Continue(r)) \/ Tick
    /\ changed' = [r \in Visitors |->
                     IF TakesUp(r) /\ RecordsOf(shown[r])[StepOf(r)] # admitted[r].records[StepOf(r)]
                     THEN changed[r] \cup {StepOf(r)} ELSE changed[r]]
    /\ UNCHANGED <<shown, admitted>>

PlanNext ==
    \/ \E r \in Visitors : Preview(r) \/ Admit(r) \/ StartPlanned(r)
    \/ CrashPlanned
    \/ EngineMoves

PlanSpec == PlanInit /\ [][PlanNext]_planVars
-----------------------------------------------------------------------------
\* A plan shows no step's input with an output that nobody produced for the input its
\* dependency has in the same plan (build_revision_plan over list_work_results).
PreviewSound ==
    \A r \in Visitors, s \in Steps :
        shown[r] # None /\ shown[r].decisions[s].sig # None =>
            \A d \in Deps[s] :
                <<shown[r].decisions[d].sig, shown[r].decisions[s].sig.from[d]>> \in produced

\* The step and all it depends on, directly or not
RestsOn(s) ==
    {t \in Steps : \A C \in SUBSET Steps : s \in C /\ (\A u \in C : Deps[u] \subseteq C) => t \in C}

\* A record that the route could have reused is stale for the run.
GrownStale(r, s) ==
    UsableAt(admitted[r].records[s], admitted[r].at) /\ ~ Matches(admitted[r].records[s], r)

\* For the step, or one it depends on, the run found another record than the route, or
\* the same grown stale.  What the run saves for a step comes after it has looked.
ChangedSince(r, s) == \E t \in RestsOn(s) : t \in changed[r] \/ GrownStale(r, t)

\* A run that a shown plan started reuses what the plan said it would, and only that,
\* unless another call saved a record the step rests on, or one grew stale, after the plan
\* was compared (_handle_execute, execute).
PlanKept ==
    \A r \in Visitors, s \in Steps :
        LET decision == run[r].decision[s] IN
        decision # "none" /\ shown[r].decisions[s].decision # "pending_dependency" =>
            \/ (shown[r].decisions[s].decision = "reuse") <=> (decision = "reuse")
            \/ ChangedSince(r, s)
=============================================================================
