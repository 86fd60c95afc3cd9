------------------------- MODULE RevisionPlanProofs -------------------------
(***************************************************************************)
(* Theorems about RevisionPlan for every workflow, set of visitors and       *)
(* environment: what is done with plans is, to the engine, more calls of it, *)
(* a plan shows only inputs with outputs that were produced, and a run keeps  *)
(* to its plan as long as it finds the records the route found.             *)
(***************************************************************************)
EXTENDS RevisionPlan, EngineAttemptProofs

PlansTyped ==
    /\ shown \in [Visitors -> PlanId \cup {None}]
    /\ admitted \in [Visitors -> Admission \cup {None}]
    /\ changed \in [Visitors -> SUBSET Steps]
    /\ \A r \in Visitors : admitted[r] # None => shown[r] # None

PlanInv == EngineInv /\ PlansTyped /\ PreviewSound

-----------------------------------------------------------------------------
LEMMA PlanSignatureTyped ==
    ASSUME NEW p \in PlannedOutputs, NEW request \in Requests, NEW s \in Steps,
           PlanResolved(p, request, s)
    PROVE  PlanSignature(p, request, s) \in Signatures
  <1>1. request[s] \in Inputs
    BY EngineAssumption DEF PlanResolved
  <1>2. [d \in Deps[s] |-> p[d]] \in [Deps[s] -> Outputs]
    BY EngineAssumption DEF PlanResolved, PlannedOutputs
  <1>3. PlanSignature(p, request, s) \in [step: {s}, input: Inputs, from: [Deps[s] -> Outputs]]
    BY <1>1, <1>2 DEF PlanSignature
  <1> QED BY <1>3 DEF Signatures

LEMMA PlanTyped ==
    ASSUME NEW p \in PlannedOutputs, NEW request \in Requests
    PROVE  PlanOf(p, request) \in PlanId
  <1>1. ASSUME NEW s \in Steps
        PROVE  IF PlanResolved(p, request, s)
               THEN [decision |-> IF p[s] # None THEN "reuse" ELSE "rerun",
                     sig |-> PlanSignature(p, request, s)] \in PlanDecision
               ELSE [decision |-> "pending_dependency", sig |-> None] \in PlanDecision
    BY PlanSignatureTyped DEF PlanDecision
  <1> QED BY <1>1 DEF PlanOf, PlanId

\* What a plan says of a step that does not wait
LEMMA PlannedSignature ==
    ASSUME NEW p, NEW request, NEW s \in Steps, PlanResolved(p, request, s)
    PROVE  PlanOf(p, request).decisions[s].sig = PlanSignature(p, request, s)
  BY DEF PlanOf

LEMMA WaitsWithout ==
    ASSUME NEW p, NEW request, NEW s \in Steps, ~ PlanResolved(p, request, s)
    PROVE  PlanOf(p, request).decisions[s].sig = None
  BY DEF PlanOf

\* An output that a plan takes from the store was produced for the signature the plan
\* gives its step.
LEMMA TakenWasProduced ==
    ASSUME EngineInv, NEW p \in PlannedOutputs, NEW request \in Requests, NEW time,
           Follows(p, request, time), NEW d \in Steps, p[d] # None
    PROVE  /\ PlanResolved(p, request, d)
           /\ <<PlanSignature(p, request, d), p[d]>> \in produced
  <1> DEFINE g == PlanSignature(p, request, d)
  <1>1. PlanResolved(p, request, d) /\ UsableAt(work[g], time) /\ p[d] = work[g].output
    BY DEF Follows
  <1>2. g \in Signatures
    BY <1>1, PlanSignatureTyped
  <1>3. work[g] # None
    BY <1>1 DEF UsableAt
  <1> QED BY <1>1, <1>2, <1>3 DEF EngineInv, WorkSound

LEMMA PlanIsSound ==
    ASSUME EngineInv, NEW p \in PlannedOutputs, NEW request \in Requests, NEW time,
           Follows(p, request, time), NEW s \in Steps,
           PlanOf(p, request).decisions[s].sig # None, NEW d \in Deps[s]
    PROVE  LET plan == PlanOf(p, request).decisions
           IN <<plan[d].sig, plan[s].sig.from[d]>> \in produced
  <1>1. PlanResolved(p, request, s)
    BY WaitsWithout
  <1>2. d \in Steps /\ p[d] # None
    BY <1>1, EngineAssumption DEF PlanResolved
  <1>3. PlanResolved(p, request, d) /\ <<PlanSignature(p, request, d), p[d]>> \in produced
    BY <1>2, TakenWasProduced
  <1>4. PlanOf(p, request).decisions[s].sig.from[d] = p[d]
    <2>1. PlanSignature(p, request, s).from = [c \in Deps[s] |-> p[c]]
      BY DEF PlanSignature
    <2>2. PlanOf(p, request).decisions[s].sig = PlanSignature(p, request, s)
      BY <1>1, PlannedSignature
    <2> HIDE DEF PlanOf
    <2> QED BY <2>1, <2>2
  <1>5. PlanOf(p, request).decisions[d].sig = PlanSignature(p, request, d)
    BY <1>2, <1>3, PlannedSignature
  <1> QED BY <1>3, <1>4, <1>5

-----------------------------------------------------------------------------
LEMMA EngineProducedGrows == [Next]_vars => produced \subseteq produced'
  BY DEF Next, vars, Begin, BeginAt, Crash, Tick, Continue, Proceed, Unresolved, Reuse, LookupMisses, Blocked,
     StartAttempt, StartHead, ExecutorReturns, ExecutorRaises, SaveResult, SaveSuccess,
     ReleaseAfterSuccess, SaveFailure, ReleaseAfterFailure, StoreFails

\* To the engine, a step of the plan routes is a step of a call, or none.
LEMMA PlanStepIsEngineStep == PlansTyped /\ [PlanNext]_planVars => [Next]_vars
  <1> SUFFICES ASSUME PlansTyped, [PlanNext]_planVars PROVE [Next]_vars
    OBVIOUS
  <1>1. ASSUME NEW r \in Visitors, Preview(r) \/ Admit(r) PROVE UNCHANGED vars
    BY <1>1 DEF Preview, Admit
  <1>2. ASSUME NEW r \in Visitors, StartPlanned(r) PROVE Next
    <2>1. r \in Runs
      BY VisitorAssumption
    <2>2. Begin(r)
      <3>1. BeginAt(r, shown[r].request, now)
        BY <1>2 DEF StartPlanned
      <3>2. run[r].pc = "idle" /\ admitted[r] # None
        BY <1>2 DEF StartPlanned, BeginAt
      <3>3. shown[r] # None
        BY <3>2 DEF PlansTyped
      <3>4. shown[r].request \in Requests
        BY <3>3 DEF PlansTyped, PlanId
      <3> QED BY <3>1, <3>4 DEF Begin
    <2> QED BY <2>1, <2>2 DEF Next
  <1>3. ASSUME CrashPlanned PROVE Next
    BY <1>3 DEF CrashPlanned, Next
  <1>4. ASSUME EngineMoves PROVE Next
    BY <1>4 DEF EngineMoves, Next
  <1>5. ASSUME UNCHANGED planVars PROVE UNCHANGED vars
    BY <1>5 DEF planVars
  <1> QED BY <1>1, <1>2, <1>3, <1>4, <1>5 DEF PlanNext

\* A plan that stays shown stays sound, and one that is newly shown is.
LEMMA ShownKeeps ==
    ASSUME PlanInv, NEW r \in Visitors, Preview(r)
    PROVE  PlansTyped' /\ PreviewSound'
  <1>1. PICK request \in Requests, p \in PlannedOutputs :
          Follows(p, request, now) /\ shown' = [shown EXCEPT ![r] = PlanOf(p, request)]
    BY DEF Preview
  <1> DEFINE plan == PlanOf(p, request)
  <1>2. plan \in PlanId
    BY PlanTyped
  <1>3. UNCHANGED <<produced, admitted, changed>> /\ admitted[r] = None
    BY DEF Preview, vars
  <1>4. \A q \in Visitors : shown'[q] = IF q = r THEN plan ELSE shown[q]
    BY <1>1 DEF PlanInv, PlansTyped
  <1>5. ASSUME NEW s \in Steps, plan.decisions[s].sig # None, NEW d \in Deps[s]
        PROVE  <<plan.decisions[d].sig, plan.decisions[s].sig.from[d]>> \in produced
    BY <1>1, <1>5, PlanIsSound DEF PlanInv
  <1> HIDE DEF plan
  <1>6. PlansTyped'
    BY <1>1, <1>2, <1>3, <1>4 DEF PlanInv, PlansTyped, plan
  <1>7. PreviewSound'
    BY <1>3, <1>4, <1>5 DEF PlanInv, PreviewSound
  <1> QED BY <1>6, <1>7

LEMMA AdmitKeeps ==
    ASSUME PlanInv, NEW r \in Visitors, Admit(r)
    PROVE  PlansTyped' /\ PreviewSound'
  <1> DEFINE x == [records |-> RecordsOf(shown[r]), at |-> now]
  <1>1. admitted' = [admitted EXCEPT ![r] = x] /\ shown[r] # None /\ UNCHANGED <<shown, produced, changed>>
    BY DEF Admit, vars
  <1>2. shown[r] \in PlanId
    BY <1>1 DEF PlanInv, PlansTyped
  <1>3. x \in Admission
    <2>1. now \in Nat /\ work \in [Signatures -> WorkResult \cup {None}]
      BY DEF PlanInv, EngineInv, TypeOK
    <2>2. \A s \in Steps : shown[r].decisions[s].sig \in Signatures \cup {None}
      BY <1>2 DEF PlanId, PlanDecision
    <2>3. RecordsOf(shown[r]) \in [Steps -> WorkResult \cup {None}]
      BY <2>1, <2>2 DEF RecordsOf
    <2> QED BY <2>1, <2>3 DEF Admission
  <1> HIDE DEF x
  <1>4. PlansTyped'
    BY <1>1, <1>3 DEF PlanInv, PlansTyped
  <1> QED BY <1>1, <1>4 DEF PlanInv, PreviewSound

\* The engine only adds to what was produced.
LEMMA MoveKeepsPlans ==
    ASSUME PlanInv, [Next]_vars, UNCHANGED shown,
           admitted' \in [Visitors -> Admission \cup {None}],
           changed' \in [Visitors -> SUBSET Steps],
           \A r \in Visitors : admitted'[r] # None => admitted[r] # None
    PROVE  PlansTyped' /\ PreviewSound'
  <1>1. produced \subseteq produced'
    BY EngineProducedGrows
  <1> QED BY <1>1 DEF PlanInv, PlansTyped, PreviewSound

\* The observer only adds to what has changed, and notes what a run takes up.
LEMMA ChangedNoted ==
    ASSUME EngineInv, PlansTyped, [PlanNext]_planVars
    PROVE  /\ changed' \in [Visitors -> SUBSET Steps]
           /\ \A r \in Visitors : changed[r] \subseteq changed'[r]
           /\ EngineMoves =>
                \A r \in Visitors : TakesUp(r) =>
                   \/ StepOf(r) \in changed'[r]
                   \/ RecordsOf(shown[r])[StepOf(r)] = admitted[r].records[StepOf(r)]
  <1>1. CASE EngineMoves
    <2>1. \A r \in Visitors : run[r].pc = "resolve" => StepOf(r) \in Steps
      BY AtStep, VisitorAssumption DEF Begun, Ended, EngineInv
    <2> DEFINE Other(r) == RecordsOf(shown[r])[StepOf(r)] # admitted[r].records[StepOf(r)]
    <2>2. changed' = [r \in Visitors |-> IF TakesUp(r) /\ Other(r)
                                        THEN changed[r] \cup {StepOf(r)} ELSE changed[r]]
      BY <1>1 DEF EngineMoves
    <2>3. \A r \in Visitors : TakesUp(r) => StepOf(r) \in Steps
      BY <2>1 DEF TakesUp
    <2> HIDE DEF Other
    <2>4. /\ changed' \in [Visitors -> SUBSET Steps]
          /\ \A r \in Visitors : changed[r] \subseteq changed'[r]
          /\ \A r \in Visitors : TakesUp(r) => StepOf(r) \in changed'[r] \/ ~ Other(r)
      BY <2>2, <2>3 DEF PlansTyped
    <2> QED BY <2>4 DEF Other
  <1>2. CASE ~ EngineMoves
    <2>1. changed' = changed
      BY <1>2 DEF PlanNext, planVars, Preview, Admit, StartPlanned, CrashPlanned
    <2> QED BY <1>2, <2>1 DEF PlansTyped
  <1> QED BY <1>1, <1>2

LEMMA PlanNextKeeps == PlanInv /\ [PlanNext]_planVars => PlanInv'
  <1> SUFFICES ASSUME PlanInv, [PlanNext]_planVars PROVE PlanInv'
    OBVIOUS
  <1>1. [Next]_vars
    BY PlanStepIsEngineStep DEF PlanInv
  <1>2. EngineInv'
    BY <1>1, NextKeeps DEF PlanInv
  <1>3. CASE \E r \in Visitors : Preview(r) \/ Admit(r)
    BY <1>2, <1>3, ShownKeeps, AdmitKeeps DEF PlanInv
  <1>4. CASE CrashPlanned
    <2>1. /\ admitted' \in [Visitors -> Admission \cup {None}]
          /\ \A r \in Visitors : admitted'[r] # None => admitted[r] # None
      BY <1>4 DEF CrashPlanned, PlanInv, PlansTyped
    <2>2. UNCHANGED shown
      BY <1>4 DEF CrashPlanned
    <2> QED BY <1>1, <1>2, <2>1, <2>2, ChangedNoted, MoveKeepsPlans DEF PlanInv
  <1>5. CASE EngineMoves \/ (\E r \in Visitors : StartPlanned(r)) \/ UNCHANGED planVars
    <2>1. UNCHANGED <<shown, admitted>>
      BY <1>5 DEF EngineMoves, StartPlanned, planVars
    <2>2. /\ admitted' \in [Visitors -> Admission \cup {None}]
          /\ \A r \in Visitors : admitted'[r] # None => admitted[r] # None
      BY <2>1 DEF PlanInv, PlansTyped
    <2> QED BY <1>1, <1>2, <2>1, <2>2, ChangedNoted, MoveKeepsPlans DEF PlanInv
  <1> QED BY <1>3, <1>4, <1>5 DEF PlanNext

LEMMA PlanInitSound == PlanInit => PlanInv
  <1> SUFFICES ASSUME PlanInit PROVE PlanInv
    OBVIOUS
  <1>1. EngineInv
    BY InitSound DEF PlanInit
  <1> QED BY <1>1 DEF PlanInit, PlanInv, PlansTyped, PreviewSound

THEOREM PlanInvariantHolds == PlanSpec => []PlanInv
  BY PlanInitSound, PlanNextKeeps, PTL DEF PlanSpec

\* Plans and admissions have their types in every reachable state, beside the engine's
\* (_handle_preview, _handle_execute).
THEOREM PlanTypeCorrect == PlanSpec => []PlanTypeOK
  <1>1. PlanInv => PlanTypeOK
    BY DEF PlanInv, EngineInv, PlansTyped, PlanTypeOK
  <1> QED BY <1>1, PlanInvariantHolds, PTL

\* No plan shows an input with an output that nobody produced for it, also while other
\* calls save and replace results (build_revision_plan).
THEOREM PreviewSoundHolds == PlanSpec => []PreviewSound
  <1>1. PlanInv => PreviewSound
    BY DEF PlanInv
  <1> QED BY <1>1, PlanInvariantHolds, PTL

\* Plans on top change nothing of what the engine does: every behaviour with them is one
\* of the engine, so all that is proved of it holds (_handle_execute, execute).
THEOREM PlansImplementEngine == PlanSpec => Spec
  <1>1. PlanInit => Init
    BY DEF PlanInit
  <1>2. PlanInv /\ [PlanNext]_planVars => [Next]_vars
    BY PlanStepIsEngineStep DEF PlanInv
  <1> QED BY <1>1, <1>2, PlanInvariantHolds, PTL DEF PlanSpec, Spec

\* A run started from a plan, too, uses only outputs produced for exactly the inputs its
\* steps have in it (_handle_execute, execute).
THEOREM PlannedRunsSound == PlanSpec => SoundEvaluation
  BY PlansImplementEngine, EngineSound, PTL
-----------------------------------------------------------------------------
(***************************************************************************)
(* Runs that keep to their plan.                                           *)
(***************************************************************************)
Undecided(q) == \A i \in DOMAIN Order : run[q].at <= i => run[q].decision[Order[i]] = "none"

\* The outputs p are what the admitted plan reuses, from the records the route saw.
AdmittedFrom(r, p) ==
    LET id == shown[r] IN
    /\ id.request \in Requests /\ id = PlanOf(p, id.request)
    /\ admitted[r].at <= now
    /\ \A s \in Steps :
         LET seen == admitted[r].records[s] IN
         p[s] = IF PlanResolved(p, id.request, s) /\ UsableAt(seen, admitted[r].at)
                THEN seen.output ELSE None

\* The places of a call whose lookup has missed
Missed == {"looked_up", "attempt_started", "executing", "produced", "result_saved", "success_saved",
           "failing", "failure_saved"}

\* A step the plan does not leave waiting was done as planned, or a record has changed.
StepKept(r, p, s) ==
    PlanResolved(p, shown[r].request, s) =>
        \/ ChangedSince(r, s)
        \/ IF p[s] # None THEN run[r].decision[s] = "reuse" /\ run[r].outputs[s] = p[s]
                          ELSE run[r].decision[s] # "reuse"

KeptBy(r, p) ==
    run[r].pc # "idle" =>
        /\ run[r].request = shown[r].request /\ admitted[r].at <= run[r].began
        /\ \A i \in DOMAIN Order : i < run[r].at => StepKept(r, p, Order[i])
        /\ run[r].pc \in Missed /\ PlanResolved(p, shown[r].request, StepOf(r)) =>
             ChangedSince(r, StepOf(r)) \/ p[StepOf(r)] = None

VisitorSound(r) ==
    IF admitted[r] = None THEN run[r].pc = "idle"
    ELSE \E p \in PlannedOutputs : AdmittedFrom(r, p) /\ KeptBy(r, p)

KeptInv ==
    /\ \A q \in Runs : Undecided(q)
    /\ \A r \in Visitors : VisitorSound(r)

\* What a step of the engine may do to a call: leave it at its step, or decide the step.
Stays(q) ==
    run'[q].at = run[q].at /\ run'[q].decision = run[q].decision /\ run'[q].outputs = run[q].outputs
Advances(q) ==
    /\ run'[q].at = run[q].at + 1 /\ run[q].at \in DOMAIN Order
    /\ \A s \in Steps : s # StepOf(q) =>
         run'[q].decision[s] = run[q].decision[s] /\ run'[q].outputs[s] = run[q].outputs[s]
    /\ run'[q].pc \notin Missed
Moves(q) ==
    /\ Stays(q) \/ Advances(q)
    /\ run[q].pc # "idle" =>
         run'[q].pc # "idle" /\ run'[q].began = run[q].began /\ run'[q].request = run[q].request

LEMMA DecideMoves ==
    ASSUME EngineInv, NEW r \in Runs, Begun(r), NEW decision, NEW output, Decide(r, decision, output)
    PROVE  /\ Moves(r) /\ Advances(r)
           /\ run'[r].decision[StepOf(r)] = decision /\ run'[r].outputs[StepOf(r)] = output
  <1>1. /\ run \in [Runs -> Run] /\ run[r] \in Run /\ StepOf(r) \in Steps
        /\ run[r].at \in DOMAIN Order
    BY AtStep DEF EngineInv, TypeOK, RunSound
  <1>2. /\ run[r].decision \in [Steps -> Decisions] /\ run[r].outputs \in [Steps -> Outputs \cup {None}]
    BY <1>1 DEF Run
  <1>3. /\ run'[r].at = run[r].at + 1 /\ run'[r].pc \in {"done", "resolve"}
        /\ run'[r].began = run[r].began /\ run'[r].request = run[r].request
        /\ run'[r].decision = [run[r].decision EXCEPT ![StepOf(r)] = decision]
        /\ run'[r].outputs = [run[r].outputs EXCEPT ![StepOf(r)] = output]
    BY <1>1 DEF Decide, Run
  <1> QED BY <1>1, <1>2, <1>3 DEF Moves, Advances, Missed

LEMMA GotoMoves ==
    ASSUME EngineInv, NEW r \in Runs, NEW place \in PCs \ {"idle"}, Goto(r, place)
    PROVE  Moves(r) /\ Stays(r) /\ run'[r].pc = place
  <1>1. run \in [Runs -> Run] /\ run[r] \in Run
    BY DEF EngineInv, TypeOK
  <1>2. /\ run'[r].at = run[r].at /\ run'[r].pc = place /\ run'[r].decision = run[r].decision
        /\ run'[r].outputs = run[r].outputs
        /\ run'[r].began = run[r].began /\ run'[r].request = run[r].request
    BY <1>1 DEF Goto, Run
  <1> QED BY <1>2 DEF Moves, Stays

\* The three kinds of steps a call takes
LEMMA ContinueMoves ==
    ASSUME EngineInv, NEW r \in Runs, Continue(r)
    PROVE  /\ Moves(r) /\ \A q \in Runs \ {r} : run'[q] = run[q]
           /\ run'[r].pc \in Missed => Stays(r) /\ (run[r].pc \in Missed \/ LookupMisses(r))
  <1>1. run \in [Runs -> Run] /\ run[r] \in Run
    BY DEF EngineInv, TypeOK
  <1>2. CASE Unresolved(r) \/ Reuse(r) \/ Blocked(r) \/ ReleaseAfterSuccess(r) \/ ReleaseAfterFailure(r)
    <2>1. Begun(r)
      BY <1>2 DEF Unresolved, Reuse, Blocked, ReleaseAfterSuccess, ReleaseAfterFailure, Begun, Ended
    <2>2. PICK decision, output : Decide(r, decision, output)
      BY <1>2 DEF Unresolved, Reuse, Blocked, ReleaseAfterSuccess, ReleaseAfterFailure
    <2>3. \A q \in Runs \ {r} : run'[q] = run[q]
      BY <1>1, <2>2 DEF Decide
    <2> QED BY <2>1, <2>2, <2>3, DecideMoves DEF Advances
  <1>3. CASE ExecutorReturns(r)
    <2>1. PICK o \in Outputs : run' = [run EXCEPT ![r].pc = "produced", ![r].result = o]
      BY <1>3 DEF ExecutorReturns
    <2>2. /\ run'[r].at = run[r].at /\ run'[r].pc = "produced" /\ run'[r].decision = run[r].decision
          /\ run'[r].outputs = run[r].outputs /\ run[r].pc = "executing"
          /\ run'[r].began = run[r].began /\ run'[r].request = run[r].request
      BY <1>1, <1>3, <2>1 DEF Run, ExecutorReturns
    <2> QED BY <1>1, <2>1, <2>2 DEF Moves, Stays, Missed
  <1>4. CASE \/ LookupMisses(r) \/ StartAttempt(r) \/ StartHead(r) \/ ExecutorRaises(r)
             \/ SaveResult(r) \/ SaveSuccess(r) \/ SaveFailure(r) \/ StoreFails(r)
    <2>1. PICK place \in PCs \ {"idle"} :
            /\ Goto(r, place)
            /\ place \in Missed => run[r].pc \in Missed \/ LookupMisses(r)
      BY <1>4 DEF LookupMisses, StartAttempt, StartHead, ExecutorRaises, SaveResult, SaveSuccess,
         SaveFailure, StoreFails, PCs, Locked, Ended, Missed
    <2>2. \A q \in Runs \ {r} : run'[q] = run[q]
      BY <1>1, <2>1 DEF Goto
    <2> QED BY <2>1, <2>2, GotoMoves
  <1> QED BY <1>2, <1>3, <1>4 DEF Continue, Proceed

LEMMA SameMoves ==
    ASSUME EngineInv, NEW q \in Runs, run'[q] = run[q]
    PROVE  Moves(q) /\ Stays(q)
  BY DEF Moves, Stays

LEMMA CrashMoves ==
    ASSUME EngineInv, Crash, NEW q \in Runs
    PROVE  /\ Moves(q) /\ Stays(q)
           /\ run'[q] = run[q] \/ run'[q].pc = "crashed"
  <1>1. run \in [Runs -> Run] /\ run[q] \in Run
    BY DEF EngineInv, TypeOK
  <1>2. CASE Begun(q)
    <2>1. run'[q] = [run[q] EXCEPT !.pc = "crashed"]
      BY <1>2 DEF Crash
    <2>2. /\ run'[q].at = run[q].at /\ run'[q].pc = "crashed" /\ run'[q].decision = run[q].decision
          /\ run'[q].outputs = run[q].outputs
          /\ run'[q].began = run[q].began /\ run'[q].request = run[q].request
      BY <1>1, <2>1 DEF Run
    <2> QED BY <2>2 DEF Moves, Stays
  <1>3. CASE ~ Begun(q)
    <2>1. run'[q] = run[q]
      BY <1>3 DEF Crash
    <2> QED BY <2>1, SameMoves
  <1> QED BY <1>2, <1>3

LEMMA BeginMoves ==
    ASSUME EngineInv, NEW r \in Runs, NEW q \in Requests, NEW time, BeginAt(r, q, time)
    PROVE  /\ Moves(r) /\ \A u \in Runs \ {r} : run'[u] = run[u]
           /\ run'[r].at = 1 /\ run'[r].request = q /\ run'[r].began = time
           /\ run'[r].pc \in {"done", "resolve"}
  <1>1. run \in [Runs -> Run] /\ run[r] \in Run /\ RunSound(r) /\ run[r].pc = "idle"
    BY DEF EngineInv, TypeOK, BeginAt
  <1>2. /\ run'[r].at = run[r].at /\ run'[r].request = q /\ run'[r].began = time
        /\ run'[r].decision = run[r].decision /\ run'[r].outputs = run[r].outputs
        /\ run'[r].pc \in {"done", "resolve"}
    BY <1>1 DEF BeginAt, Run
  <1>3. \A u \in Runs \ {r} : run'[u] = run[u]
    BY <1>1 DEF BeginAt
  <1> QED BY <1>1, <1>2, <1>3 DEF Moves, Stays, RunSound

LEMMA NextMoves ==
    ASSUME EngineInv, [Next]_vars, NEW q \in Runs
    PROVE  Moves(q)
  <1>1. CASE \E r \in Runs : Begin(r)
    <2>1. PICK r \in Runs, request \in Requests : BeginAt(r, request, now)
      BY <1>1 DEF Begin
    <2> QED BY <2>1, BeginMoves, SameMoves
  <1>2. CASE \E r \in Runs : Continue(r)
    <2>1. PICK r \in Runs : Continue(r)
      BY <1>2
    <2> QED BY <2>1, ContinueMoves, SameMoves
  <1>3. CASE Crash
    BY <1>3, CrashMoves
  <1>4. CASE Tick \/ UNCHANGED vars
    BY <1>4, SameMoves DEF Tick, vars
  <1> QED BY <1>1, <1>2, <1>3, <1>4 DEF Next

LEMMA UndecidedKeeps ==
    ASSUME EngineInv, NEW q \in Runs, Undecided(q), Moves(q)
    PROVE  Undecided(q)'
  <1>1. run[q] \in Run /\ run[q].at \in Nat
    BY DEF EngineInv, TypeOK, Run
  <1>2. CASE Stays(q)
    BY <1>2 DEF Stays, Undecided
  <1>3. CASE Advances(q)
    <2> SUFFICES ASSUME NEW i \in DOMAIN Order, run'[q].at <= i
                 PROVE  run'[q].decision[Order[i]] = "none"
      BY DEF Undecided
    <2>1. run[q].at < i /\ i # run[q].at /\ run[q].at \in DOMAIN Order
      BY <1>1, <1>3, EngineAssumption DEF Advances
    <2>2. Order[i] # StepOf(q) /\ Order[i] \in Steps
      BY <2>1, EngineAssumption DEF StepOf
    <2> QED BY <1>1, <1>3, <2>1, <2>2, EngineAssumption DEF Advances, Undecided
  <1> QED BY <1>2, <1>3 DEF Moves

LEMMA ClockGrows ==
    ASSUME EngineInv, [Next]_vars
    PROVE  now \in Nat /\ now' \in Nat /\ now <= now'
  <1>1. now \in Nat
    BY DEF EngineInv, TypeOK
  <1>2. now' = now \/ now' = now + 1
    BY DEF Next, vars, Begin, BeginAt, Crash, Tick, Continue, Proceed, Unresolved, Reuse, LookupMisses,
       Blocked, StartAttempt, StartHead, ExecutorReturns, ExecutorRaises, SaveResult, SaveSuccess,
       ReleaseAfterSuccess, SaveFailure, ReleaseAfterFailure, StoreFails
  <1> QED BY <1>1, <1>2

\* What a plan's decisions say of the outputs it was built from
LEMMA PlanSays ==
    ASSUME NEW p \in PlannedOutputs, NEW request \in Requests, NEW s \in Steps
    PROVE  LET d == PlanOf(p, request).decisions[s] IN
           /\ d.sig # None => /\ PlanResolved(p, request, s) /\ d.sig = PlanSignature(p, request, s)
                              /\ d.sig \in Signatures /\ d.sig.step = s
           /\ PlanResolved(p, request, s) => d.sig = PlanSignature(p, request, s) /\ d.sig # None
           /\ d.decision # "pending_dependency" =>
                PlanResolved(p, request, s) /\ (d.decision = "reuse" <=> p[s] # None)
  <1>1. CASE PlanResolved(p, request, s)
    <2>1. PlanSignature(p, request, s) \in Signatures /\ PlanSignature(p, request, s).step = s
      BY <1>1, PlanSignatureTyped DEF PlanSignature
    <2>2. PlanOf(p, request).decisions[s] =
            [decision |-> IF p[s] # None THEN "reuse" ELSE "rerun", sig |-> PlanSignature(p, request, s)]
      BY <1>1 DEF PlanOf
    <2>3. PlanSignature(p, request, s) # None
      BY <2>1, PlanAssumption DEF PlanSignature
    <2> HIDE DEF PlanOf, PlanSignature
    <2> QED BY <1>1, <2>1, <2>2, <2>3
  <1>2. CASE ~ PlanResolved(p, request, s)
    <2>1. PlanOf(p, request).decisions[s] = [decision |-> "pending_dependency", sig |-> None]
      BY <1>2 DEF PlanOf
    <2> QED BY <1>2, <2>1
  <1> QED BY <1>1, <1>2

LEMMA AdmittedStays ==
    ASSUME EngineInv, [Next]_vars, NEW r \in Visitors, NEW p \in PlannedOutputs, AdmittedFrom(r, p),
           admitted[r] \in Admission, shown'[r] = shown[r], admitted'[r] = admitted[r]
    PROVE  AdmittedFrom(r, p)'
  <1>1. admitted[r].at <= now'
    BY ClockGrows DEF AdmittedFrom, Admission
  <1> QED BY <1>1 DEF AdmittedFrom, PlanResolved, UsableAt, PlanOf, PlanSignature

\* What a step depends on belongs to what it rests on, with all that that rests on.
LEMMA RestsOnItself == ASSUME NEW s \in Steps PROVE s \in RestsOn(s)
  BY DEF RestsOn

LEMMA RestsOnDependency ==
    ASSUME NEW s \in Steps, NEW d \in Deps[s]
    PROVE  RestsOn(d) \subseteq RestsOn(s)
  BY DEF RestsOn

\* What the run finds otherwise than the route did, it finds otherwise for good.
LEMMA ChangedStays ==
    ASSUME EngineInv, [Next]_vars, NEW r \in Visitors, run[r].pc # "idle",
           shown'[r] = shown[r], admitted'[r] = admitted[r], changed[r] \subseteq changed'[r],
           NEW s, ChangedSince(r, s)
    PROVE  ChangedSince(r, s)'
  <1>1. r \in Runs /\ run'[r].began = run[r].began
    BY NextMoves, VisitorAssumption DEF Moves
  <1>2. \A t \in Steps : GrownStale(r, t)' <=> GrownStale(r, t)
    BY <1>1 DEF GrownStale, Matches, UsableAt
  <1>3. PICK t \in RestsOn(s) : t \in changed[r] \/ GrownStale(r, t)
    BY DEF ChangedSince
  <1>4. t \in Steps /\ RestsOn(s)' = RestsOn(s)
    BY DEF RestsOn
  <1> QED BY <1>2, <1>3, <1>4 DEF ChangedSince

\* The plan does not leave the call's step waiting.
Due(r, p) == PlanResolved(p, shown[r].request, StepOf(r))

AsPlanned(r, p, decision, output) ==
    IF p[StepOf(r)] # None THEN decision = "reuse" /\ output = p[StepOf(r)] ELSE decision # "reuse"

LEMMA KeptSteps ==
    ASSUME EngineInv, [Next]_vars, NEW r \in Visitors, NEW p \in PlannedOutputs, AdmittedFrom(r, p),
           admitted[r] \in Admission, run[r].pc # "idle", KeptBy(r, p),
           shown'[r] = shown[r], admitted'[r] = admitted[r], changed[r] \subseteq changed'[r],
           NEW s, s = StepOf(r),
           run'[r].pc \in Missed /\ Due(r, p) =>
               Stays(r) /\ (run[r].pc \in Missed \/ ChangedSince(r, s)' \/ p[s] = None),
           Advances(r) /\ Due(r, p) =>
               ChangedSince(r, s)' \/ AsPlanned(r, p, run'[r].decision[s], run'[r].outputs[s])
    PROVE  KeptBy(r, p)'
  <1>1. \A t : ChangedSince(r, t) => ChangedSince(r, t)'
    BY ChangedStays
  <1>2. /\ r \in Runs /\ Moves(r) /\ run[r].at \in Nat
        /\ run'[r].began = run[r].began /\ run'[r].request = run[r].request
    BY NextMoves, VisitorAssumption DEF Moves, EngineInv, TypeOK, Run
  <1>3. ASSUME NEW i \in DOMAIN Order, i < run'[r].at PROVE StepKept(r, p, Order[i])'
    <2> SUFFICES ASSUME PlanResolved(p, shown[r].request, Order[i]), ~ ChangedSince(r, Order[i])'
                 PROVE  IF p[Order[i]] # None
                        THEN run'[r].decision[Order[i]] = "reuse" /\ run'[r].outputs[Order[i]] = p[Order[i]]
                        ELSE run'[r].decision[Order[i]] # "reuse"
      BY DEF StepKept, PlanResolved
    <2>1. ~ ChangedSince(r, Order[i])
      BY <1>1
    <2>2. CASE Stays(r)
      BY <1>3, <2>1, <2>2 DEF Stays, KeptBy, StepKept
    <2>3. CASE Advances(r) /\ i = run[r].at
      <3>1. s = Order[i]
        BY <2>3 DEF StepOf
      <3>2. ~ ChangedSince(r, s)'
        BY <3>1
      <3> QED BY <2>3, <3>1, <3>2 DEF StepOf, Due, AsPlanned
    <2>4. CASE Advances(r) /\ i # run[r].at
      <3>1. i < run[r].at /\ Order[i] \in Steps /\ Order[i] # StepOf(r)
        BY <1>2, <1>3, <2>4, EngineAssumption DEF Advances, StepOf
      <3> QED BY <2>1, <2>4, <3>1 DEF Advances, KeptBy, StepKept
    <2> QED BY <1>2, <2>2, <2>3, <2>4 DEF Moves
  <1>4. ASSUME run'[r].pc \in Missed, PlanResolved(p, shown[r].request, StepOf(r))'
        PROVE  ChangedSince(r, StepOf(r))' \/ p[StepOf(r)'] = None
    <2>1. StepOf(r)' = s
      <3>1. Stays(r) \/ Advances(r)
        BY <1>2 DEF Moves
      <3>2. ~ Advances(r)
        BY <1>4 DEF Advances
      <3> QED BY <3>1, <3>2 DEF Stays, StepOf
    <2>2. Due(r, p)
      BY <1>4, <2>1 DEF Due, PlanResolved
    <2>3. ChangedSince(r, s)' \/ p[s] = None
      <3>1. run[r].pc \in Missed => ChangedSince(r, StepOf(r)) \/ p[StepOf(r)] = None
        BY <2>2 DEF KeptBy, Due
      <3>2. ChangedSince(r, StepOf(r)) => ChangedSince(r, s)
        OBVIOUS
      <3> QED BY <1>1, <1>4, <2>2, <3>1, <3>2
    <2>4. ChangedSince(r, s)' => ChangedSince(r, StepOf(r))'
      BY <2>1 DEF ChangedSince, RestsOn
    <2> QED BY <2>1, <2>3, <2>4
  <1> QED BY <1>2, <1>3, <1>4 DEF KeptBy

\* A call whose dependencies are as planned looks up what the route saw.
LEMMA SeenAgain ==
    ASSUME EngineInv, [Next]_vars, NEW r \in Visitors, NEW p \in PlannedOutputs, AdmittedFrom(r, p),
           admitted[r] \in Admission, KeptBy(r, p), run[r].pc = "resolve", Due(r, p),
           shown'[r] = shown[r], admitted'[r] = admitted[r], changed[r] \subseteq changed'[r],
           NEW s, s = StepOf(r), ~ ChangedSince(r, s)',
           s \in changed'[r] \/ RecordsOf(shown[r])[s] = admitted[r].records[s]
    PROVE  LET seen == admitted[r].records[s]
           IN /\ Resolved(r, s) /\ work[SignatureOf(r, s)] = seen
              /\ seen \in WorkResult \cup {None}
              /\ Matches(seen, r) <=> UsableAt(seen, admitted[r].at)
              /\ p[s] = IF UsableAt(seen, admitted[r].at) THEN seen.output ELSE None
  <1> DEFINE seen == admitted[r].records[s]
             request == shown[r].request
  <1>1. /\ r \in Runs /\ run[r] \in Run /\ run[r].at \in DOMAIN Order /\ s \in Steps
        /\ s = Order[run[r].at] /\ run[r].request = request /\ admitted[r].at <= run[r].began
        /\ request \in Requests /\ shown[r] = PlanOf(p, request)
    BY AtStep, VisitorAssumption DEF Begun, Ended, RunSound, KeptBy, AdmittedFrom, StepOf
  <1>2. ASSUME NEW d \in Deps[s] PROVE run[r].outputs[d] = p[d] /\ p[d] # None
    <2>1. d \in Steps /\ p[d] # None
      BY <1>1, EngineAssumption DEF Due, PlanResolved
    <2>2. PICK i \in DOMAIN Order : Order[i] = d
      BY <2>1, EngineAssumption
    <2>3. i < run[r].at
      BY <1>1, <2>2, EngineAssumption
    <2>4. ~ ChangedSince(r, d)
      <3>1. ChangedSince(r, d) => ChangedSince(r, d)'
        BY <1>1, ChangedStays
      <3>2. RestsOn(d) \subseteq RestsOn(s)
        BY <1>1, RestsOnDependency
      <3>3. RestsOn(d)' = RestsOn(d) /\ RestsOn(s)' = RestsOn(s)
        BY DEF RestsOn
      <3>4. ChangedSince(r, d)' => ChangedSince(r, s)'
        BY <3>2, <3>3 DEF ChangedSince
      <3> QED BY <3>1, <3>4
    <2>5. PlanResolved(p, request, d)
      BY <2>1 DEF AdmittedFrom
    <2> QED BY <1>1, <2>1, <2>2, <2>3, <2>4, <2>5 DEF KeptBy, StepKept
  <1>3. Resolved(r, s)
    BY <1>1, <1>2 DEF Resolved, Due, PlanResolved
  <1>4. SignatureOf(r, s) = PlanSignature(p, request, s)
    BY <1>1, <1>2 DEF SignatureOf, PlanSignature
  <1>5. /\ shown[r].decisions[s].sig = PlanSignature(p, request, s)
        /\ shown[r].decisions[s].sig # None
    <2>1. PlanOf(p, request).decisions[s].sig = shown[r].decisions[s].sig
      BY <1>1
    <2> QED BY <1>1, <2>1, PlanSays DEF Due
  <1>6. s \notin changed'[r] /\ ~ GrownStale(r, s)
    <2>1. s \in RestsOn(s) /\ RestsOn(s)' = RestsOn(s)
      BY <1>1, RestsOnItself DEF RestsOn
    <2>2. s \notin changed'[r] /\ ~ GrownStale(r, s)'
      BY <2>1 DEF ChangedSince
    <2>3. run'[r].began = run[r].began
      BY <1>1, NextMoves DEF Moves
    <2> QED BY <2>2, <2>3 DEF GrownStale, Matches, UsableAt
  <1>7. work[PlanSignature(p, request, s)] = seen
    BY <1>1, <1>5, <1>6 DEF RecordsOf
  <1>8. seen \in WorkResult \cup {None}
    BY <1>1 DEF Admission
  <1>9. Matches(seen, r) <=> UsableAt(seen, admitted[r].at)
    <2>1. CASE seen = None
      BY <2>1 DEF Matches, UsableAt
    <2>2. CASE seen # None
      <3>1. seen.until \in Nat \cup {Forever} /\ run[r].began \in Nat /\ admitted[r].at \in Nat
        BY <1>1, <1>8, <2>2 DEF WorkResult, Run, Admission
      <3>2. UsableAt(seen, admitted[r].at) => Matches(seen, r)
        BY <1>6 DEF GrownStale
      <3> HIDE DEF seen
      <3> QED BY <1>1, <2>2, <3>1, <3>2 DEF Matches, UsableAt
    <2> QED BY <2>1, <2>2
  <1>10. p[s] = IF UsableAt(seen, admitted[r].at) THEN seen.output ELSE None
    BY <1>1 DEF AdmittedFrom, Due
  <1> QED BY <1>3, <1>4, <1>7, <1>8, <1>9, <1>10

LEMMA DecidedKept ==
    ASSUME EngineInv, [Next]_vars, NEW r \in Visitors, NEW p \in PlannedOutputs, AdmittedFrom(r, p),
           admitted[r] \in Admission, KeptBy(r, p), Begun(r),
           shown'[r] = shown[r], admitted'[r] = admitted[r], changed[r] \subseteq changed'[r],
           NEW decision, NEW output, Decide(r, decision, output), NEW s, s = StepOf(r),
           Due(r, p) => ChangedSince(r, s)' \/ AsPlanned(r, p, decision, output)
    PROVE  KeptBy(r, p)'
  <1>1. /\ r \in Runs /\ run[r].pc # "idle" /\ Advances(r)
        /\ run'[r].decision[s] = decision /\ run'[r].outputs[s] = output
    BY DecideMoves, VisitorAssumption DEF Begun
  <1>2. run'[r].pc \notin Missed
    BY <1>1 DEF Advances
  <1> QED BY <1>1, <1>2, KeptSteps

\* Every way to take up a step moves the call.
LEMMA MovedOn ==
    ASSUME EngineInv, NEW r \in Runs, Unresolved(r) \/ Reuse(r) \/ LookupMisses(r)
    PROVE  TakesUp(r)
  <1>1. run[r].pc = "resolve" /\ run \in [Runs -> Run] /\ run[r].at \in Nat
    BY DEF Unresolved, Reuse, LookupMisses, EngineInv, TypeOK, Run
  <1>2. run'[r].pc # "resolve" \/ run'[r].at # run[r].at
    <2>1. CASE Unresolved(r) \/ Reuse(r)
      <3>1. Begun(r)
        BY <1>1 DEF Begun, Ended
      <3>2. Advances(r)
        BY <2>1, <3>1, DecideMoves DEF Unresolved, Reuse
      <3> QED BY <1>1, <3>2 DEF Advances
    <2>2. CASE LookupMisses(r)
      BY <1>1, <2>2 DEF LookupMisses, Goto, Run
    <2> QED BY <2>1, <2>2
  <1> QED BY <1>1, <1>2 DEF TakesUp

\* A visitor's call, at whichever step
LEMMA ContinueKept ==
    ASSUME EngineInv, [Next]_vars, NEW r \in Visitors, NEW p \in PlannedOutputs, AdmittedFrom(r, p),
           admitted[r] \in Admission, KeptBy(r, p), Continue(r),
           shown'[r] = shown[r], admitted'[r] = admitted[r], changed[r] \subseteq changed'[r],
           TakesUp(r) => \/ StepOf(r) \in changed'[r]
                         \/ RecordsOf(shown[r])[StepOf(r)] = admitted[r].records[StepOf(r)]
    PROVE  KeptBy(r, p)'
  <1>1. r \in Runs /\ Begun(r) /\ run[r].pc # "idle"
    BY VisitorAssumption DEF Continue, Proceed, Unresolved, Reuse, LookupMisses, Blocked, StartAttempt,
       StartHead, ExecutorReturns, ExecutorRaises, SaveResult, SaveSuccess, ReleaseAfterSuccess,
       SaveFailure, ReleaseAfterFailure, StoreFails, Begun, Ended, Locked
  <1>2. PICK s \in Steps : s = StepOf(r)
    BY <1>1, AtStep
  <1> DEFINE seen == admitted[r].records[s]
  <1>3. ASSUME Unresolved(r) \/ Reuse(r) \/ LookupMisses(r), Due(r, p), ~ ChangedSince(r, s)'
        PROVE  /\ Resolved(r, s) /\ work[SignatureOf(r, s)] = seen
               /\ seen \in WorkResult \cup {None}
               /\ Matches(seen, r) <=> UsableAt(seen, admitted[r].at)
               /\ p[s] = IF UsableAt(seen, admitted[r].at) THEN seen.output ELSE None
    <2>1. run[r].pc = "resolve" /\ TakesUp(r)
      BY <1>1, <1>3, MovedOn DEF Unresolved, Reuse, LookupMisses
    <2>2. s \in changed'[r] \/ RecordsOf(shown[r])[s] = admitted[r].records[s]
      BY <1>2, <2>1
    <2> QED BY <1>2, <1>3, <2>1, <2>2, SeenAgain
  <1>4. CASE Unresolved(r)
    <2>1. PICK decision \in {"blocked", "pending"} : Decide(r, decision, None)
      BY <1>4 DEF Unresolved
    <2>2. Due(r, p) => ChangedSince(r, s)'
      BY <1>2, <1>3, <1>4 DEF Unresolved
    <2> QED BY <1>1, <1>2, <2>1, <2>2, DecidedKept
  <1>5. CASE Reuse(r)
    <2>1. /\ Matches(work[SignatureOf(r, s)], r)
          /\ Decide(r, "reuse", work[SignatureOf(r, s)].output)
      BY <1>2, <1>5 DEF Reuse
    <2>2. ASSUME Due(r, p), ~ ChangedSince(r, s)'
          PROVE  AsPlanned(r, p, "reuse", work[SignatureOf(r, s)].output)
      <3>1. /\ work[SignatureOf(r, s)] = seen /\ UsableAt(seen, admitted[r].at)
            /\ p[s] = seen.output /\ seen \in WorkResult \cup {None}
        BY <1>3, <1>5, <2>1, <2>2
      <3>2. seen.output \in Outputs /\ seen.output # None
        BY <3>1, EngineAssumption DEF UsableAt, WorkResult
      <3> QED BY <1>2, <3>1, <3>2 DEF AsPlanned
    <2> QED BY <1>1, <1>2, <2>1, <2>2, DecidedKept
  <1>6. CASE Blocked(r) \/ ReleaseAfterSuccess(r) \/ ReleaseAfterFailure(r)
    <2>1. PICK decision, output : Decide(r, decision, output) /\ decision # "reuse"
      <3>1. \/ Decide(r, "blocked", None) \/ Decide(r, "executed", run[r].result)
            \/ Decide(r, "failed", None)
        BY <1>6 DEF Blocked, ReleaseAfterSuccess, ReleaseAfterFailure
      <3>2. "blocked" # "reuse" /\ "executed" # "reuse" /\ "failed" # "reuse"
        OBVIOUS
      <3> QED BY <3>1, <3>2
    <2>2. run[r].pc \in Missed
      BY <1>6 DEF Blocked, ReleaseAfterSuccess, ReleaseAfterFailure, Missed
    <2>3. Due(r, p) => ChangedSince(r, s) \/ p[s] = None
      BY <1>1, <1>2, <2>2 DEF KeptBy, Due
    <2>4. ChangedSince(r, s) => ChangedSince(r, s)'
      BY <1>1, ChangedStays
    <2> QED BY <1>1, <1>2, <2>1, <2>3, <2>4, DecidedKept DEF AsPlanned
  <1>7. CASE LookupMisses(r)
    <2>1. /\ ~ Matches(work[SignatureOf(r, s)], r)
          /\ Goto(r, "looked_up")
      BY <1>2, <1>7 DEF LookupMisses
    <2>2. Due(r, p) => ChangedSince(r, s)' \/ p[s] = None
      BY <1>3, <1>7, <2>1
    <2>3. Stays(r)
      BY <1>1, <2>1, GotoMoves DEF PCs
    <2>4. ~ Advances(r)
      BY <1>1, <2>3 DEF Stays, Advances, EngineInv, TypeOK, Run
    <2> QED BY <1>1, <1>2, <2>2, <2>3, <2>4, KeptSteps
  <1>8. CASE \/ StartAttempt(r) \/ StartHead(r) \/ ExecutorReturns(r) \/ ExecutorRaises(r)
             \/ SaveResult(r) \/ SaveSuccess(r) \/ SaveFailure(r) \/ StoreFails(r)
    <2>1. ~ LookupMisses(r)
      <3>1. LookupMisses(r) => run[r].pc = "resolve" /\ run'[r].pc = "looked_up"
        BY <1>1 DEF LookupMisses, Goto, EngineInv, TypeOK, Run
      <3>2. run[r].pc = "resolve" => run'[r].pc = "raised"
        BY <1>1, <1>8 DEF StartAttempt, StartHead, ExecutorReturns, ExecutorRaises, SaveResult,
           SaveSuccess, SaveFailure, StoreFails, Goto, EngineInv, TypeOK, Run
      <3> QED BY <3>1, <3>2
    <2>2. ~ Advances(r)
      <3>1. run'[r].at = run[r].at /\ run[r].at \in Nat
        BY <1>1, <1>8 DEF StartAttempt, StartHead, ExecutorReturns, ExecutorRaises, SaveResult,
           SaveSuccess, SaveFailure, StoreFails, Goto, EngineInv, TypeOK, Run
      <3> QED BY <3>1 DEF Advances
    <2>3. run'[r].pc \in Missed => Stays(r) /\ run[r].pc \in Missed
      BY <1>1, <2>1, ContinueMoves
    <2> QED BY <1>1, <1>2, <2>2, <2>3, KeptSteps
  <1> QED BY <1>4, <1>5, <1>6, <1>7, <1>8 DEF Continue, Proceed

LEMMA ContinueVisitor ==
    ASSUME EngineInv, PlansTyped, [Next]_vars, NEW r \in Visitors, VisitorSound(r), Continue(r),
           UNCHANGED <<shown, admitted>>, changed[r] \subseteq changed'[r],
           TakesUp(r) => \/ StepOf(r) \in changed'[r]
                         \/ RecordsOf(shown[r])[StepOf(r)] = admitted[r].records[StepOf(r)]
    PROVE  VisitorSound(r)'
  <1>1. run[r].pc # "idle"
    BY DEF Continue, Proceed, Unresolved, Reuse, LookupMisses, Blocked, StartAttempt,
       StartHead, ExecutorReturns, ExecutorRaises, SaveResult, SaveSuccess, ReleaseAfterSuccess,
       SaveFailure, ReleaseAfterFailure, StoreFails, Locked
  <1>2. admitted[r] # None /\ admitted[r] \in Admission
    BY <1>1 DEF VisitorSound, PlansTyped
  <1>3. PICK p \in PlannedOutputs : AdmittedFrom(r, p) /\ KeptBy(r, p)
    BY <1>2 DEF VisitorSound
  <1>4. AdmittedFrom(r, p)' /\ KeptBy(r, p)'
    BY <1>2, <1>3, AdmittedStays, ContinueKept
  <1> QED BY <1>2, <1>4 DEF VisitorSound

\* A visitor whose call others leave alone, or which dies
LEMMA VisitorStays ==
    ASSUME EngineInv, PlansTyped, [Next]_vars, NEW r \in Visitors, VisitorSound(r),
           admitted[r] = None \/ shown'[r] = shown[r],
           admitted'[r] = admitted[r] \/ (admitted'[r] = None /\ run[r].pc = "idle"),
           run'[r] = run[r] \/ (run[r].pc # "idle" /\ run'[r].pc = "crashed" /\ Stays(r)),
           changed[r] \subseteq changed'[r]
    PROVE  VisitorSound(r)'
  <1>1. CASE admitted'[r] = None
    BY <1>1 DEF VisitorSound
  <1>2. CASE admitted'[r] # None
    <2>1. /\ admitted'[r] = admitted[r] /\ admitted[r] # None /\ admitted[r] \in Admission
          /\ shown'[r] = shown[r]
      BY <1>2 DEF PlansTyped
    <2>2. PICK p \in PlannedOutputs : AdmittedFrom(r, p) /\ KeptBy(r, p)
      BY <2>1 DEF VisitorSound
    <2>3. AdmittedFrom(r, p)'
      BY <2>1, <2>2, AdmittedStays
    <2>4. KeptBy(r, p)'
      <3>1. CASE run[r].pc = "idle"
        BY <3>1 DEF KeptBy
      <3>2. CASE run[r].pc # "idle"
        <4>1. r \in Runs /\ Stays(r) /\ (run'[r].pc \in Missed => run[r].pc \in Missed)
          BY VisitorAssumption, SameMoves DEF Missed
        <4>2. ~ Advances(r)
          BY <4>1 DEF Stays, Advances, EngineInv, TypeOK, Run
        <4>3. PICK s : s = StepOf(r)
          OBVIOUS
        <4> QED BY <2>1, <2>2, <3>2, <4>1, <4>2, <4>3, KeptSteps
      <3> QED BY <3>1, <3>2
    <2> QED BY <1>2, <2>3, <2>4 DEF VisitorSound
  <1> QED BY <1>1, <1>2

\* What the route lets through is what the store gives at that time.
LEMMA AdmitSound ==
    ASSUME EngineInv, PlansTyped, NEW r \in Visitors, Admit(r)
    PROVE  VisitorSound(r)'
  <1>1. PICK p \in PlannedOutputs : Follows(p, shown[r].request, now) /\ PlanOf(p, shown[r].request) = shown[r]
    BY DEF Admit
  <1> DEFINE request == shown[r].request
             records == RecordsOf(shown[r])
  <1>2. /\ admitted' = [admitted EXCEPT ![r] = [records |-> records, at |-> now]]
        /\ run[r].pc = "idle" /\ shown[r] # None /\ UNCHANGED <<vars, shown>>
    BY DEF Admit
  <1>3. /\ admitted'[r] = [records |-> records, at |-> now] /\ request \in Requests
        /\ now' = now /\ now \in Nat /\ shown' = shown /\ run' = run
    BY <1>2 DEF PlansTyped, PlanId, vars, EngineInv, TypeOK
  <1>4. ASSUME NEW s \in Steps
        PROVE  p[s] = IF PlanResolved(p, request, s) /\ UsableAt(records[s], now)
                      THEN records[s].output ELSE None
    <2>1. CASE PlanResolved(p, request, s)
      <3> DEFINE sig == PlanSignature(p, request, s)
      <3>1. /\ PlanOf(p, request).decisions[s].sig = sig /\ sig # None
            /\ sig \in Signatures /\ sig.step = s
        BY <1>3, <2>1, PlanSays
      <3>2. shown[r].decisions[s].sig = sig
        BY <1>1, <3>1
      <3> HIDE DEF sig
      <3>3. records[s] = work[sig]
        BY <3>1, <3>2 DEF RecordsOf
      <3>4. p[s] = IF PlanResolved(p, request, s) /\ UsableAt(work[sig], now) THEN work[sig].output ELSE None
        BY <1>1 DEF Follows, sig
      <3> HIDE DEF records
      <3> QED BY <3>3, <3>4
    <2>2. CASE ~ PlanResolved(p, request, s)
      BY <1>1, <2>2 DEF Follows
    <2> QED BY <2>1, <2>2
  <1> HIDE DEF records
  <1>5. AdmittedFrom(r, p)'
    <2>1. admitted'[r].records = records /\ admitted'[r].at = now
      BY <1>3
    <2>2. PlanOf(p, request)' = PlanOf(p, request)
      BY <1>3 DEF PlanOf, PlanResolved, PlanSignature
    <2>3. \A s \in Steps : PlanResolved(p, request, s)' <=> PlanResolved(p, request, s)
      BY <1>3 DEF PlanResolved
    <2>4. ASSUME NEW s \in Steps
          PROVE  UsableAt(admitted[r].records[s], admitted[r].at)' <=> UsableAt(records[s], now)
      BY <2>1 DEF UsableAt
    <2> QED BY <1>1, <1>3, <1>4, <2>1, <2>2, <2>3, <2>4 DEF AdmittedFrom
  <1>6. KeptBy(r, p)' /\ run'[r].pc = "idle"
    BY <1>2, <1>3 DEF KeptBy
  <1> QED BY <1>5, <1>6 DEF VisitorSound

\* A call that starts from an admitted plan has decided nothing yet.
LEMMA StartSound ==
    ASSUME EngineInv, PlansTyped, [Next]_vars, NEW r \in Visitors, VisitorSound(r), StartPlanned(r)
    PROVE  VisitorSound(r)'
  <1>1. /\ admitted[r] # None /\ admitted[r] \in Admission /\ UNCHANGED <<shown, admitted>>
        /\ BeginAt(r, shown[r].request, now) /\ r \in Runs
    BY VisitorAssumption DEF StartPlanned, PlansTyped
  <1>2. PICK p \in PlannedOutputs : AdmittedFrom(r, p)
    BY <1>1 DEF VisitorSound
  <1>3. AdmittedFrom(r, p)'
    BY <1>1, <1>2, AdmittedStays
  <1>4. shown[r].request \in Requests /\ now \in Nat /\ admitted[r].at <= now
    BY <1>2 DEF AdmittedFrom, EngineInv, TypeOK
  <1>5. /\ run'[r].at = 1 /\ run'[r].request = shown[r].request /\ run'[r].began = now
        /\ run'[r].pc \in {"done", "resolve"}
    BY <1>1, <1>4, BeginMoves
  <1>6. \A i \in DOMAIN Order : ~ (i < run'[r].at)
    BY <1>5, EngineAssumption
  <1>7. KeptBy(r, p)'
    BY <1>1, <1>4, <1>5, <1>6 DEF KeptBy, Missed
  <1> QED BY <1>1, <1>3, <1>7 DEF VisitorSound

LEMMA KeptNextKeeps == PlanInv /\ KeptInv /\ [PlanNext]_planVars => KeptInv'
  <1> SUFFICES ASSUME PlanInv, KeptInv, [PlanNext]_planVars PROVE KeptInv'
    OBVIOUS
  <1>1. EngineInv /\ PlansTyped /\ [Next]_vars
    BY PlanStepIsEngineStep DEF PlanInv
  <1>2. \A q \in Runs : Undecided(q)'
    BY <1>1, NextMoves, UndecidedKeeps DEF KeptInv
  <1> SUFFICES ASSUME NEW r \in Visitors PROVE VisitorSound(r)'
    BY <1>2 DEF KeptInv
  <1>3. VisitorSound(r) /\ r \in Runs /\ changed[r] \subseteq changed'[r]
    BY <1>1, ChangedNoted, VisitorAssumption DEF KeptInv
  <1>4. ASSUME NEW q \in Visitors, Preview(q) PROVE VisitorSound(r)'
    <2>1. run' = run /\ admitted' = admitted /\ (admitted[r] = None \/ shown'[r] = shown[r])
      BY <1>1, <1>4 DEF Preview, vars, PlansTyped
    <2> QED BY <1>1, <1>3, <2>1, VisitorStays
  <1>5. ASSUME NEW q \in Visitors, Admit(q) PROVE VisitorSound(r)'
    <2>1. CASE q = r
      BY <1>1, <1>5, <2>1, AdmitSound
    <2>2. CASE q # r
      <3>1. run' = run /\ shown' = shown /\ admitted'[r] = admitted[r]
        BY <1>1, <1>5, <2>2 DEF Admit, vars, PlansTyped
      <3> QED BY <1>1, <1>3, <3>1, VisitorStays
    <2> QED BY <2>1, <2>2
  <1>6. ASSUME NEW q \in Visitors, StartPlanned(q) PROVE VisitorSound(r)'
    <2>1. CASE q = r
      BY <1>1, <1>3, <1>6, <2>1, StartSound
    <2>2. CASE q # r
      <3>1. run'[r] = run[r] /\ shown' = shown /\ admitted' = admitted
        BY <1>1, <1>3, <1>6, <2>2 DEF StartPlanned, BeginAt, EngineInv, TypeOK
      <3> QED BY <1>1, <1>3, <3>1, VisitorStays
    <2> QED BY <2>1, <2>2
  <1>7. CASE CrashPlanned
    <2>1. /\ Crash /\ shown' = shown
          /\ admitted'[r] = admitted[r] \/ (admitted'[r] = None /\ run[r].pc = "idle")
      BY <1>7 DEF CrashPlanned
    <2>2. run'[r] = run[r] \/ (run[r].pc # "idle" /\ run'[r].pc = "crashed" /\ Stays(r))
      <3>1. Stays(r) /\ (run'[r] = run[r] \/ run'[r].pc = "crashed")
        BY <1>1, <1>3, <2>1, CrashMoves
      <3>2. run[r].pc = "idle" => run'[r] = run[r]
        BY <1>3, <2>1 DEF Crash, Begun
      <3> QED BY <3>1, <3>2
    <2> QED BY <1>1, <1>3, <2>1, <2>2, VisitorStays
  <1>8. CASE EngineMoves
    <2>1. UNCHANGED <<shown, admitted>>
      BY <1>8 DEF EngineMoves
    <2>2. CASE Continue(r)
      <3>1. TakesUp(r) => \/ StepOf(r) \in changed'[r]
                          \/ RecordsOf(shown[r])[StepOf(r)] = admitted[r].records[StepOf(r)]
        BY <1>1, <1>8, ChangedNoted
      <3> QED BY <1>1, <1>3, <2>1, <2>2, <3>1, ContinueVisitor
    <2>3. CASE ~ Continue(r)
      <3>1. run'[r] = run[r]
        <4>1. ASSUME NEW q \in Runs \ Visitors, Begin(q) PROVE run'[r] = run[r]
          BY <1>1, <1>3, <4>1 DEF Begin, BeginAt, EngineInv, TypeOK
        <4>2. ASSUME NEW q \in Runs, Continue(q) PROVE run'[r] = run[r]
          BY <1>1, <1>3, <2>3, <4>2, ContinueMoves
        <4> QED BY <1>8, <4>1, <4>2 DEF EngineMoves, Tick
      <3> QED BY <1>1, <1>3, <2>1, <3>1, VisitorStays
    <2> QED BY <2>2, <2>3
  <1>9. CASE UNCHANGED planVars
    BY <1>1, <1>3, <1>9, VisitorStays DEF planVars, vars
  <1> QED BY <1>4, <1>5, <1>6, <1>7, <1>8, <1>9 DEF PlanNext

\* A run does what the plan it was started from says, as long as it finds what the route found
\* (_handle_execute, execute).
THEOREM PlanKeptHolds == PlanSpec => []PlanKept
  <1>1. PlanInit => KeptInv
    <2> SUFFICES ASSUME PlanInit PROVE KeptInv
      OBVIOUS
    <2>1. \A q \in Runs : run[q] = NotBegun
      BY DEF PlanInit, Init
    <2>2. ASSUME NEW q \in Runs PROVE Undecided(q)
      BY <2>1, EngineAssumption DEF Undecided, NotBegun
    <2>3. ASSUME NEW r \in Visitors PROVE VisitorSound(r)
      <3>1. run[r].pc = "idle" /\ admitted[r] = None
        BY <2>1, VisitorAssumption DEF NotBegun, PlanInit
      <3> QED BY <3>1 DEF VisitorSound
    <2> QED BY <2>2, <2>3 DEF KeptInv
  <1>2. PlanInv /\ KeptInv => PlanKept
    <2> SUFFICES ASSUME PlanInv, KeptInv, NEW r \in Visitors, NEW s \in Steps,
                        run[r].decision[s] # "none",
                        shown[r].decisions[s].decision # "pending_dependency",
                        ~ ChangedSince(r, s)
                 PROVE  (shown[r].decisions[s].decision = "reuse") <=> (run[r].decision[s] = "reuse")
      BY DEF PlanKept
    <2>1. /\ r \in Runs /\ run[r] \in Run /\ RunSound(r) /\ Undecided(r) /\ VisitorSound(r)
          /\ run[r].at \in Nat
      BY VisitorAssumption DEF PlanInv, KeptInv, EngineInv, TypeOK, Run
    <2>2. PICK i \in DOMAIN Order : Order[i] = s
      BY EngineAssumption
    <2>3. i < run[r].at /\ i \in Nat /\ i >= 1
      BY <2>1, <2>2, EngineAssumption DEF Undecided
    <2>4. run[r].pc # "idle"
      BY <2>1, <2>3 DEF RunSound
    <2>5. PICK p \in PlannedOutputs : AdmittedFrom(r, p) /\ KeptBy(r, p)
      BY <2>1, <2>4 DEF VisitorSound
    <2>6. shown[r] = PlanOf(p, shown[r].request) /\ shown[r].request \in Requests
      BY <2>5 DEF AdmittedFrom
    <2>7. PlanOf(p, shown[r].request).decisions[s].decision = shown[r].decisions[s].decision
      BY <2>6
    <2>8. /\ PlanResolved(p, shown[r].request, s)
          /\ (shown[r].decisions[s].decision = "reuse") <=> (p[s] # None)
      BY <2>6, <2>7, PlanSays
    <2>9. StepKept(r, p, s)
      BY <2>2, <2>3, <2>4, <2>5 DEF KeptBy
    <2> QED BY <2>8, <2>9 DEF StepKept
  <1> QED BY <1>1, <1>2, KeptNextKeeps, PlanInvariantHolds, PTL DEF PlanSpec
=============================================================================
