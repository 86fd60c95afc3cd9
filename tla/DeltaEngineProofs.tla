------------------------- MODULE DeltaEngineProofs --------------------------
(***************************************************************************)
(* Theorems about DeltaEngine for every workflow, set of runs, requests and *)
(* environment: type correctness, and that the engine implements            *)
(* IncrementalEvaluation.  The inductive invariant adds to the types where  *)
(* a run is in its workflow (RunSound) and that every stored result was     *)
(* produced for the signature it is stored under (WorkSound).               *)
(***************************************************************************)
EXTENDS DeltaEngine, TLAPS

\* Between the lookup and the end of the success block a step stays resolved.
Resolving == {"looked_up", "attempt_started", "executing", "produced", "result_saved", "success_saved"}
Produced == {"produced", "result_saved", "success_saved"}

RunSound(r) ==
    /\ run[r].request = None <=> run[r].pc = "idle"
    /\ run[r].pc = "idle" => run[r].at = 1
    /\ Begun(r) => run[r].at \in DOMAIN Order
    /\ \A i \in DOMAIN Order : run[r].at <= i => run[r].outputs[Order[i]] = None
    /\ run[r].pc \in Resolving => Resolved(r, StepOf(r))
    /\ run[r].pc \in Produced => <<SignatureOf(r, StepOf(r)), run[r].result>> \in produced
    /\ run[r].pc \in Produced => run[r].result \in Outputs

WorkSound == \A g \in Signatures : work[g] # None => <<g, work[g].output>> \in produced

EngineInv == TypeOK /\ (\A r \in Runs : RunSound(r)) /\ WorkSound

-----------------------------------------------------------------------------
LEMMA StepInSteps ==
    ASSUME TypeOK, NEW r \in Runs, RunSound(r), Begun(r)
    PROVE  StepOf(r) \in Steps
  BY EngineAssumption DEF RunSound, StepOf

\* The signature of a resolved step is one.
LEMMA SignatureTyped ==
    ASSUME TypeOK, NEW r \in Runs, run[r].request # None, NEW s \in Steps, Resolved(r, s)
    PROVE  SignatureOf(r, s) \in Signatures
  <1>1. run[r] \in Run /\ run[r].request \in Requests
    BY DEF TypeOK, Run
  <1>2. run[r].request[s] \in Inputs
    BY <1>1, EngineAssumption DEF Resolved
  <1>3. Deps[s] \subseteq Steps
    BY EngineAssumption
  <1>4. [d \in Deps[s] |-> run[r].outputs[d]] \in [Deps[s] -> Outputs]
    BY <1>1, <1>3 DEF Resolved, Run
  <1>5. SignatureOf(r, s) \in [step: {s}, input: Inputs, from: [Deps[s] -> Outputs]]
    BY <1>2, <1>4 DEF SignatureOf
  <1> QED BY <1>5 DEF Signatures

\* What an action of another run leaves of a run's soundness.
LEMMA OthersStay ==
    ASSUME NEW q \in Runs, RunSound(q), run'[q] = run[q], produced \subseteq produced'
    PROVE  RunSound(q)'
  BY DEF RunSound, Begun, Resolved, StepOf, SignatureOf

LEMMA OnlyRun ==
    ASSUME EngineInv, NEW r \in Runs, NEW x \in Run, run' = [run EXCEPT ![r] = x],
           produced \subseteq produced', RunSound(r)'
    PROVE  (\A q \in Runs : RunSound(q)') /\ run' \in [Runs -> Run]
  <1>1. ASSUME NEW q \in Runs PROVE RunSound(q)'
    <2>1. CASE q = r BY <2>1
    <2>2. CASE q # r
      <3>1. run'[q] = run[q] BY <2>2 DEF EngineInv, TypeOK
      <3> QED BY <3>1, OthersStay DEF EngineInv
    <2> QED BY <2>1, <2>2
  <1>2. run' \in [Runs -> Run] BY DEF EngineInv, TypeOK
  <1> QED BY <1>1, <1>2

LEMMA InitSound == Init => EngineInv
  <1> SUFFICES ASSUME Init PROVE EngineInv OBVIOUS
  <1>1. NotBegun \in Run
    BY DEF NotBegun, Run, PCs, Decisions
  <1>2. TypeOK
    BY <1>1 DEF Init, TypeOK, Attempt, Statuses
  <1>3. ASSUME NEW r \in Runs PROVE RunSound(r)
    <2>1. /\ run[r] = NotBegun /\ run[r].pc = "idle" /\ run[r].request = None
          /\ run[r].at = 1
      BY DEF Init, NotBegun
    <2>2. \A i \in DOMAIN Order : Order[i] \in Steps
      BY EngineAssumption
    <2>3. \A i \in DOMAIN Order : run[r].outputs[Order[i]] = None
      BY <2>1, <2>2 DEF NotBegun
    <2> QED BY <2>1, <2>3 DEF RunSound, Begun, Resolving, Produced
  <1>4. WorkSound
    BY DEF Init, WorkSound
  <1> QED BY <1>2, <1>3, <1>4 DEF EngineInv

\* Moving a run's place within its step keeps its soundness.
LEMMA GotoSound ==
    ASSUME EngineInv, NEW r \in Runs, NEW place \in PCs, Goto(r, place),
           Begun(r), place # "idle", produced' = produced,
           place \in Resolving => run[r].pc \in Resolving \/ Resolved(r, StepOf(r)),
           place \in Produced => run[r].pc \in Produced
    PROVE  (\A q \in Runs : RunSound(q)') /\ run' \in [Runs -> Run]
  <1>1. run[r] \in Run /\ RunSound(r)
    BY DEF EngineInv, TypeOK
  <1>2. [run[r] EXCEPT !.pc = place] \in Run
    BY <1>1 DEF Run
  <1>3. run' = [run EXCEPT ![r] = [run[r] EXCEPT !.pc = place]]
    BY DEF Goto
  <1>4. run'[r] = [run[r] EXCEPT !.pc = place]
    BY <1>3 DEF EngineInv, TypeOK
  <1>5. /\ run'[r].pc = place /\ run'[r].at = run[r].at /\ run'[r].request = run[r].request
        /\ run'[r].outputs = run[r].outputs /\ run'[r].result = run[r].result
    BY <1>1, <1>4 DEF Run
  <1>6. RunSound(r)'
    BY <1>1, <1>5 DEF RunSound, Begun, Resolved, StepOf, SignatureOf
  <1> QED BY <1>2, <1>3, <1>6, OnlyRun

\* Deciding a step: what the run may go on with.
LEMMA DecideSound ==
    ASSUME EngineInv, NEW r \in Runs, Begun(r), NEW decision \in Decisions,
           NEW output \in Outputs \cup {None}, Decide(r, decision, output), produced' = produced
    PROVE  (\A q \in Runs : RunSound(q)') /\ run' \in [Runs -> Run]
  <1> DEFINE s == StepOf(r)
             x == [run[r] EXCEPT !.decision = [@ EXCEPT ![s] = decision],
                                 !.outputs = [@ EXCEPT ![s] = output],
                                 !.result = None,
                                 !.at = @ + 1,
                                 !.pc = IF run[r].at = Len(Order) THEN "done" ELSE "resolve"]
  <1>1. run[r] \in Run /\ RunSound(r) /\ run[r].at \in DOMAIN Order
    BY DEF EngineInv, TypeOK, RunSound
  <1>2. run' = [run EXCEPT ![r] = x]
    BY <1>1 DEF Decide, EngineInv, TypeOK, Run
  <1>3. x \in Run
    <2>1. [run[r].decision EXCEPT ![s] = decision] \in [Steps -> Decisions]
      BY <1>1 DEF Run
    <2>2. [run[r].outputs EXCEPT ![s] = output] \in [Steps -> Outputs \cup {None}]
      BY <1>1 DEF Run
    <2>3. run[r].at + 1 \in Nat /\ "done" \in PCs /\ "resolve" \in PCs
      BY <1>1 DEF Run, PCs, Ended
    <2> HIDE DEF s
    <2> QED BY <1>1, <2>1, <2>2, <2>3 DEF Run
  <1>4. run'[r] = x
    BY <1>2 DEF EngineInv, TypeOK
  <1>5. /\ run'[r].pc = IF run[r].at = Len(Order) THEN "done" ELSE "resolve"
        /\ run'[r].at = run[r].at + 1 /\ run'[r].request = run[r].request
        /\ run'[r].outputs = [run[r].outputs EXCEPT ![s] = output]
    BY <1>1, <1>4 DEF Run
  <1>6. ASSUME NEW i \in DOMAIN Order, run'[r].at <= i PROVE run'[r].outputs[Order[i]] = None
    <2>1. Order \in Seq(Steps) /\ Order[i] # s
      BY <1>1, <1>5, <1>6, EngineAssumption DEF StepOf
    <2>2. run[r].outputs[Order[i]] = None
      BY <1>1, <1>5, <1>6, EngineAssumption DEF RunSound, Run
    <2> QED BY <2>1, <2>2, <1>1, <1>5, EngineAssumption DEF Run
  <1>7. Begun(r)' => run'[r].at \in DOMAIN Order
    BY <1>1, <1>5, EngineAssumption DEF Begun, Ended, Run
  <1>8. run'[r].request # None /\ run'[r].pc # "idle"
    BY <1>1, <1>5 DEF RunSound, Begun, Ended
  <1>9. RunSound(r)'
    BY <1>5, <1>6, <1>7, <1>8 DEF RunSound, Resolving, Produced
  <1> HIDE DEF x
  <1> QED BY <1>2, <1>3, <1>9, OnlyRun

-----------------------------------------------------------------------------
LEMMA WorkStays ==
    ASSUME WorkSound, work' = work, produced \subseteq produced'
    PROVE  WorkSound'
  BY DEF WorkSound

\* An action that only moves runs, and leaves the store and the clock.
LEMMA OnlyMoves ==
    ASSUME EngineInv, UNCHANGED <<store, now, produced>>,
           (\A q \in Runs : RunSound(q)'), run' \in [Runs -> Run]
    PROVE  EngineInv'
  <1>1. TypeOK' BY DEF EngineInv, TypeOK, store
  <1>2. WorkSound' BY WorkStays DEF EngineInv, store
  <1> QED BY <1>1, <1>2 DEF EngineInv

LEMMA BeginAtKeeps ==
    ASSUME EngineInv, NEW r \in Runs, NEW q \in Requests, NEW time \in Nat, BeginAt(r, q, time)
    PROVE  EngineInv'
  <1> DEFINE x == [run[r] EXCEPT !.request = q, !.began = time,
                                 !.pc = IF Order = <<>> THEN "done" ELSE "resolve"]
  <1>1. run[r] \in Run /\ RunSound(r)
    BY DEF EngineInv, TypeOK
  <1>2. run' = [run EXCEPT ![r] = x]
    BY <1>1 DEF BeginAt, Run, EngineInv, TypeOK
  <1>3. x \in Run
    BY <1>1 DEF Run, PCs, Ended
  <1>4. run'[r] = x
    BY <1>2 DEF EngineInv, TypeOK
  <1>5. /\ run'[r].pc = IF Order = <<>> THEN "done" ELSE "resolve"
        /\ run'[r].at = run[r].at /\ run'[r].request = q /\ run'[r].outputs = run[r].outputs
    BY <1>1, <1>4 DEF Run
  <1>6. run[r].at = 1 /\ q # None
    BY <1>1, EngineAssumption DEF BeginAt, RunSound
  <1>7. RunSound(r)'
    <2>1. Order # <<>> => 1 \in DOMAIN Order
      BY EngineAssumption
    <2> QED BY <2>1, <1>1, <1>5, <1>6 DEF RunSound, Begun, Ended, Resolving, Produced
  <1>8. UNCHANGED <<store, now, produced>>
    BY DEF BeginAt
  <1> HIDE DEF x
  <1> QED BY <1>2, <1>3, <1>7, <1>8, OnlyRun, OnlyMoves

LEMMA BeginKeeps ==
    ASSUME EngineInv, NEW r \in Runs, Begin(r)
    PROVE  EngineInv'
  <1>1. PICK q \in Requests : BeginAt(r, q, now)
    BY DEF Begin
  <1>2. now \in Nat
    BY DEF EngineInv, TypeOK
  <1> QED BY <1>1, <1>2, BeginAtKeeps

LEMMA CrashKeeps ==
    ASSUME EngineInv, Crash
    PROVE  EngineInv'
  <1>1. ASSUME NEW r \in Runs PROVE RunSound(r)' /\ run'[r] \in Run
    <2>1. run[r] \in Run /\ RunSound(r)
      BY DEF EngineInv, TypeOK
    <2>2. CASE Begun(r)
      <3>1. run'[r] = [run[r] EXCEPT !.pc = "crashed"]
        BY <2>2 DEF Crash
      <3>2. run'[r] \in Run /\ run'[r].pc = "crashed" /\ run'[r].at = run[r].at
            /\ run'[r].outputs = run[r].outputs /\ run'[r].request = run[r].request
        BY <2>1, <3>1 DEF Run, PCs, Ended
      <3> QED BY <2>1, <2>2, <3>2 DEF RunSound, Begun, Ended, Resolving, Produced
    <2>3. CASE ~ Begun(r)
      <3>1. run'[r] = run[r] /\ produced' = produced
        BY <2>3 DEF Crash
      <3> QED BY <2>1, <3>1, OthersStay
    <2> QED BY <2>2, <2>3
  <1>2. run' \in [Runs -> Run]
    BY <1>1 DEF Crash
  <1>3. UNCHANGED <<store, now, produced>>
    BY DEF Crash
  <1> QED BY <1>1, <1>2, <1>3, OnlyMoves

LEMMA TickKeeps ==
    ASSUME EngineInv, Tick
    PROVE  EngineInv'
  <1>1. \A r \in Runs : RunSound(r)'
    BY OthersStay DEF Tick, EngineInv
  <1> QED BY <1>1, WorkStays DEF Tick, EngineInv, TypeOK, store

\* The steps before an attempt is started
LEMMA LookupKeeps ==
    ASSUME EngineInv, NEW r \in Runs,
           Unresolved(r) \/ Reuse(r) \/ LookupMisses(r) \/ Blocked(r)
    PROVE  EngineInv'
  <1>1. /\ Begun(r) /\ RunSound(r) /\ run[r] \in Run
        /\ UNCHANGED <<store, now, produced>>
    BY DEF Unresolved, Reuse, LookupMisses, Blocked, Begun, Ended, EngineInv, TypeOK
  <1>2. StepOf(r) \in Steps /\ run[r].request # None
    BY <1>1, StepInSteps DEF EngineInv, RunSound, Begun
  <1>3. CASE Unresolved(r)
    <2>1. Decide(r, "blocked", None) \/ Decide(r, "pending", None)
      BY <1>3 DEF Unresolved
    <2> QED BY <2>1, <1>1, DecideSound, OnlyMoves DEF Decisions
  <1>4. CASE Reuse(r)
    <2> DEFINE result == work[SignatureOf(r, StepOf(r))]
    <2>1. Decide(r, "reuse", result.output) /\ result # None
      BY <1>4 DEF Reuse, Matches
    <2>2. result \in WorkResult
      BY <1>2, <1>4, <2>1, SignatureTyped DEF Reuse, EngineInv, TypeOK
    <2>3. result.output \in Outputs
      BY <2>2 DEF WorkResult
    <2> QED BY <2>1, <2>3, <1>1, DecideSound, OnlyMoves DEF Decisions
  <1>5. CASE LookupMisses(r)
    <2>1. Goto(r, "looked_up") /\ Resolved(r, StepOf(r))
      BY <1>5 DEF LookupMisses
    <2> QED BY <2>1, <1>1, GotoSound, OnlyMoves DEF PCs, Produced
  <1>6. CASE Blocked(r)
    <2>1. Decide(r, "blocked", None)
      BY <1>6 DEF Blocked
    <2> QED BY <2>1, <1>1, DecideSound, OnlyMoves DEF Decisions
  <1> QED BY <1>3, <1>4, <1>5, <1>6

\* A run past its lookup: what holds of its step.
LEMMA AtStep ==
    ASSUME EngineInv, NEW r \in Runs, Begun(r)
    PROVE  /\ run[r] \in Run /\ RunSound(r) /\ run[r].request # None
           /\ StepOf(r) \in Steps
           /\ run[r].pc \in Resolving => SignatureOf(r, StepOf(r)) \in Signatures
  <1>1. run[r] \in Run /\ RunSound(r) /\ run[r].request # None
    BY DEF EngineInv, TypeOK, RunSound, Begun
  <1>2. StepOf(r) \in Steps
    BY <1>1, StepInSteps DEF EngineInv
  <1>3. run[r].pc \in Resolving => SignatureOf(r, StepOf(r)) \in Signatures
    BY <1>1, <1>2, SignatureTyped DEF EngineInv, RunSound
  <1> QED BY <1>1, <1>2, <1>3

\* The write of a head
LEMMA HeadTyped ==
    ASSUME EngineInv, NEW r \in Runs
    PROVE  HeadSet(r) \in [Steps -> Runs \cup {None}]
  <1>1. head \in [Steps -> Runs \cup {None}]
    BY DEF EngineInv, TypeOK
  <1> QED BY <1>1 DEF HeadSet

LEMMA AttemptStatusTyped ==
    ASSUME EngineInv, NEW r \in Runs, NEW s \in Steps, NEW status \in Statuses
    PROVE  [attempts EXCEPT ![<<r, s>>].status = status] \in [Runs \X Steps -> Attempt]
  <1>1. attempts \in [Runs \X Steps -> Attempt] /\ attempts[<<r, s>>] \in Attempt
    BY DEF EngineInv, TypeOK
  <1>2. [attempts[<<r, s>>] EXCEPT !.status = status] \in Attempt
    BY <1>1 DEF Attempt
  <1> QED BY <1>1, <1>2

LEMMA StartKeeps ==
    ASSUME EngineInv, NEW r \in Runs, StartAttempt(r) \/ StartHead(r)
    PROVE  EngineInv'
  <1>1. Begun(r) /\ run[r].pc \in Resolving
    BY DEF StartAttempt, StartHead, Begun, Ended, Resolving
  <1>2. CASE StartAttempt(r)
    <2>1. /\ (\A q \in Runs : RunSound(q)') /\ run' \in [Runs -> Run]
      BY <1>1, <1>2, GotoSound DEF StartAttempt, PCs, Locked, Resolving, Produced
    <2>2. [status |-> "active", sig |-> SignatureOf(r, StepOf(r))] \in Attempt
      BY <1>1, AtStep DEF Attempt, Statuses
    <2>3. attempts' \in [Runs \X Steps -> Attempt]
      BY <1>2, <2>2 DEF StartAttempt, EngineInv, TypeOK
    <2>4. UNCHANGED <<work, head, now, produced>>
      BY <1>2 DEF StartAttempt
    <2> QED BY <2>1, <2>3, <2>4, WorkStays DEF EngineInv, TypeOK
  <1>3. CASE StartHead(r)
    <2>1. /\ (\A q \in Runs : RunSound(q)') /\ run' \in [Runs -> Run]
      BY <1>1, <1>3, GotoSound DEF StartHead, PCs, Resolving, Produced
    <2>2. head' \in [Steps -> Runs \cup {None}] /\ UNCHANGED <<work, attempts, now, produced>>
      BY <1>3, HeadTyped DEF StartHead
    <2> QED BY <2>1, <2>2, WorkStays DEF EngineInv, TypeOK
  <1> QED BY <1>2, <1>3

\* The executor: its output is on record for the step's signature.
LEMMA ExecutorKeeps ==
    ASSUME EngineInv, NEW r \in Runs, ExecutorReturns(r) \/ ExecutorRaises(r)
    PROVE  EngineInv'
  <1>1. Begun(r) /\ run[r].pc = "executing"
    BY DEF ExecutorReturns, ExecutorRaises, Begun, Ended
  <1>2. CASE ExecutorReturns(r)
    <2>1. PICK o \in Outputs :
            /\ run' = [run EXCEPT ![r].pc = "produced", ![r].result = o]
            /\ produced' = produced \cup {<<SignatureOf(r, StepOf(r)), o>>}
      BY <1>2 DEF ExecutorReturns
    <2> DEFINE x == [run[r] EXCEPT !.pc = "produced", !.result = o]
    <2>2. /\ run[r] \in Run /\ RunSound(r) /\ run[r].request # None
          /\ SignatureOf(r, StepOf(r)) \in Signatures
      BY <1>1, AtStep DEF Resolving
    <2>3. run' = [run EXCEPT ![r] = x] /\ run'[r] = x
      BY <2>1 DEF EngineInv, TypeOK
    <2>4. x \in Run
      BY <2>2 DEF Run, PCs
    <2>5. /\ run'[r].pc = "produced" /\ run'[r].result = o /\ run'[r].at = run[r].at
          /\ run'[r].request = run[r].request /\ run'[r].outputs = run[r].outputs
      BY <2>2, <2>3 DEF Run
    <2>6. RunSound(r)'
      <3>1. /\ StepOf(r)' = StepOf(r)
            /\ SignatureOf(r, StepOf(r))' = SignatureOf(r, StepOf(r))
            /\ Resolved(r, StepOf(r))' <=> Resolved(r, StepOf(r))
        BY <2>5 DEF StepOf, SignatureOf, Resolved
      <3>2. run[r].at \in DOMAIN Order /\ Resolved(r, StepOf(r))
        BY <1>1, <2>2 DEF RunSound, Resolving
      <3>3. \A i \in DOMAIN Order : run'[r].at <= i => run'[r].outputs[Order[i]] = None
        BY <2>2, <2>5 DEF RunSound
      <3>4. <<SignatureOf(r, StepOf(r)), o>> \in produced'
        BY <2>1
      <3> QED BY <2>2, <2>5, <3>1, <3>2, <3>3, <3>4 DEF RunSound
    <2>7. UNCHANGED <<work, attempts, head, now>> /\ produced \subseteq produced'
      BY <1>2, <2>1 DEF ExecutorReturns, store
    <2>8. /\ (\A q \in Runs : RunSound(q)') /\ run' \in [Runs -> Run]
      <3> HIDE DEF x
      <3> QED BY <2>3, <2>4, <2>6, <2>7, OnlyRun
    <2>9. produced' \subseteq Signatures \X Outputs
      BY <2>1, <2>2 DEF EngineInv, TypeOK
    <2> QED BY <2>7, <2>8, <2>9, WorkStays DEF EngineInv, TypeOK
  <1>3. CASE ExecutorRaises(r)
    <2>1. Goto(r, "failing") /\ UNCHANGED <<store, now, produced>>
      BY <1>3 DEF ExecutorRaises
    <2> QED BY <2>1, <1>1, GotoSound, OnlyMoves DEF PCs, Resolving, Produced
  <1> QED BY <1>2, <1>3

\* The block that persists a success
LEMMA SuccessKeeps ==
    ASSUME EngineInv, NEW r \in Runs,
           SaveResult(r) \/ SaveSuccess(r) \/ ReleaseAfterSuccess(r)
    PROVE  EngineInv'
  <1>1. Begun(r) /\ run[r].pc \in Produced
    BY DEF SaveResult, SaveSuccess, ReleaseAfterSuccess, Begun, Ended, Produced
  <1>2. /\ run[r] \in Run /\ RunSound(r) /\ StepOf(r) \in Steps
        /\ SignatureOf(r, StepOf(r)) \in Signatures /\ run[r].result \in Outputs
        /\ <<SignatureOf(r, StepOf(r)), run[r].result>> \in produced
    BY <1>1, AtStep DEF Resolving, Produced, RunSound
  <1>3. CASE SaveResult(r)
    <2> DEFINE g == SignatureOf(r, StepOf(r))
               result == [output |-> run[r].result,
                          until |-> IF Lifetime[StepOf(r)] = Forever THEN Forever
                                    ELSE run[r].began + Lifetime[StepOf(r)],
                          by |-> r]
    <2>1. work' = [work EXCEPT ![g] = result] /\ UNCHANGED <<attempts, head, now, produced>>
      BY <1>3 DEF SaveResult
    <2>2. /\ (\A q \in Runs : RunSound(q)') /\ run' \in [Runs -> Run]
      BY <1>1, <1>3, GotoSound DEF SaveResult, PCs, Locked, Resolving, Produced
    <2>3. result \in WorkResult
      <3>1. run[r].began \in Nat /\ Lifetime[StepOf(r)] \in Nat \cup {Forever}
        BY <1>2, EngineAssumption DEF Run
      <3> QED BY <1>2, <3>1 DEF WorkResult
    <2>4. work' \in [Signatures -> WorkResult \cup {None}]
      <3> HIDE DEF result
      <3> QED BY <2>1, <2>3 DEF EngineInv, TypeOK
    <2>5. WorkSound'
      <3> SUFFICES ASSUME NEW h \in Signatures, work'[h] # None
                   PROVE  <<h, work'[h].output>> \in produced
        BY <2>1 DEF WorkSound
      <3>1. CASE h = g
        BY <1>2, <2>1, <3>1 DEF EngineInv, TypeOK
      <3>2. CASE h # g
        BY <2>1, <3>2 DEF EngineInv, TypeOK, WorkSound
      <3> QED BY <3>1, <3>2
    <2> QED BY <2>1, <2>2, <2>4, <2>5 DEF EngineInv, TypeOK
  <1>4. CASE SaveSuccess(r)
    <2>1. /\ (\A q \in Runs : RunSound(q)') /\ run' \in [Runs -> Run]
      BY <1>1, <1>4, GotoSound DEF SaveSuccess, PCs, Locked, Resolving, Produced
    <2>2. attempts' \in [Runs \X Steps -> Attempt] /\ UNCHANGED <<work, head, now, produced>>
      BY <1>2, <1>4, AttemptStatusTyped DEF SaveSuccess, Statuses
    <2> QED BY <2>1, <2>2, WorkStays DEF EngineInv, TypeOK
  <1>5. CASE ReleaseAfterSuccess(r)
    <2>1. /\ (\A q \in Runs : RunSound(q)') /\ run' \in [Runs -> Run]
      BY <1>1, <1>2, <1>5, DecideSound DEF ReleaseAfterSuccess, Decisions
    <2>2. head' \in [Steps -> Runs \cup {None}] /\ UNCHANGED <<work, attempts, now, produced>>
      BY <1>5, HeadTyped DEF ReleaseAfterSuccess
    <2> QED BY <2>1, <2>2, WorkStays DEF EngineInv, TypeOK
  <1> QED BY <1>3, <1>4, <1>5

\* The handler of an exception, and the store's own
LEMMA FailureKeeps ==
    ASSUME EngineInv, NEW r \in Runs,
           SaveFailure(r) \/ ReleaseAfterFailure(r) \/ StoreFails(r)
    PROVE  EngineInv'
  <1>1. Begun(r)
    BY DEF SaveFailure, ReleaseAfterFailure, StoreFails, Begun, Ended, Locked
  <1>2. run[r] \in Run /\ StepOf(r) \in Steps
    BY <1>1, AtStep
  <1>3. CASE SaveFailure(r)
    <2>1. /\ (\A q \in Runs : RunSound(q)') /\ run' \in [Runs -> Run]
      BY <1>1, <1>3, GotoSound DEF SaveFailure, PCs, Locked, Resolving, Produced
    <2>2. attempts' \in [Runs \X Steps -> Attempt] /\ UNCHANGED <<work, head, now, produced>>
      BY <1>2, <1>3, AttemptStatusTyped DEF SaveFailure, Statuses
    <2> QED BY <2>1, <2>2, WorkStays DEF EngineInv, TypeOK
  <1>4. CASE ReleaseAfterFailure(r)
    <2>1. /\ (\A q \in Runs : RunSound(q)') /\ run' \in [Runs -> Run]
      BY <1>1, <1>4, DecideSound DEF ReleaseAfterFailure, Decisions
    <2>2. head' \in [Steps -> Runs \cup {None}] /\ UNCHANGED <<work, attempts, now, produced>>
      BY <1>4, HeadTyped DEF ReleaseAfterFailure
    <2> QED BY <2>1, <2>2, WorkStays DEF EngineInv, TypeOK
  <1>5. CASE StoreFails(r)
    <2>1. PICK place \in {"failing", "raised"} : Goto(r, place)
      BY <1>5 DEF StoreFails
    <2>2. head' \in [Steps -> Runs \cup {None}] /\ UNCHANGED <<work, attempts, now, produced>>
      BY <1>5, HeadTyped DEF StoreFails, EngineInv, TypeOK
    <2>3. /\ (\A q \in Runs : RunSound(q)') /\ run' \in [Runs -> Run]
      BY <1>1, <2>1, <2>2, GotoSound DEF PCs, Ended, Resolving, Produced
    <2> QED BY <2>2, <2>3, WorkStays DEF EngineInv, TypeOK
  <1> QED BY <1>3, <1>4, <1>5

LEMMA NextKeeps == EngineInv /\ [Next]_vars => EngineInv'
  <1> SUFFICES ASSUME EngineInv, [Next]_vars PROVE EngineInv'
    OBVIOUS
  <1>1. CASE \E r \in Runs : Begin(r)
    BY <1>1, BeginKeeps
  <1>2. CASE \E r \in Runs : Continue(r)
    BY <1>2, LookupKeeps, StartKeeps, ExecutorKeeps, SuccessKeeps, FailureKeeps DEF Continue, Proceed
  <1>3. CASE Crash
    BY <1>3, CrashKeeps
  <1>4. CASE Tick
    BY <1>4, TickKeeps
  <1>5. CASE UNCHANGED vars
    <2>1. \A r \in Runs : RunSound(r)'
      BY <1>5, OthersStay DEF EngineInv, vars
    <2> QED BY <1>5, <2>1, OnlyMoves DEF vars, store, EngineInv, TypeOK
  <1> QED BY <1>1, <1>2, <1>3, <1>4, <1>5 DEF Next

THEOREM InvariantHolds == Spec => []EngineInv
  BY InitSound, NextKeeps, PTL DEF Spec

\* Every reachable state of store, runs and clock has the types TypeOK gives,
\* whatever fails between the writes (execute and the records of delta/core.py).
THEOREM TypeCorrect == Spec => []TypeOK
  <1>1. EngineInv => TypeOK BY DEF EngineInv
  <1> QED BY <1>1, InvariantHolds, PTL

-----------------------------------------------------------------------------
(***************************************************************************)
(* The engine implements IncrementalEvaluation.                            *)
(***************************************************************************)
\* The record of a decision is a stutter, or obtains an output on record.
LEMMA DecideObtains ==
    ASSUME EngineInv, NEW r \in Runs, Begun(r), Resolved(r, StepOf(r)),
           NEW decision \in Decisions, NEW o \in Outputs, Decide(r, decision, o),
           <<SignatureOf(r, StepOf(r)), o>> \in produced, produced' = produced
    PROVE  \E s \in Steps : Evaluation!Obtain(r, s)
  <1> DEFINE step == StepOf(r)
  <1>1. /\ run \in [Runs -> Run] /\ run[r] \in Run /\ run[r].request # None /\ step \in Steps
        /\ run[r].outputs[step] = None
    <2>1. /\ run \in [Runs -> Run] /\ run[r] \in Run /\ run[r].request # None /\ step \in Steps
          /\ RunSound(r)
      BY AtStep DEF EngineInv, TypeOK
    <2>2. run[r].at \in DOMAIN Order /\ run[r].at \in Nat
      BY <2>1 DEF RunSound, Run
    <2> QED BY <2>1, <2>2 DEF RunSound, StepOf
  <1>2. Evaluation!Ready(r, step)
    BY <1>1 DEF Evaluation!Ready, Resolved
  <1>3. Evaluation!Effective(r, step) = SignatureOf(r, step)
    BY DEF Evaluation!Effective, SignatureOf
  <1>4. ASSUME NEW q \in Runs
        PROVE  /\ run'[q].request = run[q].request
               /\ run'[q].outputs = IF q = r THEN [run[r].outputs EXCEPT ![step] = o]
                                    ELSE run[q].outputs
    <2>1. run[q] \in Run BY <1>1
    <2> QED BY <1>1, <2>1 DEF Decide, Run
  <1>5. [q \in Runs |-> run'[q].request] = [q \in Runs |-> run[q].request]
    BY <1>4
  <1>6. [q \in Runs |-> run'[q].outputs]
          = [[q \in Runs |-> run[q].outputs] EXCEPT ![r][step] = o]
    BY <1>4
  <1> HIDE DEF step
  <1> QED BY <1>1, <1>2, <1>3, <1>5, <1>6 DEF Evaluation!Obtain, step

\* What leaves the requests, the outputs and the observer alone is a stutter.
LEMMA Stutters ==
    ASSUME \A q \in Runs : /\ run'[q].request = run[q].request
                           /\ run'[q].outputs = run[q].outputs,
           produced' = produced
    PROVE  UNCHANGED Evaluation!vars
  BY DEF Evaluation!vars

LEMMA GotoStutters ==
    ASSUME EngineInv, NEW r \in Runs, NEW place, Goto(r, place), produced' = produced
    PROVE  UNCHANGED Evaluation!vars
  <1>1. ASSUME NEW q \in Runs
        PROVE  run'[q].request = run[q].request /\ run'[q].outputs = run[q].outputs
    <2>1. run \in [Runs -> Run] /\ run[q] \in Run BY DEF EngineInv, TypeOK
    <2> QED BY <2>1 DEF Goto, Run
  <1> QED BY <1>1, Stutters

LEMMA DecideStutters ==
    ASSUME EngineInv, NEW r \in Runs, Begun(r), NEW decision, Decide(r, decision, None),
           produced' = produced
    PROVE  UNCHANGED Evaluation!vars
  <1>1. run[r] \in Run /\ StepOf(r) \in Steps /\ run[r].outputs[StepOf(r)] = None
    <2>1. run[r] \in Run /\ StepOf(r) \in Steps /\ RunSound(r)
      BY AtStep
    <2>2. run[r].at \in DOMAIN Order /\ run[r].at \in Nat
      BY <2>1 DEF RunSound, Run
    <2> QED BY <2>1, <2>2 DEF RunSound, StepOf
  <1>2. ASSUME NEW q \in Runs
        PROVE  run'[q].request = run[q].request /\ run'[q].outputs = run[q].outputs
    <2>1. run \in [Runs -> Run] /\ run[q] \in Run BY DEF EngineInv, TypeOK
    <2>2. [run[r].outputs EXCEPT ![StepOf(r)] = None] = run[r].outputs
      BY <1>1 DEF Run
    <2> QED BY <2>1, <2>2 DEF Decide, Run
  <1> QED BY <1>2, Stutters

LEMMA InitRefines == Init => Evaluation!Init
  BY DEF Init, NotBegun, Evaluation!Init

LEMMA BeginRefines ==
    ASSUME EngineInv, NEW r \in Runs, NEW q \in Requests, NEW time, BeginAt(r, q, time)
    PROVE  Evaluation!Begin(r)
  <1>1. run' = [run EXCEPT ![r].request = q, ![r].began = time,
                           ![r].pc = IF Order = <<>> THEN "done" ELSE "resolve"]
    BY DEF BeginAt
  <1>2. run[r].request = None /\ produced' = produced
    BY DEF BeginAt, EngineInv, RunSound
  <1>3. ASSUME NEW p \in Runs
        PROVE  /\ run'[p].outputs = run[p].outputs
               /\ run'[p].request = IF p = r THEN q ELSE run[p].request
    <2>1. run \in [Runs -> Run] /\ run[p] \in Run BY DEF EngineInv, TypeOK
    <2> QED BY <2>1, <1>1 DEF Run
  <1>4. [p \in Runs |-> run'[p].request] = [[p \in Runs |-> run[p].request] EXCEPT ![r] = q]
    BY <1>3
  <1>5. [p \in Runs |-> run'[p].outputs] = [p \in Runs |-> run[p].outputs]
    BY <1>3
  <1> QED BY <1>2, <1>4, <1>5 DEF Evaluation!Begin

LEMMA ContinueRefines ==
    ASSUME EngineInv, NEW r \in Runs, Continue(r)
    PROVE  UNCHANGED Evaluation!vars \/ \E s \in Steps : Evaluation!Execute(r, s) \/ Evaluation!Obtain(r, s)
  <1>1. Begun(r)
    BY DEF Continue, Proceed, Unresolved, Reuse, LookupMisses, Blocked, StartAttempt, StartHead,
       ExecutorReturns, ExecutorRaises, SaveResult, SaveSuccess, ReleaseAfterSuccess,
       SaveFailure, ReleaseAfterFailure, StoreFails, Begun, Ended, Locked
  <1>2. run[r] \in Run /\ RunSound(r) /\ run[r].request # None /\ StepOf(r) \in Steps
    BY <1>1, AtStep
  <1>3. CASE Reuse(r)
    <2> DEFINE result == work[SignatureOf(r, StepOf(r))]
    <2>1. /\ Decide(r, "reuse", result.output) /\ result # None
          /\ Resolved(r, StepOf(r)) /\ produced' = produced
      BY <1>3 DEF Reuse, Matches
    <2>2. SignatureOf(r, StepOf(r)) \in Signatures
      BY <1>2, <2>1, SignatureTyped DEF EngineInv
    <2>3. result \in WorkResult /\ <<SignatureOf(r, StepOf(r)), result.output>> \in produced
      BY <2>1, <2>2 DEF EngineInv, TypeOK, WorkSound
    <2>4. result.output \in Outputs
      BY <2>3 DEF WorkResult
    <2>5. \E s \in Steps : Evaluation!Obtain(r, s)
      BY <1>1, <2>1, <2>3, <2>4, DecideObtains DEF Decisions
    <2> QED BY <2>5
  <1>4. CASE ReleaseAfterSuccess(r)
    <2>1. /\ Decide(r, "executed", run[r].result) /\ produced' = produced
          /\ Resolved(r, StepOf(r)) /\ run[r].result \in Outputs
          /\ <<SignatureOf(r, StepOf(r)), run[r].result>> \in produced
      BY <1>2, <1>4 DEF ReleaseAfterSuccess, RunSound, Resolving, Produced
    <2>2. \E s \in Steps : Evaluation!Obtain(r, s)
      BY <1>1, <2>1, DecideObtains DEF Decisions
    <2> QED BY <2>2
  <1>5. CASE ExecutorReturns(r)
    <2>1. Resolved(r, StepOf(r))
      BY <1>2, <1>5 DEF ExecutorReturns, RunSound, Resolving
    <2>2. Evaluation!Ready(r, StepOf(r))
      BY <1>2, <2>1 DEF Evaluation!Ready, Resolved
    <2>3. Evaluation!Effective(r, StepOf(r)) = SignatureOf(r, StepOf(r))
      BY DEF Evaluation!Effective, SignatureOf
    <2>4. PICK o \in Outputs :
            /\ run' = [run EXCEPT ![r].pc = "produced", ![r].result = o]
            /\ produced' = produced \cup {<<SignatureOf(r, StepOf(r)), o>>}
      BY <1>5 DEF ExecutorReturns
    <2>5. ASSUME NEW q \in Runs
          PROVE  run'[q].request = run[q].request /\ run'[q].outputs = run[q].outputs
      <3>1. run \in [Runs -> Run] /\ run[q] \in Run BY DEF EngineInv, TypeOK
      <3> QED BY <3>1, <2>4 DEF Run
    <2>6. Evaluation!Execute(r, StepOf(r))
      BY <2>2, <2>3, <2>4, <2>5 DEF Evaluation!Execute
    <2> QED BY <1>2, <2>6
  <1>6. CASE Unresolved(r) \/ Blocked(r) \/ ReleaseAfterFailure(r)
    <2>1. (\E decision \in Decisions : Decide(r, decision, None)) /\ produced' = produced
      BY <1>6 DEF Unresolved, Blocked, ReleaseAfterFailure, Decisions
    <2> QED BY <1>1, <2>1, DecideStutters
  <1>7. CASE \/ LookupMisses(r) \/ StartAttempt(r) \/ StartHead(r) \/ ExecutorRaises(r)
             \/ SaveResult(r) \/ SaveSuccess(r) \/ SaveFailure(r) \/ StoreFails(r)
    <2>1. (\E place \in PCs : Goto(r, place)) /\ produced' = produced
      BY <1>7 DEF LookupMisses, StartAttempt, StartHead, ExecutorRaises, SaveResult,
         SaveSuccess, SaveFailure, StoreFails, PCs, Locked, Ended
    <2> QED BY <2>1, GotoStutters
  <1> QED BY <1>3, <1>4, <1>5, <1>6, <1>7 DEF Continue, Proceed

LEMMA CrashRefines ==
    ASSUME EngineInv, Crash
    PROVE  UNCHANGED Evaluation!vars
  <1>1. ASSUME NEW q \in Runs
        PROVE  run'[q].request = run[q].request /\ run'[q].outputs = run[q].outputs
    <2>1. run \in [Runs -> Run] /\ run[q] \in Run BY DEF EngineInv, TypeOK
    <2>2. run'[q] \in {run[q], [run[q] EXCEPT !.pc = "crashed"]} BY DEF Crash
    <2> QED BY <2>1, <2>2 DEF Run
  <1>2. produced' = produced
    BY DEF Crash
  <1> QED BY <1>1, <1>2, Stutters

LEMMA NextRefines ==
    ASSUME EngineInv, [Next]_vars
    PROVE  [Evaluation!Next]_(Evaluation!vars)
  <1>1. CASE \E r \in Runs : Begin(r)
    BY <1>1, BeginRefines DEF Begin, Evaluation!Next
  <1>2. CASE \E r \in Runs : Continue(r)
    BY <1>2, ContinueRefines DEF Evaluation!Next
  <1>3. CASE Crash
    BY <1>3, CrashRefines
  <1>4. CASE Tick \/ UNCHANGED vars
    <2>1. run' = run /\ produced' = produced
      BY <1>4 DEF Tick, vars
    <2> QED BY <2>1, Stutters
  <1> QED BY <1>1, <1>2, <1>3, <1>4 DEF Next

\* The engine implements IncrementalEvaluation: what a run reports as a step's
\* output was produced for the step's effective input in that run, whatever other
\* runs, crashes and failing writes do (execute).
THEOREM EngineSound == Spec => SoundEvaluation
  <1>1. EngineInv /\ [Next]_vars => [Evaluation!Next]_(Evaluation!vars)
    BY NextRefines
  <1> QED BY <1>1, InitRefines, InvariantHolds, PTL DEF Spec, SoundEvaluation, Evaluation!Spec
=============================================================================
