------------------------ MODULE EngineAttemptProofs -------------------------
(***************************************************************************)
(* Theorems about DeltaEngine for every workflow, set of calls and           *)
(* environment: what the stored results say of the attempts that left them.  *)
(* A call's attempt of a step has one signature for good (AttemptsStay), and *)
(* a saved result has the attempt of the call that saved it (AttemptInv).    *)
(* Of calls whose writes succeed: that results are those of successes, and    *)
(* that the same work is executed in turn (TurnInv).                        *)
(***************************************************************************)
EXTENDS EngineReportProofs

\* A call that has not started the attempt of its step, or has it under way
Early == {"idle", "resolve", "looked_up"}
Attempting == {"attempt_started", "executing", "produced", "result_saved", "success_saved"}

Attempted(r, s, g) == attempts[<<r, s>>].status # "absent" /\ attempts[<<r, s>>].sig = g

AttemptSound(r) ==
    /\ \A i \in DOMAIN Order :
         run[r].at < i \/ (run[r].at = i /\ run[r].pc \in Early) => attempts[<<r, Order[i]>>].status = "absent"
    /\ run[r].pc \in Attempting => Attempted(r, StepOf(r), SignatureOf(r, StepOf(r)))

WorkAttempted == \A g \in Signatures : work[g] # None => Attempted(work[g].by, g.step, g)

AttemptInv == (\A r \in Runs : AttemptSound(r)) /\ WorkAttempted

\* An attempt, once there, keeps its signature: no call starts a step's attempt twice.
AttemptsStay ==
    \A r \in Runs, s \in Steps, g \in Signatures : Attempted(r, s, g) => Attempted(r, s, g)'

-----------------------------------------------------------------------------
LEMMA SignatureStep == ASSUME NEW g \in Signatures PROVE g.step \in Steps
  BY DEF Signatures

LEMMA AttemptOthersStay ==
    ASSUME NEW q \in Runs, AttemptSound(q), run'[q] = run[q],
           \A i \in DOMAIN Order : attempts'[<<q, Order[i]>>] = attempts[<<q, Order[i]>>],
           Begun(q) => run[q].at \in DOMAIN Order
    PROVE  AttemptSound(q)'
  <1>1. /\ StepOf(q)' = StepOf(q) /\ SignatureOf(q, StepOf(q))' = SignatureOf(q, StepOf(q))
    BY DEF StepOf, SignatureOf
  <1>2. run[q].pc \in Attempting => attempts'[<<q, StepOf(q)>>] = attempts[<<q, StepOf(q)>>]
    BY DEF StepOf, Attempting, Begun, Ended
  <1> QED BY <1>1, <1>2 DEF AttemptSound, Attempted

\* A call moves within its step, and no attempt changes.
LEMMA GotoAttempts ==
    ASSUME EngineInv, \A q \in Runs : AttemptSound(q),
           NEW r \in Runs, NEW place \in PCs, Goto(r, place), attempts' = attempts,
           place \in Early => run[r].pc \in Early,
           place \in Attempting => run[r].pc \in Attempting
    PROVE  \A q \in Runs : AttemptSound(q)'
  <1> SUFFICES ASSUME NEW q \in Runs PROVE AttemptSound(q)'
    OBVIOUS
  <1>1. run[q] \in Run /\ run \in [Runs -> Run] /\ RunSound(q)
    BY DEF EngineInv, TypeOK
  <1>2. CASE q = r
    <2>1. /\ run'[r].pc = place /\ run'[r].at = run[r].at /\ run'[r].request = run[r].request
          /\ run'[r].outputs = run[r].outputs
      BY <1>1, <1>2 DEF Goto, Run
    <2> QED BY <1>2, <2>1 DEF AttemptSound, Attempted, StepOf, SignatureOf
  <1>3. CASE q # r
    <2>1. run'[q] = run[q]
      BY <1>1, <1>3 DEF Goto
    <2> QED BY <1>1, <2>1, AttemptOthersStay DEF RunSound
  <1> QED BY <1>2, <1>3

\* A call decides its step, and no attempt changes.
LEMMA DecideAttempts ==
    ASSUME EngineInv, \A q \in Runs : AttemptSound(q),
           NEW r \in Runs, NEW decision, NEW output, Decide(r, decision, output), attempts' = attempts
    PROVE  \A q \in Runs : AttemptSound(q)'
  <1> SUFFICES ASSUME NEW q \in Runs PROVE AttemptSound(q)'
    OBVIOUS
  <1>1. run[q] \in Run /\ run \in [Runs -> Run] /\ RunSound(q)
    BY DEF EngineInv, TypeOK
  <1>2. CASE q = r
    <2>1. run'[r].pc \in {"done", "resolve"} /\ run'[r].at = run[r].at + 1 /\ run[r].at \in Nat
      BY <1>1, <1>2 DEF Decide, Run
    <2>2. ASSUME NEW i \in DOMAIN Order, run'[r].at <= i PROVE attempts'[<<r, Order[i]>>].status = "absent"
      BY <1>2, <2>1, <2>2, EngineAssumption DEF AttemptSound
    <2>3. ASSUME NEW i \in DOMAIN Order, run'[r].at < i \/ run'[r].at = i
          PROVE attempts'[<<r, Order[i]>>].status = "absent"
      BY <2>1, <2>2, <2>3, EngineAssumption
    <2> QED BY <1>2, <2>1, <2>3 DEF AttemptSound, Attempting
  <1>3. CASE q # r
    <2>1. run'[q] = run[q]
      BY <1>1, <1>3 DEF Decide
    <2> QED BY <1>1, <2>1, AttemptOthersStay DEF RunSound
  <1> QED BY <1>2, <1>3

\* A call writes the attempt of its step.
LEMMA WriteAttempts ==
    ASSUME EngineInv, \A q \in Runs : AttemptSound(q),
           NEW r \in Runs, Begun(r), NEW place \in PCs \ Early, Goto(r, place),
           NEW x \in Attempt, x.status # "absent", attempts' = [attempts EXCEPT ![<<r, StepOf(r)>>] = x],
           place \in Attempting => x.sig = SignatureOf(r, StepOf(r))
    PROVE  \A q \in Runs : AttemptSound(q)'
  <1> SUFFICES ASSUME NEW q \in Runs PROVE AttemptSound(q)'
    OBVIOUS
  <1>1. /\ run[q] \in Run /\ run[r] \in Run /\ run \in [Runs -> Run] /\ RunSound(q)
        /\ StepOf(r) \in Steps /\ run[r].at \in DOMAIN Order
        /\ attempts \in [Runs \X Steps -> Attempt]
    BY AtStep DEF EngineInv, TypeOK, RunSound
  <1>2. CASE q = r
    <2>1. /\ run'[r].pc = place /\ run'[r].at = run[r].at /\ run'[r].request = run[r].request
          /\ run'[r].outputs = run[r].outputs
      BY <1>1 DEF Goto, Run
    <2>2. StepOf(r)' = StepOf(r) /\ SignatureOf(r, StepOf(r))' = SignatureOf(r, StepOf(r))
      BY <2>1 DEF StepOf, SignatureOf
    <2>3. attempts'[<<r, StepOf(r)>>] = x
      BY <1>1
    <2>4. ASSUME NEW i \in DOMAIN Order, run[r].at < i PROVE attempts'[<<r, Order[i]>>].status = "absent"
      <3>1. run[r].at # i
        BY <1>1, <2>4, EngineAssumption
      <3>2. Order[i] # StepOf(r) /\ Order[i] \in Steps
        BY <1>1, <3>1, EngineAssumption DEF StepOf
      <3>3. attempts'[<<r, Order[i]>>] = attempts[<<r, Order[i]>>]
        BY <1>1, <3>2
      <3> QED BY <2>4, <3>3 DEF AttemptSound
    <2> QED BY <1>2, <2>1, <2>2, <2>3, <2>4 DEF AttemptSound, Attempted
  <1>3. CASE q # r
    <2>1. run'[q] = run[q]
      BY <1>1, <1>3 DEF Goto
    <2>2. ASSUME NEW i \in DOMAIN Order PROVE attempts'[<<q, Order[i]>>] = attempts[<<q, Order[i]>>]
      <3>1. Order[i] \in Steps
        BY EngineAssumption
      <3>2. <<q, Order[i]>> # <<r, StepOf(r)>> /\ <<q, Order[i]>> \in Runs \X Steps
        BY <1>3, <3>1
      <3> QED BY <1>1, <3>2
    <2> QED BY <1>1, <2>1, <2>2, AttemptOthersStay DEF RunSound
  <1> QED BY <1>2, <1>3

\* What the writes to the attempts leave of the results they stand for
LEMMA WorkAttemptedStays ==
    ASSUME EngineInv, WorkAttempted, AttemptsStay, work' = work
    PROVE  WorkAttempted'
  <1> SUFFICES ASSUME NEW g \in Signatures, work[g] # None
               PROVE  Attempted(work[g].by, g.step, g)'
    BY DEF WorkAttempted
  <1>1. work[g].by \in Runs /\ g.step \in Steps
    BY SignatureStep DEF EngineInv, TypeOK, WorkResult
  <1> QED BY <1>1 DEF WorkAttempted, AttemptsStay

LEMMA SameAttemptsStay ==
    ASSUME attempts' = attempts
    PROVE  AttemptsStay
  BY DEF AttemptsStay, Attempted

\* The status of an attempt changes, not its signature.
LEMMA StatusStays ==
    ASSUME EngineInv, NEW r \in Runs, NEW s \in Steps, NEW status \in Statuses \ {"absent"},
           attempts' = [attempts EXCEPT ![<<r, s>>].status = status]
    PROVE  AttemptsStay
  <1> SUFFICES ASSUME NEW q \in Runs, NEW t \in Steps, NEW g \in Signatures, Attempted(q, t, g)
               PROVE  Attempted(q, t, g)'
    BY DEF AttemptsStay
  <1>1. attempts \in [Runs \X Steps -> Attempt] /\ <<q, t>> \in Runs \X Steps
    BY DEF EngineInv, TypeOK
  <1>2. CASE <<q, t>> = <<r, s>>
    BY <1>1, <1>2 DEF Attempted, Attempt
  <1>3. CASE <<q, t>> # <<r, s>>
    <2>1. attempts'[<<q, t>>] = attempts[<<q, t>>]
      BY <1>1, <1>3
    <2> QED BY <2>1 DEF Attempted
  <1> QED BY <1>2, <1>3

LEMMA LookupAttempts ==
    ASSUME EngineInv, AttemptInv, NEW r \in Runs,
           \/ Unresolved(r) \/ Reuse(r) \/ LookupMisses(r) \/ Blocked(r) \/ StartHead(r)
           \/ ExecutorReturns(r) \/ ExecutorRaises(r) \/ ReleaseAfterSuccess(r)
           \/ ReleaseAfterFailure(r) \/ StoreFails(r)
    PROVE  AttemptInv' /\ AttemptsStay
  <1>1. work' = work /\ attempts' = attempts
    BY DEF Unresolved, Reuse, LookupMisses, Blocked, StartHead, ExecutorReturns, ExecutorRaises,
       ReleaseAfterSuccess, ReleaseAfterFailure, StoreFails, store
  <1>2. CASE Unresolved(r) \/ Reuse(r) \/ Blocked(r) \/ ReleaseAfterSuccess(r) \/ ReleaseAfterFailure(r)
    <2>1. \E decision, output : Decide(r, decision, output)
      BY <1>2 DEF Unresolved, Reuse, Blocked, ReleaseAfterSuccess, ReleaseAfterFailure
    <2>2. \A q \in Runs : AttemptSound(q)'
      BY <1>1, <2>1, DecideAttempts DEF AttemptInv
    <2> QED BY <1>1, <2>2, WorkAttemptedStays, SameAttemptsStay DEF AttemptInv
  <1>3. CASE ExecutorReturns(r)
    <2>1. PICK o \in Outputs : run' = [run EXCEPT ![r].pc = "produced", ![r].result = o]
      BY <1>3 DEF ExecutorReturns
    <2>2. ASSUME NEW q \in Runs PROVE AttemptSound(q)'
      <3>1. run[q] \in Run /\ run \in [Runs -> Run] /\ RunSound(q)
        BY DEF EngineInv, TypeOK
      <3>2. CASE q = r
        <4>1. /\ run'[r].pc = "produced" /\ run[r].pc = "executing" /\ run'[r].at = run[r].at
              /\ run'[r].request = run[r].request /\ run'[r].outputs = run[r].outputs
          BY <1>3, <2>1, <3>1, <3>2 DEF Run, ExecutorReturns
        <4> QED BY <1>1, <3>2, <4>1
                DEF AttemptInv, AttemptSound, Attempted, StepOf, SignatureOf, Attempting, Early
      <3>3. CASE q # r
        <4>1. run'[q] = run[q]
          BY <2>1, <3>1, <3>3
        <4> QED BY <1>1, <3>1, <4>1, AttemptOthersStay DEF AttemptInv, RunSound
      <3> QED BY <3>2, <3>3
    <2> QED BY <1>1, <2>2, WorkAttemptedStays, SameAttemptsStay DEF AttemptInv
  <1>4. CASE LookupMisses(r) \/ StartHead(r) \/ ExecutorRaises(r) \/ StoreFails(r)
    <2>1. \E place \in PCs : /\ Goto(r, place)
                             /\ place \in Early => run[r].pc \in Early
                             /\ place \in Attempting => run[r].pc \in Attempting
      BY <1>4 DEF LookupMisses, StartHead, ExecutorRaises, StoreFails, PCs, Ended, Early, Attempting
    <2>2. \A q \in Runs : AttemptSound(q)'
      BY <1>1, <2>1, GotoAttempts DEF AttemptInv
    <2> QED BY <1>1, <2>2, WorkAttemptedStays, SameAttemptsStay DEF AttemptInv
  <1> QED BY <1>2, <1>3, <1>4

\* No call has an attempt for a step it has not started, so a start overwrites none.
LEMMA StartAttempts ==
    ASSUME EngineInv, AttemptInv, NEW r \in Runs, StartAttempt(r)
    PROVE  AttemptInv' /\ AttemptsStay
  <1> DEFINE s == StepOf(r)
             x == [status |-> "active", sig |-> SignatureOf(r, s)]
  <1>1. run[r].pc = "looked_up" /\ Begun(r)
    BY DEF StartAttempt, Begun, Ended
  <1>2. s \in Steps /\ SignatureOf(r, s) \in Signatures /\ run[r].at \in DOMAIN Order
    BY <1>1, AtStep DEF Resolving, RunSound
  <1>3. x \in Attempt /\ x.status # "absent" /\ x.sig = SignatureOf(r, s)
    BY <1>2 DEF Attempt, Statuses
  <1>4. /\ Goto(r, "attempt_started") /\ work' = work
        /\ attempts' = [attempts EXCEPT ![<<r, s>>] = x]
    BY DEF StartAttempt
  <1>5. attempts[<<r, s>>].status = "absent"
    BY <1>1, <1>2 DEF AttemptInv, AttemptSound, Early, StepOf
  <1> HIDE DEF x
  <1>6. AttemptsStay
    <2> SUFFICES ASSUME NEW q \in Runs, NEW t \in Steps, NEW g \in Signatures, Attempted(q, t, g)
                 PROVE  Attempted(q, t, g)'
      BY DEF AttemptsStay
    <2>1. <<q, t>> # <<r, s>>
      BY <1>5 DEF Attempted
    <2>2. attempts'[<<q, t>>] = attempts[<<q, t>>]
      BY <1>4, <2>1 DEF EngineInv, TypeOK
    <2> QED BY <2>2 DEF Attempted
  <1>7. "attempt_started" \in PCs \ Early
    BY DEF PCs, Locked, Early
  <1>8. \A q \in Runs : AttemptSound(q)'
    BY <1>1, <1>3, <1>4, <1>7, WriteAttempts DEF AttemptInv
  <1> QED BY <1>4, <1>6, <1>8, WorkAttemptedStays DEF AttemptInv

\* A success or a failure is written to the attempt.
LEMMA StatusAttempts ==
    ASSUME EngineInv, AttemptInv, NEW r \in Runs, SaveSuccess(r) \/ SaveFailure(r)
    PROVE  AttemptInv' /\ AttemptsStay
  <1> DEFINE s == StepOf(r)
  <1>1. Begun(r) /\ run[r].pc \in {"result_saved", "failing"}
    BY DEF SaveSuccess, SaveFailure, Begun, Ended
  <1>2. s \in Steps
    BY <1>1, AtStep
  <1>3. PICK status \in {"succeeded", "failed"}, place \in {"success_saved", "failure_saved"} :
          /\ attempts' = [attempts EXCEPT ![<<r, s>>].status = status]
          /\ Goto(r, place) /\ work' = work
          /\ place = "success_saved" => run[r].pc = "result_saved"
    BY DEF SaveSuccess, SaveFailure
  <1> DEFINE x == [attempts[<<r, s>>] EXCEPT !.status = status]
  <1>4. /\ attempts[<<r, s>>] \in Attempt /\ status \in Statuses \ {"absent"}
    BY <1>2 DEF EngineInv, TypeOK, Statuses
  <1>5. x \in Attempt /\ x.status # "absent" /\ x.sig = attempts[<<r, s>>].sig
    BY <1>4 DEF Attempt
  <1>6. place \in Attempting => x.sig = SignatureOf(r, s)
    BY <1>3, <1>5 DEF Attempting, AttemptInv, AttemptSound, Attempted
  <1>7. attempts' = [attempts EXCEPT ![<<r, s>>] = x] /\ place \in PCs \ Early
    BY <1>3 DEF PCs, Locked, Early
  <1>8. AttemptsStay
    BY <1>2, <1>3, <1>4, StatusStays
  <1> HIDE DEF x
  <1>9. \A q \in Runs : AttemptSound(q)'
    BY <1>1, <1>3, <1>5, <1>6, <1>7, WriteAttempts DEF AttemptInv
  <1> QED BY <1>3, <1>8, <1>9, WorkAttemptedStays DEF AttemptInv

\* A saved result has the attempt of the call that saves it.
LEMMA ResultAttempts ==
    ASSUME EngineInv, AttemptInv, NEW r \in Runs, SaveResult(r)
    PROVE  AttemptInv' /\ AttemptsStay
  <1> DEFINE k == SignatureOf(r, StepOf(r))
  <1>1. run[r].pc = "produced" /\ attempts' = attempts /\ Goto(r, "result_saved")
    BY DEF SaveResult
  <1>2. AttemptsStay
    BY <1>1, SameAttemptsStay
  <1>3. \A q \in Runs : AttemptSound(q)'
    BY <1>1, GotoAttempts DEF AttemptInv, PCs, Locked, Early, Attempting
  <1>4. ASSUME NEW g \in Signatures, work'[g] # None
        PROVE  /\ attempts'[<<work'[g].by, g.step>>].status # "absent"
               /\ attempts'[<<work'[g].by, g.step>>].sig = g
    <2>1. CASE g = k
      <3>1. work'[g].by = r /\ g.step = StepOf(r)
        BY <2>1 DEF SaveResult, EngineInv, TypeOK, SignatureOf
      <3>2. Attempted(r, StepOf(r), k)
        BY <1>1 DEF AttemptInv, AttemptSound, Attempting
      <3> HIDE DEF k
      <3> QED BY <1>1, <2>1, <3>1, <3>2 DEF Attempted
    <2>2. CASE g # k
      <3>1. work'[g] = work[g]
        BY <2>2 DEF SaveResult, EngineInv, TypeOK
      <3>2. Attempted(work[g].by, g.step, g)
        BY <1>4, <3>1 DEF AttemptInv, WorkAttempted
      <3> QED BY <1>1, <3>1, <3>2 DEF Attempted
    <2> QED BY <2>1, <2>2
  <1>5. WorkAttempted'
    BY <1>4 DEF WorkAttempted, Attempted
  <1> QED BY <1>2, <1>3, <1>5 DEF AttemptInv

LEMMA ContinueAttempts ==
    ASSUME EngineInv, AttemptInv, NEW r \in Runs, Continue(r)
    PROVE  AttemptInv' /\ AttemptsStay
  BY LookupAttempts, StartAttempts, StatusAttempts, ResultAttempts DEF Continue, Proceed

LEMMA ContinueKeeps ==
    ASSUME EngineInv, NEW r \in Runs, Continue(r)
    PROVE  EngineInv'
  BY NextKeeps DEF Next

LEMMA ProducedGrows ==
    ASSUME NEW r \in Runs, Continue(r)
    PROVE  produced \subseteq produced'
  BY DEF Continue, Proceed, Unresolved, Reuse, LookupMisses, Blocked, StartAttempt, StartHead,
     ExecutorReturns, ExecutorRaises, SaveResult, SaveSuccess, ReleaseAfterSuccess,
     SaveFailure, ReleaseAfterFailure, StoreFails

\* A step that leaves the engine alone
LEMMA EngineStays ==
    ASSUME EngineInv, AttemptInv, UNCHANGED vars
    PROVE  EngineInv' /\ AttemptInv' /\ AttemptsStay /\ produced' = produced
  <1>1. EngineInv' /\ produced' = produced
    BY NextKeeps DEF vars
  <1>2. work' = work /\ attempts' = attempts /\ run' = run
    BY DEF vars, store
  <1>3. AttemptsStay
    BY <1>2, SameAttemptsStay
  <1>4. \A q \in Runs : AttemptSound(q)'
    BY <1>2, AttemptOthersStay DEF AttemptInv, EngineInv, RunSound
  <1> QED BY <1>1, <1>2, <1>3, <1>4, WorkAttemptedStays DEF AttemptInv

\* A call of the engine begins with no attempt.
LEMMA BeginAttempts ==
    ASSUME EngineInv, AttemptInv, NEW r \in Runs, NEW q \in Requests, NEW time \in Nat, BeginAt(r, q, time)
    PROVE  EngineInv' /\ AttemptInv' /\ AttemptsStay /\ produced' = produced
  <1>1. EngineInv' /\ produced' = produced /\ work' = work /\ attempts' = attempts
    BY BeginAtKeeps DEF BeginAt, store
  <1>2. ASSUME NEW p \in Runs PROVE AttemptSound(p)'
    <2>1. run[p] \in Run /\ run \in [Runs -> Run] /\ RunSound(p)
      BY DEF EngineInv, TypeOK
    <2>2. CASE p = r
      <3>1. run'[r].pc \in {"done", "resolve"} /\ run'[r].at = run[r].at /\ run[r].pc = "idle"
        BY <2>1, <2>2 DEF BeginAt, Run
      <3> QED BY <1>1, <2>2, <3>1 DEF AttemptInv, AttemptSound, Attempting, Early
    <2>3. CASE p # r
      <3>1. run'[p] = run[p]
        BY <2>1, <2>3 DEF BeginAt
      <3> QED BY <1>1, <2>1, <3>1, AttemptOthersStay DEF AttemptInv, RunSound
    <2> QED BY <2>2, <2>3
  <1>3. AttemptsStay
    BY <1>1, SameAttemptsStay
  <1> QED BY <1>1, <1>2, <1>3, WorkAttemptedStays DEF AttemptInv

\* A crash, or a step of the clock, leaves the attempts as they are.
LEMMA CrashAttempts ==
    ASSUME EngineInv, AttemptInv, Crash
    PROVE  EngineInv' /\ AttemptInv' /\ AttemptsStay /\ produced' = produced
  <1>1. EngineInv' /\ work' = work /\ attempts' = attempts /\ produced' = produced
    BY CrashKeeps DEF Crash, store
  <1>2. ASSUME NEW q \in Runs PROVE AttemptSound(q)'
    <2>1. run[q] \in Run /\ RunSound(q) /\ AttemptSound(q)
      BY DEF AttemptInv, EngineInv, TypeOK
    <2>2. CASE Begun(q)
      <3>1. run'[q].pc = "crashed" /\ run'[q].at = run[q].at
        BY <2>1, <2>2 DEF Crash, Run
      <3> QED BY <1>1, <2>1, <3>1 DEF AttemptSound, Attempting, Early
    <2>3. CASE ~ Begun(q)
      <3>1. run'[q] = run[q]
        BY <2>3 DEF Crash
      <3> QED BY <1>1, <2>1, <3>1, AttemptOthersStay DEF RunSound
    <2> QED BY <2>2, <2>3
  <1>3. AttemptsStay
    BY <1>1, SameAttemptsStay
  <1> QED BY <1>1, <1>2, <1>3, WorkAttemptedStays DEF AttemptInv

LEMMA TickAttempts ==
    ASSUME EngineInv, AttemptInv, Tick
    PROVE  EngineInv' /\ AttemptInv' /\ AttemptsStay /\ produced' = produced
  <1>1. work' = work /\ attempts' = attempts /\ run' = run /\ produced' = produced
    BY DEF Tick, store
  <1>2. \A q \in Runs : AttemptSound(q)'
    BY <1>1, AttemptOthersStay DEF AttemptInv, EngineInv, RunSound
  <1>3. EngineInv' /\ AttemptsStay
    BY <1>1, TickKeeps, SameAttemptsStay
  <1> QED BY <1>1, <1>2, <1>3, WorkAttemptedStays DEF AttemptInv

LEMMA AttemptNextKeeps == EngineInv /\ AttemptInv /\ [Next]_vars => AttemptInv'
  <1> SUFFICES ASSUME EngineInv, AttemptInv, [Next]_vars PROVE AttemptInv'
    OBVIOUS
  <1>1. CASE \E r \in Runs : Begin(r)
    BY <1>1, BeginAttempts DEF Begin, EngineInv, TypeOK
  <1>2. CASE \E r \in Runs : Continue(r)
    BY <1>2, ContinueAttempts
  <1>3. CASE Crash
    BY <1>3, CrashAttempts
  <1>4. CASE Tick
    BY <1>4, TickAttempts
  <1>5. CASE UNCHANGED vars
    BY <1>5, EngineStays
  <1> QED BY <1>1, <1>2, <1>3, <1>4, <1>5 DEF Next

LEMMA InitAttempts == Init => AttemptInv
  BY EngineAssumption DEF Init, AttemptInv, AttemptSound, WorkAttempted, NotBegun, Attempting

-----------------------------------------------------------------------------
(***************************************************************************)
(* Results behind successes.                                               *)
(***************************************************************************)
\* A success that is recorded, or about to be, has its result.
SuccessSaved ==
    /\ \A a \in Runs \X Steps : attempts[a].status = "succeeded" =>
         attempts[a].sig \in Signatures /\ work[attempts[a].sig] # None
    /\ \A r \in Runs : run[r].pc = "result_saved" => work[SignatureOf(r, StepOf(r))] # None

\* Saved work is replaced, never removed.
WorkKept == \A g \in Signatures : work[g] # None => work'[g] # None

LEMMA SavedWork ==
    ASSUME EngineInv, NEW r \in Runs, SaveResult(r)
    PROVE  /\ \A g \in Signatures : work[g] # None => work'[g] # None
           /\ work'[SignatureOf(r, StepOf(r))] # None
  <1> DEFINE k == SignatureOf(r, StepOf(r))
             result == [output |-> run[r].result,
                        until |-> IF Lifetime[StepOf(r)] = Forever THEN Forever
                                  ELSE run[r].began + Lifetime[StepOf(r)],
                        by |-> r]
  <1>1. work' = [work EXCEPT ![k] = result] /\ run[r].pc = "produced"
    BY DEF SaveResult
  <1>2. /\ run[r] \in Run /\ StepOf(r) \in Steps /\ k \in Signatures /\ run[r].result \in Outputs
    BY <1>1, AtStep DEF Begun, Ended, Resolving, RunSound, Produced
  <1>3. result \in WorkResult
    <2>1. run[r].began \in Nat /\ Lifetime[StepOf(r)] \in Nat \cup {Forever}
      BY <1>2, EngineAssumption DEF Run
    <2> QED BY <1>2, <2>1 DEF WorkResult
  <1>4. result # None
    BY <1>3, RecordAssumption
  <1>5. work \in [Signatures -> WorkResult \cup {None}]
    BY DEF EngineInv, TypeOK
  <1> HIDE DEF result, k
  <1>6. (\A g \in Signatures : work[g] # None => work'[g] # None) /\ work'[k] # None
    BY <1>1, <1>2, <1>4, <1>5
  <1> QED BY <1>6 DEF k

LEMMA WorkIsKept ==
    ASSUME EngineInv, work' = work \/ \E r \in Runs : SaveResult(r)
    PROVE  WorkKept
  <1>1. CASE work' = work
    BY <1>1 DEF WorkKept
  <1>2. CASE \E r \in Runs : SaveResult(r)
    <2>1. PICK r \in Runs : SaveResult(r)
      BY <1>2
    <2> QED BY <2>1, SavedWork DEF WorkKept
  <1> QED BY <1>1, <1>2

\* The attempts and calls that are new to the two parts of SuccessSaved are all that
\* has to be looked at.
LEMMA SuccessStays ==
    ASSUME EngineInv, SuccessSaved, WorkKept,
           \A a \in Runs \X Steps : attempts'[a].status = "succeeded" =>
               \/ attempts'[a] = attempts[a]
               \/ attempts'[a].sig \in Signatures /\ work'[attempts'[a].sig] # None,
           \A r \in Runs : run'[r].pc = "result_saved" =>
               run'[r] = run[r] \/ work'[SignatureOf(r, StepOf(r))'] # None
    PROVE  SuccessSaved'
  <1>1. ASSUME NEW a \in Runs \X Steps, attempts'[a].status = "succeeded"
        PROVE  attempts'[a].sig \in Signatures /\ work'[attempts'[a].sig] # None
    BY <1>1 DEF SuccessSaved, WorkKept
  <1>2. ASSUME NEW r \in Runs, run'[r].pc = "result_saved"
        PROVE  work'[SignatureOf(r, StepOf(r))'] # None
    <2>1. CASE run'[r] = run[r]
      <3>1. SignatureOf(r, StepOf(r))' = SignatureOf(r, StepOf(r))
        BY <2>1 DEF SignatureOf, StepOf
      <3>2. SignatureOf(r, StepOf(r)) \in Signatures
        BY <1>2, <2>1, AtStep DEF Begun, Ended, Resolving
      <3> QED BY <1>2, <2>1, <3>1, <3>2 DEF SuccessSaved, WorkKept
    <2> QED BY <1>2, <2>1
  <1> QED BY <1>1, <1>2 DEF SuccessSaved

\* A call that Goto moves elsewhere than to result_saved is not one to be looked at.
LEMMA OthersNotSaving ==
    ASSUME EngineInv, NEW r \in Runs,
           \A q \in Runs \ {r} : run'[q] = run[q], run'[r].pc # "result_saved"
    PROVE  \A q \in Runs : run'[q].pc = "result_saved" => run'[q] = run[q]
  OBVIOUS

\* The actions that neither save a result nor write that an attempt succeeded
LEMMA QuietSuccess ==
    ASSUME EngineInv, SuccessSaved, NEW r \in Runs, work' = work, attempts' = attempts,
           \/ \E q, time : BeginAt(r, q, time)
           \/ Unresolved(r) \/ Reuse(r) \/ LookupMisses(r) \/ Blocked(r) \/ StartHead(r)
           \/ ExecutorReturns(r) \/ ExecutorRaises(r)
           \/ ReleaseAfterSuccess(r) \/ ReleaseAfterFailure(r) \/ StoreFails(r)
    PROVE  SuccessSaved'
  <1>1. run \in [Runs -> Run]
    BY DEF EngineInv, TypeOK
  <1>2. \A q \in Runs \ {r} : run'[q] = run[q]
    BY <1>1 DEF BeginAt, Unresolved, Reuse, LookupMisses, Blocked, StartHead, ExecutorReturns,
       ExecutorRaises, ReleaseAfterSuccess, ReleaseAfterFailure, StoreFails, Decide, Goto
  <1>3. run'[r].pc # "result_saved"
    <2>1. CASE \E q, time : BeginAt(r, q, time)
      BY <1>1, <2>1 DEF BeginAt, Run
    <2>2. CASE Unresolved(r) \/ Reuse(r) \/ Blocked(r) \/ ReleaseAfterSuccess(r) \/ ReleaseAfterFailure(r)
      <3>1. PICK decision, output : Decide(r, decision, output)
        BY <2>2 DEF Unresolved, Reuse, Blocked, ReleaseAfterSuccess, ReleaseAfterFailure
      <3>2. run'[r].pc \in {"done", "resolve"}
        BY <1>1, <3>1 DEF Decide, Run
      <3> QED BY <3>2
    <2>3. CASE LookupMisses(r) \/ StartHead(r) \/ ExecutorRaises(r) \/ StoreFails(r)
      BY <1>1, <2>3 DEF LookupMisses, StartHead, ExecutorRaises, StoreFails, Goto, Run
    <2>4. CASE ExecutorReturns(r)
      BY <1>1, <2>4 DEF ExecutorReturns, Run
    <2> QED BY <2>1, <2>2, <2>3, <2>4
  <1> QED BY <1>2, <1>3, WorkIsKept, OthersNotSaving, SuccessStays

LEMMA SaveResultSuccess ==
    ASSUME EngineInv, SuccessSaved, NEW r \in Runs, SaveResult(r)
    PROVE  SuccessSaved'
  <1>1. run \in [Runs -> Run] /\ run[r] \in Run /\ attempts' = attempts /\ Goto(r, "result_saved")
    BY DEF EngineInv, TypeOK, SaveResult
  <1>2. SignatureOf(r, StepOf(r))' = SignatureOf(r, StepOf(r))
    BY <1>1 DEF Goto, SignatureOf, StepOf, Run
  <1>3. work'[SignatureOf(r, StepOf(r))'] # None
    BY <1>2, SavedWork
  <1>4. \A q \in Runs : run'[q] = run[q] \/ work'[SignatureOf(q, StepOf(q))'] # None
    BY <1>1, <1>3 DEF Goto
  <1> QED BY <1>1, <1>4, WorkIsKept, SuccessStays

LEMMA WriteSuccess ==
    ASSUME EngineInv, AttemptInv, SuccessSaved, NEW r \in Runs,
           StartAttempt(r) \/ SaveSuccess(r) \/ SaveFailure(r)
    PROVE  SuccessSaved'
  <1> DEFINE s == StepOf(r)
  <1>1. Begun(r) /\ run \in [Runs -> Run] /\ run[r] \in Run /\ work' = work
    BY DEF StartAttempt, SaveSuccess, SaveFailure, Begun, Ended, EngineInv, TypeOK
  <1>2. s \in Steps /\ attempts \in [Runs \X Steps -> Attempt] /\ <<r, s>> \in Runs \X Steps
    BY <1>1, AtStep DEF EngineInv, TypeOK
  <1>3. \A q \in Runs : run'[q].pc = "result_saved" => run'[q] = run[q]
    <2>1. PICK place \in {"attempt_started", "success_saved", "failure_saved"} : Goto(r, place)
      BY DEF StartAttempt, SaveSuccess, SaveFailure
    <2> QED BY <1>1, <2>1 DEF Goto, Run
  <1>4. \A a \in Runs \X Steps : a # <<r, s>> => attempts'[a] = attempts[a]
    BY <1>2 DEF StartAttempt, SaveSuccess, SaveFailure
  <1>5. CASE StartAttempt(r) \/ SaveFailure(r)
    <2>1. attempts'[<<r, s>>].status \in {"active", "failed"}
      BY <1>2, <1>5 DEF StartAttempt, SaveFailure, Attempt
    <2> QED BY <1>1, <1>3, <1>4, <2>1, WorkIsKept, SuccessStays
  <1>6. CASE SaveSuccess(r)
    <2>1. attempts'[<<r, s>>].sig = attempts[<<r, s>>].sig /\ run[r].pc = "result_saved"
      BY <1>2, <1>6 DEF SaveSuccess, Attempt
    <2>2. attempts[<<r, s>>].sig = SignatureOf(r, s)
      BY <2>1 DEF AttemptInv, AttemptSound, Attempted, Attempting
    <2>3. SignatureOf(r, s) \in Signatures /\ work[SignatureOf(r, s)] # None
      BY <1>1, <2>1, AtStep DEF Resolving, SuccessSaved
    <2> QED BY <1>1, <1>3, <1>4, <2>1, <2>2, <2>3, WorkIsKept, SuccessStays
  <1> QED BY <1>5, <1>6

LEMMA ContinueSuccess ==
    ASSUME EngineInv, AttemptInv, SuccessSaved, NEW r \in Runs, Continue(r)
    PROVE  SuccessSaved'
  <1>1. CASE StartAttempt(r) \/ SaveSuccess(r) \/ SaveFailure(r)
    BY <1>1, WriteSuccess
  <1>2. CASE SaveResult(r)
    BY <1>2, SaveResultSuccess
  <1>3. CASE \/ Unresolved(r) \/ Reuse(r) \/ LookupMisses(r) \/ Blocked(r) \/ StartHead(r)
             \/ ExecutorReturns(r) \/ ExecutorRaises(r)
             \/ ReleaseAfterSuccess(r) \/ ReleaseAfterFailure(r) \/ StoreFails(r)
    <2>1. work' = work /\ attempts' = attempts
      BY <1>3 DEF Unresolved, Reuse, LookupMisses, Blocked, StartHead, ExecutorReturns,
         ExecutorRaises, ReleaseAfterSuccess, ReleaseAfterFailure, StoreFails, store
    <2> QED BY <1>3, <2>1, QuietSuccess
  <1> QED BY <1>1, <1>2, <1>3 DEF Continue, Proceed

LEMMA BeginSuccess ==
    ASSUME EngineInv, SuccessSaved, NEW r \in Runs, NEW q, NEW time, BeginAt(r, q, time)
    PROVE  SuccessSaved'
  <1>1. work' = work /\ attempts' = attempts
    BY DEF BeginAt, store
  <1> QED BY <1>1, QuietSuccess

LEMMA CrashSuccess ==
    ASSUME EngineInv, SuccessSaved, Crash
    PROVE  SuccessSaved'
  <1>1. work' = work /\ attempts' = attempts /\ run \in [Runs -> Run]
    BY DEF Crash, store, EngineInv, TypeOK
  <1>2. \A q \in Runs : run'[q].pc = "result_saved" => run'[q] = run[q]
    BY <1>1 DEF Crash, Run
  <1> QED BY <1>1, <1>2, WorkIsKept, SuccessStays

LEMMA SameSuccess ==
    ASSUME EngineInv, SuccessSaved, UNCHANGED <<work, attempts, run>>
    PROVE  SuccessSaved'
  BY WorkIsKept, SuccessStays

LEMMA SuccessNextKeeps == EngineInv /\ AttemptInv /\ SuccessSaved /\ [Next]_vars => SuccessSaved'
  <1> SUFFICES ASSUME EngineInv, AttemptInv, SuccessSaved, [Next]_vars PROVE SuccessSaved'
    OBVIOUS
  <1>1. CASE \E r \in Runs : Begin(r)
    BY <1>1, BeginSuccess DEF Begin
  <1>2. CASE \E r \in Runs : Continue(r)
    BY <1>2, ContinueSuccess
  <1>3. CASE Crash
    BY <1>3, CrashSuccess
  <1>4. CASE Tick \/ UNCHANGED vars
    BY <1>4, SameSuccess DEF Tick, vars, store
  <1> QED BY <1>1, <1>2, <1>3, <1>4 DEF Next

\* Every reachable state has the two invariants.
THEOREM AttemptInvariantHolds == Spec => [](AttemptInv /\ SuccessSaved)
  <1>1. Init => AttemptInv /\ SuccessSaved
    <2>1. Init => SuccessSaved
      BY DEF Init, SuccessSaved, NotBegun
    <2> QED BY <2>1, InitAttempts
  <1>2. EngineInv /\ AttemptInv /\ SuccessSaved /\ [Next]_vars => AttemptInv' /\ SuccessSaved'
    BY AttemptNextKeeps, SuccessNextKeeps
  <1> QED BY <1>1, <1>2, InvariantHolds, PTL DEF Spec

\* Results and attempts agree, whatever failed, crashed or overlapped: each result was left
\* by an attempt for its very signature, each recorded success has its result (the success
\* block, the exception handler).
THEOREM ResultsAgree == Spec => []ResultsMatchAttempts
  <1>1. AttemptInv /\ SuccessSaved => ResultsMatchAttempts
    BY DEF AttemptInv, WorkAttempted, Attempted, SuccessSaved, ResultsMatchAttempts
  <1> QED BY <1>1, AttemptInvariantHolds, PTL

-----------------------------------------------------------------------------
(***************************************************************************)
(* Calls whose writes succeed.                                             *)
(***************************************************************************)
Recorded(g) ==
    LET r == work[g].by IN
    \/ attempts[<<r, g.step>>].status = "succeeded"
    \/ run[r].pc = "result_saved" /\ StepOf(r) = g.step

\* Only an executor's error leads to the handler, which finds its attempt active.
CallsInv ==
    /\ \A g \in Signatures : work[g] # None => Recorded(g)
    /\ \A r \in Runs : run[r].pc = "failing" => attempts[<<r, StepOf(r)>>].status = "active"

LEMMA ResultOwner ==
    ASSUME EngineInv, NEW g \in Signatures, work[g] # None
    PROVE  work[g].by \in Runs /\ <<work[g].by, g.step>> \in Runs \X Steps
  BY SignatureStep DEF EngineInv, TypeOK, WorkResult

\* A result keeps its record if no attempt that succeeded is written again and its call
\* is still where it saved it.
LEMMA RecordedStays ==
    ASSUME EngineInv, NEW g \in Signatures, work[g] # None, Recorded(g), work'[g] = work[g],
           LET a == <<work[g].by, g.step>> IN attempts[a].status = "succeeded" => attempts'[a] = attempts[a],
           LET r == work[g].by IN run[r].pc = "result_saved" => run'[r] = run[r]
    PROVE  Recorded(g)'
  BY DEF Recorded, StepOf

LEMMA QuietCalls ==
    ASSUME EngineInv, CallsInv, NEW r \in Runs, work' = work, attempts' = attempts,
           run[r].pc # "result_saved", \A q \in Runs \ {r} : run'[q] = run[q],
           run'[r].pc # "failing" \/ attempts'[<<r, StepOf(r)'>>].status = "active"
    PROVE  CallsInv'
  <1>1. ASSUME NEW g \in Signatures, work'[g] # None PROVE Recorded(g)'
    BY <1>1, ResultOwner, RecordedStays DEF CallsInv
  <1>2. ASSUME NEW q \in Runs, run'[q].pc = "failing"
        PROVE  attempts'[<<q, StepOf(q)'>>].status = "active"
    <2>1. CASE q = r
      BY <1>2, <2>1
    <2>2. CASE q # r
      BY <1>2, <2>2 DEF CallsInv, StepOf
    <2> QED BY <2>1, <2>2
  <1> QED BY <1>1, <1>2 DEF CallsInv

LEMMA LookupCalls ==
    ASSUME EngineInv, ReportInv, CallsInv, NEW r \in Runs,
           \/ Begin(r)
           \/ Unresolved(r) \/ Reuse(r) \/ LookupMisses(r) \/ Blocked(r) \/ StartHead(r)
           \/ ExecutorReturns(r) \/ ReleaseAfterSuccess(r) \/ ReleaseAfterFailure(r)
    PROVE  CallsInv'
  <1>1. run \in [Runs -> Run] /\ run[r] \in Run
    BY DEF EngineInv, TypeOK
  <1>2. work' = work /\ attempts' = attempts /\ run[r].pc # "result_saved"
    BY DEF Begin, BeginAt, Unresolved, Reuse, LookupMisses, Blocked, StartHead, ExecutorReturns,
       ReleaseAfterSuccess, ReleaseAfterFailure, store
  <1>3. \A q \in Runs \ {r} : run'[q] = run[q]
    BY <1>1 DEF Begin, BeginAt, Unresolved, Reuse, LookupMisses, Blocked, StartHead,
       ExecutorReturns, ReleaseAfterSuccess, ReleaseAfterFailure, Decide, Goto
  <1>4. run'[r].pc # "failing"
    <2>1. CASE Begin(r)
      <3>1. PICK q \in Requests : BeginAt(r, q, now)
        BY <2>1 DEF Begin
      <3>2. run'[r].pc \in {"done", "resolve"}
        BY <1>1, <3>1 DEF BeginAt, Run
      <3> QED BY <3>2
    <2>2. CASE Unresolved(r) \/ Reuse(r) \/ Blocked(r) \/ ReleaseAfterSuccess(r) \/ ReleaseAfterFailure(r)
      <3>1. PICK decision, output : Decide(r, decision, output)
        BY <2>2 DEF Unresolved, Reuse, Blocked, ReleaseAfterSuccess, ReleaseAfterFailure
      <3>2. run'[r].pc \in {"done", "resolve"}
        BY <1>1, <3>1 DEF Decide, Run
      <3> QED BY <3>2
    <2>3. CASE LookupMisses(r) \/ StartHead(r)
      BY <1>1, <2>3 DEF LookupMisses, StartHead, Goto, Run
    <2>4. CASE ExecutorReturns(r)
      BY <1>1, <2>4 DEF ExecutorReturns, Run
    <2> QED BY <2>1, <2>2, <2>3, <2>4
  <1> QED BY <1>2, <1>3, <1>4, QuietCalls

LEMMA RaiseCalls ==
    ASSUME EngineInv, ReportInv, CallsInv, NEW r \in Runs, ExecutorRaises(r)
    PROVE  CallsInv'
  <1>1. /\ run \in [Runs -> Run] /\ run[r] \in Run /\ run[r].pc = "executing"
        /\ work' = work /\ attempts' = attempts /\ Goto(r, "failing")
    BY DEF EngineInv, TypeOK, ExecutorRaises, store
  <1>2. (\A q \in Runs \ {r} : run'[q] = run[q]) /\ StepOf(r)' = StepOf(r)
    BY <1>1 DEF Goto, StepOf, Run
  <1>3. attempts[<<r, StepOf(r)>>].status = "active"
    BY <1>1, AtStep DEF Begun, Ended, RunSound, ReportInv, Story, StatusesAt, StepOf
  <1> QED BY <1>1, <1>2, <1>3, QuietCalls

LEMMA SaveCalls ==
    ASSUME EngineInv, ReportInv, CallsInv, NEW r \in Runs, SaveResult(r)
    PROVE  CallsInv'
  <1> DEFINE k == SignatureOf(r, StepOf(r))
  <1>1. /\ run \in [Runs -> Run] /\ run[r] \in Run /\ run[r].pc = "produced"
        /\ attempts' = attempts /\ Goto(r, "result_saved") /\ k.step = StepOf(r)
        /\ work \in [Signatures -> WorkResult \cup {None}]
    BY DEF EngineInv, TypeOK, SaveResult, SignatureOf
  <1>2. /\ \A q \in Runs \ {r} : run'[q] = run[q]
        /\ run'[r].pc = "result_saved" /\ StepOf(r)' = StepOf(r)
    BY <1>1 DEF Goto, StepOf, Run
  <1>3. ASSUME NEW g \in Signatures, work'[g] # None PROVE Recorded(g)'
    <2>1. CASE g = k
      <3>1. work'[g].by = r
        BY <1>1, <2>1 DEF SaveResult
      <3> HIDE DEF k
      <3> QED BY <1>1, <1>2, <2>1, <3>1 DEF Recorded
    <2>2. CASE g # k
      <3>1. work'[g] = work[g]
        BY <1>1, <2>2 DEF SaveResult
      <3> QED BY <1>1, <1>2, <1>3, <3>1, ResultOwner, RecordedStays DEF CallsInv
    <2> QED BY <2>1, <2>2
  <1>4. ASSUME NEW q \in Runs, run'[q].pc = "failing"
        PROVE  attempts'[<<q, StepOf(q)'>>].status = "active"
    BY <1>1, <1>2, <1>4 DEF CallsInv, StepOf
  <1> QED BY <1>3, <1>4 DEF CallsInv

LEMMA WriteCalls ==
    ASSUME EngineInv, ReportInv, CallsInv, NEW r \in Runs,
           StartAttempt(r) \/ SaveSuccess(r) \/ SaveFailure(r)
    PROVE  CallsInv'
  <1> DEFINE s == StepOf(r)
  <1>1. Begun(r) /\ run \in [Runs -> Run] /\ run[r] \in Run /\ work' = work
    BY DEF StartAttempt, SaveSuccess, SaveFailure, Begun, Ended, EngineInv, TypeOK
  <1>2. s \in Steps /\ attempts \in [Runs \X Steps -> Attempt] /\ <<r, s>> \in Runs \X Steps
    BY <1>1, AtStep DEF EngineInv, TypeOK
  <1>3. \A a \in Runs \X Steps : a # <<r, s>> => attempts'[a] = attempts[a]
    BY <1>2 DEF StartAttempt, SaveSuccess, SaveFailure
  <1>4. (\A q \in Runs \ {r} : run'[q] = run[q]) /\ run'[r].pc # "failing"
    <2>1. PICK place \in {"attempt_started", "success_saved", "failure_saved"} : Goto(r, place)
      BY DEF StartAttempt, SaveSuccess, SaveFailure
    <2> QED BY <1>1, <2>1 DEF Goto, Run
  <1>5. CASE SaveSuccess(r)
    <2>1. attempts'[<<r, s>>].status = "succeeded"
      BY <1>2, <1>5 DEF SaveSuccess, Attempt
    <2>2. ASSUME NEW g \in Signatures, work[g] # None PROVE Recorded(g)'
      <3>1. CASE <<work[g].by, g.step>> = <<r, s>>
        BY <1>1, <2>1, <3>1 DEF Recorded
      <3>2. CASE <<work[g].by, g.step>> # <<r, s>>
        <4>1. Recorded(g) /\ attempts'[<<work[g].by, g.step>>] = attempts[<<work[g].by, g.step>>]
          BY <1>3, <2>2, <3>2, ResultOwner DEF CallsInv
        <4>2. CASE work[g].by = r
          BY <1>1, <3>2, <4>1, <4>2 DEF Recorded
        <4>3. CASE work[g].by # r
          BY <1>1, <1>4, <2>2, <4>1, <4>3, ResultOwner, RecordedStays
        <4> QED BY <4>2, <4>3
      <3> QED BY <3>1, <3>2
    <2>3. ASSUME NEW q \in Runs, run'[q].pc = "failing"
          PROVE  attempts'[<<q, StepOf(q)'>>].status = "active"
      <3>1. q # r /\ StepOf(q)' = StepOf(q) /\ run[q].pc = "failing"
        BY <1>4, <2>3 DEF StepOf
      <3>2. <<q, StepOf(q)>> \in Runs \X Steps /\ <<q, StepOf(q)>> # <<r, s>>
        BY <3>1, AtStep DEF Begun, Ended
      <3> QED BY <1>3, <3>1, <3>2 DEF CallsInv
    <2> QED BY <1>1, <2>2, <2>3 DEF CallsInv
  <1>6. CASE StartAttempt(r) \/ SaveFailure(r)
    <2>1. run[r].pc # "result_saved" /\ attempts[<<r, s>>].status # "succeeded"
      BY <1>1, <1>6, AtStep
         DEF StartAttempt, SaveFailure, CallsInv, RunSound, ReportInv, Story, StatusesAt, StepOf
    <2>2. ASSUME NEW g \in Signatures, work[g] # None PROVE Recorded(g)'
      <3>1. Recorded(g) /\ work'[g] = work[g]
        BY <1>1, <2>2 DEF CallsInv
      <3>2. <<work[g].by, g.step>> # <<r, s>>
        BY <2>1, <3>1 DEF Recorded
      <3>3. attempts'[<<work[g].by, g.step>>] = attempts[<<work[g].by, g.step>>]
        BY <1>3, <2>2, <3>2, ResultOwner
      <3> QED BY <1>4, <2>1, <2>2, <3>1, <3>3, ResultOwner, RecordedStays
    <2>3. ASSUME NEW q \in Runs, run'[q].pc = "failing"
          PROVE  attempts'[<<q, StepOf(q)'>>].status = "active"
      <3>1. q # r /\ StepOf(q)' = StepOf(q) /\ run[q].pc = "failing"
        BY <1>4, <2>3 DEF StepOf
      <3>2. <<q, StepOf(q)>> \in Runs \X Steps /\ <<q, StepOf(q)>> # <<r, s>>
        BY <3>1, AtStep DEF Begun, Ended
      <3> QED BY <1>3, <3>1, <3>2 DEF CallsInv
    <2> QED BY <1>1, <2>2, <2>3 DEF CallsInv
  <1> QED BY <1>5, <1>6

LEMMA CallsNextKeeps ==
    ASSUME EngineInv, ReportInv, CallsInv, [CallsNext]_vars
    PROVE  CallsInv'
  <1>1. CASE \E r \in Runs : Begin(r) \/ Proceed(r)
    BY <1>1, LookupCalls, RaiseCalls, SaveCalls, WriteCalls DEF Proceed
  <1>2. CASE UNCHANGED vars
    BY <1>2 DEF vars, store, CallsInv, Recorded, StepOf
  <1> QED BY <1>1, <1>2 DEF CallsNext

\* Among calls whose writes succeed, each reusable result is that of an attempt recorded as
\* succeeded, but for the moment between the two writes (the success block, the exception
\* handler).
THEOREM SucceededHolds == CallsSpec => []ResultsSucceeded
  <1>1. CallsSpec => Spec
    <2>1. [CallsNext]_vars => [Next]_vars
      BY DEF CallsNext, Next, Continue
    <2> QED BY <2>1, PTL DEF CallsSpec, Spec
  <1>2. Init => CallsInv
    BY DEF Init, CallsInv, NotBegun
  <1>3. EngineInv /\ ReportInv /\ CallsInv /\ [CallsNext]_vars => CallsInv'
    BY CallsNextKeeps
  <1>4. EngineInv /\ AttemptInv /\ CallsInv => ResultsSucceeded
    <2> SUFFICES ASSUME EngineInv, AttemptInv, CallsInv, NEW g \in Signatures, work[g] # None
                 PROVE  \/ attempts[<<work[g].by, g.step>>] = [status |-> "succeeded", sig |-> g]
                        \/ run[work[g].by].pc = "result_saved"
      BY DEF ResultsSucceeded
    <2>1. attempts[<<work[g].by, g.step>>] \in Attempt
      BY ResultOwner DEF EngineInv, TypeOK
    <2>2. attempts[<<work[g].by, g.step>>].sig = g /\ Recorded(g)
      BY DEF AttemptInv, WorkAttempted, Attempted, CallsInv
    <2> QED BY <2>1, <2>2 DEF Recorded, Attempt
  <1> QED BY <1>1, <1>2, <1>3, <1>4, InvariantHolds, ReportInvariantHolds, AttemptInvariantHolds, PTL
      DEF CallsSpec
-----------------------------------------------------------------------------
(***************************************************************************)
(* Calls that execute the same work in turn.                               *)
(***************************************************************************)
\* Calls that are at the same step see the same effective input.  There is one head for all
\* inputs of a step: an attempt for another input takes it, and a third call would find the
\* first one's attempt no more.
OneInput ==
    \A p, q \in Runs :
        /\ {run[p].pc, run[q].pc} \subseteq Resolving \cup {"failing"}
        /\ StepOf(p) = StepOf(q)
        => SignatureOf(p, StepOf(p)) = SignatureOf(q, StepOf(q))

\* The places from the write of a head to the write that clears it
Turn == {"executing", "produced", "result_saved", "success_saved", "failing", "failure_saved"}

\* The attempt of the call's step was made for the input the step has.
Known(r) ==
    /\ SignatureOf(r, StepOf(r)) \in Signatures
    /\ Attempted(r, StepOf(r), SignatureOf(r, StepOf(r)))

\* A call keeps the head it wrote until it clears it itself, and nobody is about to take it.
TurnInv ==
    /\ \A r \in Runs : run[r].pc \in Turn => head[StepOf(r)] = r
    /\ \A p, q \in Runs : run[p].pc = "attempt_started" /\ run[q].pc \in Turn => StepOf(p) # StepOf(q)
    /\ \A p, q \in Runs : run[p].pc \in Locked /\ run[q].pc \in Locked => p = q
    /\ \A r \in Runs : run[r].pc = "failing" => Known(r)

\* A call that stays where it is keeps what is said of it.
LEMMA SameTurn ==
    ASSUME NEW q \in Runs, run'[q] = run[q]
    PROVE  /\ StepOf(q)' = StepOf(q)
           /\ SignatureOf(q, StepOf(q))' = SignatureOf(q, StepOf(q))
  BY DEF StepOf, SignatureOf

LEMMA FailingStays ==
    ASSUME EngineInv, TurnInv, AttemptsStay, NEW q \in Runs, run'[q] = run[q], run[q].pc = "failing"
    PROVE  Known(q)'
  <1>1. StepOf(q) \in Steps /\ Known(q)
    BY AtStep DEF Begun, Ended, TurnInv
  <1>2. Attempted(q, StepOf(q), SignatureOf(q, StepOf(q)))'
    <2>1. /\ attempts'[<<q, StepOf(q)>>].status # "absent"
          /\ attempts'[<<q, StepOf(q)>>].sig = SignatureOf(q, StepOf(q))
      BY <1>1 DEF Known, AttemptsStay, Attempted
    <2> QED BY <2>1, SameTurn DEF Attempted
  <1>3. SignatureOf(q, StepOf(q))' \in Signatures
    BY <1>1, SameTurn DEF Known
  <1> QED BY <1>2, <1>3 DEF Known

\* A call moves and no head is written.
LEMMA TurnStays ==
    ASSUME EngineInv, TurnInv, AttemptsStay, NEW r \in Runs, head' = head,
           \A q \in Runs \ {r} : run'[q] = run[q],
           run'[r].pc \in Turn => run[r].pc \in Turn /\ StepOf(r)' = StepOf(r),
           run'[r].pc # "attempt_started",
           run'[r].pc \in Locked => run[r].pc \in Locked \/ LockFree,
           run'[r].pc = "failing" => Known(r)'
    PROVE  TurnInv'
  <1>1. ASSUME NEW q \in Runs, run'[q].pc \in Turn
        PROVE  run[q].pc \in Turn /\ StepOf(q)' = StepOf(q)
    BY <1>1, SameTurn
  <1>2. \A q \in Runs : run'[q].pc \in Turn => head'[StepOf(q)'] = q
    BY <1>1 DEF TurnInv
  <1>3. ASSUME NEW p \in Runs, NEW q \in Runs, run'[p].pc = "attempt_started", run'[q].pc \in Turn
        PROVE  StepOf(p)' # StepOf(q)'
    <2>1. run[p].pc = "attempt_started" /\ StepOf(p)' = StepOf(p)
      BY <1>3, SameTurn
    <2> QED BY <1>1, <1>3, <2>1 DEF TurnInv
  <1>4. ASSUME NEW p \in Runs, NEW q \in Runs, run'[p].pc \in Locked, run'[q].pc \in Locked
        PROVE  p = q
    BY <1>4 DEF TurnInv, LockFree
  <1>5. ASSUME NEW q \in Runs, run'[q].pc = "failing"
        PROVE  Known(q)'
    BY <1>5, FailingStays
  <1> QED BY <1>2, <1>3, <1>4, <1>5 DEF TurnInv

LEMMA LookupTurn ==
    ASSUME EngineInv, AttemptInv, TurnInv, AttemptsStay, NEW r \in Runs,
           Begin(r) \/ Unresolved(r) \/ Reuse(r) \/ LookupMisses(r) \/ Blocked(r)
    PROVE  TurnInv'
  <1>1. run \in [Runs -> Run] /\ run[r] \in Run
    BY DEF EngineInv, TypeOK
  <1>2. head' = head
    BY DEF Begin, BeginAt, Unresolved, Reuse, LookupMisses, Blocked, store
  <1>3. \A q \in Runs \ {r} : run'[q] = run[q]
    BY <1>1 DEF Begin, BeginAt, Unresolved, Reuse, LookupMisses, Blocked, Decide, Goto
  <1>4. run'[r].pc \in {"done", "resolve", "looked_up"}
    <2>1. CASE Begin(r)
      <3>1. PICK q \in Requests : BeginAt(r, q, now)
        BY <2>1 DEF Begin
      <3> QED BY <1>1, <3>1 DEF BeginAt, Run
    <2>2. CASE Unresolved(r) \/ Reuse(r) \/ Blocked(r)
      <3>1. PICK decision, output : Decide(r, decision, output)
        BY <2>2 DEF Unresolved, Reuse, Blocked
      <3>2. run'[r].pc \in {"done", "resolve"}
        BY <1>1, <3>1 DEF Decide, Run
      <3> QED BY <3>2
    <2>3. CASE LookupMisses(r)
      BY <1>1, <2>3 DEF LookupMisses, Goto, Run
    <2> QED BY <2>1, <2>2, <2>3
  <1>5. run'[r].pc \notin Turn \cup Locked \cup {"failing"}
    BY <1>4 DEF Turn, Locked
  <1> QED BY <1>2, <1>3, <1>5, TurnStays DEF Locked

\* Between its two writes of the head, a call stays at its step.
LEMMA WorkTurn ==
    ASSUME EngineInv, AttemptInv, TurnInv, AttemptsStay, NEW r \in Runs,
           \/ ExecutorReturns(r) \/ ExecutorRaises(r)
           \/ SaveResult(r) \/ SaveSuccess(r) \/ SaveFailure(r)
    PROVE  TurnInv'
  <1>1. run \in [Runs -> Run] /\ run[r] \in Run
    BY DEF EngineInv, TypeOK
  <1>2. head' = head /\ (\A q \in Runs \ {r} : run'[q] = run[q])
    BY <1>1 DEF ExecutorReturns, ExecutorRaises, SaveResult, SaveSuccess, SaveFailure, Goto, store
  <1>3. /\ run[r].pc \in Turn /\ run'[r].at = run[r].at
        /\ run'[r].request = run[r].request /\ run'[r].outputs = run[r].outputs
        /\ run'[r].pc # "attempt_started"
        /\ run'[r].pc \in Locked => run[r].pc \in Locked \/ LockFree
        /\ run'[r].pc = "failing" => run[r].pc = "executing" /\ attempts' = attempts
    <2>1. CASE ExecutorReturns(r)
      <3>1. run[r].pc = "executing" /\ \E o \in Outputs : run' = [run EXCEPT ![r].pc = "produced", ![r].result = o]
        BY <2>1 DEF ExecutorReturns
      <3>2. PICK o \in Outputs : run' = [run EXCEPT ![r].pc = "produced", ![r].result = o]
        BY <3>1
      <3>3. /\ run'[r].pc = "produced" /\ run'[r].at = run[r].at
            /\ run'[r].request = run[r].request /\ run'[r].outputs = run[r].outputs
        BY <1>1, <3>2 DEF Run
      <3> QED BY <3>1, <3>3 DEF Turn, Locked
    <2>2. CASE ExecutorRaises(r)
      BY <1>1, <2>2 DEF ExecutorRaises, Goto, Run, Turn, Locked, store
    <2>3. CASE SaveResult(r)
      BY <1>1, <2>3 DEF SaveResult, Goto, Run, Turn
    <2>4. CASE SaveSuccess(r)
      BY <1>1, <2>4 DEF SaveSuccess, Goto, Run, Turn, Locked
    <2>5. CASE SaveFailure(r)
      BY <1>1, <2>5 DEF SaveFailure, Goto, Run, Turn
    <2> QED BY <2>1, <2>2, <2>3, <2>4, <2>5
  <1>4. /\ StepOf(r)' = StepOf(r)
        /\ SignatureOf(r, StepOf(r))' = SignatureOf(r, StepOf(r))
    BY <1>3 DEF StepOf, SignatureOf
  <1>5. run'[r].pc = "failing" => Known(r)'
    <2> SUFFICES ASSUME run'[r].pc = "failing" PROVE Known(r)'
      OBVIOUS
    <2>1. SignatureOf(r, StepOf(r)) \in Signatures /\ Attempted(r, StepOf(r), SignatureOf(r, StepOf(r)))
      BY <1>3, AtStep DEF AttemptInv, AttemptSound, Attempting, Begun, Ended, Resolving
    <2> QED BY <1>3, <1>4, <2>1 DEF Known, Attempted
  <1> QED BY <1>2, <1>3, <1>4, <1>5, TurnStays

\* The check of the step's head and the attempt's first write are one step: whoever holds the
\* head at that time has an active attempt for the same input.
LEMMA StartTurn ==
    ASSUME EngineInv, ReportInv, AttemptInv, CallsInv, OneInput, TurnInv, AttemptsStay,
           NEW r \in Runs, StartAttempt(r)
    PROVE  TurnInv'
  <1> DEFINE s == StepOf(r)
  <1>1. /\ run \in [Runs -> Run] /\ run[r] \in Run /\ head' = head
        /\ run[r].pc = "looked_up" /\ Goto(r, "attempt_started") /\ LockFree
        /\ ~ ActiveAttempt(s, SignatureOf(r, s))
    BY DEF EngineInv, TypeOK, StartAttempt
  <1>2. /\ \A q \in Runs \ {r} : run'[q] = run[q]
        /\ run'[r].pc = "attempt_started" /\ StepOf(r)' = s
    BY <1>1 DEF Goto, StepOf, Run
  <1>3. ASSUME NEW q \in Runs, run[q].pc \in Turn PROVE StepOf(q) # s
    <2> SUFFICES ASSUME StepOf(q) = s PROVE FALSE
      OBVIOUS
    <2>1. run[q].pc \in {"executing", "produced", "failing"}
      BY <1>1, <1>3 DEF LockFree, Turn, Locked
    <2>2. SignatureOf(q, s) = SignatureOf(r, s)
      BY <1>1, <2>1 DEF OneInput, Resolving
    <2>3. attempts[<<q, s>>].sig = SignatureOf(q, s)
      BY <2>1 DEF AttemptInv, AttemptSound, Attempting, TurnInv, Known, Attempted
    <2>4. attempts[<<q, s>>].status = "active"
      <3>1. CASE run[q].pc = "failing"
        BY <3>1 DEF CallsInv
      <3>2. CASE run[q].pc \in {"executing", "produced"}
        BY <3>2, AtStep DEF Begun, Ended, RunSound, ReportInv, Story, StatusesAt, StepOf
      <3> QED BY <2>1, <3>1, <3>2
    <2>5. head[s] = q /\ q # None
      BY <1>3, EngineAssumption DEF TurnInv
    <2> QED BY <1>1, <2>2, <2>3, <2>4, <2>5 DEF ActiveAttempt
  <1>4. ASSUME NEW q \in Runs, run'[q].pc \in Turn
        PROVE  q # r /\ run[q].pc \in Turn /\ StepOf(q)' = StepOf(q)
    BY <1>2, <1>4, SameTurn DEF Turn
  <1>5. \A q \in Runs : run'[q].pc \in Turn => head'[StepOf(q)'] = q
    BY <1>1, <1>4 DEF TurnInv
  <1>6. ASSUME NEW p \in Runs, NEW q \in Runs, run'[p].pc = "attempt_started", run'[q].pc \in Turn
        PROVE  StepOf(p)' # StepOf(q)'
    <2>1. p = r
      BY <1>1, <1>2, <1>6 DEF LockFree, Locked
    <2> QED BY <1>2, <1>3, <1>4, <1>6, <2>1
  <1>7. ASSUME NEW p \in Runs, NEW q \in Runs, run'[p].pc \in Locked, run'[q].pc \in Locked
        PROVE  p = q
    BY <1>1, <1>2, <1>7 DEF LockFree
  <1>8. ASSUME NEW q \in Runs, run'[q].pc = "failing"
        PROVE  Known(q)'
    BY <1>2, <1>8, FailingStays
  <1> QED BY <1>5, <1>6, <1>7, <1>8 DEF TurnInv

\* A head is written by the only call in the lock, at whose step nobody else has its turn.
LEMMA HeadTurn ==
    ASSUME EngineInv, TurnInv, AttemptsStay, NEW r \in Runs, StartHead(r)
    PROVE  TurnInv'
  <1> DEFINE s == StepOf(r)
  <1>1. /\ run \in [Runs -> Run] /\ run[r] \in Run /\ head \in [Steps -> Runs \cup {None}]
        /\ run[r].pc = "attempt_started" /\ Goto(r, "executing") /\ s \in Steps
    BY AtStep DEF EngineInv, TypeOK, StartHead, Begun, Ended
  <1>2. head' = [head EXCEPT ![s] = r]
    BY <1>1 DEF StartHead, HeadSet
  <1>3. /\ \A q \in Runs \ {r} : run'[q] = run[q]
        /\ run'[r].pc = "executing" /\ StepOf(r)' = s
    BY <1>1 DEF Goto, StepOf, Run
  <1> HIDE DEF s
  <1>4. ASSUME NEW q \in Runs, run'[q].pc \in Turn PROVE head'[StepOf(q)'] = q
    <2>1. CASE q = r
      BY <1>1, <1>2, <1>3, <2>1
    <2>2. CASE q # r
      <3>1. run[q].pc \in Turn /\ StepOf(q)' = StepOf(q)
        BY <1>3, <1>4, <2>2, SameTurn
      <3>2. StepOf(q) # s /\ head[StepOf(q)] = q
        BY <1>1, <3>1 DEF TurnInv, s
      <3>3. StepOf(q) \in Steps
        BY <3>1, AtStep DEF Begun, Ended, Turn
      <3> QED BY <1>1, <1>2, <3>1, <3>2, <3>3
    <2> QED BY <2>1, <2>2
  <1>5. ASSUME NEW p \in Runs, run'[p].pc = "attempt_started" PROVE FALSE
    BY <1>1, <1>3, <1>5 DEF TurnInv, Locked
  <1>6. ASSUME NEW p \in Runs, NEW q \in Runs, run'[p].pc \in Locked, run'[q].pc \in Locked
        PROVE  p = q
    BY <1>3, <1>6 DEF TurnInv, Locked
  <1>7. ASSUME NEW q \in Runs, run'[q].pc = "failing"
        PROVE  Known(q)'
    BY <1>3, <1>7, FailingStays
  <1> QED BY <1>4, <1>5, <1>6, <1>7 DEF TurnInv

\* The head a call clears is its own.
LEMMA ReleaseTurn ==
    ASSUME EngineInv, TurnInv, AttemptsStay, NEW r \in Runs,
           ReleaseAfterSuccess(r) \/ ReleaseAfterFailure(r)
    PROVE  TurnInv'
  <1> DEFINE s == StepOf(r)
  <1>1. /\ run \in [Runs -> Run] /\ run[r] \in Run /\ head \in [Steps -> Runs \cup {None}]
        /\ run[r].pc \in {"success_saved", "failure_saved"}
    BY DEF EngineInv, TypeOK, ReleaseAfterSuccess, ReleaseAfterFailure
  <1>2. head' = [head EXCEPT ![s] = None] /\ s \in Steps
    BY <1>1, AtStep DEF ReleaseAfterSuccess, ReleaseAfterFailure, HeadSet, Begun, Ended
  <1>3. PICK decision, output : Decide(r, decision, output)
    BY DEF ReleaseAfterSuccess, ReleaseAfterFailure
  <1>4. (\A q \in Runs \ {r} : run'[q] = run[q]) /\ run'[r].pc \in {"done", "resolve"}
    BY <1>1, <1>3 DEF Decide, Run
  <1> HIDE DEF s
  <1>5. ASSUME NEW q \in Runs, run'[q].pc \in Turn \cup Locked
        PROVE  q # r /\ run[q].pc = run'[q].pc /\ StepOf(q)' = StepOf(q)
    BY <1>4, <1>5, SameTurn DEF Turn, Locked
  <1>6. ASSUME NEW q \in Runs, run'[q].pc \in Turn PROVE head'[StepOf(q)'] = q
    <2>1. q # r /\ run[q].pc \in Turn /\ StepOf(q)' = StepOf(q)
      BY <1>5, <1>6
    <2>2. head[StepOf(q)] = q /\ head[s] = r
      BY <1>1, <2>1 DEF TurnInv, Turn, s
    <2>3. StepOf(q) \in Steps
      BY <2>1, AtStep DEF Begun, Ended, Turn
    <2> QED BY <1>1, <1>2, <2>1, <2>2, <2>3
  <1>7. ASSUME NEW p \in Runs, NEW q \in Runs, run'[p].pc = "attempt_started", run'[q].pc \in Turn
        PROVE  StepOf(p)' # StepOf(q)'
    BY <1>5, <1>7 DEF TurnInv, Locked
  <1>8. ASSUME NEW p \in Runs, NEW q \in Runs, run'[p].pc \in Locked, run'[q].pc \in Locked
        PROVE  p = q
    BY <1>5, <1>8 DEF TurnInv
  <1>9. ASSUME NEW q \in Runs, run'[q].pc = "failing"
        PROVE  Known(q)'
    BY <1>4, <1>9, FailingStays
  <1> QED BY <1>6, <1>7, <1>8, <1>9 DEF TurnInv

LEMMA TurnNextKeeps ==
    ASSUME EngineInv, ReportInv, AttemptInv, CallsInv, OneInput, TurnInv, [CallsNext]_vars
    PROVE  TurnInv'
  <1>1. ASSUME NEW r \in Runs, Begin(r) PROVE TurnInv'
    <2>1. AttemptsStay
      BY <1>1, BeginAttempts DEF Begin, EngineInv, TypeOK
    <2> QED BY <1>1, <2>1, LookupTurn
  <1>2. ASSUME NEW r \in Runs, Proceed(r) PROVE TurnInv'
    <2>1. AttemptsStay
      BY <1>2, ContinueAttempts DEF Continue
    <2> QED BY <1>2, <2>1, LookupTurn, WorkTurn, StartTurn, HeadTurn, ReleaseTurn DEF Proceed
  <1>3. CASE UNCHANGED vars
    BY <1>3 DEF vars, store, TurnInv, Known, StepOf, SignatureOf, Attempted
  <1> QED BY <1>1, <1>2, <1>3 DEF CallsNext

\* Any number of calls whose writes succeed, and which see one input of each step, execute a
\* step's work in turn (_start_attempt, set_active_attempt).
THEOREM ExclusiveHolds == CallsSpec /\ []OneInput => []ExclusiveExecution
  <1>1. CallsSpec => Spec
    <2>1. [CallsNext]_vars => [Next]_vars
      BY DEF CallsNext, Next, Continue
    <2> QED BY <2>1, PTL DEF CallsSpec, Spec
  <1>2. Init => CallsInv /\ TurnInv
    BY DEF Init, CallsInv, TurnInv, NotBegun, Turn, Locked
  <1>3. EngineInv /\ ReportInv /\ CallsInv /\ [CallsNext]_vars => CallsInv'
    BY CallsNextKeeps
  <1>4. EngineInv /\ ReportInv /\ AttemptInv /\ CallsInv /\ OneInput /\ TurnInv /\ [CallsNext]_vars => TurnInv'
    BY TurnNextKeeps
  <1>5. TurnInv => ExclusiveExecution
    <2> SUFFICES ASSUME TurnInv, NEW p \in Runs, NEW q \in Runs, Executing(p), Executing(q),
                        SignatureOf(p, StepOf(p)) = SignatureOf(q, StepOf(q))
                 PROVE  p = q
      BY DEF ExclusiveExecution
    <2>1. StepOf(p) = StepOf(q)
      BY DEF SignatureOf
    <2> QED BY <2>1 DEF TurnInv, Turn, Executing
  <1> QED BY <1>1, <1>2, <1>3, <1>4, <1>5, InvariantHolds, ReportInvariantHolds, AttemptInvariantHolds, PTL
      DEF CallsSpec
=============================================================================
