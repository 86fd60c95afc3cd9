------------------------- MODULE AgentHandoffProofs -------------------------
(***************************************************************************)
(* Theorems about AgentHandoff for every workflow, set of calls, policies,   *)
(* environment and rewriting of records: its types, and that nothing reaches *)
(* a receiving agent but content its policy permits, produced for exactly    *)
(* the work it wants.                                                      *)
(*                                                                         *)
(* The inductive invariant has three parts: the engine's, from               *)
(* DeltaEngineProofs; that a stored result has the attempt of the call that  *)
(* saved it, which is never started again (AttemptInv); and what a context   *)
(* rests on (ContextSound).  The receipt's truth rests on ReportInv of         *)
(* EngineReportProofs and on a finished call staying as it is (ReceiptSound). *)
(* What the engine promises, it keeps under the service.                     *)
(***************************************************************************)
EXTENDS AgentHandoff, EngineAttemptProofs

-----------------------------------------------------------------------------
(***************************************************************************)
(* The gate and the service.                                               *)
(***************************************************************************)
HandTyped ==
    /\ HandoffTypeOK
    /\ \A h \in Handoffs : hand[h].pc \in {"gated", "recorded"} => hand[h].request \in HandoffRequest

\* What the output of a step in a context rests on
Rests(request, context, s) ==
    /\ \A d \in Deps[s] : context[d] # None
    /\ Wanted(request, context, s) \in Signatures
    /\ \E p \in Runs : /\ MayHave(request, s, Principal[p])
                       /\ Attempted(p, s, Wanted(request, context, s))
    /\ <<Wanted(request, context, s), context[s]>> \in produced

ContextSound ==
    \A h \in Handoffs, s \in Steps :
        hand[h].context[s] # None => Rests(hand[h].request, hand[h].context, s)

HandoffInv == EngineInv /\ AttemptInv /\ HandTyped /\ ContextSound

LEMMA RestsStays ==
    ASSUME AttemptsStay, produced \subseteq produced', NEW s \in Steps,
           NEW request, NEW context, Rests(request, context, s)
    PROVE  Rests(request, context, s)'
  <1> DEFINE g == Wanted(request, context, s)
  <1>1. PICK p \in Runs : MayHave(request, s, Principal[p]) /\ Attempted(p, s, g)
    BY DEF Rests
  <1>2. g \in Signatures /\ <<g, context[s]>> \in produced /\ \A d \in Deps[s] : context[d] # None
    BY DEF Rests
  <1> HIDE DEF g
  <1>3. Attempted(p, s, g)'
    BY <1>1, <1>2 DEF AttemptsStay
  <1> QED BY <1>1, <1>2, <1>3 DEF Rests, g

LEMMA ContextStays ==
    ASSUME ContextSound, AttemptsStay, produced \subseteq produced',
           \A h \in Handoffs : /\ hand'[h].context = hand[h].context
                               /\ hand'[h].request = hand[h].request
    PROVE  ContextSound'
  BY RestsStays DEF ContextSound

\* A step the gate reuses has a record under the wanted signature, which the policy
\* authorizes; so a reused output rests on what it must.
LEMMA ReuseRests ==
    ASSUME EngineInv, AttemptInv, NEW request \in HandoffRequest,
           NEW context \in [Steps -> Outputs \cup {None}],
           NEW fallback \in [Steps -> Signatures \cup {None}], NEW time, NEW s \in Steps,
           fallback[s] # None => Decodable(fallback[s]),
           context[s] = Inherited(request, context, fallback, time, s), context[s] # None
    PROVE  Rests(request, context, s)
  <1> DEFINE g == Wanted(request, context, s)
             c == Candidate(request, context, fallback, s)
  <1>1. Decision(request, context, fallback, time, s) = "reuse" /\ context[s] = work[c].output
    BY DEF Inherited
  <1>2. /\ Available(request, context, s) /\ c # None
        /\ DecideOn(VerdictsOn(request, c, g, time)) = "reuse"
    BY <1>1 DEF Decision, DecisionOn, DecideOn, VerdictsFor, PendingVerdicts, NoCandidateVerdicts
  <1>3. c = g /\ Trusted(c) /\ Authorized(request, c)
    BY <1>2 DEF DecideOn, VerdictsOn
  <1>4. g \in Signatures /\ g.step = s
    <2>1. request.inputs \in Requests
      BY DEF HandoffRequest
    <2>2. request.inputs[s] \in Inputs
      BY <1>2, <2>1, EngineAssumption DEF Available
    <2>3. [d \in Deps[s] |-> context[d]] \in [Deps[s] -> Outputs]
      BY <1>2, EngineAssumption DEF Available
    <2>4. g \in [step: {s}, input: Inputs, from: [Deps[s] -> Outputs]] /\ g.step = s
      BY <2>2, <2>3 DEF Wanted
    <2> HIDE DEF g
    <2> QED BY <2>4 DEF Signatures
  <1>5. Decodable(c)
    BY <1>2 DEF Candidate
  <1>6. work[g] # None
    BY <1>3, <1>5 DEF Decodable
  <1>7. /\ work[g].by \in Runs /\ Attempted(work[g].by, s, g) /\ <<g, work[g].output>> \in produced
    BY <1>4, <1>6 DEF EngineInv, TypeOK, WorkResult, WorkSound, AttemptInv, WorkAttempted
  <1>8. MayHave(request, s, Principal[work[g].by])
    BY <1>3, <1>4 DEF Trusted, Authorized, Provenance, MayHave
  <1>9. \A d \in Deps[s] : context[d] # None
    BY <1>2 DEF Available
  <1> QED BY <1>1, <1>3, <1>4, <1>7, <1>8, <1>9 DEF Rests

LEMMA DecisionTyped ==
    ASSUME NEW request, NEW context, NEW fallback, NEW time, NEW s
    PROVE  Decision(request, context, fallback, time, s) \in Decided
  BY DEF Decision, DecisionOn, DecideOn, Decided, Blocking

LEMMA HandoffInitSound == HandoffInit => HandoffInv
  <1> SUFFICES ASSUME HandoffInit PROVE HandoffInv OBVIOUS
  <1>1. EngineInv
    BY InitSound DEF HandoffInit
  <1>2. AttemptInv
    BY EngineAssumption DEF HandoffInit, Init, AttemptInv, AttemptSound, WorkAttempted, NotBegun, Attempting
  <1>3. NoHandoff \in Hand
    BY DEF NoHandoff, Hand, Places, Outcomes
  <1>4. HandTyped
    BY <1>1, <1>3 DEF HandoffInit, HandTyped, HandoffTypeOK, EngineInv, Marks, NoHandoff
  <1>5. ContextSound
    BY DEF HandoffInit, ContextSound, NoHandoff
  <1> QED BY <1>1, <1>2, <1>4, <1>5 DEF HandoffInv

\* What a service has come to changes, but neither the request nor the context.
LEMMA MoveKeeps ==
    ASSUME HandoffInv, NEW h \in Handoffs, NEW x \in Hand, hand' = [hand EXCEPT ![h] = x],
           x.request = hand[h].request, x.context = hand[h].context,
           x.pc \in {"gated", "recorded"} => hand[h].pc \in {"gated", "recorded"},
           mark' = mark, EngineInv', AttemptInv', AttemptsStay, produced \subseteq produced'
    PROVE  HandoffInv'
  <1>1. hand \in [Handoffs -> Hand] /\ mark \in [Signatures -> Marks]
    BY DEF HandoffInv, HandTyped, HandoffTypeOK
  <1>2. \A k \in Handoffs : hand'[k] = IF k = h THEN x ELSE hand[k]
    BY <1>1
  <1>3. HandTyped'
    BY <1>1, <1>2 DEF HandoffInv, HandTyped, HandoffTypeOK, EngineInv
  <1>4. ContextSound'
    BY <1>2, ContextStays DEF HandoffInv
  <1> QED BY <1>3, <1>4 DEF HandoffInv

LEMMA EvaluateKeeps ==
    ASSUME HandoffInv, NEW h \in Handoffs, Evaluate(h)
    PROVE  HandoffInv'
  <1>1. PICK inputs \in Requests, policies \in PolicySets, context \in [Steps -> Outputs \cup {None}],
             fallback \in [Steps -> Signatures \cup {None}] :
          LET request == [inputs |-> inputs, recipient |-> Principal[h], policies |-> policies] IN
          /\ \A s \in Steps : IF Latest(s) = {} THEN fallback[s] = None ELSE fallback[s] \in Latest(s)
          /\ Builds(request, context, fallback, now)
          /\ hand' = [hand EXCEPT ![h] =
               [NoHandoff EXCEPT !.pc = "gated", !.request = request, !.at = now, !.context = context,
                  !.decision = [s \in Steps |-> Decision(request, context, fallback, now, s)]]]
    BY DEF Evaluate
  <1> DEFINE request == [inputs |-> inputs, recipient |-> Principal[h], policies |-> policies]
             decided == [s \in Steps |-> Decision(request, context, fallback, now, s)]
             x == [NoHandoff EXCEPT !.pc = "gated", !.request = request, !.at = now,
                     !.context = context, !.decision = decided]
  <1>2. EngineInv' /\ AttemptInv' /\ AttemptsStay /\ produced' = produced /\ mark' = mark
    BY EngineStays DEF Evaluate, HandoffInv
  <1>3. request \in HandoffRequest
    <2>1. Principal[h] \in Principals
      BY HandoffAssumption, GateAssumption
    <2> QED BY <2>1 DEF HandoffRequest
  <1>4. decided \in [Steps -> Decided \cup {"none"}]
    BY DecisionTyped
  <1>5. \A s \in Steps : context[s] # None => Rests(request, context, s)
    <2> SUFFICES ASSUME NEW s \in Steps, context[s] # None PROVE Rests(request, context, s)
      OBVIOUS
    <2>1. fallback[s] # None => Decodable(fallback[s])
      BY <1>1 DEF Latest
    <2>2. context[s] = Inherited(request, context, fallback, now, s)
      BY <1>1 DEF Builds
    <2> HIDE DEF request
    <2> QED BY <1>3, <2>1, <2>2, ReuseRests DEF HandoffInv
  <1>6. hand' = [hand EXCEPT ![h] = x]
    BY <1>1
  <1>7. /\ x \in Hand /\ x.pc = "gated" /\ x.request = request /\ x.context = context
    <2>1. now \in Nat
      BY DEF HandoffInv, EngineInv, TypeOK
    <2> HIDE DEF request, decided
    <2> QED BY <1>3, <1>4, <2>1 DEF NoHandoff, Hand, Places, Outcomes
  <1> HIDE DEF x, request, decided
  <1>8. hand \in [Handoffs -> Hand] /\ mark \in [Signatures -> Marks]
    BY DEF HandoffInv, HandTyped, HandoffTypeOK
  <1>9. \A k \in Handoffs : hand'[k] = IF k = h THEN x ELSE hand[k]
    BY <1>6, <1>8
  <1>10. HandTyped'
    BY <1>2, <1>3, <1>6, <1>7, <1>8, <1>9 DEF HandoffInv, HandTyped, HandoffTypeOK, EngineInv
  <1>11. ContextSound'
    <2>1. ASSUME NEW k \in Handoffs, NEW s \in Steps, NEW q, NEW c,
                 q = hand'[k].request, c = hand'[k].context, c[s] # None
          PROVE  Rests(q, c, s)'
      <3>1. Rests(q, c, s)
        BY <1>5, <1>7, <1>9, <2>1 DEF HandoffInv, ContextSound
      <3> QED BY <1>2, <3>1, RestsStays
    <2> QED BY <2>1 DEF ContextSound
  <1> QED BY <1>2, <1>10, <1>11 DEF HandoffInv

\* The service's own writes, and what it raises
LEMMA ServiceKeeps ==
    ASSUME HandoffInv, NEW h \in Handoffs,
           \/ SaveRecord(h) \/ SaveReceipt(h) \/ RunAgent(h) \/ SaveRun(h)
           \/ EngineRaised(h) \/ WriteFails(h)
    PROVE  HandoffInv'
  <1>1. /\ EngineInv' /\ AttemptInv' /\ AttemptsStay /\ produced \subseteq produced' /\ mark' = mark
    BY EngineStays DEF SaveRecord, SaveReceipt, RunAgent, SaveRun, EngineRaised, WriteFails, HandoffInv
  <1>2. hand[h] \in Hand /\ hand \in [Handoffs -> Hand]
    BY DEF HandoffInv, HandTyped, HandoffTypeOK
  <1>3. CASE SaveRecord(h)
    <2> DEFINE x == [hand[h] EXCEPT !.pc = "recorded", !.saved = @ \cup {"record"}]
    <2>1. hand' = [hand EXCEPT ![h] = x] /\ hand[h].pc = "gated"
      BY <1>2, <1>3 DEF SaveRecord, Hand
    <2>2. x \in Hand /\ x.request = hand[h].request /\ x.context = hand[h].context
      BY <1>2 DEF Hand, Places
    <2> HIDE DEF x
    <2> QED BY <1>1, <2>1, <2>2, MoveKeeps
  <1>4. CASE SaveReceipt(h)
    <2> DEFINE told == [s \in Steps |-> Outcome(h, s)]
               x == [hand[h] EXCEPT !.pc = "receipted", !.saved = @ \cup {"receipt"}, !.outcome = told]
    <2>1. told \in [Steps -> Outcomes]
      BY DEF Outcome, Outcomes
    <2>2. hand' = [hand EXCEPT ![h] = x]
      BY <1>2, <1>4 DEF SaveReceipt, Hand
    <2> HIDE DEF told
    <2>3. x \in Hand /\ x.request = hand[h].request /\ x.context = hand[h].context /\ x.pc = "receipted"
      BY <1>2, <2>1 DEF Hand, Places
    <2> HIDE DEF x
    <2> QED BY <1>1, <2>2, <2>3, MoveKeeps
  <1>5. CASE RunAgent(h)
    <2>1. ASSUME NEW status \in {"succeeded", "failed"},
                 hand' = [hand EXCEPT ![h].pc = "answered", ![h].agent = status]
          PROVE  HandoffInv'
      <3> DEFINE x == [hand[h] EXCEPT !.pc = "answered", !.agent = status]
      <3>1. hand' = [hand EXCEPT ![h] = x]
        BY <1>2, <2>1 DEF Hand
      <3>2. x \in Hand /\ x.request = hand[h].request /\ x.context = hand[h].context /\ x.pc = "answered"
        BY <1>2 DEF Hand, Places
      <3> HIDE DEF x
      <3> QED BY <1>1, <1>5, <3>1, <3>2, MoveKeeps
    <2>2. CASE hand' = [hand EXCEPT ![h].pc = "raised"]
      <3> DEFINE x == [hand[h] EXCEPT !.pc = "raised"]
      <3>1. hand' = [hand EXCEPT ![h] = x]
        BY <1>2, <2>2 DEF Hand
      <3>2. x \in Hand /\ x.request = hand[h].request /\ x.context = hand[h].context /\ x.pc = "raised"
        BY <1>2 DEF Hand, Places
      <3> HIDE DEF x
      <3> QED BY <1>1, <1>5, <3>1, <3>2, MoveKeeps
    <2> QED BY <1>5, <2>1, <2>2 DEF RunAgent
  <1>6. CASE SaveRun(h)
    <2> DEFINE x == [hand[h] EXCEPT !.pc = "done", !.saved = @ \cup {"run"}]
    <2>1. hand' = [hand EXCEPT ![h] = x]
      BY <1>2, <1>6 DEF SaveRun, Hand
    <2>2. x \in Hand /\ x.request = hand[h].request /\ x.context = hand[h].context /\ x.pc = "done"
      BY <1>2 DEF Hand, Places
    <2> HIDE DEF x
    <2> QED BY <1>1, <2>1, <2>2, MoveKeeps
  <1>7. CASE EngineRaised(h) \/ WriteFails(h)
    <2> DEFINE x == [hand[h] EXCEPT !.pc = "raised"]
    <2>1. hand' = [hand EXCEPT ![h] = x]
      BY <1>2, <1>7 DEF EngineRaised, WriteFails, Hand
    <2>2. x \in Hand /\ x.request = hand[h].request /\ x.context = hand[h].context /\ x.pc = "raised"
      BY <1>2 DEF Hand, Places
    <2> HIDE DEF x
    <2> QED BY <1>1, <2>1, <2>2, MoveKeeps
  <1> QED BY <1>3, <1>4, <1>5, <1>6, <1>7

LEMMA ExecuteKeeps ==
    ASSUME HandoffInv, NEW h \in Handoffs, Execute(h)
    PROVE  HandoffInv'
  <1>1. hand[h] \in Hand /\ hand \in [Handoffs -> Hand] /\ hand[h].request \in HandoffRequest
    BY DEF HandoffInv, HandTyped, HandoffTypeOK, Execute
  <1>2. /\ hand[h].request.inputs \in Requests /\ hand[h].at \in Nat /\ h \in Runs
    BY <1>1, HandoffAssumption DEF HandoffRequest, Hand
  <1>3. BeginAt(h, hand[h].request.inputs, hand[h].at) /\ mark' = mark
    BY DEF Execute
  <1>4. EngineInv' /\ AttemptInv' /\ AttemptsStay /\ produced' = produced
    BY <1>2, <1>3, BeginAttempts DEF HandoffInv
  <1> DEFINE x == [hand[h] EXCEPT !.pc = "executing"]
  <1>5. hand' = [hand EXCEPT ![h] = x]
    BY <1>1 DEF Execute, Hand
  <1>6. x \in Hand /\ x.request = hand[h].request /\ x.context = hand[h].context /\ x.pc = "executing"
    BY <1>1 DEF Hand, Places
  <1> HIDE DEF x
  <1> QED BY <1>3, <1>4, <1>5, <1>6, MoveKeeps

\* A lookup that finds a damaged record
LEMMA DamagedKeeps ==
    ASSUME EngineInv, AttemptInv, NEW r \in Runs, LookupOfLost(r) \/ LookupRaises(r)
    PROVE  EngineInv' /\ AttemptInv' /\ AttemptsStay /\ produced \subseteq produced'
  <1>1. PICK place \in {"looked_up", "raised"} : Goto(r, place)
    BY DEF LookupOfLost, LookupRaises
  <1>2. /\ run[r].pc = "resolve" /\ Resolved(r, StepOf(r)) /\ Begun(r)
        /\ UNCHANGED <<store, now, produced>>
    BY DEF LookupOfLost, LookupRaises, Looks, Begun, Ended
  <1>3. place \in PCs /\ place \notin Produced /\ place # "idle" /\ place \notin Attempting
    BY DEF PCs, Ended, Produced, Attempting
  <1>4. (\A q \in Runs : RunSound(q)') /\ run' \in [Runs -> Run]
    BY <1>1, <1>2, <1>3, GotoSound
  <1>5. EngineInv'
    BY <1>2, <1>4, OnlyMoves
  <1>6. work' = work /\ attempts' = attempts /\ produced' = produced
    BY <1>2 DEF store
  <1>7. \A q \in Runs : AttemptSound(q)'
    BY <1>1, <1>2, <1>3, <1>6, GotoAttempts DEF AttemptInv, Early
  <1>8. AttemptsStay
    BY <1>6, SameAttemptsStay
  <1> QED BY <1>5, <1>6, <1>7, <1>8, WorkAttemptedStays DEF AttemptInv

LEMMA EngineStepKeeps ==
    ASSUME HandoffInv, NEW r \in Runs, EngineStep(r)
    PROVE  HandoffInv'
  <1>1. EngineInv' /\ AttemptInv' /\ AttemptsStay /\ produced \subseteq produced'
    <2>1. CASE Continue(r)
      BY <2>1, ContinueKeeps, ContinueAttempts, ProducedGrows DEF HandoffInv
    <2>2. CASE LookupOfLost(r) \/ LookupRaises(r)
      BY <2>2, DamagedKeeps DEF HandoffInv
    <2> QED BY <2>1, <2>2 DEF EngineStep
  <1>2. hand' = hand /\ mark' = [g \in Signatures |-> IF work'[g] = work[g] THEN mark[g] ELSE "plain"]
    BY DEF EngineStep
  <1>3. mark' \in [Signatures -> Marks]
    BY <1>2 DEF HandoffInv, HandTyped, HandoffTypeOK, Marks
  <1>4. HandTyped'
    BY <1>1, <1>2, <1>3 DEF HandoffInv, HandTyped, HandoffTypeOK, EngineInv
  <1>5. ContextSound'
    BY <1>1, <1>2, ContextStays DEF HandoffInv
  <1> QED BY <1>1, <1>4, <1>5 DEF HandoffInv

LEMMA OthersKeep ==
    ASSUME HandoffInv,
           \/ \E r \in Runs : BeginPlain(r)
           \/ \E g \in Signatures : Rewrite(g)
           \/ Tick /\ UNCHANGED <<mark, hand>>
           \/ UNCHANGED handoffVars
    PROVE  HandoffInv'
  <1>1. /\ EngineInv' /\ AttemptInv' /\ AttemptsStay /\ produced' = produced
    <2>1. CASE \E r \in Runs : BeginPlain(r)
      <3>1. PICK r \in Runs, q \in Requests : BeginAt(r, q, now)
        BY <2>1 DEF BeginPlain, Begin
      <3>2. now \in Nat
        BY DEF HandoffInv, EngineInv, TypeOK
      <3> QED BY <3>1, <3>2, BeginAttempts DEF HandoffInv
    <2>2. CASE Tick
      BY <2>2, TickAttempts DEF HandoffInv
    <2>3. CASE UNCHANGED vars
      BY <2>3, EngineStays DEF HandoffInv
    <2> QED BY <2>1, <2>2, <2>3 DEF Rewrite, handoffVars
  <1>2. hand' = hand
    BY DEF BeginPlain, Rewrite, handoffVars
  <1>3. mark' \in [Signatures -> Marks]
    <2>1. mark \in [Signatures -> Marks]
      BY DEF HandoffInv, HandTyped, HandoffTypeOK
    <2>2. CASE \E g \in Signatures : Rewrite(g)
      <3>1. PICK g \in Signatures, m \in Rewrites : mark' = [mark EXCEPT ![g] = m]
        BY <2>2 DEF Rewrite
      <3>2. m \in Marks
        BY HandoffAssumption
      <3> QED BY <2>1, <3>1, <3>2
    <2>3. CASE mark' = mark
      BY <2>1, <2>3
    <2> QED BY <2>2, <2>3 DEF BeginPlain, handoffVars
  <1>4. HandTyped'
    BY <1>1, <1>2, <1>3 DEF HandoffInv, HandTyped, HandoffTypeOK, EngineInv
  <1>5. ContextSound'
    BY <1>1, <1>2, ContextStays DEF HandoffInv
  <1> QED BY <1>1, <1>4, <1>5 DEF HandoffInv

LEMMA HandoffCrashKeeps ==
    ASSUME HandoffInv, HandoffCrash
    PROVE  HandoffInv'
  <1>1. /\ EngineInv' /\ AttemptInv' /\ AttemptsStay /\ produced' = produced
    <2>1. CASE Crash
      BY <2>1, CrashAttempts DEF HandoffInv
    <2>2. CASE UNCHANGED vars
      BY <2>2, EngineStays DEF HandoffInv
    <2> QED BY <2>1, <2>2 DEF HandoffCrash
  <1>2. /\ hand \in [Handoffs -> Hand] /\ mark \in [Signatures -> Marks] /\ mark' = mark
        /\ hand' = [h \in Handoffs |-> IF Underway(h) THEN [hand[h] EXCEPT !.pc = "crashed"] ELSE hand[h]]
    BY DEF HandoffInv, HandTyped, HandoffTypeOK, HandoffCrash
  <1>3. ASSUME NEW h \in Handoffs
        PROVE  /\ hand'[h] \in Hand
               /\ hand'[h].context = hand[h].context /\ hand'[h].request = hand[h].request
               /\ hand'[h].pc \in {"gated", "recorded"} => hand[h].pc \in {"gated", "recorded"}
    <2>1. hand[h] \in Hand /\ hand'[h] \in {hand[h], [hand[h] EXCEPT !.pc = "crashed"]}
      BY <1>2
    <2>2. CASE hand'[h] = hand[h]
      BY <2>1, <2>2
    <2>3. CASE hand'[h] = [hand[h] EXCEPT !.pc = "crashed"]
      BY <2>1, <2>3 DEF Hand, Places
    <2> QED BY <2>1, <2>2, <2>3
  <1>4. HandTyped'
    <2>1. hand' \in [Handoffs -> Hand]
      BY <1>2, <1>3
    <2> QED BY <1>1, <1>2, <1>3, <2>1 DEF HandoffInv, HandTyped, HandoffTypeOK, EngineInv
  <1>5. ContextSound'
    BY <1>1, <1>3, ContextStays DEF HandoffInv
  <1> QED BY <1>1, <1>4, <1>5 DEF HandoffInv

LEMMA HandoffNextKeeps == HandoffInv /\ [HandoffNext]_handoffVars => HandoffInv'
  <1> SUFFICES ASSUME HandoffInv, [HandoffNext]_handoffVars PROVE HandoffInv'
    OBVIOUS
  <1>1. CASE \E h \in Handoffs : Evaluate(h)
    BY <1>1, EvaluateKeeps
  <1>2. CASE \E h \in Handoffs : ServiceStep(h) \/ WriteFails(h)
    BY <1>2, ServiceKeeps, ExecuteKeeps DEF ServiceStep
  <1>3. CASE \E r \in Runs : EngineStep(r)
    BY <1>3, EngineStepKeeps
  <1>4. CASE \/ \E r \in Runs : BeginPlain(r)
             \/ \E g \in Signatures : Rewrite(g)
             \/ Tick /\ UNCHANGED <<mark, hand>>
             \/ UNCHANGED handoffVars
    BY <1>4, OthersKeep
  <1>5. CASE HandoffCrash
    BY <1>5, HandoffCrashKeeps
  <1> QED BY <1>1, <1>2, <1>3, <1>4, <1>5 DEF HandoffNext

THEOREM HandoffInvariantHolds == HandoffSpec => []HandoffInv
  BY HandoffInitSound, HandoffNextKeeps, PTL DEF HandoffSpec

\* Every reachable state of the engine, the marks and the services has the types
\* HandoffTypeOK gives, whatever is rewritten, fails or dies (run).
THEOREM HandoffTypeCorrect == HandoffSpec => []HandoffTypeOK
  <1>1. HandoffInv => HandoffTypeOK BY DEF HandoffInv, HandTyped
  <1> QED BY <1>1, HandoffInvariantHolds, PTL

\* Nothing reaches a receiving agent unless the policy lets it have that output and
\* the outputs it was computed from, whatever calls, crashes and rewriting of records
\* come in between (evaluate, ApprovedContext).
THEOREM PermittedHolds == HandoffSpec => []ContextPermitted
  <1>1. HandoffInv => ContextPermitted
    <2> SUFFICES ASSUME HandoffInv, NEW h \in Handoffs, NEW s \in Steps, hand[h].context[s] # None,
                        NEW d \in {s} \cup Deps[s]
                 PROVE  /\ hand[h].context[d] # None
                        /\ \E p \in Runs :
                             /\ MayHave(hand[h].request, d, Principal[p])
                             /\ attempts[<<p, d>>].sig = Wanted(hand[h].request, hand[h].context, d)
      BY DEF ContextPermitted
    <2>1. d \in Steps /\ hand[h].context[d] # None
      BY EngineAssumption DEF HandoffInv, ContextSound, Rests
    <2>2. Rests(hand[h].request, hand[h].context, d)
      BY <2>1 DEF HandoffInv, ContextSound
    <2> QED BY <2>1, <2>2 DEF Rests, Attempted
  <1> QED BY <1>1, HandoffInvariantHolds, PTL

\* Every output in a context was produced by an executor for the input its step has
\* under the request and the context (evaluate).
THEOREM ProducedHolds == HandoffSpec => []ContextProduced
  <1>1. HandoffInv => ContextProduced
    BY DEF HandoffInv, ContextSound, Rests, ContextProduced
  <1> QED BY <1>1, HandoffInvariantHolds, PTL

\* A decision the ladder makes agrees with its verdicts, whatever they are, if the
\* external job was evaluated; else the ladder would reuse what the check refuses.
LEMMA LadderAgrees ==
    ASSUME NEW v \in HandoffVerdicts, v.external_job # "unevaluated"
    PROVE  Constructible(DecideOn(v), v)
  BY DEF HandoffVerdicts, Constructible, DecideOn, ApprovesInheritance

\* The gate leaves the external job unevaluated only where the ladder stops before it
\* could matter.
LEMMA GateVerdicts ==
    ASSUME NEW request, NEW context, NEW c, NEW time, NEW s
    PROVE  LET v == VerdictsFor(request, context, c, time, s)
           IN Constructible(DecisionOn(v), v)
  <1>1. Constructible(DecisionOn(PendingVerdicts), PendingVerdicts)
    BY DEF Constructible, DecisionOn, DecideOn, ApprovesInheritance, PendingVerdicts, UndecodableVerdicts
  <1>2. Constructible(DecisionOn(NoCandidateVerdicts), NoCandidateVerdicts)
    BY DEF Constructible, DecisionOn, DecideOn, ApprovesInheritance, NoCandidateVerdicts, UndecodableVerdicts
  <1>3. Constructible(DecisionOn(UndecodableVerdicts), UndecodableVerdicts)
    BY DEF Constructible, DecisionOn, ApprovesInheritance, UndecodableVerdicts
  <1>4. ASSUME NEW wanted
        PROVE  LET v == VerdictsOn(request, c, wanted, time) IN Constructible(DecisionOn(v), v)
    <2> DEFINE v == VerdictsOn(request, c, wanted, time)
    <2>1. v \in HandoffVerdicts /\ v.external_job # "unevaluated"
      BY DEF VerdictsOn, HandoffVerdicts, Evaluations, ExternalJobVerdict
    <2>2. DecisionOn(v) = DecideOn(v)
      BY <2>1 DEF DecisionOn, UndecodableVerdicts
    <2> QED BY <2>1, <2>2, LadderAgrees
  <1> QED BY <1>1, <1>2, <1>3, <1>4 DEF VerdictsFor

\* Whatever records, policies and requests there are, no decision disagrees with its
\* verdicts, so evaluate never raises for one (_decide, HandoffDecision).
THEOREM GateConsistentHolds == HandoffSpec => []GateConsistent
  <1>1. GateConsistent
    BY GateVerdicts DEF GateConsistent
  <1> QED BY <1>1, PTL

-----------------------------------------------------------------------------
(***************************************************************************)
(* The receipt.                                                            *)
(***************************************************************************)
\* A saved receipt tells the report of a call that has finished.
Told(h, s) ==
    hand[h].decision[s] = "rerun" =>
        hand[h].outcome[s] = IF run[h].decision[s] \in {"executed", "failed"}
                             THEN run[h].decision[s] ELSE "not_recorded"

ReceiptSound ==
    \A h \in Handoffs : "receipt" \in hand[h].saved =>
        run[h].pc = "done" /\ \A s \in Steps : Told(h, s)

ReceiptInv == ReportInv /\ ReceiptSound

LEMMA ContinueAlone ==
    ASSUME TypeOK, NEW r \in Runs,
           Continue(r) \/ LookupOfLost(r) \/ LookupRaises(r) \/ \E request, time : BeginAt(r, request, time)
    PROVE  run[r].pc # "done" /\ \A q \in Runs : q # r => run'[q] = run[q]
  <1>1. run \in [Runs -> Run]
    BY DEF TypeOK
  <1>2. CASE \/ Unresolved(r) \/ Reuse(r) \/ Blocked(r) \/ ReleaseAfterSuccess(r) \/ ReleaseAfterFailure(r)
    <2>1. run[r].pc # "done" /\ \E decision, output : Decide(r, decision, output)
      BY <1>2 DEF Unresolved, Reuse, Blocked, ReleaseAfterSuccess, ReleaseAfterFailure
    <2> QED BY <1>1, <2>1 DEF Decide
  <1>3. CASE \/ LookupMisses(r) \/ StartAttempt(r) \/ StartHead(r) \/ ExecutorRaises(r) \/ SaveResult(r)
             \/ SaveSuccess(r) \/ SaveFailure(r) \/ StoreFails(r) \/ LookupOfLost(r) \/ LookupRaises(r)
    <2>1. run[r].pc # "done" /\ \E place : Goto(r, place)
      BY <1>3 DEF LookupMisses, StartAttempt, StartHead, ExecutorRaises, SaveResult, SaveSuccess,
                  SaveFailure, StoreFails, LookupOfLost, LookupRaises, Looks, Locked
    <2> QED BY <1>1, <2>1 DEF Goto
  <1>4. CASE ExecutorReturns(r)
    BY <1>1, <1>4 DEF ExecutorReturns
  <1>5. CASE \E request, time : BeginAt(r, request, time)
    BY <1>1, <1>5 DEF BeginAt
  <1> QED BY <1>2, <1>3, <1>4, <1>5 DEF Continue, Proceed

\* A call that has finished stays as it is.
LEMMA DoneStays ==
    ASSUME TypeOK, [HandoffNext]_handoffVars, NEW q \in Runs, run[q].pc = "done"
    PROVE  run'[q] = run[q]
  <1>1. CASE \E h \in Handoffs : Execute(h)
    <2>1. PICK h \in Runs : \E request, time : BeginAt(h, request, time)
      BY <1>1, HandoffAssumption DEF Execute
    <2> QED BY <2>1, ContinueAlone
  <1>2. CASE \E r \in Runs : EngineStep(r) \/ BeginPlain(r)
    <2>1. PICK r \in Runs : \/ Continue(r) \/ LookupOfLost(r) \/ LookupRaises(r)
                            \/ \E request, time : BeginAt(r, request, time)
      BY <1>2 DEF EngineStep, BeginPlain, Begin
    <2> QED BY <2>1, ContinueAlone
  <1>3. CASE HandoffCrash
    BY <1>3 DEF HandoffCrash, Crash, Begun, Ended, TypeOK, vars
  <1>4. CASE run' = run
    BY <1>4
  <1>5. \/ \E h \in Handoffs : Execute(h)
        \/ \E r \in Runs : EngineStep(r) \/ BeginPlain(r)
        \/ HandoffCrash
        \/ run' = run
    BY DEF HandoffNext, handoffVars, vars, Evaluate, ServiceStep, SaveRecord, EngineRaised, SaveReceipt,
           RunAgent, SaveRun, WriteFails, Rewrite, Tick
  <1> QED BY <1>1, <1>2, <1>3, <1>4, <1>5

\* The report's invariant, over damaged records and the service's calls
LEMMA HandoffReport ==
    ASSUME EngineInv, ReportInv, [HandoffNext]_handoffVars
    PROVE  ReportInv'
  <1>1. CASE \E h \in Handoffs : Execute(h)
    BY <1>1, BeginReport, HandoffAssumption DEF Execute
  <1>2. CASE \E r \in Runs : BeginPlain(r)
    BY <1>2, BeginReport DEF BeginPlain, Begin
  <1>3. ASSUME NEW r \in Runs, EngineStep(r) PROVE ReportInv'
    <2>1. CASE Continue(r)
      BY <2>1, ContinueReport
    <2>2. CASE LookupOfLost(r) \/ LookupRaises(r)
      <3>1. PICK place \in {"looked_up", "raised"} :
              /\ Goto(r, place) /\ attempts' = attempts /\ head' = head /\ run[r].pc = "resolve"
        BY <2>2 DEF LookupOfLost, LookupRaises, Looks, store
      <3>2. StatusesAt(run[r].pc) \subseteq StatusesAt(place) /\ place \in PCs \ {"done"}
        BY <3>1 DEF StatusesAt, Statuses, PCs, Ended
      <3> QED BY <3>1, <3>2, GotoStory, GotoHeads DEF ReportInv, HeadPlaces
    <2> QED BY <1>3, <2>1, <2>2 DEF EngineStep
  <1>4. CASE HandoffCrash
    <2>1. Crash \/ UNCHANGED vars
      BY <1>4 DEF HandoffCrash
    <2>2. CASE Crash
      BY <2>2, CrashReport
    <2>3. CASE UNCHANGED vars
      BY <2>3, SameReport DEF vars, store
    <2> QED BY <2>1, <2>2, <2>3
  <1>5. CASE UNCHANGED <<run, attempts, head>>
    BY <1>5, SameReport
  <1>6. \/ \E h \in Handoffs : Execute(h)
        \/ \E r \in Runs : BeginPlain(r)
        \/ \E r \in Runs : EngineStep(r)
        \/ HandoffCrash
        \/ UNCHANGED <<run, attempts, head>>
    BY DEF HandoffNext, handoffVars, vars, store, Evaluate, ServiceStep, SaveRecord, EngineRaised,
           SaveReceipt, RunAgent, SaveRun, WriteFails, Rewrite, Tick
  <1> QED BY <1>1, <1>2, <1>3, <1>4, <1>5, <1>6

\* What a step makes of a handoff's receipt: it saves one, for a call that has finished,
\* begins anew, or leaves it.
LEMMA ReceiptMoves ==
    ASSUME HandoffTypeOK, [HandoffNext]_handoffVars, NEW h \in Handoffs
    PROVE  \/ "receipt" \notin hand'[h].saved
           \/ SaveReceipt(h)
           \/ /\ hand'[h].saved \cap {"receipt"} = hand[h].saved \cap {"receipt"}
              /\ hand'[h].decision = hand[h].decision /\ hand'[h].outcome = hand[h].outcome
  <1> DEFINE Left(k) == /\ hand'[k].saved \cap {"receipt"} = hand[k].saved \cap {"receipt"}
                        /\ hand'[k].decision = hand[k].decision /\ hand'[k].outcome = hand[k].outcome
  <1>1. hand \in [Handoffs -> Hand] /\ hand[h] \in Hand
    BY DEF HandoffTypeOK
  <1>2. ASSUME NEW k \in Handoffs, k # h,
               Evaluate(k) \/ ServiceStep(k) \/ WriteFails(k)
        PROVE  hand'[h] = hand[h]
    BY <1>1, <1>2 DEF Evaluate, ServiceStep, SaveRecord, Execute, EngineRaised, SaveReceipt, RunAgent,
                      SaveRun, WriteFails
  <1>3. CASE Evaluate(h)
    BY <1>1, <1>3 DEF Evaluate, NoHandoff
  <1>4. CASE \/ SaveRecord(h) \/ Execute(h) \/ EngineRaised(h) \/ RunAgent(h) \/ SaveRun(h) \/ WriteFails(h)
    <2>1. SUFFICES /\ hand'[h].saved \cap {"receipt"} = hand[h].saved \cap {"receipt"}
                   /\ hand'[h].decision = hand[h].decision /\ hand'[h].outcome = hand[h].outcome
      OBVIOUS
    <2>2. CASE RunAgent(h)
      <3>1. ASSUME NEW status \in {"succeeded", "failed"},
                   hand' = [hand EXCEPT ![h].pc = "answered", ![h].agent = status]
            PROVE  /\ hand'[h].saved = hand[h].saved
                   /\ hand'[h].decision = hand[h].decision /\ hand'[h].outcome = hand[h].outcome
        BY <1>1, <3>1 DEF Hand
      <3>2. CASE hand' = [hand EXCEPT ![h].pc = "raised"]
        BY <1>1, <3>2 DEF Hand
      <3> QED BY <2>2, <3>1, <3>2 DEF RunAgent
    <2>3. CASE SaveRecord(h) \/ SaveRun(h)
      BY <1>1, <2>3 DEF SaveRecord, SaveRun, Hand
    <2>4. CASE Execute(h)
      BY <1>1, <2>4 DEF Execute, Hand
    <2>5. CASE EngineRaised(h) \/ WriteFails(h)
      <3>1. CASE hand' = [hand EXCEPT ![h].pc = "raised"]
        BY <1>1, <3>1 DEF Hand
      <3> QED BY <2>5, <3>1 DEF EngineRaised, WriteFails
    <2> QED BY <1>4, <2>2, <2>3, <2>4, <2>5
  <1>5. CASE HandoffCrash
    BY <1>1, <1>5 DEF HandoffCrash, Hand
  <1>6. CASE hand' = hand
    BY <1>6
  <1>7. \/ \E k \in Handoffs : Evaluate(k) \/ ServiceStep(k) \/ WriteFails(k)
        \/ HandoffCrash
        \/ hand' = hand
    BY DEF HandoffNext, handoffVars, EngineStep, BeginPlain, Rewrite
  <1> QED BY <1>2, <1>3, <1>4, <1>5, <1>6, <1>7 DEF ServiceStep

LEMMA ReceiptKeeps ==
    ASSUME HandoffInv, ReceiptSound, [HandoffNext]_handoffVars
    PROVE  ReceiptSound'
  <1> SUFFICES ASSUME NEW h \in Handoffs, "receipt" \in hand'[h].saved
               PROVE  run'[h].pc = "done" /\ \A s \in Steps : Told(h, s)'
    BY DEF ReceiptSound
  <1>1. HandoffTypeOK /\ TypeOK /\ h \in Runs
    BY HandoffAssumption DEF HandoffInv, HandTyped, HandoffTypeOK
  <1>2. CASE SaveReceipt(h)
    <2>1. run[h].pc = "done" /\ run' = run /\ hand \in [Handoffs -> Hand]
      BY <1>1, <1>2 DEF SaveReceipt, vars, HandoffTypeOK
    <2>2. /\ hand'[h].outcome = [s \in Steps |-> Outcome(h, s)]
          /\ hand'[h].decision = hand[h].decision
      BY <1>2, <2>1 DEF SaveReceipt, Hand
    <2>3. ASSUME NEW s \in Steps PROVE Told(h, s)'
      BY <2>1, <2>2 DEF Told, Outcome, Blocking
    <2> QED BY <2>1, <2>3
  <1>3. CASE /\ hand'[h].saved \cap {"receipt"} = hand[h].saved \cap {"receipt"}
             /\ hand'[h].decision = hand[h].decision /\ hand'[h].outcome = hand[h].outcome
    <2>1. run[h].pc = "done" /\ \A s \in Steps : Told(h, s)
      BY <1>3 DEF ReceiptSound
    <2>2. run'[h] = run[h]
      BY <1>1, <2>1, DoneStays
    <2> QED BY <1>3, <2>1, <2>2 DEF Told
  <1> QED BY <1>1, <1>2, <1>3, ReceiptMoves

THEOREM ReceiptInvariantHolds == HandoffSpec => []ReceiptInv
  <1>1. HandoffInit => ReceiptInv
    BY InitReport DEF HandoffInit, ReceiptInv, ReceiptSound, NoHandoff
  <1>2. HandoffInv /\ ReceiptInv /\ [HandoffNext]_handoffVars => ReceiptInv'
    BY HandoffReport, ReceiptKeeps DEF ReceiptInv, HandoffInv
  <1> QED BY <1>1, <1>2, HandoffInvariantHolds, PTL DEF HandoffSpec

\* A receipt's outcome of a step that had to run again is what the store says of the call's
\* attempt, whatever failed, died or was damaged meanwhile (run, the finalized entries).
THEOREM ReceiptTruthHolds == HandoffSpec => []ReceiptTruth
  <1>1. HandoffInv /\ ReceiptInv => ReceiptTruth
    <2> SUFFICES ASSUME HandoffInv, ReceiptInv, NEW h \in Handoffs, NEW s \in Steps,
                        "receipt" \in hand[h].saved, hand[h].decision[s] = "rerun"
                 PROVE  attempts[<<h, s>>].status =
                          CASE hand[h].outcome[s] = "executed" -> "succeeded"
                            [] hand[h].outcome[s] = "failed" -> "failed"
                            [] hand[h].outcome[s] = "not_recorded" -> "absent"
      BY DEF ReceiptTruth
    <2>1. run[h].pc = "done" /\ Told(h, s) /\ h \in Runs
      BY HandoffAssumption DEF ReceiptInv, ReceiptSound
    <2>2. ReportMatchesStore
      BY ReportTold DEF HandoffInv, ReceiptInv
    <2>3. attempts[<<h, s>>].status =
            CASE run[h].decision[s] = "executed" -> "succeeded"
              [] run[h].decision[s] = "failed" -> "failed"
              [] OTHER -> "absent"
      BY <2>1, <2>2 DEF ReportMatchesStore
    <2>4. hand[h].outcome[s] = IF run[h].decision[s] \in {"executed", "failed"}
                               THEN run[h].decision[s] ELSE "not_recorded"
      BY <2>1 DEF Told
    <2> QED BY <2>3, <2>4
  <1> QED BY <1>1, HandoffInvariantHolds, ReceiptInvariantHolds, PTL

-----------------------------------------------------------------------------
(***************************************************************************)
(* What the engine promises, under the service.                            *)
(***************************************************************************)
LEMMA HandoffRefines ==
    ASSUME HandoffInv, [HandoffNext]_handoffVars
    PROVE  [Evaluation!Next]_(Evaluation!vars)
  <1>1. EngineInv
    BY DEF HandoffInv
  <1>2. CASE \E h \in Handoffs : Execute(h)
    <2>1. PICK h \in Handoffs : Execute(h)
      BY <1>2
    <2>2. h \in Runs /\ hand[h].request \in HandoffRequest
      BY <2>1, HandoffAssumption DEF Execute, HandoffInv, HandTyped
    <2>3. hand[h].request.inputs \in Requests
      BY <2>2 DEF HandoffRequest
    <2>4. Evaluation!Begin(h)
      BY <1>1, <2>1, <2>2, <2>3, BeginRefines DEF Execute
    <2> QED BY <2>2, <2>4 DEF Evaluation!Next
  <1>3. CASE \E r \in Runs : BeginPlain(r)
    BY <1>1, <1>3, BeginRefines DEF BeginPlain, Begin, Evaluation!Next
  <1>4. ASSUME NEW r \in Runs, EngineStep(r)
        PROVE  [Evaluation!Next]_(Evaluation!vars)
    <2>1. CASE Continue(r)
      BY <1>1, <2>1, ContinueRefines DEF Evaluation!Next
    <2>2. CASE LookupOfLost(r) \/ LookupRaises(r)
      BY <1>1, <2>2, GotoStutters DEF LookupOfLost, LookupRaises
    <2> QED BY <1>4, <2>1, <2>2 DEF EngineStep
  <1>5. CASE HandoffCrash /\ Crash
    BY <1>1, <1>5, CrashRefines
  <1>6. CASE run' = run /\ produced' = produced
    BY <1>6, Stutters
  <1>7. \/ \E h \in Handoffs : Execute(h)
        \/ \E r \in Runs : BeginPlain(r)
        \/ \E r \in Runs : EngineStep(r)
        \/ HandoffCrash /\ Crash
        \/ run' = run /\ produced' = produced
    BY DEF HandoffNext, handoffVars, vars, Evaluate, ServiceStep, SaveRecord, EngineRaised, SaveReceipt,
           RunAgent, SaveRun, WriteFails, HandoffCrash, Rewrite, Tick
  <1> QED BY <1>2, <1>3, <1>4, <1>5, <1>6, <1>7

\* Called by the service, over records others have damaged, the engine still implements
\* IncrementalEvaluation: each output a call reports was produced for the step's effective
\* input in that call (AgentHandoffService.run, execute).
THEOREM ServedEngineSound == HandoffSpec => SoundEvaluation
  <1>1. HandoffInit => Evaluation!Init
    BY InitRefines DEF HandoffInit
  <1>2. HandoffInv /\ [HandoffNext]_handoffVars => [Evaluation!Next]_(Evaluation!vars)
    BY HandoffRefines
  <1> QED BY <1>1, <1>2, HandoffInvariantHolds, PTL DEF HandoffSpec, SoundEvaluation, Evaluation!Spec

\* A success has its result, over damaged records too.
LEMMA HandoffSuccess ==
    ASSUME EngineInv, AttemptInv, SuccessSaved, [HandoffNext]_handoffVars
    PROVE  SuccessSaved'
  <1>1. CASE \E h \in Handoffs : Execute(h)
    BY <1>1, BeginSuccess, HandoffAssumption DEF Execute
  <1>2. CASE \E r \in Runs : BeginPlain(r)
    BY <1>2, BeginSuccess DEF BeginPlain, Begin
  <1>3. ASSUME NEW r \in Runs, EngineStep(r) PROVE SuccessSaved'
    <2>1. CASE Continue(r)
      BY <2>1, ContinueSuccess
    <2>2. CASE LookupOfLost(r) \/ LookupRaises(r)
      <3>1. PICK place \in {"looked_up", "raised"} : Goto(r, place) /\ work' = work /\ attempts' = attempts
        BY <2>2 DEF LookupOfLost, LookupRaises, store
      <3>2. \A q \in Runs : run'[q].pc = "result_saved" => run'[q] = run[q]
        BY <3>1 DEF Goto, EngineInv, TypeOK, Run
      <3> QED BY <3>1, <3>2, WorkIsKept, SuccessStays
    <2> QED BY <1>3, <2>1, <2>2 DEF EngineStep
  <1>4. CASE HandoffCrash /\ Crash
    BY <1>4, CrashSuccess
  <1>5. CASE UNCHANGED <<work, attempts, run>>
    BY <1>5, SameSuccess
  <1>6. \/ \E h \in Handoffs : Execute(h)
        \/ \E r \in Runs : BeginPlain(r)
        \/ \E r \in Runs : EngineStep(r)
        \/ HandoffCrash /\ Crash
        \/ UNCHANGED <<work, attempts, run>>
    BY DEF HandoffNext, handoffVars, vars, store, Evaluate, ServiceStep, SaveRecord, EngineRaised,
           SaveReceipt, RunAgent, SaveRun, WriteFails, HandoffCrash, Rewrite, Tick
  <1> QED BY <1>1, <1>2, <1>3, <1>4, <1>5, <1>6

\* What others do to records undoes neither attempts nor the agreement of results with
\* them: each result was left by an attempt for its very signature, each recorded success
\* has its result (the success block, the exception handler).
THEOREM ServedResultsAgree == HandoffSpec => []ResultsMatchAttempts
  <1>1. HandoffInit => SuccessSaved
    BY DEF HandoffInit, Init, SuccessSaved, NotBegun
  <1>2. HandoffInv /\ SuccessSaved /\ [HandoffNext]_handoffVars => SuccessSaved'
    BY HandoffSuccess DEF HandoffInv
  <1>3. HandoffInv /\ SuccessSaved => ResultsMatchAttempts
    BY DEF HandoffInv, AttemptInv, WorkAttempted, Attempted, SuccessSaved, ResultsMatchAttempts
  <1> QED BY <1>1, <1>2, <1>3, HandoffInvariantHolds, PTL DEF HandoffSpec

\* Damaged records, failing writes and crashes of the service included, an active attempt or
\* a head is of a call at that step or lost there, and a finished call's report agrees with
\* its attempts (execute, run).
THEOREM ServedCallsTold == HandoffSpec => [](OnlyLostCallsLinger /\ ReportMatchesStore)
  <1>1. HandoffInv /\ ReceiptInv => OnlyLostCallsLinger /\ ReportMatchesStore
    BY OnlyLost, ReportTold DEF HandoffInv, ReceiptInv
  <1> QED BY <1>1, HandoffInvariantHolds, ReceiptInvariantHolds, PTL
=============================================================================
