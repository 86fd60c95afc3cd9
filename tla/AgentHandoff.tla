---------------------------- MODULE AgentHandoff -----------------------------
(***************************************************************************)
(* AgentHandoffService.run of delta/agents/__init__.py: the gate, then the    *)
(* engine on the same request, then the receipt, then the receiving agent.    *)
(* Several handoffs and plain calls of the engine share one store; others     *)
(* rewrite its records meanwhile.                                          *)
(***************************************************************************)
EXTENDS HandoffGate

CONSTANTS
    Handoffs,   \* the calls of the engine that the service makes
    Rewrites    \* what others make of records here: subset of Marks

ASSUME HandoffAssumption ==
    /\ Handoffs \subseteq Runs
    /\ \A h \in Handoffs : Principal[h] # None
    /\ Rewrites \subseteq Marks \ {"plain"}

VARIABLE hand   \* the calls of the service

handoffVars == <<vars, mark, hand>>

-----------------------------------------------------------------------------
Places == {"idle", "gated", "recorded", "executing", "receipted", "answered",
           "done", "raised", "crashed"}
Outcomes == {"none", "reused", "blocked", "pending_dependency", "executed", "failed", "not_recorded"}

Hand == [pc: Places, request: HandoffRequest \cup {None}, at: Nat,
         context: [Steps -> Outputs \cup {None}],
         decision: [Steps -> Decided \cup {"none"}],
         outcome: [Steps -> Outcomes],             \* of the receipt, once saved
         saved: SUBSET {"record", "receipt", "run"},
         agent: {"none", "succeeded", "failed"}]

HandoffTypeOK ==
    /\ TypeOK
    /\ mark \in [Signatures -> Marks]
    /\ hand \in [Handoffs -> Hand]

NoHandoff == [pc |-> "idle", request |-> None, at |-> 0,
              context |-> [s \in Steps |-> None], decision |-> [s \in Steps |-> "none"],
              outcome |-> [s \in Steps |-> "none"], saved |-> {}, agent |-> "none"]

HandoffInit ==
    /\ Init
    /\ mark = [g \in Signatures |-> "plain"]
    /\ hand = [h \in Handoffs |-> NoHandoff]

Underway(h) == hand[h].pc \notin {"idle", "done", "raised", "crashed"}

-----------------------------------------------------------------------------
\* HandoffGate.evaluate.  Its two listings of the store are one read here: they differ
\* in effect only for a record both saved and damaged between them.
Evaluate(h) ==
    /\ hand[h].pc = "idle"
    /\ \E inputs \in Requests, policies \in PolicySets, context \in [Steps -> Outputs \cup {None}],
          fallback \in [Steps -> Signatures \cup {None}] :
         LET request == [inputs |-> inputs, recipient |-> Principal[h], policies |-> policies] IN
         /\ \A s \in Steps : IF Latest(s) = {} THEN fallback[s] = None ELSE fallback[s] \in Latest(s)
         /\ Builds(request, context, fallback, now)
         /\ hand' = [hand EXCEPT ![h] =
              [NoHandoff EXCEPT !.pc = "gated", !.request = request, !.at = now, !.context = context,
                 !.decision = [s \in Steps |-> Decision(request, context, fallback, now, s)]]]
    /\ UNCHANGED <<vars, mark>>

\* save_handoff_record.  The sessions saved after it are read by nobody here, but a
\* write of one may fail like any other.
SaveRecord(h) ==
    /\ hand[h].pc = "gated"
    /\ hand' = [hand EXCEPT ![h].pc = "recorded", ![h].saved = @ \cup {"record"}]
    /\ UNCHANGED <<vars, mark>>

\* The engine is called for the whole request, at the time the gate used.
Execute(h) ==
    /\ hand[h].pc = "recorded"
    /\ BeginAt(h, hand[h].request.inputs, hand[h].at)
    /\ hand' = [hand EXCEPT ![h].pc = "executing"]
    /\ UNCHANGED mark

\* Mutant: a step that had to run is reported as executed.
OutcomeAssumed(h, s) ==
    CASE hand[h].decision[s] = "reuse" -> "reused"
      [] hand[h].decision[s] \in Blocking -> "blocked"
      [] hand[h].decision[s] = "pending" -> "pending_dependency"
      [] OTHER -> "executed"

\* Mutant: the engine's decision is copied into the receipt.
OutcomeCopied(h, s) ==
    CASE hand[h].decision[s] = "reuse" -> "reused"
      [] hand[h].decision[s] \in Blocking -> "blocked"
      [] hand[h].decision[s] = "pending" -> "pending_dependency"
      [] OTHER -> run[h].decision[s]

\* The outcome of a receipt entry: the engine's report counts only for steps the gate
\* wanted rerun.
Outcome(h, s) ==
    CASE hand[h].decision[s] = "reuse" -> "reused"
      [] hand[h].decision[s] \in Blocking -> "blocked"
      [] hand[h].decision[s] = "pending" -> "pending_dependency"
      [] OTHER -> IF run[h].decision[s] \in {"executed", "failed"}
                  THEN run[h].decision[s] ELSE "not_recorded"

\* Mutant: a receipt is finalized only when every step has an output.
SaveReceiptIfComplete(h) ==
    /\ hand[h].pc = "executing"
    /\ run[h].pc = "done"
    /\ \A s \in Steps : run[h].outputs[s] # None
    /\ hand' = [hand EXCEPT ![h].pc = "receipted", ![h].saved = @ \cup {"receipt"},
                            ![h].outcome = [s \in Steps |-> Outcome(h, s)]]
    /\ UNCHANGED <<vars, mark>>

\* save_reuse_receipt, after the engine has returned
SaveReceipt(h) ==
    /\ hand[h].pc = "executing"
    /\ run[h].pc = "done"
    /\ hand' = [hand EXCEPT ![h].pc = "receipted", ![h].saved = @ \cup {"receipt"},
                            ![h].outcome = [s \in Steps |-> Outcome(h, s)]]
    /\ UNCHANGED <<vars, mark>>

\* The agent is given the context.  It answers, or it or its answer is at fault; any other
\* exception of a runner goes through the service.
RunAgent(h) ==
    /\ hand[h].pc = "receipted"
    /\ \/ \E status \in {"succeeded", "failed"} :
            hand' = [hand EXCEPT ![h].pc = "answered", ![h].agent = status]
       \/ hand' = [hand EXCEPT ![h].pc = "raised"]
    /\ UNCHANGED <<vars, mark>>

\* save_agent_run
SaveRun(h) ==
    /\ hand[h].pc = "answered"
    /\ hand' = [hand EXCEPT ![h].pc = "done", ![h].saved = @ \cup {"run"}]
    /\ UNCHANGED <<vars, mark>>

\* What the engine raises, the service raises.
EngineRaised(h) ==
    /\ hand[h].pc = "executing"
    /\ run[h].pc = "raised"
    /\ hand' = [hand EXCEPT ![h].pc = "raised"]
    /\ UNCHANGED <<vars, mark>>

\* A write of the service raises.
WriteFails(h) ==
    /\ "store_failure" \in Environment
    /\ hand[h].pc \in {"gated", "recorded", "answered"} \/ (hand[h].pc = "executing" /\ run[h].pc = "done")
    /\ hand' = [hand EXCEPT ![h].pc = "raised"]
    /\ UNCHANGED <<vars, mark>>

-----------------------------------------------------------------------------
\* The engine over records others may have rewritten: a lost artifact does not match,
\* an undecodable record makes the lookup raise, a saved result replaces the record.
Looks(r) == run[r].pc = "resolve" /\ Resolved(r, StepOf(r))

LookupOfLost(r) ==
    /\ Looks(r) /\ mark[SignatureOf(r, StepOf(r))] = "artifact_lost"
    /\ Goto(r, "looked_up")
    /\ UNCHANGED <<store, now, produced>>

LookupRaises(r) ==
    /\ Looks(r) /\ mark[SignatureOf(r, StepOf(r))] = "undecodable"
    /\ Goto(r, "raised")
    /\ UNCHANGED <<store, now, produced>>

EngineStep(r) ==
    /\ \/ /\ Looks(r) => mark[SignatureOf(r, StepOf(r))] \notin {"artifact_lost", "undecodable"}
          /\ Continue(r)
       \/ LookupOfLost(r)
       \/ LookupRaises(r)
    /\ mark' = [g \in Signatures |-> IF work'[g] = work[g] THEN mark[g] ELSE "plain"]
    /\ UNCHANGED hand

\* A call of the engine outside the service
BeginPlain(r) == r \notin Handoffs /\ Begin(r) /\ UNCHANGED <<mark, hand>>

\* Another program rewrites a record, with the provenance it has (external).
Rewrite(g) ==
    /\ work[g] # None
    /\ \E m \in Rewrites :
         /\ mark[g] = "plain" \/ (mark[g] = "job_open" /\ m = "job_settled")
         /\ m \in {"job_open", "job_settled"} => Provenance(g) # None
         /\ mark' = [mark EXCEPT ![g] = m]
    /\ UNCHANGED <<vars, hand>>

HandoffCrash ==
    /\ "crash" \in Environment
    /\ Crash \/ ((\A r \in Runs : ~ Begun(r)) /\ (\E h \in Handoffs : Underway(h)) /\ UNCHANGED vars)
    /\ hand' = [h \in Handoffs |-> IF Underway(h) THEN [hand[h] EXCEPT !.pc = "crashed"] ELSE hand[h]]
    /\ UNCHANGED mark

ServiceStep(h) ==
    SaveRecord(h) \/ Execute(h) \/ EngineRaised(h) \/ SaveReceipt(h) \/ RunAgent(h) \/ SaveRun(h)

HandoffNext ==
    \/ \E h \in Handoffs : Evaluate(h) \/ ServiceStep(h) \/ WriteFails(h)
    \/ \E r \in Runs : BeginPlain(r) \/ EngineStep(r)
    \/ \E g \in Signatures : Rewrite(g)
    \/ HandoffCrash
    \/ Tick /\ UNCHANGED <<mark, hand>>

HandoffSpec == HandoffInit /\ [][HandoffNext]_handoffVars

\* A request's thread goes on, through the service and through the engine.
FairHandoffSpec ==
    /\ HandoffSpec
    /\ \A h \in Handoffs : WF_handoffVars(ServiceStep(h))
    /\ \A r \in Runs : WF_handoffVars(EngineStep(r))
-----------------------------------------------------------------------------
\* Whether the policy lets the recipient have work of this step from this source at all
MayHave(request, s, source) ==
    /\ Declaration[s] # None /\ source # None
    /\ LET policy == request.policies[Declaration[s].category] IN
       /\ policy # None
       /\ policy.here /\ request.recipient.agent \in policy.agents
       /\ policy.shareable_only => Declaration[s].shareable
       /\ ProviderRuleHolds(policy, request.recipient, source)

\* Nothing reaches the agent unless the policy lets it have both that output and the
\* outputs it was computed from, each from a call that attempted exactly this work;
\* so, step by step, of everything it derives from (evaluate, ApprovedContext).
ContextPermitted ==
    \A h \in Handoffs, s \in Steps : hand[h].context[s] # None =>
        \A d \in {s} \cup Deps[s] :
            /\ hand[h].context[d] # None
            /\ \E p \in Runs :
                 /\ MayHave(hand[h].request, d, Principal[p])
                 /\ attempts[<<p, d>>].sig = Wanted(hand[h].request, hand[h].context, d)

\* Every output in a context was produced by an executor for the input its step has
\* under this request and context, whatever became of the records since.
ContextProduced ==
    \A h \in Handoffs, s \in Steps : hand[h].context[s] # None =>
        <<Wanted(hand[h].request, hand[h].context, s), hand[h].context[s]>> \in produced

\* Whatever records a request meets, each decision on it agrees with its verdicts: else
\* evaluate raises, and no part of the handoff is made (_decide, approves_inheritance).
GateConsistent ==
    \A h \in Handoffs, s \in Steps : hand[h].pc = "gated" =>
        \A c \in {None} \cup {g \in Signatures : g.step = s /\ Decodable(g)} :
            LET v == VerdictsFor(hand[h].request, hand[h].context, c, hand[h].at, s)
            IN Constructible(DecisionOn(v), v)

\* A receipt's outcome of a step the gate wanted rerun is what the store says of the
\* attempt the call made for it, if it made one (run, the finalized entries).
ReceiptTruth ==
    \A h \in Handoffs, s \in Steps :
        "receipt" \in hand[h].saved /\ hand[h].decision[s] = "rerun" =>
            attempts[<<h, s>>].status =
                CASE hand[h].outcome[s] = "executed" -> "succeeded"
                  [] hand[h].outcome[s] = "failed" -> "failed"
                  [] hand[h].outcome[s] = "not_recorded" -> "absent"

\* A handoff that has passed the gate comes to an end, whatever executors, the agent
\* and other programs do (run).
HandoffsEnd == \A h \in Handoffs : Underway(h) ~> hand[h].pc \in {"done", "raised", "crashed"}

\* A step the gate blocks because its paid job is open is not run again in the handoff
\* (_decide's order of verdicts).
OpenJobNotRerun ==
    [][\A h \in Handoffs : StartAttempt(h) => hand[h].decision[StepOf(h)] # "job_open"]_handoffVars
=============================================================================
