# A verification model of Delta-Agent

Delta re-runs a workflow after its inputs change: it reuses the persisted
results that still answer a step's effective input, executes the rest, and, for
work it buys from an ACP provider, keeps enough on record that a crash or a lost
answer does not buy it twice. This directory holds TLA+ modules of the parts
where order, failure and concurrency decide whether that is true, the TLC
configurations that check them on small instances, and TLAPS proofs for every
instance. Paths are relative to `src/`; `execute.py`, `acp.py`, `core.py` and
`store.py` stand for `delta/execute.py`, `delta/providers/acp.py`,
`delta/core.py` and `delta/store.py`.

## The system

| component | state it keeps | operations | hard behaviour | what makes it correct |
|---|---|---|---|---|
| ACP adapter, `acp.py` | attempts and artifact references (Sibyl WARM, REFERENCE), one active-attempt head per step (HOT) | `create_job`, `fund_job`, `complete_job`, `reject_job`, `reconcile_attempt`, `record_observation`, `finalize_completed_work` | intent, command and outcome are separate writes; the command runs outside the lock, may time out, fail or take effect unseen; crash at any point | at most one live job per input, a live job is found again, only verified output becomes reusable |
| spend ledger and approvals, `acp.py`, `core.py` | committed total and reservations per plan (HOT) | `reserve`, `validate_spend_approval` | retries, several callers, expiry | counted once, never above the cap, reserved before the command |
| execution engine, `execute.py` | work results, attempts, heads | `execute`, `preview` | several threads in one store; crash or failing write between result, attempt and head; failing executors; results that grow stale | a reused output answers the step's input; no two calls execute the same work at once; store and report agree |
| workflow core, `core.py` | none | ordering, binding resolution, signatures, matching, `build_revision_plan` | partial outputs, optional inputs | the plan predicts the execution |
| Sibyl store, `store.py` | every record | save, get, list, reset | corrupt records, partial reset | scopes do not mix, a reset leaves nothing behind |
| handoff gate, `delta/handoff.py` | receipts | `evaluate`, `persist` | five verdicts per candidate, in an order of precedence, read from a store that changes | nothing is inherited unless every verdict approves, nor anything computed from what is not |
| agent handoff, `delta/agents/` | sessions, runs | `AgentHandoffService.run` | gate and engine work from different reads | the receipt tells what happened |
| demo session and web, `delta/session.py`, `delta/web.py` | cookie generations, scenario markers | session, handoff, reset, preview, execute, agent run | tabs, lost and reordered answers, a reset during a run, a plan grown stale | a retired generation is never current again, in the store or in the browser; what runs is the plan that was shown |
| artifacts, demo, fixtures, baseline, scripts | files | input and output | none of order | not modelled |

They interact through the store only: the engine and the adapter write the same
attempts and heads (an attempt's `provider_job_id` tells them apart), the gate
reads what both wrote, the agent handoff calls gate and engine in turn, and the
web application calls all of them from request threads. The locks
`_ACP_ACTION_LOCK` (`acp.py:751`), `ACPSpendLedger._lock`, `_EXECUTION_LOCK`
(`execute.py:42`) and `_RESET_LOCK` (`web.py:42`) live in one process, and the
documents claim no more (MASTER_PLAN.md:686, SECURITY.md:241).

`PROJECT.json` lists the hazards, each at its line with the properties that
would show it going wrong.

## Modules

| module | models |
|---|---|
| `ACPAdapter` | the adapter, ledger and approvals, with the provider and the commands in flight |
| `PaidWork` | what the adapter promises, with neither attempts nor calls, commands or crashes |
| `MCACPAdapter` | instances of the adapter for TLC |
| `ACPAdapterProofs` | the adapter's theorems, and that it implements `PaidWork` |
| `IncrementalEvaluation` | what the engine promises, with neither store nor attempts |
| `DeltaEngine` | the engine, and that it implements `IncrementalEvaluation` |
| `MCDeltaEngine` | instances of it for TLC |
| `DeltaEngineProofs` | its types and the refinement |
| `EngineReportProofs` | theorems on its reports, attempts and heads |
| `EngineAttemptProofs` | theorems on its results and the attempts that left them |
| `RevisionPlan` | `build_revision_plan` and the preview and execute routes, over the engine |
| `MCRevisionPlan` | instances of it for TLC |
| `RevisionPlanProofs` | its theorems |
| `HandoffVerdicts` | the five verdicts of a step, the decision they lead to, the check a decision makes of itself |
| `HandoffGate` | the gate's verdicts, decisions and context, over the engine's store |
| `AgentHandoff` | a handoff of the agent service, over the gate and the engine |
| `MCAgentHandoff` | instances of it for TLC |
| `AgentHandoffProofs` | its theorems |
| `Reconciliation` | `match_reconciliation_candidates` and `reconcile_funding`, as functions |
| `ReconciliationProofs` | its theorems |
| `DemoScenario` | the scenario routes, their cookie and markers, between the tabs of one browser |
| `MCDemoScenario` | instances of it for TLC |
| `DemoScenarioProofs` | its theorems |

`AgentHandoff` extends `HandoffGate`, which extends `DeltaEngine` and
`HandoffVerdicts`; `RevisionPlan` extends `DeltaEngine`. `ACPAdapter`,
`Reconciliation` and `DemoScenario` stand alone.

### ACPAdapter

A caller is a thread in one adapter operation. `Begin` is the part of
`create_job` and `_paid_action` up to the authorization, under the lock; then
`Reserve`, `SaveIntent` (first write of `_persist_intent`) and `SendCommand` (its
second write, the release of the lock, the start of the command). A command is in
`net` until the provider acts on it, which it may do long after the caller has
timed out. `CommandSucceeds`, `CommandFails` and `CommandAmbiguous` are the three
classes of outcomes that `run_json` and its callers tell apart; an unreadable
create response and one that names another provider or offering count as
ambiguous, as in the code. `_mark_attempt`, which takes no lock, is `MarkReads`,
its read of the attempt, and `MarkAttempt` and `MarkHead`, its two writes; the first
writes what was read, whatever came between. `ObservationReads`,
`RecordObservation` and `ObservationHead` are the same of `record_observation` with
`_persist_reconciliation`; `FinalizeVerified`, `SaveWorkResult`, `SaveSucceeded` and `ClearHead` for
`finalize_completed_work`, whose attempt is written from the copy read before
the checks. `Crash` loses every call and the lock and leaves store and provider.

Abstractions. A signature is a model value that stands for the step's effective
input and for the requirements sent with it, since callers derive one from the
other; an attempt id is used for one signature only. Provider, offering, chain
and currency are fixed per plan; a history that contradicts them is one
Boolean, `conflict`. Job states that the adapter treats alike are one state
(`open` with `budget_set`, `funded` with `submitted`). The chain and deliverable
evidence handed to finalization is correct for the job it is about. A fund or
complete command addresses a job created for the same input, as the operator
script `scripts/live_acp_validation.py` sees to; a `complete` names the amount it
reserves. A call that raises before its first write is not a step. Events are
not modelled: nothing reads them back.

`Environment` names the adverse things an instance allows, so that a run can say
which of them it depends on. They are described at its definition.

`PaidWork` says what a user of the adapter may rely on: a job is opened, funded and
completed only with a reservation for that very input and action, within the cap; an
input has at most one live job; and the result handed out for an input is a
completed job of its own. Reservations are mapped from the ledger's entries
(`ReservedFor`), jobs from the provider's (`StatusOfJobs`, `AskerOfJobs`), results from
the reusable work (`ResultJobs`). Attempts, heads and calls are not in it, so every
step of them is a stutter, a crash too.

### DeltaEngine and IncrementalEvaluation

A run is a call of `execute`. It is split where another thread or a crash can
come between: after the lookup (`LookupMisses`), around the executor
(`ExecutorReturns`, `ExecutorRaises`), and between all writes of the three
blocks under the lock: `StartAttempt`, `StartHead`; `SaveResult`, `SaveSuccess`,
`ReleaseAfterSuccess`; `SaveFailure`, `ReleaseAfterFailure`. `Unresolved`, `Reuse`
and `Blocked` decide a step without executing it. `StoreFails` is a store
operation that raises, before or (for the event that ends a block) after the
head is written: in the success block it leads to the handler, anywhere else
out of `execute`. `Tick` lets results grow stale; freshness is judged by the time
the call began, as in the code. `Next` has all of this; `CallsNext` is what calls do
among themselves while their writes succeed and the process lives.

A signature is the record of what is hashed: the step, its request value, the
outputs of its dependencies. Implementation and workflow versions are fixed.
The plan that `execute` saves by itself is read by nobody here. `produced` is an
observer: it takes no part in any guard, and records for which signature an
executor produced which output.

`IncrementalEvaluation` says what a caller may rely on: each run evaluates the
workflow for its own request, and the output it uses for a step was produced by
an executor for exactly the effective input that step has in that run. Its
variables are mapped from `run` and `produced`.

### RevisionPlan

A plan is a function from steps to the outputs it reuses: `Follows` is what
`build_revision_plan` computes, as the one function that satisfies its loop at
every step. `PlanOf` is what the plan's id hashes. `Preview` shows a plan and keeps
its id on the page; `Admit` is `_handle_execute` up to the engine, which makes the
preview again and compares the ids, `StartPlanned` the call of the engine. The
split between them is what another thread, or the clock, may use. `admitted` is an
observer of the records the comparison was made on, `changed` of the steps whose planned
record was another when the run came to them. That is noted before the run saves
anything for the step, so only what other calls save can excuse it from its plan.

### Reconciliation

`Plausible` are the records of a provider's history that contradict nothing of the
intent, `Match` the decision of `match_reconciliation_candidates` on them,
`FundingOf` that of `reconcile_funding`. Addresses are compared in lower case
(`Lower`), a record may leave out its provider, offering or requirements, and a
durable job id decides before anything else, as in the code. The promises do not
refer to these predicates: `Faithful` says, fact by fact, that there is a job which both
the record and the intent tell of (`Tells`), whether they name a fact or leave it out.
`MCACPAdapter` evaluates the promises over histories of at most two records in every
run, `ReconciliationProofs` proves them of all.

### DemoScenario

A tab has at most one request, which works with the cookie as it was when sent
(`session`) and is split at every write: `Admit`, `Write`, `SaveMarker` for the first
opening, `Process`, `Write`, `AnswerProcessed` for a handoff or an agent run,
`BeginReset`, `Retire`, `DeleteKind`, `ResetHeads`, `Write`, `AnswerReset` for a
reset, which holds `_RESET_LOCK` from the first to the last. `Deliver` is the
browser: it takes the whole cookie of an answer and shows the generation it names.
`StoreFails` stands for whatever raises in a handler, `LoseAnswer` for an answer
that does not arrive, `Crash` for the process. `main` serves one request at a time
(`wsgiref`), but `app.py` hands the application to a host that may serve several,
and the lock says that threads are meant to be possible.

Abstractions. The four steps of a scenario's workflow are one, so an engine's
writes are one plan, attempt, head and result. A scope's records are the kinds
there are of them. Generations are random identifiers: `Fresh` draws one not in
use, and a page sends a request only while one is left for every request under
way, which bounds the run and nothing else. Logging out also stands for the
cookie's expiry. A page belongs to one login: pages of an earlier workspace, whose
CSRF token the server refuses, are left out, so each run has one workspace.
`cut` and `overlapped` are observers.

### HandoffVerdicts, HandoffGate and AgentHandoff

`HandoffVerdicts` has the verdicts a gate can reach and nothing else. `DecideOn` is
`_decide`, in its order; `Constructible` is what `HandoffDecision` checks of itself
when it is built; `PendingVerdicts`, `NoCandidateVerdicts` and
`UndecodableVerdicts` are the records the gate builds where there is nothing to
judge.

`HandoffGate` extends `DeltaEngine` by what the gate reads and has no action: it
only reads. `Decision` is the body of `evaluate`'s loop, `VerdictsOn` the verdicts on
one candidate, `VerdictsFor` those on whatever the step has. `Candidate` is the
record under the wanted signature, or else the latest one of the step.
`Builds` says what the loop leaves behind: it visits the steps in topological
order, so the context is the one that agrees with `Inherited` at every step.

`mark` is what others have made of a record: a settled or open job attached to
it, its artifact lost, no provenance, or not decodable any more. `AgentHandoff!
Rewrite` sets it, `EngineStep` resets it when a result is saved anew. In this
repository the engine never attaches a job and only other programs damage
records, so `Rewrite` is external, and one mark per record is enough to reach
every verdict.

`AgentHandoff` is `AgentHandoffService.run`: `Evaluate`, `SaveRecord`, `Execute`
(the call of the engine, at the gate's time), `SaveReceipt`, `RunAgent`, `SaveRun`,
with `EngineRaised` and `WriteFails` for what raises out of it. A runner answers, raises
an `AgentRunnerError`, which is recorded as a failed run, or raises something else,
which ends the service's call without one (`delta/agents/__init__.py:437`). `EngineStep` is
`DeltaEngine!Continue` with the two ways in which a damaged record changes it:
`LookupOfLost` (`WorkResult.matches` is false) and `LookupRaises` (`get_work_result`
raises). `BeginPlain` is a call of the engine by the web application.

Abstractions. The gate's two listings of the store are one read; they differ in
effect only if a record is saved and damaged between them. Both scopes of a
policy are the one Boolean `here`. Results completed at the same time are told
apart by a hash in the code: here any may be the latest. Agent sessions are read
by nobody; a write of one may fail where the next write may. Costs, reasons,
evidence and identifiers of receipts are left out.

## What is checked

| run | instance | shows |
|---|---|---|
| `acp_exclusive` | 1 thread, 2 attempts of one input, 2 jobs, every paid action, amounts of 1, cap 3; crash, failed creations, jobs that end, expiry | `TypeOK`, `LedgerBalanced`, `CapRespected`, `DurableIntent`, `AtMostOneLiveJob`, `LiveJobBlocksReplacement`, `SpendsInForce`, `PaidWorkKept` |
| `acp_concurrent` | 2 threads, create and fund, fairness, no symmetry | `AtMostOneLiveJob`, `LiveJobBlocksReplacement`, `CallsReturn`, `SubmittingResolves` |
| `acp_observed` | 2 threads, 2 inputs of one step with an attempt each, 1 job, create, fund and complete; crash, direct observations, conflicting histories | `VerifiedReuse`, `PaidResultKept` |
| `engine_recovery` | 1 call started from a shown plan and 1 plain call of announcement and translation, 2 requests, 2 outputs, a result that lives 1 tick, clock to 1; crash, executor and store failures | `PlanTypeOK`, `ResultsMatchAttempts`, `OnlyLostCallsLinger`, `ReportMatchesStore`, `PreviewSound`, `PlanKept`, `SoundEvaluation` |
| `engine_calls` | 3 calls of the same workflow, one output, executor failures, fairness | `ExclusiveExecution`, `ResultsSucceeded`, `CallsEnd` |
| `handoff_records` | notes (internal) and a summary of them (shareable), a producer and one handoff to an agent of another provider, 2 requests, 3 policy sets (same provider, by lists, lenient), notes that live 1 tick; settled and open jobs, lost provenance, undecodable records | `HandoffTypeOK`, `ContextPermitted`, `ContextProduced`, `GateConsistent` |
| `handoff_failures` | the same with one provider, request and policy set; crash, executor and store failures, lost artifacts, undecodable records, fairness | `ReceiptTruth`, `HandoffsEnd` |
| `demo_reset` | 2 tabs of one scenario, 3 generations, every route; crash, failing store, lost answers | `DemoTypeOK`, `InitializedHasWork`, `OneSuccessor`, `CookieCurrent`, `ErasedUnlessOverlapped`, `RetiredStaysRetired` |

Bounds. A duplicate needs two attempts and two jobs; a cap that two
reservations fit and a third or fourth exceeds needs a total of 3, since two
attempts reserve creation and funding each. Two inputs are the least that can be
mixed up, two threads the least that can race. The engine's workflow has one
dependency, the least for an output that changes under a later step; three runs
allow a check, an execution and a failure at once. One planned and one plain call
are the least for a plan that another call overtakes.
The handoff runs take the repository's own scenario (`delta/scenarios.py`): a
private step and a shareable one computed from it are the least for content that
could cross inside other content, one producer and one handoff the least for a
gate and an engine that see different records. Producer and recipient have different
providers where the question is what crosses, so that each rule on providers both
permits and refuses something, and the same one where it is what is told, so that
there is something to tell. Lost artifacts and failures are in the second run only:
to the gate a lost artifact is one more reason why a record does not match.
One job is enough for `acp_observed`, whose hazard is the order of the writes of one
finalization against other calls on that attempt, and an attempt of another input beside
it; the cap of 3 lets that job be created, funded and completed.
Two tabs are the least for two requests of one scenario; three generations allow a
first opening and two resets, or two of either at once. `AmplePlan` takes the ledger
out of the way in `acp_adopted_job`. Symmetry is used only in runs
without temporal properties, over names nothing depends on (`demo_reset`'s action property is about single steps and
symmetric in those names); where attempts
ask for different inputs, an attempt changes places together with its input
(`MCPairSymmetry`).

`CHECK_DEADLOCK FALSE` throughout: a system whose calls have all ended, or which
has used all its attempts, really stops.

Fairness. `FairSpec` and `CallsSpec` are weak fairness of what a started call does by
itself (`Continue`, `Proceed`), one condition per thread: a thread that runs goes on, `run_json`
has a timeout, so a command returns or is ambiguous, and an executor returns or
raises (for a blocking executor this is an assumption). Nothing is assumed fair
of providers, operators, crashes or the clock. `FairHandoffSpec`
adds, for each handoff, weak fairness of what the service does next, and leaves
out `WriteFails`; `HandoffsEnd` counts a crash as an end, the other two runs with
liveness have none, since a call that dies does not return. `DemoScenario` claims no
liveness: requests block on the reset lock only, and nothing retries. `acp_concurrent` has no failing
commands because its two safety properties do not survive them (below).

### Disagreements found

Four runs expect a violation; TLC's counterexample is the evidence.

* `acp_fund_failure`, `AtMostOneLiveJob`: a fund command that exits nonzero marks
  the attempt failed and clears the head (`acp.py:1262`, `:1342`) while the job
  stays open; a second job is created. MASTER_PLAN.md:670 and :696.
* `acp_adopted_job`, `VerifiedReuse`: `_paid_action` rewrites the attempt without
  job id and requirements (`acp.py:1250`, `:1305`). An observation of a job that
  belongs to another input of the step is then accepted and its output finalized
  as the answer to this one. SECURITY.md:233, `acp.py:1008`.
* `handoff_open_job`, `OpenJobNotRerun`: the service calls the engine for the whole
  request (`delta/agents/__init__.py:384`), and the engine knows nothing of the
  gate's decisions or of jobs. A step blocked because its paid job is open is
  executed if its record has grown stale, and the job reference is overwritten.
  `delta/handoff.py:1358`.
* `demo_cookie`, `CookieCurrent`: every answer that assigns a generation sets the
  whole cookie, with the generations of all scenarios as they were when its request
  was sent (`delta/session.py:67`, `delta/web.py:337`). When a tab resets one scenario
  while the first opening of another is under way, the later answer restores the
  retired generation in the browser; from then on every request for that scenario is
  refused, a reset too (`delta/web.py:382`). DESIGN.md:103 says a reset affects the
  selected scenario only. Answers that arrive in another order than they were given
  suffice, also with a server that handles one request at a time.

### Limits of the properties

These were met while modelling and are kept out of the passing runs; those that name
a property can be reproduced by changing a constant in a configuration.

* A failed create command that took effect (`silent_effect`) frees the head
  while a job lives, although SECURITY.md:207 says not to infer "not submitted"
  from local failure: `AtMostOneLiveJob` fails with `create_failure` and
  `silent_effect`.
* A conflicting observation makes the attempt `blocked`, which does not block
  (`acp.py:752`, `:976`): with `conflicting_history` a live job is replaced.
* Heads are cleared outside the lock, without a look at what they name by then. Three
  writes do so late. `_mark_attempt` writes the attempt and then the head (`acp.py:1341`,
  `:1342`): once an attempt whose creation failed reads so, another thread may create a
  job and take the head, which the late write clears, and the next creation opens a
  second job, against MASTER_PLAN.md:696 and :698; `acp_concurrent` with `create_failure`
  shows it for `AtMostOneLiveJob`. An observation of a job that ended does the same
  (`acp.py:1364`; `acp_concurrent` with `job_ends`, `LiveJobBlocksReplacement`), and so
  does the end of a finalization, when its attempt is used for a new creation in between
  (`acp.py:1104`; `acp_concurrent` with `complete` among its `PaidActions`,
  `LiveJobBlocksReplacement`).
* One head serves all inputs of a step (`store.py:452`): with two signatures
  `LiveJobBlocksReplacement` fails. `ExclusiveExecution` is claimed for calls whose
  writes succeed and whose steps have one input. With two requests (`TwoRequests` and two
  `Inputs` in `engine_calls`), a call for another input takes the head of a step being executed
  (`execute.py:338` looks at no other attempt), and a third call executes the first
  one's work beside it, although SECURITY.md:243 speaks of local requests that act on
  the same step. And when a write fails after a success is recorded (`Spec` and
  `store_failure` in `engine_calls`, without its liveness), the handler takes the lock
  anew (`execute.py:280`) and clears a head that a second call may have taken meanwhile,
  so that a third finds the step free.
* A known reservation id passes whatever amount comes with it (`acp.py:812`), so
  `CapRespected` bounds reservations, not payments.
* Lookup and start of an attempt are not one step (`execute.py:138`, `:187`), and
  `_start_attempt` looks again only for an active attempt: overlapping calls may
  execute the same work one after the other. `IncrementalEvaluation` allows it;
  `ExclusiveExecution` excludes only that they do so at the same time.
  `tests/test_phase3_execution.py:221` covers the schedule in which the first is
  still active.
* With crashes or failing writes a reusable result may belong to an attempt that
  is active or failed (MASTER_PLAN.md:497): `ResultsSucceeded` is claimed without
  them. What remains with them is `ResultsMatchAttempts`. A dead executor's head blocks its step for good; `OnlyLostCallsLinger`, with
  crashes and failing writes, says that nothing else leaves one.
* A run may differ from the plan the route let through when a record is saved or
  grows stale in between (`delta/web.py:564`): `PlanKept` names that as the only reason.
* A reset deletes the records of one workflow, and the payloads of agent sessions and
  runs name none (`delta/agents/__init__.py:146`, `store.py:745`): they stay, although
  the reset lists their kinds. A request admitted before the reset goes on writing to
  the retired scope; `ErasedUnlessOverlapped` says that nothing else is left.
* A lost answer to a reset leaves the browser with a retired generation, for good.
* A receipt says `pending_dependency` or `blocked` of steps that the engine went on
  to execute in the same handoff, and names no attempt for them
  (`delta/agents/__init__.py:394`): `ReceiptTruth` is about the steps the gate
  wanted rerun.
* An undecodable record hides behind any other record of its step
  (`delta/handoff.py:891`), and when it is the wanted one the engine's lookup
  raises: a handoff record is saved and no receipt.

## What is proved

For every value of the constants that satisfies the named assumptions
(`ConstantsAssumption`, `EngineAssumption`, `GateAssumption`, `HandoffAssumption`,
`RecordAssumption`, `VisitorAssumption`, `PlanAssumption`, `DemoAssumption`:
types of the constants, `None` outside them, `Order` a topological order of `Deps`,
a principal for every handoff), from nothing else:

* `ACPAdapterProofs!TypeCorrect`: `Spec => []TypeOK`. A lemma per group of actions.
* `ACPAdapterProofs!CapHolds`: `Spec => []CapRespected`. Only `Reserve` moves the
  total, and by no more than the approval it checks leaves.
* `ACPAdapterProofs!SpendsHold`: `Spec => SpendsInForce`. The approval that `Begin` checked
  may be gone; the one that `Reserve` checks again in the same step is not.
* `ACPAdapterProofs!LedgerHolds`: `Spec => []LedgerBalanced`, the total is the sum of the
  reservations, retries and crashes included. The sum is a fold over a finite set, so
  the proof needs its equation first: there is a smallest subset on which any such
  claim fails (strict subsets of a finite set are well-founded), hence the equation
  holds for all of them (`SumsAgree`, `SumsExist`, `SumEquation`), and a set with one
  element more, whatever order it is picked in, has just its value more (`SumAdds`).
  `LedgerInv` adds that there are finitely many reservations.
* `ACPAdapterProofs!IntentHolds`: `Spec => []DurableIntent`. The property is not
  inductive: a job appears when the provider acts on a command, so commands in
  `net` and calls that are about to send one must already have their intent,
  reservation and job (`Intended`). Attempts and reservations are never removed
  (`RecordsStay`), so what a command had when it was sent it still has when the
  provider acts, whoever wrote in between and whether or not the caller lives.
* `ACPAdapterProofs!ReuseHolds`: `VerifiedReuse` unless `foreign_observation` is in
  `Environment`. A call may hand out the attempt of another, so the invariant speaks of
  what calls carry (`CallsFit`), what is on record (`AttemptsFit`) and what a result
  has on it (`ResultsWhole`) together.
* `ACPAdapterProofs!ResultKept`: `Spec => []PaidResultKept`, whoever else writes, with any
  faults. `ResultsBehind` says that a call in finalization has behind it what it wrote,
  first the artifact and then the result, and nothing takes either away. Every status
  that other calls write is another one, also where they write what they have read long
  ago: "succeeded" is written by `SaveSucceeded` alone.
* `ACPAdapterProofs!LiveJobBlocks` and `OneLiveJob`: `LiveJobBlocksReplacement` and
  `AtMostOneLiveJob`, for runs that are `Orderly`: one caller, one input of each step, and
  of the faults only crashes, failed creations, ending jobs and expiry. They follow from
  `Steady`: of every attempt whose job lives, or whose creation is under way, the record
  is in a state that blocks (`AttemptsSound`), and the step's head names no other
  attempt's job (`HeadsPlaced`); of the call, what it has read at each place
  is still so (`CallsOrderly`). Without that last part a stale read would allow a
  replacement.
* `ACPAdapterProofs!LiveJobBlocksAll` and `OneLiveJobAll`: the same two for any number of
  callers, where nothing ends (`NothingEnds`): one input of each step, creation and
  funding, and of the faults crashes, expiry and direct observations. What a caller has
  read may be stale now, so the invariant (`Headship`) does not speak of reads. It says
  that an input with a creation under way or a job has the head of its step
  (`SigsHeaded`, `HeadsOwned`), that only the one caller in the lock may be about to
  create (`OneLockHolder`, `CallsHeaded`), and that no attempt is ever recorded as ended
  (`AttemptsUnended`), so that no late write, outside the lock, has a reason to clear a
  head. With a creation that fails or a job that ends such a write clears the next
  head: `NothingEnds` cannot be weakened by either (see the limits above).
* `ACPAdapterProofs!WorkImplemented`: `(Orderly \/ NothingEnds) /\ Spec => PaidWorkKept`,
  the refinement of `PaidWork`. `Reserve` is `Reserve` or a stutter, what the provider
  does with a command is `Open`, `Fund` or `Complete`, `JobEnds` is `End`,
  `SaveWorkResult` is `Deliver`. `Intended` provides the reservations, the invariants of
  `ReuseHolds` that a result is of its input, and either hypothesis that a command about
  to create finds no live job (`OpeningsStayFree`).
* `DeltaEngineProofs!TypeCorrect`: `Spec => []TypeOK`.
* `DeltaEngineProofs!EngineSound`: `Spec => SoundEvaluation`, the refinement. Its
  invariant (`EngineInv`) adds that every stored result was produced for the
  signature it is stored under, that a run past its lookup has its step resolved
  and, past the executor, its result on record, and that steps not yet reached
  have no output. Then `ExecutorReturns` is `Execute`, `Reuse` and
  `ReleaseAfterSuccess` are `Obtain`, `Begin` is `Begin`, and all else stutters,
  crashes and store failures included.
* `AgentHandoffProofs!ServedEngineSound`, `ServedResultsAgree`, `ServedCallsTold`:
  `SoundEvaluation`, `ResultsMatchAttempts`, `OnlyLostCallsLinger` and
  `ReportMatchesStore` hold of `HandoffSpec` too. This does not follow from the engine's
  theorems, since `HandoffSpec` does not imply `Spec`: a damaged record makes a lookup
  miss or raise where the engine by itself would reuse it, the service passes an earlier
  time than now, and a crash takes services and calls together.
* `EngineReportProofs!ReportHolds`: `Spec => []ReportMatchesStore`, and `OnlyLostHolds`:
  `Spec => []OnlyLostCallsLinger`. Neither is inductive, since both speak of calls at
  rest. `ReportInv` says what the place of a call tells of its attempts (`Story`: none
  of steps to come, a status the place allows for the step it is at, what the report
  says for those behind it) and of the heads that name it (`HeadSound`).
* `EngineAttemptProofs!ResultsAgree`: `Spec => []ResultsMatchAttempts`. `AttemptInv` says
  that a stored result has on record the attempt of the call that saved it, and that a
  call has no attempt of a step it has not started: so a start overwrites none, and an
  attempt keeps its signature for good (`AttemptsStay`). `SuccessSaved` adds that the
  result is there before the success is written.
* `EngineAttemptProofs!SucceededHolds`: `CallsSpec => []ResultsSucceeded`. Without failing
  writes a call comes to the handler only with an attempt that is active (`CallsInv`).
* `EngineAttemptProofs!ExclusiveHolds`: `CallsSpec /\ []OneInput => []ExclusiveExecution`,
  for any number of calls. `TurnInv` says that a call keeps the head it wrote until it
  clears it, and that no other call is between its attempt's write and its head's for
  that step. The lock gives the latter: whoever starts has seen that the head's attempt is
  not an active one for the same input, and by `OneInput` there is no other. `OneInput`,
  that calls at the same step have the same effective input, is needed because all
  inputs of a step share one head (`delta/store.py:452`, see the limits above); it holds
  in `engine_calls`.
* `AgentHandoffProofs!HandoffTypeCorrect`: `HandoffSpec => []HandoffTypeOK`.
* `AgentHandoffProofs!PermittedHolds`: `HandoffSpec => []ContextPermitted`, and
  `ProducedHolds`: `HandoffSpec => []ContextProduced`. Both follow from `HandoffInv`.
  It takes over `EngineInv`, which the service's calls and damaged records preserve
  too, and `AttemptInv`. `ContextSound` says of every output in a context what it
  `Rests` on: inherited dependencies, an attempt for the wanted signature by a call
  the policy permits, and an execution. `ReuseRests` derives that from the gate's
  verdicts; afterwards records may be replaced or damaged, but neither attempts nor
  executions are undone. `ContextPermitted` alone is not inductive, since an attempt
  could be overwritten by one with another signature.
* `AgentHandoffProofs!ReceiptTruthHolds`: `HandoffSpec => []ReceiptTruth`, from `ReportInv`
  and from a finished call staying as it is (`ReceiptSound`).
* `AgentHandoffProofs!GateConsistentHolds`: `HandoffSpec => []GateConsistent`, from the
  finitely many verdicts alone: `_decide` and the check a decision makes of itself
  were written apart, and agree.
* `RevisionPlanProofs!PlanTypeCorrect` and `PreviewSoundHolds`: what a plan reuses for a
  step was produced for the signature the plan shows, because every stored result
  was (`EngineInv`). `PlansImplementEngine`: `PlanSpec => Spec`, so all that is proved of
  the engine holds of planned runs, `PlannedRunsSound` among it.
* `RevisionPlanProofs!PlanKeptHolds`: `PlanSpec => []PlanKept`. By then the plan's outputs
  are in no variable, so `KeptInv` says that there are some from which the plan follows
  (`AdmittedFrom`), and that the run has done each step as they say (`StepKept`), unless
  the record of the step, or of one it rests on, was another when the run came to it or
  had grown stale. What has changed stays changed (`ChangedStays`), and what a dependency
  rests on the step rests on too (`RestsOnDependency`). So a step for which nothing has
  changed has its dependencies as planned, and looks up the very record the route saw
  (`SeenAgain`).
* `DemoScenarioProofs!DemoTypeCorrect`, `InitializedHolds`, `OneSuccessorHolds`,
  `RetiredStaysHolds`: the four follow from `DemoInv`, which says who may know a
  generation. One that a request sets up is in no cookie, no marker and no other
  request until its marker is saved (`Claiming`, `Apart`, `MarkersDrawn`), and every
  generation that a cookie names has a marker (`Held`, `JarHeld`). So what a reset
  retires and deletes is never what a request sets up, and the marker a request saves
  is the first of its scope.
* `DemoScenarioProofs!ErasedHolds`: `ErasedUnlessOverlapped`, from `ErasedInv`: what is
  left in a retired scope is on the list of the reset that is deleting it, unless that
  reset was cut short or somebody wrote to the scope afterwards.
* `DemoScenarioProofs!CookieHolds`: `CookieCurrent` where there is one scenario, which
  the theorem assumes (`SingleScenario`) and `demo_cookie` shows to be needed. The
  invariant, `CookieInv`, says that what an answer will be the first to tell is not
  retired (`GivenSound`) and is in no other request and not in the cookie (`Unshared`),
  so no reset can retire it before the browser knows it.
* `ReconciliationProofs`, for every history of any length, intent and letter case: a
  faithful record is never passed over (`NeverAnotherHolds`), more history never moves
  an attachment (`NeverMovedHolds`), order does not matter (`OrderIrrelevantHolds`), and
  funding needs both sides (`BothNeededHolds`).

Model-checked only: the liveness properties (`CallsReturn`, `SubmittingResolves`,
`CallsEnd`, `HandoffsEnd`), which need fairness and ENABLED, out of the prover's reach.
Every other property of the passing runs is a theorem. What a theorem assumes beyond
the constants is named in its statement (`Orderly`, `NothingEnds`, `OneInput`,
`SingleScenario`), and the limits above say what becomes of the property without it.

## Not modelled

* `delta/artifacts.py`: file and HTTP input and output; the adapter takes a resolved
  artifact as evidence.
* `validate_workflow` and the field checks of the records (`core.py`, `handoff.py`): they
  reject malformed data, and the instances are well-formed.
* The evidence of a receipt and its cost estimates. A receipt's estimate leaves out the
  steps the gate blocked, which the engine then runs (`delta/handoff.py:1545`).
* The runners of external agents, the signing of cookies, CSRF tokens, static pages,
  templates, the baseline comparison, fixtures, and the scripts beyond the guards of
  the live validation script used in `ACPAdapter`: none keeps state whose order
  matters.

What would come next is one abstract store with one head per step under both the
adapter and the engine, so that their attempts can be composed.
