---------------------------- MODULE DeltaEngine -----------------------------
(***************************************************************************)
(* The engine of delta/execute.py: calls of DeltaEngine.execute that share   *)
(* one store, each in its own thread.                                      *)
(*                                                                         *)
(* A call walks the steps in topological order.  It is split where another  *)
(* thread or a crash can come between: after the lookup of a reusable       *)
(* result, around the executor, and at every write to the store.  The plan   *)
(* execute saves first is read by nobody here and is left out.              *)
(***************************************************************************)
EXTENDS Integers, Sequences

CONSTANTS
    Runs,        \* calls of execute
    Steps,       \* workflow steps
    Order,       \* the steps in topological order
    Deps,        \* [Steps -> SUBSET Steps]: the steps a step binds outputs of
    Executable,  \* steps with an executor configured
    Requests,    \* what requests supply, for each step; None is an absent optional input
    Inputs,
    Outputs,     \* what executors may produce
    Lifetime,    \* [Steps -> Nat \cup {Forever}]: the freshness policy's time to live
    MaxTime,     \* bound on the clock
    Environment, \* subset of Conditions
    None

\* The freshness of a result that never grows stale.
Forever == -1

\* crash: the process dies; executor_failure: an executor raises;
\* store_failure: a read or a write of the store raises
Conditions == {"crash", "executor_failure", "store_failure"}

ASSUME EngineAssumption ==
    /\ Order \in Seq(Steps)
    /\ \A s \in Steps : \E i \in DOMAIN Order : Order[i] = s
    /\ Deps \in [Steps -> SUBSET Steps]
    /\ \A i, j \in DOMAIN Order : /\ Order[i] = Order[j] => i = j
                                  /\ Order[i] \in Deps[Order[j]] => i < j
    /\ Executable \subseteq Steps
    /\ Requests \subseteq [Steps -> Inputs \cup {None}]
    /\ Lifetime \in [Steps -> Nat \cup {Forever}]
    /\ MaxTime \in Nat
    /\ Environment \subseteq Conditions
    /\ None \notin Inputs /\ None \notin Outputs /\ None \notin Requests /\ None \notin Runs

VARIABLES
    work,      \* the reusable results (WARM), by signature
    attempts,  \* the attempts (WARM), by run and step: their ids are fresh UUIDs
    head,      \* the active-attempt heads (HOT): the run whose attempt is the step's
    run,       \* the calls
    now,       \* the time
    produced   \* observer: which outputs executors produced for which signatures

store == <<work, attempts, head>>
vars == <<store, run, now, produced>>

-----------------------------------------------------------------------------
\* A signature hashes the step, its implementation and its effective input; the
\* step's request value stands for what the step binds of the workflow's inputs.
Signatures ==
    UNION {[step: {s}, input: Inputs, from: [Deps[s] -> Outputs]] : s \in Steps}

WorkResult == [output: Outputs, until: Nat \cup {Forever}, by: Runs]

ASSUME RecordAssumption == None \notin WorkResult

Statuses == {"absent", "active", "succeeded", "failed"}
Attempt == [status: Statuses, sig: Signatures \cup {None}]

\* _EXECUTION_LOCK is held between two writes of one block.
Locked == {"attempt_started", "result_saved", "success_saved", "failure_saved"}
Ended == {"done", "raised", "crashed"}
PCs == Locked \cup Ended \cup {"idle", "resolve", "looked_up", "executing", "produced", "failing"}
Decisions == {"none", "reuse", "executed", "failed", "blocked", "pending"}

Run == [pc: PCs, request: Requests \cup {None}, began: Nat, at: Nat,
        outputs: [Steps -> Outputs \cup {None}], result: Outputs \cup {None},
        decision: [Steps -> Decisions]]

TypeOK ==
    /\ work \in [Signatures -> WorkResult \cup {None}]
    /\ attempts \in [Runs \X Steps -> Attempt]
    /\ head \in [Steps -> Runs \cup {None}]
    /\ run \in [Runs -> Run]
    /\ now \in Nat
    /\ produced \subseteq Signatures \X Outputs

NotBegun == [pc |-> "idle", request |-> None, began |-> 0, at |-> 1,
             outputs |-> [s \in Steps |-> None], result |-> None,
             decision |-> [s \in Steps |-> "none"]]

Init ==
    /\ work = [g \in Signatures |-> None]
    /\ attempts = [a \in Runs \X Steps |-> [status |-> "absent", sig |-> None]]
    /\ head = [s \in Steps |-> None]
    /\ run = [r \in Runs |-> NotBegun]
    /\ now = 0
    /\ produced = {}

Begun(r) == run[r].pc \notin Ended \cup {"idle"}
StepOf(r) == Order[run[r].at]
LockFree == \A r \in Runs : run[r].pc \notin Locked
Goto(r, place) == run' = [run EXCEPT ![r].pc = place]

\* The decision is appended and the loop goes on with the next step.
Decide(r, decision, output) ==
    run' = [run EXCEPT ![r].decision[StepOf(r)] = decision,
                       ![r].outputs[StepOf(r)] = output,
                       ![r].result = None,
                       ![r].at = @ + 1,
                       ![r].pc = IF run[r].at = Len(Order) THEN "done" ELSE "resolve"]

-----------------------------------------------------------------------------
\* execute, up to its loop, for a request and the time the caller gives
BeginAt(r, request, time) ==
    /\ run[r].pc = "idle"
    /\ run' = [run EXCEPT ![r].request = request, ![r].began = time,
                          ![r].pc = IF Order = <<>> THEN "done" ELSE "resolve"]
    /\ UNCHANGED <<store, now, produced>>

Begin(r) == \E q \in Requests : BeginAt(r, q, now)

\* resolve_step_input: every binding of the step has a value
Resolved(r, s) ==
    /\ run[r].request[s] # None
    /\ \A d \in Deps[s] : run[r].outputs[d] # None

\* input_signature
SignatureOf(r, s) ==
    [step |-> s, input |-> run[r].request[s], from |-> [d \in Deps[s] |-> run[r].outputs[d]]]

\* The branch for DependencyPending
Unresolved(r) ==
    /\ run[r].pc = "resolve"
    /\ ~ Resolved(r, StepOf(r))
    /\ Decide(r, IF \E d \in Deps[StepOf(r)] : run[r].decision[d] \in {"failed", "blocked", "pending"}
                 THEN "blocked" ELSE "pending", None)
    /\ UNCHANGED <<store, now, produced>>

\* WorkResult.matches, for a record found under the signature
Matches(result, r) ==
    /\ result # None
    /\ result.until = Forever \/ run[r].began < result.until

\* Mutant: the lookup finds a result of the step under any signature.
ReuseByStep(r) ==
    /\ run[r].pc = "resolve"
    /\ Resolved(r, StepOf(r))
    /\ \E g \in Signatures : /\ g.step = StepOf(r)
                             /\ Matches(work[g], r)
                             /\ Decide(r, "reuse", work[g].output)
    /\ UNCHANGED <<store, now, produced>>

Reuse(r) ==
    /\ run[r].pc = "resolve"
    /\ Resolved(r, StepOf(r))
    /\ LET result == work[SignatureOf(r, StepOf(r))] IN
       /\ Matches(result, r)
       /\ Decide(r, "reuse", result.output)
    /\ UNCHANGED <<store, now, produced>>

LookupMisses(r) ==
    /\ run[r].pc = "resolve"
    /\ Resolved(r, StepOf(r))
    /\ ~ Matches(work[SignatureOf(r, StepOf(r))], r)
    /\ Goto(r, "looked_up")
    /\ UNCHANGED <<store, now, produced>>

\* _active_attempt
ActiveAttempt(s, sig) ==
    /\ head[s] # None
    /\ attempts[<<head[s], s>>].sig = sig
    /\ attempts[<<head[s], s>>].status = "active"

\* An active attempt, seen by the first check or by _start_attempt's own, or no executor
Blocked(r) ==
    /\ run[r].pc = "looked_up"
    /\ LockFree
    /\ ActiveAttempt(StepOf(r), SignatureOf(r, StepOf(r))) \/ StepOf(r) \notin Executable
    /\ Decide(r, "blocked", None)
    /\ UNCHANGED <<store, now, produced>>

\* Mutant: _start_attempt trusts the check the caller made before it.
StartAttemptUnchecked(r) ==
    /\ run[r].pc = "looked_up"
    /\ LockFree
    /\ StepOf(r) \in Executable
    /\ attempts' = [attempts EXCEPT ![<<r, StepOf(r)>>] =
                      [status |-> "active", sig |-> SignatureOf(r, StepOf(r))]]
    /\ Goto(r, "attempt_started")
    /\ UNCHANGED <<work, head, now, produced>>

\* _start_attempt: its check and its first write, then its second
StartAttempt(r) ==
    LET s == StepOf(r)
        sig == SignatureOf(r, s)
    IN /\ run[r].pc = "looked_up"
       /\ LockFree
       /\ s \in Executable
       /\ ~ ActiveAttempt(s, sig)
       /\ attempts' = [attempts EXCEPT ![<<r, s>>] = [status |-> "active", sig |-> sig]]
       /\ Goto(r, "attempt_started")
       /\ UNCHANGED <<work, head, now, produced>>

\* set_active_attempt, with which each block under the lock ends
HeadSet(r) == [head EXCEPT ![StepOf(r)] = IF run[r].pc = "attempt_started" THEN r ELSE None]

StartHead(r) ==
    /\ run[r].pc = "attempt_started"
    /\ head' = HeadSet(r)
    /\ Goto(r, "executing")
    /\ UNCHANGED <<work, attempts, now, produced>>

-----------------------------------------------------------------------------
\* The executor (external) returns.
ExecutorReturns(r) ==
    /\ run[r].pc = "executing"
    /\ \E o \in Outputs :
         /\ run' = [run EXCEPT ![r].pc = "produced", ![r].result = o]
         /\ produced' = produced \cup {<<SignatureOf(r, StepOf(r)), o>>}
    /\ UNCHANGED <<store, now>>

\* Mutant: an executor's error is taken for an empty result.
ExecutorErrorSwallowed(r) ==
    /\ "executor_failure" \in Environment
    /\ run[r].pc = "executing"
    /\ Goto(r, "produced")
    /\ UNCHANGED <<store, now, produced>>

ExecutorRaises(r) ==
    /\ "executor_failure" \in Environment
    /\ run[r].pc = "executing"
    /\ Goto(r, "failing")
    /\ UNCHANGED <<store, now, produced>>

\* The block that persists a success: the result, the attempt, the head
SaveResult(r) ==
    LET s == StepOf(r) IN
    /\ run[r].pc = "produced"
    /\ LockFree
    /\ work' = [work EXCEPT ![SignatureOf(r, s)] =
                  [output |-> run[r].result,
                   until |-> IF Lifetime[s] = Forever THEN Forever ELSE run[r].began + Lifetime[s],
                   by |-> r]]
    /\ Goto(r, "result_saved")
    /\ UNCHANGED <<attempts, head, now, produced>>

\* Mutant: the attempt's success is not recorded.
SaveSuccessSkipped(r) ==
    /\ run[r].pc = "result_saved"
    /\ Goto(r, "success_saved")
    /\ UNCHANGED <<store, now, produced>>

SaveSuccess(r) ==
    /\ run[r].pc = "result_saved"
    /\ attempts' = [attempts EXCEPT ![<<r, StepOf(r)>>].status = "succeeded"]
    /\ Goto(r, "success_saved")
    /\ UNCHANGED <<work, head, now, produced>>

ReleaseAfterSuccess(r) ==
    /\ run[r].pc = "success_saved"
    /\ head' = HeadSet(r)
    /\ Decide(r, "executed", run[r].result)
    /\ UNCHANGED <<work, attempts, now, produced>>

\* Mutant: the handler leaves the attempt active.
SaveFailureSkipped(r) ==
    /\ run[r].pc = "failing"
    /\ LockFree
    /\ Goto(r, "failure_saved")
    /\ UNCHANGED <<store, now, produced>>

\* The exception handler: the attempt, the head
SaveFailure(r) ==
    /\ run[r].pc = "failing"
    /\ LockFree
    /\ attempts' = [attempts EXCEPT ![<<r, StepOf(r)>>].status = "failed"]
    /\ Goto(r, "failure_saved")
    /\ UNCHANGED <<work, head, now, produced>>

\* Mutant: the handler leaves the head.
ReleaseForgotten(r) ==
    /\ run[r].pc = "failure_saved"
    /\ Decide(r, "failed", None)
    /\ UNCHANGED <<store, now, produced>>

\* Mutant: a failed step is tried again.
RetryAfterFailure(r) ==
    /\ run[r].pc = "failure_saved"
    /\ head' = HeadSet(r)
    /\ Goto(r, "resolve")
    /\ UNCHANGED <<work, attempts, now, produced>>

ReleaseAfterFailure(r) ==
    /\ run[r].pc = "failure_saved"
    /\ head' = HeadSet(r)
    /\ Decide(r, "failed", None)
    /\ UNCHANGED <<work, attempts, now, produced>>

\* Mutant: an error of a write in the success block is swallowed.
StoreErrorSwallowed(r) ==
    /\ "store_failure" \in Environment
    /\ run[r].pc \in {"produced", "result_saved", "success_saved"}
    /\ run[r].pc = "produced" => LockFree
    /\ Goto(r, IF run[r].pc = "produced" THEN "result_saved" ELSE "success_saved")
    /\ UNCHANGED <<store, now, produced>>

\* The store raises: in the success block into the handler, anywhere else out of
\* execute.  The event after the write of a head may be what fails.
StoreFails(r) ==
    /\ "store_failure" \in Environment
    /\ run[r].pc \in Locked \cup {"resolve", "looked_up", "produced", "failing"}
    /\ run[r].pc \in {"looked_up", "produced", "failing"} => LockFree
    /\ run[r].pc = "resolve" => Resolved(r, StepOf(r))
    /\ \/ UNCHANGED head
       \/ run[r].pc \in {"attempt_started", "success_saved", "failure_saved"} /\ head' = HeadSet(r)
    /\ Goto(r, IF run[r].pc \in {"produced", "result_saved", "success_saved"}
               THEN "failing" ELSE "raised")
    /\ UNCHANGED <<work, attempts, now, produced>>

-----------------------------------------------------------------------------
\* The process dies: its calls are lost, and with them the lock; the store stays.
Crash ==
    /\ "crash" \in Environment
    /\ \E r \in Runs : Begun(r)
    /\ run' = [r \in Runs |-> IF Begun(r) THEN [run[r] EXCEPT !.pc = "crashed"] ELSE run[r]]
    /\ UNCHANGED <<store, now, produced>>

Tick ==
    /\ now < MaxTime
    /\ now' = now + 1
    /\ UNCHANGED <<store, run, produced>>

\* The steps a call takes by itself while its writes succeed; the executor's are among them.
Proceed(r) ==
    \/ Unresolved(r) \/ Reuse(r) \/ LookupMisses(r)
    \/ Blocked(r) \/ StartAttempt(r) \/ StartHead(r)
    \/ ExecutorReturns(r) \/ ExecutorRaises(r)
    \/ SaveResult(r) \/ SaveSuccess(r) \/ ReleaseAfterSuccess(r)
    \/ SaveFailure(r) \/ ReleaseAfterFailure(r)

Continue(r) == Proceed(r) \/ StoreFails(r)

\* Calls among themselves: no write fails and the process lives.
CallsNext == \E r \in Runs : Begin(r) \/ Proceed(r)

Next ==
    \/ \E r \in Runs : Begin(r) \/ Continue(r)
    \/ Crash
    \/ Tick

Spec == Init /\ [][Next]_vars

\* A thread that runs goes on running, and the executor it calls returns.
CallsSpec == Init /\ [][CallsNext]_vars /\ \A r \in Runs : WF_vars(Proceed(r))
-----------------------------------------------------------------------------
\* The engine implements IncrementalEvaluation: what a run reports as a step's
\* output was produced for the effective input the step has in that run, also when
\* another run did it, failed later, or died (lookup, SaveResult, matches).
Evaluation == INSTANCE IncrementalEvaluation
    WITH request <- [r \in Runs |-> run[r].request],
         outputs <- [r \in Runs |-> run[r].outputs]
SoundEvaluation == Evaluation!Spec

Executing(r) == run[r].pc \in {"executing", "produced"}

\* No two calls execute the same work at the same time (SECURITY.md:243, MASTER_PLAN.md:688):
\* the lock makes the check for an active attempt and its start one step (_start_attempt).
\* That is enough where writes succeed and a step has one input at a time, and only there.
ExclusiveExecution ==
    \A p, q \in Runs :
        /\ Executing(p) /\ Executing(q)
        /\ SignatureOf(p, StepOf(p)) = SignatureOf(q, StepOf(q))
        => p = q

\* Among calls whose writes succeed, only an attempt that succeeded, or is being recorded
\* as succeeded, has left a reusable result (the success block, the exception handler).
ResultsSucceeded ==
    \A g \in Signatures : work[g] # None =>
        \/ attempts[<<work[g].by, g.step>>] = [status |-> "succeeded", sig |-> g]
        \/ run[work[g].by].pc = "result_saved"

\* Results and attempts agree in the store, also when a write fails between them or the
\* call dies there: a reusable result was left by an attempt for its very signature, and
\* an attempt recorded as succeeded has left a result (the success block and the
\* exception handler).
ResultsMatchAttempts ==
    /\ \A g \in Signatures : work[g] # None => attempts[<<work[g].by, g.step>>].sig = g
    /\ \A a \in Runs \X Steps :
         attempts[a].status = "succeeded" => work[attempts[a].sig] # None

\* What can block a step, an active attempt or a head, belongs to a call that is at that
\* step, or died or raised there: a call that returned has left neither, whatever failed
\* on its way (the success block and the exception handler).
OnlyLostCallsLinger ==
    \A r \in Runs, s \in Steps :
        attempts[<<r, s>>].status = "active" \/ head[s] = r =>
            run[r].pc \notin {"idle", "resolve", "looked_up", "done"} /\ StepOf(r) = s

\* A finished call's report and its attempts in the store tell the same story.
ReportMatchesStore ==
    \A r \in Runs, s \in Steps : run[r].pc = "done" =>
        attempts[<<r, s>>].status =
            CASE run[r].decision[s] = "executed" -> "succeeded"
              [] run[r].decision[s] = "failed" -> "failed"
              [] OTHER -> "absent"

\* Every call that began returns, whatever its executors do (execute).
CallsEnd == \A r \in Runs : Begun(r) ~> run[r].pc \in Ended
=============================================================================
