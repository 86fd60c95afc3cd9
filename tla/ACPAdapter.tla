----------------------------- MODULE ACPAdapter -----------------------------
(***************************************************************************)
(* The paid-work adapter of delta/providers/acp.py: the attempts, heads and *)
(* spend ledger it keeps in Sibyl, the ACP commands it runs, and the ACP    *)
(* provider those commands act on.                                         *)
(*                                                                         *)
(* A caller is a thread inside one adapter operation.  An operation is     *)
(* split at every write to the store, at every read outside the lock that a *)
(* later write is made from, at the release of _ACP_ACTION_LOCK and around  *)
(* the command it runs, so that other callers, the provider and a crash of *)
(* the process come in between.  A call that raises before its  *)
(* first write changes nothing and is no step of this module.              *)
(***************************************************************************)
EXTENDS Integers, FiniteSets, FiniteSetsExt

CONSTANTS
    Callers,      \* threads that call the adapter
    Steps,        \* workflow steps
    Signatures,   \* effective-input signatures; each belongs to one step
    StepOf,       \* [Signatures -> Steps]: a signature hashes its step's id
    Attempts,     \* attempt ids
    SigOf,        \* [Attempts -> Signatures]: a caller never reuses an id for other work
    Jobs,         \* provider job ids
    Approvals,    \* spend approvals given for the plan
    Amounts,      \* amounts an operator may name
    PaidActions,  \* the paid actions the operator uses
    Environment,  \* what callers, commands and provider may do, see below
    None

Paid == {"fund", "complete", "reject"}
Actions == Paid \cup {"create_job"}

(***************************************************************************)
(* Environment names the adverse things that may happen:                   *)
(*   crash                the process dies between any two steps           *)
(*   create_failure       a create-job command exits with an error        *)
(*   paid_failure         a fund, complete or reject command does          *)
(*   silent_effect        a command that exits with an error took effect   *)
(*   job_ends             the provider rejects a job, or the job expires   *)
(*   conflicting_history  job history names another provider, offering or  *)
(*                        chain, or is a fixture                           *)
(*   expiry               an approval reaches its expires_at               *)
(*   direct_observation   record_observation is called for any attempt and *)
(*                        a job of its signature, not only through          *)
(*                        reconcile_attempt                                *)
(*   foreign_observation  it is called with the job of another signature   *)
(***************************************************************************)
Conditions == {"crash", "create_failure", "paid_failure", "silent_effect", "job_ends",
               "conflicting_history", "expiry", "direct_observation", "foreign_observation"}

Approval == [steps: SUBSET Steps, actions: SUBSET Actions, total: Nat, per_job: Nat]

ASSUME ConstantsAssumption ==
    /\ StepOf \in [Signatures -> Steps]
    /\ SigOf \in [Attempts -> Signatures]
    /\ Approvals \subseteq Approval
    /\ Amounts \subseteq Nat
    /\ PaidActions \subseteq Paid
    /\ Environment \subseteq Conditions
    /\ None \notin Attempts /\ None \notin Jobs /\ None \notin Signatures

VARIABLES
    attempts,   \* the attempt entities (WARM)
    head,       \* the active-attempt heads (HOT), one per step
    entries,    \* the spend ledger's entries, by reservation (HOT)
    committed,  \* the spend ledger's committed total (HOT)
    work,       \* the reusable work results, by signature (WARM)
    artifacts,  \* attempts whose artifact reference is saved (REFERENCE)
    expired,    \* approvals past their expires_at
    call,       \* where each caller is
    net,        \* commands the provider may still act on; a command sent again
                \* while an equal one is pending counts once
    job         \* the provider's jobs

store == <<attempts, head, entries, committed, work, artifacts>>
vars == <<store, expired, call, net, job>>

-----------------------------------------------------------------------------
UncertainStates == {"submitting", "ambiguous", "reconciliation_required"}

\* Mutant: an ambiguous attempt does not block.
ActiveStatesWithoutAmbiguous == {"planned", "submitting", "active", "awaiting_provider",
                                 "reconciliation_required"}
ActiveStates == {"planned", "submitting", "active", "awaiting_provider", "ambiguous",
                 "reconciliation_required"}
EndStates == {"succeeded", "failed", "rejected", "expired"}

\* "open" stands for open and budget_set, "funded" for funded and submitted.
JobStates == {"open", "funded", "completed", "rejected", "expired"}
LiveJobStates == {"open", "funded"}

AttemptRecord == [status: ActiveStates \cup EndStates \cup {"blocked", "absent"},
                  job: Jobs \cup {None}, req: Signatures \cup {None}]
NoJob == [status |-> "absent", by |-> None, paid |-> 0]
JobRecord == {NoJob} \cup [status: JobStates, by: Attempts, paid: Nat]
Request == [action: Actions, attempt: Attempts, job: Jobs \cup {None}, amount: Nat]

Reservations == Attempts \X Actions
NoEntry == -1
NoAttempt == [status |-> "absent", job |-> None, req |-> None]
NoWork == [attempt |-> None, job |-> None]

\* The places an operation can stop at; the first three hold _ACP_ACTION_LOCK.
Locked == {"authorized", "reserved", "intent_saved"}
PCs == Locked \cup {"idle", "sent", "returned", "mark_read", "marked",
                    "observed", "observation_read", "observation_saved",
                    "verified", "result_saved", "attempt_saved"}

Idle == [pc |-> "idle"]
CommandCall == [pc: Locked \cup {"sent"}, approval: Approvals, request: Request]
MarkStates == {"active", "ambiguous", "failed"}
MarkCall == [pc: {"returned", "marked"}, attempt: Attempts,
             status: MarkStates, job: Jobs \cup {None}]
MarkReadCall == [pc: {"mark_read"}, attempt: Attempts,
                 status: MarkStates, job: Jobs \cup {None}, snapshot: AttemptRecord]
Observation == [job: Jobs, status: JobStates, req: Signatures \cup {None}, conflict: BOOLEAN]
ObserveCall == [pc: {"observed"}, attempt: Attempts, record: Observation]
ObserveReadCall == [pc: {"observation_read"}, attempt: Attempts, record: Observation,
                    snapshot: AttemptRecord]
ObservedCall == [pc: {"observation_saved"}, attempt: Attempts, status: ActiveStates \cup EndStates \cup {"blocked"}]
FinalizeCall == [pc: {"verified", "result_saved", "attempt_saved"}, attempt: Attempts,
                 job: Jobs, snapshot: AttemptRecord]

TypeOK ==
    /\ attempts \in [Attempts -> AttemptRecord]
    /\ head \in [Steps -> Attempts \cup {None}]
    /\ entries \in [Reservations -> Nat \cup {NoEntry}]
    /\ committed \in Nat
    /\ work \in [Signatures -> [attempt: Attempts \cup {None}, job: Jobs \cup {None}]]
    /\ artifacts \subseteq Attempts
    /\ expired \subseteq Approvals
    /\ call \in [Callers -> {Idle} \cup CommandCall \cup MarkCall \cup MarkReadCall
                              \cup ObserveCall \cup ObserveReadCall
                              \cup ObservedCall \cup FinalizeCall]
    /\ net \subseteq Request
    /\ job \in [Jobs -> JobRecord]

Init ==
    /\ attempts = [a \in Attempts |-> NoAttempt]
    /\ head = [s \in Steps |-> None]
    /\ entries = [r \in Reservations |-> NoEntry]
    /\ committed = 0
    /\ work = [s \in Signatures |-> NoWork]
    /\ artifacts = {}
    /\ expired = {}
    /\ call = [c \in Callers |-> Idle]
    /\ net = {}
    /\ job = [j \in Jobs |-> NoJob]

StepOfAttempt(a) == StepOf[SigOf[a]]
Goto(c, place) == call' = [call EXCEPT ![c].pc = place]
Return(c) == call' = [call EXCEPT ![c] = Idle]
SetHead(a, owner) == head' = [head EXCEPT ![StepOfAttempt(a)] = owner]

-----------------------------------------------------------------------------
(***************************************************************************)
(* create_job, fund_job, complete_job and reject_job: the part under        *)
(* _ACP_ACTION_LOCK.                                                       *)
(***************************************************************************)
\* Mutant: no lock.
LockFreeAlways == TRUE
LockFree == \A c \in Callers : call[c].pc \notin Locked

\* _reject_duplicate_active_attempt raises
OwnedByHead(a, statuses) ==
    LET owner == head[StepOfAttempt(a)] IN
    /\ owner # None
    /\ SigOf[owner] = SigOf[a]
    /\ attempts[owner].status \in statuses

\* validate_spend_approval; the plan, scope, provider, offering, chain and
\* currency of a request are those of every approval here.
Authorized(approval, r) ==
    /\ approval \notin expired
    /\ StepOfAttempt(r.attempt) \in approval.steps
    /\ r.action \in approval.actions
    /\ r.amount <= approval.total
    /\ r.amount <= approval.per_job

Begin(c, approval, r) ==
    /\ call[c] = Idle
    /\ LockFree
    /\ ~ OwnedByHead(r.attempt, IF r.action = "create_job" THEN ActiveStates ELSE UncertainStates)
    /\ Authorized(approval, r)
    /\ call' = [call EXCEPT ![c] = [pc |-> "authorized", approval |-> approval, request |-> r]]
    /\ UNCHANGED <<store, expired, net, job>>

CreateJob(c) ==
    \E approval \in Approvals, a \in Attempts, amount \in Amounts :
        Begin(c, approval, [action |-> "create_job", attempt |-> a, job |-> None, amount |-> amount])

\* The operator addresses a job created for the attempt's signature.  A
\* rejection is authorized with the amount 0.
PaidAction(c) ==
    \E approval \in Approvals, action \in PaidActions, a \in Attempts, j \in Jobs :
    \E amount \in IF action = "reject" THEN {0} ELSE Amounts :
        /\ job[j].status # "absent"
        /\ SigOf[job[j].by] = SigOf[a]
        /\ Begin(c, approval, [action |-> action, attempt |-> a, job |-> j, amount |-> amount])

\* Mutant: all actions of an attempt share its reservation.
ReservationOfAttempt(r) == <<r.attempt, "create_job">>

\* The reservation id: the attempt's, with the action unless it is a creation
ReservationOf(r) == <<r.attempt, r.action>>

\* Mutant: a reservation id is not looked up.
KnownNever(id) == FALSE
Known(id) == entries[id] # NoEntry

\* Mutant: each request is held against the cap alone.
FitsAlone(approval, amount) == amount <= approval.total
Fits(approval, amount) == committed + amount <= approval.total

\* Mutant: the ledger trusts the check made before it.
ReserveUnvalidated(c) ==
    /\ call[c].pc = "authorized"
    /\ LET r == call[c].request
           id == ReservationOf(r)
       IN /\ ~ Known(id)
          /\ Fits(call[c].approval, r.amount)
          /\ entries' = [entries EXCEPT ![id] = r.amount]
          /\ committed' = committed + r.amount
    /\ Goto(c, "reserved")
    /\ UNCHANGED <<attempts, head, work, artifacts, expired, net, job>>

\* ACPSpendLedger.reserve: a known reservation id is accepted as it stands
Reserve(c) ==
    /\ call[c].pc = "authorized"
    /\ LET r == call[c].request
           id == ReservationOf(r)
           approval == call[c].approval
       IN \/ /\ Authorized(approval, r)
             /\ Known(id)
             /\ Goto(c, "reserved")
             /\ UNCHANGED <<entries, committed>>
          \/ /\ Authorized(approval, r)
             /\ ~ Known(id)
             /\ Fits(approval, r.amount)
             /\ entries' = [entries EXCEPT ![id] = r.amount]
             /\ committed' = committed + r.amount
             /\ Goto(c, "reserved")
          \/ /\ \/ ~ Authorized(approval, r)
                \/ ~ Known(id) /\ ~ Fits(approval, r.amount)
             /\ Return(c)
             /\ UNCHANGED <<entries, committed>>
    /\ UNCHANGED <<attempts, head, work, artifacts, expired, net, job>>

\* The record _persist_intent builds: _paid_action passes it neither the job
\* id nor the requirements the attempt had.
IntentOf(r) ==
    [status |-> "submitting",
     job |-> None,
     req |-> IF r.action = "create_job" THEN SigOf[r.attempt] ELSE None]

\* Mutant: the intent is not written before the command.
SaveIntentSkipped(c) ==
    /\ call[c].pc = "reserved"
    /\ Goto(c, "intent_saved")
    /\ UNCHANGED <<store, expired, net, job>>

\* _persist_intent, its first write
SaveIntent(c) ==
    /\ call[c].pc = "reserved"
    /\ attempts' = [attempts EXCEPT ![call[c].request.attempt] = IntentOf(call[c].request)]
    /\ Goto(c, "intent_saved")
    /\ UNCHANGED <<head, entries, committed, work, artifacts, expired, net, job>>

\* Mutant: the head is left to _mark_attempt.
SendCommandWithoutHead(c) ==
    /\ call[c].pc = "intent_saved"
    /\ net' = net \cup {call[c].request}
    /\ Goto(c, "sent")
    /\ UNCHANGED <<store, expired, job>>

\* _persist_intent, its second write; the lock is released and the command starts
SendCommand(c) ==
    /\ call[c].pc = "intent_saved"
    /\ SetHead(call[c].request.attempt, call[c].request.attempt)
    /\ net' = net \cup {call[c].request}
    /\ Goto(c, "sent")
    /\ UNCHANGED <<attempts, entries, committed, work, artifacts, expired, job>>

-----------------------------------------------------------------------------
(***************************************************************************)
(* The ACP provider (external): it acts on a command at any time after it   *)
(* was sent, moves its jobs on by itself, and lets approvals run out.      *)
(***************************************************************************)
\* The new job's id is in the response a caller may still be waiting for.
JobCreated(r) ==
    \E j \in Jobs :
        /\ job[j].status = "absent"
        /\ job' = [job EXCEPT ![j] = [status |-> "open", by |-> r.attempt, paid |-> 0]]
        /\ call' = [c \in Callers |->
                      IF call[c].pc = "sent" /\ call[c].request = r
                      THEN [call[c] EXCEPT !.request.job = j]
                      ELSE call[c]]

JobChanged(r, from, to) ==
    /\ job[r.job].status \in from
    /\ job' = [job EXCEPT ![r.job].status = to]
    /\ UNCHANGED call

JobFunded(r) ==
    /\ job[r.job].status = "open"
    /\ job' = [job EXCEPT ![r.job].status = "funded", ![r.job].paid = r.amount]
    /\ UNCHANGED call

ProviderActs ==
    \E r \in net :
        /\ \/ r.action = "create_job" /\ JobCreated(r)
           \/ r.action = "fund" /\ JobFunded(r)
           \/ r.action = "complete" /\ JobChanged(r, {"funded"}, "completed")
           \/ r.action = "reject" /\ JobChanged(r, LiveJobStates, "rejected")
        /\ net' = net \ {r}
        /\ UNCHANGED <<store, expired>>

JobEnds(j) ==
    /\ "job_ends" \in Environment
    /\ job[j].status \in LiveJobStates
    /\ \E status \in {"rejected", "expired"} : job' = [job EXCEPT ![j].status = status]
    /\ UNCHANGED <<store, expired, call, net>>

ApprovalExpires(approval) ==
    /\ "expiry" \in Environment
    /\ approval \notin expired
    /\ expired' = expired \cup {approval}
    /\ UNCHANGED <<store, call, net, job>>

-----------------------------------------------------------------------------
(***************************************************************************)
(* The outcome of a command, and _mark_attempt's two writes.               *)
(***************************************************************************)
Outcome(c, status, j) ==
    call' = [call EXCEPT ![c] = [pc |-> "returned", attempt |-> call[c].request.attempt,
                                 status |-> status, job |-> j]]

\* The command succeeded; a create response names the job made for it.
CommandSucceeds(c) ==
    /\ call[c].pc = "sent"
    /\ LET r == call[c].request IN
       /\ r \notin net
       /\ r.action = "create_job" => r.job # None
       /\ Outcome(c, "active", IF r.action = "create_job" THEN r.job ELSE None)
    /\ UNCHANGED <<store, expired, net, job>>

\* A nonzero exit status.  The provider has not acted on the command and will
\* not, unless effects may be silent.
CommandFails(c) ==
    /\ call[c].pc = "sent"
    /\ LET r == call[c].request IN
       /\ (IF r.action = "create_job" THEN "create_failure" ELSE "paid_failure") \in Environment
       /\ \/ "silent_effect" \in Environment /\ UNCHANGED net
          \/ r \in net /\ net' = net \ {r}
    /\ Outcome(c, "failed", None)
    /\ UNCHANGED <<store, expired, job>>

\* Mutants: a command that hangs is waited for; its timeout is not persisted.
CommandAmbiguousNever(c) == FALSE /\ UNCHANGED vars
CommandAmbiguousDropped(c) ==
    /\ call[c].pc = "sent"
    /\ Return(c)
    /\ UNCHANGED <<store, expired, net, job>>

\* A timeout, an unreadable response, or a response about another job.
CommandAmbiguous(c) ==
    /\ call[c].pc = "sent"
    /\ Outcome(c, "ambiguous", None)
    /\ UNCHANGED <<store, expired, net, job>>

\* _mark_attempt reads the attempt, without the lock ...
MarkReads(c) ==
    /\ call[c].pc = "returned"
    /\ call' = [call EXCEPT ![c] =
                  [pc |-> "mark_read", attempt |-> call[c].attempt, status |-> call[c].status,
                   job |-> call[c].job, snapshot |-> attempts[call[c].attempt]]]
    /\ UNCHANGED <<store, expired, net, job>>

\* ... and writes it from what it read.
MarkAttempt(c) ==
    /\ call[c].pc = "mark_read"
    /\ attempts' = [attempts EXCEPT ![call[c].attempt] =
                      [call[c].snapshot EXCEPT
                         !.status = call[c].status,
                         !.job = IF call[c].job = None THEN @ ELSE call[c].job]]
    /\ call' = [call EXCEPT ![c] = [pc |-> "marked", attempt |-> call[c].attempt,
                                   status |-> call[c].status, job |-> call[c].job]]
    /\ UNCHANGED <<head, entries, committed, work, artifacts, expired, net, job>>

\* Mutant: an ambiguous outcome gives the step up as a failed one does.
MarkHeadAmbiguousCleared(c) ==
    /\ call[c].pc = "marked"
    /\ SetHead(call[c].attempt, IF call[c].status = "active" THEN call[c].attempt ELSE None)
    /\ Return(c)
    /\ UNCHANGED <<attempts, entries, committed, work, artifacts, expired, net, job>>

MarkHead(c) ==
    /\ call[c].pc = "marked"
    /\ SetHead(call[c].attempt, IF call[c].status = "failed" THEN None ELSE call[c].attempt)
    /\ Return(c)
    /\ UNCHANGED <<attempts, entries, committed, work, artifacts, expired, net, job>>

-----------------------------------------------------------------------------
(***************************************************************************)
(* reconcile_attempt and record_observation.                               *)
(***************************************************************************)
\* A record the provider's history may return for job j.
RecordsOf(j) ==
    [job: {j}, status: {job[j].status}, req: {None, SigOf[job[j].by]},
     conflict: IF "conflicting_history" \in Environment THEN BOOLEAN ELSE {FALSE}]

Observe(c, a, j) ==
    /\ call[c] = Idle
    /\ attempts[a].status # "absent"
    /\ job[j].status # "absent"
    /\ \E record \in RecordsOf(j) :
         call' = [call EXCEPT ![c] = [pc |-> "observed", attempt |-> a, record |-> record]]
    /\ UNCHANGED <<store, expired, net, job>>

\* reconcile_attempt: the head's attempt, if its job is known
ReconcileAttempt(c) ==
    \E s \in Steps :
        /\ head[s] # None
        /\ attempts[head[s]].job # None
        /\ Observe(c, head[s], attempts[head[s]].job)

ObserveDirectly(c) ==
    \E a \in Attempts, j \in Jobs :
        /\ job[j].status # "absent"
        /\ (IF SigOf[job[j].by] = SigOf[a] THEN "direct_observation" ELSE "foreign_observation")
              \in Environment
        /\ Observe(c, a, j)

\* An identity is compared only where both sides have one.
Conflicts(attempt, record) ==
    \/ record.conflict
    \/ attempt.job \notin {None, record.job}
    \/ None \notin {attempt.req, record.req} /\ attempt.req # record.req

\* Mutant: the provider's status is persisted as it came.
ObservedStatusRaw(attempt, record) ==
    IF Conflicts(attempt, record) THEN "blocked" ELSE record.status

ObservedStatus(attempt, record) ==
    IF Conflicts(attempt, record) THEN "blocked"
    ELSE CASE record.status = "completed" -> "reconciliation_required"
           [] record.status \in {"rejected", "expired"} -> record.status
           [] OTHER -> "active"

\* record_observation reads the attempt, without the lock ...
ObservationReads(c) ==
    /\ call[c].pc = "observed"
    /\ call' = [call EXCEPT ![c] =
                  [pc |-> "observation_read", attempt |-> call[c].attempt,
                   record |-> call[c].record, snapshot |-> attempts[call[c].attempt]]]
    /\ UNCHANGED <<store, expired, net, job>>

\* ... compares, and writes it from what it read (_persist_reconciliation's first write).
RecordObservation(c) ==
    /\ call[c].pc = "observation_read"
    /\ LET a == call[c].attempt
           snapshot == call[c].snapshot
           record == call[c].record
           status == ObservedStatus(snapshot, record)
       IN /\ attempts' = [attempts EXCEPT
                            ![a] = [status |-> status,
                                    job |-> record.job,
                                    req |-> IF snapshot.req = None THEN record.req ELSE snapshot.req]]
          /\ call' = [call EXCEPT ![c] = [pc |-> "observation_saved", attempt |-> a, status |-> status]]
    /\ UNCHANGED <<head, entries, committed, work, artifacts, expired, net, job>>

ObservationHead(c) ==
    /\ call[c].pc = "observation_saved"
    /\ LET a == call[c].attempt IN
       SetHead(a, IF call[c].status \in {"succeeded", "rejected", "expired"} THEN None ELSE a)
    /\ Return(c)
    /\ UNCHANGED <<attempts, entries, committed, work, artifacts, expired, net, job>>

-----------------------------------------------------------------------------
(***************************************************************************)
(* finalize_completed_work.  The deliverable, artifact and settlement      *)
(* evidence the caller passes is taken as verified for the job its record  *)
(* names; a recorded fixture may claim any state of any job.               *)
(***************************************************************************)
FinalizeRecords(j) ==
    {[status |-> job[j].status, fixture |-> FALSE]}
        \cup {[status |-> status, fixture |-> TRUE] : status \in JobStates}

\* Mutant: a recorded fixture is taken for live evidence.
FinalizableFixture(attempt, j, record) ==
    /\ record.status = "completed"
    /\ attempt.job = j
    /\ attempt.status \in {"active", "reconciliation_required"}
    /\ attempt.req = SigOf[job[j].by]

Finalizable(attempt, j, record) ==
    /\ ~ record.fixture
    /\ record.status = "completed"
    /\ attempt.job = j
    /\ attempt.status \in {"active", "reconciliation_required"}
    /\ attempt.req = SigOf[job[j].by]

FinalizeVerified(c) ==
    \E a \in Attempts, j \in Jobs :
        /\ call[c] = Idle
        /\ job[j].status # "absent"
        /\ \E record \in FinalizeRecords(j) : Finalizable(attempts[a], j, record)
        /\ artifacts' = artifacts \cup {a}
        /\ call' = [call EXCEPT ![c] = [pc |-> "verified", attempt |-> a, job |-> j,
                                       snapshot |-> attempts[a]]]
        /\ UNCHANGED <<attempts, head, entries, committed, work, expired, net, job>>

\* Mutant: the attempt is recorded before the result.
SaveWorkResultLater(c) ==
    /\ call[c].pc = "verified"
    /\ attempts' = [attempts EXCEPT ![call[c].attempt].status = "succeeded"]
    /\ Goto(c, "result_saved")
    /\ UNCHANGED <<head, entries, committed, work, artifacts, expired, net, job>>

SaveWorkResult(c) ==
    /\ call[c].pc = "verified"
    /\ work' = [work EXCEPT ![SigOf[call[c].attempt]] =
                  [attempt |-> call[c].attempt, job |-> call[c].job]]
    /\ Goto(c, "result_saved")
    /\ UNCHANGED <<attempts, head, entries, committed, artifacts, expired, net, job>>

\* The attempt is written from the copy read before the checks.
SaveSucceeded(c) ==
    /\ call[c].pc = "result_saved"
    /\ attempts' = [attempts EXCEPT ![call[c].attempt] =
                      [call[c].snapshot EXCEPT !.status = "succeeded"]]
    /\ Goto(c, "attempt_saved")
    /\ UNCHANGED <<head, entries, committed, work, artifacts, expired, net, job>>

ClearHead(c) ==
    /\ call[c].pc = "attempt_saved"
    /\ SetHead(call[c].attempt, None)
    /\ Return(c)
    /\ UNCHANGED <<attempts, entries, committed, work, artifacts, expired, net, job>>

-----------------------------------------------------------------------------
\* The process dies: every call is lost, and with it the lock; the store stays.
Crash ==
    /\ "crash" \in Environment
    /\ \E c \in Callers : call[c] # Idle
    /\ call' = [c \in Callers |-> Idle]
    /\ UNCHANGED <<store, expired, net, job>>

Provider ==
    \/ ProviderActs
    \/ \E j \in Jobs : JobEnds(j)
    \/ \E approval \in Approvals : ApprovalExpires(approval)

\* The steps a running operation takes by itself once it has begun.
Continue(c) ==
    \/ Reserve(c) \/ SaveIntent(c) \/ SendCommand(c)
    \/ CommandSucceeds(c) \/ CommandFails(c) \/ CommandAmbiguous(c)
    \/ MarkReads(c) \/ MarkAttempt(c) \/ MarkHead(c)
    \/ ObservationReads(c) \/ RecordObservation(c) \/ ObservationHead(c)
    \/ SaveWorkResult(c) \/ SaveSucceeded(c) \/ ClearHead(c)

Next ==
    \/ \E c \in Callers :
         \/ CreateJob(c) \/ PaidAction(c)
         \/ ReconcileAttempt(c) \/ ObserveDirectly(c)
         \/ FinalizeVerified(c)
         \/ Continue(c)
    \/ Provider
    \/ Crash

Spec == Init /\ [][Next]_vars

\* A thread that runs goes on running, and a command returns or times out.
FairSpec == Spec /\ \A c \in Callers : WF_vars(Continue(c))
-----------------------------------------------------------------------------
IsLive(j) == job[j].status \in LiveJobStates
SigOfJob(j) == SigOf[job[j].by]

\* The ledger's total is the sum of its entries whatever retries, refusals and
\* crashes came between: a reservation is counted once (ACPSpendLedger.reserve).
LedgerBalanced ==
    committed = MapThenSumSet(LAMBDA id : entries[id], {id \in Reservations : entries[id] # NoEntry})

\* The ledger never commits more than some approval of the plan allows in total,
\* however many callers and attempts reserve (ACPSpendLedger.reserve).
CapRespected == committed > 0 => \E approval \in Approvals : committed <= approval.total

\* Money is committed only under an approval that is in force at that very moment, for
\* the step, the action and the total, also when another ran out between the call's
\* authorization and its reservation (_authorize, then validate_spend_approval again in
\* ACPSpendLedger.reserve).
SpendsInForce ==
    [][\A id \in Reservations : entries'[id] # entries[id] =>
          \E approval \in Approvals \ expired :
              /\ StepOfAttempt(id[1]) \in approval.steps
              /\ id[2] \in approval.actions
              /\ entries'[id] <= approval.per_job
              /\ committed' <= approval.total]_vars

\* A job exists at the provider only with an attempt and a reservation that
\* survive a crash, and a job is funded only under a reservation for funding its
\* signature (the order of reserve, _persist_intent and run_json).
DurableIntent ==
    \A j \in Jobs : job[j].status # "absent" =>
        /\ attempts[job[j].by].status # "absent"
        /\ entries[<<job[j].by, "create_job">>] # NoEntry
        /\ job[j].paid > 0 =>
             \E a \in Attempts : SigOf[a] = SigOfJob(j) /\ entries[<<a, "fund">>] # NoEntry

\* A reusable result is the completed output of a job created for the very
\* signature it answers, and its artifact is on record (finalize_completed_work).
VerifiedReuse ==
    \A s \in Signatures : work[s] # NoWork =>
        /\ job[work[s].job].status = "completed"
        /\ SigOfJob(work[s].job) = s
        /\ SigOf[work[s].attempt] = s
        /\ work[s].attempt \in artifacts

\* An attempt recorded as succeeded, which blocks no replacement any more, has left the
\* result and the artifact that was paid for, wherever the process died in finalization
\* and whatever other threads wrote (the order of finalize_completed_work's writes).
PaidResultKept ==
    \A a \in Attempts : attempts[a].status = "succeeded" =>
        work[SigOf[a]] # NoWork /\ a \in artifacts

\* Two jobs for one signature are never open or funded at the same time
\* (_reject_duplicate_active_attempt with the active-attempt head).
AtMostOneLiveJob ==
    \A i, j \in Jobs : IsLive(i) /\ IsLive(j) /\ SigOfJob(i) = SigOfJob(j) => i = j

\* A job that is open or funded is found again after a restart: its step's head
\* names an attempt for its signature in a state that blocks a replacement.
LiveJobBlocksReplacement ==
    \A j \in Jobs : IsLive(j) => OwnedByHead(job[j].by, ActiveStates)

\* What of the adapter PaidWork speaks of.
ReservedFor == {<<SigOf[id[1]], id[2]>> : id \in {known \in Reservations : Known(known)}}
StatusOfJobs == [j \in Jobs |-> job[j].status]
AskerOfJobs == [j \in Jobs |-> IF job[j].status = "absent" THEN None ELSE SigOfJob(j)]
ResultJobs == [s \in Signatures |-> work[s].job]

Work == INSTANCE PaidWork WITH
    Inputs <- Signatures, Totals <- {approval.total : approval \in Approvals},
    reserved <- ReservedFor, spent <- committed, status <- StatusOfJobs, asker <- AskerOfJobs,
    result <- ResultJobs

\* A job is opened, funded and completed, and a result handed out, only as PaidWork
\* allows: with a reservation for the very input and action, within the cap, with no
\* other live job of the input (the whole of create_job, _paid_action and finalize_completed_work).
PaidWorkKept == Work!Spec

\* An operation that began ends, so the action lock is always given back: no
\* outcome of a command leaves its caller waiting (create_job, _paid_action).
CallsReturn == \A c \in Callers : call[c] # Idle ~> call[c] = Idle

\* While the process runs, an attempt does not stay "submitting": the outcome of
\* its command is persisted (_mark_attempt).
SubmittingResolves ==
    \A a \in Attempts : attempts[a].status = "submitting" ~> attempts[a].status # "submitting"
=============================================================================
