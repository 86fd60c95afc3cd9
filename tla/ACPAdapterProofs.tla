-------------------------- MODULE ACPAdapterProofs --------------------------
(***************************************************************************)
(* Theorems about ACPAdapter for every set of callers, steps, signatures,   *)
(* attempts, jobs and approvals and every environment: type correctness,    *)
(* the cap of the spend ledger and its balance, that no job exists or is    *)
(* funded without an intent and a reservation that survive a crash, that    *)
(* results handed out were made for what was asked; for one caller, and for *)
(* several where no attempt ends, that a step has at most one live job and  *)
(* that the adapter implements PaidWork.                                   *)
(***************************************************************************)
EXTENDS ACPAdapter, FiniteSetTheorems, TLAPS

-----------------------------------------------------------------------------
(***************************************************************************)
(* Type correctness.                                                       *)
(***************************************************************************)

\* The place a call stopped at tells what the call carries.
LEMMA CallShape ==
    ASSUME TypeOK, NEW c \in Callers
    PROVE  /\ call[c].pc \in Locked \cup {"sent"} => call[c] \in CommandCall
           /\ call[c].pc \in {"returned", "marked"} => call[c] \in MarkCall
           /\ call[c].pc = "mark_read" => call[c] \in MarkReadCall
           /\ call[c].pc = "observed" => call[c] \in ObserveCall
           /\ call[c].pc = "observation_read" => call[c] \in ObserveReadCall
           /\ call[c].pc = "observation_saved" => call[c] \in ObservedCall
           /\ call[c].pc \in {"verified", "result_saved", "attempt_saved"} => call[c] \in FinalizeCall
  BY DEF TypeOK, Idle, Locked, CommandCall, MarkCall, MarkReadCall, ObserveCall, ObserveReadCall,
         ObservedCall, FinalizeCall

LEMMA InitTyped == Init => TypeOK
  BY ConstantsAssumption
  DEF Init, TypeOK, NoAttempt, AttemptRecord, NoEntry, NoWork, NoJob, JobRecord, Idle

\* A paid action addresses a job made for its attempt's signature.
Addressed(r) ==
    r.action \in Paid =>
        /\ r.job \in Jobs
        /\ job[r.job].status # "absent"
        /\ SigOf[job[r.job].by] = SigOf[r.attempt]

LEMMA BeginOfRequest ==
    ASSUME NEW c \in Callers, CreateJob(c) \/ PaidAction(c)
    PROVE  \E approval \in Approvals, r \in Request :
             Begin(c, approval, r) /\ Addressed(r) /\ (r.action = "create_job" => r.job = None)
  <1>1. CASE CreateJob(c)
    <2>1. PICK approval \in Approvals, a \in Attempts, amount \in Amounts :
            Begin(c, approval, [action |-> "create_job", attempt |-> a, job |-> None, amount |-> amount])
      BY <1>1 DEF CreateJob
    <2>2. [action |-> "create_job", attempt |-> a, job |-> None, amount |-> amount] \in Request
      BY ConstantsAssumption DEF Request, Actions
    <2>3. Addressed([action |-> "create_job", attempt |-> a, job |-> None, amount |-> amount])
      BY DEF Addressed, Paid
    <2> QED BY <2>1, <2>2, <2>3
  <1>2. CASE PaidAction(c)
    <2>1. PICK approval \in Approvals, action \in PaidActions, a \in Attempts, j \in Jobs,
               amount \in Amounts \cup {0} :
            /\ job[j].status # "absent"
            /\ SigOf[job[j].by] = SigOf[a]
            /\ Begin(c, approval, [action |-> action, attempt |-> a, job |-> j, amount |-> amount])
      BY <1>2 DEF PaidAction
    <2>2. [action |-> action, attempt |-> a, job |-> j, amount |-> amount] \in Request
      BY ConstantsAssumption DEF Request, Actions, Paid
    <2>3. Addressed([action |-> action, attempt |-> a, job |-> j, amount |-> amount])
      BY <2>1 DEF Addressed
    <2>4. action # "create_job"
      BY ConstantsAssumption DEF Paid
    <2> QED BY <2>1, <2>2, <2>3, <2>4
  <1> QED BY <1>1, <1>2

\* One action's effect on the type invariant at a time; an operation's steps
\* carry their typing from the shape of the call they continue.
LEMMA BeginTyped ==
    ASSUME TypeOK, NEW c \in Callers, CreateJob(c) \/ PaidAction(c)
    PROVE  TypeOK'
  <1>1. PICK approval \in Approvals, r \in Request : Begin(c, approval, r)
    BY BeginOfRequest
  <1>2. [pc |-> "authorized", approval |-> approval, request |-> r] \in CommandCall
    BY DEF CommandCall, Locked
  <1> QED BY <1>1, <1>2 DEF Begin, TypeOK, store

LEMMA CommandTyped ==
    ASSUME TypeOK, NEW c \in Callers, Reserve(c) \/ SaveIntent(c) \/ SendCommand(c)
    PROVE  TypeOK'
  <1>1. call[c] \in CommandCall
    BY CallShape DEF Reserve, SaveIntent, SendCommand, Locked
  <1>2. \A place \in Locked \cup {"sent"} : [call[c] EXCEPT !.pc = place] \in CommandCall
    BY <1>1 DEF CommandCall
  <1>3. call[c].request \in Request /\ call[c].request.amount \in Nat
    BY <1>1 DEF CommandCall, Request
  <1>4. CASE Reserve(c)
    <2>1. ReservationOf(call[c].request) \in Reservations
      BY <1>3 DEF ReservationOf, Reservations, Request
    <2>2. call' \in [Callers -> {Idle} \cup CommandCall \cup MarkCall \cup MarkReadCall
                                \cup ObserveCall \cup ObserveReadCall
                                \cup ObservedCall \cup FinalizeCall]
      BY <1>2, <1>4 DEF Reserve, Goto, Return, TypeOK, Locked
    <2>3. entries' \in [Reservations -> Nat \cup {NoEntry}] /\ committed' \in Nat
      BY <1>3, <1>4, <2>1 DEF Reserve, TypeOK
    <2> QED BY <1>4, <2>2, <2>3 DEF Reserve, TypeOK
  <1>5. CASE SaveIntent(c)
    <2>1. IntentOf(call[c].request) \in AttemptRecord
      BY <1>3, ConstantsAssumption DEF IntentOf, AttemptRecord, ActiveStates, Request
    <2> QED BY <1>2, <1>5, <2>1 DEF SaveIntent, Goto, TypeOK, Locked
  <1>6. CASE SendCommand(c)
    <2>1. call[c].request.attempt \in Attempts
      BY <1>3 DEF Request
    <2> QED BY <1>2, <1>3, <1>6, <2>1 DEF SendCommand, Goto, SetHead, TypeOK
  <1> QED BY <1>4, <1>5, <1>6

LEMMA ProviderTyped ==
    ASSUME TypeOK, Provider
    PROVE  TypeOK'
  <1>1. CASE ProviderActs
    <2>1. PICK r \in net :
            /\ \/ r.action = "create_job" /\ JobCreated(r)
               \/ r.action = "fund" /\ JobFunded(r)
               \/ r.action = "complete" /\ JobChanged(r, {"funded"}, "completed")
               \/ r.action = "reject" /\ JobChanged(r, LiveJobStates, "rejected")
            /\ net' = net \ {r}
            /\ UNCHANGED <<store, expired>>
      BY <1>1 DEF ProviderActs
    <2>2. r \in Request /\ net' \subseteq Request
      BY <2>1 DEF TypeOK
    <2>3. job' \in [Jobs -> JobRecord]
      BY <2>1, <2>2 DEF TypeOK, JobCreated, JobFunded, JobChanged, JobRecord, JobStates,
                        LiveJobStates, Request, NoJob
    <2>4. CASE JobCreated(r)
      <3>1. PICK j \in Jobs :
              call' = [c \in Callers |->
                         IF call[c].pc = "sent" /\ call[c].request = r
                         THEN [call[c] EXCEPT !.request.job = j]
                         ELSE call[c]]
        BY <2>4 DEF JobCreated
      <3>2. ASSUME NEW c \in Callers, call[c].pc = "sent"
            PROVE  [call[c] EXCEPT !.request.job = j] \in CommandCall
        <4>1. call[c] \in CommandCall
          BY <3>2, CallShape
        <4> QED BY <4>1 DEF CommandCall, Request
      <3> QED BY <2>1, <2>2, <2>3, <3>1, <3>2 DEF TypeOK, store
    <2>5. CASE UNCHANGED call
      BY <2>1, <2>2, <2>3, <2>5 DEF TypeOK, store
    <2> QED BY <2>1, <2>4, <2>5 DEF JobFunded, JobChanged
  <1>2. ASSUME NEW j \in Jobs, JobEnds(j) PROVE TypeOK'
    BY <1>2 DEF JobEnds, TypeOK, store, JobRecord, JobStates, LiveJobStates, NoJob
  <1>3. ASSUME NEW approval \in Approvals, ApprovalExpires(approval) PROVE TypeOK'
    BY <1>3 DEF ApprovalExpires, TypeOK, store
  <1> QED BY <1>1, <1>2, <1>3 DEF Provider

LEMMA OutcomeTyped ==
    ASSUME TypeOK, NEW c \in Callers, CommandSucceeds(c) \/ CommandFails(c) \/ CommandAmbiguous(c)
    PROVE  TypeOK'
  <1>1. call[c] \in CommandCall
    BY CallShape DEF CommandSucceeds, CommandFails, CommandAmbiguous
  <1>2. PICK status \in {"active", "ambiguous", "failed"}, j \in Jobs \cup {None} :
          call' = [call EXCEPT ![c] = [pc |-> "returned", attempt |-> call[c].request.attempt,
                                       status |-> status, job |-> j]]
    BY <1>1 DEF CommandSucceeds, CommandFails, CommandAmbiguous, Outcome, CommandCall, Request
  <1>3. [pc |-> "returned", attempt |-> call[c].request.attempt, status |-> status, job |-> j]
          \in MarkCall
    BY <1>1 DEF CommandCall, Request, MarkCall, MarkStates
  <1>4. net' \subseteq net /\ UNCHANGED <<store, expired, job>>
    BY DEF CommandSucceeds, CommandFails, CommandAmbiguous
  <1> QED BY <1>2, <1>3, <1>4 DEF TypeOK, store

LEMMA MarkTyped ==
    ASSUME TypeOK, NEW c \in Callers, MarkReads(c) \/ MarkAttempt(c) \/ MarkHead(c)
    PROVE  TypeOK'
  <1>1. CASE MarkReads(c)
    <2>1. call[c] \in MarkCall
      BY <1>1, CallShape DEF MarkReads
    <2>2. attempts[call[c].attempt] \in AttemptRecord
      BY <2>1 DEF MarkCall, TypeOK
    <2>3. [pc |-> "mark_read", attempt |-> call[c].attempt, status |-> call[c].status,
           job |-> call[c].job, snapshot |-> attempts[call[c].attempt]] \in MarkReadCall
      BY <2>1, <2>2 DEF MarkCall, MarkReadCall
    <2> QED BY <1>1, <2>3 DEF MarkReads, TypeOK, store
  <1>2. CASE MarkAttempt(c)
    <2>1. call[c] \in MarkReadCall
      BY <1>2, CallShape DEF MarkAttempt
    <2>2. [pc |-> "marked", attempt |-> call[c].attempt, status |-> call[c].status,
           job |-> call[c].job] \in MarkCall
      BY <2>1 DEF MarkReadCall, MarkCall
    <2>3. [call[c].snapshot EXCEPT !.status = call[c].status,
                                   !.job = IF call[c].job = None THEN @ ELSE call[c].job]
            \in AttemptRecord
      BY <2>1 DEF MarkReadCall, MarkStates, AttemptRecord, ActiveStates, EndStates
    <2>4. attempts' \in [Attempts -> AttemptRecord]
      BY <1>2, <2>3 DEF MarkAttempt, TypeOK
    <2> QED BY <1>2, <2>2, <2>4 DEF MarkAttempt, TypeOK
  <1>3. CASE MarkHead(c)
    <2>1. call[c] \in MarkCall
      BY <1>3, CallShape DEF MarkHead
    <2> QED BY <1>3, <2>1 DEF MarkHead, Return, SetHead, MarkCall, TypeOK
  <1> QED BY <1>1, <1>2, <1>3

LEMMA ObserveTyped ==
    ASSUME TypeOK, NEW c \in Callers, ReconcileAttempt(c) \/ ObserveDirectly(c)
    PROVE  TypeOK'
  <1>1. PICK a \in Attempts, j \in Jobs : Observe(c, a, j)
    BY DEF ReconcileAttempt, ObserveDirectly, TypeOK, AttemptRecord
  <1>2. PICK record \in RecordsOf(j) :
          call' = [call EXCEPT ![c] = [pc |-> "observed", attempt |-> a, record |-> record]]
    BY <1>1 DEF Observe
  <1>3. record \in Observation
    <2>1. job[j].status \in JobStates /\ job[j].by \in Attempts
      BY <1>1 DEF Observe, TypeOK, JobRecord, NoJob
    <2> QED BY <1>2, <2>1, ConstantsAssumption DEF RecordsOf, Observation
  <1> QED BY <1>1, <1>2, <1>3 DEF Observe, TypeOK, store, ObserveCall

LEMMA ObservedTyped ==
    ASSUME TypeOK, NEW c \in Callers,
           ObservationReads(c) \/ RecordObservation(c) \/ ObservationHead(c)
    PROVE  TypeOK'
  <1>0. CASE ObservationReads(c)
    <2>1. call[c] \in ObserveCall
      BY <1>0, CallShape DEF ObservationReads
    <2>2. attempts[call[c].attempt] \in AttemptRecord
      BY <2>1 DEF ObserveCall, TypeOK
    <2>3. [pc |-> "observation_read", attempt |-> call[c].attempt, record |-> call[c].record,
           snapshot |-> attempts[call[c].attempt]] \in ObserveReadCall
      BY <2>1, <2>2 DEF ObserveCall, ObserveReadCall
    <2> QED BY <1>0, <2>3 DEF ObservationReads, TypeOK, store
  <1>1. CASE RecordObservation(c)
    <2> DEFINE a == call[c].attempt
               record == call[c].record
               snapshot == call[c].snapshot
               status == ObservedStatus(snapshot, record)
    <2>1. a \in Attempts /\ record \in Observation /\ snapshot \in AttemptRecord
      BY <1>1, CallShape DEF RecordObservation, ObserveReadCall
    <2>2. status \in ActiveStates \cup EndStates \cup {"blocked"}
      BY <2>1 DEF ObservedStatus, ActiveStates, EndStates
    <2>3. attempts' \in [Attempts -> AttemptRecord]
      BY <1>1, <2>1, <2>2 DEF RecordObservation, Observation, AttemptRecord, TypeOK
    <2>4. [pc |-> "observation_saved", attempt |-> a, status |-> status] \in ObservedCall
      BY <2>1, <2>2 DEF ObservedCall
    <2> HIDE DEF a, record, status, snapshot
    <2>5. call' = [call EXCEPT ![c] = [pc |-> "observation_saved", attempt |-> a, status |-> status]]
      BY <1>1 DEF RecordObservation, a, record, status, snapshot
    <2> QED BY <1>1, <2>3, <2>4, <2>5 DEF RecordObservation, TypeOK
  <1>2. CASE ObservationHead(c)
    <2>1. call[c].attempt \in Attempts
      BY <1>2, CallShape DEF ObservationHead, ObservedCall
    <2> QED BY <1>2, <2>1 DEF ObservationHead, SetHead, Return, TypeOK
  <1> QED BY <1>0, <1>1, <1>2

LEMMA FinalizeTyped ==
    ASSUME TypeOK, NEW c \in Callers,
           FinalizeVerified(c) \/ SaveWorkResult(c) \/ SaveSucceeded(c) \/ ClearHead(c)
    PROVE  TypeOK'
  <1>1. CASE FinalizeVerified(c)
    <2>1. PICK a \in Attempts, j \in Jobs :
            /\ artifacts' = artifacts \cup {a}
            /\ call' = [call EXCEPT ![c] = [pc |-> "verified", attempt |-> a, job |-> j,
                                           snapshot |-> attempts[a]]]
      BY <1>1 DEF FinalizeVerified
    <2>2. [pc |-> "verified", attempt |-> a, job |-> j, snapshot |-> attempts[a]] \in FinalizeCall
      BY DEF FinalizeCall, TypeOK
    <2>3. UNCHANGED <<attempts, head, entries, committed, work, expired, net, job>>
      BY <1>1 DEF FinalizeVerified
    <2> QED BY <2>1, <2>2, <2>3 DEF TypeOK
  <1>2. CASE SaveWorkResult(c) \/ SaveSucceeded(c) \/ ClearHead(c)
    <2>1. call[c] \in FinalizeCall
      BY <1>2, CallShape DEF SaveWorkResult, SaveSucceeded, ClearHead
    <2>2. [call[c] EXCEPT !.pc = "result_saved"] \in FinalizeCall
      BY <2>1 DEF FinalizeCall
    <2>3. [call[c] EXCEPT !.pc = "attempt_saved"] \in FinalizeCall
      BY <2>1 DEF FinalizeCall
    <2>4. CASE SaveWorkResult(c)
      BY <2>1, <2>2, <2>4, ConstantsAssumption DEF SaveWorkResult, Goto, TypeOK, FinalizeCall
    <2>5. CASE SaveSucceeded(c)
      <3>1. [call[c].snapshot EXCEPT !.status = "succeeded"] \in AttemptRecord
        BY <2>1 DEF FinalizeCall, AttemptRecord, EndStates
      <3> QED BY <2>1, <2>3, <2>5, <3>1 DEF SaveSucceeded, Goto, TypeOK
    <2>6. CASE ClearHead(c)
      BY <2>1, <2>6 DEF ClearHead, SetHead, Return, TypeOK
    <2> QED BY <1>2, <2>4, <2>5, <2>6
  <1> QED BY <1>1, <1>2

LEMMA NextTyped ==
    ASSUME TypeOK, [Next]_vars
    PROVE  TypeOK'
  <1>1. CASE UNCHANGED vars
    BY <1>1 DEF vars, store, TypeOK
  <1>2. ASSUME NEW c \in Callers, Continue(c) PROVE TypeOK'
    BY <1>2, CommandTyped, OutcomeTyped, MarkTyped, ObservedTyped, FinalizeTyped DEF Continue
  <1>3. CASE Crash
    BY <1>3 DEF Crash, TypeOK, store
  <1> QED
    BY <1>1, <1>2, <1>3, BeginTyped, ProviderTyped, ObserveTyped, FinalizeTyped DEF Next

\* Every variable keeps its type, whatever the environment does.
THEOREM TypeCorrect == Spec => []TypeOK
  BY InitTyped, NextTyped, PTL DEF Spec

-----------------------------------------------------------------------------
(***************************************************************************)
(* The ledger.  Only Reserve adds to it, and only what fits the approval of *)
(* the call.                                                               *)
(***************************************************************************)
LEMMA OnlyReserveSpends ==
    ASSUME [Next]_vars
    PROVE  UNCHANGED <<entries, committed>> \/ \E c \in Callers : Reserve(c)
  <1>1. ASSUME NEW c \in Callers, Continue(c), ~ Reserve(c)
        PROVE  UNCHANGED <<entries, committed>>
    BY <1>1 DEF Continue, SaveIntent, SendCommand, CommandSucceeds, CommandFails, CommandAmbiguous,
                MarkReads, MarkAttempt, MarkHead,
                ObservationReads, RecordObservation, ObservationHead, SaveWorkResult,
                SaveSucceeded, ClearHead, store
  <1>2. ASSUME NEW c \in Callers,
               CreateJob(c) \/ PaidAction(c) \/ ReconcileAttempt(c) \/ ObserveDirectly(c)
                 \/ FinalizeVerified(c)
        PROVE  UNCHANGED <<entries, committed>>
    <2>1. CASE CreateJob(c) \/ PaidAction(c)
      BY <2>1, BeginOfRequest DEF Begin, store
    <2>2. CASE ReconcileAttempt(c) \/ ObserveDirectly(c)
      BY <2>2 DEF ReconcileAttempt, ObserveDirectly, Observe, store
    <2>3. CASE FinalizeVerified(c)
      BY <2>3 DEF FinalizeVerified
    <2> QED BY <1>2, <2>1, <2>2, <2>3
  <1>3. Provider \/ Crash \/ UNCHANGED vars => UNCHANGED <<entries, committed>>
    BY DEF Provider, ProviderActs, JobEnds, ApprovalExpires, Crash, store, vars
  <1> QED BY <1>1, <1>2, <1>3 DEF Next

\* The committed total never exceeds an approval's: any number of callers,
\* attempts, retries and crashes.
THEOREM CapHolds == Spec => []CapRespected
  <1>1. Init => CapRespected
    BY DEF Init, CapRespected
  <1>2. TypeOK /\ CapRespected /\ [Next]_vars => CapRespected'
    <2> SUFFICES ASSUME TypeOK, CapRespected, [Next]_vars PROVE CapRespected'
      OBVIOUS
    <2>1. CASE UNCHANGED <<entries, committed>>
      BY <2>1 DEF CapRespected
    <2>2. ASSUME NEW c \in Callers, Reserve(c) PROVE CapRespected'
      <3>1. call[c].approval \in Approvals
        BY <2>2, CallShape DEF Reserve, Locked, CommandCall
      <3>2. committed' = committed \/ committed' <= call[c].approval.total
        BY <2>2 DEF Reserve, Fits
      <3> QED BY <3>1, <3>2 DEF CapRespected
    <2> QED BY <2>1, <2>2, OnlyReserveSpends
  <1> QED BY <1>1, <1>2, TypeCorrect, PTL DEF Spec

\* Whatever expired since the call was authorized, money is committed only under an
\* approval that is in force when the ledger is written.
THEOREM SpendsHold == Spec => SpendsInForce
  <1> DEFINE Covered ==
        \A id \in Reservations : entries'[id] # entries[id] =>
            \E approval \in Approvals \ expired :
                /\ StepOfAttempt(id[1]) \in approval.steps
                /\ id[2] \in approval.actions
                /\ entries'[id] <= approval.per_job
                /\ committed' <= approval.total
  <1>1. ASSUME TypeOK, NEW c \in Callers, Reserve(c), NEW id \in Reservations,
               entries'[id] # entries[id]
        PROVE  \E approval \in Approvals \ expired :
                   /\ StepOfAttempt(id[1]) \in approval.steps
                   /\ id[2] \in approval.actions
                   /\ entries'[id] <= approval.per_job
                   /\ committed' <= approval.total
    <2>1. call[c] \in CommandCall
      BY <1>1, CallShape DEF Reserve, Locked
    <2>2. PICK approval \in Approvals, r \in Request :
            approval = call[c].approval /\ r = call[c].request
      BY <2>1 DEF CommandCall
    <2>3. /\ Authorized(approval, r) /\ Fits(approval, r.amount)
          /\ entries' = [entries EXCEPT ![ReservationOf(r)] = r.amount]
          /\ committed' = committed + r.amount
      BY <1>1, <2>2 DEF Reserve
    <2>4. id = <<r.attempt, r.action>> /\ entries'[id] = r.amount
      BY <1>1, <2>3 DEF ReservationOf, TypeOK
    <2>5. id[1] = r.attempt /\ id[2] = r.action
      BY <2>4
    <2> QED BY <2>2, <2>3, <2>4, <2>5 DEF Authorized, Fits
  <1>2. TypeOK /\ [Next]_vars => [Covered]_vars
    <2> SUFFICES ASSUME TypeOK, [Next]_vars PROVE Covered
      OBVIOUS
    <2>1. CASE UNCHANGED <<entries, committed>>
      BY <2>1
    <2> QED BY <2>1, <1>1, OnlyReserveSpends
  <1> QED BY <1>2, TypeCorrect, PTL DEF Spec, SpendsInForce

-----------------------------------------------------------------------------
(***************************************************************************)
(* Sums over finite sets.  MapThenSumSet takes its elements in an order a   *)
(* CHOOSE fixes, and it is the choice of a function with an equation of its *)
(* own.  That such a function exists, and that the order does not matter,   *)
(* needs induction over a finite set; the strict subsets of a finite set    *)
(* are well founded, so a set of bad subsets, were there one, would have a  *)
(* smallest member, and each lemma refutes that.                            *)
(***************************************************************************)
Pick(T) == CHOOSE x \in T : TRUE

\* g is the sum of f over each subset of S, as MapThenSumSet computes it.
Sums(f, S, g) == g = [T \in SUBSET S |-> IF T = {} THEN 0 ELSE f[Pick(T)] + g[T \ {Pick(T)}]]

SumOf(f, S) == MapThenSumSet(LAMBDA x : f[x], S)

LEMMA PickIn == ASSUME NEW T, T # {} PROVE Pick(T) \in T
  BY DEF Pick

LEMMA SumIsChosen == ASSUME NEW f, NEW S PROVE SumOf(f, S) = (CHOOSE g : Sums(f, S, g))[S]
  BY DEF SumOf, MapThenSumSet, MapThenFoldSet, Sums, Pick

\* Of the subsets of a finite set that are bad, one has no bad proper subset.
LEMMA SmallestSubset ==
    ASSUME NEW S, IsFiniteSet(S), NEW Bad \in SUBSET SUBSET S, Bad # {}
    PROVE  \E T \in Bad : \A U \in Bad : U \subseteq T => U = T
  <1>1. IsWellFoundedOn(StrictSubsetOrdering(S), FiniteSubsetsOf(S))
    BY FS_StrictSubsetOrderingWellFounded
  <1>2. Bad \subseteq FiniteSubsetsOf(S)
    BY FS_FiniteSubsetsOfFinite
  <1>3. \E T \in Bad : \A U \in Bad : ~ (<<U, T>> \in StrictSubsetOrdering(S))
    BY <1>1, <1>2, WFMin
  <1> QED BY <1>3 DEF StrictSubsetOrdering

\* Sums of functions that agree, agree.
LEMMA SumsAgree ==
    ASSUME NEW S, IsFiniteSet(S), NEW T, NEW d, NEW e, NEW g, NEW h,
           Sums(d, S, g), Sums(e, T, h), \A x \in S \cap T : d[x] = e[x]
    PROVE  \A U \in SUBSET (S \cap T) : g[U] = h[U]
  <1> DEFINE Bad == {U \in SUBSET (S \cap T) : g[U] # h[U]}
  <1>1. SUFFICES ASSUME Bad # {} PROVE FALSE
    OBVIOUS
  <1>2. Bad \in SUBSET SUBSET S
    OBVIOUS
  <1>3. PICK U \in Bad : \A V \in Bad : V \subseteq U => V = U
    <2>1. Bad \in SUBSET SUBSET S /\ Bad # {}
      BY <1>1
    <2> HIDE DEF Bad
    <2> QED BY <2>1, SmallestSubset
  <1>4. U \subseteq S /\ U \subseteq T /\ g[U] # h[U]
    BY <1>3
  <1>5. U # {}
    BY <1>4 DEF Sums
  <1>6. Pick(U) \in U
    BY <1>5, PickIn
  <1>7. g[U \ {Pick(U)}] = h[U \ {Pick(U)}]
    BY <1>3, <1>4, <1>6
  <1>8. g[U] = d[Pick(U)] + g[U \ {Pick(U)}] /\ h[U] = e[Pick(U)] + h[U \ {Pick(U)}]
    BY <1>4, <1>5 DEF Sums
  <1> QED BY <1>4, <1>6, <1>7, <1>8

LEMMA SumsExist ==
    ASSUME NEW S, IsFiniteSet(S), NEW f
    PROVE  \E g : Sums(f, S, g)
  <1> DEFINE Bad == {U \in SUBSET S : ~ \E g : Sums(f, U, g)}
  <1>1. SUFFICES ASSUME Bad # {} PROVE FALSE
    OBVIOUS
  <1>2. PICK T \in Bad : \A V \in Bad : V \subseteq T => V = T
    <2>1. Bad \in SUBSET SUBSET S /\ Bad # {}
      BY <1>1
    <2> HIDE DEF Bad
    <2> QED BY <2>1, SmallestSubset
  <1>3. T \subseteq S /\ \A V \in SUBSET T : V # T => \E g : Sums(f, V, g)
    BY <1>2
  <1> DEFINE G(V) == CHOOSE g : Sums(f, V, g)
             total == [U \in SUBSET T |-> IF U = {} THEN 0 ELSE f[Pick(U)] + G(U \ {Pick(U)})[U \ {Pick(U)}]]
  <1>4. ASSUME NEW V \in SUBSET T, V # T PROVE Sums(f, V, G(V))
    BY <1>3, <1>4
  <1>5. ASSUME NEW U \in SUBSET T, U # {}
        PROVE  total[U] = f[Pick(U)] + total[U \ {Pick(U)}]
    <2> DEFINE V == U \ {Pick(U)}
    <2>1. Pick(U) \in U /\ V \in SUBSET T /\ V # T
      BY <1>5, PickIn
    <2>2. total[U] = f[Pick(U)] + G(V)[V]
      BY <1>5
    <2>3. G(V)[V] = total[V]
      <3>1. Sums(f, V, G(V))
        BY <1>4, <2>1
      <3>2. CASE V = {}
        BY <2>1, <3>1, <3>2 DEF Sums
      <3>3. CASE V # {}
        <4> DEFINE W == V \ {Pick(V)}
        <4>1. Pick(V) \in V /\ W \in SUBSET T /\ W # T /\ W \subseteq V
          BY <2>1, <3>3, PickIn
        <4>2. Sums(f, W, G(W)) /\ IsFiniteSet(W)
          BY <1>3, <1>4, <4>1, FS_Subset
        <4>3. G(W)[W] = G(V)[W]
          BY <3>1, <4>1, <4>2, SumsAgree
        <4>4. G(V)[V] = f[Pick(V)] + G(V)[W]
          BY <3>1, <3>3 DEF Sums
        <4>5. total[V] = f[Pick(V)] + G(W)[W]
          BY <2>1, <3>3
        <4> QED BY <4>3, <4>4, <4>5
      <3> QED BY <3>2, <3>3
    <2> QED BY <2>2, <2>3
  <1>6. total = [U \in SUBSET T |-> IF U = {} THEN 0 ELSE f[Pick(U)] + total[U \ {Pick(U)}]]
    <2>1. total[{}] = 0
      OBVIOUS
    <2>2. total = [U \in SUBSET T |-> total[U]]
      OBVIOUS
    <2> HIDE DEF total
    <2>3. \A U \in SUBSET T : total[U] = IF U = {} THEN 0 ELSE f[Pick(U)] + total[U \ {Pick(U)}]
      BY <1>5, <2>1
    <2> QED BY <2>2, <2>3
  <1>7. Sums(f, T, total)
    BY <1>6 DEF Sums
  <1> QED BY <1>2, <1>7

LEMMA SumOfSums ==
    ASSUME NEW S, IsFiniteSet(S), NEW f
    PROVE  \A g : Sums(f, S, g) => SumOf(f, S) = g[S]
  <1> SUFFICES ASSUME NEW g, Sums(f, S, g) PROVE SumOf(f, S) = g[S]
    OBVIOUS
  <1>1. Sums(f, S, CHOOSE h : Sums(f, S, h))
    BY SumsExist
  <1>2. (CHOOSE h : Sums(f, S, h))[S] = g[S]
    BY <1>1, SumsAgree
  <1> QED BY <1>2, SumIsChosen

\* The equation of a sum
LEMMA SumEquation ==
    ASSUME NEW S, IsFiniteSet(S), NEW f
    PROVE  SumOf(f, S) = IF S = {} THEN 0 ELSE f[Pick(S)] + SumOf(f, S \ {Pick(S)})
  <1>1. PICK g : Sums(f, S, g)
    BY SumsExist
  <1>2. SumOf(f, S) = g[S]
    BY <1>1, SumOfSums
  <1>3. CASE S = {}
    BY <1>1, <1>2, <1>3 DEF Sums
  <1>4. CASE S # {}
    <2> DEFINE T == S \ {Pick(S)}
    <2>1. g[S] = f[Pick(S)] + g[T]
      BY <1>1, <1>4 DEF Sums
    <2>2. IsFiniteSet(T) /\ T \subseteq S
      BY FS_RemoveElement
    <2>3. PICK h : Sums(f, T, h)
      BY <2>2, SumsExist
    <2>4. h[T] = g[T]
      BY <1>1, <2>2, <2>3, SumsAgree
    <2>5. SumOf(f, T) = h[T]
      BY <2>2, <2>3, SumOfSums
    <2> QED BY <1>2, <1>4, <2>1, <2>4, <2>5
  <1> QED BY <1>3, <1>4

\* What a sum is of does not count elsewhere.
LEMMA SumCongruent ==
    ASSUME NEW S, IsFiniteSet(S), NEW d, NEW e, \A x \in S : d[x] = e[x]
    PROVE  SumOf(d, S) = SumOf(e, S)
  <1>1. PICK g : Sums(d, S, g)
    BY SumsExist
  <1>2. PICK h : Sums(e, S, h)
    BY SumsExist
  <1>3. g[S] = h[S]
    BY <1>1, <1>2, SumsAgree
  <1> QED BY <1>1, <1>2, <1>3, SumOfSums

LEMMA SumTyped ==
    ASSUME NEW S, IsFiniteSet(S), NEW f, \A x \in S : f[x] \in Int
    PROVE  SumOf(f, S) \in Int
  <1> DEFINE Bad == {T \in SUBSET S : SumOf(f, T) \notin Int}
  <1>1. SUFFICES ASSUME Bad # {} PROVE FALSE
    OBVIOUS
  <1>2. PICK T \in Bad : \A V \in Bad : V \subseteq T => V = T
    <2>1. Bad \in SUBSET SUBSET S /\ Bad # {}
      BY <1>1
    <2> HIDE DEF Bad
    <2> QED BY <2>1, SmallestSubset
  <1>3. T \subseteq S /\ SumOf(f, T) \notin Int /\ IsFiniteSet(T)
    BY <1>2, FS_Subset
  <1>4. T # {}
    <2>1. SumOf(f, T) = IF T = {} THEN 0 ELSE f[Pick(T)] + SumOf(f, T \ {Pick(T)})
      BY <1>3, SumEquation
    <2> QED BY <1>3, <2>1
  <1>5. Pick(T) \in T /\ SumOf(f, T) = f[Pick(T)] + SumOf(f, T \ {Pick(T)})
    BY <1>3, <1>4, PickIn, SumEquation
  <1>6. SumOf(f, T \ {Pick(T)}) \in Int
    BY <1>2, <1>3, <1>5
  <1> QED BY <1>3, <1>5, <1>6

\* An element more adds what it stands for, whichever order the sum is taken in.
LEMMA SumAdds ==
    ASSUME NEW S, IsFiniteSet(S), NEW f, NEW y, y \notin S, \A x \in S \cup {y} : f[x] \in Int
    PROVE  SumOf(f, S \cup {y}) = SumOf(f, S) + f[y]
  <1> DEFINE All == S \cup {y}
             Bad == {U \in SUBSET All : \E z \in U : SumOf(f, U) # SumOf(f, U \ {z}) + f[z]}
  <1>1. IsFiniteSet(All)
    BY FS_AddElement
  <1>2. Bad = {}
    <2>0. SUFFICES ASSUME Bad # {} PROVE FALSE
      OBVIOUS
    <2>1. PICK U \in Bad : \A V \in Bad : V \subseteq U => V = U
      <3>1. Bad \in SUBSET SUBSET All /\ Bad # {}
        BY <2>0
      <3> HIDE DEF Bad, All
      <3> QED BY <1>1, <3>1, SmallestSubset
    <2>2. U \subseteq All /\ IsFiniteSet(U)
      BY <1>1, FS_Subset
    <2>3. PICK z \in U : SumOf(f, U) # SumOf(f, U \ {z}) + f[z]
      BY <2>1
    <2> DEFINE p == Pick(U)
    <2>4. p \in U /\ SumOf(f, U) = f[p] + SumOf(f, U \ {p})
      BY <2>2, <2>3, PickIn, SumEquation
    <2>5. ASSUME NEW V \in SUBSET U PROVE IsFiniteSet(V) /\ SumOf(f, V) \in Int
      <3>1. IsFiniteSet(V) /\ \A x \in V : f[x] \in Int
        BY <2>2, FS_Subset
      <3> QED BY <3>1, SumTyped
    <2>6. f[p] \in Int /\ f[z] \in Int
      BY <2>2, <2>4
    <2>7. z # p
      BY <2>3, <2>4, <2>5, <2>6
    <2>8. SumOf(f, U \ {p}) = SumOf(f, (U \ {p}) \ {z}) + f[z]
      <3>1. U \ {p} \notin Bad /\ U \ {p} \in SUBSET All
        BY <2>1, <2>2, <2>4
      <3> QED BY <2>7, <3>1
    <2>9. SumOf(f, U \ {z}) = SumOf(f, (U \ {z}) \ {p}) + f[p]
      <3>1. U \ {z} \notin Bad /\ U \ {z} \in SUBSET All
        BY <2>1, <2>2
      <3> QED BY <2>4, <2>7, <3>1
    <2>10. (U \ {p}) \ {z} = (U \ {z}) \ {p}
      OBVIOUS
    <2>11. SumOf(f, (U \ {z}) \ {p}) \in Int
      BY <2>5
    <2>12. SumOf(f, U \ {p}) = SumOf(f, (U \ {z}) \ {p}) + f[z]
      BY <2>8, <2>10
    <2> HIDE DEF p
    <2>13. SumOf(f, U) = SumOf(f, U \ {z}) + f[z]
      BY <2>4, <2>6, <2>9, <2>11, <2>12
    <2> QED BY <2>3, <2>13
  <1>3. All \notin Bad /\ All \ {y} = S
    BY <1>2
  <1> QED BY <1>3

-----------------------------------------------------------------------------
(***************************************************************************)
(* The ledger's total.  The strengthening says that the reservations ever   *)
(* made are finitely many, which makes their sum a number.                  *)
(***************************************************************************)
Reserved == {id \in Reservations : entries[id] # NoEntry}

LedgerInv == IsFiniteSet(Reserved) /\ committed = SumOf(entries, Reserved)

LEMMA InitLedger == Init => LedgerInv
  <1> SUFFICES ASSUME Init PROVE LedgerInv
    OBVIOUS
  <1>1. Reserved = {}
    BY DEF Init, Reserved
  <1>2. IsFiniteSet(Reserved) /\ SumOf(entries, Reserved) = 0
    BY <1>1, FS_EmptySet, SumEquation
  <1> QED BY <1>2 DEF Init, LedgerInv

\* A reservation that was refused or known changes neither side; a new one adds
\* its amount to both.
LEMMA ReserveBalanced ==
    ASSUME TypeOK, LedgerInv, NEW c \in Callers, Reserve(c)
    PROVE  LedgerInv'
  <1> DEFINE id == ReservationOf(call[c].request)
             amount == call[c].request.amount
  <1>1. id \in Reservations /\ amount \in Nat
    <2>1. call[c] \in CommandCall
      BY CallShape DEF Reserve, Locked
    <2> QED BY <2>1 DEF CommandCall, Request, ReservationOf, Reservations
  <1>2. CASE UNCHANGED <<entries, committed>>
    BY <1>2 DEF LedgerInv, Reserved
  <1>3. CASE /\ ~ Known(id)
             /\ entries' = [entries EXCEPT ![id] = amount]
             /\ committed' = committed + amount
    <2> HIDE DEF id, amount
    <2>1. id \notin Reserved /\ Reserved' = Reserved \cup {id}
      BY <1>1, <1>3 DEF Reserved, Known, TypeOK, NoEntry
    <2>2. IsFiniteSet(Reserved) /\ IsFiniteSet(Reserved')
      BY <2>1, FS_AddElement DEF LedgerInv
    <2>3. \A x \in Reserved \cup {id} : entries'[x] \in Int
      BY <1>1, <1>3 DEF Reserved, TypeOK, NoEntry
    <2>4. SumOf(entries', Reserved) = SumOf(entries, Reserved)
      <3>1. \A x \in Reserved : entries'[x] = entries[x]
        BY <1>1, <1>3, <2>1 DEF Reserved, TypeOK
      <3> QED BY <2>2, <3>1, SumCongruent
    <2>5. SumOf(entries', Reserved \cup {id}) = SumOf(entries', Reserved) + entries'[id]
      BY <2>1, <2>2, <2>3, SumAdds
    <2>6. entries'[id] = amount
      BY <1>1, <1>3 DEF TypeOK
    <2>7. committed' = SumOf(entries', Reserved')
      BY <1>3, <2>1, <2>4, <2>5, <2>6 DEF LedgerInv
    <2>8. SumOf(entries, Reserved)' = SumOf(entries', Reserved')
      BY DEF SumOf, MapThenSumSet, MapThenFoldSet
    <2> QED BY <2>2, <2>7, <2>8 DEF LedgerInv
  <1> QED BY <1>2, <1>3 DEF Reserve

\* The committed total is the sum of the entries, after any number of
\* reservations by any number of callers, in any order.
THEOREM LedgerHolds == Spec => []LedgerBalanced
  <1>1. TypeOK /\ LedgerInv /\ [Next]_vars => LedgerInv'
    <2> SUFFICES ASSUME TypeOK, LedgerInv, [Next]_vars PROVE LedgerInv'
      OBVIOUS
    <2>1. CASE UNCHANGED <<entries, committed>>
      BY <2>1 DEF LedgerInv, Reserved
    <2> QED BY <2>1, ReserveBalanced, OnlyReserveSpends
  <1>2. LedgerInv => LedgerBalanced
    BY DEF LedgerInv, LedgerBalanced, Reserved, SumOf
  <1> QED BY <1>1, <1>2, InitLedger, TypeCorrect, PTL DEF Spec

-----------------------------------------------------------------------------
(***************************************************************************)
(* Intent before effect.  DurableIntent is not inductive: a job comes from  *)
(* a command that may have been sent long before, by a call that is gone.   *)
(* The strengthening says of every call past a place, and of every command  *)
(* the provider may still act on, what the store already holds for it.      *)
(***************************************************************************)
Backed(r) == Known(ReservationOf(r)) /\ attempts[r.attempt].status # "absent"

CallSound(k) ==
    /\ k.pc \in Locked \cup {"sent"} => Addressed(k.request)
    /\ k.pc \in {"reserved", "intent_saved", "sent"} => Known(ReservationOf(k.request))
    /\ k.pc \in {"intent_saved", "sent"} => Backed(k.request)

Intended ==
    /\ \A c \in Callers : CallSound(call[c])
    /\ \A r \in net : Addressed(r) /\ Backed(r)

\* Which steps write the attempts, and which the provider's jobs.
LEMMA AttemptWriters ==
    ASSUME [Next]_vars
    PROVE  \/ UNCHANGED attempts
           \/ \E c \in Callers :
                SaveIntent(c) \/ MarkAttempt(c) \/ RecordObservation(c) \/ SaveSucceeded(c)
  <1>1. ASSUME NEW c \in Callers, Continue(c),
               ~ SaveIntent(c), ~ MarkAttempt(c), ~ RecordObservation(c), ~ SaveSucceeded(c)
        PROVE  UNCHANGED attempts
    BY <1>1 DEF Continue, Reserve, SendCommand, CommandSucceeds, CommandFails, CommandAmbiguous,
                MarkReads, MarkHead, ObservationReads, ObservationHead, SaveWorkResult, ClearHead,
                store
  <1>2. ASSUME NEW c \in Callers,
               CreateJob(c) \/ PaidAction(c) \/ ReconcileAttempt(c) \/ ObserveDirectly(c)
                 \/ FinalizeVerified(c)
        PROVE  UNCHANGED attempts
    <2>1. CASE CreateJob(c) \/ PaidAction(c)
      BY <2>1, BeginOfRequest DEF Begin, store
    <2>2. CASE ReconcileAttempt(c) \/ ObserveDirectly(c)
      BY <2>2 DEF ReconcileAttempt, ObserveDirectly, Observe, store
    <2>3. CASE FinalizeVerified(c)
      BY <2>3 DEF FinalizeVerified
    <2> QED BY <1>2, <2>1, <2>2, <2>3
  <1>3. Provider \/ Crash \/ UNCHANGED vars => UNCHANGED attempts
    BY DEF Provider, ProviderActs, JobEnds, ApprovalExpires, Crash, store, vars
  <1> QED BY <1>1, <1>2, <1>3 DEF Next

LEMMA JobWriters ==
    ASSUME [Next]_vars
    PROVE  UNCHANGED job \/ ProviderActs \/ \E j \in Jobs : JobEnds(j)
  <1>1. ASSUME NEW c \in Callers, Continue(c) PROVE UNCHANGED job
    BY <1>1 DEF Continue, Reserve, SaveIntent, SendCommand, CommandSucceeds, CommandFails,
                CommandAmbiguous, MarkReads, MarkAttempt, MarkHead,
                ObservationReads, RecordObservation, ObservationHead,
                SaveWorkResult, SaveSucceeded, ClearHead
  <1>2. ASSUME NEW c \in Callers,
               CreateJob(c) \/ PaidAction(c) \/ ReconcileAttempt(c) \/ ObserveDirectly(c)
                 \/ FinalizeVerified(c)
        PROVE  UNCHANGED job
    <2>1. CASE CreateJob(c) \/ PaidAction(c)
      BY <2>1, BeginOfRequest DEF Begin
    <2>2. CASE ReconcileAttempt(c) \/ ObserveDirectly(c)
      BY <2>2 DEF ReconcileAttempt, ObserveDirectly, Observe
    <2>3. CASE FinalizeVerified(c)
      BY <2>3 DEF FinalizeVerified
    <2> QED BY <1>2, <2>1, <2>2, <2>3
  <1>3. Crash \/ UNCHANGED vars \/ (\E approval \in Approvals : ApprovalExpires(approval))
          => UNCHANGED job
    BY DEF ApprovalExpires, Crash, vars
  <1> QED BY <1>1, <1>2, <1>3 DEF Next, Provider

LEMMA HeadWriters ==
    ASSUME [Next]_vars
    PROVE  \/ UNCHANGED head
           \/ \E c \in Callers : SendCommand(c) \/ MarkHead(c) \/ ObservationHead(c) \/ ClearHead(c)
  <1>1. ASSUME NEW c \in Callers, Continue(c),
               ~ SendCommand(c), ~ MarkHead(c), ~ ObservationHead(c), ~ ClearHead(c)
        PROVE  UNCHANGED head
    BY <1>1 DEF Continue, Reserve, SaveIntent, CommandSucceeds, CommandFails, CommandAmbiguous,
                MarkReads, MarkAttempt, ObservationReads, RecordObservation, SaveWorkResult,
                SaveSucceeded, store
  <1>2. ASSUME NEW c \in Callers,
               CreateJob(c) \/ PaidAction(c) \/ ReconcileAttempt(c) \/ ObserveDirectly(c)
                 \/ FinalizeVerified(c)
        PROVE  UNCHANGED head
    <2>1. CASE CreateJob(c) \/ PaidAction(c)
      BY <2>1, BeginOfRequest DEF Begin, store
    <2>2. CASE ReconcileAttempt(c) \/ ObserveDirectly(c)
      BY <2>2 DEF ReconcileAttempt, ObserveDirectly, Observe, store
    <2>3. CASE FinalizeVerified(c)
      BY <2>3 DEF FinalizeVerified
    <2> QED BY <1>2, <2>1, <2>2, <2>3
  <1>3. Provider \/ Crash \/ UNCHANGED vars => UNCHANGED head
    BY DEF Provider, ProviderActs, JobEnds, ApprovalExpires, Crash, store, vars
  <1> QED BY <1>1, <1>2, <1>3 DEF Next

LEMMA NetWriters ==
    ASSUME [Next]_vars
    PROVE  net' \subseteq net \/ \E c \in Callers : SendCommand(c)
  <1>1. ASSUME NEW c \in Callers, Continue(c), ~ SendCommand(c) PROVE net' \subseteq net
    BY <1>1 DEF Continue, Reserve, SaveIntent, CommandSucceeds, CommandFails, CommandAmbiguous,
                MarkReads, MarkAttempt, MarkHead,
                ObservationReads, RecordObservation, ObservationHead, SaveWorkResult,
                SaveSucceeded, ClearHead
  <1>2. ASSUME NEW c \in Callers,
               CreateJob(c) \/ PaidAction(c) \/ ReconcileAttempt(c) \/ ObserveDirectly(c)
                 \/ FinalizeVerified(c)
        PROVE  UNCHANGED net
    <2>1. CASE CreateJob(c) \/ PaidAction(c)
      BY <2>1, BeginOfRequest DEF Begin
    <2>2. CASE ReconcileAttempt(c) \/ ObserveDirectly(c)
      BY <2>2 DEF ReconcileAttempt, ObserveDirectly, Observe
    <2>3. CASE FinalizeVerified(c)
      BY <2>3 DEF FinalizeVerified
    <2> QED BY <1>2, <2>1, <2>2, <2>3
  <1>3. Provider \/ Crash \/ UNCHANGED vars => net' \subseteq net
    BY DEF Provider, ProviderActs, JobEnds, ApprovalExpires, Crash, vars
  <1> QED BY <1>1, <1>2, <1>3 DEF Next

\* What was once recorded stays: a ledger entry, an attempt, a job and who it is for.
LEMMA RecordsStay ==
    ASSUME TypeOK, [Next]_vars
    PROVE  /\ \A id \in Reservations : Known(id) => Known(id)'
           /\ \A a \in Attempts : attempts[a].status # "absent" => attempts'[a].status # "absent"
           /\ \A j \in Jobs : job[j].status # "absent" =>
                               /\ job'[j].status # "absent"
                               /\ job'[j].by = job[j].by
  <1>1. ASSUME NEW id \in Reservations, Known(id) PROVE Known(id)'
    <2>1. ASSUME NEW c \in Callers, Reserve(c) PROVE Known(id)'
      <3>1. call[c] \in CommandCall
        BY <2>1, CallShape DEF Reserve, Locked
      <3>2. call[c].request.amount \in Nat
        BY <3>1 DEF CommandCall, Request
      <3> QED BY <1>1, <2>1, <3>2 DEF Reserve, Known, TypeOK, NoEntry
    <2> QED BY <1>1, <2>1, OnlyReserveSpends DEF Known
  <1>2. ASSUME NEW a \in Attempts, attempts[a].status # "absent"
        PROVE  attempts'[a].status # "absent"
    <2>1. ASSUME NEW c \in Callers, SaveIntent(c) PROVE attempts'[a].status # "absent"
      BY <1>2, <2>1 DEF SaveIntent, IntentOf, TypeOK
    <2>2. ASSUME NEW c \in Callers, MarkAttempt(c) PROVE attempts'[a].status # "absent"
      <3>1. call[c].status # "absent"
        BY <2>2, CallShape DEF MarkAttempt, MarkReadCall, MarkStates
      <3>2. call[c].snapshot \in AttemptRecord
        BY <2>2, CallShape DEF MarkAttempt, MarkReadCall
      <3> QED BY <1>2, <2>2, <3>1, <3>2 DEF MarkAttempt, TypeOK, AttemptRecord
    <2>3. ASSUME NEW c \in Callers, RecordObservation(c) PROVE attempts'[a].status # "absent"
      <3>1. \A attempt, record : ObservedStatus(attempt, record) = record.status \/
              ObservedStatus(attempt, record) \in {"blocked", "reconciliation_required", "active"}
        BY DEF ObservedStatus
      <3>2. call[c].record.status # "absent"
        BY <2>3, CallShape DEF RecordObservation, ObserveReadCall, Observation, JobStates
      <3> QED BY <1>2, <2>3, <3>1, <3>2 DEF RecordObservation, TypeOK
    <2>4. ASSUME NEW c \in Callers, SaveSucceeded(c) PROVE attempts'[a].status # "absent"
      <3>1. call[c].snapshot \in AttemptRecord
        BY <2>4, CallShape DEF SaveSucceeded, FinalizeCall
      <3> QED BY <1>2, <2>4, <3>1 DEF SaveSucceeded, TypeOK, AttemptRecord
    <2> QED BY <1>2, <2>1, <2>2, <2>3, <2>4, AttemptWriters
  <1>3. ASSUME NEW j \in Jobs, job[j].status # "absent"
        PROVE  job'[j].status # "absent" /\ job'[j].by = job[j].by
    <2>1. CASE ProviderActs
      BY <1>3, <2>1 DEF ProviderActs, JobCreated, JobFunded, JobChanged, TypeOK, JobRecord, NoJob
    <2>2. ASSUME NEW i \in Jobs, JobEnds(i)
          PROVE  job'[j].status # "absent" /\ job'[j].by = job[j].by
      BY <1>3, <2>2 DEF JobEnds, TypeOK, JobRecord, NoJob
    <2> QED BY <1>3, <2>1, <2>2, JobWriters
  <1> QED BY <1>1, <1>2, <1>3

\* So whatever backs a request goes on backing it.
LEMMA SoundStays ==
    ASSUME TypeOK, [Next]_vars, NEW r \in Request
    PROVE  /\ Addressed(r) => Addressed(r)'
           /\ Known(ReservationOf(r)) => Known(ReservationOf(r))'
           /\ Backed(r) => Backed(r)'
  <1>1. ReservationOf(r) \in Reservations /\ r.attempt \in Attempts
    BY DEF ReservationOf, Reservations, Request
  <1>2. Addressed(r) => Addressed(r)'
    BY RecordsStay DEF Addressed
  <1>3. Known(ReservationOf(r)) => Known(ReservationOf(r))'
    BY <1>1, RecordsStay DEF ReservationOf
  <1>4. Backed(r) => Backed(r)'
    BY <1>1, <1>3, RecordsStay DEF Backed
  <1> QED BY <1>2, <1>3, <1>4

LEMMA InitIntended == Init => Intended /\ DurableIntent
  BY DEF Init, Intended, CallSound, Idle, Locked, DurableIntent, NoJob

\* A call that the step does not touch, or that ends, is no concern.
LEMMA UntouchedCall ==
    ASSUME TypeOK, Intended, [Next]_vars, NEW c \in Callers,
           call'[c] = call[c] \/ call'[c].pc \notin Locked \cup {"sent"}
    PROVE  CallSound(call[c])'
  <1>1. CASE call'[c].pc \notin Locked \cup {"sent"}
    BY <1>1 DEF CallSound, Locked
  <1>2. CASE call'[c] = call[c] /\ call[c].pc \in Locked \cup {"sent"}
    <2>1. call[c].request \in Request
      BY <1>2, CallShape DEF CommandCall
    <2>2. CallSound(call[c])
      BY DEF Intended
    <2> QED BY <1>2, <2>1, <2>2, SoundStays DEF CallSound, Locked
  <1> QED BY <1>1, <1>2

LEMMA CommandIntended ==
    ASSUME TypeOK, Intended, [Next]_vars, NEW c \in Callers,
           Reserve(c) \/ SaveIntent(c) \/ SendCommand(c)
    PROVE  Intended'
  <1>0. call[c] \in CommandCall /\ call[c].request \in Request
    BY CallShape DEF Reserve, SaveIntent, SendCommand, Locked, CommandCall
  <1>1. PICK r \in Request : call[c] \in CommandCall /\ call[c].request = r
    BY <1>0
  <1>2. \A d \in Callers \ {c} : call'[d] = call[d]
    BY DEF Reserve, SaveIntent, SendCommand, Goto, Return, TypeOK
  <1>3. Addressed(r)
    BY <1>1 DEF Intended, CallSound, Reserve, SaveIntent, SendCommand, Locked
  <1>4. Addressed(r)'
    BY <1>1, <1>3, SoundStays
  <1>5. CASE Reserve(c)
    <2>1. CASE call'[c] = Idle
      BY <1>2, <1>5, <2>1, UntouchedCall, SoundStays DEF Idle, Intended, Reserve, Locked, TypeOK
    <2>2. CASE call'[c] = [call[c] EXCEPT !.pc = "reserved"]
      <3>1. Known(ReservationOf(r))'
        <4>1. ReservationOf(r) \in Reservations
          BY <1>1 DEF ReservationOf, Reservations, Request
        <4> QED BY <1>1, <1>5, <2>2, <4>1 DEF Reserve, Known, Return, Idle, TypeOK, NoEntry,
                                           Request, ReservationOf, CommandCall
      <3>2. CallSound(call[c])'
        BY <1>1, <1>4, <2>2, <3>1 DEF CallSound, CommandCall
      <3> QED BY <1>2, <1>5, <3>2, UntouchedCall, SoundStays DEF Intended, Reserve, TypeOK
    <2> QED BY <1>5, <2>1, <2>2 DEF Reserve, Goto, Return, TypeOK
  <1>6. CASE SaveIntent(c)
    <2>1. Known(ReservationOf(r))
      BY <1>1, <1>6 DEF Intended, CallSound, SaveIntent
    <2>2. Backed(r)'
      <3>1. attempts'[r.attempt].status # "absent"
        BY <1>1, <1>6 DEF SaveIntent, IntentOf, TypeOK, Request
      <3> QED BY <1>1, <2>1, <3>1, SoundStays DEF Backed
    <2>3. CallSound(call[c])'
      <3>1. call'[c] = [call[c] EXCEPT !.pc = "intent_saved"]
        BY <1>6 DEF SaveIntent, Goto, TypeOK
      <3> QED BY <1>1, <1>4, <2>2, <3>1 DEF CallSound, CommandCall, Backed
    <2> QED BY <1>2, <1>6, <2>3, UntouchedCall, SoundStays DEF Intended, SaveIntent, TypeOK
  <1>7. CASE SendCommand(c)
    <2>1. Backed(r)
      BY <1>1, <1>7 DEF Intended, CallSound, SendCommand
    <2>2. Backed(r)'
      BY <1>1, <2>1, SoundStays
    <2>3. CallSound(call[c])'
      <3>1. call'[c] = [call[c] EXCEPT !.pc = "sent"]
        BY <1>7 DEF SendCommand, Goto, TypeOK
      <3> QED BY <1>1, <1>4, <2>2, <3>1 DEF CallSound, CommandCall, Backed
    <2>4. net' = net \cup {r}
      BY <1>1, <1>7 DEF SendCommand
    <2> QED BY <1>2, <1>4, <2>2, <2>3, <2>4, UntouchedCall, SoundStays DEF Intended, TypeOK
  <1> QED BY <1>5, <1>6, <1>7

LEMMA BeginIntended ==
    ASSUME TypeOK, Intended, [Next]_vars, NEW c \in Callers, CreateJob(c) \/ PaidAction(c)
    PROVE  Intended'
  <1>1. PICK approval \in Approvals, r \in Request : Begin(c, approval, r) /\ Addressed(r)
    BY BeginOfRequest
  <1>2. call'[c] = [pc |-> "authorized", approval |-> approval, request |-> r]
    BY <1>1 DEF Begin, TypeOK
  <1>3. Addressed(r)'
    BY <1>1, SoundStays
  <1>4. CallSound(call[c])'
    BY <1>2, <1>3 DEF CallSound
  <1>5. \A d \in Callers \ {c} : call'[d] = call[d]
    BY <1>1 DEF Begin, TypeOK
  <1> QED BY <1>1, <1>4, <1>5, UntouchedCall, SoundStays DEF Begin, Intended, TypeOK

\* The only request of a call that changes is a creation's, by its job's id.
LEMMA ProviderIntended ==
    ASSUME TypeOK, Intended, [Next]_vars, Provider
    PROVE  Intended'
  <1>1. net' \subseteq net
    BY DEF Provider, ProviderActs, JobEnds, ApprovalExpires
  <1>2. ASSUME NEW c \in Callers PROVE CallSound(call[c])'
    <2>1. CASE call'[c] = call[c]
      BY <2>1, UntouchedCall
    <2>2. CASE call'[c] # call[c]
      <3>1. PICK r \in net : r.action = "create_job" /\ JobCreated(r)
        BY <2>2 DEF Provider, ProviderActs, JobFunded, JobChanged, JobEnds, ApprovalExpires
      <3>2. PICK j \in Jobs : call'[c] = [call[c] EXCEPT !.request.job = j]
        BY <2>2, <3>1 DEF JobCreated
      <3>3. call[c].pc = "sent" /\ call[c].request = r
        BY <2>2, <3>1 DEF JobCreated
      <3>4. r \in Request /\ Backed(r)
        BY <3>1 DEF Intended, TypeOK
      <3>5. Backed(r)'
        BY <3>4, SoundStays
      <3>6. call[c] \in CommandCall
        BY <3>3, CallShape
      <3>7. PICK q \in Request : call'[c].request = q /\ q.attempt = r.attempt
                                 /\ q.action = "create_job" /\ call'[c].pc = "sent"
        BY <3>1, <3>2, <3>3, <3>4, <3>6 DEF CommandCall, Request
      <3>8. ReservationOf(q) = ReservationOf(r)
        BY <3>1, <3>7 DEF ReservationOf
      <3>9. Backed(q)' /\ Addressed(q)'
        BY <3>5, <3>7, <3>8 DEF Backed, Addressed, Paid
      <3> QED BY <3>7, <3>9 DEF CallSound, Backed
    <2> QED BY <2>1, <2>2
  <1> QED BY <1>1, <1>2, SoundStays DEF Intended, TypeOK

\* The steps that end a call or leave it beyond its command.
LEMMA LaterIntended ==
    ASSUME TypeOK, Intended, [Next]_vars,
           \A c \in Callers : call'[c] = call[c] \/ call'[c].pc \notin Locked \cup {"sent"},
           net' \subseteq net
    PROVE  Intended'
  BY UntouchedCall, SoundStays DEF Intended, TypeOK

LEMMA NextIntended ==
    ASSUME TypeOK, Intended, [Next]_vars
    PROVE  Intended'
  <1>1. ASSUME NEW c \in Callers, CommandSucceeds(c) \/ CommandFails(c) \/ CommandAmbiguous(c)
        PROVE  Intended'
    BY <1>1, LaterIntended DEF CommandSucceeds, CommandFails, CommandAmbiguous, Outcome, TypeOK, Locked
  <1>2. ASSUME NEW c \in Callers, MarkReads(c) \/ MarkAttempt(c) \/ MarkHead(c)
        PROVE  Intended'
    BY <1>2, LaterIntended DEF MarkReads, MarkAttempt, MarkHead, Return, Idle, TypeOK, Locked, store
  <1>3. ASSUME NEW c \in Callers, ReconcileAttempt(c) \/ ObserveDirectly(c)
        PROVE  Intended'
    BY <1>3, LaterIntended DEF ReconcileAttempt, ObserveDirectly, Observe, TypeOK, Locked
  <1>4. ASSUME NEW c \in Callers,
               ObservationReads(c) \/ RecordObservation(c) \/ ObservationHead(c)
        PROVE  Intended'
    BY <1>4, LaterIntended DEF ObservationReads, RecordObservation, ObservationHead, Return, Idle,
                               TypeOK, Locked, store
  <1>5. ASSUME NEW c \in Callers,
               FinalizeVerified(c) \/ SaveWorkResult(c) \/ SaveSucceeded(c) \/ ClearHead(c)
        PROVE  Intended'
    <2>1. CASE FinalizeVerified(c)
      BY <2>1, LaterIntended DEF FinalizeVerified, TypeOK, Locked
    <2>2. CASE SaveWorkResult(c) \/ SaveSucceeded(c) \/ ClearHead(c)
      <3>1. call[c] \in FinalizeCall
        BY <2>2, CallShape DEF SaveWorkResult, SaveSucceeded, ClearHead
      <3> QED BY <2>2, <3>1, LaterIntended
              DEF SaveWorkResult, SaveSucceeded, ClearHead, Goto, Return, Idle, FinalizeCall, TypeOK, Locked
    <2> QED BY <1>5, <2>1, <2>2
  <1>6. CASE Crash
    BY <1>6, LaterIntended DEF Crash, Idle, Locked
  <1>7. CASE UNCHANGED vars
    BY <1>7, LaterIntended DEF vars
  <1> QED BY <1>1, <1>2, <1>3, <1>4, <1>5, <1>6, <1>7, BeginIntended, CommandIntended,
             ProviderIntended DEF Next, Continue

\* Every job at the provider has an attempt and a reservation in the store, and
\* every funded one a reservation for funding its signature.
THEOREM IntentHolds == Spec => []DurableIntent
  <1>1. TypeOK /\ Intended /\ DurableIntent /\ [Next]_vars => DurableIntent'
    <2> SUFFICES ASSUME TypeOK, Intended, DurableIntent, [Next]_vars,
                        NEW j \in Jobs, job'[j].status # "absent"
                 PROVE  /\ attempts'[job'[j].by].status # "absent"
                        /\ entries'[<<job'[j].by, "create_job">>] # NoEntry
                        /\ job'[j].paid > 0 =>
                             \E a \in Attempts :
                               SigOf[a] = SigOf[job'[j].by] /\ entries'[<<a, "fund">>] # NoEntry
      BY DEF DurableIntent, SigOfJob
    <2>1. CASE job[j].status # "absent"
      <3>1. job[j].by \in Attempts /\ job'[j].by = job[j].by
        BY <2>1, RecordsStay DEF TypeOK, JobRecord, NoJob
      <3>2. attempts'[job[j].by].status # "absent" /\ entries'[<<job[j].by, "create_job">>] # NoEntry
        <4>1. <<job[j].by, "create_job">> \in Reservations
          BY <3>1 DEF Reservations, Actions
        <4> QED BY <2>1, <3>1, <4>1, RecordsStay DEF DurableIntent, Known
      <3>3. CASE job'[j].paid = job[j].paid
        <4>1. \A a \in Attempts : <<a, "fund">> \in Reservations
          BY DEF Reservations, Actions, Paid
        <4> QED BY <2>1, <3>1, <3>2, <3>3, <4>1, RecordsStay DEF DurableIntent, SigOfJob, Known
      <3>4. CASE job'[j].paid # job[j].paid
        <4>1. PICK r \in net : r.action = "fund" /\ r.job = j
          <5>1. \A i \in Jobs : ~ JobEnds(i)
            BY <3>4 DEF JobEnds, TypeOK, JobRecord, NoJob
          <5>2. \A r \in net : ~ JobCreated(r)
            BY <2>1, <3>4 DEF JobCreated, TypeOK
          <5>3. \A from, to : \A r \in net : ~ JobChanged(r, from, to)
            BY <3>4 DEF JobChanged, TypeOK, JobRecord, NoJob
          <5>4. PICK r \in net : r.action = "fund" /\ JobFunded(r)
            BY <3>4, <5>1, <5>2, <5>3, JobWriters DEF ProviderActs
          <5> QED BY <3>4, <5>4 DEF JobFunded, TypeOK
        <4>2. r \in Request /\ Addressed(r) /\ Backed(r)
          BY DEF Intended, TypeOK
        <4>3. r.attempt \in Attempts /\ SigOf[r.attempt] = SigOf[job[j].by]
          BY <4>1, <4>2 DEF Addressed, Request, Paid
        <4>4. entries'[<<r.attempt, "fund">>] # NoEntry
          BY <4>1, <4>2, SoundStays DEF Backed, Known, ReservationOf
        <4> QED BY <3>1, <3>2, <4>3, <4>4
      <3> QED BY <3>3, <3>4
    <2>2. CASE job[j].status = "absent"
      <3>1. PICK r \in net : r.action = "create_job" /\ JobCreated(r)
                             /\ job'[j] = [status |-> "open", by |-> r.attempt, paid |-> 0]
        BY <2>2, JobWriters DEF ProviderActs, JobCreated, JobFunded, JobChanged, JobEnds,
                                LiveJobStates, TypeOK
      <3>2. r \in Request /\ Backed(r)
        BY DEF Intended, TypeOK
      <3>3. Backed(r)'
        BY <3>2, SoundStays
      <3> QED BY <3>1, <3>3 DEF Backed, Known, ReservationOf
    <2> QED BY <2>1, <2>2
  <1> QED BY <1>1, InitIntended, NextIntended, TypeCorrect, PTL DEF Spec

-----------------------------------------------------------------------------
(***************************************************************************)
(* Reuse.  A result is saved by a call that checked the attempt and its job *)
(* some steps before.  What it checked must still be so: no step gives an   *)
(* attempt a job made for another signature, and no step undoes a           *)
(* completion.  A foreign observation does the first, so the theorem leaves *)
(* it out of the environment.                                              *)
(***************************************************************************)
MadeFor(a, j) == j # None => job[j].status # "absent" /\ SigOf[job[j].by] = SigOf[a]

CallFits(k) ==
    /\ k.pc \in Locked \cup {"sent"} => MadeFor(k.request.attempt, k.request.job)
    /\ k.pc \in {"returned", "mark_read", "marked"} => MadeFor(k.attempt, k.job)
    /\ k.pc \in {"mark_read", "observation_read"} => MadeFor(k.attempt, k.snapshot.job)
    /\ k.pc \in {"observed", "observation_read"} => MadeFor(k.attempt, k.record.job)
    /\ k.pc \in {"verified", "result_saved", "attempt_saved"} =>
         /\ MadeFor(k.attempt, k.job)
         /\ job[k.job].status = "completed"
         /\ k.attempt \in artifacts
         /\ k.snapshot.job = k.job

CallsFit == \A c \in Callers : CallFits(call[c])
AttemptsFit == \A a \in Attempts : MadeFor(a, attempts[a].job)
ResultsWhole == \A s \in Signatures : work[s] # NoWork => work[s].job \in Jobs

\* What a call relies on stays.
LEMMA FitStays ==
    ASSUME TypeOK, [Next]_vars
    PROVE  /\ \A a \in Attempts, j \in Jobs \cup {None} : MadeFor(a, j) => MadeFor(a, j)'
           /\ \A j \in Jobs : job[j].status = "completed" => job'[j].status = "completed"
           /\ artifacts \subseteq artifacts'
  <1>1. ASSUME NEW a \in Attempts, NEW j \in Jobs \cup {None}, MadeFor(a, j) PROVE MadeFor(a, j)'
    BY <1>1, RecordsStay DEF MadeFor
  <1>2. ASSUME NEW j \in Jobs, job[j].status = "completed" PROVE job'[j].status = "completed"
    <2>1. CASE ProviderActs
      BY <1>2, <2>1 DEF ProviderActs, JobCreated, JobFunded, JobChanged, LiveJobStates, TypeOK,
                        JobRecord, NoJob
    <2>2. ASSUME NEW i \in Jobs, JobEnds(i) PROVE job'[j].status = "completed"
      BY <1>2, <2>2 DEF JobEnds, LiveJobStates, TypeOK
    <2> QED BY <1>2, <2>1, <2>2, JobWriters
  <1>3. artifacts \subseteq artifacts'
    <2>1. ASSUME NEW c \in Callers, Continue(c) PROVE UNCHANGED artifacts
      BY <2>1 DEF Continue, Reserve, SaveIntent, SendCommand, CommandSucceeds, CommandFails,
                  CommandAmbiguous, MarkReads, MarkAttempt, MarkHead,
                  ObservationReads, RecordObservation, ObservationHead,
                  SaveWorkResult, SaveSucceeded, ClearHead, store
    <2>2. ASSUME NEW c \in Callers, CreateJob(c) \/ PaidAction(c) PROVE UNCHANGED artifacts
      BY <2>2, BeginOfRequest DEF Begin, store
    <2>3. ASSUME NEW c \in Callers, ReconcileAttempt(c) \/ ObserveDirectly(c) PROVE UNCHANGED artifacts
      BY <2>3 DEF ReconcileAttempt, ObserveDirectly, Observe, store
    <2>4. ASSUME NEW c \in Callers, FinalizeVerified(c) PROVE artifacts \subseteq artifacts'
      BY <2>4 DEF FinalizeVerified
    <2>5. Provider \/ Crash \/ UNCHANGED vars => UNCHANGED artifacts
      BY DEF Provider, ProviderActs, JobEnds, ApprovalExpires, Crash, store, vars
    <2> QED BY <2>1, <2>2, <2>3, <2>4, <2>5 DEF Next
  <1> QED BY <1>1, <1>2, <1>3

\* A call the step leaves alone, or whose value the step only copies into a place
\* that relies on the same facts.
LEMMA CallFitStays ==
    ASSUME TypeOK, CallsFit, [Next]_vars, NEW c \in Callers,
           \/ call'[c] = call[c]
           \/ call'[c].pc \in {"idle", "observation_saved"}
    PROVE  CallFits(call[c])'
  <1>1. CASE call'[c].pc \in {"idle", "observation_saved"}
    BY <1>1 DEF CallFits, Locked
  <1>2. CASE call'[c] = call[c]
    <2>1. CallFits(call[c])
      BY DEF CallsFit
    <2>2. CASE call[c].pc \in Locked \cup {"sent"}
      <3>1. call[c].request.attempt \in Attempts /\ call[c].request.job \in Jobs \cup {None}
        BY <2>2, CallShape DEF CommandCall, Request
      <3> QED BY <1>2, <2>1, <2>2, <3>1, FitStays DEF CallFits, Locked
    <2>3. CASE call[c].pc \in {"returned", "marked"}
      <3>1. call[c].attempt \in Attempts /\ call[c].job \in Jobs \cup {None}
        BY <2>3, CallShape DEF MarkCall
      <3> QED BY <1>2, <2>1, <2>3, <3>1, FitStays DEF CallFits, Locked
    <2>6. CASE call[c].pc = "mark_read"
      <3>1. /\ call[c].attempt \in Attempts /\ call[c].job \in Jobs \cup {None}
            /\ call[c].snapshot.job \in Jobs \cup {None}
        BY <2>6, CallShape DEF MarkReadCall, AttemptRecord
      <3> QED BY <1>2, <2>1, <2>6, <3>1, FitStays DEF CallFits, Locked
    <2>4. CASE call[c].pc \in {"observed", "observation_read"}
      <3>1. /\ call[c].attempt \in Attempts /\ call[c].record.job \in Jobs
            /\ call[c].pc = "observation_read" => call[c].snapshot.job \in Jobs \cup {None}
        BY <2>4, CallShape DEF ObserveCall, ObserveReadCall, Observation, AttemptRecord
      <3> QED BY <1>2, <2>1, <2>4, <3>1, FitStays DEF CallFits, Locked
    <2>5. CASE call[c].pc \in {"verified", "result_saved", "attempt_saved"}
      <3>1. call[c].attempt \in Attempts /\ call[c].job \in Jobs
        BY <2>5, CallShape DEF FinalizeCall
      <3> QED BY <1>2, <2>1, <2>5, <3>1, FitStays DEF CallFits, Locked
    <2> QED BY <1>2, <2>2, <2>3, <2>4, <2>5, <2>6 DEF CallFits
  <1> QED BY <1>1, <1>2

\* One caller's step: the other calls need no care.
LEMMA OneCallFits ==
    ASSUME TypeOK, CallsFit, [Next]_vars, NEW c \in Callers,
           \A d \in Callers \ {c} : call'[d] = call[d],
           CallFits(call[c])'
    PROVE  CallsFit'
  BY CallFitStays DEF CallsFit

LEMMA CommandFits ==
    ASSUME TypeOK, CallsFit, [Next]_vars, NEW c \in Callers,
           CreateJob(c) \/ PaidAction(c) \/ Reserve(c) \/ SaveIntent(c) \/ SendCommand(c)
    PROVE  CallsFit'
  <1>1. CASE CreateJob(c) \/ PaidAction(c)
    <2>1. PICK approval \in Approvals, r \in Request :
            Begin(c, approval, r) /\ Addressed(r) /\ (r.action = "create_job" => r.job = None)
      BY <1>1, BeginOfRequest
    <2>2. /\ call'[c] = [pc |-> "authorized", approval |-> approval, request |-> r]
          /\ \A d \in Callers \ {c} : call'[d] = call[d]
      BY <2>1 DEF Begin, TypeOK
    <2>3. r.attempt \in Attempts /\ r.job \in Jobs \cup {None} /\ r.action \in Actions
      BY DEF Request
    <2>4. MadeFor(r.attempt, r.job)
      BY <2>1, <2>3 DEF MadeFor, Addressed, Actions
    <2>5. MadeFor(r.attempt, r.job)'
      BY <2>3, <2>4, FitStays
    <2>6. CallFits(call[c])'
      BY <2>2, <2>5 DEF CallFits
    <2> QED BY <2>2, <2>6, OneCallFits
  <1>2. CASE Reserve(c) \/ SaveIntent(c) \/ SendCommand(c)
    <2>1. /\ call[c] \in CommandCall /\ call[c].pc \in Locked
          /\ call[c].request.attempt \in Attempts /\ call[c].request.job \in Jobs \cup {None}
      BY <1>2, CallShape DEF Reserve, SaveIntent, SendCommand, Locked, CommandCall, Request
    <2>2. MadeFor(call[c].request.attempt, call[c].request.job)
      BY <2>1 DEF CallsFit, CallFits
    <2>3. \A a \in Attempts, j \in Jobs \cup {None} : MadeFor(a, j) => MadeFor(a, j)'
      BY FitStays
    <2>4. /\ \A d \in Callers \ {c} : call'[d] = call[d]
          /\ \/ call'[c] = Idle
             \/ \E place \in Locked \cup {"sent"} : call'[c] = [call[c] EXCEPT !.pc = place]
      BY <1>2 DEF Reserve, SaveIntent, SendCommand, Goto, Return, TypeOK, Locked
    <2>5. CASE call'[c] = Idle
      BY <2>4, <2>5, CallFitStays, OneCallFits DEF Idle
    <2>6. ASSUME NEW place \in Locked \cup {"sent"}, call'[c] = [call[c] EXCEPT !.pc = place]
          PROVE  CallsFit'
      <3>1. call'[c].pc = place /\ call'[c].request = call[c].request
        BY <2>1, <2>6 DEF CommandCall
      <3>2. PICK a \in Attempts, j \in Jobs \cup {None} :
              a = call[c].request.attempt /\ j = call[c].request.job
        BY <2>1
      <3>3. MadeFor(a, j)'
        BY <2>2, <2>3, <3>2
      <3>4. CallFits(call[c])'
        BY <3>1, <3>2, <3>3 DEF CallFits, Locked, MadeFor
      <3> QED BY <2>4, <3>4, OneCallFits
    <2> QED BY <2>4, <2>5, <2>6
  <1> QED BY <1>1, <1>2

LEMMA OutcomeFits ==
    ASSUME TypeOK, CallsFit, [Next]_vars, NEW c \in Callers,
           CommandSucceeds(c) \/ CommandFails(c) \/ CommandAmbiguous(c)
    PROVE  CallsFit'
  <1>1. /\ call[c].pc = "sent" /\ call[c] \in CommandCall
        /\ call[c].request.attempt \in Attempts /\ call[c].request.job \in Jobs \cup {None}
    BY CallShape DEF CommandSucceeds, CommandFails, CommandAmbiguous, CommandCall, Request
  <1>2. PICK a \in Attempts, j \in Jobs \cup {None}, status \in {"active", "ambiguous", "failed"} :
          /\ a = call[c].request.attempt
          /\ j \in {None, call[c].request.job}
          /\ call' = [call EXCEPT ![c] = [pc |-> "returned", attempt |-> a, status |-> status, job |-> j]]
    BY <1>1 DEF CommandSucceeds, CommandFails, CommandAmbiguous, Outcome
  <1>3. MadeFor(a, j)
    BY <1>1, <1>2 DEF CallsFit, CallFits, MadeFor
  <1>4. MadeFor(a, j)'
    BY <1>3, FitStays
  <1>5. /\ call'[c] = [pc |-> "returned", attempt |-> a, status |-> status, job |-> j]
        /\ \A d \in Callers \ {c} : call'[d] = call[d]
    BY <1>2 DEF TypeOK
  <1>6. CallFits(call[c])'
    BY <1>4, <1>5 DEF CallFits, Locked
  <1> QED BY <1>5, <1>6, OneCallFits

LEMMA MarkFits ==
    ASSUME TypeOK, CallsFit, AttemptsFit, [Next]_vars, NEW c \in Callers,
           MarkReads(c) \/ MarkAttempt(c) \/ MarkHead(c)
    PROVE  CallsFit'
  <1>1. CASE MarkReads(c) \/ MarkAttempt(c)
    <2>1. \/ call[c].pc = "returned" /\ call[c] \in MarkCall
          \/ call[c].pc = "mark_read" /\ call[c] \in MarkReadCall
      BY <1>1, CallShape DEF MarkReads, MarkAttempt
    <2>2. PICK a \in Attempts, j \in Jobs \cup {None} : a = call[c].attempt /\ j = call[c].job
      BY <2>1 DEF MarkCall, MarkReadCall
    <2>3. MadeFor(a, j)'
      BY <2>1, <2>2, FitStays DEF CallsFit, CallFits
    <2>4. PICK i \in Jobs \cup {None} : i = attempts[a].job
      BY DEF TypeOK, AttemptRecord
    <2>5. MadeFor(a, i)'
      BY <2>4, FitStays DEF AttemptsFit
    <2>6. /\ \/ call'[c].pc = "mark_read" /\ call'[c].snapshot.job = i
             \/ call'[c].pc = "marked"
          /\ call'[c].attempt = a /\ call'[c].job = j
          /\ \A d \in Callers \ {c} : call'[d] = call[d]
      BY <1>1, <2>2, <2>4 DEF MarkReads, MarkAttempt, TypeOK
    <2>7. CallFits(call[c])'
      BY <2>3, <2>5, <2>6 DEF CallFits, Locked
    <2> QED BY <2>6, <2>7, OneCallFits
  <1>2. CASE MarkHead(c)
    BY <1>2, CallFitStays, OneCallFits DEF MarkHead, Return, Idle, TypeOK
  <1> QED BY <1>1, <1>2

\* Without foreign observations a record is of a job made for the attempt.
LEMMA ObserveFits ==
    ASSUME TypeOK, CallsFit, AttemptsFit, [Next]_vars, "foreign_observation" \notin Environment,
           NEW c \in Callers, ReconcileAttempt(c) \/ ObserveDirectly(c)
    PROVE  CallsFit'
  <1>1. PICK a \in Attempts, j \in Jobs : Observe(c, a, j) /\ MadeFor(a, j)
    <2>1. CASE ReconcileAttempt(c)
      <3>1. PICK s \in Steps : /\ head[s] # None
                               /\ attempts[head[s]].job # None
                               /\ Observe(c, head[s], attempts[head[s]].job)
        BY <2>1 DEF ReconcileAttempt
      <3>2. head[s] \in Attempts /\ attempts[head[s]].job \in Jobs
        BY <3>1 DEF TypeOK, AttemptRecord
      <3> QED BY <3>1, <3>2 DEF AttemptsFit
    <2>2. CASE ObserveDirectly(c)
      BY <2>2 DEF ObserveDirectly, MadeFor
    <2> QED BY <2>1, <2>2
  <1>2. PICK record \in RecordsOf(j) :
          call' = [call EXCEPT ![c] = [pc |-> "observed", attempt |-> a, record |-> record]]
    BY <1>1 DEF Observe
  <1>3. record.job = j
    BY <1>2 DEF RecordsOf
  <1>4. MadeFor(a, j)'
    BY <1>1, FitStays
  <1>5. /\ call'[c] = [pc |-> "observed", attempt |-> a, record |-> record]
        /\ \A d \in Callers \ {c} : call'[d] = call[d]
    BY <1>2 DEF TypeOK
  <1>6. CallFits(call[c])'
    BY <1>3, <1>4, <1>5 DEF CallFits, Locked
  <1> QED BY <1>5, <1>6, OneCallFits

LEMMA ObservedFits ==
    ASSUME TypeOK, CallsFit, AttemptsFit, [Next]_vars, NEW c \in Callers,
           ObservationReads(c) \/ RecordObservation(c) \/ ObservationHead(c)
    PROVE  CallsFit'
  <1>1. CASE ObservationReads(c)
    <2>1. call[c].pc = "observed" /\ call[c] \in ObserveCall
      BY <1>1, CallShape DEF ObservationReads
    <2>2. PICK a \in Attempts, j \in Jobs : a = call[c].attempt /\ j = call[c].record.job
      BY <2>1 DEF ObserveCall, Observation
    <2>3. MadeFor(a, j)'
      BY <2>1, <2>2, FitStays DEF CallsFit, CallFits
    <2>4. PICK i \in Jobs \cup {None} : i = attempts[a].job
      BY DEF TypeOK, AttemptRecord
    <2>5. MadeFor(a, i)'
      BY <2>4, FitStays DEF AttemptsFit
    <2>6. /\ call'[c].pc = "observation_read"
          /\ call'[c].attempt = a /\ call'[c].record.job = j
          /\ call'[c].snapshot.job = i
          /\ \A d \in Callers \ {c} : call'[d] = call[d]
      BY <1>1, <2>2, <2>4 DEF ObservationReads, TypeOK
    <2>7. CallFits(call[c])'
      BY <2>3, <2>6, <2>5 DEF CallFits, Locked
    <2> QED BY <2>6, <2>7, OneCallFits
  <1>2. CASE RecordObservation(c) \/ ObservationHead(c)
    <2>1. /\ call'[c].pc \in {"idle", "observation_saved"}
          /\ \A d \in Callers \ {c} : call'[d] = call[d]
      BY <1>2 DEF RecordObservation, ObservationHead, Return, Idle, TypeOK
    <2> QED BY <2>1, CallFitStays, OneCallFits
  <1> QED BY <1>1, <1>2

LEMMA FinalizeFits ==
    ASSUME TypeOK, CallsFit, AttemptsFit, [Next]_vars, NEW c \in Callers,
           FinalizeVerified(c) \/ SaveWorkResult(c) \/ SaveSucceeded(c) \/ ClearHead(c)
    PROVE  CallsFit'
  <1>1. CASE FinalizeVerified(c)
    <2>1. PICK a \in Attempts, j \in Jobs :
            /\ job[j].status # "absent"
            /\ \E record \in FinalizeRecords(j) : Finalizable(attempts[a], j, record)
            /\ artifacts' = artifacts \cup {a}
            /\ call' = [call EXCEPT ![c] = [pc |-> "verified", attempt |-> a, job |-> j,
                                           snapshot |-> attempts[a]]]
            /\ UNCHANGED job
      BY <1>1 DEF FinalizeVerified
    <2>2. job[j].status = "completed" /\ attempts[a].job = j
      BY <2>1 DEF FinalizeRecords, Finalizable
    <2>3. MadeFor(a, j)'
      BY <2>2, FitStays DEF AttemptsFit
    <2>4. /\ call'[c] = [pc |-> "verified", attempt |-> a, job |-> j, snapshot |-> attempts[a]]
          /\ \A d \in Callers \ {c} : call'[d] = call[d]
      BY <2>1 DEF TypeOK
    <2>5. CallFits(call[c])'
      BY <2>1, <2>2, <2>3, <2>4 DEF CallFits, Locked
    <2> QED BY <2>4, <2>5, OneCallFits
  <1>2. CASE SaveWorkResult(c) \/ SaveSucceeded(c)
    <2>1. call[c].pc \in {"verified", "result_saved"} /\ call[c] \in FinalizeCall
      BY <1>2, CallShape DEF SaveWorkResult, SaveSucceeded
    <2>2. PICK a \in Attempts, j \in Jobs : a = call[c].attempt /\ j = call[c].job
      BY <2>1 DEF FinalizeCall
    <2>3. /\ MadeFor(a, j) /\ job[j].status = "completed"
          /\ a \in artifacts /\ call[c].snapshot.job = j
      BY <2>1, <2>2 DEF CallsFit, CallFits
    <2>4. MadeFor(a, j)' /\ job'[j].status = "completed" /\ a \in artifacts'
      BY <2>3, FitStays
    <2>5. /\ call'[c].pc \in {"result_saved", "attempt_saved"}
          /\ call'[c].attempt = a /\ call'[c].job = j /\ call'[c].snapshot = call[c].snapshot
          /\ \A d \in Callers \ {c} : call'[d] = call[d]
      BY <1>2, <2>1, <2>2 DEF SaveWorkResult, SaveSucceeded, Goto, TypeOK, FinalizeCall
    <2>6. CallFits(call[c])'
      BY <2>3, <2>4, <2>5 DEF CallFits, Locked
    <2> QED BY <2>5, <2>6, OneCallFits
  <1>3. CASE ClearHead(c)
    BY <1>3, CallFitStays, OneCallFits DEF ClearHead, Return, Idle, TypeOK
  <1> QED BY <1>1, <1>2, <1>3

\* A created job is made for the attempt of the call it is answered to.
LEMMA ProviderFits ==
    ASSUME TypeOK, CallsFit, [Next]_vars, Provider
    PROVE  CallsFit'
  <1> SUFFICES ASSUME NEW c \in Callers PROVE CallFits(call[c])'
    BY DEF CallsFit
  <1>1. CASE call'[c] = call[c]
    BY <1>1, CallFitStays
  <1>2. CASE call'[c] # call[c]
    <2>1. PICK r \in net : JobCreated(r)
      BY <1>2 DEF Provider, ProviderActs, JobFunded, JobChanged, JobEnds, ApprovalExpires
    <2>2. PICK j \in Jobs :
            /\ job' = [job EXCEPT ![j] = [status |-> "open", by |-> r.attempt, paid |-> 0]]
            /\ call[c].pc = "sent" /\ call[c].request = r
            /\ call'[c] = [call[c] EXCEPT !.request.job = j]
      BY <1>2, <2>1 DEF JobCreated
    <2>3. call[c] \in CommandCall
      BY <2>2, CallShape
    <2>4. call'[c].pc = "sent" /\ call'[c].request.job = j /\ call'[c].request.attempt = r.attempt
      BY <2>2, <2>3 DEF CommandCall, Request
    <2>5. job'[j] = [status |-> "open", by |-> r.attempt, paid |-> 0]
      BY <2>2 DEF TypeOK
    <2> QED BY <2>4, <2>5 DEF CallFits, MadeFor, Locked
  <1> QED BY <1>1, <1>2

LEMMA NextCallsFit ==
    ASSUME TypeOK, CallsFit, AttemptsFit, [Next]_vars, "foreign_observation" \notin Environment
    PROVE  CallsFit'
  <1>1. CASE Crash
    BY <1>1, CallFitStays DEF Crash, Idle, CallsFit
  <1>2. CASE UNCHANGED vars
    BY <1>2, CallFitStays DEF vars, CallsFit
  <1> QED BY <1>1, <1>2, CommandFits, OutcomeFits, MarkFits, ObserveFits, ObservedFits, FinalizeFits,
             ProviderFits DEF Next, Continue

LEMMA NextAttemptsFit ==
    ASSUME TypeOK, CallsFit, AttemptsFit, [Next]_vars
    PROVE  AttemptsFit'
  <1> SUFFICES ASSUME NEW a \in Attempts PROVE MadeFor(a, attempts[a].job)'
    BY DEF AttemptsFit
  <1>1. CASE attempts'[a].job = attempts[a].job
    <2>1. attempts[a].job \in Jobs \cup {None} /\ MadeFor(a, attempts[a].job)
      BY DEF TypeOK, AttemptRecord, AttemptsFit
    <2> QED BY <1>1, <2>1, FitStays DEF MadeFor
  <1>2. CASE attempts'[a].job # attempts[a].job
    <2>1. PICK j \in Jobs \cup {None} : attempts'[a].job = j /\ MadeFor(a, j)
      <3>1. ASSUME NEW c \in Callers, SaveIntent(c) PROVE attempts'[a].job = None
        BY <1>2, <3>1 DEF SaveIntent, IntentOf, TypeOK
      <3>2. ASSUME NEW c \in Callers, MarkAttempt(c)
            PROVE  attempts'[a].job \in Jobs \cup {None} /\ MadeFor(a, attempts'[a].job)
        <4>1. call[c] \in MarkReadCall /\ call[c].pc = "mark_read"
          BY <3>2, CallShape DEF MarkAttempt
        <4>2. call[c].attempt = a /\ attempts'[a].job \in {call[c].job, call[c].snapshot.job}
          BY <1>2, <3>2, <4>1 DEF MarkAttempt, TypeOK, MarkReadCall, AttemptRecord
        <4> QED BY <4>1, <4>2 DEF CallsFit, CallFits, MarkReadCall, AttemptRecord
      <3>3. ASSUME NEW c \in Callers, RecordObservation(c)
            PROVE  attempts'[a].job \in Jobs \cup {None} /\ MadeFor(a, attempts'[a].job)
        <4>1. call[c] \in ObserveReadCall /\ call[c].pc = "observation_read"
          BY <3>3, CallShape DEF RecordObservation
        <4>2. call[c].attempt = a /\ attempts'[a].job = call[c].record.job
          BY <1>2, <3>3 DEF RecordObservation, TypeOK
        <4> QED BY <4>1, <4>2 DEF CallsFit, CallFits, ObserveReadCall, Observation
      <3>4. ASSUME NEW c \in Callers, SaveSucceeded(c)
            PROVE  attempts'[a].job \in Jobs \cup {None} /\ MadeFor(a, attempts'[a].job)
        <4>1. call[c] \in FinalizeCall /\ call[c].pc = "result_saved"
          BY <3>4, CallShape DEF SaveSucceeded
        <4>2. call[c].attempt = a /\ attempts'[a].job = call[c].snapshot.job
          BY <1>2, <3>4, <4>1 DEF SaveSucceeded, TypeOK, FinalizeCall, AttemptRecord
        <4> QED BY <4>1, <4>2 DEF CallsFit, CallFits, FinalizeCall
      <3> QED BY <1>2, <3>1, <3>2, <3>3, <3>4, AttemptWriters DEF MadeFor
    <2> QED BY <2>1, FitStays DEF MadeFor
  <1> QED BY <1>1, <1>2

\* Only SaveWorkResult writes a result.
LEMMA WorkWriters ==
    ASSUME [Next]_vars
    PROVE  UNCHANGED work \/ \E c \in Callers : SaveWorkResult(c)
  <1>1. ASSUME NEW c \in Callers, Continue(c), ~ SaveWorkResult(c) PROVE UNCHANGED work
    BY <1>1 DEF Continue, Reserve, SaveIntent, SendCommand, CommandSucceeds, CommandFails,
                CommandAmbiguous, MarkReads, MarkAttempt, MarkHead,
                ObservationReads, RecordObservation, ObservationHead,
                SaveSucceeded, ClearHead, store
  <1>2. ASSUME NEW c \in Callers, CreateJob(c) \/ PaidAction(c) PROVE UNCHANGED work
    BY <1>2, BeginOfRequest DEF Begin, store
  <1>3. ASSUME NEW c \in Callers,
               ReconcileAttempt(c) \/ ObserveDirectly(c) \/ FinalizeVerified(c)
        PROVE  UNCHANGED work
    BY <1>3 DEF ReconcileAttempt, ObserveDirectly, Observe, FinalizeVerified, store
  <1>4. Provider \/ Crash \/ UNCHANGED vars => UNCHANGED work
    BY DEF Provider, ProviderActs, JobEnds, ApprovalExpires, Crash, store, vars
  <1> QED BY <1>1, <1>2, <1>3, <1>4 DEF Next

LEMMA NextReuse ==
    ASSUME TypeOK, CallsFit, ResultsWhole, VerifiedReuse, [Next]_vars
    PROVE  ResultsWhole' /\ VerifiedReuse'
  <1> SUFFICES ASSUME NEW s \in Signatures, work'[s] # NoWork
               PROVE  /\ work'[s].job \in Jobs
                      /\ job'[work'[s].job].status = "completed"
                      /\ SigOf[job'[work'[s].job].by] = s
                      /\ SigOf[work'[s].attempt] = s
                      /\ work'[s].attempt \in artifacts'
    BY DEF ResultsWhole, VerifiedReuse, SigOfJob
  <1>1. CASE work'[s] = work[s]
    <2>1. work[s].job \in Jobs
      BY <1>1 DEF ResultsWhole
    <2>2. /\ job[work[s].job].status = "completed" /\ SigOf[job[work[s].job].by] = s
          /\ SigOf[work[s].attempt] = s /\ work[s].attempt \in artifacts
      BY <1>1 DEF VerifiedReuse, SigOfJob
    <2>3. /\ job'[work[s].job].status = "completed"
          /\ job'[work[s].job].by = job[work[s].job].by
          /\ work[s].attempt \in artifacts'
      BY <2>1, <2>2, FitStays, RecordsStay
    <2> QED BY <1>1, <2>1, <2>2, <2>3
  <1>2. CASE work'[s] # work[s]
    <2>1. PICK c \in Callers : SaveWorkResult(c)
      BY <1>2, WorkWriters
    <2>2. call[c].pc = "verified" /\ call[c].attempt \in Attempts /\ call[c].job \in Jobs
      BY <2>1, CallShape DEF SaveWorkResult, FinalizeCall
    <2>3. /\ s = SigOf[call[c].attempt]
          /\ work'[s] = [attempt |-> call[c].attempt, job |-> call[c].job]
          /\ UNCHANGED <<job, artifacts>>
      BY <1>2, <2>1 DEF SaveWorkResult, TypeOK
    <2>4. /\ MadeFor(call[c].attempt, call[c].job) /\ job[call[c].job].status = "completed"
          /\ call[c].attempt \in artifacts
      BY <2>2 DEF CallsFit, CallFits
    <2> QED BY <2>2, <2>3, <2>4, ConstantsAssumption DEF MadeFor
  <1> QED BY <1>1, <1>2

\* As long as no job of another signature is recorded for an attempt, a reusable
\* result is the output of a completed job made for its own signature, whatever
\* callers, provider, crashes and conflicting histories come between.
THEOREM ReuseHolds == Spec => []("foreign_observation" \notin Environment => VerifiedReuse)
  <1> DEFINE Reused == CallsFit /\ AttemptsFit /\ ResultsWhole /\ VerifiedReuse
  <1>1. Init => Reused
    BY DEF Init, CallsFit, CallFits, AttemptsFit, MadeFor, ResultsWhole, VerifiedReuse, Idle,
                Locked, NoAttempt, NoWork
  <1>2. TypeOK /\ ("foreign_observation" \notin Environment => Reused) /\ [Next]_vars
          => ("foreign_observation" \notin Environment => Reused)'
    BY NextCallsFit, NextAttemptsFit, NextReuse
  <1>3. ("foreign_observation" \notin Environment => Reused)
          => ("foreign_observation" \notin Environment => VerifiedReuse)
    OBVIOUS
  <1> HIDE DEF Reused
  <1> QED BY <1>1, <1>2, <1>3, TypeCorrect, PTL DEF Spec

\* A call that finalizes has left behind it what an attempt recorded as succeeded
\* must have: first the artifact, then the result.
ResultBehind(k) ==
    /\ k.pc \in {"verified", "result_saved", "attempt_saved"} => k.attempt \in artifacts
    /\ k.pc \in {"result_saved", "attempt_saved"} => work[SigOf[k.attempt]] # NoWork

ResultsBehind == \A c \in Callers : ResultBehind(call[c])

\* A result that is kept is replaced by another at most.
LEMMA ResultStays ==
    ASSUME TypeOK, [Next]_vars, NEW s \in Signatures, work[s] # NoWork
    PROVE  work'[s] # NoWork
  <1>1. ASSUME NEW c \in Callers, SaveWorkResult(c) PROVE work'[s] # NoWork
    <2>1. call[c].attempt \in Attempts
      BY <1>1, CallShape DEF SaveWorkResult, FinalizeCall
    <2> QED BY <1>1, <2>1, ConstantsAssumption DEF SaveWorkResult, NoWork, TypeOK
  <1> QED BY <1>1, WorkWriters

LEMMA ResultBehindStays ==
    ASSUME TypeOK, ResultsBehind, [Next]_vars, NEW c \in Callers,
           call'[c] = call[c] \/ call'[c].pc \notin {"verified", "result_saved", "attempt_saved"}
    PROVE  ResultBehind(call[c])'
  <1>1. CASE call'[c].pc \notin {"verified", "result_saved", "attempt_saved"}
    BY <1>1 DEF ResultBehind
  <1>2. CASE call'[c] = call[c] /\ call[c].pc \in {"verified", "result_saved", "attempt_saved"}
    <2>1. call[c].attempt \in Attempts /\ SigOf[call[c].attempt] \in Signatures
      BY <1>2, CallShape, ConstantsAssumption DEF FinalizeCall
    <2>2. ResultBehind(call[c])
      BY DEF ResultsBehind
    <2> QED BY <1>2, <2>1, <2>2, FitStays, ResultStays DEF ResultBehind
  <1> QED BY <1>1, <1>2

LEMMA NextBehind ==
    ASSUME TypeOK, ResultsBehind, [Next]_vars, NEW c \in Callers
    PROVE  ResultBehind(call[c])'
  <1>1. ASSUME NEW d \in Callers,
               FinalizeVerified(d) \/ SaveWorkResult(d) \/ SaveSucceeded(d) \/ ClearHead(d)
        PROVE  ResultBehind(call[c])'
    <2>1. CASE c # d
      <3>1. call'[c] = call[c]
        BY <1>1, <2>1 DEF FinalizeVerified, SaveWorkResult, SaveSucceeded, ClearHead, Goto,
                          Return, TypeOK
      <3> QED BY <3>1, ResultBehindStays
    <2>2. CASE c = d /\ FinalizeVerified(c)
      BY <2>2 DEF FinalizeVerified, ResultBehind, TypeOK
    <2>3. CASE c = d /\ (SaveWorkResult(c) \/ SaveSucceeded(c))
      <3>1. call[c] \in FinalizeCall /\ call[c].pc \in {"verified", "result_saved"}
        BY <2>3, CallShape DEF SaveWorkResult, SaveSucceeded
      <3>2. PICK a \in Attempts, s \in Signatures : a = call[c].attempt /\ s = SigOf[a]
        BY <3>1, ConstantsAssumption DEF FinalizeCall
      <3>3. /\ a \in artifacts' /\ (call[c].pc = "result_saved" => work'[s] # NoWork)
        BY <2>3, <3>1, <3>2, FitStays, ResultStays DEF ResultsBehind, ResultBehind
      <3>4. call'[c].attempt = a /\ call'[c].pc \in {"result_saved", "attempt_saved"}
        BY <2>3, <3>1, <3>2 DEF SaveWorkResult, SaveSucceeded, Goto, FinalizeCall, TypeOK
      <3>5. SaveWorkResult(c) => work'[s] # NoWork
        BY <3>1, <3>2, ConstantsAssumption DEF SaveWorkResult, NoWork, TypeOK
      <3>6. work'[s] # NoWork
        BY <2>3, <3>3, <3>5 DEF SaveSucceeded
      <3> QED BY <3>2, <3>3, <3>4, <3>6 DEF ResultBehind
    <2>4. CASE c = d /\ ClearHead(c)
      <3>1. call'[c] = Idle
        BY <2>4 DEF ClearHead, Return, TypeOK
      <3> QED BY <3>1, ResultBehindStays DEF Idle
    <2> QED BY <1>1, <2>1, <2>2, <2>3, <2>4
  <1>2. ASSUME NEW d \in Callers,
               \/ CreateJob(d) \/ PaidAction(d) \/ ReconcileAttempt(d) \/ ObserveDirectly(d)
               \/ CommandSucceeds(d) \/ CommandFails(d) \/ CommandAmbiguous(d)
               \/ MarkReads(d) \/ MarkAttempt(d) \/ MarkHead(d)
               \/ ObservationReads(d) \/ RecordObservation(d) \/ ObservationHead(d)
        PROVE  ResultBehind(call[c])'
    <2>1. \/ call'[c] = call[c]
          \/ call'[c].pc \notin {"verified", "result_saved", "attempt_saved"}
      <3>1. CASE CreateJob(d) \/ PaidAction(d)
        BY <3>1, BeginOfRequest DEF Begin, TypeOK
      <3>2. CASE ~ (CreateJob(d) \/ PaidAction(d))
        BY <1>2, <3>2 DEF ReconcileAttempt, ObserveDirectly, Observe, CommandSucceeds,
             CommandFails, CommandAmbiguous, Outcome, MarkReads, MarkAttempt, MarkHead,
             ObservationReads, RecordObservation, ObservationHead, Return, Idle, TypeOK
      <3> QED BY <3>1, <3>2
    <2> QED BY <2>1, ResultBehindStays
  <1>3. ASSUME NEW d \in Callers, Reserve(d) \/ SaveIntent(d) \/ SendCommand(d)
        PROVE  ResultBehind(call[c])'
    <2>1. call[d] \in CommandCall
      BY <1>3, CallShape DEF Reserve, SaveIntent, SendCommand, Locked
    <2>2. \/ call'[c] = call[c]
          \/ call'[c].pc \notin {"verified", "result_saved", "attempt_saved"}
      BY <1>3, <2>1 DEF Reserve, SaveIntent, SendCommand, Goto, Return, Idle, CommandCall, TypeOK
    <2> QED BY <2>2, ResultBehindStays
  <1>4. ASSUME Provider \/ Crash \/ UNCHANGED vars PROVE ResultBehind(call[c])'
    <2>1. \/ UNCHANGED call \/ call'[c] = Idle
          \/ \E r \in net : JobCreated(r)
      BY <1>4 DEF Provider, ProviderActs, JobFunded, JobChanged, JobEnds, ApprovalExpires, Crash, vars
    <2>2. ASSUME NEW r \in net, JobCreated(r)
          PROVE  \/ call'[c] = call[c]
                 \/ call'[c].pc \notin {"verified", "result_saved", "attempt_saved"}
      <3>1. call[c].pc = "sent" => call[c] \in CommandCall
        BY CallShape
      <3> QED BY <2>2, <3>1 DEF JobCreated, CommandCall
    <2> QED BY <2>1, <2>2, ResultBehindStays DEF Idle
  <1> QED BY <1>1, <1>2, <1>3, <1>4 DEF Next, Continue

LEMMA NextResultKept ==
    ASSUME TypeOK, ResultsBehind, PaidResultKept, [Next]_vars
    PROVE  PaidResultKept'
  <1> SUFFICES ASSUME NEW a \in Attempts, attempts'[a].status = "succeeded"
               PROVE  work'[SigOf[a]] # NoWork /\ a \in artifacts'
    BY DEF PaidResultKept
  <1>1. SigOf[a] \in Signatures
    BY ConstantsAssumption
  <1>2. CASE attempts'[a] = attempts[a]
    BY <1>1, <1>2, FitStays, ResultStays DEF PaidResultKept
  <1>3. ASSUME NEW c \in Callers, SaveIntent(c), attempts'[a] # attempts[a] PROVE FALSE
    BY <1>3 DEF SaveIntent, IntentOf, TypeOK
  <1>4. ASSUME NEW c \in Callers, MarkAttempt(c), attempts'[a] # attempts[a] PROVE FALSE
    <2>1. call[c] \in MarkReadCall
      BY <1>4, CallShape DEF MarkAttempt
    <2> QED BY <1>4, <2>1 DEF MarkAttempt, MarkReadCall, MarkStates, TypeOK, AttemptRecord
  <1>5. ASSUME NEW c \in Callers, RecordObservation(c), attempts'[a] # attempts[a] PROVE FALSE
    BY <1>5 DEF RecordObservation, ObservedStatus, TypeOK
  <1>6. ASSUME NEW c \in Callers, SaveSucceeded(c), attempts'[a] # attempts[a]
        PROVE  work'[SigOf[a]] # NoWork /\ a \in artifacts'
    <2>1. call[c].pc = "result_saved" /\ call[c].attempt = a /\ UNCHANGED <<work, artifacts>>
      BY <1>6 DEF SaveSucceeded, TypeOK
    <2> QED BY <2>1 DEF ResultsBehind, ResultBehind
  <1> QED BY <1>2, <1>3, <1>4, <1>5, <1>6, AttemptWriters

\* Wherever finalization stops, and whatever other threads, crashes and observations
\* write in between, an attempt recorded as succeeded has its result and artifact.
THEOREM ResultKept == Spec => []PaidResultKept
  <1> DEFINE Kept == ResultsBehind /\ PaidResultKept
  <1>1. Init => Kept
    BY DEF Init, ResultsBehind, ResultBehind, PaidResultKept, Idle, NoAttempt
  <1>2. TypeOK /\ Kept /\ [Next]_vars => Kept'
    BY NextBehind, NextResultKept DEF ResultsBehind
  <1>3. Kept => PaidResultKept
    OBVIOUS
  <1> HIDE DEF Kept
  <1> QED BY <1>1, <1>2, <1>3, TypeCorrect, PTL DEF Spec

-----------------------------------------------------------------------------
(***************************************************************************)
(* At most one live job.  The theorems are about one thread, a signature    *)
(* per step, and an environment without the four conditions that the        *)
(* README shows to break the property.  What they rule out for any number   *)
(* of attempts, jobs and steps is a duplicate after crashes, timeouts,      *)
(* failed creations, jobs that end and attempts that are used again.        *)
(*                                                                         *)
(* SigSound relates what a signature has: live jobs, open attempts (which   *)
(* may be finalized) and creations the provider may still act on.          *)
(***************************************************************************)
Orderly ==
    /\ \A c, d \in Callers : c = d
    /\ \A s, t \in Signatures : StepOf[s] = StepOf[t] => s = t
    /\ Environment \subseteq {"crash", "create_failure", "job_ends", "expiry"}

Guarded(s, statuses) ==
    /\ head[StepOf[s]] # None
    /\ SigOf[head[StepOf[s]]] = s
    /\ attempts[head[StepOf[s]]].status \in statuses

Open(a) == attempts[a].job # None /\ attempts[a].status \in {"active", "reconciliation_required"}

LiveOf(s) == {j \in Jobs : IsLive(j) /\ SigOfJob(j) = s}
OpenOf(s) == {a \in Attempts : Open(a) /\ SigOf[a] = s}
CreationsOf(s) == {r \in net : r.action = "create_job" /\ SigOf[r.attempt] = s}

Quiet(s) == LiveOf(s) = {} /\ OpenOf(s) = {} /\ CreationsOf(s) = {}

SigSound(s) ==
    /\ \A i, j \in LiveOf(s) : i = j
    /\ \A a, b \in OpenOf(s) : a = b
    /\ \A r, q \in CreationsOf(s) : r = q
    /\ \A a \in OpenOf(s), j \in LiveOf(s) : attempts[a].job = j
    /\ ~ Guarded(s, ActiveStates) => Quiet(s)
    /\ CreationsOf(s) # {} =>
         LiveOf(s) = {} /\ OpenOf(s) = {} /\ Guarded(s, {"submitting", "ambiguous"})

AttemptSound(a) ==
    /\ attempts[a].status \in {"absent", "submitting", "ambiguous"} => attempts[a].job = None
    /\ attempts[a].status \notin {"blocked", "planned", "awaiting_provider"}
    /\ attempts[a].req \in {None, SigOf[a]}

\* No creation is left to act on, and if it was j that one made, no other lives.
Answered(s, j) ==
    /\ CreationsOf(s) = {}
    /\ j # None => OpenOf(s) = {} /\ LiveOf(s) \subseteq {j}

Heads(a) == head[StepOfAttempt(a)] = a

\* A call that is to write relies on what it found: nothing came in between.
RequestSound(k, r) ==
    /\ k.pc \in Locked => IF r.action = "create_job"
                          THEN r.job = None /\ Quiet(SigOf[r.attempt])
                          ELSE CreationsOf(SigOf[r.attempt]) = {}
    /\ k.pc \in {"intent_saved", "sent"} => attempts[r.attempt].status = "submitting"
    /\ k.pc = "sent" =>
         /\ Heads(r.attempt)
         /\ IF r.action = "create_job" /\ r.job = None
            THEN r \in net
            ELSE Answered(SigOf[r.attempt], IF r.action = "create_job" THEN r.job ELSE None)

OutcomeSound(k, a) ==
    /\ Heads(a)
    /\ attempts[a].status = IF k.pc = "marked" THEN k.status ELSE "submitting"
    /\ k.pc # "marked" /\ k.status = "active" => Answered(SigOf[a], k.job)
    /\ k.status = "ambiguous" => k.job = None
    /\ k.status = "failed" => Quiet(SigOf[a])

RecordSound(a, record) ==
    /\ Heads(a)
    /\ attempts[a].job = record.job
    /\ record.status \notin LiveJobStates => ~ IsLive(record.job)
    /\ ~ record.conflict
    /\ record.req \in {None, SigOf[a]}

CallOrderly(k) ==
    /\ k.pc \in Locked \cup {"sent"} => RequestSound(k, k.request)
    /\ k.pc \in {"returned", "mark_read", "marked"} => OutcomeSound(k, k.attempt)
    /\ k.pc \in {"observed", "observation_read"} => RecordSound(k.attempt, k.record)
    /\ k.pc \in {"mark_read", "observation_read"} => k.snapshot = attempts[k.attempt]
    /\ k.pc = "observation_saved" =>
         /\ Heads(k.attempt)
         /\ k.status \in EndStates => Quiet(SigOf[k.attempt])
    /\ k.pc \in {"verified", "result_saved"} =>
         attempts[k.attempt] = k.snapshot /\ Open(k.attempt)
    /\ k.pc = "attempt_saved" => Quiet(SigOf[k.attempt])

SigsSound == \A s \in Signatures : SigSound(s)
AttemptsSound == \A a \in Attempts : AttemptSound(a)
CallsOrderly == \A c \in Callers : CallOrderly(call[c])
HeadsPlaced == \A t \in Steps : head[t] # None => StepOfAttempt(head[t]) = t
Steady == SigsSound /\ AttemptsSound /\ CallsOrderly

\* A signature whose attempts and head a step leaves alone, and which gets no job
\* and no creation by it, stays sound and quiet.
LEMMA SigStays ==
    ASSUME TypeOK, NEW s \in Signatures, SigSound(s),
           LiveOf(s)' \subseteq LiveOf(s), CreationsOf(s)' \subseteq CreationsOf(s),
           head'[StepOf[s]] = head[StepOf[s]],
           \A a \in Attempts : SigOf[a] = s => attempts'[a] = attempts[a]
    PROVE  /\ SigSound(s)'
           /\ OpenOf(s)' = OpenOf(s)
           /\ Quiet(s) => Quiet(s)'
  <1>1. OpenOf(s)' = OpenOf(s) /\ \A a \in OpenOf(s) : attempts'[a].job = attempts[a].job
    BY DEF OpenOf, Open
  <1>2. \A statuses : Guarded(s, statuses)' <=> Guarded(s, statuses)
    BY ConstantsAssumption DEF Guarded, TypeOK
  <1>3. Quiet(s) => Quiet(s)'
    BY <1>1 DEF Quiet
  <1> QED BY <1>1, <1>2, <1>3 DEF SigSound

\* The same of all signatures, when a step writes neither attempt, head nor job and
\* sends no command.
LEMMA NothingSaved ==
    ASSUME TypeOK, SigsSound, AttemptsSound, UNCHANGED <<attempts, head, job>>, net' \subseteq net
    PROVE  /\ SigsSound' /\ AttemptsSound'
           /\ \A s \in Signatures : /\ Quiet(s) => Quiet(s)'
                                    /\ LiveOf(s)' = LiveOf(s)
                                    /\ OpenOf(s)' = OpenOf(s)
                                    /\ CreationsOf(s)' \subseteq CreationsOf(s)
  <1>1. ASSUME NEW s \in Signatures
        PROVE  /\ SigSound(s)' /\ (Quiet(s) => Quiet(s)')
               /\ LiveOf(s)' = LiveOf(s) /\ OpenOf(s)' = OpenOf(s)
               /\ CreationsOf(s)' \subseteq CreationsOf(s)
    <2>1. LiveOf(s)' = LiveOf(s)
      BY DEF LiveOf, IsLive, SigOfJob
    <2>2. CreationsOf(s)' \subseteq CreationsOf(s)
      BY DEF CreationsOf
    <2> QED BY <2>1, <2>2, SigStays DEF SigsSound
  <1>2. AttemptsSound'
    BY DEF AttemptsSound, AttemptSound
  <1> QED BY <1>1, <1>2 DEF SigsSound

\* A step that writes an attempt or its head is a matter of that attempt's signature.
LEMMA OneSigSaved ==
    ASSUME TypeOK, Orderly, SigsSound, AttemptsSound, NEW a \in Attempts,
           \A b \in Attempts \ {a} : attempts'[b] = attempts[b],
           \A t \in Steps \ {StepOfAttempt(a)} : head'[t] = head[t],
           \A r \in net' : r \in net \/ r.attempt = a,
           UNCHANGED job,
           SigSound(SigOf[a])', AttemptSound(a)'
    PROVE  SigsSound' /\ AttemptsSound'
  <1>1. ASSUME NEW s \in Signatures, s # SigOf[a] PROVE SigSound(s)'
    <2>1. LiveOf(s)' = LiveOf(s) /\ CreationsOf(s)' \subseteq CreationsOf(s)
      BY <1>1 DEF LiveOf, IsLive, SigOfJob, CreationsOf
    <2>2. SigOf[a] \in Signatures /\ StepOf[s] \in Steps
      BY ConstantsAssumption
    <2>3. StepOf[s] # StepOfAttempt(a)
      BY <1>1, <2>2 DEF Orderly, StepOfAttempt
    <2>4. \A b \in Attempts : SigOf[b] = s => attempts'[b] = attempts[b]
      BY <1>1
    <2>5. SigSound(s) /\ head'[StepOf[s]] = head[StepOf[s]]
      BY <2>2, <2>3 DEF SigsSound
    <2> QED BY <2>1, <2>4, <2>5, SigStays
  <1>2. AttemptsSound'
    BY DEF AttemptsSound, AttemptSound
  <1> QED BY <1>1, <1>2 DEF SigsSound

\* There is one caller, so what its call may rely on is all that is to be shown.
LEMMA OneCaller ==
    ASSUME Orderly, NEW c \in Callers, SigsSound', AttemptsSound', CallOrderly(call[c])'
    PROVE  Steady'
  BY DEF Orderly, Steady, CallsOrderly

\* An ended call relies on nothing.
LEMMA IdleOrderly ==
    ASSUME NEW c \in Callers, call'[c] = Idle
    PROVE  CallOrderly(call[c])'
  BY DEF CallOrderly, Idle, Locked

\* The head of a step that holds an attempt guards the attempt's signature.
LEMMA HeadGuards ==
    ASSUME NEW a \in Attempts
    PROVE  /\ \A statuses : Guarded(SigOf[a], statuses) <=> OwnedByHead(a, statuses)
           /\ \A statuses : Heads(a) /\ attempts[a].status \in statuses => Guarded(SigOf[a], statuses)
           /\ \A statuses : Heads(a) /\ attempts[a].status \notin statuses
                              => ~ Guarded(SigOf[a], statuses)
  BY ConstantsAssumption DEF Guarded, OwnedByHead, Heads, StepOfAttempt

LEMMA BeginSteady ==
    ASSUME TypeOK, Orderly, Steady, NEW c \in Callers, CreateJob(c) \/ PaidAction(c)
    PROVE  Steady'
  <1>1. PICK approval \in Approvals, r \in Request :
          Begin(c, approval, r) /\ Addressed(r) /\ (r.action = "create_job" => r.job = None)
    BY BeginOfRequest
  <1>2. /\ call'[c] = [pc |-> "authorized", approval |-> approval, request |-> r]
        /\ UNCHANGED <<attempts, head, job, net>>
    BY <1>1 DEF Begin, TypeOK, store
  <1>3. r.attempt \in Attempts /\ SigOf[r.attempt] \in Signatures
    BY ConstantsAssumption DEF Request
  <1>4. /\ SigsSound' /\ AttemptsSound'
        /\ Quiet(SigOf[r.attempt]) => Quiet(SigOf[r.attempt])'
        /\ CreationsOf(SigOf[r.attempt])' \subseteq CreationsOf(SigOf[r.attempt])
    BY <1>2, <1>3, NothingSaved DEF Steady
  <1>5. SigSound(SigOf[r.attempt])
    BY <1>3 DEF Steady, SigsSound
  <1>6. CASE r.action = "create_job"
    <2>1. Quiet(SigOf[r.attempt])
      BY <1>1, <1>3, <1>5, <1>6, HeadGuards DEF Begin, SigSound
    <2> QED BY <1>1, <1>2, <1>4, <1>6, <2>1, OneCaller DEF CallOrderly, RequestSound, Locked
  <1>7. CASE r.action # "create_job"
    <2>1. ~ Guarded(SigOf[r.attempt], {"submitting", "ambiguous"})
      BY <1>1, <1>3, <1>7, HeadGuards DEF Begin, UncertainStates, Guarded
    <2>2. CreationsOf(SigOf[r.attempt]) = {}
      BY <1>5, <2>1 DEF SigSound
    <2> QED BY <1>1, <1>2, <1>4, <1>7, <2>2, OneCaller DEF CallOrderly, RequestSound, Locked
  <1> QED BY <1>6, <1>7

LEMMA ReserveSteady ==
    ASSUME TypeOK, Orderly, Steady, NEW c \in Callers, Reserve(c)
    PROVE  Steady'
  <1>1. call[c] \in CommandCall /\ call[c].pc = "authorized"
    BY CallShape DEF Reserve, Locked
  <1>2. PICK r \in Request : r = call[c].request
    BY <1>1 DEF CommandCall
  <1>3. /\ call'[c] = Idle \/ (call'[c].pc = "reserved" /\ call'[c].request = r)
        /\ UNCHANGED <<attempts, head, job, net>>
    BY <1>1, <1>2 DEF Reserve, Goto, Return, TypeOK, CommandCall
  <1>4. SigOf[r.attempt] \in Signatures
    BY ConstantsAssumption DEF Request
  <1>5. /\ SigsSound' /\ AttemptsSound'
        /\ Quiet(SigOf[r.attempt]) => Quiet(SigOf[r.attempt])'
        /\ CreationsOf(SigOf[r.attempt])' \subseteq CreationsOf(SigOf[r.attempt])
    BY <1>3, <1>4, NothingSaved DEF Steady
  <1>6. CASE call'[c] = Idle
    BY <1>5, <1>6, IdleOrderly, OneCaller
  <1>7. CASE call'[c].pc = "reserved" /\ call'[c].request = r
    <2>1. IF r.action = "create_job" THEN r.job = None /\ Quiet(SigOf[r.attempt])
                                     ELSE CreationsOf(SigOf[r.attempt]) = {}
      BY <1>1, <1>2 DEF Steady, CallsOrderly, CallOrderly, RequestSound, Locked
    <2>2. CallOrderly(call[c])'
      BY <1>5, <1>7, <2>1 DEF CallOrderly, RequestSound, Locked
    <2> QED BY <1>5, <2>2, OneCaller
  <1> QED BY <1>3, <1>6, <1>7

\* The attempt's job is forgotten, so it is not open; a head that named it
\* guards its signature as before.
LEMMA SaveIntentSteady ==
    ASSUME TypeOK, Orderly, Steady, NEW c \in Callers, SaveIntent(c)
    PROVE  Steady'
  <1>1. call[c] \in CommandCall /\ call[c].pc = "reserved"
    BY CallShape DEF SaveIntent, Locked
  <1>2. PICK r \in Request, a \in Attempts : r = call[c].request /\ a = r.attempt
    BY <1>1 DEF CommandCall, Request
  <1>3. PICK s \in Signatures : s = SigOf[a]
    BY ConstantsAssumption
  <1>4. /\ call'[c].pc = "intent_saved" /\ call'[c].request = r
        /\ attempts'[a].status = "submitting" /\ attempts'[a].job = None
        /\ attempts'[a].req \in {None, s}
        /\ \A b \in Attempts \ {a} : attempts'[b] = attempts[b]
        /\ UNCHANGED <<head, job, net>>
    BY <1>1, <1>2, <1>3 DEF SaveIntent, IntentOf, Goto, TypeOK, CommandCall
  <1>5. IF r.action = "create_job" THEN r.job = None /\ Quiet(s) ELSE CreationsOf(s) = {}
    BY <1>1, <1>2, <1>3 DEF Steady, CallsOrderly, CallOrderly, RequestSound, Locked
  <1>6. LiveOf(s)' = LiveOf(s) /\ CreationsOf(s)' = CreationsOf(s)
    BY <1>4 DEF LiveOf, IsLive, SigOfJob, CreationsOf
  <1>7. /\ OpenOf(s)' \subseteq OpenOf(s)
        /\ \A b \in OpenOf(s)' : attempts'[b] = attempts[b]
    BY <1>4 DEF OpenOf, Open
  <1>8. CreationsOf(s) = {}
    BY <1>5 DEF Quiet
  <1>9. Guarded(s, ActiveStates) => Guarded(s, ActiveStates)'
    BY <1>4, ConstantsAssumption DEF Guarded, ActiveStates, TypeOK
  <1>10. SigSound(s)
    BY DEF Steady, SigsSound
  <1>11. Quiet(s) => Quiet(s)'
    BY <1>6, <1>7 DEF Quiet
  <1>12. SigSound(s)'
    BY <1>6, <1>7, <1>8, <1>9, <1>10, <1>11 DEF SigSound
  <1>13. AttemptSound(a)'
    BY <1>3, <1>4 DEF AttemptSound
  <1>14. SigsSound' /\ AttemptsSound'
    BY <1>3, <1>4, <1>12, <1>13, OneSigSaved DEF Steady
  <1>15. CallOrderly(call[c])'
    BY <1>2, <1>3, <1>4, <1>5, <1>6, <1>11 DEF CallOrderly, RequestSound, Locked
  <1> QED BY <1>14, <1>15, OneCaller

\* The head now names an attempt that is submitting, and a creation finds its
\* signature quiet.
LEMMA SendSteady ==
    ASSUME TypeOK, Orderly, Steady, NEW c \in Callers, SendCommand(c)
    PROVE  Steady'
  <1>1. call[c] \in CommandCall /\ call[c].pc = "intent_saved"
    BY CallShape DEF SendCommand, Locked
  <1>2. PICK r \in Request, a \in Attempts : r = call[c].request /\ a = r.attempt
    BY <1>1 DEF CommandCall, Request
  <1>3. PICK s \in Signatures : s = SigOf[a]
    BY ConstantsAssumption
  <1>4. /\ call'[c].pc = "sent" /\ call'[c].request = r
        /\ net' = net \cup {r}
        /\ Heads(a)'
        /\ \A t \in Steps \ {StepOfAttempt(a)} : head'[t] = head[t]
        /\ UNCHANGED <<attempts, job>>
    BY <1>1, <1>2, ConstantsAssumption
    DEF SendCommand, SetHead, Goto, TypeOK, CommandCall, Heads, StepOfAttempt
  <1>5. /\ IF r.action = "create_job" THEN r.job = None /\ Quiet(s) ELSE CreationsOf(s) = {}
        /\ attempts[a].status = "submitting"
    BY <1>1, <1>2, <1>3 DEF Steady, CallsOrderly, CallOrderly, RequestSound, Locked
  <1>6. LiveOf(s)' = LiveOf(s) /\ OpenOf(s)' = OpenOf(s)
    BY <1>4 DEF LiveOf, IsLive, SigOfJob, OpenOf, Open
  <1>7. CreationsOf(s)' = IF r.action = "create_job" THEN {r} ELSE {}
    BY <1>2, <1>3, <1>4, <1>5 DEF CreationsOf, Quiet
  <1>8. Guarded(s, {"submitting", "ambiguous"})' /\ Guarded(s, ActiveStates)'
    BY <1>3, <1>4, <1>5, ConstantsAssumption DEF Guarded, Heads, StepOfAttempt, ActiveStates
  <1>9. SigSound(s) /\ AttemptSound(a)
    BY DEF Steady, SigsSound, AttemptsSound
  <1>10. SigSound(s)'
    <2>1. CASE r.action = "create_job"
      BY <1>5, <1>6, <1>7, <1>8, <2>1 DEF SigSound, Quiet
    <2>2. CASE r.action # "create_job"
      BY <1>4, <1>6, <1>7, <1>8, <1>9, <2>2 DEF SigSound
    <2> QED BY <2>1, <2>2
  <1>11. AttemptSound(a)'
    BY <1>4, <1>9 DEF AttemptSound
  <1>12. SigsSound' /\ AttemptsSound'
    BY <1>2, <1>3, <1>4, <1>10, <1>11, OneSigSaved DEF Steady
  <1>13. CallOrderly(call[c])'
    BY <1>2, <1>3, <1>4, <1>5, <1>7 DEF CallOrderly, RequestSound, Answered, Locked
  <1> QED BY <1>12, <1>13, OneCaller

\* Only a creation fails, and one that fails is acted on no more.
LEMMA OutcomeSteady ==
    ASSUME TypeOK, Orderly, Steady, NEW c \in Callers,
           CommandSucceeds(c) \/ CommandFails(c) \/ CommandAmbiguous(c)
    PROVE  Steady'
  <1>1. call[c] \in CommandCall /\ call[c].pc = "sent"
    BY CallShape DEF CommandSucceeds, CommandFails, CommandAmbiguous
  <1>2. PICK r \in Request, a \in Attempts : r = call[c].request /\ a = r.attempt
    BY <1>1 DEF CommandCall, Request
  <1>3. PICK s \in Signatures : s = SigOf[a]
    BY ConstantsAssumption
  <1>4. /\ attempts[a].status = "submitting" /\ Heads(a)
        /\ IF r.action = "create_job" /\ r.job = None
           THEN r \in net
           ELSE Answered(s, IF r.action = "create_job" THEN r.job ELSE None)
    BY <1>1, <1>2, <1>3 DEF Steady, CallsOrderly, CallOrderly, RequestSound, Locked
  <1>5. UNCHANGED <<attempts, head, job>> /\ net' \subseteq net
    BY DEF CommandSucceeds, CommandFails, CommandAmbiguous, store
  <1>6. /\ SigsSound' /\ AttemptsSound'
        /\ Quiet(s) => Quiet(s)'
        /\ LiveOf(s)' = LiveOf(s) /\ OpenOf(s)' = OpenOf(s)
        /\ CreationsOf(s)' \subseteq CreationsOf(s)
    BY <1>5, NothingSaved DEF Steady
  <1>7. SigSound(s)
    BY DEF Steady, SigsSound
  <1>8. attempts'[a].status = "submitting" /\ Heads(a)'
    BY <1>4, <1>5 DEF Heads
  <1>9. CASE CommandSucceeds(c)
    <2>1. PICK j \in Jobs \cup {None} :
            /\ j = IF r.action = "create_job" THEN r.job ELSE None
            /\ r.action = "create_job" => r.job # None
            /\ call'[c] = [pc |-> "returned", attempt |-> a, status |-> "active", job |-> j]
      BY <1>2, <1>9 DEF CommandSucceeds, Outcome, TypeOK, Request
    <2>2. Answered(s, j)'
      BY <1>4, <1>6, <2>1 DEF Answered
    <2> QED BY <1>3, <1>6, <1>8, <2>1, <2>2, OneCaller DEF CallOrderly, OutcomeSound, Locked
  <1>10. CASE CommandFails(c)
    <2>1. /\ r.action = "create_job" /\ r \in net /\ net' = net \ {r}
          /\ call'[c] = [pc |-> "returned", attempt |-> a, status |-> "failed", job |-> None]
      BY <1>2, <1>10 DEF CommandFails, Outcome, TypeOK, Orderly
    <2>2. r \in CreationsOf(s)
      BY <1>2, <1>3, <2>1 DEF CreationsOf
    <2>3. CreationsOf(s) = {r} /\ LiveOf(s) = {} /\ OpenOf(s) = {}
      BY <1>7, <2>2 DEF SigSound
    <2>4. Quiet(s)'
      BY <1>6, <2>1, <2>3 DEF Quiet, CreationsOf
    <2> QED BY <1>3, <1>6, <1>8, <2>1, <2>4, OneCaller DEF CallOrderly, OutcomeSound, Locked
  <1>11. CASE CommandAmbiguous(c)
    <2>1. call'[c] = [pc |-> "returned", attempt |-> a, status |-> "ambiguous", job |-> None]
      BY <1>2, <1>11 DEF CommandAmbiguous, Outcome, TypeOK
    <2> QED BY <1>3, <1>6, <1>8, <2>1, OneCaller DEF CallOrderly, OutcomeSound, Locked
  <1> QED BY <1>9, <1>10, <1>11

\* A read adds only that the call now has what is stored.
LEMMA ReadSteady ==
    ASSUME TypeOK, Orderly, Steady, NEW c \in Callers, MarkReads(c) \/ ObservationReads(c)
    PROVE  Steady'
  <1>1. UNCHANGED <<attempts, head, job, net>>
    BY DEF MarkReads, ObservationReads, store
  <1>2. /\ SigsSound' /\ AttemptsSound'
        /\ \A s \in Signatures : /\ Quiet(s) => Quiet(s)'
                                 /\ LiveOf(s)' = LiveOf(s)
                                 /\ OpenOf(s)' = OpenOf(s)
                                 /\ CreationsOf(s)' \subseteq CreationsOf(s)
    BY <1>1, NothingSaved DEF Steady
  <1>3. CASE MarkReads(c)
    <2>1. call[c] \in MarkCall /\ call[c].pc = "returned"
      BY <1>3, CallShape DEF MarkReads
    <2>2. PICK a \in Attempts, j \in Jobs \cup {None}, status \in MarkStates :
            a = call[c].attempt /\ j = call[c].job /\ status = call[c].status
      BY <2>1 DEF MarkCall
    <2>3. SigOf[a] \in Signatures
      BY ConstantsAssumption
    <2>4. OutcomeSound(call[c], a)
      BY <2>1, <2>2 DEF Steady, CallsOrderly, CallOrderly
    <2>5. call'[c] = [pc |-> "mark_read", attempt |-> a, status |-> status, job |-> j,
                      snapshot |-> attempts[a]]
      BY <1>3, <2>2 DEF MarkReads, TypeOK
    <2>6. OutcomeSound(call[c], a)'
      BY <1>1, <1>2, <2>1, <2>2, <2>3, <2>4, <2>5 DEF OutcomeSound, Heads, Answered
    <2>7. CallOrderly(call[c])'
      BY <1>1, <2>5, <2>6 DEF CallOrderly, Locked
    <2> QED BY <1>2, <2>7, OneCaller
  <1>4. CASE ObservationReads(c)
    <2>1. call[c] \in ObserveCall /\ call[c].pc = "observed"
      BY <1>4, CallShape DEF ObservationReads
    <2>2. PICK a \in Attempts, record \in Observation : a = call[c].attempt /\ record = call[c].record
      BY <2>1 DEF ObserveCall
    <2>3. RecordSound(a, record)
      BY <2>1, <2>2 DEF Steady, CallsOrderly, CallOrderly
    <2>4. call'[c] = [pc |-> "observation_read", attempt |-> a, record |-> record,
                      snapshot |-> attempts[a]]
      BY <1>4, <2>2 DEF ObservationReads, TypeOK
    <2>5. RecordSound(a, record)'
      BY <1>1, <2>3 DEF RecordSound, Heads, IsLive
    <2>6. CallOrderly(call[c])'
      BY <1>1, <2>4, <2>5 DEF CallOrderly, Locked
    <2> QED BY <1>2, <2>6, OneCaller
  <1> QED BY <1>3, <1>4

\* The attempt becomes open only as the one answer to its creation.
LEMMA MarkSteady ==
    ASSUME TypeOK, Orderly, Steady, NEW c \in Callers, MarkAttempt(c)
    PROVE  Steady'
  <1>1. call[c] \in MarkReadCall /\ call[c].pc = "mark_read"
    BY CallShape DEF MarkAttempt
  <1>2. PICK a \in Attempts, j \in Jobs \cup {None}, status \in {"active", "ambiguous", "failed"} :
          a = call[c].attempt /\ j = call[c].job /\ status = call[c].status
    BY <1>1 DEF MarkReadCall, MarkStates
  <1>3. PICK s \in Signatures : s = SigOf[a]
    BY ConstantsAssumption
  <1>4. /\ Heads(a) /\ attempts[a].status = "submitting"
        /\ call[c].snapshot = attempts[a]
        /\ status = "active" => Answered(s, j)
        /\ status = "failed" => Quiet(s)
    BY <1>1, <1>2, <1>3 DEF Steady, CallsOrderly, CallOrderly, OutcomeSound, Locked
  <1>5. SigSound(s) /\ AttemptSound(a)
    BY DEF Steady, SigsSound, AttemptsSound
  <1>6. attempts[a].job = None
    BY <1>4, <1>5 DEF AttemptSound
  <1>7. /\ attempts'[a].status = status /\ attempts'[a].job = j /\ attempts'[a].req = attempts[a].req
        /\ \A b \in Attempts \ {a} : attempts'[b] = attempts[b]
        /\ call'[c].pc = "marked" /\ call'[c].attempt = a /\ call'[c].status = status /\ call'[c].job = j
        /\ UNCHANGED <<head, job, net>>
    BY <1>1, <1>2, <1>4, <1>6 DEF MarkAttempt, TypeOK, AttemptRecord
  <1>8. LiveOf(s)' = LiveOf(s) /\ CreationsOf(s)' = CreationsOf(s)
    BY <1>7 DEF LiveOf, IsLive, SigOfJob, CreationsOf
  <1>9. a \notin OpenOf(s) /\ OpenOf(s)' \ {a} = OpenOf(s)
    BY <1>6, <1>7 DEF OpenOf, Open
  <1>10. a \in OpenOf(s)' <=> j # None /\ status = "active"
    BY <1>3, <1>7 DEF OpenOf, Open
  <1>11. Heads(a)'
    BY <1>4, <1>7 DEF Heads
  <1>12. \A b \in OpenOf(s)' \ {a} : attempts'[b].job = attempts[b].job
    BY <1>7, <1>9 DEF OpenOf
  <1>13. CASE status = "active" /\ j # None
    <2>1. OpenOf(s)' = {a} /\ LiveOf(s)' \subseteq {j} /\ CreationsOf(s)' = {}
      BY <1>4, <1>8, <1>9, <1>10, <1>13 DEF Answered
    <2>2. Guarded(s, ActiveStates)'
      BY <1>3, <1>7, <1>11, <1>13, ConstantsAssumption DEF Guarded, Heads, StepOfAttempt, ActiveStates
    <2>3. SigSound(s)'
      BY <1>7, <2>1, <2>2 DEF SigSound
    <2>4. AttemptSound(a)'
      BY <1>5, <1>7, <1>13 DEF AttemptSound
    <2>5. SigsSound' /\ AttemptsSound'
      BY <1>3, <1>7, <2>3, <2>4, OneSigSaved DEF Steady
    <2>6. CallOrderly(call[c])'
      BY <1>7, <1>11, <1>13 DEF CallOrderly, OutcomeSound, Locked
    <2> QED BY <2>5, <2>6, OneCaller
  <1>14. CASE status = "active" /\ j = None
    <2>1. OpenOf(s)' = OpenOf(s) /\ CreationsOf(s)' = {}
      BY <1>4, <1>8, <1>9, <1>10, <1>14 DEF Answered
    <2>2. Guarded(s, ActiveStates)'
      BY <1>3, <1>7, <1>11, <1>14, ConstantsAssumption DEF Guarded, Heads, StepOfAttempt, ActiveStates
    <2>3. SigSound(s)'
      BY <1>5, <1>8, <1>9, <1>12, <2>1, <2>2 DEF SigSound
    <2>4. AttemptSound(a)'
      BY <1>5, <1>7, <1>14 DEF AttemptSound
    <2>5. SigsSound' /\ AttemptsSound'
      BY <1>3, <1>7, <2>3, <2>4, OneSigSaved DEF Steady
    <2>6. CallOrderly(call[c])'
      BY <1>7, <1>11, <1>14 DEF CallOrderly, OutcomeSound, Locked
    <2> QED BY <2>5, <2>6, OneCaller
  <1>15. CASE status = "ambiguous"
    <2>0. j = None
      BY <1>1, <1>2, <1>15 DEF Steady, CallsOrderly, CallOrderly, OutcomeSound, Locked
    <2>1. OpenOf(s)' = OpenOf(s)
      BY <1>9, <1>10, <1>15
    <2>2. Guarded(s, ActiveStates)' /\ Guarded(s, {"submitting", "ambiguous"})'
      BY <1>3, <1>7, <1>11, <1>15, ConstantsAssumption DEF Guarded, Heads, StepOfAttempt, ActiveStates
    <2>3. SigSound(s)'
      BY <1>5, <1>8, <1>9, <1>12, <2>1, <2>2 DEF SigSound
    <2>4. AttemptSound(a)'
      BY <1>5, <1>7, <1>15, <2>0 DEF AttemptSound
    <2>5. SigsSound' /\ AttemptsSound'
      BY <1>3, <1>7, <2>3, <2>4, OneSigSaved DEF Steady
    <2>6. CallOrderly(call[c])'
      BY <1>7, <1>11, <1>15, <2>0 DEF CallOrderly, OutcomeSound, Locked
    <2> QED BY <2>5, <2>6, OneCaller
  <1>16. CASE status = "failed"
    <2>1. Quiet(s)'
      BY <1>4, <1>8, <1>9, <1>10, <1>16 DEF Quiet
    <2>2. SigSound(s)'
      BY <2>1 DEF SigSound, Quiet
    <2>3. AttemptSound(a)'
      BY <1>5, <1>7, <1>16 DEF AttemptSound
    <2>4. SigsSound' /\ AttemptsSound'
      BY <1>3, <1>7, <2>2, <2>3, OneSigSaved DEF Steady
    <2>5. CallOrderly(call[c])'
      BY <1>3, <1>7, <1>11, <1>16, <2>1 DEF CallOrderly, OutcomeSound, Locked
    <2> QED BY <2>4, <2>5, OneCaller
  <1> QED BY <1>13, <1>14, <1>15, <1>16

\* A head that is given up leaves a quiet signature, one that is kept was there.
LEMMA HeadSteady ==
    ASSUME TypeOK, Orderly, Steady, NEW c \in Callers, NEW a \in Attempts,
           call'[c] = Idle,
           \/ SetHead(a, a) /\ Heads(a)
           \/ SetHead(a, None) /\ Quiet(SigOf[a]),
           UNCHANGED <<attempts, job, net>>
    PROVE  Steady'
  <1>1. PICK s \in Signatures : s = SigOf[a]
    BY ConstantsAssumption
  <1>2. CASE SetHead(a, a) /\ Heads(a)
    <2>1. head' = head
      BY <1>2 DEF SetHead, Heads, TypeOK
    <2> QED BY <2>1, NothingSaved, IdleOrderly, OneCaller DEF Steady
  <1>3. CASE SetHead(a, None) /\ Quiet(SigOf[a])
    <2>1. /\ LiveOf(s)' = LiveOf(s) /\ OpenOf(s)' = OpenOf(s) /\ CreationsOf(s)' = CreationsOf(s)
      BY DEF LiveOf, IsLive, SigOfJob, OpenOf, Open, CreationsOf
    <2>2. SigSound(s)'
      BY <1>1, <1>3, <2>1 DEF SigSound, Quiet
    <2>3. AttemptSound(a)'
      BY DEF Steady, AttemptsSound, AttemptSound
    <2>4. \A t \in Steps \ {StepOfAttempt(a)} : head'[t] = head[t]
      BY <1>3 DEF SetHead, TypeOK
    <2>5. SigsSound' /\ AttemptsSound'
      BY <1>1, <2>2, <2>3, <2>4, OneSigSaved DEF Steady
    <2> QED BY <2>5, IdleOrderly, OneCaller
  <1> QED BY <1>2, <1>3

LEMMA HeadsSteady ==
    ASSUME TypeOK, Orderly, Steady, NEW c \in Callers,
           MarkHead(c) \/ ObservationHead(c) \/ ClearHead(c)
    PROVE  Steady'
  <1>1. CASE MarkHead(c)
    <2>1. call[c].attempt \in Attempts /\ call[c].pc = "marked"
      BY <1>1, CallShape DEF MarkHead, MarkCall
    <2>2. OutcomeSound(call[c], call[c].attempt)
      BY <2>1 DEF Steady, CallsOrderly, CallOrderly
    <2> QED BY <1>1, <2>1, <2>2, HeadSteady DEF MarkHead, Return, OutcomeSound, TypeOK
  <1>2. CASE ObservationHead(c)
    <2>1. call[c].attempt \in Attempts /\ call[c].pc = "observation_saved"
      BY <1>2, CallShape DEF ObservationHead, ObservedCall
    <2>2. /\ Heads(call[c].attempt)
          /\ call[c].status \in EndStates => Quiet(SigOf[call[c].attempt])
      BY <2>1 DEF Steady, CallsOrderly, CallOrderly
    <2> QED BY <1>2, <2>1, <2>2, HeadSteady DEF ObservationHead, Return, EndStates, TypeOK
  <1>3. CASE ClearHead(c)
    <2>1. call[c].attempt \in Attempts /\ call[c].pc = "attempt_saved"
      BY <1>3, CallShape DEF ClearHead, FinalizeCall
    <2>2. Quiet(SigOf[call[c].attempt])
      BY <2>1 DEF Steady, CallsOrderly, CallOrderly
    <2> QED BY <1>3, <2>1, <2>2, HeadSteady DEF ClearHead, Return, TypeOK
  <1> QED BY <1>1, <1>2, <1>3

\* Every head is that of its attempt's step.
LEMMA HeadsStayPlaced ==
    ASSUME TypeOK, HeadsPlaced, [Next]_vars
    PROVE  HeadsPlaced'
  <1>1. ASSUME NEW a \in Attempts, NEW owner \in {a, None}, SetHead(a, owner) PROVE HeadsPlaced'
    BY <1>1, ConstantsAssumption DEF HeadsPlaced, SetHead, StepOfAttempt, TypeOK
  <1>2. CASE UNCHANGED head
    BY <1>2 DEF HeadsPlaced
  <1>3. ASSUME NEW c \in Callers, SendCommand(c) PROVE HeadsPlaced'
    BY <1>1, <1>3, CallShape DEF SendCommand, CommandCall, Request, Locked
  <1>4. ASSUME NEW c \in Callers, MarkHead(c) \/ ObservationHead(c) \/ ClearHead(c) PROVE HeadsPlaced'
    <2>1. call[c].attempt \in Attempts
      BY <1>4, CallShape DEF MarkHead, ObservationHead, ClearHead, MarkCall, ObservedCall, FinalizeCall
    <2> QED BY <1>1, <1>4, <2>1 DEF MarkHead, ObservationHead, ClearHead
  <1> QED BY <1>2, <1>3, <1>4, HeadWriters

\* What is observed is the job of the head's attempt; an end, once seen, stays.
LEMMA ObserveSteady ==
    ASSUME TypeOK, Orderly, AttemptsFit, HeadsPlaced, Steady, NEW c \in Callers,
           ReconcileAttempt(c) \/ ObserveDirectly(c)
    PROVE  Steady'
  <1>1. ReconcileAttempt(c)
    BY DEF Orderly, ObserveDirectly
  <1>2. PICK t \in Steps : /\ head[t] # None
                           /\ attempts[head[t]].job # None
                           /\ Observe(c, head[t], attempts[head[t]].job)
    BY <1>1 DEF ReconcileAttempt
  <1>3. PICK a \in Attempts, j \in Jobs : a = head[t] /\ j = attempts[a].job
    BY <1>2 DEF TypeOK, AttemptRecord
  <1>4. PICK record \in RecordsOf(j) :
          call' = [call EXCEPT ![c] = [pc |-> "observed", attempt |-> a, record |-> record]]
    BY <1>2, <1>3 DEF Observe
  <1>5. UNCHANGED <<attempts, head, job, net>>
    BY <1>2 DEF Observe, store
  <1>6. SigsSound' /\ AttemptsSound'
    BY <1>5, NothingSaved DEF Steady
  <1>7. /\ record.job = j /\ record.status = job[j].status
        /\ record.req \in {None, SigOf[a]} /\ ~ record.conflict
    <2>1. SigOf[job[j].by] = SigOf[a]
      BY <1>2, <1>3, ConstantsAssumption DEF AttemptsFit, MadeFor
    <2>2. "conflicting_history" \notin Environment
      BY DEF Orderly
    <2> QED BY <1>4, <2>1, <2>2 DEF RecordsOf
  <1>8. RecordSound(a, record)'
    BY <1>2, <1>3, <1>5, <1>7 DEF RecordSound, Heads, HeadsPlaced, IsLive
  <1>9. call'[c] = [pc |-> "observed", attempt |-> a, record |-> record]
    BY <1>4 DEF TypeOK
  <1>10. CallOrderly(call[c])'
    BY <1>8, <1>9 DEF CallOrderly, Locked
  <1> QED BY <1>6, <1>10, OneCaller

\* An attempt that was not open names the head of a quiet signature; an open one
\* is the only one there is.
LEMMA RecordSteady ==
    ASSUME TypeOK, Orderly, Steady, NEW c \in Callers, RecordObservation(c)
    PROVE  Steady'
  <1>1. call[c] \in ObserveReadCall /\ call[c].pc = "observation_read"
    BY CallShape DEF RecordObservation
  <1>2. PICK a \in Attempts, record \in Observation : a = call[c].attempt /\ record = call[c].record
    BY <1>1 DEF ObserveReadCall
  <1>3. PICK s \in Signatures : s = SigOf[a]
    BY ConstantsAssumption
  <1>4. RecordSound(a, record) /\ call[c].snapshot = attempts[a]
    BY <1>1, <1>2 DEF Steady, CallsOrderly, CallOrderly
  <1>5. SigSound(s) /\ AttemptSound(a)
    BY DEF Steady, SigsSound, AttemptsSound
  <1>6. attempts[a].job = record.job /\ attempts[a].job \in Jobs
    BY <1>4 DEF RecordSound, Observation
  <1>7. ~ Conflicts(attempts[a], record)
    BY <1>3, <1>4, <1>5 DEF Conflicts, RecordSound, AttemptSound
  <1>8. PICK status \in {"active", "reconciliation_required", "rejected", "expired"} :
          /\ status = ObservedStatus(attempts[a], record)
          /\ status \in {"rejected", "expired"} => record.status \notin LiveJobStates
    BY <1>7 DEF ObservedStatus, Observation, LiveJobStates
  <1>9. /\ attempts'[a].status = status /\ attempts'[a].job = record.job
        /\ attempts'[a].req \in {None, SigOf[a]}
        /\ \A b \in Attempts \ {a} : attempts'[b] = attempts[b]
        /\ call'[c] = [pc |-> "observation_saved", attempt |-> a, status |-> status]
        /\ UNCHANGED <<head, job, net>>
    BY <1>2, <1>4, <1>5, <1>8 DEF RecordObservation, TypeOK, RecordSound, AttemptSound
  <1>10. LiveOf(s)' = LiveOf(s) /\ CreationsOf(s)' = CreationsOf(s)
    BY <1>9 DEF LiveOf, IsLive, SigOfJob, CreationsOf
  <1>11. OpenOf(s) \subseteq {a} /\ CreationsOf(s) = {} /\ LiveOf(s) \subseteq {record.job}
    <2>1. CASE Open(a)
      <3>1. a \in OpenOf(s)
        BY <1>3, <2>1 DEF OpenOf
      <3> QED BY <1>5, <1>6, <3>1 DEF SigSound
    <2>2. CASE ~ Open(a)
      <3>1. attempts[a].status \notin ActiveStates
        BY <1>5, <1>6, <2>2, ConstantsAssumption DEF AttemptSound, Open, ActiveStates
      <3>2. ~ Guarded(s, ActiveStates)
        BY <1>3, <1>4, <3>1, HeadGuards DEF RecordSound
      <3> QED BY <1>5, <3>2 DEF SigSound, Quiet
    <2> QED BY <2>1, <2>2
  <1>12. OpenOf(s)' = IF status \in {"active", "reconciliation_required"} THEN {a} ELSE {}
    BY <1>3, <1>6, <1>9, <1>11, ConstantsAssumption DEF OpenOf, Open
  <1>13. Heads(a)'
    BY <1>4, <1>9 DEF RecordSound, Heads
  <1>14. AttemptSound(a)'
    BY <1>8, <1>9 DEF AttemptSound
  <1>15. CASE status \in {"active", "reconciliation_required"}
    <2>1. Guarded(s, ActiveStates)'
      BY <1>3, <1>9, <1>13, <1>15, ConstantsAssumption DEF Guarded, Heads, StepOfAttempt, ActiveStates
    <2>2. SigSound(s)'
      BY <1>9, <1>10, <1>11, <1>12, <1>15, <2>1 DEF SigSound
    <2>3. SigsSound' /\ AttemptsSound'
      BY <1>3, <1>9, <1>14, <2>2, OneSigSaved DEF Steady
    <2>4. CallOrderly(call[c])'
      BY <1>9, <1>13, <1>15 DEF CallOrderly, Locked, EndStates
    <2> QED BY <2>3, <2>4, OneCaller
  <1>16. CASE status \in {"rejected", "expired"}
    <2>1. LiveOf(s) = {}
      BY <1>4, <1>8, <1>11, <1>16 DEF RecordSound, LiveOf
    <2>2. Quiet(s)'
      BY <1>10, <1>11, <1>12, <1>16, <2>1 DEF Quiet
    <2>3. SigSound(s)'
      BY <2>2 DEF SigSound, Quiet
    <2>4. SigsSound' /\ AttemptsSound'
      BY <1>3, <1>9, <1>14, <2>3, OneSigSaved DEF Steady
    <2>5. CallOrderly(call[c])'
      BY <1>3, <1>9, <1>13, <2>2 DEF CallOrderly, Locked
    <2> QED BY <2>4, <2>5, OneCaller
  <1> QED BY <1>8, <1>15, <1>16

\* What is finalized is the one open attempt, and its job has ended.
LEMMA FinalizeSteady ==
    ASSUME TypeOK, Orderly, Steady, NEW c \in Callers,
           FinalizeVerified(c) \/ SaveWorkResult(c)
    PROVE  Steady'
  <1>1. UNCHANGED <<attempts, head, job, net>>
    BY DEF FinalizeVerified, SaveWorkResult
  <1>2. SigsSound' /\ AttemptsSound'
    BY <1>1, NothingSaved DEF Steady
  <1>3. CASE FinalizeVerified(c)
    <2>1. PICK a \in Attempts, j \in Jobs :
            /\ \E record \in FinalizeRecords(j) : Finalizable(attempts[a], j, record)
            /\ call' = [call EXCEPT ![c] = [pc |-> "verified", attempt |-> a, job |-> j,
                                           snapshot |-> attempts[a]]]
      BY <1>3 DEF FinalizeVerified
    <2>2. Open(a)'
      BY <1>1, <2>1, ConstantsAssumption DEF Finalizable, Open
    <2>3. call'[c] = [pc |-> "verified", attempt |-> a, job |-> j, snapshot |-> attempts[a]]
      BY <2>1 DEF TypeOK
    <2>4. CallOrderly(call[c])'
      BY <1>1, <2>2, <2>3 DEF CallOrderly, Locked
    <2> QED BY <1>2, <2>4, OneCaller
  <1>4. CASE SaveWorkResult(c)
    <2>1. call[c] \in FinalizeCall /\ call[c].pc = "verified"
      BY <1>4, CallShape DEF SaveWorkResult
    <2>2. attempts[call[c].attempt] = call[c].snapshot /\ Open(call[c].attempt)
      BY <2>1 DEF Steady, CallsOrderly, CallOrderly
    <2>3. /\ call'[c].pc = "result_saved" /\ call'[c].attempt = call[c].attempt
          /\ call'[c].snapshot = call[c].snapshot
      BY <1>4, <2>1 DEF SaveWorkResult, Goto, TypeOK, FinalizeCall
    <2>4. CallOrderly(call[c])'
      BY <1>1, <2>2, <2>3 DEF CallOrderly, Open, Locked
    <2> QED BY <1>2, <2>4, OneCaller
  <1> QED BY <1>3, <1>4

LEMMA SucceededSteady ==
    ASSUME TypeOK, Orderly, CallsFit, Steady, NEW c \in Callers, SaveSucceeded(c)
    PROVE  Steady'
  <1>1. call[c] \in FinalizeCall /\ call[c].pc = "result_saved"
    BY CallShape DEF SaveSucceeded
  <1>2. PICK a \in Attempts, j \in Jobs : a = call[c].attempt /\ j = call[c].job
    BY <1>1 DEF FinalizeCall
  <1>3. PICK s \in Signatures : s = SigOf[a]
    BY ConstantsAssumption
  <1>4. attempts[a] = call[c].snapshot /\ Open(a)
    BY <1>1, <1>2 DEF Steady, CallsOrderly, CallOrderly
  <1>5. attempts[a].job = j /\ job[j].status = "completed"
    BY <1>1, <1>2, <1>4 DEF CallsFit, CallFits
  <1>6. SigSound(s) /\ AttemptSound(a)
    BY DEF Steady, SigsSound, AttemptsSound
  <1>7. /\ attempts'[a].status = "succeeded" /\ attempts'[a].req = attempts[a].req
        /\ \A b \in Attempts \ {a} : attempts'[b] = attempts[b]
        /\ call'[c].pc = "attempt_saved" /\ call'[c].attempt = a
        /\ UNCHANGED <<head, job, net>>
    BY <1>1, <1>2, <1>4 DEF SaveSucceeded, Goto, TypeOK, FinalizeCall, AttemptRecord
  <1>8. a \in OpenOf(s)
    BY <1>3, <1>4 DEF OpenOf
  <1>9. OpenOf(s) = {a} /\ CreationsOf(s) = {} /\ LiveOf(s) \subseteq {j}
    BY <1>5, <1>6, <1>8 DEF SigSound
  <1>10. LiveOf(s) = {}
    BY <1>5, <1>9 DEF LiveOf, IsLive, LiveJobStates
  <1>11. LiveOf(s)' = {} /\ CreationsOf(s)' = {}
    BY <1>7, <1>9, <1>10 DEF LiveOf, IsLive, SigOfJob, CreationsOf
  <1>12. OpenOf(s)' = {}
    BY <1>7, <1>9 DEF OpenOf, Open
  <1>13. Quiet(s)' /\ SigSound(s)'
    BY <1>11, <1>12 DEF Quiet, SigSound
  <1>14. AttemptSound(a)'
    BY <1>6, <1>7 DEF AttemptSound
  <1>15. SigsSound' /\ AttemptsSound'
    BY <1>3, <1>7, <1>13, <1>14, OneSigSaved DEF Steady
  <1>16. CallOrderly(call[c])'
    BY <1>3, <1>7, <1>13 DEF CallOrderly, Locked
  <1> QED BY <1>15, <1>16, OneCaller

\* A call is left alone: what it relies on stays, unless a job was created for its
\* signature.
LEMMA CallStaysOrderly ==
    ASSUME TypeOK, NEW c \in Callers, CallOrderly(call[c]), call'[c] = call[c],
           UNCHANGED <<attempts, head>>,
           \A s \in Signatures : /\ Quiet(s) => Quiet(s)'
                                 /\ CreationsOf(s) = {} => CreationsOf(s)' = {}
                                 /\ \A j \in Jobs \cup {None} : Answered(s, j) => Answered(s, j)',
           call[c].pc = "sent" => (call[c].request \in net => call[c].request \in net'),
           call[c].pc \in {"observed", "observation_read"}
             => (IsLive(call[c].record.job)' => IsLive(call[c].record.job))
    PROVE  CallOrderly(call[c])'
  <1>1. CASE call[c].pc \in Locked \cup {"sent"}
    <2>1. PICK r \in Request : r = call[c].request
      BY <1>1, CallShape DEF CommandCall
    <2>2. SigOf[r.attempt] \in Signatures /\ r.job \in Jobs \cup {None}
      BY ConstantsAssumption DEF Request
    <2>3. RequestSound(call[c], r)
      BY <1>1, <2>1 DEF CallOrderly
    <2>4. RequestSound(call[c], r)'
      BY <1>1, <2>1, <2>2, <2>3 DEF RequestSound, Heads
    <2> QED BY <1>1, <2>1, <2>4 DEF CallOrderly, Locked
  <1>2. CASE call[c].pc \in {"returned", "mark_read", "marked"}
    <2>1. PICK a \in Attempts, j \in Jobs \cup {None} : a = call[c].attempt /\ j = call[c].job
      BY <1>2, CallShape DEF MarkCall, MarkReadCall
    <2>2. SigOf[a] \in Signatures
      BY ConstantsAssumption
    <2>3. OutcomeSound(call[c], a)
      BY <1>2, <2>1 DEF CallOrderly
    <2>4. OutcomeSound(call[c], a)'
      BY <2>1, <2>2, <2>3 DEF OutcomeSound, Heads
    <2> QED BY <1>2, <2>1, <2>4 DEF CallOrderly, Locked
  <1>3. CASE call[c].pc \in {"observed", "observation_read"}
    <2>1. RecordSound(call[c].attempt, call[c].record)
      BY <1>3 DEF CallOrderly
    <2>2. RecordSound(call[c].attempt, call[c].record)'
      BY <1>3, <2>1 DEF RecordSound, Heads
    <2> QED BY <1>3, <2>2 DEF CallOrderly, Locked
  <1>4. CASE call[c].pc \in {"observation_saved", "verified", "result_saved", "attempt_saved"}
    <2>1. call[c].attempt \in Attempts /\ SigOf[call[c].attempt] \in Signatures
      BY <1>4, CallShape, ConstantsAssumption DEF ObservedCall, FinalizeCall
    <2> QED BY <1>4, <2>1 DEF CallOrderly, Heads, Open, Locked
  <1>5. CASE call[c].pc = "idle"
    BY <1>5 DEF CallOrderly, Locked
  <1>6. call[c].pc \in PCs
    BY DEF TypeOK, PCs, Idle, CommandCall, MarkCall, MarkReadCall, ObserveCall, ObserveReadCall,
              ObservedCall, FinalizeCall
  <1> QED BY <1>1, <1>2, <1>3, <1>4, <1>5, <1>6 DEF PCs

\* Jobs that move on or end, and approvals that expire.
Creates(r) ==
    /\ r.action = "create_job" /\ JobCreated(r)
    /\ net' = net \ {r} /\ UNCHANGED <<store, expired>>

LEMMA JobsMoveSteady ==
    ASSUME TypeOK, Orderly, Steady, Provider, \A r \in net : ~ Creates(r)
    PROVE  Steady'
  <1>1. UNCHANGED <<attempts, head, call>>
    BY DEF Provider, ProviderActs, Creates, JobFunded, JobChanged, JobEnds, ApprovalExpires, store
  <1>2. net' \subseteq net /\ \A r \in net : r.action = "create_job" => r \in net'
    BY DEF Provider, ProviderActs, Creates, JobEnds, ApprovalExpires
  <1>3. ASSUME NEW i \in Jobs
        PROVE  job'[i].by = job[i].by /\ (IsLive(i)' => IsLive(i))
    <2>1. CASE ProviderActs
      BY <2>1 DEF ProviderActs, Creates, JobFunded, JobChanged, IsLive, LiveJobStates, TypeOK,
                  JobRecord, NoJob
    <2>2. ASSUME NEW k \in Jobs, JobEnds(k)
          PROVE  job'[i].by = job[i].by /\ (IsLive(i)' => IsLive(i))
      BY <2>2 DEF JobEnds, IsLive, LiveJobStates, TypeOK, JobRecord, NoJob
    <2>3. ASSUME NEW approval \in Approvals, ApprovalExpires(approval)
          PROVE  job'[i].by = job[i].by /\ (IsLive(i)' => IsLive(i))
      BY <2>3 DEF ApprovalExpires, IsLive
    <2> QED BY <2>1, <2>2, <2>3 DEF Provider
  <1>4. ASSUME NEW s \in Signatures
        PROVE  /\ SigSound(s)' /\ (Quiet(s) => Quiet(s)')
               /\ LiveOf(s)' \subseteq LiveOf(s) /\ OpenOf(s)' = OpenOf(s)
               /\ CreationsOf(s)' \subseteq CreationsOf(s)
    <2>1. LiveOf(s)' \subseteq LiveOf(s)
      BY <1>3 DEF LiveOf, SigOfJob
    <2>2. CreationsOf(s)' \subseteq CreationsOf(s)
      BY <1>2 DEF CreationsOf
    <2> QED BY <1>1, <2>1, <2>2, SigStays DEF Steady, SigsSound
  <1>5. \A s \in Signatures, j \in Jobs \cup {None} : Answered(s, j) => Answered(s, j)'
    BY <1>4 DEF Answered
  <1>6. SigsSound' /\ AttemptsSound'
    BY <1>1, <1>4 DEF Steady, SigsSound, AttemptsSound, AttemptSound
  <1>7. ASSUME NEW c \in Callers PROVE CallOrderly(call[c])'
    <2>1. CallOrderly(call[c])
      BY DEF Steady, CallsOrderly
    <2>2. CASE call[c].pc = "sent"
      <3>1. PICK r \in Request : r = call[c].request
        BY <2>2, CallShape DEF CommandCall
      <3>2. RequestSound(call[c], r)
        BY <2>1, <2>2, <3>1 DEF CallOrderly
      <3>3. SigOf[r.attempt] \in Signatures /\ r.job \in Jobs \cup {None}
        BY ConstantsAssumption DEF Request
      <3>4. RequestSound(call[c], r)'
        BY <1>1, <1>2, <1>5, <2>2, <3>2, <3>3 DEF RequestSound, Heads, Locked
      <3> QED BY <1>1, <2>2, <3>1, <3>4 DEF CallOrderly, Locked
    <2>3. CASE call[c].pc \in {"observed", "observation_read"}
      <3>1. call[c].record.job \in Jobs
        BY <2>3, CallShape DEF ObserveCall, ObserveReadCall, Observation
      <3>2. IsLive(call[c].record.job)' => IsLive(call[c].record.job)
        BY <1>1, <1>3, <3>1 DEF IsLive
      <3> QED BY <1>1, <1>4, <1>5, <2>1, <2>3, <3>2, CallStaysOrderly
    <2>4. CASE call[c].pc \notin {"sent", "observed", "observation_read"}
      BY <1>1, <1>4, <1>5, <2>1, <2>4, CallStaysOrderly
    <2> QED BY <2>2, <2>3, <2>4
  <1> QED BY <1>6, <1>7 DEF Steady, CallsOrderly

\* A new job is the only live one of its signature, and nobody counts on there
\* being none: the creation was still to be acted on.
LEMMA CreatedSteady ==
    ASSUME TypeOK, Orderly, CallsFit, Steady, NEW r \in net, Creates(r)
    PROVE  Steady'
  <1>0. /\ r.action = "create_job" /\ JobCreated(r) /\ net' = net \ {r}
        /\ UNCHANGED <<attempts, head>>
    BY DEF Creates, store
  <1>1. PICK j \in Jobs :
          /\ job[j].status = "absent"
          /\ job' = [job EXCEPT ![j] = [status |-> "open", by |-> r.attempt, paid |-> 0]]
          /\ call' = [c \in Callers |->
                        IF call[c].pc = "sent" /\ call[c].request = r
                        THEN [call[c] EXCEPT !.request.job = j]
                        ELSE call[c]]
    BY <1>0 DEF JobCreated
  <1>2. r \in Request /\ r.attempt \in Attempts
    BY DEF TypeOK, Request
  <1>3. PICK s \in Signatures : s = SigOf[r.attempt]
    BY <1>2, ConstantsAssumption
  <1>4. SigSound(s) /\ r \in CreationsOf(s)
    BY <1>0, <1>3 DEF Steady, SigsSound, CreationsOf
  <1>5. /\ LiveOf(s) = {} /\ OpenOf(s) = {} /\ CreationsOf(s) = {r}
        /\ Guarded(s, {"submitting", "ambiguous"})
    BY <1>4 DEF SigSound
  <1>6. /\ job'[j] = [status |-> "open", by |-> r.attempt, paid |-> 0]
        /\ \A i \in Jobs \ {j} : job'[i] = job[i]
    BY <1>1 DEF TypeOK
  <1>7. LiveOf(s)' = {j}
    BY <1>3, <1>5, <1>6 DEF LiveOf, IsLive, LiveJobStates, SigOfJob
  <1>8. CreationsOf(s)' = {} /\ OpenOf(s)' = {}
    BY <1>0, <1>5 DEF CreationsOf, OpenOf, Open
  <1>9. Guarded(s, ActiveStates)'
    BY <1>0, <1>5 DEF Guarded, ActiveStates
  <1>10. SigSound(s)'
    BY <1>7, <1>8, <1>9 DEF SigSound
  <1>11. ASSUME NEW t \in Signatures, t # s
         PROVE  /\ SigSound(t)' /\ (Quiet(t) => Quiet(t)')
                /\ LiveOf(t)' = LiveOf(t) /\ OpenOf(t)' = OpenOf(t)
                /\ CreationsOf(t)' \subseteq CreationsOf(t)
    <2>1. LiveOf(t)' = LiveOf(t)
      BY <1>1, <1>3, <1>6, <1>11 DEF LiveOf, IsLive, LiveJobStates, SigOfJob
    <2>2. CreationsOf(t)' \subseteq CreationsOf(t)
      BY <1>0 DEF CreationsOf
    <2> QED BY <1>0, <2>1, <2>2, SigStays DEF Steady, SigsSound
  <1>12. \A t \in Signatures : /\ Quiet(t) => Quiet(t)'
                               /\ CreationsOf(t) = {} => CreationsOf(t)' = {}
                               /\ \A i \in Jobs \cup {None} : Answered(t, i) => Answered(t, i)'
    BY <1>5, <1>11 DEF Quiet, Answered
  <1>13. SigsSound' /\ AttemptsSound'
    BY <1>0, <1>10, <1>11 DEF Steady, SigsSound, AttemptsSound, AttemptSound
  <1>14. ASSUME NEW c \in Callers PROVE CallOrderly(call[c])'
    <2>1. CallOrderly(call[c])
      BY DEF Steady, CallsOrderly
    <2>2. CASE call[c].pc = "sent" /\ call[c].request = r
      <3>1. call[c] \in CommandCall
        BY <2>2, CallShape
      <3>2. PICK q \in Request :
              /\ call'[c].request = q /\ call'[c].pc = "sent"
              /\ q.action = "create_job" /\ q.attempt = r.attempt /\ q.job = j
        BY <1>0, <1>1, <1>2, <2>2, <3>1 DEF CommandCall, Request
      <3>3. attempts[r.attempt].status = "submitting" /\ Heads(r.attempt)
        BY <2>1, <2>2 DEF CallOrderly, RequestSound, Locked
      <3>4. Answered(s, j)'
        BY <1>7, <1>8 DEF Answered
      <3>5. j # None
        BY ConstantsAssumption
      <3>6. RequestSound(call[c], q)'
        BY <1>0, <1>3, <3>2, <3>3, <3>4, <3>5 DEF RequestSound, Heads, Locked
      <3> QED BY <3>2, <3>6 DEF CallOrderly, Locked
    <2>3. CASE ~ (call[c].pc = "sent" /\ call[c].request = r)
      <3>1. call'[c] = call[c]
        BY <1>1, <2>3
      <3>2. call[c].pc = "sent" => (call[c].request \in net => call[c].request \in net')
        BY <1>0, <2>3
      <3>3. call[c].pc \in {"observed", "observation_read"}
              => (IsLive(call[c].record.job)' => IsLive(call[c].record.job))
        <4> SUFFICES ASSUME call[c].pc \in {"observed", "observation_read"}
                     PROVE  IsLive(call[c].record.job)' => IsLive(call[c].record.job)
          OBVIOUS
        <4>1. call[c].record.job \in Jobs
          BY CallShape DEF ObserveCall, ObserveReadCall, Observation
        <4>2. call[c].record.job # j
          BY <1>1, <4>1, ConstantsAssumption DEF CallsFit, CallFits, MadeFor
        <4> QED BY <1>6, <3>1, <4>1, <4>2 DEF IsLive
      <3> QED BY <1>0, <1>12, <2>1, <3>1, <3>2, <3>3, CallStaysOrderly
    <2> QED BY <2>2, <2>3
  <1> QED BY <1>13, <1>14 DEF Steady, CallsOrderly

LEMMA NextSteady ==
    ASSUME TypeOK, Orderly, CallsFit, AttemptsFit, HeadsPlaced, Steady, [Next]_vars
    PROVE  Steady'
  <1>1. CASE Provider
    BY <1>1, CreatedSteady, JobsMoveSteady
  <1>2. CASE Crash
    BY <1>2, NothingSaved, IdleOrderly DEF Crash, Steady, CallsOrderly, store
  <1>3. CASE UNCHANGED vars
    <2>1. UNCHANGED <<attempts, head, call, net, job>>
      BY <1>3 DEF vars, store
    <2> QED BY <2>1 DEF Steady, SigsSound, SigSound, AttemptsSound, AttemptSound, CallsOrderly,
         CallOrderly, RequestSound, OutcomeSound, RecordSound, Answered, Quiet, LiveOf, OpenOf,
         CreationsOf, IsLive, SigOfJob, Open, Guarded, Heads
  <1> QED BY <1>1, <1>2, <1>3, BeginSteady, ReserveSteady, SaveIntentSteady, SendSteady,
             OutcomeSteady, ReadSteady, MarkSteady, HeadsSteady, ObserveSteady, RecordSteady, FinalizeSteady,
             SucceededSteady DEF Next, Continue

LEMMA InitSteady == Init => Steady /\ HeadsPlaced
  <1> SUFFICES ASSUME Init PROVE Steady /\ HeadsPlaced
    OBVIOUS
  <1>1. \A s \in Signatures : LiveOf(s) = {} /\ OpenOf(s) = {} /\ CreationsOf(s) = {}
    BY DEF Init, LiveOf, IsLive, LiveJobStates, NoJob, OpenOf, Open, NoAttempt, CreationsOf
  <1>2. SigsSound
    BY <1>1 DEF SigsSound, SigSound, Quiet
  <1>3. AttemptsSound /\ HeadsPlaced
    BY ConstantsAssumption DEF Init, AttemptsSound, AttemptSound, NoAttempt, HeadsPlaced
  <1>4. CallsOrderly
    BY DEF Init, CallsOrderly, CallOrderly, Idle, Locked
  <1> QED BY <1>2, <1>3, <1>4 DEF Steady

\* With one thread the invariant holds throughout.
LEMMA SteadyHolds == Spec => [](Orderly => Steady)
  <1> DEFINE Kept == CallsFit /\ AttemptsFit /\ HeadsPlaced /\ Steady
  <1>1. Init => Kept
    BY InitSteady DEF Init, CallsFit, CallFits, AttemptsFit, MadeFor, Idle, Locked, NoAttempt
  <1>2. TypeOK /\ (Orderly => Kept) /\ [Next]_vars => (Orderly => Kept)'
    <2>1. Orderly' = Orderly
      BY DEF Orderly
    <2>2. Orderly => "foreign_observation" \notin Environment
      BY DEF Orderly
    <2> QED BY <2>1, <2>2, NextCallsFit, NextAttemptsFit, HeadsStayPlaced, NextSteady
  <1>3. (Orderly => Kept) => (Orderly => Steady)
    OBVIOUS
  <1> HIDE DEF Kept
  <1> QED BY <1>1, <1>2, <1>3, TypeCorrect, PTL DEF Spec

\* With one thread, however often it crashes, times out, fails to create or uses an
\* attempt again, a job that is open or funded is named by a head that blocks another.
THEOREM LiveJobBlocks == Spec => [](Orderly => LiveJobBlocksReplacement)
  <1>1. TypeOK /\ (Orderly => Steady) => (Orderly => LiveJobBlocksReplacement)
    <2> SUFFICES ASSUME TypeOK, Steady, NEW j \in Jobs, IsLive(j)
                 PROVE  OwnedByHead(job[j].by, ActiveStates)
      BY DEF LiveJobBlocksReplacement
    <2>1. job[j].by \in Attempts /\ SigOf[job[j].by] \in Signatures
      BY ConstantsAssumption DEF IsLive, LiveJobStates, TypeOK, JobRecord, NoJob
    <2>2. j \in LiveOf(SigOf[job[j].by])
      BY DEF LiveOf, SigOfJob
    <2>3. Guarded(SigOf[job[j].by], ActiveStates)
      BY <2>1, <2>2 DEF Steady, SigsSound, SigSound, Quiet
    <2> QED BY <2>1, <2>3, HeadGuards
  <1> QED BY <1>1, SteadyHolds, TypeCorrect, PTL

\* With one thread there are never two live jobs for one signature.
THEOREM OneLiveJob == Spec => [](Orderly => AtMostOneLiveJob)
  <1>1. TypeOK /\ (Orderly => Steady) => (Orderly => AtMostOneLiveJob)
    <2> SUFFICES ASSUME TypeOK, Steady, NEW i \in Jobs, NEW j \in Jobs,
                        IsLive(i), IsLive(j), SigOfJob(i) = SigOfJob(j)
                 PROVE  i = j
      BY DEF AtMostOneLiveJob
    <2>1. SigOfJob(i) \in Signatures
      BY ConstantsAssumption DEF SigOfJob, IsLive, LiveJobStates, TypeOK, JobRecord, NoJob
    <2>2. i \in LiveOf(SigOfJob(i)) /\ j \in LiveOf(SigOfJob(i))
      BY DEF LiveOf
    <2> QED BY <2>1, <2>2 DEF Steady, SigsSound, SigSound
  <1> QED BY <1>1, SteadyHolds, TypeCorrect, PTL

-----------------------------------------------------------------------------
(***************************************************************************)
(* Several threads.  A failed command or an ended job gives a step up, and  *)
(* a thread that read it before can give it up once more, under the next   *)
(* job; the README shows the steps.  Without these two, a head that was     *)
(* taken is never given up, and that is enough for any number of threads:   *)
(* what a creation finds under the lock, a step with no head, stays so      *)
(* until it takes the head itself.                                         *)
(***************************************************************************)
NothingEnds ==
    /\ \A s, t \in Signatures : StepOf[s] = StepOf[t] => s = t
    /\ PaidActions \subseteq {"fund"}
    /\ Environment \subseteq {"crash", "expiry", "direct_observation"}

JobsOf(s) == {j \in Jobs : job[j].status # "absent" /\ SigOfJob(j) = s}
Headed(s) == head[StepOf[s]] # None

\* A signature's one creation, or the job it made, is had only under a head.
SigHeaded(s) ==
    /\ \A i, j \in JobsOf(s) : i = j
    /\ \A r, q \in CreationsOf(s) : r = q
    /\ JobsOf(s) # {} => CreationsOf(s) = {} /\ Headed(s)
    /\ CreationsOf(s) # {} => Headed(s)

\* A call holds the lock alone; a creation under it finds the step free, and a
\* call past it leaves the step's head on some attempt.
CallHeaded(k) ==
    /\ k.pc \in Locked \cup {"sent"} => k.request.action \in {"create_job", "fund"}
    /\ k.pc \in Locked => (k.request.action = "create_job" <=> ~ Headed(SigOf[k.request.attempt]))
    /\ k.pc = "sent" => Headed(SigOf[k.request.attempt])
    /\ k.pc \in {"returned", "mark_read", "marked"} =>
         k.status # "failed" /\ Headed(SigOf[k.attempt])
    /\ k.pc \in {"mark_read", "observation_read"} => k.snapshot.req \in {None, SigOf[k.attempt]}
    /\ k.pc \in {"observed", "observation_read"} =>
         /\ Headed(SigOf[k.attempt])
         /\ k.record.status \in LiveJobStates
         /\ ~ k.record.conflict
         /\ k.record.req \in {None, SigOf[k.attempt]}
    /\ k.pc = "observation_saved" => k.status = "active" /\ Headed(SigOf[k.attempt])
    /\ k.pc \in {"marked", "observation_saved"} => attempts[k.attempt].status # "absent"
    /\ k.pc \notin {"verified", "result_saved", "attempt_saved"}

AttemptsUnended ==
    \A a \in Attempts : /\ attempts[a].status \in {"absent", "submitting", "active", "ambiguous"}
                        /\ attempts[a].req \in {None, SigOf[a]}
HeadsOwned ==
    \A t \in Steps : head[t] # None => /\ StepOfAttempt(head[t]) = t
                                       /\ attempts[head[t]].status # "absent"
OneLockHolder == \A c, d \in Callers : call[c].pc \in Locked /\ call[d].pc \in Locked => c = d
OnlyFunded ==
    /\ \A r \in net : r.action \in {"create_job", "fund"}
    /\ \A j \in Jobs : job[j].status \in LiveJobStates \cup {"absent"}

SigsHeaded == \A s \in Signatures : SigHeaded(s)
CallsHeaded == \A c \in Callers : CallHeaded(call[c])
Headship ==
    /\ SigsHeaded /\ CallsHeaded /\ AttemptsUnended /\ HeadsOwned /\ OneLockHolder /\ OnlyFunded

\* Under the lock a head is only taken, for the one call that holds it, and no
\* step gives one up.
LEMMA HeadKept ==
    ASSUME TypeOK, NothingEnds, Headship, [Next]_vars, NEW s \in Signatures
    PROVE  /\ Headed(s) => Headed(s)'
           /\ ~ Headed(s) /\ Headed(s)' =>
                \E c \in Callers : SendCommand(c) /\ SigOf[call[c].request.attempt] = s
  <1>1. ASSUME NEW c \in Callers, NEW a \in Attempts, SetHead(a, a)
        PROVE  /\ Headed(s) => Headed(s)'
               /\ ~ Headed(s) /\ Headed(s)' => SigOf[a] = s
    BY <1>1, ConstantsAssumption DEF SetHead, Headed, StepOfAttempt, NothingEnds, TypeOK
  <1>2. CASE UNCHANGED head
    BY <1>2 DEF Headed
  <1>3. ASSUME NEW c \in Callers, SendCommand(c)
        PROVE  /\ Headed(s) => Headed(s)'
               /\ ~ Headed(s) /\ Headed(s)' => SigOf[call[c].request.attempt] = s
    BY <1>1, <1>3, CallShape DEF SendCommand, CommandCall, Request, Locked
  <1>4. ASSUME NEW c \in Callers, MarkHead(c) \/ ObservationHead(c)
        PROVE  Headed(s) <=> Headed(s)'
    <2>1. CallHeaded(call[c]) /\ call[c].pc \in {"marked", "observation_saved"}
      BY <1>4 DEF MarkHead, ObservationHead, Headship, CallsHeaded
    <2>2. PICK a \in Attempts : a = call[c].attempt
      BY <2>1, CallShape DEF MarkCall, ObservedCall
    <2>3. Headed(SigOf[a]) /\ SetHead(a, a)
      BY <1>4, <2>1, <2>2 DEF CallHeaded, MarkHead, ObservationHead
    <2> QED BY <1>1, <2>3
  <1>5. ASSUME NEW c \in Callers PROVE ~ ClearHead(c)
    BY DEF ClearHead, Headship, CallsHeaded, CallHeaded
  <1> QED BY <1>2, <1>3, <1>4, <1>5, HeadWriters

\* A call that a step leaves alone keeps what it relies on.
LEMMA CallHeadedStays ==
    ASSUME TypeOK, NothingEnds, Headship, [Next]_vars, NEW c \in Callers,
           call'[c] = call[c] \/ call'[c] = Idle
    PROVE  CallHeaded(call[c])'
  <1>1. CASE call'[c] = Idle
    BY <1>1 DEF CallHeaded, Idle, Locked
  <1>2. CASE call'[c] = call[c] /\ call[c].pc \in Locked
    <2>1. PICK s \in Signatures : s = SigOf[call[c].request.attempt]
      BY <1>2, CallShape, ConstantsAssumption DEF CommandCall, Request
    <2>2. CallHeaded(call[c])
      BY DEF Headship, CallsHeaded
    <2>3. ASSUME NEW d \in Callers, SendCommand(d) PROVE FALSE
      <3>1. call[d].pc \in Locked /\ call'[d].pc = "sent"
        BY <2>3 DEF SendCommand, Goto, Locked, TypeOK
      <3>2. d = c
        BY <1>2, <3>1 DEF Headship, OneLockHolder
      <3> QED BY <1>2, <3>1, <3>2 DEF Locked
    <2>4. Headed(s)' = Headed(s)
      BY <2>1, <2>3, HeadKept DEF Headed
    <2> QED BY <1>2, <2>1, <2>2, <2>4 DEF CallHeaded, Locked
  <1>3. CASE call'[c] = call[c] /\ call[c].pc \in {"sent", "returned", "mark_read", "marked", "observed",
                                              "observation_read", "observation_saved"}
    <2>1. PICK a \in Attempts, s \in Signatures :
            /\ a = IF call[c].pc = "sent" THEN call[c].request.attempt ELSE call[c].attempt
            /\ s = SigOf[a]
      <3>1. call[c].pc = "sent" => call[c].request.attempt \in Attempts
        BY CallShape DEF CommandCall, Request
      <3>2. call[c].pc # "sent" => call[c].attempt \in Attempts
        BY <1>3, CallShape
           DEF MarkCall, MarkReadCall, ObserveCall, ObserveReadCall, ObservedCall
      <3> QED BY <3>1, <3>2, ConstantsAssumption
    <2>2. CallHeaded(call[c])
      BY DEF Headship, CallsHeaded
    <2>3. Headed(s) => Headed(s)'
      BY HeadKept
    <2>4. attempts[a].status # "absent" => attempts'[a].status # "absent"
      BY RecordsStay
    <2> QED BY <1>3, <2>1, <2>2, <2>3, <2>4 DEF CallHeaded, Locked
  <1>4. CASE call'[c] = call[c] /\ call[c].pc = "idle"
    BY <1>4 DEF CallHeaded, Locked
  <1>5. CallHeaded(call[c]) /\ call[c].pc \in PCs
    <2>1. call[c].pc \in PCs
      BY DEF TypeOK, PCs, Idle, CommandCall, MarkCall, MarkReadCall, ObserveCall, ObserveReadCall,
                ObservedCall, FinalizeCall
    <2> QED BY <2>1 DEF Headship, CallsHeaded
  <1> QED BY <1>1, <1>2, <1>3, <1>4, <1>5 DEF CallHeaded, PCs

\* One caller's step: the other calls need no care.
LEMMA OneCallHeaded ==
    ASSUME TypeOK, NothingEnds, Headship, [Next]_vars, NEW c \in Callers,
           \A d \in Callers \ {c} : call'[d] = call[d],
           CallHeaded(call[c])' \/ call'[c] = Idle
    PROVE  CallsHeaded'
  BY CallHeadedStays DEF CallsHeaded

\* A creation begins where the step has no head, an action on a job where it has.
LEMMA BeginHeaded ==
    ASSUME TypeOK, NothingEnds, Headship, [Next]_vars, NEW c \in Callers,
           CreateJob(c) \/ PaidAction(c)
    PROVE  CallsHeaded'
  <1>1. PICK approval \in Approvals, r \in Request :
          /\ Begin(c, approval, r) /\ Addressed(r)
          /\ r.action \in {"create_job", "fund"}
    <2>1. CASE CreateJob(c)
      <3>1. PICK approval \in Approvals, a \in Attempts, amount \in Amounts :
              Begin(c, approval, [action |-> "create_job", attempt |-> a, job |-> None, amount |-> amount])
        BY <2>1 DEF CreateJob
      <3>2. [action |-> "create_job", attempt |-> a, job |-> None, amount |-> amount] \in Request
        BY ConstantsAssumption DEF Request, Actions
      <3> QED BY <3>1, <3>2 DEF Addressed, Paid
    <2>2. CASE PaidAction(c)
      <3>1. PICK approval \in Approvals, action \in PaidActions, a \in Attempts, j \in Jobs,
                 amount \in Amounts \cup {0} :
              /\ job[j].status # "absent"
              /\ SigOf[job[j].by] = SigOf[a]
              /\ Begin(c, approval, [action |-> action, attempt |-> a, job |-> j, amount |-> amount])
        BY <2>2 DEF PaidAction
      <3>2. [action |-> action, attempt |-> a, job |-> j, amount |-> amount] \in Request
        BY ConstantsAssumption DEF Request, Actions, Paid
      <3> QED BY <3>1, <3>2 DEF Addressed, NothingEnds
    <2> QED BY <2>1, <2>2
  <1>2. /\ call'[c] = [pc |-> "authorized", approval |-> approval, request |-> r]
        /\ \A d \in Callers \ {c} : call'[d] = call[d]
        /\ UNCHANGED head
    BY <1>1 DEF Begin, TypeOK, store
  <1>3. PICK a \in Attempts, s \in Signatures : a = r.attempt /\ s = SigOf[a]
    BY ConstantsAssumption DEF Request
  <1>4. r.action = "create_job" <=> ~ Headed(s)
    <2>1. CASE r.action = "create_job"
      <3>1. ~ OwnedByHead(a, ActiveStates)
        BY <1>1, <1>3, <2>1 DEF Begin
      <3>2. SUFFICES ASSUME Headed(s) PROVE FALSE
        BY <2>1
      <3>3. PICK owner \in Attempts : owner = head[StepOf[s]] /\ StepOf[s] \in Steps
        BY <3>2, ConstantsAssumption DEF Headed, TypeOK
      <3>4. StepOfAttempt(owner) = StepOf[s] /\ attempts[owner].status # "absent"
        BY <3>2, <3>3 DEF Headship, HeadsOwned, Headed
      <3>5. SigOf[owner] = s
        BY <3>4, ConstantsAssumption DEF NothingEnds, StepOfAttempt
      <3>6. attempts[owner].status \in ActiveStates
        BY <3>4 DEF Headship, AttemptsUnended, ActiveStates
      <3> QED BY <1>3, <3>1, <3>2, <3>3, <3>5, <3>6 DEF OwnedByHead, Headed, StepOfAttempt
    <2>2. CASE r.action = "fund"
      <3>1. r.job \in JobsOf(s)
        BY <1>1, <1>3, <2>2 DEF Addressed, Paid, JobsOf, SigOfJob
      <3> QED BY <2>2, <3>1 DEF Headship, SigsHeaded, SigHeaded
    <2> QED BY <1>1, <2>1, <2>2
  <1>5. CallHeaded(call[c])'
    BY <1>1, <1>2, <1>3, <1>4 DEF CallHeaded, Headed, Locked
  <1> QED BY <1>2, <1>5, OneCallHeaded

LEMMA CommandHeaded ==
    ASSUME TypeOK, NothingEnds, Headship, [Next]_vars, NEW c \in Callers,
           Reserve(c) \/ SaveIntent(c) \/ SendCommand(c)
    PROVE  CallsHeaded'
  <1>1. call[c] \in CommandCall /\ call[c].pc \in Locked /\ CallHeaded(call[c])
    BY CallShape DEF Reserve, SaveIntent, SendCommand, Locked, Headship, CallsHeaded
  <1>2. PICK a \in Attempts, s \in Signatures : a = call[c].request.attempt /\ s = SigOf[a]
    BY <1>1, ConstantsAssumption DEF CommandCall, Request
  <1>3. \A d \in Callers \ {c} : call'[d] = call[d]
    BY DEF Reserve, SaveIntent, SendCommand, Goto, Return, TypeOK
  <1>4. CASE Reserve(c) \/ SaveIntent(c)
    <2>1. UNCHANGED head
      BY <1>4 DEF Reserve, SaveIntent
    <2>2. \/ call'[c] = Idle
          \/ call'[c].pc \in Locked /\ call'[c].request = call[c].request
      BY <1>1, <1>4 DEF Reserve, SaveIntent, Goto, Return, TypeOK, CommandCall, Locked
    <2>3. CASE call'[c].pc \in Locked /\ call'[c].request = call[c].request
      BY <1>1, <1>3, <2>1, <2>3, OneCallHeaded DEF CallHeaded, Headed, Locked
    <2> QED BY <1>3, <2>2, <2>3, OneCallHeaded
  <1>5. CASE SendCommand(c)
    <2>1. call'[c].pc = "sent" /\ call'[c].request = call[c].request
      BY <1>1, <1>5 DEF SendCommand, Goto, TypeOK, CommandCall
    <2>2. Headed(s)'
      BY <1>2, <1>5, ConstantsAssumption DEF SendCommand, SetHead, Headed, StepOfAttempt, TypeOK
    <2>3. CallHeaded(call[c])'
      BY <1>1, <1>2, <2>1, <2>2 DEF CallHeaded, Locked
    <2> QED BY <1>3, <2>3, OneCallHeaded
  <1> QED BY <1>4, <1>5

LEMMA OutcomeHeaded ==
    ASSUME TypeOK, NothingEnds, Headship, [Next]_vars, NEW c \in Callers,
           CommandSucceeds(c) \/ CommandFails(c) \/ CommandAmbiguous(c)
    PROVE  CallsHeaded'
  <1>1. ~ CommandFails(c)
    BY DEF CommandFails, NothingEnds
  <1>2. call[c] \in CommandCall /\ call[c].pc = "sent" /\ CallHeaded(call[c])
    BY <1>1, CallShape DEF CommandSucceeds, CommandAmbiguous, Headship, CallsHeaded
  <1>3. PICK a \in Attempts, s \in Signatures : a = call[c].request.attempt /\ s = SigOf[a]
    BY <1>2, ConstantsAssumption DEF CommandCall, Request
  <1>4. /\ call'[c].pc = "returned" /\ call'[c].attempt = a /\ call'[c].status # "failed"
        /\ \A d \in Callers \ {c} : call'[d] = call[d]
    BY <1>1, <1>3 DEF CommandSucceeds, CommandAmbiguous, Outcome, TypeOK
  <1>5. Headed(s)'
    BY <1>2, <1>3, HeadKept DEF CallHeaded, Locked
  <1>6. CallHeaded(call[c])'
    BY <1>3, <1>4, <1>5 DEF CallHeaded, Locked
  <1> QED BY <1>4, <1>6, OneCallHeaded

LEMMA MarkHeaded ==
    ASSUME TypeOK, NothingEnds, Headship, [Next]_vars, NEW c \in Callers,
           MarkReads(c) \/ MarkAttempt(c) \/ MarkHead(c)
    PROVE  CallsHeaded'
  <1>0. CASE MarkReads(c)
    <2>1. call[c] \in MarkCall /\ call[c].pc = "returned" /\ CallHeaded(call[c])
      BY <1>0, CallShape DEF MarkReads, Headship, CallsHeaded
    <2>2. PICK a \in Attempts, s \in Signatures : a = call[c].attempt /\ s = SigOf[a]
      BY <2>1, ConstantsAssumption DEF MarkCall
    <2>3. /\ call'[c].pc = "mark_read" /\ call'[c].attempt = a /\ call'[c].status = call[c].status
          /\ call'[c].snapshot = attempts[a]
          /\ \A d \in Callers \ {c} : call'[d] = call[d]
      BY <1>0, <2>2 DEF MarkReads, TypeOK
    <2>4. Headed(s)' /\ call[c].status # "failed"
      BY <2>1, <2>2, HeadKept DEF CallHeaded
    <2>5. attempts[a].req \in {None, s}
      BY <2>2 DEF Headship, AttemptsUnended
    <2>6. CallHeaded(call[c])'
      BY <2>2, <2>3, <2>4, <2>5 DEF CallHeaded, Locked
    <2> QED BY <2>3, <2>6, OneCallHeaded
  <1>1. CASE MarkAttempt(c)
    <2>1. call[c] \in MarkReadCall /\ call[c].pc = "mark_read" /\ CallHeaded(call[c])
      BY <1>1, CallShape DEF MarkAttempt, Headship, CallsHeaded
    <2>2. PICK a \in Attempts, s \in Signatures : a = call[c].attempt /\ s = SigOf[a]
      BY <2>1, ConstantsAssumption DEF MarkReadCall
    <2>3. /\ call'[c].pc = "marked" /\ call'[c].attempt = a /\ call'[c].status = call[c].status
          /\ \A d \in Callers \ {c} : call'[d] = call[d]
      BY <1>1, <2>1, <2>2 DEF MarkAttempt, TypeOK
    <2>4. attempts'[a].status # "absent"
      BY <1>1, <2>1, <2>2 DEF MarkAttempt, TypeOK, MarkReadCall, MarkStates, AttemptRecord
    <2>5. Headed(s)' /\ call[c].status # "failed"
      BY <2>1, <2>2, HeadKept DEF CallHeaded
    <2>6. CallHeaded(call[c])'
      BY <2>2, <2>3, <2>4, <2>5 DEF CallHeaded, Locked
    <2> QED BY <2>3, <2>6, OneCallHeaded
  <1>2. CASE MarkHead(c)
    BY <1>2, OneCallHeaded DEF MarkHead, Return, TypeOK
  <1> QED BY <1>0, <1>1, <1>2

\* The job of a call that observes it is there, so the step has its head; and it
\* is live, for no job ends.
LEMMA ObserveHeaded ==
    ASSUME TypeOK, NothingEnds, AttemptsFit, Headship, [Next]_vars, NEW c \in Callers,
           ReconcileAttempt(c) \/ ObserveDirectly(c)
    PROVE  CallsHeaded'
  <1>1. PICK a \in Attempts, j \in Jobs : Observe(c, a, j) /\ MadeFor(a, j)
    <2>1. CASE ReconcileAttempt(c)
      <3>1. PICK t \in Steps : /\ head[t] # None
                               /\ attempts[head[t]].job # None
                               /\ Observe(c, head[t], attempts[head[t]].job)
        BY <2>1 DEF ReconcileAttempt
      <3>2. head[t] \in Attempts /\ attempts[head[t]].job \in Jobs
        BY <3>1 DEF TypeOK, AttemptRecord
      <3> QED BY <3>1, <3>2 DEF AttemptsFit
    <2>2. CASE ObserveDirectly(c)
      BY <2>2 DEF ObserveDirectly, MadeFor, NothingEnds
    <2> QED BY <2>1, <2>2
  <1>2. PICK s \in Signatures : s = SigOf[a]
    BY ConstantsAssumption
  <1>3. j \in JobsOf(s) /\ job[j].status \in LiveJobStates
    BY <1>1, <1>2, ConstantsAssumption DEF MadeFor, JobsOf, SigOfJob, Headship, OnlyFunded
  <1>4. Headed(s)'
    BY <1>3, HeadKept DEF Headship, SigsHeaded, SigHeaded
  <1>5. PICK record \in RecordsOf(j) :
          call' = [call EXCEPT ![c] = [pc |-> "observed", attempt |-> a, record |-> record]]
    BY <1>1 DEF Observe
  <1>6. /\ record.status = job[j].status /\ ~ record.conflict
        /\ record.req \in {None, s}
    BY <1>2, <1>3, <1>5 DEF RecordsOf, NothingEnds, JobsOf, SigOfJob
  <1>7. /\ call'[c] = [pc |-> "observed", attempt |-> a, record |-> record]
        /\ \A d \in Callers \ {c} : call'[d] = call[d]
    BY <1>5 DEF TypeOK
  <1>8. CallHeaded(call[c])'
    BY <1>2, <1>3, <1>4, <1>6, <1>7 DEF CallHeaded, Locked
  <1> QED BY <1>7, <1>8, OneCallHeaded

\* No observation conflicts: a signature has one job, and its attempts ask for it.
LEMMA ObservedActive ==
    ASSUME TypeOK, NothingEnds, CallsFit, AttemptsFit, Headship, NEW c \in Callers,
           RecordObservation(c)
    PROVE  /\ call[c] \in ObserveReadCall /\ call[c].pc = "observation_read" /\ CallHeaded(call[c])
           /\ ObservedStatus(call[c].snapshot, call[c].record) = "active"
  <1>1. call[c] \in ObserveReadCall /\ call[c].pc = "observation_read" /\ CallHeaded(call[c])
    BY CallShape DEF RecordObservation, Headship, CallsHeaded
  <1>2. PICK a \in Attempts, record \in Observation, s \in Signatures, snapshot \in AttemptRecord :
          /\ a = call[c].attempt /\ record = call[c].record /\ s = SigOf[a]
          /\ snapshot = call[c].snapshot
    BY <1>1, ConstantsAssumption DEF ObserveReadCall
  <1>3. record.job \in JobsOf(s)
    <2>1. MadeFor(a, record.job) /\ record.job \in Jobs
      BY <1>1, <1>2 DEF CallsFit, CallFits, Observation
    <2> QED BY <1>2, <2>1, ConstantsAssumption DEF MadeFor, JobsOf, SigOfJob
  <1>4. snapshot.job \in {None, record.job}
    <2>1. snapshot.job \in Jobs \cup {None} /\ MadeFor(a, snapshot.job)
      BY <1>1, <1>2 DEF AttemptRecord, CallsFit, CallFits
    <2>2. snapshot.job # None => snapshot.job \in JobsOf(s)
      BY <1>2, <2>1 DEF MadeFor, JobsOf, SigOfJob
    <2> QED BY <1>3, <2>2 DEF Headship, SigsHeaded, SigHeaded
  <1>5. /\ record.req \in {None, s} /\ snapshot.req \in {None, s}
        /\ ~ record.conflict /\ record.status \in LiveJobStates
    BY <1>1, <1>2 DEF CallHeaded
  <1>6. ~ Conflicts(snapshot, record)
    BY <1>4, <1>5 DEF Conflicts
  <1> QED BY <1>1, <1>2, <1>5, <1>6 DEF ObservedStatus, LiveJobStates

LEMMA ObservedHeaded ==
    ASSUME TypeOK, NothingEnds, CallsFit, AttemptsFit, Headship, [Next]_vars, NEW c \in Callers,
           ObservationReads(c) \/ RecordObservation(c) \/ ObservationHead(c)
    PROVE  CallsHeaded'
  <1>0. CASE ObservationReads(c)
    <2>1. call[c] \in ObserveCall /\ call[c].pc = "observed" /\ CallHeaded(call[c])
      BY <1>0, CallShape DEF ObservationReads, Headship, CallsHeaded
    <2>2. PICK a \in Attempts, s \in Signatures : a = call[c].attempt /\ s = SigOf[a]
      BY <2>1, ConstantsAssumption DEF ObserveCall
    <2>3. /\ call'[c] = [pc |-> "observation_read", attempt |-> a, record |-> call[c].record,
                         snapshot |-> attempts[a]]
          /\ \A d \in Callers \ {c} : call'[d] = call[d]
      BY <1>0, <2>2 DEF ObservationReads, TypeOK
    <2>4. Headed(s)'
      BY <2>1, <2>2, HeadKept DEF CallHeaded
    <2>5. attempts[a].req \in {None, s}
      BY <2>2 DEF Headship, AttemptsUnended
    <2>6. CallHeaded(call[c])'
      BY <2>1, <2>2, <2>3, <2>4, <2>5 DEF CallHeaded, Locked
    <2> QED BY <2>3, <2>6, OneCallHeaded
  <1>1. CASE RecordObservation(c)
    <2>1. PICK a \in Attempts, s \in Signatures : a = call[c].attempt /\ s = SigOf[a]
      BY <1>1, ObservedActive, ConstantsAssumption DEF ObserveReadCall
    <2>2. /\ call'[c] = [pc |-> "observation_saved", attempt |-> a, status |-> "active"]
          /\ \A d \in Callers \ {c} : call'[d] = call[d]
          /\ attempts'[a].status = "active"
      BY <1>1, <2>1, ObservedActive DEF RecordObservation, TypeOK
    <2>3. Headed(s)'
      BY <1>1, <2>1, ObservedActive, HeadKept DEF CallHeaded
    <2>4. CallHeaded(call[c])'
      BY <2>1, <2>2, <2>3 DEF CallHeaded, Locked
    <2> QED BY <2>2, <2>4, OneCallHeaded
  <1>2. CASE ObservationHead(c)
    BY <1>2, OneCallHeaded DEF ObservationHead, Return, TypeOK
  <1> QED BY <1>0, <1>1, <1>2

\* Nothing is completed, so nothing is finalized.
LEMMA NeverFinalized ==
    ASSUME TypeOK, Headship, NEW c \in Callers
    PROVE  ~ (FinalizeVerified(c) \/ SaveWorkResult(c) \/ SaveSucceeded(c) \/ ClearHead(c))
  <1>1. ~ FinalizeVerified(c)
    BY DEF FinalizeVerified, FinalizeRecords, Finalizable, Headship, OnlyFunded, LiveJobStates
  <1> QED BY <1>1 DEF SaveWorkResult, SaveSucceeded, ClearHead, Headship, CallsHeaded, CallHeaded

LEMMA ProviderHeaded ==
    ASSUME TypeOK, NothingEnds, Headship, [Next]_vars, Provider \/ Crash \/ UNCHANGED vars
    PROVE  CallsHeaded'
  <1> SUFFICES ASSUME NEW c \in Callers, call'[c] # call[c], call'[c] # Idle
               PROVE  CallHeaded(call[c])'
    BY CallHeadedStays DEF CallsHeaded
  <1>1. PICK r \in net : JobCreated(r)
    BY DEF Provider, ProviderActs, JobFunded, JobChanged, JobEnds, ApprovalExpires, Crash, vars
  <1>2. PICK j \in Jobs : call[c].pc = "sent" /\ call'[c] = [call[c] EXCEPT !.request.job = j]
    BY <1>1 DEF JobCreated
  <1>3. call[c] \in CommandCall /\ CallHeaded(call[c])
    BY <1>2, CallShape DEF Headship, CallsHeaded
  <1>4. PICK s \in Signatures : s = SigOf[call[c].request.attempt]
    BY <1>3, ConstantsAssumption DEF CommandCall, Request
  <1>5. /\ call'[c].pc = "sent" /\ call'[c].request.action = call[c].request.action
        /\ call'[c].request.attempt = call[c].request.attempt
    BY <1>2, <1>3 DEF CommandCall, Request
  <1>6. Headed(s)'
    BY <1>2, <1>3, <1>4, HeadKept DEF CallHeaded
  <1> QED BY <1>2, <1>3, <1>4, <1>5, <1>6 DEF CallHeaded, Locked

LEMMA NextCallsHeaded ==
    ASSUME TypeOK, NothingEnds, CallsFit, AttemptsFit, Headship, [Next]_vars
    PROVE  CallsHeaded'
  BY BeginHeaded, CommandHeaded, OutcomeHeaded, MarkHeaded, ObserveHeaded, ObservedHeaded,
     NeverFinalized, ProviderHeaded DEF Next, Continue

LEMMA NextUnended ==
    ASSUME TypeOK, NothingEnds, CallsFit, AttemptsFit, Headship, [Next]_vars
    PROVE  AttemptsUnended'
  <1> SUFFICES ASSUME NEW a \in Attempts
               PROVE  /\ attempts'[a].status \in {"absent", "submitting", "active", "ambiguous"}
                      /\ attempts'[a].req \in {None, SigOf[a]}
    BY DEF AttemptsUnended
  <1>1. CASE attempts'[a] = attempts[a]
    BY <1>1 DEF Headship, AttemptsUnended
  <1>2. ASSUME NEW c \in Callers, SaveIntent(c), attempts'[a] # attempts[a]
        PROVE  attempts'[a].status = "submitting" /\ attempts'[a].req \in {None, SigOf[a]}
    BY <1>2 DEF SaveIntent, IntentOf, TypeOK
  <1>3. ASSUME NEW c \in Callers, MarkAttempt(c), attempts'[a] # attempts[a]
        PROVE  /\ attempts'[a].status \in {"active", "ambiguous"}
               /\ attempts'[a].req \in {None, SigOf[a]}
    <2>1. /\ call[c] \in MarkReadCall /\ call[c].status # "failed"
          /\ call[c].snapshot.req \in {None, SigOf[call[c].attempt]}
      BY <1>3, CallShape DEF MarkAttempt, Headship, CallsHeaded, CallHeaded
    <2> QED BY <1>3, <2>1 DEF MarkAttempt, MarkReadCall, MarkStates, TypeOK, AttemptRecord
  <1>4. ASSUME NEW c \in Callers, RecordObservation(c), attempts'[a] # attempts[a]
        PROVE  /\ attempts'[a].status = "active"
               /\ attempts'[a].req \in {None, SigOf[a]}
    BY <1>4, ObservedActive DEF RecordObservation, CallHeaded, TypeOK
  <1> QED BY <1>1, <1>2, <1>3, <1>4, AttemptWriters, NeverFinalized DEF Headship, AttemptsUnended

LEMMA NextOwned ==
    ASSUME TypeOK, NothingEnds, Headship, Intended, [Next]_vars
    PROVE  HeadsOwned'
  <1>1. \A b \in Attempts : attempts[b].status # "absent" => attempts'[b].status # "absent"
    BY RecordsStay
  <1>2. ASSUME UNCHANGED head PROVE HeadsOwned'
    BY <1>1, <1>2 DEF Headship, HeadsOwned, TypeOK
  <1>3. ASSUME NEW a \in Attempts, SetHead(a, a), attempts[a].status # "absent" PROVE HeadsOwned'
    BY <1>1, <1>3, ConstantsAssumption DEF Headship, HeadsOwned, SetHead, StepOfAttempt, TypeOK
  <1>4. ASSUME NEW c \in Callers, SendCommand(c) PROVE HeadsOwned'
    <2>1. call[c] \in CommandCall /\ CallSound(call[c]) /\ call[c].pc = "intent_saved"
      BY <1>4, CallShape DEF SendCommand, Locked, Intended
    <2>2. PICK a \in Attempts : a = call[c].request.attempt /\ attempts[a].status # "absent"
      BY <2>1 DEF CallSound, Backed, CommandCall, Request
    <2> QED BY <1>3, <1>4, <2>2 DEF SendCommand
  <1>5. ASSUME NEW c \in Callers, MarkHead(c) \/ ObservationHead(c) PROVE HeadsOwned'
    <2>1. call[c].pc \in {"marked", "observation_saved"} /\ CallHeaded(call[c])
      BY <1>5 DEF MarkHead, ObservationHead, Headship, CallsHeaded
    <2>2. PICK a \in Attempts : a = call[c].attempt /\ attempts[a].status # "absent"
      BY <2>1, CallShape DEF CallHeaded, MarkCall, ObservedCall
    <2> QED BY <1>3, <1>5, <2>1, <2>2 DEF MarkHead, ObservationHead, CallHeaded
  <1> QED BY <1>2, <1>4, <1>5, HeadWriters, NeverFinalized

\* _ACP_ACTION_LOCK: who gets it finds it free.
LEMMA NextOneHolder ==
    ASSUME TypeOK, Headship, [Next]_vars
    PROVE  OneLockHolder'
  <1>1. ASSUME NEW c \in Callers, call'[c].pc \in Locked, call[c].pc \notin Locked
        PROVE  LockFree /\ \A d \in Callers \ {c} : call'[d] = call[d]
    <2>1. ASSUME NEW d \in Callers, CreateJob(d) \/ PaidAction(d)
          PROVE  LockFree /\ \A e \in Callers \ {d} : call'[e] = call[e]
      BY <2>1, BeginOfRequest DEF Begin, TypeOK
    <2>2. ASSUME NEW d \in Callers, Reserve(d) \/ SaveIntent(d) \/ SendCommand(d)
          PROVE  FALSE
      <3>1. call[d].pc \in Locked /\ \A e \in Callers \ {d} : call'[e] = call[e]
        BY <2>2 DEF Reserve, SaveIntent, SendCommand, Goto, Return, Locked, TypeOK
      <3> QED BY <1>1, <3>1
    <2>3. ASSUME NEW d \in Callers,
                 \/ CommandSucceeds(d) \/ CommandFails(d) \/ CommandAmbiguous(d)
                 \/ MarkReads(d) \/ MarkAttempt(d) \/ MarkHead(d)
                 \/ ReconcileAttempt(d) \/ ObserveDirectly(d)
                 \/ ObservationReads(d) \/ RecordObservation(d) \/ ObservationHead(d)
          PROVE  FALSE
      <3>1. \A e \in Callers \ {d} : call'[e] = call[e]
        BY <2>3 DEF CommandSucceeds, CommandFails, CommandAmbiguous, Outcome, MarkReads,
             MarkAttempt, MarkHead, ObservationReads, RecordObservation, ObservationHead,
             ReconcileAttempt, ObserveDirectly, Observe, Return, TypeOK
      <3>2. call'[d].pc \notin Locked
        BY <2>3 DEF CommandSucceeds, CommandFails, CommandAmbiguous, Outcome, MarkReads,
             MarkAttempt, MarkHead, ObservationReads, RecordObservation, ObservationHead,
             ReconcileAttempt, ObserveDirectly, Observe, Return, Idle, Locked, TypeOK
      <3> QED BY <1>1, <3>1, <3>2
    <2>4. ASSUME Provider \/ Crash \/ UNCHANGED vars PROVE FALSE
      <3>1. call'[c] # call[c] /\ call'[c] # Idle
        BY <1>1 DEF Idle, Locked
      <3>2. PICK r \in net, j \in Jobs :
              call' = [d \in Callers |-> IF call[d].pc = "sent" /\ call[d].request = r
                                         THEN [call[d] EXCEPT !.request.job = j] ELSE call[d]]
        BY <2>4, <3>1 DEF Provider, ProviderActs, JobCreated, JobFunded, JobChanged, JobEnds,
             ApprovalExpires, Crash, vars
      <3>3. call[c].pc = "sent" /\ call'[c] = [call[c] EXCEPT !.request.job = j]
        BY <3>1, <3>2
      <3>4. call[c] \in CommandCall
        BY <3>3, CallShape
      <3>5. call'[c].pc = "sent"
        BY <3>3, <3>4 DEF CommandCall
      <3> QED BY <1>1, <3>5 DEF Locked
    <2>5. PICK d \in Callers : CreateJob(d) \/ PaidAction(d)
      BY <2>2, <2>3, <2>4, NeverFinalized DEF Next, Continue
    <2>6. d = c
      BY <1>1, <2>1, <2>5
    <2> QED BY <2>1, <2>5, <2>6
  <1> QED BY <1>1 DEF OneLockHolder, Headship, LockFree

LEMMA NextOnlyFunded ==
    ASSUME TypeOK, NothingEnds, Headship, [Next]_vars
    PROVE  OnlyFunded'
  <1>1. \A r \in net' : r.action \in {"create_job", "fund"}
    <2>1. net' \subseteq net \/ \E c \in Callers : SendCommand(c)
      BY NetWriters
    <2>2. ASSUME NEW c \in Callers, SendCommand(c) PROVE call[c].request.action \in {"create_job", "fund"}
      BY <2>2 DEF SendCommand, Headship, CallsHeaded, CallHeaded, Locked
    <2> QED BY <2>1, <2>2 DEF SendCommand, Headship, OnlyFunded
  <1>2. ASSUME NEW j \in Jobs PROVE job'[j].status \in LiveJobStates \cup {"absent"}
    <2>1. CASE ProviderActs
      <3>1. \E r \in net : JobCreated(r) \/ JobFunded(r)
        BY <2>1 DEF ProviderActs, Headship, OnlyFunded
      <3>2. job'[j] = job[j] \/ job'[j].status \in LiveJobStates
        BY <3>1 DEF JobCreated, JobFunded, LiveJobStates, TypeOK, JobRecord, NoJob
      <3> QED BY <3>2 DEF Headship, OnlyFunded
    <2>2. ASSUME NEW i \in Jobs PROVE ~ JobEnds(i)
      BY DEF JobEnds, NothingEnds
    <2> QED BY <2>1, <2>2, JobWriters DEF Headship, OnlyFunded
  <1> QED BY <1>1, <1>2 DEF OnlyFunded

\* A creation is sent where the step had no head, so its signature had neither a
\* job nor another creation; the job takes its place.
LEMMA NextSigsHeaded ==
    ASSUME TypeOK, NothingEnds, Headship, [Next]_vars
    PROVE  SigsHeaded'
  <1> SUFFICES ASSUME NEW s \in Signatures PROVE SigHeaded(s)'
    BY DEF SigsHeaded
  <1>1. SigHeaded(s) /\ (Headed(s) => Headed(s)')
    BY HeadKept DEF Headship, SigsHeaded
  <1>2. CASE UNCHANGED job /\ CreationsOf(s)' \subseteq CreationsOf(s)
    <2>1. JobsOf(s)' = JobsOf(s)
      BY <1>2 DEF JobsOf, SigOfJob
    <2> QED BY <1>1, <1>2, <2>1 DEF SigHeaded
  <1>3. ASSUME NEW c \in Callers, SendCommand(c) PROVE SigHeaded(s)'
    <2>1. /\ net' = net \cup {call[c].request} /\ UNCHANGED job
          /\ CallHeaded(call[c]) /\ call[c].pc \in Locked
      BY <1>3 DEF SendCommand, Headship, CallsHeaded, Locked
    <2>2. CASE call[c].request.action = "create_job" /\ SigOf[call[c].request.attempt] = s
      <3>1. ~ Headed(s)
        BY <2>1, <2>2 DEF CallHeaded
      <3>2. JobsOf(s)' = {} /\ CreationsOf(s)' = {call[c].request}
        BY <1>1, <2>1, <2>2, <3>1 DEF SigHeaded, JobsOf, SigOfJob, CreationsOf
      <3>3. Headed(s)'
        <4>1. call[c].request.attempt \in Attempts
          BY <1>3, CallShape DEF SendCommand, CommandCall, Request, Locked
        <4> QED BY <1>3, <2>2, <4>1, ConstantsAssumption
                DEF SendCommand, SetHead, Headed, StepOfAttempt, TypeOK
      <3> QED BY <3>2, <3>3 DEF SigHeaded
    <2>3. CASE ~ (call[c].request.action = "create_job" /\ SigOf[call[c].request.attempt] = s)
      BY <1>2, <2>1, <2>3 DEF CreationsOf
    <2> QED BY <2>2, <2>3
  <1>4. CASE ProviderActs
    <2>1. PICK r \in net : /\ \/ r.action = "create_job" /\ JobCreated(r)
                              \/ r.action = "fund" /\ JobFunded(r)
                           /\ net' = net \ {r}
      BY <1>4 DEF ProviderActs, Headship, OnlyFunded
    <2>2. CreationsOf(s)' = CreationsOf(s) \ {r}
      BY <2>1 DEF CreationsOf
    <2>3. CASE JobFunded(r)
      <3>1. JobsOf(s)' = JobsOf(s)
        BY <2>3 DEF JobFunded, JobsOf, SigOfJob, TypeOK, JobRecord, NoJob
      <3> QED BY <1>1, <2>2, <3>1 DEF SigHeaded
    <2>4. CASE r.action = "create_job" /\ JobCreated(r)
      <3>1. PICK j \in Jobs :
              /\ job[j].status = "absent"
              /\ job' = [job EXCEPT ![j] = [status |-> "open", by |-> r.attempt, paid |-> 0]]
        BY <2>4 DEF JobCreated
      <3>2. JobsOf(s)' = IF SigOf[r.attempt] = s THEN JobsOf(s) \cup {j} ELSE JobsOf(s)
        BY <3>1 DEF JobsOf, SigOfJob, TypeOK
      <3>3. SigOf[r.attempt] = s => r \in CreationsOf(s)
        BY <2>1, <2>4 DEF CreationsOf
      <3> QED BY <1>1, <2>2, <3>2, <3>3 DEF SigHeaded
    <2> QED BY <2>1, <2>3, <2>4
  <1>5. ASSUME NEW i \in Jobs PROVE ~ JobEnds(i)
    BY DEF JobEnds, NothingEnds
  <1>6. net' \subseteq net => CreationsOf(s)' \subseteq CreationsOf(s)
    BY DEF CreationsOf
  <1> QED BY <1>2, <1>3, <1>4, <1>5, <1>6, JobWriters, NetWriters

LEMMA InitHeadship == Init => Headship
  <1> SUFFICES ASSUME Init PROVE Headship
    OBVIOUS
  <1>1. SigsHeaded
    BY DEF Init, SigsHeaded, SigHeaded, JobsOf, CreationsOf, NoJob
  <1>2. CallsHeaded /\ OneLockHolder
    BY DEF Init, CallsHeaded, CallHeaded, OneLockHolder, Idle, Locked
  <1>3. AttemptsUnended /\ HeadsOwned /\ OnlyFunded
    BY ConstantsAssumption DEF Init, AttemptsUnended, HeadsOwned, OnlyFunded, NoAttempt, NoJob
  <1> QED BY <1>1, <1>2, <1>3 DEF Headship

LEMMA HeadshipHolds == Spec => [](NothingEnds => Headship)
  <1> DEFINE Kept == CallsFit /\ AttemptsFit /\ Headship
  <1>1. Init => Kept /\ Intended
    BY InitHeadship, InitIntended
       DEF Init, CallsFit, CallFits, AttemptsFit, MadeFor, Idle, Locked, NoAttempt
  <1>2. TypeOK /\ Intended /\ (NothingEnds => Kept) /\ [Next]_vars => (NothingEnds => Kept)'
    <2>1. NothingEnds' = NothingEnds
      BY DEF NothingEnds
    <2>2. NothingEnds => "foreign_observation" \notin Environment
      BY DEF NothingEnds
    <2>3. TypeOK /\ Intended /\ NothingEnds /\ Kept /\ [Next]_vars => Headship'
      BY NextCallsHeaded, NextUnended, NextOwned, NextOneHolder, NextOnlyFunded, NextSigsHeaded
         DEF Headship
    <2> QED BY <2>1, <2>2, <2>3, NextCallsFit, NextAttemptsFit
  <1>3. (NothingEnds => Kept) => (NothingEnds => Headship)
    OBVIOUS
  <1>4. TypeOK /\ Intended /\ [Next]_vars => Intended'
    BY NextIntended
  <1> HIDE DEF Kept
  <1> QED BY <1>1, <1>2, <1>3, <1>4, TypeCorrect, PTL DEF Spec

\* Any number of threads, crashing, timing out and observing at any time: while
\* commands do not fail and jobs do not end, an open or funded job is named by a
\* head that blocks another.
THEOREM LiveJobBlocksAll == Spec => [](NothingEnds => LiveJobBlocksReplacement)
  <1>1. TypeOK /\ (NothingEnds => Headship) => (NothingEnds => LiveJobBlocksReplacement)
    <2> SUFFICES ASSUME TypeOK, NothingEnds, Headship, NEW j \in Jobs, IsLive(j)
                 PROVE  OwnedByHead(job[j].by, ActiveStates)
      BY DEF LiveJobBlocksReplacement
    <2>1. PICK a \in Attempts, s \in Signatures : a = job[j].by /\ s = SigOf[a]
      BY ConstantsAssumption DEF IsLive, LiveJobStates, TypeOK, JobRecord, NoJob
    <2>2. j \in JobsOf(s)
      BY <2>1 DEF JobsOf, SigOfJob, IsLive, LiveJobStates
    <2>3. Headed(s)
      BY <2>2 DEF Headship, SigsHeaded, SigHeaded
    <2>4. PICK owner \in Attempts : owner = head[StepOf[s]] /\ StepOf[s] \in Steps
      BY <2>3, ConstantsAssumption DEF Headed, TypeOK
    <2>5. StepOfAttempt(owner) = StepOf[s] /\ attempts[owner].status # "absent"
      BY <2>3, <2>4 DEF Headship, HeadsOwned, Headed
    <2>6. SigOf[owner] = s
      BY <2>5, ConstantsAssumption DEF NothingEnds, StepOfAttempt
    <2>7. attempts[owner].status \in ActiveStates
      BY <2>5 DEF Headship, AttemptsUnended, ActiveStates
    <2> QED BY <2>1, <2>3, <2>4, <2>6, <2>7 DEF OwnedByHead, StepOfAttempt, Headed
  <1> QED BY <1>1, HeadshipHolds, TypeCorrect, PTL

\* Nor do they ever have two live jobs for one signature.
THEOREM OneLiveJobAll == Spec => [](NothingEnds => AtMostOneLiveJob)
  <1>1. TypeOK /\ (NothingEnds => Headship) => (NothingEnds => AtMostOneLiveJob)
    <2> SUFFICES ASSUME TypeOK, Headship, NEW i \in Jobs, NEW j \in Jobs,
                        IsLive(i), IsLive(j), SigOfJob(i) = SigOfJob(j)
                 PROVE  i = j
      BY DEF AtMostOneLiveJob
    <2>1. SigOfJob(i) \in Signatures
      BY ConstantsAssumption DEF SigOfJob, IsLive, LiveJobStates, TypeOK, JobRecord, NoJob
    <2>2. i \in JobsOf(SigOfJob(i)) /\ j \in JobsOf(SigOfJob(i))
      BY DEF JobsOf, IsLive, LiveJobStates
    <2> QED BY <2>1, <2>2 DEF Headship, SigsHeaded, SigHeaded
  <1> QED BY <1>1, HeadshipHolds, TypeCorrect, PTL

-----------------------------------------------------------------------------
(***************************************************************************)
(* The adapter implements PaidWork.  What reserves, what moves a job and    *)
(* what saves a result are different steps; each is a step of PaidWork or,  *)
(* like all others, none at all.  A job is opened long after its command    *)
(* was sent: that no other lives then is what Steady and Headship say.      *)
(***************************************************************************)
OpeningsFree ==
    \A r \in net : r.action = "create_job" =>
        \A j \in Jobs : IsLive(j) => SigOfJob(j) # SigOf[r.attempt]

LEMMA OpeningsStayFree == Spec => []((Orderly \/ NothingEnds) => OpeningsFree)
  <1>1. ASSUME TypeOK, Steady PROVE OpeningsFree
    <2> SUFFICES ASSUME NEW r \in net, r.action = "create_job", NEW j \in Jobs, IsLive(j),
                        SigOfJob(j) = SigOf[r.attempt]
                 PROVE  FALSE
      BY DEF OpeningsFree
    <2>1. PICK s \in Signatures : s = SigOf[r.attempt]
      BY <1>1, ConstantsAssumption DEF TypeOK, Request
    <2>2. r \in CreationsOf(s) /\ j \in LiveOf(s)
      BY <2>1 DEF CreationsOf, LiveOf
    <2> QED BY <1>1, <2>2 DEF Steady, SigsSound, SigSound
  <1>2. ASSUME TypeOK, Headship PROVE OpeningsFree
    <2> SUFFICES ASSUME NEW r \in net, r.action = "create_job", NEW j \in Jobs, IsLive(j),
                        SigOfJob(j) = SigOf[r.attempt]
                 PROVE  FALSE
      BY DEF OpeningsFree
    <2>1. PICK s \in Signatures : s = SigOf[r.attempt]
      BY <1>2, ConstantsAssumption DEF TypeOK, Request
    <2>2. r \in CreationsOf(s) /\ j \in JobsOf(s)
      BY <2>1 DEF CreationsOf, JobsOf, IsLive, LiveJobStates
    <2> QED BY <1>2, <2>2 DEF Headship, SigsHeaded, SigHeaded
  <1>3. TypeOK /\ (Orderly => Steady) /\ (NothingEnds => Headship)
          => ((Orderly \/ NothingEnds) => OpeningsFree)
    BY <1>1, <1>2
  <1> QED BY <1>3, SteadyHolds, HeadshipHolds, TypeCorrect, PTL

LEMMA InitWork == Init => Work!Init
  BY ConstantsAssumption DEF Init, Work!Init, ReservedFor, StatusOfJobs, AskerOfJobs, ResultJobs,
                             Known, NoJob, NoWork

LEMMA ReserveWorks ==
    ASSUME TypeOK, NEW c \in Callers, Reserve(c)
    PROVE  [Work!Next]_(Work!vars)
  <1> DEFINE r == call[c].request
             id == ReservationOf(r)
             s == SigOf[r.attempt]
  <1>1. UNCHANGED <<StatusOfJobs, AskerOfJobs, ResultJobs>>
    BY DEF Reserve, StatusOfJobs, AskerOfJobs, ResultJobs, SigOfJob
  <1>2. CASE UNCHANGED <<entries, committed>>
    BY <1>1, <1>2 DEF Work!vars, ReservedFor, Known
  <1>3. CASE entries' = [entries EXCEPT ![id] = r.amount] /\ committed' = committed + r.amount
             /\ Fits(call[c].approval, r.amount)
    <2>1. call[c] \in CommandCall
      BY CallShape DEF Reserve, Locked
    <2>2. /\ r.attempt \in Attempts /\ r.action \in Actions /\ r.amount \in Nat
          /\ s \in Signatures /\ call[c].approval \in Approvals
      BY <2>1, ConstantsAssumption DEF CommandCall, Request
    <2>3. id \in Reservations /\ id[1] = r.attempt /\ id[2] = r.action
      BY <2>2 DEF ReservationOf, Reservations
    <2> HIDE DEF r, id, s
    <2>4. {known \in Reservations : Known(known)}' = {known \in Reservations : Known(known)} \cup {id}
      BY <1>3, <2>2, <2>3 DEF Known, NoEntry, TypeOK
    <2>5. ReservedFor' = ReservedFor \cup {<<s, r.action>>}
      BY <2>3, <2>4 DEF ReservedFor, s
    <2>6. committed' >= committed /\ committed' <= call[c].approval.total
      BY <1>3, <2>2 DEF Fits, TypeOK
    <2>7. Work!Reserve(s, r.action)
      BY <1>1, <2>2, <2>5, <2>6 DEF Work!Reserve
    <2> QED BY <2>2, <2>7 DEF Work!Next
  <1> QED BY <1>2, <1>3 DEF Reserve

\* A command acts on a job only after the store holds its reservation.
LEMMA ProviderWorks ==
    ASSUME TypeOK, Intended, OpeningsFree, ProviderActs
    PROVE  Work!Next
  <1>1. PICK r \in net :
          /\ \/ r.action = "create_job" /\ JobCreated(r)
             \/ r.action = "fund" /\ JobFunded(r)
             \/ r.action = "complete" /\ JobChanged(r, {"funded"}, "completed")
             \/ r.action = "reject" /\ JobChanged(r, LiveJobStates, "rejected")
          /\ UNCHANGED store
    BY DEF ProviderActs
  <1>2. PICK a \in Attempts, s \in Signatures :
          a = r.attempt /\ s = SigOf[a] /\ r.action \in Actions /\ r \in Request
    BY ConstantsAssumption DEF TypeOK, Request
  <1>3. <<s, r.action>> \in ReservedFor
    <2>1. Known(<<a, r.action>>) /\ <<a, r.action>> \in Reservations
      BY <1>2 DEF Intended, Backed, ReservationOf, Reservations
    <2>2. <<SigOf[<<a, r.action>>[1]], <<a, r.action>>[2]>> = <<s, r.action>>
      BY <1>2
    <2> QED BY <2>1, <2>2 DEF ReservedFor
  <1>4. UNCHANGED <<ReservedFor, committed, ResultJobs>>
    BY <1>1 DEF store, ReservedFor, Known, ResultJobs
  <1>5. CASE r.action = "create_job"
    <2>1. PICK j \in Jobs :
            /\ job[j].status = "absent"
            /\ job' = [job EXCEPT ![j] = [status |-> "open", by |-> r.attempt, paid |-> 0]]
      BY <1>1, <1>5 DEF JobCreated
    <2>2. StatusOfJobs' = [StatusOfJobs EXCEPT ![j] = "open"]
      BY <2>1 DEF StatusOfJobs, TypeOK
    <2>3. AskerOfJobs' = [AskerOfJobs EXCEPT ![j] = s]
      BY <1>2, <2>1 DEF AskerOfJobs, SigOfJob, TypeOK
    <2>4. \A other \in Jobs : StatusOfJobs[other] \in Work!Live => AskerOfJobs[other] # s
      BY <1>2, <1>5 DEF OpeningsFree, IsLive, LiveJobStates, StatusOfJobs, AskerOfJobs, Work!Live
    <2>5. StatusOfJobs[j] = "absent"
      BY <2>1 DEF StatusOfJobs
    <2>6. Work!Open(s, j)
      BY <1>3, <1>4, <1>5, <2>2, <2>3, <2>4, <2>5 DEF Work!Open
    <2> QED BY <2>6 DEF Work!Next
  <1>6. CASE r.action # "create_job"
    <2>1. PICK from \in {{"open"}, {"funded"}, LiveJobStates}, to \in {"funded", "completed", "rejected"} :
            /\ \/ r.action = "fund" /\ from = {"open"} /\ to = "funded"
               \/ r.action = "complete" /\ from = {"funded"} /\ to = "completed"
               \/ r.action = "reject" /\ from = LiveJobStates /\ to = "rejected"
            /\ job[r.job].status \in from
            /\ \A j \in Jobs \ {r.job} : job'[j] = job[j]
            /\ r.job \in Jobs =>
                 job'[r.job].status = to /\ job'[r.job].by = job[r.job].by
      BY <1>1, <1>6 DEF JobFunded, JobChanged, TypeOK, JobRecord, NoJob
    <2>2. PICK j \in Jobs : j = r.job /\ SigOf[job[j].by] = s /\ job[j].status # "absent"
      BY <1>2, <1>6 DEF Intended, Addressed, Actions
    <2>3. StatusOfJobs' = [StatusOfJobs EXCEPT ![j] = to]
      BY <2>1, <2>2 DEF StatusOfJobs, TypeOK
    <2>4. UNCHANGED AskerOfJobs
      BY <2>1, <2>2 DEF AskerOfJobs, SigOfJob
    <2>5. StatusOfJobs[j] \in from /\ AskerOfJobs[j] = s
      BY <2>1, <2>2 DEF StatusOfJobs, AskerOfJobs, SigOfJob
    <2>6. Work!Move(j, from, to)
      BY <1>4, <2>3, <2>4, <2>5 DEF Work!Move
    <2>7. Work!Fund(j) \/ Work!Complete(j) \/ Work!End(j)
      BY <1>3, <2>1, <2>5, <2>6 DEF Work!Fund, Work!Complete, Work!End, Work!Live, LiveJobStates
    <2> QED BY <2>7 DEF Work!Next
  <1> QED BY <1>5, <1>6

LEMMA EndWorks ==
    ASSUME TypeOK, NEW j \in Jobs, JobEnds(j)
    PROVE  Work!Next
  <1>1. PICK to \in {"rejected", "expired"} : job' = [job EXCEPT ![j].status = to]
    BY DEF JobEnds
  <1>2. job[j].status \in LiveJobStates /\ UNCHANGED store
    BY DEF JobEnds
  <1>3. UNCHANGED <<ReservedFor, committed, ResultJobs>>
    BY <1>2 DEF store, ReservedFor, Known, ResultJobs
  <1>4. StatusOfJobs' = [StatusOfJobs EXCEPT ![j] = to]
    <2>1. job'[j].status = to /\ \A i \in Jobs \ {j} : job'[i] = job[i]
      BY <1>1, <1>2 DEF TypeOK, JobRecord, NoJob
    <2> QED BY <2>1 DEF StatusOfJobs
  <1>5. UNCHANGED AskerOfJobs
    BY <1>1, <1>2 DEF AskerOfJobs, SigOfJob, TypeOK, JobRecord, NoJob, LiveJobStates
  <1>6. StatusOfJobs[j] \in Work!Live
    BY <1>2 DEF StatusOfJobs, Work!Live, LiveJobStates
  <1>7. Work!Move(j, Work!Live, to)
    BY <1>3, <1>4, <1>5, <1>6 DEF Work!Move
  <1> QED BY <1>7 DEF Work!End, Work!Next

LEMMA DeliverWorks ==
    ASSUME TypeOK, CallsFit, NEW c \in Callers, SaveWorkResult(c)
    PROVE  Work!Next
  <1>1. call[c] \in FinalizeCall /\ call[c].pc = "verified"
    BY CallShape DEF SaveWorkResult
  <1>2. PICK a \in Attempts, j \in Jobs, s \in Signatures :
          a = call[c].attempt /\ j = call[c].job /\ s = SigOf[a]
    BY <1>1, ConstantsAssumption DEF FinalizeCall
  <1>3. job[j].status = "completed" /\ SigOf[job[j].by] = s
    BY <1>1, <1>2, ConstantsAssumption DEF CallsFit, CallFits, MadeFor
  <1>4. UNCHANGED <<ReservedFor, committed, StatusOfJobs, AskerOfJobs>>
    BY DEF SaveWorkResult, ReservedFor, Known, StatusOfJobs, AskerOfJobs, SigOfJob
  <1>5. ResultJobs' = [ResultJobs EXCEPT ![s] = j]
    BY <1>2 DEF SaveWorkResult, ResultJobs, TypeOK
  <1>6. StatusOfJobs[j] = "completed" /\ AskerOfJobs[j] = s
    BY <1>3 DEF StatusOfJobs, AskerOfJobs, SigOfJob
  <1>7. Work!Deliver(s, j)
    BY <1>4, <1>5, <1>6 DEF Work!Deliver
  <1> QED BY <1>7 DEF Work!Next

LEMMA NextWorks ==
    ASSUME TypeOK, Intended, CallsFit, OpeningsFree, [Next]_vars
    PROVE  [Work!Next]_(Work!vars)
  <1>1. CASE UNCHANGED <<entries, committed, job, work>>
    BY <1>1 DEF Work!vars, ReservedFor, Known, StatusOfJobs, AskerOfJobs, SigOfJob, ResultJobs
  <1>2. \/ UNCHANGED <<entries, committed, job, work>>
        \/ \E c \in Callers : Reserve(c) \/ SaveWorkResult(c)
        \/ ProviderActs \/ \E j \in Jobs : JobEnds(j)
    BY OnlyReserveSpends, JobWriters, WorkWriters
  <1> QED BY <1>1, <1>2, ReserveWorks, ProviderWorks, EndWorks, DeliverWorks

\* With one thread or with nothing that ends, and in either case whatever crashes,
\* timeouts and late commands come between, the adapter does what PaidWork allows.
THEOREM WorkImplemented == (Orderly \/ NothingEnds) /\ Spec => PaidWorkKept
  <1> DEFINE Hyp == Orderly \/ NothingEnds
             Fit == CallsFit /\ AttemptsFit
  <1>1. Init => Intended /\ Fit
    BY InitIntended DEF Init, CallsFit, CallFits, AttemptsFit, MadeFor, Idle, Locked, NoAttempt
  <1>2. TypeOK /\ Intended /\ [Next]_vars => Intended'
    BY NextIntended
  <1>3. Hyp /\ TypeOK /\ Fit /\ [Next]_vars => Fit'
    <2>1. Hyp => "foreign_observation" \notin Environment
      BY DEF Orderly, NothingEnds
    <2> QED BY <2>1, NextCallsFit, NextAttemptsFit
  <1>4. TypeOK /\ Intended /\ Fit /\ OpeningsFree /\ [Next]_vars => [Work!Next]_(Work!vars)
    BY NextWorks
  <1>5. Hyp => Hyp'
    BY DEF Orderly, NothingEnds
  <1> HIDE DEF Hyp, Fit
  <1>6. Hyp /\ Spec => []Hyp
    BY <1>5, PTL DEF Spec
  <1>7. Spec => [](Hyp => OpeningsFree)
    BY OpeningsStayFree DEF Hyp
  <1>8. Hyp /\ Spec => PaidWorkKept
    BY <1>1, <1>2, <1>3, <1>4, <1>6, <1>7, InitWork, TypeCorrect, PTL DEF Spec, PaidWorkKept, Work!Spec
  <1> QED BY <1>8 DEF Hyp

=============================================================================
