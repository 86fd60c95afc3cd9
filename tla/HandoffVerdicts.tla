-------------------------- MODULE HandoffVerdicts ---------------------------
(***************************************************************************)
(* The five verdicts of delta/handoff.py on one step, the ladder that maps   *)
(* them to a decision, and the check every decision makes of itself.        *)
(*                                                                         *)
(* The ladder and the check were written apart: where they disagree, the     *)
(* decision cannot be constructed and the whole evaluation raises.          *)
(***************************************************************************)
Evaluations(verdicts) == verdicts \cup {"no_candidate", "unevaluated"}

HandoffVerdicts ==
    [validity: Evaluations({"valid", "invalid"}),
     trust: Evaluations({"trusted", "untrusted"}),
     authorization: Evaluations({"authorized", "unauthorized"}),
     dependency: {"satisfied", "pending"},
     external_job: {"not_applicable", "safe", "reconciliation_required", "unsafe", "unevaluated"}]

\* Every verdict permits content to cross.
ApprovesInheritance(v) ==
    /\ v.dependency = "satisfied"
    /\ v.external_job \in {"not_applicable", "safe"}
    /\ v.trust = "trusted"
    /\ v.authorization = "authorized"
    /\ v.validity = "valid"

\* The gate's decisions; the three reasons to block a candidate, and the one to block a
\* step without, stay apart.
Blocking == {"job_open", "untrusted", "unauthorized", "undecodable"}
Decided == Blocking \cup {"reuse", "rerun", "pending"}

\* HandoffDecision refuses to be made of a decision and verdicts that disagree.
Constructible(decision, v) == (decision = "reuse") <=> ApprovesInheritance(v)

\* Mutant: what is valid and trusted is reused.
DecideWithoutAuthorization(v) ==
    IF v.dependency = "pending" THEN "pending"
    ELSE IF v.external_job \in {"reconciliation_required", "unsafe"} THEN "job_open"
    ELSE IF v.validity # "valid" THEN "rerun"
    ELSE IF v.trust # "trusted" THEN "untrusted"
    ELSE "reuse"

\* _decide: an open paid job comes before validity, validity before trust, trust before
\* authorization.
DecideOn(v) ==
    IF v.dependency = "pending" THEN "pending"
    ELSE IF v.external_job \in {"reconciliation_required", "unsafe"} THEN "job_open"
    ELSE IF v.validity # "valid" THEN "rerun"
    ELSE IF v.trust # "trusted" THEN "untrusted"
    ELSE IF v.authorization # "authorized" THEN "unauthorized"
    ELSE "reuse"

\* _pending_candidate: the effective input is not known.
PendingVerdicts ==
    [validity |-> "unevaluated", trust |-> "unevaluated", authorization |-> "unevaluated",
     dependency |-> "pending", external_job |-> "unevaluated"]

\* _evaluate_candidate, without a record
NoCandidateVerdicts ==
    [validity |-> "no_candidate", trust |-> "no_candidate", authorization |-> "no_candidate",
     dependency |-> "satisfied", external_job |-> "not_applicable"]

\* _undecodable_candidate: its decision is set to blocked, where the ladder says rerun.
UndecodableVerdicts ==
    [validity |-> "invalid", trust |-> "untrusted", authorization |-> "unevaluated",
     dependency |-> "satisfied", external_job |-> "unevaluated"]
=============================================================================
