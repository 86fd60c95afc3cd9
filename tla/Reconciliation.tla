--------------------------- MODULE Reconciliation ---------------------------
(***************************************************************************)
(* match_reconciliation_candidates and reconcile_funding of                  *)
(* delta/providers/acp.py: which job of the provider's history, if any, may  *)
(* be attached to a persisted intent, and when a job counts as funded.       *)
(*                                                                         *)
(* The package exports both; the adapter's own operations do not call them.  *)
(***************************************************************************)
EXTENDS Sequences, Naturals

CONSTANTS
    JobIds, Chains,
    Identities,   \* of providers and transactions
    Offerings,    \* ids and names of offerings
    Needs,        \* signatures of requirements
    Addresses,    \* the identities that are EVM addresses
    Lower,        \* [Addresses -> their lower-case forms]
    None

\* _same_identity
SameIdentity(x, y) == x = y \/ (x \in Addresses /\ y \in Addresses /\ Lower[x] = Lower[y])

\* What a history says of a job; None where it says nothing
ACPJobRecord ==
    [job: JobIds, chain: Chains, provider: Identities \cup {None}, offering: Offerings \cup {None},
     name: Offerings \cup {None}, needs: Needs \cup {None}, hashes: SUBSET Identities]

\* What is known of the job that is looked for
Intent ==
    [job: JobIds \cup {None}, chain: Chains, provider: Identities, offering: Offerings \cup {None},
     name: Offerings \cup {None}, needs: Needs \cup {None}, hashes: SUBSET Identities]

Differ(x, y) == x # None /\ y # None /\ x # y

\* An identity is compared only where both sides have one.
Mismatched(c, i) ==
    \/ Differ(i.job, c.job)
    \/ c.chain # i.chain
    \/ c.provider # None /\ ~ SameIdentity(c.provider, i.provider)
    \/ Differ(i.offering, c.offering)
    \/ Differ(i.name, c.name)
    \/ Differ(i.needs, c.needs)
    \/ /\ i.hashes # {} /\ c.hashes # {}
       /\ \A x \in c.hashes, y \in i.hashes : ~ SameIdentity(x, y)

Plausible(cs, i) == {k \in DOMAIN cs : ~ Mismatched(cs[k], i)}

\* Silence is not enough to attach a job.
Identified(c, i) ==
    /\ c.provider # None
    /\ \/ i.offering # None /\ c.offering = i.offering
       \/ c.offering = None /\ i.name # None /\ c.name = i.name

Decision(outcome, record) == [outcome |-> outcome, record |-> record]

\* match_reconciliation_candidates, for a history with the candidates cs
Match(cs, i) ==
    LET plausible == Plausible(cs, i)
        only == cs[CHOOSE k \in plausible : TRUE]
    IN IF cs = <<>> THEN Decision("manual", None)
       ELSE IF plausible = {} THEN Decision("blocked", None)
       ELSE IF \E k, l \in plausible : k # l THEN Decision("manual", None)
       ELSE IF Identified(only, i) THEN Decision("attach", only)
       ELSE Decision("manual", None)

-----------------------------------------------------------------------------
NotFunded == {"open", "budget_set", "rejected", "expired"}
Funded == {"funded", "submitted", "completed"}

\* parse_chain_evidence: a success names its transaction.
ChainEvidence ==
    [status: {"succeeded"}, hash: Identities]
        \cup [status: {"failed", "unknown"}, hash: Identities \cup {None}]

\* reconcile_funding; evidence is None where there is none.
FundingOf(status, evidence) ==
    LET succeeded == evidence # None /\ evidence.status = "succeeded"
        failed == evidence # None /\ evidence.status = "failed"
    IN CASE status \in Funded /\ succeeded -> "verified_funded"
         [] status \in Funded /\ failed -> "blocked"
         [] status \in NotFunded /\ succeeded -> "blocked"
         [] status \in NotFunded /\ ~ succeeded -> "not_funded"
         [] OTHER -> "ambiguous"

-----------------------------------------------------------------------------
(***************************************************************************)
(* What the two promise.                                                   *)
(***************************************************************************)
\* A job as it is, with the transaction every account of its transactions must include
Job == [job: JobIds, chain: Chains, provider: Identities, offering: Offerings, name: Offerings,
        needs: Needs, transaction: Identities]

\* An account of a job that tells nothing false of it, but may leave things out
Tells(view, fact) ==
    /\ view.job \in {None, fact.job}
    /\ view.chain = fact.chain
    /\ view.provider = None \/ SameIdentity(view.provider, fact.provider)
    /\ view.offering \in {None, fact.offering}
    /\ view.name \in {None, fact.name}
    /\ view.needs \in {None, fact.needs}
    /\ view.hashes = {} \/ \E x \in view.hashes : SameIdentity(x, fact.transaction)

\* The history's record and the intent may be two accounts of one job.
Faithful(c, i) == \E fact \in Job : Tells(c, fact) /\ Tells(i, fact)

\* If the job looked for is in a history that tells nothing false of it, then it is not
\* reported as missing, and no other job is attached (match_reconciliation_candidates).
NeverAnother(cs, i) ==
    \A k \in DOMAIN cs : Faithful(cs[k], i) =>
        /\ Match(cs, i).outcome # "blocked"
        /\ Match(cs, i).outcome = "attach" => Match(cs, i).record = cs[k]

\* More history never moves an attachment to another job: at worst a person has to look
\* (match_reconciliation_candidates).
NeverMoved(cs, more, i) ==
    Match(cs, i).outcome = "attach" => Match(cs \o more, i) \in {Match(cs, i), Decision("manual", None)}

\* Two histories of the same jobs in another order are decided alike.
OrderIrrelevant(cs, ds, i) ==
    (\E p \in [DOMAIN cs -> DOMAIN ds] :
        /\ \A l \in DOMAIN ds : \E k \in DOMAIN cs : p[k] = l
        /\ \A k, l \in DOMAIN cs : p[k] = p[l] => k = l
        /\ \A k \in DOMAIN cs : cs[k] = ds[p[k]])
    => Match(cs, i) = Match(ds, i)

\* Neither side alone is believed that money moved: to take one piece of evidence away
\* from a verified funding leaves it in doubt (reconcile_funding).
BothNeeded(status, evidence) ==
    FundingOf(status, evidence) = "verified_funded" =>
        /\ FundingOf(status, None) = "ambiguous"
        /\ \A other \in NotFunded : FundingOf(other, evidence) = "blocked"
=============================================================================
