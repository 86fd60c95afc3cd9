------------------------ MODULE ReconciliationProofs ------------------------
(***************************************************************************)
(* What Reconciliation promises, for every history, intent and identity.     *)
(***************************************************************************)
EXTENDS Reconciliation, TLAPS

\* What is the same as a third is the same, also where only letter case tells them apart.
LEMMA SameIdentityEuclidean ==
    ASSUME NEW x, NEW y, NEW z, SameIdentity(x, z), SameIdentity(y, z)
    PROVE  SameIdentity(x, y)
  BY DEF SameIdentity

\* Two true accounts of one job contradict each other nowhere.
LEMMA FaithfulFits ==
    ASSUME NEW c, NEW i \in Intent, None \notin Identities, Faithful(c, i)
    PROVE  ~ Mismatched(c, i)
  <1>1. PICK fact \in Job : Tells(c, fact) /\ Tells(i, fact)
    BY DEF Faithful
  <1>2. c.provider = None \/ SameIdentity(c.provider, i.provider)
    <2>1. SameIdentity(i.provider, fact.provider)
      BY <1>1 DEF Tells, Intent
    <2> QED BY <1>1, <2>1, SameIdentityEuclidean DEF Tells
  <1>3. \/ i.hashes = {} \/ c.hashes = {}
        \/ \E x \in c.hashes, y \in i.hashes : SameIdentity(x, y)
    BY <1>1, SameIdentityEuclidean DEF Tells
  <1>4. /\ ~ Differ(i.job, c.job) /\ c.chain = i.chain /\ ~ Differ(i.offering, c.offering)
        /\ ~ Differ(i.name, c.name) /\ ~ Differ(i.needs, c.needs)
    BY <1>1 DEF Tells, Differ
  <1> QED BY <1>2, <1>3, <1>4 DEF Mismatched

\* A candidate that is attached is the only plausible one.
LEMMA AttachedIsOnly ==
    ASSUME NEW cs, NEW i, Match(cs, i).outcome = "attach", NEW k \in Plausible(cs, i)
    PROVE  /\ Plausible(cs, i) = {k}
           /\ Match(cs, i) = Decision("attach", cs[k])
           /\ Identified(cs[k], i)
  BY DEF Match, Decision

\* The one who is plausible alone, and identified, is attached.
LEMMA OnlyIsAttached ==
    ASSUME NEW cs, NEW i, cs # <<>>, NEW k, Plausible(cs, i) = {k}
    PROVE  Match(cs, i) = IF Identified(cs[k], i) THEN Decision("attach", cs[k])
                                                  ELSE Decision("manual", None)
  BY DEF Match

LEMMA AttachedHasOne ==
    ASSUME NEW cs, NEW i, Match(cs, i).outcome = "attach"
    PROVE  cs # <<>> /\ Plausible(cs, i) # {}
  BY DEF Match, Decision

\* The job looked for is never passed over for another one, in whatever history tells
\* nothing false of it (match_reconciliation_candidates).
THEOREM NeverAnotherHolds ==
    ASSUME NEW cs \in Seq(ACPJobRecord), NEW i \in Intent, None \notin Identities
    PROVE  NeverAnother(cs, i)
  <1> SUFFICES ASSUME NEW k \in DOMAIN cs, Faithful(cs[k], i)
               PROVE  /\ Match(cs, i).outcome # "blocked"
                      /\ Match(cs, i).outcome = "attach" => Match(cs, i).record = cs[k]
    BY DEF NeverAnother
  <1>1. k \in Plausible(cs, i)
    BY FaithfulFits DEF Plausible
  <1>2. cs # <<>>
    OBVIOUS
  <1>3. Match(cs, i).outcome # "blocked"
    BY <1>1, <1>2 DEF Match, Decision
  <1>4. Match(cs, i).outcome = "attach" => Match(cs, i).record = cs[k]
    BY <1>1, AttachedIsOnly DEF Decision
  <1> QED BY <1>3, <1>4

\* An attachment stays with its job however much history is added to the one it was made
\* from (match_reconciliation_candidates).
THEOREM NeverMovedHolds ==
    ASSUME NEW cs \in Seq(ACPJobRecord), NEW more \in Seq(ACPJobRecord), NEW i \in Intent
    PROVE  NeverMoved(cs, more, i)
  <1> DEFINE both == cs \o more
  <1> SUFFICES ASSUME Match(cs, i).outcome = "attach"
               PROVE  Match(both, i) \in {Match(cs, i), Decision("manual", None)}
    BY DEF NeverMoved
  <1>1. PICK k \in Plausible(cs, i) : TRUE
    BY AttachedHasOne
  <1>2. /\ Plausible(cs, i) = {k} /\ Match(cs, i) = Decision("attach", cs[k])
        /\ Identified(cs[k], i)
    BY AttachedIsOnly
  <1>3. k \in DOMAIN cs /\ ~ Mismatched(cs[k], i)
    BY DEF Plausible
  <1>4. k \in DOMAIN both /\ both[k] = cs[k] /\ both # <<>>
    BY <1>3
  <1> HIDE DEF both
  <1>5. k \in Plausible(both, i)
    BY <1>3, <1>4 DEF Plausible
  <1>6. CASE Plausible(both, i) = {k}
    BY <1>2, <1>4, <1>6, OnlyIsAttached
  <1>7. CASE \E l \in Plausible(both, i) : l # k
    BY <1>4, <1>5, <1>7 DEF Match, Decision
  <1> QED BY <1>5, <1>6, <1>7

\* The order in which a history lists its jobs does not matter
\* (match_reconciliation_candidates).
THEOREM OrderIrrelevantHolds ==
    ASSUME NEW cs \in Seq(ACPJobRecord), NEW ds \in Seq(ACPJobRecord), NEW i \in Intent
    PROVE  OrderIrrelevant(cs, ds, i)
  <1> SUFFICES ASSUME NEW p \in [DOMAIN cs -> DOMAIN ds],
                      \A l \in DOMAIN ds : \E k \in DOMAIN cs : p[k] = l,
                      \A k, l \in DOMAIN cs : p[k] = p[l] => k = l,
                      \A k \in DOMAIN cs : cs[k] = ds[p[k]]
               PROVE  Match(cs, i) = Match(ds, i)
    BY DEF OrderIrrelevant
  <1>1. \A k \in DOMAIN cs : k \in Plausible(cs, i) <=> p[k] \in Plausible(ds, i)
    BY DEF Plausible
  <1>2. Plausible(cs, i) \subseteq DOMAIN cs /\ Plausible(ds, i) \subseteq DOMAIN ds
    BY DEF Plausible
  <1>3. DOMAIN cs = {} <=> DOMAIN ds = {}
    OBVIOUS
  <1>4. cs = <<>> <=> ds = <<>>
    BY <1>3
  <1>5. CASE cs = <<>>
    BY <1>4, <1>5 DEF Match
  <1>6. CASE cs # <<>> /\ Plausible(cs, i) = {}
    <2>1. Plausible(ds, i) = {}
      BY <1>1, <1>2, <1>6
    <2> QED BY <1>4, <1>6, <2>1 DEF Match
  <1>7. CASE cs # <<>> /\ \E k, l \in Plausible(cs, i) : k # l
    <2>1. \E k, l \in Plausible(ds, i) : k # l
      BY <1>1, <1>2, <1>7
    <2> QED BY <1>4, <1>7, <2>1 DEF Match
  <1>8. CASE cs # <<>> /\ \E k \in Plausible(cs, i) : \A l \in Plausible(cs, i) : k = l
    <2>1. PICK k \in DOMAIN cs : Plausible(cs, i) = {k}
      BY <1>2, <1>8
    <2>2. Plausible(ds, i) = {p[k]}
      BY <1>1, <1>2, <2>1
    <2> QED BY <1>4, <1>8, <2>1, <2>2, OnlyIsAttached
  <1> QED BY <1>5, <1>6, <1>7, <1>8

\* Neither the provider nor the chain is believed alone that a job was funded
\* (reconcile_funding).
THEOREM BothNeededHolds ==
    ASSUME NEW status, NEW evidence PROVE BothNeeded(status, evidence)
  BY DEF BothNeeded, FundingOf, Funded, NotFunded
=============================================================================
