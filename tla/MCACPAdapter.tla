---------------------------- MODULE MCACPAdapter ----------------------------
(***************************************************************************)
(* Instances of ACPAdapter for TLC.  All signatures are inputs of one step. *)
(***************************************************************************)
EXTENDS ACPAdapter, TLC

MCStepOf == [s \in Signatures |-> CHOOSE step \in Steps : TRUE]

\* All attempts ask for one signature, or each for one of its own
MCSigOfOne == [a \in Attempts |-> CHOOSE s \in Signatures : TRUE]
MCSigOfPairs ==
    CHOOSE sigOf \in [Attempts -> Signatures] : \A s \in Signatures : \E a \in Attempts : sigOf[a] = s

\* One approval for everything: total 3, at most 2 per job
WholePlan == {[steps |-> Steps, actions |-> Actions, total |-> 3, per_job |-> 2]}

\* The same with a total no schedule of two attempts reaches
AmplePlan == {[steps |-> Steps, actions |-> Actions, total |-> 8, per_job |-> 2]}

\* Attempts and jobs are told apart by nothing but their names when all the
\* attempts ask for one signature.
MCSymmetry == Permutations(Attempts) \cup Permutations(Jobs) \cup Permutations(Callers)

\* When each asks for one of its own, an attempt changes places together with its signature.
MCPairSymmetry ==
    {p @@ q : <<p, q>> \in {pair \in Permutations(Attempts) \X Permutations(Signatures) :
                              \A a \in Attempts : SigOf[pair[1][a]] = pair[2][SigOf[a]]}}
        \cup Permutations(Jobs) \cup Permutations(Callers)

\* Histories of at most two records, of jobs that differ in their provider, which may be
\* written in another case, in their offering, requirements or transactions, or leave them out
History == INSTANCE Reconciliation WITH
    JobIds <- {"j1", "j2"}, Chains <- {1}, Identities <- {"p", "P", "q", "t", "u"}, Offerings <- {"o"},
    Needs <- {"n", "m"}, Addresses <- {"p", "P"}, Lower <- [x \in {"p", "P"} |-> "p"]

MCRecords ==
    [job: {"j1", "j2"}, chain: {1}, provider: {"p", "q", None}, offering: {"o", None}, name: {None},
     needs: {"n", "m", None}, hashes: {{}, {"t"}, {"u"}}]
MCIntents ==
    [job: {"j1", None}, chain: {1}, provider: {"P"}, offering: {"o"}, name: {None},
     needs: {"n", None}, hashes: {{}, {"t"}}]

ASSUME MatchKeepsItsPromises ==
    \A i \in MCIntents, c \in MCRecords :
        /\ History!NeverAnother(<<c>>, i)
        /\ \A d \in MCRecords : /\ History!NeverAnother(<<c, d>>, i)
                               /\ History!NeverMoved(<<c>>, <<d>>, i)
                               /\ History!OrderIrrelevant(<<c, d>>, <<d, c>>, i)

ASSUME FundingKeepsItsPromise ==
    \A status \in History!Funded \cup History!NotFunded \cup {"other"} :
    \A evidence \in {None} \cup [status: {"succeeded", "failed", "unknown"}, hash: {"t"}] :
        History!BothNeeded(status, evidence)
=============================================================================
