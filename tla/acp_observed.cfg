\* Two threads, two signatures of one step and one job: finalizations overlap paid actions,
\* each other, and observations of any attempt with a job of its own signature, also
\* through a history that names another provider or offering; the process may die.
SPECIFICATION Spec
CONSTANTS
    Callers = {c1, c2}
    Steps = {visual}
    Signatures = {s1, s2}
    StepOf <- MCStepOf
    Attempts = {a1, b1}
    SigOf <- MCSigOfPairs
    Jobs = {j1}
    Approvals <- WholePlan
    Amounts = {1}
    PaidActions = {"fund", "complete"}
    Environment = {"crash", "direct_observation", "conflicting_history"}
    None = None
SYMMETRY MCPairSymmetry
INVARIANTS VerifiedReuse PaidResultKept
CHECK_DEADLOCK FALSE
