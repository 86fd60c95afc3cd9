\* An attempt whose identity a fund's intent dropped is observed with the job of another input.
SPECIFICATION Spec
CONSTANTS
    Callers = {c1}
    Steps = {visual}
    Signatures = {s1, s2}
    StepOf <- MCStepOf
    Attempts = {a1, b1}
    SigOf <- MCSigOfPairs
    Jobs = {j1, j2}
    Approvals <- AmplePlan
    Amounts = {1}
    PaidActions = {"fund", "complete"}
    Environment = {"foreign_observation"}
    None = None
SYMMETRY MCPairSymmetry
INVARIANTS VerifiedReuse
CHECK_DEADLOCK FALSE
