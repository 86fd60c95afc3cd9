\* A fund command exits with an error: the attempt is failed while its job lives.
SPECIFICATION Spec
CONSTANTS
    Callers = {c1}
    Steps = {visual}
    Signatures = {"s1"}
    StepOf <- MCStepOf
    Attempts = {a1, a2}
    SigOf <- MCSigOfOne
    Jobs = {j1, j2}
    Approvals <- WholePlan
    Amounts = {1}
    PaidActions = {"fund"}
    Environment = {"paid_failure"}
    None = None
SYMMETRY MCSymmetry
INVARIANTS AtMostOneLiveJob
CHECK_DEADLOCK FALSE
