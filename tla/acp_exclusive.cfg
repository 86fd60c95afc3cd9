\* One thread, every paid action; crashes, failed creations, approvals that run out, and
\* jobs that end by themselves.
SPECIFICATION Spec
CONSTANTS
    Callers = {c1}
    Steps = {visual}
    Signatures = {"s1"}
    StepOf <- MCStepOf
    Attempts = {a1, a2}
    SigOf <- MCSigOfOne
    Jobs = {j1, j2}
    Approvals <- WholePlan
    Amounts = {1}
    PaidActions = {"fund", "complete", "reject"}
    Environment = {"crash", "create_failure", "job_ends", "expiry"}
    None = None
SYMMETRY MCSymmetry
INVARIANTS TypeOK LedgerBalanced CapRespected DurableIntent AtMostOneLiveJob LiveJobBlocksReplacement
PROPERTIES PaidWorkKept 
CHECK_DEADLOCK FALSE
