\* Two threads inside the adapter at once, each of which goes on running.
SPECIFICATION FairSpec
CONSTANTS
    Callers = {c1, c2}
    Steps = {visual}
    Signatures = {"s1"}
    StepOf <- MCStepOf
    Attempts = {a1, a2}
    SigOf <- MCSigOfOne
    Jobs = {j1, j2}
    Approvals <- WholePlan
    Amounts = {1}
    PaidActions = {"fund"}
    Environment = {}
    None = None
INVARIANTS AtMostOneLiveJob LiveJobBlocksReplacement
PROPERTIES CallsReturn SubmittingResolves
CHECK_DEADLOCK FALSE
