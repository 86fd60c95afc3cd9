\* A call started from a shown plan and a plain call, among crashes, failing writes and
\* growing stale.
SPECIFICATION PlanSpec
CONSTANTS
    Runs = {r1, r2}
    Visitors = {r1}
    Steps = {"announcement", "translation"}
    Order <- MCOrder
    Deps <- MCDeps
    Executable = {"announcement", "translation"}
    Requests <- TwoRequests
    Inputs = {1, 2}
    Outputs = {o1, o2}
    Lifetime <- MCAnnouncementExpires
    MaxTime = 1
    Environment = {"crash", "executor_failure", "store_failure"}
    None = None
SYMMETRY MCOutputSymmetry
INVARIANTS PlanTypeOK ResultsMatchAttempts OnlyLostCallsLinger ReportMatchesStore PreviewSound PlanKept
PROPERTIES SoundEvaluation
CHECK_DEADLOCK FALSE
