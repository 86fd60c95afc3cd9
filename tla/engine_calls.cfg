\* Three calls whose steps each have one effective input; executors may fail.
SPECIFICATION CallsSpec
CONSTANTS
    Runs = {r1, r2, r3}
    Steps = {"announcement", "translation"}
    Order <- MCOrder
    Deps <- MCDeps
    Executable = {"announcement", "translation"}
    Requests <- WithOptional
    Inputs = {1}
    Outputs = {o1}
    Lifetime <- MCForever
    MaxTime = 0
    Environment = {"executor_failure"}
    None = None
INVARIANTS ExclusiveExecution ResultsSucceeded
PROPERTIES CallsEnd
CHECK_DEADLOCK FALSE
