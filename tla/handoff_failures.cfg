\* A call for agent A and a handoff to B while executors and the store fail, records are
\* damaged and the process may die.
SPECIFICATION FairHandoffSpec
CONSTANTS
    a = a
    b = b
    Runs = {a, b}
    Handoffs = {b}
    Steps = {"private_notes", "dependent_summary"}
    Order <- MCOrder
    Deps <- MCDeps
    Executable = {"private_notes", "dependent_summary"}
    Requests <- OneRequest
    Inputs = {1, 2}
    Outputs = {o1}
    Lifetime <- NeverExpire
    MaxTime = 0
    Environment = {"executor_failure", "store_failure", "crash"}
    Agents = {"agent-a", "agent-b"}
    Providers = {"delta-fixture", "openai"}
    Categories = {"private_notes", "dependent_summary"}
    Principal <- OneProvider
    Declaration <- MCDeclaration
    PolicySets <- SameProvider
    Rewrites = {"artifact_lost", "undecodable"}
    None = None
INVARIANTS ReceiptTruth
PROPERTIES HandoffsEnd
CHECK_DEADLOCK FALSE
