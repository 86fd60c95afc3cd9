\* A result with an open paid job has grown stale when the handoff to B begins.
SPECIFICATION HandoffSpec
CONSTANTS
    a = a
    b = b
    Runs = {a, b}
    Handoffs = {b}
    Steps = {"private_notes", "dependent_summary"}
    Order <- MCOrder
    Deps <- MCDeps
    Executable = {"private_notes", "dependent_summary"}
    Requests <- OneRequest
    Inputs = {1, 2}
    Outputs = {o1}
    Lifetime <- NotesExpire
    MaxTime = 1
    Environment = {}
    Agents = {"agent-a", "agent-b"}
    Providers = {"delta-fixture", "openai"}
    Categories = {"private_notes", "dependent_summary"}
    Principal <- MCPrincipal
    Declaration <- MCDeclaration
    PolicySets <- LenientOnly
    Rewrites = {"job_open"}
    None = None
PROPERTIES OpenJobNotRerun
CHECK_DEADLOCK FALSE
