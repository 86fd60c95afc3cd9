\* A call for agent A and a handoff to B, for two requests and three sets of policies,
\* over results that grow stale and that others rewrite.
SPECIFICATION HandoffSpec
CONSTANTS
    a = a
    b = b
    Runs = {a, b}
    Handoffs = {b}
    Steps = {"private_notes", "dependent_summary"}
    Order <- MCOrder
    Deps <- MCDeps
    Executable = {"private_notes", "dependent_summary"}
    Requests <- TwoRequests
    Inputs = {1, 2}
    Outputs = {o1}
    Lifetime <- NotesExpire
    MaxTime = 1
    Environment = {}
    Agents = {"agent-a", "agent-b"}
    Providers = {"delta-fixture", "openai"}
    Categories = {"private_notes", "dependent_summary"}
    Principal <- MCPrincipal
    Declaration <- MCDeclaration
    PolicySets <- MCPolicySets
    Rewrites = {"job_settled", "job_open", "unattributed", "undecodable"}
    None = None
INVARIANTS HandoffTypeOK ContextPermitted ContextProduced GateConsistent
CHECK_DEADLOCK FALSE
