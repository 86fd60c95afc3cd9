\* A tab resets one scenario while the first opening of another is under way.
SPECIFICATION Spec
CONSTANTS
    x = x
    y = y
    Tabs = {x, y}
    Scenarios = {"repair", "research"}
    Opens <- AScenarioEach
    Workspaces = {w1}
    Generations = {g1, g2, g3}
    Environment = {}
    None = None
SYMMETRY MCGenerationSymmetry
INVARIANTS CookieCurrent
CHECK_DEADLOCK FALSE
