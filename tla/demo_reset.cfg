\* Two tabs of one scenario among lost answers, failing writes and crashes.
SPECIFICATION Spec
CONSTANTS
    x = x
    y = y
    Tabs = {x, y}
    Scenarios = {"repair"}
    Opens <- OneScenario
    Workspaces = {w1}
    Generations = {g1, g2, g3}
    Environment = {"crash", "store_failure", "answer_lost"}
    None = None
SYMMETRY MCSymmetry
INVARIANTS DemoTypeOK InitializedHasWork OneSuccessor CookieCurrent ErasedUnlessOverlapped
PROPERTIES RetiredStaysRetired
CHECK_DEADLOCK FALSE
