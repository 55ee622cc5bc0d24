SPECIFICATION PlannerSpec
CONSTANTS
    StringLimit = 2
    Atom = {"pushed", "protected", "branch", "opaque", "approval"}
    Scenarios <- Every
INVARIANTS
    TruthIsBestWalk
    OrderFollowsEdges
    CompleteIsTheDag
    OnlyContainedWorkStarts
PROPERTY PlanIsReached
CHECK_DEADLOCK FALSE
