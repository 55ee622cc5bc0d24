SPECIFICATION PlannerSpec
CONSTANTS
    StringLimit = 2
    Atom = {"pushed", "protected", "branch", "opaque", "approval"}
    Scenarios <- Every
INVARIANT OnlyTheEventsWorkIsPlanned
CHECK_DEADLOCK FALSE
