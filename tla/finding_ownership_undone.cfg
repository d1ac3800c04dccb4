\* The canonical package is edited between a crash and its recovery.
SPECIFICATION Spec
CONSTANTS
    Package = {shared1, shared2, private1}
    Shared = {shared1, shared2}
    Adapters = {claude, codex}
    None = None
    Torn = Torn
    Faults = {"crash"}
    Outsiders = {"edit"}
PROPERTIES PointOfNoReturn
CHECK_DEADLOCK FALSE
