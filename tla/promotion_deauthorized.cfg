\* The shared root loses and regains its authorization between operations, while others write, discard, delete and link.
SPECIFICATION Spec
CONSTANTS
    Package = {shared1, shared2, private1}
    Shared = {shared1, shared2}
    Adapters = {claude, codex}
    None = None
    Torn = Torn
    Faults = {"crash", "io"}
    Outsiders = {"write", "discard", "late", "delete", "link", "auth"}
SYMMETRY Symmetry
INVARIANTS NothingLost OnlySharedPublished
PROPERTIES PointOfNoReturn GivesUpForCause
CHECK_DEADLOCK FALSE
