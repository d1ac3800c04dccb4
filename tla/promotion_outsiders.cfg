\* Everybody at once, but nobody deletes the canonical package or changes the authorization.
SPECIFICATION Spec
CONSTANTS
    Package = {shared1, shared2, private1}
    Shared = {shared1, shared2}
    Adapters = {claude, codex}
    None = None
    Torn = Torn
    Faults = {"crash", "io"}
    Outsiders = {"write", "create", "discard", "late", "stale", "tamper", "target", "edit", "link"}
SYMMETRY Symmetry
INVARIANTS NoHiddenOrphans UndoneCompletely
PROPERTIES NeverReplaces
CHECK_DEADLOCK FALSE
