\* Faults, and other tools in the way of unpublish.
SPECIFICATION MCSpec
CONSTANTS
    shared1 = shared1
    shared2 = shared2
    private1 = private1
    private2 = private2
    Package = {shared1, shared2, private1, private2}
    Shared = {shared1, shared2}
    Private <- MCPrivate
    Adapters = {claude, codex}
    None = None
    Torn = Torn
    Faults = {"crash", "io"}
    Outsiders = {"target", "delete", "link", "tamper"}
    MaxFaults = 2
SYMMETRY Symmetry
INVARIANTS
    UnpublishTypeOK
PROPERTIES
    OwnedSurvives
    ForgottenForGood
    WithdrawalReplacesNothing
CHECK_DEADLOCK FALSE
