\* Faults, and foreign objects at adapter paths.
SPECIFICATION LiveSpec
CONSTANTS
    shared1 = shared1
    shared2 = shared2
    private1 = private1
    private2 = private2
    Package = {shared1, shared2, private1, private2}
    Shared = {shared1, shared2}
    Private <- MCPrivate
    Adapters = {claude, codex}
    None = None
    Torn = Torn
    Faults = {"crash", "io"}
    Outsiders = {"link"}
    MaxFaults = 2
INVARIANTS
    NoHiddenLeftovers
PROPERTIES
    ForgottenIsLocal
    UnpublishKeepsContract
    QuitsForCause
    Settles
CHECK_DEADLOCK FALSE
