\* The host dies twice: in unpublish and in its recovery.
SPECIFICATION MCSpec
CONSTANTS
    shared1 = shared1
    shared2 = shared2
    private1 = private1
    private2 = private2
    Package = {shared1, shared2, private1, private2}
    Shared = {shared1, shared2}
    Private <- MCPrivate
    Adapters = {claude, codex}
    None = None
    Torn = Torn
    Faults = {"crash"}
    Outsiders = {}
    MaxFaults = 2
INVARIANTS
    JournalStaysValid
CHECK_DEADLOCK FALSE
