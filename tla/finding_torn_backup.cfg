\* One call fails while the backup is removed.
SPECIFICATION LiveSpec
CONSTANTS
    Package = {shared1, shared2, private1}
    Shared = {shared1, shared2}
    Adapters = {claude, codex}
    None = None
    Torn = Torn
    Faults = {"io"}
    Outsiders = {}
    MaxFaults = 1
PROPERTIES OwnedIsCleanedUp
CHECK_DEADLOCK FALSE
