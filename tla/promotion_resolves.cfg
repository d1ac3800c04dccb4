\* Two faults and local writers: transactions end, shared packages get published.
SPECIFICATION LiveSpec
CONSTANTS
    Package = {shared1, shared2, private1}
    Shared = {shared1, shared2}
    Adapters = {claude, codex}
    None = None
    Torn = Torn
    Faults = {"crash", "io"}
    Outsiders = {"write", "late"}
    MaxFaults = 2
PROPERTIES Resolves Publishes
CHECK_DEADLOCK FALSE
