\* A write through a handle opened before the source was parked.
SPECIFICATION Spec
CONSTANTS
    Package = {shared1, shared2, private1}
    Shared = {shared1, shared2}
    Adapters = {claude, codex}
    None = None
    Torn = Torn
    Faults = {}
    Outsiders = {"stale"}
PROPERTIES NeverStaleCommitted
CHECK_DEADLOCK FALSE
