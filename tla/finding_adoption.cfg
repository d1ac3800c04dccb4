\* Another tool creates the canonical package while promotion runs.
SPECIFICATION Spec
CONSTANTS
    Package = {shared1, shared2, private1}
    Shared = {shared1, shared2}
    Adapters = {claude, codex}
    None = None
    Torn = Torn
    Faults = {}
    Outsiders = {"target"}
PROPERTIES NeverAdopts
CHECK_DEADLOCK FALSE
