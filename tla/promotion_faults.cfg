\* Crashes and failed calls anywhere, local writers, foreign objects.
SPECIFICATION Spec
CONSTANTS
    Package = {shared1, shared2, private1}
    Shared = {shared1, shared2}
    Adapters = {claude, codex}
    None = None
    Torn = Torn
    Faults = {"crash", "io"}
    Outsiders = {"write", "create", "late", "link"}
SYMMETRY Symmetry
INVARIANTS TypeOK RetainedUntilOwned
PROPERTIES RegistersComplete HandsOver PromotionKeepsContract
CHECK_DEADLOCK FALSE
