\* All requests and flags, sleeps that fail, up to a panic.
CONSTANTS
    Threads = {t1, t2, t3, t4}
    None = None
    Requests = {"SHARED", "EXCLUSIVE", "UPGRADE", "EXCLUPGRADE", "DOWNGRADE", "DRAIN"}
    ExtFlags = {"NOWAIT", "SLEEPFAIL", "CANRECURSE"}
    Errors = TRUE
    MaxNest = 2
SPECIFICATION Spec
SYMMETRY Symmetry
INVARIANTS
    TypeOK
    Exclusion
    CountsExact
    FlagsOwned
    UpgradeUndisturbed
PROPERTY
    DrainEndsActivity
CHECK_DEADLOCK FALSE
