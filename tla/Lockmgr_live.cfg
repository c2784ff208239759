\* The requests the kernel makes: no upgrades, and sleeps do not fail.
CONSTANTS
    Threads = {t1, t2, t3}
    None = None
    Requests = {"SHARED", "EXCLUSIVE", "DOWNGRADE", "DRAIN"}
    ExtFlags = {"NOWAIT", "CANRECURSE"}
    Errors = FALSE
    MaxNest = 2
SPECIFICATION FairSpec
INVARIANTS
    NoExclusivePanic
    SleepersBlocked
PROPERTY
    WriterEnters
