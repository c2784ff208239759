CONSTANTS
    Threads = {t1, t2, t3}
    None = None
    MaxNest = 1
    Uses = {}
SPECIFICATION FairSpec
PROPERTIES
    WriterEnters
    UpgradeGranted
    SleeperWakes
