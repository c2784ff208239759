\* A broadcast that two servers answer.
CONSTANTS
    Hosts = {h1, h2}
    Broadcast = Broadcast
    Dests = {Broadcast}
    None = None
    Encrypted = {}
    MaxTries = 2
    MaxEvents = 1
SPECIFICATION Spec
SYMMETRY Symmetry
INVARIANT
    CleanupOnlyOnFailure
CHECK_DEADLOCK FALSE
