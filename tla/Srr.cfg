\* Two servers, three requests, the second of which is encrypted, or fewer
\* and restarts or answers that cannot be encrypted.
CONSTANTS
    Hosts = {h1, h2}
    Broadcast = Broadcast
    Dests = {h1, h2}
    None = None
    Encrypted = {2}
    MaxTries = 2
    MaxEvents = 3
SPECIFICATION FairSpec
INVARIANTS
    TypeOK
    AwaitsHead
    AnswerMatches
    InOrder
PROPERTIES
    TimersKept
    RequestLeaves
CHECK_DEADLOCK FALSE
