\* Two ports and a set.  r1 receives from the first port, r2 from the set.  A
\* timed wait that does not expire stands for one without a limit.
CONSTANTS
    p1 = p1
    p2 = p2
    s1 = s1
    r1 = r1
    r2 = r2
    Ports = {p1, p2}
    Psets = {s1}
    Senders = {t1, t2}
    Receivers = {r1, r2}
    None = None
    RcvFrom <- OneServerEach
    SendWaits = {"always", "timed"}
    RcvWaits = {"timed"}
    Buffers = {"large"}
    Sizes = {FALSE, TRUE}
    Circular = TRUE
    QLimits = {1, 2}
    QLimitDefault = 1
    MaxSends = 3
    MaxOps = 2
SPECIFICATION Spec
SYMMETRY Symmetry
INVARIANTS
    TypeOK
    NoneLeftBehind
    CountExact
    NoReceiverBesideMessage
    NoSenderBelowLimit
    WaitersQueued
PROPERTY
    ImplementsPortFifo
CHECK_DEADLOCK FALSE
