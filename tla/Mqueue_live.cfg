\* One port that moves in and out of a set, and a server for each.
CONSTANTS
    p1 = p1
    p2 = p2
    s1 = s1
    r1 = r1
    r2 = r2
    Ports = {p1}
    Psets = {s1}
    Senders = {t1, t2}
    Receivers = {r1, r2}
    None = None
    RcvFrom <- OneServerEach
    SendWaits = {"poll", "timed"}
    RcvWaits = {"poll", "forever"}
    Buffers = {"trunc"}
    Sizes = {FALSE}
    Circular = TRUE
    QLimits = {1, 2}
    QLimitDefault = 1
    MaxSends = 3
    MaxOps = 2
SPECIFICATION FairSpec
PROPERTIES
    SenderReleased
    QueueDrains
CHECK_DEADLOCK FALSE
