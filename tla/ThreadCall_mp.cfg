\* Three processors and functions that may never return; only function
\* callouts, whose entries clients cannot name.
CONSTANTS
    Internal = {i1, i2}
    External = {}
    Jobs = {j1}
    CallThreadMin = 1
    NCPUS = 3
    MaxTime = 2
    MaxLoad = 3
SPECIFICATION FairSpec
INVARIANT
    NoCallStranded
PROPERTIES
    PendingTaken
    DelayedExpires
