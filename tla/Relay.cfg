SPECIFICATION FairRelaySpec
CONSTANTS
    Events = {e1}
    Relays = {c1, c2}
    BatchSize = 2
    MaxEntries = 3
    MaxTrims = 1
    MaxCrashes = 1
    MaxSlow = 1
INVARIANT NothingForgotten
PROPERTY EventuallyPublished
