SPECIFICATION FairSpec
CONSTANTS
    everyone = everyone
    north = north
    public1 = public1
    public2 = public2
    branch1 = branch1
    tabs = tabs
    Null = Null
    Events = {public1}
    SessionOf <- OneSession
    Topics = {north}
    Everyone = everyone
    TopicOf <- MCTopicOf
    Relays = {c1}
    Clients = {k1}
    Conns = {s1, s2}
    BatchSize = 2
    ChunkSize = 1
    DedupCapacity = 2
    MaxEntries = 2
    MaxTrims = 0
    MaxCrashes = 0
    MaxSlow = 0
    MaxFaults = 1
    MaxRefreshes = 0
PROPERTIES ResumeIsAnswered ListenerIsTold
