SPECIFICATION FairSpec
CONSTANTS
    Requests = {c1, c2, c3}
    MaxConcurrent = 1
    QueueCapacity = 2
    Threads = 1
    ChannelCapacity = 1
PROPERTIES
    AbandonedEnds
    ShutdownEndsJobs
    ParkedIsServed
    GateSpec
