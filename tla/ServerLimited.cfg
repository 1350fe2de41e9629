SPECIFICATION LimitedSpec
CONSTANTS
    Requests = {c1, c2}
    MaxConcurrent = 2
    QueueCapacity = 0
    Threads = 1
    ChannelCapacity = 1
PROPERTIES
    PlainIsAnswered
    StreamIsServed
    ShutdownCompletes
