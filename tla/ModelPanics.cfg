\* Two layers, and four tokens cut into passes of one to three.
SPECIFICATION ModelSpec
CONSTANTS
    Files <- MCFiles
    Requests = {"auto", "standard", "tencent_q2_0c", "tencent_stq1"}
    Machines = {"neon", "sdot"}
    Contexts = {1, 4, 9}
    Chunk = 3
    Scores <- MCRouter
    Widths <- MCWidths
INVARIANT BuffersFit
CHECK_DEADLOCK FALSE
