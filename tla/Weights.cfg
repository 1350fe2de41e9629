SPECIFICATION WeightsSpec
CONSTANTS
    Word = 64
    Lengths = {10, 30, 36}
    Headers = {4, 5}
    EntryBytes = 3
    MaxTensors = 3
    Alignments = {1, 2, 4}
    Entries <- SmallEntries
    BlockLen <- TypeLen
    BlockBytes <- TypeBytes
    ThreadCounts = {1, 2}
    MinChunk = 2
    MaxChunk = 4
    Tiles = {3}
INVARIANTS
    DirectoryIsSound
    EveryCellFromItsRow
CHECK_DEADLOCK FALSE
