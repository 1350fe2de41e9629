SPECIFICATION Spec
CONSTANTS
    Processes = {p1}
    Files = {f1, f2, f3}
    Chunks = 2
    NoFile = NoFile
INVARIANTS
    HashedIsWritten
    OkMeansWhole
PROPERTY FinalOnlyReplacedWhole
