SPECIFICATION Spec
CONSTANTS
    Processes = {p1, p2}
    Files = {f1, f2, f3, f4}
    Chunks = 2
    NoFile = NoFile
INVARIANT OkMeansWhole
