CONSTANTS
    Paths = {1, 2}
    MaxLines = 2
    MaxMonth = 2
    MaxEvents = 2
    ChunkCells = 3
    FirstCells = 3
    KeepCells = 3
    Inodes = {i1, i2}
    None = None
SPECIFICATION Spec
SYMMETRY Symmetric
INVARIANTS TypeOK CountedOnce Frontier
PROPERTY TotalKept
CHECK_DEADLOCK FALSE
