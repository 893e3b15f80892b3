CONSTANTS
    Paths = {1, 2}
    MaxLines = 2
    MaxMonth = 1
    MaxEvents = 1
    ChunkCells = 3
    FirstCells = 3
    KeepCells = 3
    Inodes = {i1, i2}
    None = None
SPECIFICATION Spec
SYMMETRY Symmetric
INVARIANT LineCountedOnce
CHECK_DEADLOCK FALSE
