CONSTANTS
    ann = ann
    bob = bob
    cyd = cyd
    none = none
    req1 = req1
    req2 = req2
    std = std
    big = big
    Users = {ann, bob, cyd}
    None = none
    Requests = {req1, req2}
    Packages = {std, big}
    Default = std
    MaxCap = 1
    MaxAsks = 4
SPECIFICATION Spec
SYMMETRY Symmetry
INVARIANTS TypeOK PoolCovers ChildrenHaveReseller OneLevel
CHECK_DEADLOCK FALSE
CONSTRAINT Bounded
