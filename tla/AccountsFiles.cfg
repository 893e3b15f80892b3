SPECIFICATION Spec
CONSTANTS
    Ids = {u1, u2}
    Owner = u1
    root = root
    Bo_d = Bo_d
    bo_d = bo_d
    bo_sp_d = bo_sp_d
    Names = {root, bo_d, Bo_d, bo_sp_d}
    OwnerName = root
    Fold <- Caseless
    Key <- Shared
    Passwords = {w1, w2}
    Requests = {r1, r2}
    Links = {l1}
    MaxStarts = 4
    Boot = boot
    Absent = absent
    Torn = torn
    Nobody = nobody
SYMMETRY Symmetric
INVARIANTS
    TypeOK
    
    LinkOnce
    
