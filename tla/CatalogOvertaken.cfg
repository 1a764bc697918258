SPECIFICATION Spec
CONSTANTS
    Admins = {a1}
    Slots = {warm, t1, t2}
    Warm = warm
    Faults = {}
    MaxCatalog = 3
SYMMETRY Symmetry
INVARIANTS
    CacheIsLatest
