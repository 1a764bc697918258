SPECIFICATION FairSpec
CONSTANTS
    Admins = {a1, a2}
    Slots = {warm, t1, t2}
    Warm = warm
    Faults = {"disconnect", "admin", "query", "close"}
    MaxCatalog = 4
INVARIANTS
    TypeOK
    RefreshSeesItsCatalog
    ServesBootCatalog
    StoppedIsQuiet
    StaleHasWork
PROPERTIES
    CatchesUp
