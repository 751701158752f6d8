SPECIFICATION Spec
CONSTANTS
    Organizers = {o1, o2}
    Filers = {f1}
    DigestTitle = "digest"
    FirstCatalog <- MCFirstCatalog
    Menus <- MCMenus
    MinPart = 1
    CollapseMin = 1
    MaxDepth = 3
    HorizonRuns = 2
    Quarantine = 3
    Backoff <- MCBackoff
    MaxAttempts = 2
    MaxRuns = 3
    MaxStaged = 2
    MaxProposals = 2
CHECK_DEADLOCK FALSE
INVARIANTS TypeOK LastRunUndoable TreeSound LinksHang SettledOnce
PROPERTIES RevertSparesLaterRuns

