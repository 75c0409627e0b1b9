SPECIFICATION FairSpec
CONSTANTS
    p1 = p1
    p2 = p2
    Panels = {p1, p2}
    MaxPosts = 2
INVARIANTS TypeOK CardWasTrue SuccessIsWritten LateOnlyIfUncertain 
PROPERTIES PanelFreed
CHECK_DEADLOCK FALSE
