SPECIFICATION FairSpec
CONSTANTS
    n1 = n1  n2 = n2  c1 = c1  c2 = c2  c3 = c3
    None = None
    Names = {n1, n2}
    Conns = {c1, c2, c3}
    MaxPush = 2
INVARIANTS
    ReplacedForGood
    EndedIsForgotten
    InOrderOnce
PROPERTIES
    AcceptedArrives
CHECK_DEADLOCK FALSE
