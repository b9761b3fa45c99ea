SPECIFICATION FairSpec
CONSTANTS
    o1 = o1  o2 = o2
    Depth = 1
    SendWait = 1
    Threshold = 1
    Window = 1
    Cooldown = 1
    Others = {o1}
    Bodies <- TextAndFile
    MaxReplies = 4
PROPERTIES
    InOrder
    QuietAfterFailure
    EveryPostReturns
    BreakerRecovers
