SPECIFICATION FairSpec
CONSTANTS
    a1 = a1  a2 = a2  u1 = u1  u2 = u2  bad = bad  g = g  closed = closed
    NoAgent = NoAgent  NoUser = NoUser  NoGroup = NoGroup
    Agents = {a1, a2}
    Users = {u1, u2}
    Blocked = {}
    Groups = {}
    Shapes <- InboundShapes
    DedupTtl = 1
    CtxTtl = 2
    Pause = 2
    StoreCap = 2
    MaxMsgs = 2
    MaxReplies = 0
    MaxParts = 0
    MaxTime = 2
    MaxCrashes = 1
INVARIANTS
    TypeOK
    AckedAreHandled
    DuplicatesAreLate
    AnswerableWhileQueued
    MediaIsOwn
PROPERTIES
    EveryMessageHandled
