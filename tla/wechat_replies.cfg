SPECIFICATION Spec
CONSTANTS
    a1 = a1  a2 = a2  u1 = u1  u2 = u2  bad = bad  g = g  closed = closed
    NoAgent = NoAgent  NoUser = NoUser  NoGroup = NoGroup
    Agents = {a1, a2}
    Users = {u1, bad}
    Blocked = {bad, closed}
    Groups = {g, closed}
    Shapes <- ReplyShapes
    DedupTtl = 1
    CtxTtl = 2
    Pause = 2
    StoreCap = 2
    MaxMsgs = 2
    MaxReplies = 1
    MaxParts = 2
    MaxTime = 0
    MaxCrashes = 1
SYMMETRY AgentSymmetry
INVARIANTS
    RefusedNeverQueued
    QuoteReachesAuthor
    AnswersGoToAsker
