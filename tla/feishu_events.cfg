SPECIFICATION Spec
CONSTANTS
    a1 = a1  a2 = a2  u1 = u1  bad = bad
    NoAgent = NoAgent
    Agents = {a1, a2}
    Users = {u1, bad}
    Blocked = {bad}
    Shapes <- AllShapes
    DedupTtl = 1
    CtxTtl = 1
    MaxMsgs = 2
    MaxPushes = 2
    MaxTime = 2
    MaxCrashes = 1
INVARIANTS
    DuplicatesAreLate
    AnswerableWhileQueued
    OnlyAdmittedQueued
