SPECIFICATION Spec
CONSTANTS
    m1 = m1  m2 = m2  m3 = m3  m4 = m4  bot1 = bot1
    configured = configured  builtin = builtin
    NoCreds = NoCreds  Missing = Missing
    Msgs = {m1, m2, m3, m4}
    Accounts = {bot1}
    Hosts = {configured, builtin}
    Configured = configured
    BuiltIn = builtin
    Deadline = 4
    Request = 1
    Retries = 3
    MaxRows = 2
    MaxSaves = 5
    MaxTime = 2
    MaxMissed = 1
INVARIANTS
    TypeOK
    RowsBounded
    LoopUsesSaved
    LoginInTime
PROPERTIES
    LatestKept
    CredentialsStay
    LoginEnds
