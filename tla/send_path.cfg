SPECIFICATION FairSpec
CONSTANTS
    loop = loop  processor = processor  u1 = u1  u2 = u2
    NoUser = NoUser
    Senders = {loop, processor}
    Users = {u1}
    Threshold = 1
    Window = 4
    Cooldown = 4
    Delays <- BackoffDelays
    TicketTtl = 5
    TicketWait = 1
INVARIANTS
    AtMostOnce
    OneFetchEach
    TypingEnds
PROPERTIES
    QuietAfterFailure
    EverySendEnds
