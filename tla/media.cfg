SPECIFICATION Spec
CONSTANTS
    k1 = k1  k2 = k2  i1 = i1  i2 = i2  i3 = i3  r1 = r1  r2 = r2
    photo = photo  note = note  id1 = id1  id2 = id2  id3 = id3
    None = None
    Inbound <- MCInbound
    Uploaded <- MCUploaded
    Refs = {r1}
    OwnFiles <- MCOwnFiles
    Extension <- MCExtension
    Replies <- MCReplies
    Keys = {k1, k2}
    Garbage <- MCGarbage
    Block = 2
    Configured <- MCConfigured
INVARIANTS
    PathLeadsToOwn
    SentOpens
PROPERTIES
    ReplyEnds
