SPECIFICATION FairSpec
CONSTANTS
    a1 = a1
    a2 = a2
    o1 = o1
    w1 = w1
    w2 = w2
    Owner = {o1}
    OwnerOf <- SameOwner
    Module = Module
    Worker = {w1, w2}
    NoAtt = NoAtt
    MaxImage = 2
    OwnerLimit = 2
    GlobalLimit = 2
    Att = {a1}
    TicketTTL = 3
    FinalizeLease = 1
    StaleLease = 2
    ReaperGrace = 1
PROPERTIES
    LedgerSpec
    StagedBytesImmutable
    ReservationSettles
