\* The socket is closed and its turns have ended: nothing is left to do.
CHECK_DEADLOCK FALSE
SPECIFICATION FairSpec
CONSTANTS
    t1 = t1
    t2 = t2
    Turn = {t1, t2}
    NoTurn = NoTurn
    MaxParts = 1
INVARIANTS
    TypeOK
    OneLiveRun
    CancelToldOnce
PROPERTIES
    CancelSilences
    CancelledNeverComplete
    CancelledTurnEnds
