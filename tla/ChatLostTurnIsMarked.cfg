\* The socket is closed and its turns have ended: nothing is left to do.
CHECK_DEADLOCK FALSE
SPECIFICATION Spec
CONSTANTS
    t1 = t1
    t2 = t2
    Turn = {t1}
    NoTurn = NoTurn
    MaxParts = 1
PROPERTY LostTurnIsMarked
