SPECIFICATION Spec
CONSTANTS
    A = A  B = B
    Size = 4
    Rounds = 3
    Host <- Hosts
    HostOf <- Places
    Ports = 4
    Busy <- Others1
    NextPort <- Numbers
    SendNumThreads = {1, 2}
CHECK_DEADLOCK FALSE
INVARIANTS TypeOK NobodyFails RoutesAreRight NothingLeftBehind NobodyIsAhead EveryAnswerHasItsSocket
PROPERTIES JobEnds
