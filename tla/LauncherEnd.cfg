SPECIFICATION Spec
CONSTANTS
    A = A  B = B
    Size = 3
    Rounds = 3
    Host <- Hosts
    HostOf <- Places
    Ports = 3
    Busy <- Others1
    NextPort <- Numbers
    SendNumThreads = {10}
CHECK_DEADLOCK FALSE
PROPERTIES SrunEnds
