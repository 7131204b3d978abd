SPECIFICATION Spec
CONSTANTS
    c1 = c1
    c2 = c2
    c3 = c3
    m1 = m1
    m2 = m2
    m3 = m3
    m4 = m4
    m5 = m5
    x = x
    Processor <- MCProcessor
    Task = {m1, m2, m3, m4, m5, x}
    Caller = {c1, c2, c3}
    Home <- MCHome
    Jobs <- MCSocketJobs
    DestOf <- MCDestOf
    SizeOf <- MCSizeOf
    Slots = 2
    LastNumber = 3
INVARIANTS InSequence
CHECK_DEADLOCK FALSE
