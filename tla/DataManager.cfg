SPECIFICATION Spec
CONSTANTS
    h1 = h1  h2 = h2  h3 = h3  h4 = h4  h5 = h5
    a1 = a1  a2 = a2  a3 = a3  a4 = a4  a5 = a5  b1 = b1  b2 = b2
    NoTask = NoTask  Daemon = Daemon  Handler = Handler  Stray = Stray
    Home = 0
    Proc <- ThreeProcs
    Task <- AllTasks
    TaskProc <- MCProc
    TaskMode <- MCMode
    TaskVersion <- MCVersion
    Workloads <- SafetyWorkloads
CHECK_DEADLOCK FALSE
INVARIANTS TypeOK ExactlyOneObject NoLostUpdate NoStrandedRequest RefusedOnlyWhenTooLate ReadersKeepTheirCopy RequestsStayWithTheirTask
