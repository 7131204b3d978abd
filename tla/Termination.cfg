SPECIFICATION Spec
CONSTANTS
    u = u  v = v
    Main = Main  NoTask = NoTask
    Root = 0
    Proc <- Procs
    User = {u, v}
    UserParent <- Parents
    UserProc <- Places
CHECK_DEADLOCK FALSE
INVARIANTS TypeOK RootSendsThemAll TimelyTasksAreSettled
PROPERTIES ShutdownSpec EveryoneCloses
