SPECIFICATION Spec
CONSTANTS
    a = a  b = b  c = c  A = A  B = B
    stop = stop  confirm = confirm  shutdown = shutdown
    NoTask = NoTask  Main = Main
    Task = {a, b, c, stop, confirm, shutdown}
    Object = {A, B}
    Kind <- MCKind
    Parent <- MCParent
    Needs <- MCNeeds
    Refusable = {b}
    SameId = {}
    Threads = 1
    MaxPosts = 2
CHECK_DEADLOCK FALSE
PROPERTIES CancelledTaskLeaves
