SPECIFICATION FairSpec
CONSTANTS
    e = e
    v = v
    w = w
    w2 = w2
    Second <- OneTask
    macV = macV
    macW = macW
    grp = grp
    None = None
    Broadcast = bcast
    Remote = e
    Locals <- LocalsVW
    Kind <- KindAll
    Macs = {macV, macW}
    Groups = {grp}
    InitMac <- MacAll
    InitFdb <- FdbW
    Heap = {h1, h2}
    Pool = {p1}
    Urgent = 2
    Depth = 1
    Threshold = 0
    Loads <- AllLoads
INVARIANTS TypeOK BuffersAccounted Announced FlowInOrder
PROPERTY QueuedIsSent
CHECK_DEADLOCK FALSE
