CONSTANTS
    Freed = Freed
    NoConn = NoConn
    NoFd = NoFd
    NoRoom = NoRoom
    ann = ann
    bob = bob
    cat = cat
    dan = dan
    room = room
    Rooms = {room}
    Conns = {ann, bob, cat}
    Fds = {4, 5, 6}
    MaxPackets = 0
    MaxGone = 1
    CanCrash = FALSE
    ReallocMoves = FALSE
SPECIFICATION Settled2Spec
INVARIANT ListedNamesLive
