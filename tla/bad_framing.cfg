CONSTANTS
    Freed = Freed
    NoConn = NoConn
    NoFd = NoFd
    NoRoom = NoRoom
    ann = ann
    bob = bob
    cat = cat
    dan = dan
    room = room
    Rooms = {room}
    Conns = {ann, bob}
    Fds = {4, 5}
    MaxPackets = 0
    MaxGone = 0
    CanCrash = FALSE
    ReallocMoves = FALSE
SPECIFICATION Spec
INVARIANT StreamsFramed
