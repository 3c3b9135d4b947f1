CONSTANTS
    Freed = Freed
    NoConn = NoConn
    NoFd = NoFd
    NoRoom = NoRoom
    ann = ann
    bob = bob
    cat = cat
    dan = dan
    room = room
    Rooms = {room}
    Conns = {ann, bob, cat, dan}
    Fds = {4, 5, 6, 7}
    MaxPackets = 0
    MaxGone = 1
    CanCrash = FALSE
    ReallocMoves = FALSE
SPECIFICATION ChurnSpec
SYMMETRY Newcomers
INVARIANTS TypeOK NoWildRead NoMutualStrangers ToldOncePerDeparture ListNamesItsReader NoSelfNews LeaverAnnounced 
