CONSTANTS
    Freed = Freed
    NoConn = NoConn
    NoFd = NoFd
    NoRoom = NoRoom
    ann = ann
    bob = bob
    cat = cat
    dan = dan
    room = room
    Rooms = {room}
    Conns = {ann, bob}
    Fds = {4, 5}
    MaxPackets = 1
    MaxGone = 1
    CanCrash = TRUE
    ReallocMoves = FALSE
SPECIFICATION FairSpec
PROPERTIES IntroAnswered  
