CONSTANTS
    Freed = Freed
    NoConn = NoConn
    NoFd = NoFd
    NoRoom = NoRoom
    ann = ann
    bob = bob
    cat = cat
    dan = dan
    room = room
    Rooms = {room, room2}
    room2 = room2
    MaxRooms = 2
    Kinds = {"CREATE_ROOM", "JOIN_ROOM", "KICK_GROUP_MEMBER"}
    Conns = {ann, bob}
    Fds = {4, 5}
    MaxPackets = 4
    MaxGone = 0
    CanCrash = FALSE
    ReallocMoves = FALSE
SPECIFICATION Settled2Server
INVARIANT KickedIsOut
