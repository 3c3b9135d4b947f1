CONSTANTS
    Freed = Freed
    NoConn = NoConn
    NoFd = NoFd
    NoRoom = NoRoom
    ann = ann
    bob = bob
    cat = cat
    dan = dan
    room = room
    Rooms = {room}
    room2 = room2
    MaxRooms = 1
    Kinds = {"KICK_GROUP_MEMBER", "LEAVE_ROOM", "CHAT"}
    Conns = {ann, bob, cat}
    Fds = {4, 5}
    MaxPackets = 4
    MaxGone = 1
    CanCrash = TRUE
    ReallocMoves = FALSE
SPECIFICATION PairSpec
INVARIANTS NewsInOrder 
 
