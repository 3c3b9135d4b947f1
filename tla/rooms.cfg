CONSTANTS
    Freed = Freed
    NoConn = NoConn
    NoFd = NoFd
    NoRoom = NoRoom
    ann = ann
    bob = bob
    cat = cat
    dan = dan
    room = room
    Rooms = {room, room2}
    room2 = room2
    MaxRooms = 2
    Kinds = {"CREATE_ROOM", "JOIN_ROOM", "GROUP_CHAT", "KICK_GROUP_MEMBER", "LEAVE_ROOM"}
    Conns = {ann, bob, cat}
    Fds = {4, 5, 6}
    MaxPackets = 5
    MaxGone = 0
    CanCrash = FALSE
    ReallocMoves = FALSE
SPECIFICATION RoomSpec
INVARIANTS ServerTypeOK RoomMembersAgree OnlyInvitedHear WritersFramed NoWildRoomRead MembersAccountedFor KickedWasOrdered
PROPERTIES ChatReachesMembers
