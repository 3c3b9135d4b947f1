CONSTANTS
    Freed = Freed
    NoUser = NoUser
    NoFd = NoFd
    NoRoom = NoRoom
    NULL = NULL
    NoChat = NoChat
    NotLearnt = NotLearnt
    ann = ann
    bob = bob
    cat = cat
    self = self
    room = room
    room2 = room2
    Users = {ann, bob, cat, self}
    Me = self
    Fds = {4, 5, 6}
    Rooms = {room, room2}
    Foreign = {room}
    MaxEvents = 3
    MaxCommands = 3
    MaxDepth = 2
    ReallocMoves = TRUE
SPECIFICATION StartSpec
INVARIANTS ClientTypeOK   LineToOpened   NoDanglingChat
