----------------------------- MODULE ChatServer -----------------------------
(***************************************************************************)
(* The chat server: the list of users and the rooms behind the one switch  *)
(* of manageServerProtocol, on the one thread each connection has.         *)
(***************************************************************************)
EXTENDS Registry, Rooms

CONSTANT Kinds  \* bound: what users write besides INTRO and USER_LEFT

ASSUME ChatServerAssumption == Kinds \subseteq Types

serverVars == <<netVars, clientList, roomList>>

\* manageServerProtocol, one disjunct for each case of its switch.
Handler(c) ==
    \/ RegistryHandler(c) /\ UNCHANGED roomList
    \/ RoomHandler(c) /\ UNCHANGED clientList

ServerThread(c) ==
    \/ (Accept(c) \/ Close(c) \/ ReadsNull(c))
         /\ UNCHANGED <<clientList, roomList>>
    \/ Handler(c)

User(c) ==
    \/ (SendIntro(c) \/ Quit(c) \/ Crash(c)) /\ UNCHANGED <<clientList, roomList>>
    \/ "CHAT" \in Kinds /\ SendChat(c) /\ UNCHANGED roomList
    \/ /\ \/ "CREATE_ROOM" \in Kinds /\ SendCreateRoom(c)
          \/ "JOIN_ROOM" \in Kinds /\ SendJoinRoom(c)
          \/ "GROUP_CHAT" \in Kinds /\ SendGroupChat(c)
          \/ "KICK_GROUP_MEMBER" \in Kinds /\ SendKick(c)
          \/ "LEAVE_ROOM" \in Kinds /\ SendLeaveRoom(c)
       /\ UNCHANGED clientList

ServerInit == NetInit /\ RegistryInit /\ RoomsInit

ServerNext ==
    \/ Stops /\ UNCHANGED roomList
    \/ \E c \in Conns : ServerThread(c) \/ User(c)

ServerSpec == ServerInit /\ [][ServerNext]_serverVars

\* Runnable threads run; nothing makes a user act.
Fairness == \A c \in Conns : WF_serverVars(ServerThread(c))

FairServerSpec == ServerSpec /\ Fairness

----------------------------------------------------------------------------
(* Properties of the rooms *)

\* Types, of the rooms and their member lists too.
ServerTypeOK == NetTypeOK /\ RegistryTypeOK /\ RoomsTypeOK

InRoom == {"room", "roomPayload", "kickedPayload", "details", "detailsPayload"}

\* A thread in a room handler has a room, and the slot it reads next lies in
\* the array of the room even when members have gone since the loop condition.
NoWildRoomRead ==
    \A c \in Conns :
      th[c].pc \in InRoom =>
        /\ th[c].room \in DOMAIN roomList
        /\ th[c].pc \in {"roomPayload", "kickedPayload"}
             => th[c].i \in DOMAIN Members(c).clients

\* Packets about rooms that the threads have received so far.
Received(type, room, fd) ==
    UNION {{c} \X {k \in 1 .. th[c].got : /\ sent[c][k].whole
                                           /\ sent[c][k].type = type
                                           /\ sent[c][k].room = room
                                           /\ sent[c][k].fd = fd} : c \in Conns}

First(g) == IsFirst(g, Named(roomList[g].name))

\* A room holds a descriptor as often as it was put in, less at most once for
\* every LEAVE_ROOM and KICK_GROUP_MEMBER that names it: the removal by copying
\* the last entry takes nobody else's entry, whoever is looping meanwhile.
MembersAccountedFor ==
    \A g \in DOMAIN roomList : First(g) =>
      \A f \in Fds :
        LET r    == roomList[g].name
            put  == Cardinality(Received("JOIN_ROOM", r, f))
                      + (IF roomList[g].admin = f THEN 1 ELSE 0)
            gone == Cardinality(Received("LEAVE_ROOM", r, f))
                      + Cardinality(Received("KICK_GROUP_MEMBER", r, f))
            size == Cardinality(SlotsOf(roomList[g].members, f))
        IN  size <= put /\ put <= size + gone

\* x has been told that fd is in the room: in the details of the room, or by
\* the JOIN_ROOM that put fd there.
ToldOfMember(x, room, fd) ==
    \E p \in Payloads(x) :
      /\ p.room = room
      /\ \/ p.type = "JOIN_ROOM" /\ p.fd = fd
         \/ p.type = "GROUP_LIST" /\ \E j \in DOMAIN p.list : p.list[j].FD = fd

Removals == {"LEAVE_ROOM", "KICK_GROUP_MEMBER", "USER_LEFT"}

\* No user has written anything that takes an entry off a list.
NobodyRemoved == \A c \in Conns : \A k \in DOMAIN sent[c] : sent[c][k].type \notin Removals

\* While nobody is removed, members know each other: when no JOIN_ROOM is being
\* handled every member but the creator has been told of every other member,
\* and the creator of all it did not have in the room from the start.
RoomMembersAgree ==
    (NobodyRemoved /\ \A c \in Conns : th[c].pkt.type # "JOIN_ROOM") =>
      \A g \in DOMAIN roomList :
        \A f, h \in FdsOf(roomList[g].members) :
          (f # h /\ fdTable[f] \in Conns /\ peer[fdTable[f]] = "open")
            => ToldOfMember(fdTable[f], roomList[g].name, h)

\* help.c: "All messages in a group are visible to all members".  When the
\* handler of a GROUP_CHAT returns, everyone then in the room but the sender
\* has been sent it, also who was put in while it ran.  True while nobody is
\* taken off: a removal moves the last member to a slot the loop may have passed.
ChatReachesMembers ==
    [][\A c \in Conns :
         (/\ NobodyRemoved
          /\ th[c].pc = "room" /\ th[c].pkt.type = "GROUP_CHAT"
          /\ th'[c].pc = "recv")
         => \A f \in FdsOf(Members(c)) \ {th[c].fd} :
              (fdTable[f] \in Conns /\ peer[fdTable[f]] = "open")
                => th[c].pkt \in Payloads(fdTable[f])]_serverVars

RoomTypes == {"JOIN_ROOM", "GROUP_LIST", "GROUP_CHAT", "KICK_GROUP_MEMBER",
              "KICKED", "LEAVE_ROOM"}

\* Nobody gets packets of a room who has not created it or been put into it,
\* though every loop reads the descriptor of a slot twice and other threads
\* move entries in between.  True while nobody quits: rooms keep the descriptor
\* of a user who has, and the next one on it hears them.
OnlyInvitedHear ==
    \A x \in Conns : \A j \in DOMAIN out[x] :
      LET p == out[x][j].pkt
      IN  p.type \in RoomTypes =>
            \/ p.room \in Created(x)
            \/ \E y \in Conns : \E k \in 1 .. th[y].got :
                 /\ sent[y][k].type = "JOIN_ROOM"
                 /\ sent[y][k].name = x
                 /\ sent[y][k].room = p.room

\* A client is told that it was kicked only if the thread that says so has had
\* a KICK_GROUP_MEMBER for it.
KickedWasOrdered ==
    \A x \in Conns : \A j \in DOMAIN out[x] :
      LET chunk == out[x][j]
      IN  chunk.pkt.type = "KICKED" =>
            \E k \in 1 .. th[chunk.by].got :
              LET p == sent[chunk.by][k]
              IN  /\ p.type = "KICK_GROUP_MEMBER"
                  /\ p.room = chunk.pkt.room
                  /\ p.fd = th[x].fd

\* Of one writer's chunks to one client every payload follows its header, until
\* a removal may move the owner of a slot between the two sends.
WritersFramed ==
    NobodyRemoved =>
      \A c \in Conns : \A k \in DOMAIN out[c] :
        out[c][k].part = "payload" =>
          \E j \in 1 .. k - 1 :
            /\ out[c][j].by = out[c][k].by /\ out[c][j].part = "header"
            /\ out[c][j].pkt.type = out[c][k].pkt.type
            /\ \A i \in j + 1 .. k - 1 : out[c][i].by # out[c][k].by

\* Every loop over a room ends, though the room changes under it, unless the
\* server does.
RoomLoopEnds ==
    \A c \in Conns :
      th[c].pc \in InRoom ~> (~up \/ th[c].pc \notin InRoom)

----------------------------------------------------------------------------
(* What the documentation says and the code does not do. *)

\* help.c: "/kick <username> - Remove a member from the group": a member whom
\* its kicker has put in, and nobody else, is out when the KICK_GROUP_MEMBER has
\* been handled.
KickedIsOut ==
    \A c \in Conns :
      LET p == sent[c][th[c].got]
      IN  (/\ th[c].pc = "recv" /\ th[c].got > 0
           /\ p.type = "KICK_GROUP_MEMBER" /\ p.fd # th[c].fd
           /\ \E k \in 1 .. th[c].got - 1 :
                Received("JOIN_ROOM", p.room, p.fd) = {<<c, k>>})
          => \A g \in Named(p.room) : SlotsOf(roomList[g].members, p.fd) = {}
=============================================================================
