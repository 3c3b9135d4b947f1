------------------------------- MODULE Rooms -------------------------------
(***************************************************************************)
(* The server's rooms: manageNewRoom, manageNewMemberInRoom,               *)
(* manageGroupChat, manageLeftGroupMember and manageKickedMember of        *)
(* server/protocol/protocol.c.                                             *)
(*                                                                         *)
(* Every handler that tells the members of a room something loops on the   *)
(* room's own list, the one the other threads change.  Rooms are only ever *)
(* added on the server, and never more than MaxRooms <= 2 here, so that    *)
(* roomList.group, allocated for two, does not move under a loop.          *)
(***************************************************************************)
EXTENDS Transport

CONSTANT MaxRooms  \* bound: CREATE_ROOM packets, over all clients

ASSUME RoomsAssumption == MaxRooms \in 0 .. 2

VARIABLE roomList

Room == [name : Rooms \cup {NoRoom}, admin : AnyFd,
         members : ClientList(Names, AnyFd)]

RoomsTypeOK == roomList \in Seq(Room)

RoomsInit == roomList = <<>>

\* Mutant of Named: the result of strcmp() is not compared with 0.
NamedAnything(name) == DOMAIN roomList

\* The rooms of a name, of which every handler takes the first.
Named(name) == {g \in DOMAIN roomList : roomList[g].name = name}

IsFirst(g, S) == g \in S /\ \A h \in S : g <= h

Members(c) == roomList[th[c].room].members

MemberFd(c) == Members(c).clients[th[c].i].FD

----------------------------------------------------------------------------
(* manageNewRoom: the admin is the socket the packet came in on. *)

NewRoom(c) ==
    /\ Receives(c, "CREATE_ROOM")
    /\ Incoming(c).whole
    /\ LET admin == [name |-> Incoming(c).name, FD |-> th[c].fd]
       IN  roomList' = Append(roomList,
              [name    |-> Incoming(c).room,
               admin   |-> admin.FD,
               members |-> addClientInClientList(EmptyList, admin)])
    /\ ReceiveAndReturn(c)
    /\ UNCHANGED <<fdTable, sent, out, peer, up>>

----------------------------------------------------------------------------
(* The loop over the members of a room.  A packet for a room that is not    *)
(* there is dropped by the code; a client writes about rooms it has created *)
(* or been put into, and the server keeps them all, so none comes.          *)

\* The receiving thread enters the loop on room g with its packet.
EnterRoom(c, g, pc) ==
    th' = [th EXCEPT ![c] = [th[c] EXCEPT !.pc = pc,
                                          !.got = @ + 1, !.i = 1,
                                          !.pkt = Incoming(c), !.room = g]]

\* Mutant of SkippedFd: always the sender.
SkippedSender(c) == th[c].fd

\* Who is passed over: the new member, or else the sender.
SkippedFd(c) ==
    IF th[c].pkt.type = "JOIN_ROOM" THEN th[c].pkt.fd ELSE th[c].fd

\* Mutant of AtKicked: the type is not looked at.
AtTarget(c) == MemberFd(c) = th[c].pkt.fd

\* The loop has come to the member that is being kicked, even the sender.
AtKicked(c) ==
    th[c].pkt.type = "KICK_GROUP_MEMBER" /\ MemberFd(c) = th[c].pkt.fd

KickedPacket(p) == [Blank EXCEPT !.type = "KICKED", !.room = p.room]

\* Mutant of RoomHeader: the header forgotten.
RoomHeadless(c) ==
    /\ At(c, "room")
    /\ th[c].i <= Members(c).size
    /\ ~AtKicked(c)
    /\ MemberFd(c) # SkippedFd(c)
    /\ th' = [th EXCEPT ![c].pc = "roomPayload"]
    /\ UNCHANGED <<fdTable, sent, out, peer, up, roomList>>

RoomHeader(c) ==
    /\ At(c, "room")
    /\ th[c].i <= Members(c).size
    /\ ~AtKicked(c)
    /\ MemberFd(c) # SkippedFd(c)
    /\ SendHeader(c, MemberFd(c), th[c].pkt)
    /\ th' = [th EXCEPT ![c].pc = "roomPayload"]
    /\ UNCHANGED <<fdTable, sent, roomList>>

\* The slot is read again.
RoomPayload(c) ==
    /\ At(c, "roomPayload")
    /\ SendPayload(c, MemberFd(c), th[c].pkt)
    /\ th' = [th EXCEPT ![c] = [th[c] EXCEPT !.pc = "room", !.i = @ + 1]]
    /\ UNCHANGED <<fdTable, sent, roomList>>

KickedHeader(c) ==
    /\ At(c, "room")
    /\ th[c].i <= Members(c).size
    /\ AtKicked(c)
    /\ SendHeader(c, th[c].pkt.fd, KickedPacket(th[c].pkt))
    /\ th' = [th EXCEPT ![c].pc = "kickedPayload"]
    /\ UNCHANGED <<fdTable, sent, roomList>>

KickedPayload(c) ==
    /\ At(c, "kickedPayload")
    /\ SendPayload(c, th[c].pkt.fd, KickedPacket(th[c].pkt))
    /\ th' = [th EXCEPT ![c] = [th[c] EXCEPT !.pc = "room", !.i = @ + 1]]
    /\ UNCHANGED <<fdTable, sent, roomList>>

\* Mutant of RoomSkip: `continue` without the increment.
RoomSkipStuck(c) ==
    /\ At(c, "room")
    /\ th[c].i <= Members(c).size
    /\ ~AtKicked(c)
    /\ MemberFd(c) = SkippedFd(c)
    /\ UNCHANGED <<netVars, roomList>>

RoomSkip(c) ==
    /\ At(c, "room")
    /\ th[c].i <= Members(c).size
    /\ ~AtKicked(c)
    /\ MemberFd(c) = SkippedFd(c)
    /\ th' = [th EXCEPT ![c].i = @ + 1]
    /\ UNCHANGED <<fdTable, sent, out, peer, up, roomList>>

\* Takes fd off the members of room g; a name freed before may end the process.
RemoveMember(g, fd) ==
    /\ roomList' = [roomList EXCEPT ![g].members =
                      removeClientFromClientList(@, fd)]
    /\ up' \in {TRUE, ~FreesTwice(roomList[g].members, fd)}

\* Mutant of RoomDone: the loop ends one slot early.
RoomDoneEarly(c) ==
    /\ At(c, "room")
    /\ th[c].i >= Members(c).size
    /\ Return(c)
    /\ UNCHANGED <<fdTable, sent, out, peer, up, roomList>>

\* The end of the loop, after which manageKickedMember takes the target off.
RoomDone(c) ==
    /\ At(c, "room")
    /\ th[c].i > Members(c).size
    /\ IF th[c].pkt.type = "KICK_GROUP_MEMBER"
         THEN RemoveMember(th[c].room, th[c].pkt.fd)
         ELSE UNCHANGED <<roomList, up>>
    /\ Return(c)
    /\ UNCHANGED <<fdTable, sent, out, peer>>

----------------------------------------------------------------------------
(* manageGroupChat: no check that the sender is a member. *)

GroupChat(c) ==
    /\ Receives(c, "GROUP_CHAT")
    /\ Incoming(c).whole
    /\ \E g \in DOMAIN roomList :
         IsFirst(g, Named(Incoming(c).room)) /\ EnterRoom(c, g, "room")
    /\ UNCHANGED <<fdTable, sent, out, peer, up, roomList>>

(* manageNewMemberInRoom: no check that the sender is the admin, or that the *)
(* new member is not one already.                                            *)

\* Mutant of NewMember: name and descriptor read in the wrong order.
NewMemberSwapped(c) ==
    /\ Receives(c, "JOIN_ROOM")
    /\ Incoming(c).whole
    /\ \E g \in DOMAIN roomList :
         /\ IsFirst(g, Named(Incoming(c).room))
         /\ roomList' = [roomList EXCEPT ![g].members =
              addClientInClientList(@, [name |-> Incoming(c).fd,
                                        FD   |-> Incoming(c).name])]
         /\ EnterRoom(c, g, "details")
    /\ UNCHANGED <<fdTable, sent, out, peer, up>>

NewMember(c) ==
    /\ Receives(c, "JOIN_ROOM")
    /\ Incoming(c).whole
    /\ \E g \in DOMAIN roomList :
         /\ IsFirst(g, Named(Incoming(c).room))
         /\ roomList' = [roomList EXCEPT ![g].members =
              addClientInClientList(@, [name |-> Incoming(c).name,
                                        FD   |-> Incoming(c).fd])]
         /\ EnterRoom(c, g, "details")
    /\ UNCHANGED <<fdTable, sent, out, peer, up>>

\* sendGroupDetailsToAddedMember builds the packet before it sends anything.
DetailsHeader(c) ==
    /\ At(c, "details")
    /\ LET members == Members(c)
           p == [Blank EXCEPT !.type = "GROUP_LIST",
                   !.room = roomList[th[c].room].name,
                   !.fd = roomList[th[c].room].admin,
                   !.list = SubSeq(members.clients, 1, members.size)]
       IN  /\ SendHeader(c, th[c].pkt.fd, p)
           /\ th' = [th EXCEPT ![c] = [th[c] EXCEPT !.pc = "detailsPayload",
                                                    !.msg = p]]
    /\ UNCHANGED <<fdTable, sent, roomList>>

DetailsPayload(c) ==
    /\ At(c, "detailsPayload")
    /\ SendPayload(c, th[c].pkt.fd, th[c].msg)
    /\ th' = [th EXCEPT ![c] = [th[c] EXCEPT !.pc = "room", !.msg = Blank]]
    /\ UNCHANGED <<fdTable, sent, roomList>>

(* manageLeftGroupMember: takes off the descriptor in the packet. *)

LeftMember(c) ==
    /\ Receives(c, "LEAVE_ROOM")
    /\ Incoming(c).whole
    /\ \E g \in DOMAIN roomList :
         /\ IsFirst(g, Named(Incoming(c).room))
         /\ RemoveMember(g, Incoming(c).fd)
         /\ EnterRoom(c, g, "room")
    /\ UNCHANGED <<fdTable, sent, out, peer>>

(* manageKickedMember: the search breaks after the first room whether or not *)
(* it is the one.                                                            *)

KickMember(c) ==
    /\ Receives(c, "KICK_GROUP_MEMBER")
    /\ Incoming(c).whole
    /\ IF 1 \in Named(Incoming(c).room) THEN EnterRoom(c, 1, "room")
                                        ELSE ReceiveAndReturn(c)
    /\ UNCHANGED <<fdTable, sent, out, peer, up, roomList>>

----------------------------------------------------------------------------
RoomHandler(c) ==
    \/ NewRoom(c) \/ NewMember(c) \/ GroupChat(c) \/ LeftMember(c)
    \/ KickMember(c)
    \/ DetailsHeader(c) \/ DetailsPayload(c)
    \/ RoomHeader(c) \/ RoomPayload(c) \/ RoomSkip(c)
    \/ KickedHeader(c) \/ KickedPayload(c) \/ RoomDone(c)

----------------------------------------------------------------------------
(* What users write about rooms. *)

Wrote(c, type) == {k \in DOMAIN sent[c] : sent[c][k].type = type}

Created(c) == {sent[c][k].room : k \in Wrote(c, "CREATE_ROOM")}

\* Rooms that have been in the client's list of groups: a chat loop opened on
\* one goes on writing to it after the user has left it or been kicked.
Held(c) ==
    Created(c) \cup
    {out[c][k].pkt.room : k \in {j \in DOMAIN out[c] :
       out[c][j].part = "payload" /\ out[c][j].pkt.type = "GROUP_LIST"}}

Writes(c, type, room, fd, name) ==
    /\ CanWrite(c)
    /\ Write(c, [Blank EXCEPT !.type = type, !.room = room, !.fd = fd,
                              !.name = name])
    /\ UNCHANGED <<fdTable, th, out, up, roomList>>

\* /create_group.
SendCreateRoom(c) ==
    /\ Cardinality(UNION {{d} \X Wrote(d, "CREATE_ROOM") : d \in Conns})
         < MaxRooms
    /\ \E room \in Rooms : Writes(c, "CREATE_ROOM", room, NoFd, c)

\* /add_member names any user and any room of the client's lists.  A user's
\* entry has the name its descriptor came with.
SendJoinRoom(c) ==
    \E room \in Held(c), f \in KnownFds(c) \cap Fds :
      Writes(c, "JOIN_ROOM", room, f, fdTable[f])

\* A line in the loop of /open.
SendGroupChat(c) ==
    \E room \in Held(c) : Writes(c, "GROUP_CHAT", room, NoFd, c)

\* /kick: the client checks that its user is the admin.  targetFD is not set
\* when nobody has the name that was typed: any descriptor.
SendKick(c) ==
    \E room \in Created(c), f \in Fds :
      Writes(c, "KICK_GROUP_MEMBER", room, f, fdTable[f])

\* /leave_group takes the descriptor from the user's own entry in the group.
\* For a group the user has created that is mySocketFD of main(): 69, which
\* is nobody's here, when the list of users had not arrived at the start.
SendLeaveRoom(c) ==
    \E room \in Held(c) :
      \E f \in {th[c].fd} \cup (IF room \in Created(c) THEN {NoFd} ELSE {}) :
        Writes(c, "LEAVE_ROOM", room, f, c)
=============================================================================
