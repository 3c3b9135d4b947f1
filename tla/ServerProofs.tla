----------------------------- MODULE ServerProofs -----------------------------
(***************************************************************************)
(* Proofs about ChatServer: what the registry's threads keep they keep     *)
(* with the rooms beside them, and the loops over the members of a room    *)
(* stay in its array and tell only those of a kick who are kicked; the     *)
(* members of a room are those who were put in, less those taken off;      *)
(* while nobody quits nobody else hears of the room; and while nobody is   *)
(* taken off a list everyone in a room hears what is said there, and of    *)
(* everyone else in it, in packets that come whole.  The handlers of the   *)
(* registry are covered by the lemmas of RegistryProofs; here are those of *)
(* the rooms.                                                              *)
(***************************************************************************)
EXTENDS ChatServer, CountProofs

----------------------------------------------------------------------------
(* The invariant. *)

\* The packets whose handlers loop over the members of a room.
RoomOrders == {"JOIN_ROOM", "GROUP_CHAT", "LEAVE_ROOM", "KICK_GROUP_MEMBER"}

\* What the thread of c may have in its locals in the handler of such a packet.
RoomLocals(c, t, rooms) ==
    /\ t.pc \in InRoom =>
         /\ t.room \in DOMAIN rooms
         /\ t.i >= 1 /\ t.got >= 1
         /\ t.pkt = sent[c][t.got]
         /\ t.pkt.type \in RoomOrders
    /\ t.pc \in {"roomPayload", "kickedPayload"} =>
         t.i \in DOMAIN rooms[t.room].members.clients
    /\ t.pc = "kickedPayload" => t.pkt.type = "KICK_GROUP_MEMBER"
    /\ t.pc = "detailsPayload" => t.msg.type = "GROUP_LIST"

\* No list is longer than its array.
RoomSizes ==
    \A g \in DOMAIN roomList :
      roomList[g].members.size <= Len(roomList[g].members.clients)

RoomInv ==
    /\ RoomsTypeOK
    /\ RoomSizes
    /\ \A c \in Conns : RoomLocals(c, th[c], roomList)

\* Nothing is written to a connection before accept().
StreamInv == \A x \in Conns : th[x].pc = "new" => out[x] = <<>>

ServerInv == IndInv /\ HandlerInv /\ RoomInv /\ StreamInv /\ KickedWasOrdered

----------------------------------------------------------------------------
(* What the steps have in common. *)

\* The step leaves every thread but that of c where it is, its room too.
RoomFrame(c) ==
    \A d \in Conns \ {c} :
      /\ th'[d].pc = th[d].pc /\ th'[d].fd = th[d].fd
      /\ th'[d].i = th[d].i /\ th'[d].n = th[d].n
      /\ th'[d].pkt = th[d].pkt /\ th'[d].got = th[d].got
      /\ th'[d].room = th[d].room /\ th'[d].msg = th[d].msg

\* Rooms and their arrays only grow.
ArraysKept ==
    \A g \in DOMAIN roomList :
      /\ g \in DOMAIN roomList'
      /\ DOMAIN roomList[g].members.clients
           \subseteq DOMAIN roomList'[g].members.clients

\* The thread of c has had a KICK_GROUP_MEMBER for f in room.
Ordered(c, f, room) ==
    \E k \in 1 .. th[c].got :
      /\ sent[c][k].type = "KICK_GROUP_MEMBER"
      /\ sent[c][k].room = room
      /\ sent[c][k].fd = f

\* A thread's locals stay right while others add rooms and members and its
\* client writes.
LEMMA SameRoomLocals ==
    ASSUME NEW d \in Conns, NEW s, NEW t, RoomLocals(d, s, roomList),
           ArraysKept,
           t.pc = s.pc, t.i = s.i, t.pkt = s.pkt, t.got = s.got,
           t.room = s.room, t.msg = s.msg,
           s.got >= 1 => sent'[d][s.got] = sent[d][s.got]
    PROVE  RoomLocals(d, t, roomList)'
  BY DEF RoomLocals, ArraysKept, InRoom

\* A step of one server thread that writes one chunk at most, a KICKED only to
\* the descriptor it has been ordered for.
LEMMA ThreadStep ==
    ASSUME ServerInv, NEW c \in Conns, RoomFrame(c), sent' = sent,
           IndInv', HandlerInv', RoomsTypeOK', RoomSizes', ArraysKept,
           RoomLocals(c, th[c], roomList)',
           th'[c].got >= th[c].got, th'[c].pc # "new",
           th[c].pc # "new" => th'[c].fd = th[c].fd,
           NEW f, NEW part, NEW p, Emits(c, f, part, p),
           p.type = "KICKED" => Ordered(c, f, p.room)
    PROVE  ServerInv'
  <1>1. /\ NetTypeOK /\ out \in [Conns -> Seq(Chunk)]
        /\ \A d \in Conns : th[d].got \in Nat /\ th'[d].got \in Nat
    BY DEF ServerInv, IndInv, TypeOK, NetTypeOK, Thread
  <1>2. RoomInv'
    <2>1. ASSUME NEW d \in Conns, d # c
          PROVE  RoomLocals(d, th[d], roomList)'
      BY <2>1, SameRoomLocals DEF ServerInv, RoomInv, RoomFrame
    <2> QED
      BY <2>1 DEF RoomInv
  \* A chunk is an old one, or c's.
  <1> DEFINE chunk == [part |-> part, by |-> c, pkt |-> p]
  <1>3. ASSUME NEW x \in Conns
        PROVE  /\ out'[x] = out[x]
                  \/ (f \in Fds /\ fdTable[f] = x /\ out'[x] = Append(out[x], chunk))
    BY <1>1 DEF Emits
  <1>4. ASSUME NEW x \in Conns, f \in Fds, fdTable[f] = x
        PROVE  th[x].fd = f /\ th[x].pc # "new"
    BY <1>4 DEF ServerInv, IndInv, FdInv, OneThreadPerFd
  <1>5. ASSUME NEW x \in Conns
        PROVE  /\ th'[x].pc = "new" => th[x].pc = "new"
               /\ th[x].pc # "new" => th'[x].fd = th[x].fd
               /\ th[x].got <= th'[x].got
    <2>1. CASE x = c
      BY <2>1, <1>1
    <2>2. CASE x # c
      BY <2>2, <1>1 DEF RoomFrame
    <2> QED
      BY <2>1, <2>2
  <1>6. StreamInv'
    BY <1>3, <1>4, <1>5 DEF ServerInv, StreamInv
  <1>7. KickedWasOrdered'
    <2> DEFINE Later(w, g, room) ==
                 \E k \in 1 .. th'[w].got :
                   /\ sent'[w][k].type = "KICK_GROUP_MEMBER"
                   /\ sent'[w][k].room = room
                   /\ sent'[w][k].fd = g
    <2> SUFFICES ASSUME NEW x \in Conns, NEW j \in DOMAIN out'[x],
                        out'[x][j].pkt.type = "KICKED"
                 PROVE  Later(out'[x][j].by, th'[x].fd, out'[x][j].pkt.room)
      BY DEF KickedWasOrdered
    <2>1. /\ out[x] \in Seq(Chunk) /\ Len(out[x]) \in Nat
          /\ DOMAIN out[x] = 1 .. Len(out[x])
      BY <1>1, LenProperties
    <2>2. ASSUME NEW w \in Conns, NEW g, NEW room, Ordered(w, g, room)
          PROVE  Later(w, g, room)
      <3>1. 1 .. th[w].got \subseteq 1 .. th'[w].got
        BY <1>1, <1>5
      <3> QED
        BY <2>2, <3>1 DEF Ordered
    <2> HIDE DEF Later
    <2>3. CASE j \in DOMAIN out[x] /\ out'[x][j] = out[x][j]
      <3>1. out[x][j].by \in Conns
        BY <1>1, <2>3, ChunkType
      <3>2. th'[x].fd = th[x].fd
        BY <1>5, <2>1, <2>3 DEF ServerInv, StreamInv
      <3>3. Ordered(out[x][j].by, th[x].fd, out[x][j].pkt.room)
        BY <2>3 DEF ServerInv, KickedWasOrdered, Ordered
      <3>4. Later(out[x][j].by, th[x].fd, out[x][j].pkt.room)
        BY <2>2, <3>1, <3>3
      <3> QED
        BY <2>3, <3>2, <3>4
    <2>4. CASE f \in Fds /\ fdTable[f] = x /\ out'[x][j] = chunk
      <3>1. th'[x].fd = f
        BY <1>4, <1>5, <2>4
      <3>2. p.type = "KICKED" /\ out'[x][j].by = c /\ out'[x][j].pkt = p
        BY <2>4
      <3>3. Later(c, f, p.room)
        BY <2>2, <3>2
      <3> QED
        BY <3>1, <3>2, <3>3
    <2>5. CASE f \in Fds /\ fdTable[f] = x /\ out'[x] = Append(out[x], chunk)
      <3> HIDE DEF chunk
      <3>1. /\ DOMAIN out'[x] = 1 .. Len(out[x]) + 1
            /\ \A k \in 1 .. Len(out[x]) : out'[x][k] = out[x][k]
            /\ out'[x][Len(out[x]) + 1] = chunk
        BY <2>1, <2>5
      <3>2. \/ j \in DOMAIN out[x] /\ out'[x][j] = out[x][j]
            \/ out'[x][j] = chunk
        BY <2>1, <3>1
      <3> QED
        BY <2>3, <2>4, <2>5, <3>2
    <2> QED
      BY <1>3, <2>3, <2>5
  <1> QED
    BY <1>2, <1>6, <1>7 DEF ServerInv

----------------------------------------------------------------------------
(* The rooms. *)

\* What the lemmas below need of a room.
LEMMA RoomKnown ==
    ASSUME ServerInv, NEW g \in DOMAIN roomList
    PROVE  LET members == roomList[g].members
           IN  /\ roomList \in Seq(Room) /\ roomList[g] \in Room
               /\ members \in ClientList(Names, AnyFd)
               /\ members.clients \in Seq(Entries)
               /\ members.size \in Nat
               /\ DOMAIN members.clients = 1 .. Len(members.clients)
               /\ Len(members.clients) \in Nat
               /\ members.size <= Len(members.clients)
  <1>1. roomList \in Seq(Room)
    BY DEF ServerInv, RoomInv, RoomsTypeOK
  <1>2. roomList[g] \in Room
    BY <1>1, LenProperties, ElementOfSeq
  <1>3. roomList[g].members \in ClientList(Names, AnyFd)
    BY <1>2 DEF Room
  <1>4. /\ roomList[g].members.clients \in Seq(Entries)
        /\ roomList[g].members.size \in Nat
    BY <1>3 DEF ClientList, Entries
  <1>5. roomList[g].members.size <= Len(roomList[g].members.clients)
    BY DEF ServerInv, RoomInv, RoomSizes
  <1> QED
    BY <1>1, <1>2, <1>3, <1>4, <1>5, LenProperties

\* Every slot of the array of a room holds a descriptor.
LEMMA MemberType ==
    ASSUME ServerInv, NEW g \in DOMAIN roomList,
           NEW i \in DOMAIN roomList[g].members.clients
    PROVE  roomList[g].members.clients[i].FD \in AnyFd
  <1>1. roomList[g].members.clients[i] \in Entries
    BY RoomKnown, ElementOfSeq
  <1> QED
    BY <1>1 DEF Entries, Client

\* The rooms as they were.
LEMMA SameRooms ==
    ASSUME ServerInv, roomList' = roomList
    PROVE  RoomsTypeOK' /\ RoomSizes' /\ ArraysKept
  BY DEF ServerInv, RoomInv, RoomsTypeOK, RoomSizes, ArraysKept

\* One room has another member list, in an array that is no shorter.
LEMMA RoomReplaced ==
    ASSUME ServerInv, NEW g \in DOMAIN roomList,
           NEW new \in ClientList(Names, AnyFd),
           new.size <= Len(new.clients),
           Len(roomList[g].members.clients) <= Len(new.clients),
           roomList' = [roomList EXCEPT ![g].members = new]
    PROVE  /\ RoomsTypeOK' /\ RoomSizes' /\ ArraysKept
           /\ DOMAIN roomList' = DOMAIN roomList
  <1> DEFINE room == [roomList[g] EXCEPT !.members = new]
  <1>1. /\ roomList \in Seq(Room) /\ roomList[g] \in Room
        /\ Len(roomList[g].members.clients) \in Nat
        /\ DOMAIN roomList[g].members.clients
             = 1 .. Len(roomList[g].members.clients)
    BY RoomKnown
  <1>2. room \in Room /\ room.members = new
    BY <1>1 DEF Room
  <1>3. roomList' = [roomList EXCEPT ![g] = room]
    OBVIOUS
  <1> HIDE DEF room
  <1>4. g \in 1 .. Len(roomList)
    BY <1>1, LenProperties
  <1>5. roomList' \in Seq(Room)
    <2>1. [roomList EXCEPT ![g] = room] \in Seq(Room)
      BY <1>1, <1>2, <1>4, ExceptSeq
    <2> QED
      BY <1>3, <2>1
  <1>6. DOMAIN roomList' = DOMAIN roomList
    BY <1>3
  <1>7. \A h \in DOMAIN roomList :
          roomList'[h] = IF h = g THEN room ELSE roomList[h]
    BY <1>3
  <1>8. RoomSizes'
    BY <1>2, <1>6, <1>7 DEF ServerInv, RoomInv, RoomSizes
  <1>9. ArraysKept
    <2>1. new.clients \in Seq(Entries)
      BY DEF ClientList, Entries
    <2>2. DOMAIN new.clients = 1 .. Len(new.clients) /\ Len(new.clients) \in Nat
      BY <2>1, LenProperties
    <2>3. DOMAIN roomList[g].members.clients \subseteq DOMAIN new.clients
      BY <1>1, <2>2
    <2> QED
      BY <1>2, <1>6, <1>7, <2>3 DEF ArraysKept
  <1> QED
    BY <1>5, <1>6, <1>8, <1>9 DEF RoomsTypeOK

\* A member more.
LEMMA RoomAdds ==
    ASSUME ServerInv, NEW g \in DOMAIN roomList, NEW client \in Entries,
           roomList' = [roomList EXCEPT ![g].members =
                          addClientInClientList(@, client)]
    PROVE  /\ RoomsTypeOK' /\ RoomSizes' /\ ArraysKept
           /\ DOMAIN roomList' = DOMAIN roomList
  <1> DEFINE new == addClientInClientList(roomList[g].members, client)
  <1>1. /\ new \in ClientList(Names, AnyFd)
        /\ new.size <= Len(new.clients)
        /\ Len(roomList[g].members.clients) <= Len(new.clients)
    BY RoomKnown, AddProperties
  <1>2. roomList' = [roomList EXCEPT ![g].members = new]
    OBVIOUS
  <1> HIDE DEF new
  <1> QED
    BY <1>1, <1>2, RoomReplaced

\* A member less: the array stays as long as it was.
LEMMA RoomRemoves ==
    ASSUME ServerInv, NEW g \in DOMAIN roomList, NEW fd, RemoveMember(g, fd)
    PROVE  /\ RoomsTypeOK' /\ RoomSizes' /\ ArraysKept
           /\ DOMAIN roomList' = DOMAIN roomList
           /\ up' \in BOOLEAN
  <1> DEFINE new == removeClientFromClientList(roomList[g].members, fd)
  <1>1. /\ new \in ClientList(Names, AnyFd)
        /\ new.size <= Len(new.clients)
        /\ Len(roomList[g].members.clients) <= Len(new.clients)
    <2>1. /\ roomList[g].members \in ClientList(Names, AnyFd)
          /\ roomList[g].members.size <= Len(roomList[g].members.clients)
          /\ Len(roomList[g].members.clients) \in Nat
      BY RoomKnown
    <2> QED
      BY <2>1, RemoveProperties
  <1>2. roomList' = [roomList EXCEPT ![g].members = new] /\ up' \in BOOLEAN
    BY DEF RemoveMember
  <1> HIDE DEF new
  <1> QED
    BY <1>1, <1>2, RoomReplaced

\* A handler's step of the thread of c, with t its new locals.
LEMMA RoomStep ==
    ASSUME ServerInv, NEW c \in Conns, NEW t, Alive(c), LocalsOK(c, t),
           th' = [th EXCEPT ![c] = t],
           t.pc \in InRoom \cup {"recv"}, t.got >= th[c].got,
           RoomLocals(c, t, roomList'),
           UNCHANGED <<fdTable, sent, clientList>>,
           RoomsTypeOK', RoomSizes', ArraysKept,
           NEW f \in AnyFd, NEW part \in {"header", "payload"},
           NEW p \in Packet,
           \/ Send(c, f, part, p) /\ p.type \notin News
           \/ UNCHANGED <<out, peer>> /\ up' \in BOOLEAN,
           p.type = "KICKED" => Ordered(c, f, p.room)
    PROVE  ServerInv'
  <1>1. IndInv /\ HandlerInv /\ NetTypeOK /\ th \in [Conns -> Thread]
    BY KnownTypes DEF ServerInv
  <1>2. IndInv'
    BY <1>1, QuietStep, SendStep
  <1>3. LeavesPeers /\ Emits(c, f, part, p)
    <2>1. CASE Send(c, f, part, p)
      BY <1>1, <2>1, SendEffect
    <2>2. CASE UNCHANGED <<out, peer>>
      BY <2>2 DEF LeavesPeers, Emits
    <2> QED
      BY <2>1, <2>2
  <1>4. th'[c] = t /\ RoomFrame(c) /\ Frame(c)
    BY <1>1 DEF RoomFrame, Frame
  <1>5. HandlerInv'
    <2>1. InHandler(c)' /\ t.pc # "new"
      BY <1>4 DEF InHandler, InRoom
    <2> QED
      BY <1>1, <1>3, <1>4, <2>1, HandlerStep
  <1>6. RoomLocals(c, th[c], roomList)'
    BY <1>4 DEF RoomLocals
  <1>7. t.pc # "new" /\ t.fd = th[c].fd
    BY DEF LocalsOK
  <1> QED
    BY <1>2, <1>3, <1>4, <1>5, <1>6, <1>7, ThreadStep

\* The handler of a packet is entered on room g.
LEMMA Enters ==
    ASSUME ServerInv, NEW c \in Conns, NEW type \in RoomOrders,
           Receives(c, type), NEW g \in DOMAIN roomList,
           NEW pc \in {"room", "details"}, EnterRoom(c, g, pc),
           UNCHANGED <<fdTable, sent, out, peer, clientList>>,
           up' \in BOOLEAN, RoomsTypeOK', RoomSizes', ArraysKept
    PROVE  ServerInv'
  <1> DEFINE p == Incoming(c)
             t == [th[c] EXCEPT !.pc = pc, !.got = @ + 1, !.i = 1,
                                !.pkt = p, !.room = g]
  <1>1. /\ p \in Packet /\ p.type = type /\ Alive(c)
        /\ th[c] \in Thread /\ th[c].got \in Nat
        /\ th[c].got + 1 <= Len(sent[c])
        /\ p = sent[c][th[c].got + 1]
    BY KnownTypes, IncomingType DEF ServerInv, Receives, Incoming, Thread
  <1>2. th' = [th EXCEPT ![c] = t]
    BY DEF EnterRoom
  <1> HIDE DEF p
  <1>3. g \in Nat /\ pc \in Pcs
    BY RoomKnown, LenProperties DEF Pcs
  <1>4. /\ t \in Thread /\ t.pc = pc /\ t.fd = th[c].fd /\ t.pkt = p
        /\ t.i = 1 /\ t.room = g /\ t.got = th[c].got + 1
    <2>1. th[c].got + 1 \in Nat
      BY <1>1
    <2>2. t \in Thread
      BY <1>1, <1>3, <2>1 DEF Thread
    <2>3. /\ t.pc = pc /\ t.fd = th[c].fd /\ t.pkt = p
          /\ t.i = 1 /\ t.room = g /\ t.got = th[c].got + 1
      BY <1>1 DEF Thread
    <2> QED
      BY <2>2, <2>3
  <1> HIDE DEF t
  <1>5. LocalsOK(c, t)
    BY <1>1, <1>4 DEF LocalsOK
  <1>6. RoomLocals(c, t, roomList')
    BY <1>1, <1>4 DEF RoomLocals, ArraysKept
  <1>7. t.pc \in InRoom \cup {"recv"} /\ t.got >= th[c].got
    BY <1>1, <1>4 DEF InRoom
  <1>8. Blank \in Packet /\ Blank.type = "NONE" /\ NoFd \in AnyFd
    BY BlankType DEF Blank, AnyFd
  <1> QED
    BY <1>1, <1>2, <1>5, <1>6, <1>7, <1>8, RoomStep

\* A handler returns, after the packet it has been in or the next one.
LEMMA Leaves ==
    ASSUME ServerInv, NEW c \in Conns, Alive(c), NEW k \in {0, 1},
           th[c].got + k <= Len(sent[c]),
           th' = [th EXCEPT ![c] = Idle(th[c], k)],
           UNCHANGED <<fdTable, sent, out, peer, clientList>>,
           up' \in BOOLEAN, RoomsTypeOK', RoomSizes', ArraysKept
    PROVE  ServerInv'
  <1> DEFINE t == Idle(th[c], k)
  <1>1. th[c] \in Thread /\ th[c].got \in Nat
    BY KnownTypes DEF ServerInv, Thread
  <1>2. t.pc = "recv" /\ t.got = th[c].got + k /\ k \in Nat
    <2>1. k \in Nat
      OBVIOUS
    <2> QED
      BY <1>1, <2>1, IdleType
  <1>3. LocalsOK(c, t)
    BY IdleOK DEF ServerInv
  <1> HIDE DEF t
  <1>4. RoomLocals(c, t, roomList')
    BY <1>2 DEF RoomLocals, InRoom
  <1>5. t.pc \in InRoom \cup {"recv"} /\ t.got >= th[c].got
    BY <1>1, <1>2
  <1>6. Blank \in Packet /\ Blank.type = "NONE" /\ NoFd \in AnyFd
    BY BlankType DEF Blank, AnyFd
  <1> QED
    BY <1>3, <1>4, <1>5, <1>6, RoomStep DEF t

----------------------------------------------------------------------------
(* The handlers of the rooms. *)

\* manageNewRoom: the new room has its admin for a member.
LEMMA NewRoomInv ==
    ASSUME ServerInv, NEW c \in Conns, NewRoom(c), UNCHANGED clientList
    PROVE  ServerInv'
  <1>1. /\ Incoming(c) \in Packet /\ Alive(c) /\ th[c].got + 1 <= Len(sent[c])
        /\ th[c].fd \in AnyFd
    BY KnownTypes, IncomingType DEF ServerInv, NewRoom, Receives, Thread
  <1> DEFINE admin == [name |-> Incoming(c).name, FD |-> th[c].fd]
             members == addClientInClientList(EmptyList, admin)
             room == [name |-> Incoming(c).room, admin |-> admin.FD,
                      members |-> members]
  <1>2. /\ members \in ClientList(Names, AnyFd)
        /\ members.size <= Len(members.clients)
    <2>1. admin \in Entries
      BY <1>1 DEF Packet, Entries, Client
    <2>2. /\ EmptyList \in ClientList(Names, AnyFd)
          /\ EmptyList.size <= Len(EmptyList.clients)
      BY EmptySeq DEF EmptyList, ClientList
    <2> HIDE DEF admin
    <2> QED
      BY <2>1, <2>2, AddProperties
  <1> HIDE DEF members
  <1>3. room \in Room /\ room.members = members
    BY <1>1, <1>2 DEF Room, Packet
  <1>4. roomList' = Append(roomList, room)
    BY DEF NewRoom, members
  <1> HIDE DEF room
  <1>5. roomList \in Seq(Room) /\ RoomSizes
    BY DEF ServerInv, RoomInv, RoomsTypeOK
  <1>6. /\ roomList' \in Seq(Room)
        /\ DOMAIN roomList = 1 .. Len(roomList) /\ Len(roomList) \in Nat
        /\ DOMAIN roomList' = 1 .. Len(roomList) + 1
        /\ \A g \in 1 .. Len(roomList) : roomList'[g] = roomList[g]
        /\ roomList'[Len(roomList) + 1] = room
    BY <1>3, <1>4, <1>5, AppendProperties, LenProperties
  <1>7. RoomsTypeOK' /\ ArraysKept
    BY <1>6 DEF RoomsTypeOK, ArraysKept
  <1>8. RoomSizes'
    BY <1>2, <1>3, <1>5, <1>6 DEF RoomSizes
  <1>9. /\ th' = [th EXCEPT ![c] = Idle(th[c], 1)]
        /\ UNCHANGED <<fdTable, sent, out, peer>> /\ up' \in BOOLEAN
    BY KnownTypes DEF NewRoom, ReceiveAndReturn, ServerInv, NetTypeOK
  <1> QED
    BY <1>1, <1>7, <1>8, <1>9, Leaves

\* manageGroupChat and manageKickedMember, before their loops.
LEMMA GroupChatInv ==
    ASSUME ServerInv, NEW c \in Conns, GroupChat(c), UNCHANGED clientList
    PROVE  ServerInv'
  <1>1. PICK g \in DOMAIN roomList : EnterRoom(c, g, "room")
    BY DEF GroupChat
  <1>2. /\ Receives(c, "GROUP_CHAT") /\ up' \in BOOLEAN
        /\ UNCHANGED <<fdTable, sent, out, peer, roomList>>
    BY KnownTypes DEF GroupChat, ServerInv, NetTypeOK
  <1> QED
    BY <1>1, <1>2, SameRooms, Enters DEF RoomOrders

LEMMA KickMemberInv ==
    ASSUME ServerInv, NEW c \in Conns, KickMember(c), UNCHANGED clientList
    PROVE  ServerInv'
  <1>1. /\ Receives(c, "KICK_GROUP_MEMBER") /\ up' \in BOOLEAN
        /\ UNCHANGED <<fdTable, sent, out, peer, roomList>>
    BY KnownTypes DEF KickMember, ServerInv, NetTypeOK
  <1>2. CASE 1 \in Named(Incoming(c).room)
    <2>1. 1 \in DOMAIN roomList /\ EnterRoom(c, 1, "room")
      BY <1>2 DEF KickMember, Named
    <2> QED
      BY <1>1, <2>1, SameRooms, Enters DEF RoomOrders
  <1>3. CASE 1 \notin Named(Incoming(c).room)
    <2>1. th' = [th EXCEPT ![c] = Idle(th[c], 1)]
      BY <1>3 DEF KickMember, ReceiveAndReturn
    <2>2. Alive(c) /\ th[c].got + 1 <= Len(sent[c])
      BY <1>1, KnownTypes, IncomingType DEF ServerInv, Receives
    <2> QED
      BY <1>1, <2>1, <2>2, SameRooms, Leaves
  <1> QED
    BY <1>2, <1>3

\* manageNewMemberInRoom up to the addition.
LEMMA NewMemberInv ==
    ASSUME ServerInv, NEW c \in Conns, NewMember(c), UNCHANGED clientList
    PROVE  ServerInv'
  <1> DEFINE client == [name |-> Incoming(c).name, FD |-> Incoming(c).fd]
  <1>1. /\ Receives(c, "JOIN_ROOM") /\ up' \in BOOLEAN
        /\ UNCHANGED <<fdTable, sent, out, peer>>
    BY KnownTypes DEF NewMember, ServerInv, NetTypeOK
  <1>2. client \in Entries
    <2>1. Incoming(c) \in Packet
      BY <1>1, KnownTypes, IncomingType DEF ServerInv, Receives
    <2> QED
      BY <2>1 DEF Packet, Entries, Client
  <1>3. PICK g \in DOMAIN roomList :
          /\ roomList' = [roomList EXCEPT ![g].members =
                            addClientInClientList(@, client)]
          /\ EnterRoom(c, g, "details")
    BY DEF NewMember
  <1> HIDE DEF client
  <1> QED
    BY <1>1, <1>2, <1>3, RoomAdds, Enters DEF RoomOrders

\* manageLeftGroupMember up to the removal.
LEMMA LeftMemberInv ==
    ASSUME ServerInv, NEW c \in Conns, LeftMember(c), UNCHANGED clientList
    PROVE  ServerInv'
  <1>1. /\ Receives(c, "LEAVE_ROOM")
        /\ UNCHANGED <<fdTable, sent, out, peer>>
    BY DEF LeftMember
  <1>2. PICK g \in DOMAIN roomList :
          RemoveMember(g, Incoming(c).fd) /\ EnterRoom(c, g, "room")
    BY DEF LeftMember
  <1> QED
    BY <1>1, <1>2, RoomRemoves, Enters DEF RoomOrders

\* The end of a loop, with the removal of who has been kicked.
LEMMA RoomDoneInv ==
    ASSUME ServerInv, NEW c \in Conns, RoomDone(c), UNCHANGED clientList
    PROVE  ServerInv'
  <1>1. /\ th[c].pc = "room" /\ Alive(c)
        /\ th' = [th EXCEPT ![c] = Idle(th[c], 0)]
        /\ UNCHANGED <<fdTable, sent, out, peer>>
    BY DEF RoomDone, At, Alive, Return
  <1>2. th[c].room \in DOMAIN roomList
    BY <1>1 DEF ServerInv, RoomInv, RoomLocals, InRoom
  <1>3. RoomsTypeOK' /\ RoomSizes' /\ ArraysKept /\ up' \in BOOLEAN
    <2>1. CASE RemoveMember(th[c].room, th[c].pkt.fd)
      BY <1>2, <2>1, RoomRemoves
    <2>2. CASE UNCHANGED <<roomList, up>>
      BY <2>2, SameRooms, KnownTypes DEF ServerInv, NetTypeOK
    <2> QED
      BY <2>1, <2>2 DEF RoomDone
  <1>4. th[c].got + 0 <= Len(sent[c])
    BY KnownTypes DEF ServerInv, NewsInv, Thread
  <1> QED
    BY <1>1, <1>3, <1>4, Leaves

----------------------------------------------------------------------------
(* The loops over the members. *)

\* What a thread in a loop knows.
LEMMA InLoop ==
    ASSUME ServerInv, NEW c \in Conns, th[c].pc \in InRoom
    PROVE  /\ Alive(c) /\ th[c] \in Thread /\ th[c].got <= Len(sent[c])
           /\ th[c].room \in DOMAIN roomList
           /\ th[c].i >= 1 /\ th[c].got >= 1
           /\ th[c].pkt = sent[c][th[c].got] /\ th[c].pkt \in Packet
           /\ th[c].pkt.type \in RoomOrders
           /\ th[c].i \in Nat /\ th[c].got \in Nat
           /\ th[c].pkt.fd \in AnyFd
  <1>1. /\ th[c] \in Thread /\ th[c].got <= Len(sent[c]) /\ Alive(c)
    BY KnownTypes DEF ServerInv, NewsInv, Alive, InRoom
  <1>2. RoomLocals(c, th[c], roomList)
    BY DEF ServerInv, RoomInv
  <1>3. th[c].pkt \in Packet
    BY <1>1 DEF Thread
  <1>4. th[c].pkt.fd \in AnyFd
    BY <1>3 DEF Packet
  <1> QED
    BY <1>1, <1>2, <1>3, <1>4 DEF RoomLocals, Thread

\* The slot of the loop condition lies in the array.
LEMMA LoopSlot ==
    ASSUME ServerInv, NEW c \in Conns, th[c].pc = "room",
           th[c].i <= Members(c).size
    PROVE  th[c].i \in DOMAIN Members(c).clients
  <1>1. th[c].room \in DOMAIN roomList /\ th[c].i \in Nat /\ th[c].i >= 1
    BY InLoop DEF InRoom
  <1> QED
    BY <1>1, RoomKnown DEF Members

\* A step of a loop sends a chunk, which is no news, and goes to pc and slot i.
LEMMA LoopSends ==
    ASSUME ServerInv, NEW c \in Conns, th[c].pc \in InRoom,
           NEW pc \in InRoom \ {"detailsPayload"}, NEW i \in Nat, i >= 1,
           NEW t, t = [th[c] EXCEPT !.pc = pc, !.i = i, !.msg = t.msg],
           t.msg \in Packet,
           th' = [th EXCEPT ![c] = t],
           pc \in {"roomPayload", "kickedPayload"}
             => i \in DOMAIN Members(c).clients,
           pc = "kickedPayload" => th[c].pkt.type = "KICK_GROUP_MEMBER",
           NEW f \in AnyFd, NEW part \in {"header", "payload"},
           NEW p \in Packet,
           \/ Send(c, f, part, p) /\ p.type \notin News
           \/ UNCHANGED <<out, peer>> /\ up' \in BOOLEAN,
           p.type = "KICKED" => Ordered(c, f, p.room),
           UNCHANGED <<fdTable, sent, roomList, clientList>>
    PROVE  ServerInv'
  <1>1. /\ Alive(c) /\ th[c] \in Thread /\ th[c].got <= Len(sent[c])
        /\ th[c].room \in DOMAIN roomList
        /\ th[c].got >= 1
        /\ th[c].pkt = sent[c][th[c].got]
        /\ th[c].pkt.type \in RoomOrders
        /\ th[c].got \in Nat
    BY InLoop
  <1>2. /\ t \in Thread /\ t.pc = pc /\ t.i = i /\ t.room = th[c].room
        /\ t.fd = th[c].fd /\ t.got = th[c].got /\ t.pkt = th[c].pkt
    <2>1. pc \in Pcs
      BY DEF InRoom, Pcs
    <2>2. t \in Thread
      BY <1>1, <2>1 DEF Thread
    <2>3. /\ t.pc = pc /\ t.i = i /\ t.room = th[c].room
          /\ t.fd = th[c].fd /\ t.got = th[c].got /\ t.pkt = th[c].pkt
      BY <1>1 DEF Thread
    <2> QED
      BY <2>2, <2>3
  <1>3. LocalsOK(c, t)
    BY <1>1, <1>2 DEF LocalsOK, InRoom
  <1>4. RoomLocals(c, t, roomList')
    BY <1>1, <1>2 DEF RoomLocals, Members
  <1>5. RoomsTypeOK' /\ RoomSizes' /\ ArraysKept
    BY SameRooms
  <1>6. t.pc \in InRoom \cup {"recv"} /\ t.got >= th[c].got
    BY <1>1, <1>2
  <1> QED
    BY <1>1, <1>3, <1>4, <1>5, <1>6, RoomStep

\* The loops of manageGroupChat, manageNewMemberInRoom, manageLeftGroupMember
\* and manageKickedMember: the packet is sent on to a member ...
LEMMA RoomHeaderInv ==
    ASSUME ServerInv, NEW c \in Conns, RoomHeader(c), UNCHANGED clientList
    PROVE  ServerInv'
  <1> DEFINE t == [th[c] EXCEPT !.pc = "roomPayload"]
  <1>1. /\ th[c].pc = "room" /\ th[c].i <= Members(c).size
        /\ Send(c, MemberFd(c), "header", th[c].pkt)
        /\ th' = [th EXCEPT ![c] = t]
        /\ UNCHANGED <<fdTable, sent, roomList>>
    BY DEF RoomHeader, At, SendHeader
  <1>2. /\ th[c] \in Thread /\ th[c].pkt \in Packet /\ th[c].i \in Nat
        /\ th[c].i >= 1
        /\ th[c].pkt.type \notin News /\ th[c].pkt.type # "KICKED"
        /\ th[c].room \in DOMAIN roomList
    BY <1>1, InLoop DEF InRoom, RoomOrders, News
  <1>3. th[c].i \in DOMAIN Members(c).clients
    BY <1>1, LoopSlot
  <1>4. MemberFd(c) \in AnyFd
    BY <1>2, <1>3, MemberType DEF MemberFd, Members
  <1>5. /\ t = [th[c] EXCEPT !.pc = "roomPayload", !.i = th[c].i, !.msg = t.msg]
        /\ t.msg \in Packet
    BY <1>2 DEF Thread
  <1>6. "roomPayload" \in InRoom \ {"detailsPayload"} /\ th[c].pc \in InRoom
    BY <1>1 DEF InRoom
  <1> HIDE DEF t
  <1> QED
    BY <1>1, <1>2, <1>3, <1>4, <1>5, <1>6, LoopSends

LEMMA RoomPayloadInv ==
    ASSUME ServerInv, NEW c \in Conns, RoomPayload(c), UNCHANGED clientList
    PROVE  ServerInv'
  <1> DEFINE i == th[c].i + 1
             t == [th[c] EXCEPT !.pc = "room", !.i = i]
  <1>1. /\ th[c].pc = "roomPayload"
        /\ Send(c, MemberFd(c), "payload", th[c].pkt)
        /\ th' = [th EXCEPT ![c] = t]
        /\ UNCHANGED <<fdTable, sent, roomList>>
    BY DEF RoomPayload, At, SendPayload
  <1>2. /\ th[c] \in Thread /\ th[c].pkt \in Packet /\ i \in Nat /\ i >= 1
        /\ th[c].pkt.type \notin News /\ th[c].pkt.type # "KICKED"
        /\ th[c].room \in DOMAIN roomList
    BY <1>1, InLoop DEF InRoom, RoomOrders, News
  <1>3. th[c].i \in DOMAIN Members(c).clients
    BY <1>1 DEF ServerInv, RoomInv, RoomLocals, Members
  <1>4. MemberFd(c) \in AnyFd
    BY <1>2, <1>3, MemberType DEF MemberFd, Members
  <1> HIDE DEF i
  <1>5. /\ t = [th[c] EXCEPT !.pc = "room", !.i = i, !.msg = t.msg]
        /\ t.msg \in Packet
    BY <1>2 DEF Thread
  <1>6. "room" \in InRoom \ {"detailsPayload"} /\ th[c].pc \in InRoom
        /\ "room" \notin {"roomPayload", "kickedPayload"}
        /\ "payload" \in {"header", "payload"}
    BY <1>1 DEF InRoom
  <1> HIDE DEF t
  <1> QED
    BY <1>1, <1>2, <1>4, <1>5, <1>6, LoopSends

\* ... or KICKED to the member that is, and to the descriptor in the order ...
LEMMA KickedOrder ==
    ASSUME ServerInv, NEW c \in Conns, th[c].pc \in InRoom,
           th[c].pkt.type = "KICK_GROUP_MEMBER"
    PROVE  LET p == KickedPacket(th[c].pkt)
           IN  /\ p \in Packet /\ p.type \notin News
               /\ Ordered(c, th[c].pkt.fd, p.room)
  <1>1. /\ th[c].pkt = sent[c][th[c].got] /\ th[c].got \in 1 .. th[c].got
        /\ th[c].pkt \in Packet
    BY InLoop
  <1>2. Ordered(c, th[c].pkt.fd, th[c].pkt.room)
    BY <1>1 DEF Ordered
  <1>3. th[c].pkt.room \in Rooms \cup {NoRoom}
    BY <1>1 DEF Packet
  <1>4. /\ KickedPacket(th[c].pkt) \in Packet
        /\ KickedPacket(th[c].pkt).room = th[c].pkt.room
        /\ KickedPacket(th[c].pkt).type = "KICKED"
    BY <1>3, BlankType DEF KickedPacket, Packet, Types
  <1> QED
    BY <1>2, <1>4 DEF News

LEMMA KickedHeaderInv ==
    ASSUME ServerInv, NEW c \in Conns, KickedHeader(c), UNCHANGED clientList
    PROVE  ServerInv'
  <1> DEFINE t == [th[c] EXCEPT !.pc = "kickedPayload"]
             p == KickedPacket(th[c].pkt)
  <1>1. /\ th[c].pc = "room" /\ th[c].i <= Members(c).size
        /\ th[c].pkt.type = "KICK_GROUP_MEMBER"
        /\ Send(c, th[c].pkt.fd, "header", p)
        /\ th' = [th EXCEPT ![c] = t]
        /\ UNCHANGED <<fdTable, sent, roomList>>
    BY DEF KickedHeader, At, AtKicked, SendHeader
  <1>2. /\ th[c] \in Thread /\ th[c].i \in Nat /\ th[c].i >= 1
        /\ th[c].pkt.fd \in AnyFd
    BY <1>1, InLoop DEF InRoom
  <1>3. th[c].i \in DOMAIN Members(c).clients
    BY <1>1, LoopSlot
  <1>4. p \in Packet /\ p.type \notin News /\ Ordered(c, th[c].pkt.fd, p.room)
    BY <1>1, KickedOrder DEF InRoom
  <1>5. /\ t = [th[c] EXCEPT !.pc = "kickedPayload", !.i = th[c].i,
                             !.msg = t.msg]
        /\ t.msg \in Packet
    BY <1>2 DEF Thread
  <1> HIDE DEF t, p
  <1> QED
    BY <1>1, <1>2, <1>3, <1>4, <1>5, LoopSends DEF InRoom

LEMMA KickedPayloadInv ==
    ASSUME ServerInv, NEW c \in Conns, KickedPayload(c), UNCHANGED clientList
    PROVE  ServerInv'
  <1> DEFINE i == th[c].i + 1
             t == [th[c] EXCEPT !.pc = "room", !.i = i]
             p == KickedPacket(th[c].pkt)
  <1>1. /\ th[c].pc = "kickedPayload"
        /\ Send(c, th[c].pkt.fd, "payload", p)
        /\ th' = [th EXCEPT ![c] = t]
        /\ UNCHANGED <<fdTable, sent, roomList>>
    BY DEF KickedPayload, At, SendPayload
  <1>2. /\ th[c] \in Thread /\ i \in Nat /\ i >= 1 /\ th[c].pkt.fd \in AnyFd
        /\ th[c].pkt.type = "KICK_GROUP_MEMBER"
    BY <1>1, InLoop DEF InRoom, ServerInv, RoomInv, RoomLocals
  <1>3. p \in Packet /\ p.type \notin News /\ Ordered(c, th[c].pkt.fd, p.room)
    BY <1>1, <1>2, KickedOrder DEF InRoom
  <1> HIDE DEF i
  <1>4. /\ t = [th[c] EXCEPT !.pc = "room", !.i = i, !.msg = t.msg]
        /\ t.msg \in Packet
    BY <1>2 DEF Thread
  <1>5. "room" \in InRoom \ {"detailsPayload"} /\ th[c].pc \in InRoom
        /\ "room" \notin {"roomPayload", "kickedPayload"}
        /\ "payload" \in {"header", "payload"}
    BY <1>1 DEF InRoom
  <1> HIDE DEF t, p
  <1> QED
    BY <1>1, <1>2, <1>3, <1>4, <1>5, LoopSends

\* ... or the slot is passed over.
LEMMA RoomSkipInv ==
    ASSUME ServerInv, NEW c \in Conns, RoomSkip(c), UNCHANGED clientList
    PROVE  ServerInv'
  <1> DEFINE i == th[c].i + 1
             t == [th[c] EXCEPT !.i = i]
  <1>1. /\ th[c].pc = "room"
        /\ th' = [th EXCEPT ![c] = t]
        /\ UNCHANGED <<fdTable, sent, out, peer, roomList>>
        /\ up' \in BOOLEAN
    BY KnownTypes DEF RoomSkip, At, ServerInv, NetTypeOK
  <1>2. /\ th[c] \in Thread /\ i \in Nat /\ i >= 1
    BY <1>1, InLoop DEF InRoom
  <1>3. Blank \in Packet /\ Blank.type = "NONE" /\ NoFd \in AnyFd
    BY BlankType DEF Blank, AnyFd
  <1> HIDE DEF i
  <1>4. /\ t = [th[c] EXCEPT !.pc = "room", !.i = i, !.msg = t.msg]
        /\ t.msg \in Packet
    BY <1>1, <1>2 DEF Thread
  <1> HIDE DEF t
  <1> QED
    BY <1>1, <1>2, <1>3, <1>4, LoopSends DEF InRoom

\* sendGroupDetailsToAddedMember: the packet is built and its header sent ...
LEMMA DetailsHeaderInv ==
    ASSUME ServerInv, NEW c \in Conns, DetailsHeader(c), UNCHANGED clientList
    PROVE  ServerInv'
  <1> DEFINE room == roomList[th[c].room]
             q == [Blank EXCEPT !.type = "GROUP_LIST", !.room = room.name,
                                !.fd = room.admin]
             p == [q EXCEPT !.list =
                     SubSeq(room.members.clients, 1, room.members.size)]
             t == [th[c] EXCEPT !.pc = "detailsPayload", !.msg = p]
  <1>1. th[c].pc = "details"
    BY DEF DetailsHeader, At
  <1>2. /\ Alive(c) /\ th[c] \in Thread /\ th[c].got <= Len(sent[c])
        /\ th[c].room \in DOMAIN roomList
        /\ th[c].i >= 1 /\ th[c].got >= 1
        /\ th[c].pkt = sent[c][th[c].got]
        /\ th[c].pkt.type \in RoomOrders
        /\ th[c].pkt.fd \in AnyFd /\ th[c].got \in Nat
    BY <1>1, InLoop DEF InRoom
  <1>3. /\ Send(c, th[c].pkt.fd, "header", p)
        /\ th' = [th EXCEPT ![c] = t]
        /\ UNCHANGED <<fdTable, sent, roomList>>
    BY DEF DetailsHeader, SendHeader, Members, Blank
  <1>4. p \in Packet /\ p.type = "GROUP_LIST"
    <2>1. room.name \in Rooms \cup {NoRoom} /\ room.admin \in AnyFd
      BY <1>2, RoomKnown DEF Room
    <2>2. q \in Packet /\ q.type = "GROUP_LIST"
      BY <2>1, BlankType DEF Packet, Types
    <2>3. /\ room.members.clients \in Seq(Entries) /\ room.members.size \in Nat
          /\ room.members.size <= Len(room.members.clients)
          /\ Len(room.members.clients) \in Nat
      BY <1>2, RoomKnown
    <2> DEFINE list == SubSeq(room.members.clients, 1, room.members.size)
    <2>4. list \in Seq(Entries)
      <3>1. \A i \in 1 .. room.members.size : room.members.clients[i] \in Entries
        BY <2>3, ElementOfSeq
      <3> HIDE DEF room
      <3> QED
        BY <2>3, <3>1, SubSeqProperties
    <2> HIDE DEF q, list, Entries
    <2>5. [q EXCEPT !.list = list] \in Packet
      BY <2>2, <2>4 DEF Packet
    <2>6. [q EXCEPT !.list = list].type = q.type
      BY <2>2 DEF Packet
    <2> QED
      BY <2>2, <2>5, <2>6 DEF list
  <1> HIDE DEF p
  <1>5. /\ t \in Thread /\ t.pc = "detailsPayload" /\ t.i = th[c].i
        /\ t.room = th[c].room /\ t.fd = th[c].fd /\ t.got = th[c].got
        /\ t.pkt = th[c].pkt /\ t.msg = p
    <2>1. "detailsPayload" \in Pcs
      BY DEF Pcs
    <2>2. t \in Thread
      BY <1>2, <1>4, <2>1 DEF Thread
    <2>3. /\ t.pc = "detailsPayload" /\ t.i = th[c].i
          /\ t.room = th[c].room /\ t.fd = th[c].fd /\ t.got = th[c].got
          /\ t.pkt = th[c].pkt /\ t.msg = p
      BY <1>2 DEF Thread
    <2> QED
      BY <2>2, <2>3
  <1> HIDE DEF t
  <1>6. LocalsOK(c, t)
    BY <1>2, <1>5 DEF LocalsOK
  <1>7. RoomLocals(c, t, roomList')
    BY <1>2, <1>3, <1>4, <1>5 DEF RoomLocals
  <1>8. RoomsTypeOK' /\ RoomSizes' /\ ArraysKept
    BY <1>3, SameRooms
  <1>9. t.pc \in InRoom \cup {"recv"} /\ t.got >= th[c].got
        /\ p.type \notin News /\ p.type # "KICKED"
    BY <1>2, <1>4, <1>5 DEF InRoom, News
  <1> QED
    BY <1>2, <1>3, <1>4, <1>6, <1>7, <1>8, <1>9, RoomStep

\* ... and its payload, to the descriptor of the new member.
LEMMA DetailsPayloadInv ==
    ASSUME ServerInv, NEW c \in Conns, DetailsPayload(c), UNCHANGED clientList
    PROVE  ServerInv'
  <1> DEFINE p == th[c].msg
             t == [th[c] EXCEPT !.pc = "room", !.msg = Blank]
  <1>1. /\ th[c].pc = "detailsPayload"
        /\ Send(c, th[c].pkt.fd, "payload", p)
        /\ th' = [th EXCEPT ![c] = t]
        /\ UNCHANGED <<fdTable, sent, roomList>>
    BY DEF DetailsPayload, At, SendPayload
  <1>2. /\ th[c] \in Thread /\ th[c].i \in Nat /\ th[c].i >= 1
        /\ th[c].pkt.fd \in AnyFd
    BY <1>1, InLoop DEF InRoom
  <1>3. p \in Packet /\ p.type = "GROUP_LIST"
    BY <1>1, <1>2 DEF ServerInv, RoomInv, RoomLocals, Thread
  <1>4. p.type \notin News /\ p.type # "KICKED" /\ Blank \in Packet
    BY <1>3, BlankType DEF News
  <1>5. /\ t = [th[c] EXCEPT !.pc = "room", !.i = th[c].i, !.msg = t.msg]
        /\ t.msg \in Packet
    BY <1>2, <1>4 DEF Thread
  <1>6. "room" \in InRoom \ {"detailsPayload"} /\ th[c].pc \in InRoom
        /\ "room" \notin {"roomPayload", "kickedPayload"}
        /\ "payload" \in {"header", "payload"}
    BY <1>1 DEF InRoom
  <1> HIDE DEF t, p
  <1> QED
    BY <1>1, <1>2, <1>3, <1>4, <1>5, <1>6, LoopSends

\* All the steps of a thread in these handlers.
LEMMA RoomHandlerInv ==
    ASSUME ServerInv, NEW c \in Conns, RoomHandler(c), UNCHANGED clientList
    PROVE  ServerInv'
  BY NewRoomInv, NewMemberInv, GroupChatInv, LeftMemberInv, KickMemberInv,
     DetailsHeaderInv, DetailsPayloadInv, RoomHeaderInv, RoomPayloadInv,
     RoomSkipInv, KickedHeaderInv, KickedPayloadInv, RoomDoneInv
     DEF RoomHandler

----------------------------------------------------------------------------
(* The handlers of the registry, with the rooms beside them. *)

\* The step writes no KICKED.
WritesNoKicked(c) ==
    \/ out' = out
    \/ \E f, part, p : Emits(c, f, part, p) /\ p.type # "KICKED"

\* The step replaces the locals of c by t, which is in no loop over a room, and
\* takes in one packet of the registry's kinds at most.
Beside(c, t) ==
    /\ th' = [th EXCEPT ![c] = t]
    /\ sent' = sent
    /\ t.pc \notin InRoom \cup {"new"}
    /\ \/ t.got = th[c].got
       \/ /\ t.got = th[c].got + 1
          /\ Incoming(c).type \in {"INTRO", "USER_LEFT", "CHAT"}
    /\ th[c].pc # "new" => t.fd = th[c].fd

\* What a step of the registry does that the rooms could notice.
RegistryEffect(c) ==
    /\ RoomFrame(c)
    /\ sent' = sent
    /\ th'[c].pc \notin InRoom \cup {"new"}
    /\ \/ th'[c].got = th[c].got
       \/ /\ th'[c].got = th[c].got + 1
          /\ Incoming(c).type \in {"INTRO", "USER_LEFT", "CHAT"}
    /\ th[c].pc # "new" => th'[c].fd = th[c].fd
    /\ WritesNoKicked(c)

LEMMA SendsNoKicked ==
    ASSUME NetTypeOK, NEW c \in Conns, NEW f, NEW part, NEW p,
           Send(c, f, part, p), p.type # "KICKED"
    PROVE  WritesNoKicked(c)
  BY SendEffect DEF WritesNoKicked

LEMMA RegistryLocals ==
    ASSUME ServerInv, NEW c \in Conns, NEW t, Beside(c, t), WritesNoKicked(c)
    PROVE  RegistryEffect(c)
  <1>1. th'[c] = t /\ RoomFrame(c)
    BY KnownTypes DEF ServerInv, RoomFrame, Beside
  <1> QED
    BY <1>1 DEF Beside, RegistryEffect

\* The addition, under which other threads learn that the array has moved.
LEMMA RegisterBeside ==
    ASSUME ServerInv, NEW c \in Conns, Register(c)
    PROVE  RegistryEffect(c)
  <1>1. IndInv /\ \A d \in Conns : th[d] \in Thread /\ th[d].got \in Nat
    BY KnownTypes DEF ServerInv, Thread
  <1>2. PICK moves \in {FALSE, ReallocMoves /\ Grows(clientList)} :
          th' = [d \in Conns |->
                  IF d = c
                    THEN [th[c] EXCEPT !.pc = "list", !.stale = FALSE]
                    ELSE [th[d] EXCEPT !.stale =
                            th[d].stale \/ (moves /\ HoldsCopy(d))]]
    BY DEF Register
  <1>3. ASSUME NEW d \in Conns, d # c
        PROVE  /\ th'[d].pc = th[d].pc /\ th'[d].fd = th[d].fd
               /\ th'[d].i = th[d].i /\ th'[d].n = th[d].n
               /\ th'[d].pkt = th[d].pkt /\ th'[d].got = th[d].got
               /\ th'[d].room = th[d].room /\ th'[d].msg = th[d].msg
    <2> DEFINE stale == th[d].stale \/ (moves /\ HoldsCopy(d))
    <2>1. th'[d] = [th[d] EXCEPT !.stale = stale]
      BY <1>2, <1>3
    <2> HIDE DEF stale
    <2> QED
      BY <2>1 DEF Thread
  <1>4. /\ th'[c].pc = "list" /\ th'[c].fd = th[c].fd
        /\ th'[c].got = th[c].got
    BY <1>1, RegisterFrame
  <1>5. /\ RoomFrame(c) /\ sent' = sent /\ out' = out
        /\ th'[c].pc \notin InRoom
    BY <1>3, <1>4 DEF RoomFrame, Register, InRoom
  <1> QED
    BY <1>4, <1>5 DEF RegistryEffect, WritesNoKicked

\* manageNewClient and what it calls.
LEMMA IntroBeside ==
    ASSUME ServerInv, NEW c \in Conns,
           \/ NewClient(c) \/ IntroduceHeader(c) \/ IntroducePayload(c)
           \/ ListHeader(c) \/ ListPayload(c)
    PROVE  RegistryEffect(c)
  <1>2. /\ th[c] \in Thread /\ th[c].got \in Nat /\ InHandler(c) /\ NetTypeOK
        /\ th[c].got + 0 = th[c].got
    BY KnownTypes DEF ServerInv, HandlerInv, Thread
  <1>3. CASE NewClient(c)
    <2> DEFINE s == [th[c] EXCEPT !.pc = "introduce", !.got = @ + 1,
                                  !.pkt = Joined(c), !.i = 1,
                                  !.n = clientList.size]
               t == IF Incoming(c).whole THEN s ELSE Idle(th[c], 1)
    <2>1. /\ th' = [th EXCEPT ![c] = t] /\ sent' = sent /\ out' = out
          /\ Incoming(c).type = "INTRO"
      BY <1>3 DEF NewClient, ReceiveAndReturn, Receives
    <2>2. /\ t.pc \in {"introduce", "recv"} /\ t.fd = th[c].fd
          /\ t.got = th[c].got + 1
      <3>1. s.pc = "introduce" /\ s.fd = th[c].fd /\ s.got = th[c].got + 1
        BY <1>2 DEF Thread
      <3> HIDE DEF s
      <3> QED
        BY <1>2, <3>1, IdleType
    <2> HIDE DEF t
    <2>3. Beside(c, t)
      BY <1>2, <2>1, <2>2 DEF Beside, InRoom
    <2>4. WritesNoKicked(c)
      BY <2>1, <2>2 DEF WritesNoKicked
    <2> QED
      BY <2>3, <2>4, RegistryLocals
  <1>4. CASE IntroduceHeader(c)
    <2> DEFINE t == [th[c] EXCEPT !.pc = "introducePayload"]
    <2>1. PICK f \in Slot(c, th[c].i) : Send(c, f, "header", th[c].pkt)
      BY <1>4 DEF IntroduceHeader, SendHeader
    <2>2. /\ th[c].pc = "introduce"
          /\ th' = [th EXCEPT ![c] = t] /\ sent' = sent
      BY <1>4 DEF IntroduceHeader, At
    <2>3. t.pc = "introducePayload" /\ t.fd = th[c].fd /\ t.got = th[c].got
      BY <1>2 DEF Thread
    <2>4. th[c].pkt.type # "KICKED"
      BY <1>2, <2>2 DEF InHandler
    <2> HIDE DEF t
    <2>5. Beside(c, t)
      BY <1>2, <2>1, <2>2, <2>3, <2>4 DEF Beside, InRoom
    <2>6. WritesNoKicked(c)
      BY <1>2, <2>1, <2>2, <2>3, <2>4, SendsNoKicked
    <2> QED
      BY <2>5, <2>6, RegistryLocals
  <1>5. CASE IntroducePayload(c)
    <2> DEFINE t == [th[c] EXCEPT !.pc = "introduce", !.i = @ + 1]
    <2>1. PICK f \in Slot(c, th[c].i) : Send(c, f, "payload", th[c].pkt)
      BY <1>5 DEF IntroducePayload, SendPayload
    <2>2. /\ th[c].pc = "introducePayload"
          /\ th' = [th EXCEPT ![c] = t] /\ sent' = sent
      BY <1>5 DEF IntroducePayload, At
    <2>3. t.pc = "introduce" /\ t.fd = th[c].fd /\ t.got = th[c].got
      BY <1>2 DEF Thread
    <2>4. th[c].pkt.type # "KICKED"
      BY <1>2, <2>2 DEF InHandler
    <2> HIDE DEF t
    <2>5. Beside(c, t)
      BY <1>2, <2>1, <2>2, <2>3, <2>4 DEF Beside, InRoom
    <2>6. WritesNoKicked(c)
      BY <1>2, <2>1, <2>2, <2>3, <2>4, SendsNoKicked
    <2> QED
      BY <2>5, <2>6, RegistryLocals
  <1>6. CASE ListHeader(c)
    <2> DEFINE p == [Blank EXCEPT !.type = "CLIENT_LIST",
                       !.list = SubSeq(clientList.clients, 1, clientList.size)]
               t == [th[c] EXCEPT !.pc = "listPayload", !.pkt = p,
                                  !.n = clientList.size]
    <2>1. /\ th[c].pc = "list" /\ Send(c, th[c].fd, "header", p)
          /\ th' = [th EXCEPT ![c] = t] /\ sent' = sent
      BY <1>6 DEF ListHeader, At, SendHeader
    <2>2. p.type # "KICKED"
      BY DEF Blank
    <2> HIDE DEF p
    <2>3. t.pc = "listPayload" /\ t.fd = th[c].fd /\ t.got = th[c].got
      BY <1>2 DEF Thread
    <2> HIDE DEF t
    <2>4. Beside(c, t)
      BY <1>2, <2>1, <2>2, <2>3 DEF Beside, InRoom
    <2>5. WritesNoKicked(c)
      BY <1>2, <2>1, <2>2, <2>3, SendsNoKicked
    <2> QED
      BY <2>4, <2>5, RegistryLocals
  <1>7. CASE ListPayload(c)
    <2>1. PICK entries \in IF th[c].stale
                             THEN [1 .. th[c].n -> Client({}, AnyFd)]
                             ELSE {SubSeq(clientList.clients, 1, th[c].n)} :
            Send(c, th[c].fd, "payload", [th[c].pkt EXCEPT !.list = entries])
      BY <1>7 DEF ListPayload, SendPayload
    <2> DEFINE p == [th[c].pkt EXCEPT !.list = entries]
               t == Idle(th[c], 0)
    <2>2. /\ th[c].pc = "listPayload" /\ Send(c, th[c].fd, "payload", p)
          /\ th' = [th EXCEPT ![c] = t] /\ sent' = sent
      BY <1>7, <2>1 DEF ListPayload, At, Return
    <2>3. p.type # "KICKED"
      <3>1. th[c].pkt.type = "CLIENT_LIST" /\ th[c].pkt \in Packet
        BY <1>2, <2>2 DEF InHandler, Thread
      <3> QED
        BY <3>1 DEF Packet
    <2>4. t.pc = "recv" /\ t.fd = th[c].fd /\ t.got = th[c].got + 0
      BY <1>2, IdleType
    <2> HIDE DEF p, t
    <2>5. Beside(c, t)
      BY <1>2, <2>2, <2>4 DEF Beside, InRoom
    <2>6. WritesNoKicked(c)
      BY <1>2, <2>2, <2>3, SendsNoKicked
    <2> QED
      BY <2>5, <2>6, RegistryLocals
  <1> QED
    BY <1>3, <1>4, <1>5, <1>6, <1>7

\* manageLeftClient and managePeerChat.
LEMMA LeftBeside ==
    ASSUME ServerInv, NEW c \in Conns,
           \/ LeftClient(c) \/ LeftHeader(c) \/ LeftPayload(c) \/ LeftDone(c)
           \/ PeerChat(c) \/ PeerChatPayload(c)
    PROVE  RegistryEffect(c)
  <1>2. /\ th[c] \in Thread /\ th[c].got \in Nat /\ InHandler(c) /\ NetTypeOK
        /\ th[c].got + 0 = th[c].got
    BY KnownTypes DEF ServerInv, HandlerInv, Thread
  <1>3. CASE LeftClient(c)
    <2> DEFINE t == [th[c] EXCEPT !.pc = "left", !.got = @ + 1, !.i = 1,
                                  !.pkt = Left(c)]
    <2>1. /\ th' = [th EXCEPT ![c] = t] /\ sent' = sent /\ out' = out
          /\ Incoming(c).type = "USER_LEFT"
      BY <1>3 DEF LeftClient, Receives
    <2>2. t.pc = "left" /\ t.fd = th[c].fd /\ t.got = th[c].got + 1
      BY <1>2 DEF Thread
    <2> HIDE DEF t
    <2>3. Beside(c, t)
      BY <1>2, <2>1, <2>2 DEF Beside, InRoom
    <2>4. WritesNoKicked(c)
      BY <2>1, <2>2 DEF WritesNoKicked
    <2> QED
      BY <2>3, <2>4, RegistryLocals
  <1>4. CASE LeftHeader(c)
    <2> DEFINE t == [th[c] EXCEPT !.pc = "leftPayload"]
    <2>1. /\ th[c].pc = "left"
          /\ Send(c, clientList.clients[th[c].i].FD, "header", th[c].pkt)
          /\ th' = [th EXCEPT ![c] = t] /\ sent' = sent
      BY <1>4 DEF LeftHeader, At, SendHeader
    <2>2. t.pc = "leftPayload" /\ t.fd = th[c].fd /\ t.got = th[c].got
      BY <1>2 DEF Thread
    <2>3. th[c].pkt.type # "KICKED"
      BY <1>2, <2>1 DEF InHandler, Left, Blank
    <2> HIDE DEF t
    <2>4. Beside(c, t)
      BY <1>2, <2>1, <2>2, <2>3 DEF Beside, InRoom
    <2>5. WritesNoKicked(c)
      BY <1>2, <2>1, <2>2, <2>3, SendsNoKicked
    <2> QED
      BY <2>4, <2>5, RegistryLocals
  <1>5. CASE LeftPayload(c)
    <2> DEFINE t == [th[c] EXCEPT !.pc = "left", !.i = @ + 1]
    <2>1. /\ th[c].pc = "leftPayload"
          /\ Send(c, clientList.clients[th[c].i].FD, "payload", th[c].pkt)
          /\ th' = [th EXCEPT ![c] = t] /\ sent' = sent
      BY <1>5 DEF LeftPayload, At, SendPayload
    <2>2. t.pc = "left" /\ t.fd = th[c].fd /\ t.got = th[c].got
      BY <1>2 DEF Thread
    <2>3. th[c].pkt.type # "KICKED"
      BY <1>2, <2>1 DEF InHandler, Left, Blank
    <2> HIDE DEF t
    <2>4. Beside(c, t)
      BY <1>2, <2>1, <2>2, <2>3 DEF Beside, InRoom
    <2>5. WritesNoKicked(c)
      BY <1>2, <2>1, <2>2, <2>3, SendsNoKicked
    <2> QED
      BY <2>4, <2>5, RegistryLocals
  <1>6. CASE LeftDone(c)
    <2>1. /\ th' = [th EXCEPT ![c] = Idle(th[c], 0)] /\ sent' = sent
          /\ out' = out
      BY <1>6 DEF LeftDone, Return
    <2>2. /\ Idle(th[c], 0).pc = "recv" /\ Idle(th[c], 0).fd = th[c].fd
          /\ Idle(th[c], 0).got = th[c].got + 0
      BY <1>2, IdleType
    <2>3. Beside(c, Idle(th[c], 0))
      BY <1>2, <2>1, <2>2 DEF Beside, InRoom
    <2>4. WritesNoKicked(c)
      BY <2>1, <2>2 DEF WritesNoKicked
    <2> QED
      BY <2>3, <2>4, RegistryLocals
  <1>7. CASE PeerChat(c)
    <2> DEFINE p == Incoming(c)
               t == [th[c] EXCEPT !.pc = "chatPayload", !.got = @ + 1,
                                  !.pkt = p]
    <2>1. /\ Send(c, p.fd, "header", p) /\ p.type # "KICKED"
          /\ th' = [th EXCEPT ![c] = t] /\ sent' = sent
          /\ Incoming(c).type = "CHAT"
      BY <1>7 DEF PeerChat, SendHeader, Receives
    <2> HIDE DEF p
    <2>2. t.pc = "chatPayload" /\ t.fd = th[c].fd /\ t.got = th[c].got + 1
      BY <1>2 DEF Thread
    <2> HIDE DEF t
    <2>3. Beside(c, t)
      BY <1>2, <2>1, <2>2 DEF Beside, InRoom
    <2>4. WritesNoKicked(c)
      BY <1>2, <2>1, <2>2, SendsNoKicked
    <2> QED
      BY <2>3, <2>4, RegistryLocals
  <1>8. CASE PeerChatPayload(c)
    <2>1. /\ th[c].pc = "chatPayload"
          /\ Send(c, th[c].pkt.fd, "payload", th[c].pkt)
          /\ th' = [th EXCEPT ![c] = Idle(th[c], 0)] /\ sent' = sent
      BY <1>8 DEF PeerChatPayload, At, SendPayload, Return
    <2>2. /\ Idle(th[c], 0).pc = "recv" /\ Idle(th[c], 0).fd = th[c].fd
          /\ Idle(th[c], 0).got = th[c].got + 0
      BY <1>2, IdleType
    <2>3. th[c].pkt.type # "KICKED"
      BY <1>2, <2>1 DEF InHandler
    <2>4. Beside(c, Idle(th[c], 0))
      BY <1>2, <2>1, <2>2, <2>3 DEF Beside, InRoom
    <2>5. WritesNoKicked(c)
      BY <1>2, <2>1, <2>2, <2>3, SendsNoKicked
    <2> QED
      BY <2>4, <2>5, RegistryLocals
  <1> QED
    BY <1>3, <1>4, <1>5, <1>6, <1>7, <1>8

\* accept(), the end of the stream and the two crashes of the process.
LEMMA OtherBeside ==
    ASSUME ServerInv, NEW c \in Conns,
           \/ Accept(c) /\ UNCHANGED clientList
           \/ Close(c) /\ UNCHANGED clientList
           \/ ReadsNull(c) /\ UNCHANGED clientList
           \/ FollowsFreedPointer(c)
    PROVE  RegistryEffect(c)
  <1>2. /\ th[c] \in Thread /\ th[c].got \in Nat
        /\ th[c].got + 0 = th[c].got
    BY KnownTypes DEF ServerInv, Thread
  <1>3. CASE Accept(c)
    <2>1. PICK f \in Fds :
            th' = [th EXCEPT ![c] = [th[c] EXCEPT !.pc = "recv", !.fd = f]]
      BY <1>3 DEF Accept
    <2> DEFINE t == [th[c] EXCEPT !.pc = "recv", !.fd = f]
    <2>2. /\ th[c].pc = "new" /\ sent' = sent /\ out' = out
          /\ th' = [th EXCEPT ![c] = t]
      BY <1>3, <2>1 DEF Accept
    <2>3. t.pc = "recv" /\ t.got = th[c].got
      BY <1>2 DEF Thread
    <2> HIDE DEF t
    <2>4. Beside(c, t)
      BY <1>2, <2>2, <2>3 DEF Beside, InRoom
    <2>5. WritesNoKicked(c)
      BY <2>2, <2>3 DEF WritesNoKicked
    <2> QED
      BY <2>4, <2>5, RegistryLocals
  <1>4. CASE Close(c)
    <2> DEFINE t == [Idle(th[c], 0) EXCEPT !.pc = "closed"]
    <2>1. /\ th' = [th EXCEPT ![c] = t] /\ sent' = sent /\ out' = out
      BY <1>4 DEF Close
    <2>2. t.pc = "closed" /\ t.fd = th[c].fd /\ t.got = th[c].got + 0
      <3>1. /\ Idle(th[c], 0) \in Thread /\ Idle(th[c], 0).fd = th[c].fd
            /\ Idle(th[c], 0).got = th[c].got + 0
        BY <1>2, IdleType
      <3> QED
        BY <3>1 DEF Thread
    <2> HIDE DEF t
    <2>3. Beside(c, t)
      BY <1>2, <2>1, <2>2 DEF Beside, InRoom
    <2>4. WritesNoKicked(c)
      BY <2>1, <2>2 DEF WritesNoKicked
    <2> QED
      BY <2>3, <2>4, RegistryLocals
  <1>5. CASE ReadsNull(c) \/ FollowsFreedPointer(c)
    <2>1. /\ th' = th /\ sent' = sent /\ out' = out
          /\ th[c].pc \in {"recv", "listPayload"}
      BY <1>5 DEF ReadsNull, FollowsFreedPointer, At
    <2>2. th' = [th EXCEPT ![c] = th[c]]
      BY <2>1, KnownTypes DEF ServerInv
    <2>3. Beside(c, th[c])
      BY <1>2, <2>1, <2>2 DEF Beside, InRoom
    <2>4. WritesNoKicked(c)
      BY <2>1, <2>2 DEF WritesNoKicked
    <2> QED
      BY <2>3, <2>4, RegistryLocals
  <1> QED
    BY <1>3, <1>4, <1>5

\* All the steps of a thread outside the loops over rooms.
LEMMA RegistryEffects ==
    ASSUME ServerInv, NEW c \in Conns, ServerStep(c)
    PROVE  RegistryEffect(c) /\ th[c].pc \notin InRoom
  <1>1. RegistryEffect(c)
    BY RegisterBeside, IntroBeside, LeftBeside, OtherBeside
       DEF ServerStep, RegistryHandler
  <1>2. th[c].pc \notin InRoom
    BY DEF ServerStep, RegistryHandler, Accept, Close, ReadsNull, NewClient,
       IntroduceHeader, IntroducePayload, Register, ListHeader, ListPayload,
       FollowsFreedPointer, LeftClient, LeftHeader, LeftPayload, LeftDone,
       PeerChat, PeerChatPayload, At, Receives, InRoom
  <1> QED
    BY <1>1, <1>2

LEMMA RegistryStepInv ==
    ASSUME ServerInv, NEW c \in Conns, ServerStep(c), roomList' = roomList
    PROVE  ServerInv'
  <1>1. IndInv /\ HandlerInv /\ th[c].got \in Nat
    BY KnownTypes DEF ServerInv, Thread
  <1>2. IndInv' /\ HandlerInv'
    BY <1>1, NextInv, NextHandler DEF Next
  <1>3. RegistryEffect(c)
    BY RegistryEffects
  <1>4. PICK f, part, p : Emits(c, f, part, p) /\ p.type # "KICKED"
    <2>1. Blank.type # "KICKED"
      BY DEF Blank
    <2>2. out' = out => Emits(c, NoFd, "header", Blank)
      BY DEF Emits
    <2> QED
      BY <1>3, <2>1, <2>2 DEF RegistryEffect, WritesNoKicked
  <1>5. /\ RoomLocals(c, th[c], roomList)' /\ RoomFrame(c) /\ sent' = sent
        /\ th'[c].got >= th[c].got /\ th'[c].pc # "new"
        /\ th[c].pc # "new" => th'[c].fd = th[c].fd
    BY <1>1, <1>3 DEF RegistryEffect, RoomLocals, InRoom
  <1>6. RoomsTypeOK' /\ RoomSizes' /\ ArraysKept
    BY SameRooms
  <1> QED
    BY <1>2, <1>4, <1>5, <1>6, ThreadStep

----------------------------------------------------------------------------
(* The users. *)

\* The rooms a client can write about are names of rooms.
LEMMA HeldType ==
    ASSUME NetTypeOK, NEW c \in Conns
    PROVE  Held(c) \subseteq Rooms \cup {NoRoom}
  <1>1. ASSUME NEW k \in DOMAIN sent[c]
        PROVE  sent[c][k].room \in Rooms \cup {NoRoom}
    <2>1. sent[c] \in Seq(Packet)
      BY DEF NetTypeOK
    <2>2. sent[c][k] \in Packet
      BY <2>1, LenProperties, ElementOfSeq
    <2> QED
      BY <2>2 DEF Packet
  <1>2. ASSUME NEW k \in DOMAIN out[c]
        PROVE  out[c][k].pkt.room \in Rooms \cup {NoRoom}
    <2>1. out[c][k].pkt \in Packet
      BY ChunkType DEF Chunk
    <2> QED
      BY <2>1 DEF Packet
  <1> QED
    BY <1>1, <1>2 DEF Held, Created, Wrote

\* Whatever a user does, the rooms and the threads are left alone and its
\* stream only grows.
LEMMA UserBeside ==
    ASSUME ServerInv, NEW c \in Conns, IndInv', HandlerInv',
           UNCHANGED <<th, out, roomList>>,
           \/ sent' = sent
           \/ \E p \in Packet : sent' = [sent EXCEPT ![c] = Append(@, p)]
    PROVE  ServerInv'
  <1>1. /\ sent \in [Conns -> Seq(Packet)] /\ NetTypeOK
        /\ \A d \in Conns : th[d].got \in Nat /\ th[d].got <= Len(sent[d])
    BY KnownTypes DEF ServerInv, NewsInv, NetTypeOK, Thread
  <1>2. ASSUME NEW d \in Conns, NEW k \in 1 .. th[d].got
        PROVE  sent'[d][k] = sent[d][k]
    <2>1. sent[d] \in Seq(Packet) /\ k \in 1 .. Len(sent[d])
      BY <1>1, <1>2, LenProperties
    <2>2. CASE sent' = sent
      BY <2>2
    <2>3. ASSUME NEW p \in Packet, sent' = [sent EXCEPT ![c] = Append(@, p)]
          PROVE  sent'[d][k] = sent[d][k]
      <3>1. sent'[d] = IF d = c THEN Append(sent[d], p) ELSE sent[d]
        BY <1>1, <2>3
      <3> QED
        BY <2>1, <3>1, AppendProperties
    <2> QED
      BY <2>2, <2>3
  <1>3. RoomInv'
    <2>1. ASSUME NEW d \in Conns
          PROVE  RoomLocals(d, th[d], roomList)'
      <3>1. th[d].got >= 1 => sent'[d][th[d].got] = sent[d][th[d].got]
        BY <1>1, <1>2
      <3>2. RoomLocals(d, th[d], roomList)
        BY DEF ServerInv, RoomInv
      <3> QED
        BY <3>1, <3>2 DEF RoomLocals, InRoom
    <2> QED
      BY <2>1, SameRooms DEF RoomInv
  <1>4. StreamInv'
    BY DEF ServerInv, StreamInv
  <1>5. KickedWasOrdered'
    <2>1. \A x \in Conns : \A j \in DOMAIN out[x] : out[x][j].by \in Conns
      BY <1>1, ChunkType
    <2> QED
      BY <1>2, <2>1 DEF ServerInv, KickedWasOrdered
  <1> QED
    BY <1>3, <1>4, <1>5 DEF ServerInv

\* What users write about rooms keeps HandlerInv: it is neither the first nor
\* the last packet of a stream, unless its writer dies in it.
LEMMA WritesInv ==
    ASSUME ServerInv, NEW c \in Conns, NEW type \in Types \ {"INTRO", "USER_LEFT"},
           NEW room \in Rooms \cup {NoRoom}, NEW f \in AnyFd, NEW name \in Names,
           Writes(c, type, room, f, name), UNCHANGED clientList
    PROVE  ServerInv'
  <1> DEFINE p == [Blank EXCEPT !.type = type, !.room = room, !.fd = f,
                                !.name = name]
             torn == [p EXCEPT !.whole = FALSE]
  <1>1. p \in Packet /\ p.type = type /\ p.whole
    BY BlankType DEF Packet, Blank
  <1>2. /\ Write(c, p) /\ peer[c] = "open" /\ sent[c] # <<>>
        /\ UNCHANGED <<fdTable, th, out, up, roomList>>
    BY DEF Writes, CanWrite
  <1> HIDE DEF p
  <1>3. torn \in Packet /\ torn.type = type
    BY <1>1 DEF Packet
  <1>4. \/ sent' = [sent EXCEPT ![c] = Append(@, p)] /\ peer' = peer
        \/ /\ sent' = [sent EXCEPT ![c] = Append(@, torn)]
           /\ peer' = [peer EXCEPT ![c] = "shut"]
    BY <1>2 DEF Write
  <1> HIDE DEF torn
  <1>5. IndInv /\ HandlerInv
    BY DEF ServerInv
  <1>6. IndInv'
    BY <1>1, <1>2, <1>5, WriteInv
  <1>7. HandlerInv'
    BY <1>1, <1>2, <1>3, <1>4, <1>5, UserHandler
  <1> QED
    BY <1>1, <1>2, <1>3, <1>4, <1>6, <1>7, UserBeside

\* The steps of a user.
LEMMA UserServerInv ==
    ASSUME ServerInv, NEW c \in Conns, User(c)
    PROVE  ServerInv'
  <1>1. IndInv /\ HandlerInv /\ NetTypeOK /\ Blank \in Packet /\ c \in Names
    BY KnownTypes, BlankType DEF ServerInv, Names
  <1>2. CASE UserStep(c) /\ UNCHANGED roomList
    <2>1. IndInv' /\ HandlerInv'
      BY <1>1, <1>2, NextInv, NextHandler DEF Next
    <2>2. UNCHANGED <<th, out>>
      BY <1>2 DEF UserStep, SendIntro, Quit, Crash, SendChat
    <2>3. \/ sent' = sent
          \/ \E p \in Packet : sent' = [sent EXCEPT ![c] = Append(@, p)]
      <3>1. ASSUME NEW p \in Packet, Write(c, p)
            PROVE  \E q \in Packet : sent' = [sent EXCEPT ![c] = Append(@, q)]
        <4>1. [p EXCEPT !.whole = FALSE] \in Packet
          BY DEF Packet
        <4> QED
          BY <3>1, <4>1 DEF Write
      <3>2. CASE SendIntro(c)
        <4>1. [Blank EXCEPT !.type = "INTRO", !.name = c] \in Packet
          BY <1>1 DEF Packet, Types
        <4> QED
          BY <3>1, <3>2, <4>1 DEF SendIntro
      <3>3. CASE Quit(c)
        <4>1. [Blank EXCEPT !.type = "USER_LEFT"] \in Packet
          BY <1>1 DEF Packet, Types
        <4> QED
          BY <3>3, <4>1 DEF Quit
      <3>4. CASE Crash(c)
        BY <3>4 DEF Crash
      <3>5. CASE SendChat(c)
        <4>1. PICK f \in KnownFds(c) :
                Write(c, [Blank EXCEPT !.type = "CHAT", !.fd = f, !.name = c])
          BY <3>5 DEF SendChat
        <4>2. f \in AnyFd
          BY <1>1, KnownFdsType
        <4>3. [Blank EXCEPT !.type = "CHAT", !.fd = f, !.name = c] \in Packet
          BY <1>1, <4>2 DEF Packet, Types
        <4> QED
          BY <3>1, <4>1, <4>3
      <3> QED
        BY <1>2, <3>2, <3>3, <3>4, <3>5 DEF UserStep
    <2> QED
      BY <1>2, <2>1, <2>2, <2>3, UserBeside
  <1>3. /\ NoFd \in AnyFd /\ Fds \subseteq AnyFd /\ th[c].fd \in AnyFd
        /\ \A f \in Fds : fdTable[f] \in Names
        /\ Held(c) \subseteq Rooms \cup {NoRoom}
        /\ Created(c) \subseteq Held(c)
        /\ Rooms \subseteq Rooms \cup {NoRoom}
        /\ {"CREATE_ROOM", "JOIN_ROOM", "GROUP_CHAT", "KICK_GROUP_MEMBER",
             "LEAVE_ROOM"} \subseteq Types \ {"INTRO", "USER_LEFT"}
    <2>1. th[c].fd \in AnyFd
      BY <1>1, KnownTypes DEF Thread
    <2> QED
      BY <1>1, <2>1, HeldType DEF AnyFd, NetTypeOK, Names, Held, Types
  <1>4. CASE SendCreateRoom(c) /\ UNCHANGED clientList
    <2>1. PICK room \in Rooms : Writes(c, "CREATE_ROOM", room, NoFd, c)
      BY <1>4 DEF SendCreateRoom
    <2> QED
      BY <1>1, <1>3, <1>4, <2>1, WritesInv
  <1>5. CASE SendJoinRoom(c) /\ UNCHANGED clientList
    <2>1. PICK room \in Held(c), f \in KnownFds(c) \cap Fds :
            Writes(c, "JOIN_ROOM", room, f, fdTable[f])
      BY <1>5 DEF SendJoinRoom
    <2> QED
      BY <1>3, <1>5, <2>1, WritesInv
  <1>6. CASE SendGroupChat(c) /\ UNCHANGED clientList
    <2>1. PICK room \in Held(c) : Writes(c, "GROUP_CHAT", room, NoFd, c)
      BY <1>6 DEF SendGroupChat
    <2> QED
      BY <1>1, <1>3, <1>6, <2>1, WritesInv
  <1>7. CASE SendKick(c) /\ UNCHANGED clientList
    <2>1. PICK room \in Created(c), f \in Fds :
            Writes(c, "KICK_GROUP_MEMBER", room, f, fdTable[f])
      BY <1>7 DEF SendKick
    <2> QED
      BY <1>3, <1>7, <2>1, WritesInv
  <1>8. CASE SendLeaveRoom(c) /\ UNCHANGED clientList
    <2>1. PICK room \in Held(c), f \in {th[c].fd, NoFd} :
            Writes(c, "LEAVE_ROOM", room, f, c)
      BY <1>8 DEF SendLeaveRoom
    <2> QED
      BY <1>1, <1>3, <1>8, <2>1, WritesInv
  <1> QED
    BY <1>2, <1>4, <1>5, <1>6, <1>7, <1>8 DEF User, UserStep

----------------------------------------------------------------------------
(* The invariant. *)

LEMMA ServerInitInv == ServerInit => ServerInv
  <1> SUFFICES ASSUME ServerInit PROVE ServerInv
    OBVIOUS
  <1>1. Init /\ roomList = <<>>
    BY DEF ServerInit, Init, RoomsInit
  <1>2. IndInv /\ HandlerInv
    BY <1>1, InitInv, InitHandler
  <1>3. \A c \in Conns : th[c].pc = "new" /\ out[c] = <<>>
    BY <1>1 DEF Init, NetInit, NewThread
  <1>4. RoomsTypeOK
    BY <1>1, EmptySeq DEF RoomsTypeOK
  <1> QED
    BY <1>1, <1>2, <1>3, <1>4
       DEF ServerInv, RoomInv, RoomSizes, RoomLocals, InRoom, StreamInv,
           KickedWasOrdered

LEMMA ServerNextInv == ServerInv /\ [ServerNext]_serverVars => ServerInv'
  <1> SUFFICES ASSUME ServerInv, [ServerNext]_serverVars PROVE ServerInv'
    OBVIOUS
  <1>1. CASE UNCHANGED serverVars
    <2>1. UNCHANGED registryVars /\ UNCHANGED <<th, sent, out, roomList>>
      BY <1>1 DEF serverVars, registryVars, netVars
    <2>2. IndInv' /\ HandlerInv'
      BY <2>1, NextInv, NextHandler DEF ServerInv
    <2>3. RoomInv' /\ StreamInv' /\ KickedWasOrdered'
      BY <2>1 DEF ServerInv, RoomInv, RoomsTypeOK, RoomSizes, RoomLocals,
                  StreamInv, KickedWasOrdered
    <2> QED
      BY <2>2, <2>3 DEF ServerInv
  <1>2. CASE Stops /\ UNCHANGED roomList
    BY <1>1, <1>2 DEF Stops, registryVars, serverVars
  <1>3. ASSUME NEW c \in Conns, ServerThread(c)
        PROVE  ServerInv'
    BY <1>3, RoomHandlerInv, RegistryStepInv DEF ServerThread, Handler, ServerStep
  <1>4. ASSUME NEW c \in Conns, User(c)
        PROVE  ServerInv'
    BY <1>4, UserServerInv
  <1> QED
    BY <1>1, <1>2, <1>3, <1>4 DEF ServerNext

\* ServerInv holds in every reachable state of the whole server.
THEOREM ServerInvariance == ServerSpec => []ServerInv
  BY ServerInitInv, ServerNextInv, PTL DEF ServerSpec

\* The variables keep their types: every list of members that goes out in a
\* GROUP_LIST is made of entries, and the threads of the registry do not
\* notice the rooms beside them.
THEOREM ServerTypeCorrect == ServerSpec => []ServerTypeOK
  <1>1. ServerInv => ServerTypeOK
    BY DEF ServerInv, IndInv, TypeOK, RoomInv, ServerTypeOK
  <1> QED
    BY <1>1, ServerInvariance, PTL

\* No loop over the members of a room leaves the room's array between its
\* two sends, whoever is added, leaves or is kicked meanwhile.
THEOREM NoReadPastMembers == ServerSpec => []NoWildRoomRead
  <1>1. ServerInv => NoWildRoomRead
    BY DEF ServerInv, RoomInv, RoomLocals, NoWildRoomRead, Members
  <1> QED
    BY <1>1, ServerInvariance, PTL

\* Nobody is told that it was kicked whom no KICK_GROUP_MEMBER names, though
\* descriptors are reused and manageKickedMember sends by descriptor.
THEOREM KicksOrdered == ServerSpec => []KickedWasOrdered
  <1>1. ServerInv => KickedWasOrdered
    BY DEF ServerInv
  <1> QED
    BY <1>1, ServerInvariance, PTL

\* With rooms too, news of the next user of a descriptor comes after all news
\* of the last one.
THEOREM ServerNewsOrdered == ServerSpec => []NewsInOrder
  <1>1. ServerInv => NewsInOrder
    BY DEF ServerInv, IndInv
  <1> QED
    BY <1>1, ServerInvariance, PTL

----------------------------------------------------------------------------
(* The accounts of the members: MembersAccountedFor. *)

\* All the packets that the threads have received.
Handled == UNION {{c} \X (1 .. th[c].got) : c \in Conns}

Is(p, type, room, fd) ==
    p.whole /\ p.type = type /\ p.room = room /\ p.fd = fd

\* The packet whose loop over a room is under way.
InHand(c, k) == th[c].pc \in InRoom /\ k = th[c].got

\* The kicks after which the target has been taken off, if it was in.
Settled(room, fd) ==
    {e \in Received("KICK_GROUP_MEMBER", room, fd) : ~InHand(e[1], e[2])}

\* MembersAccountedFor for one room and one descriptor; a kick counts once its
\* handler has returned.
Balanced(g, f) ==
    LET r    == roomList[g].name
        put  == Cardinality(Received("JOIN_ROOM", r, f))
                  + (IF roomList[g].admin = f THEN 1 ELSE 0)
        gone == Cardinality(Received("LEAVE_ROOM", r, f))
                  + Cardinality(Settled(r, f))
        size == Cardinality(SlotsOf(roomList[g].members, f))
    IN  size <= put /\ put <= size + gone

JoinsFindRooms ==
    \A c \in Conns : \A k \in 1 .. th[c].got :
      (sent[c][k].whole /\ sent[c][k].type = "JOIN_ROOM") =>
        \E g \in DOMAIN roomList : roomList[g].name = sent[c][k].room

\* A kick is under way in the first room of the name in its packet.
KickInRoom(t, rooms) ==
    (t.pc \in InRoom /\ t.pkt.type = "KICK_GROUP_MEMBER") =>
      t.room = 1 /\ rooms[1].name = t.pkt.room /\ t.pkt.whole

AccountInv ==
    /\ IsFiniteSet(Handled)
    /\ JoinsFindRooms
    /\ \A c \in Conns : KickInRoom(th[c], roomList)
    /\ \A g \in DOMAIN roomList : First(g) => \A f \in Fds : Balanced(g, f)

\* The rooms that there were keep their names and admins, and new ones come
\* behind them.
RoomsStay ==
    /\ \A g \in DOMAIN roomList :
         /\ g \in DOMAIN roomList'
         /\ roomList'[g].name = roomList[g].name
         /\ roomList'[g].admin = roomList[g].admin
    /\ \A h \in DOMAIN roomList' \ DOMAIN roomList :
         \A g \in DOMAIN roomList : g <= h

LEMMA InReceived ==
    ASSUME NEW type, NEW room, NEW fd, NEW e
    PROVE  /\ e \in Received(type, room, fd) <=>
                \E c \in Conns : \E k \in 1 .. th[c].got :
                  e = <<c, k>> /\ Is(sent[c][k], type, room, fd)
           /\ e \in Received(type, room, fd)' <=>
                \E c \in Conns : \E k \in 1 .. th'[c].got :
                  e = <<c, k>> /\ Is(sent'[c][k], type, room, fd)
  BY DEF Received, Is

LEMMA InHandled ==
    ASSUME NEW e
    PROVE  /\ e \in Handled <=>
                \E c \in Conns : \E k \in 1 .. th[c].got : e = <<c, k>>
           /\ e \in Handled' <=>
                \E c \in Conns : \E k \in 1 .. th'[c].got : e = <<c, k>>
  BY DEF Handled

\* What is counted is finite.
LEMMA Countable ==
    ASSUME IsFiniteSet(Handled), NEW type, NEW room, NEW fd
    PROVE  /\ IsFiniteSet(Received(type, room, fd))
           /\ IsFiniteSet(Settled(room, fd))
           /\ Cardinality(Received(type, room, fd)) \in Nat
           /\ Cardinality(Settled(room, fd)) \in Nat
           /\ Cardinality(Settled(room, fd))
                <= Cardinality(Received("KICK_GROUP_MEMBER", room, fd))
  <1>1. ASSUME NEW t
        PROVE  IsFiniteSet(Received(t, room, fd))
    <2>1. Received(t, room, fd) \subseteq Handled
      BY InReceived, InHandled
    <2> QED
      BY <2>1, FS_Subset
  <1>2. Settled(room, fd) \subseteq Received("KICK_GROUP_MEMBER", room, fd)
    BY DEF Settled
  <1> QED
    BY <1>1, <1>2, FS_Subset, FS_CardinalityType

LEMMA MemberCount ==
    ASSUME ServerInv, NEW g \in DOMAIN roomList, NEW f
    PROVE  Cardinality(SlotsOf(roomList[g].members, f)) \in Nat
  <1>1. roomList[g].members.size \in Nat
    BY RoomKnown
  <1> QED
    BY <1>1, SlotsFinite, FS_CardinalityType

\* MembersAccountedFor, from the balance of each room.
LEMMA BalanceAccounts == ServerInv /\ AccountInv => MembersAccountedFor
  <1> SUFFICES ASSUME ServerInv, AccountInv,
                      NEW g \in DOMAIN roomList, First(g), NEW f \in Fds
               PROVE  LET r    == roomList[g].name
                          put  == Cardinality(Received("JOIN_ROOM", r, f))
                                    + (IF roomList[g].admin = f THEN 1 ELSE 0)
                          gone == Cardinality(Received("LEAVE_ROOM", r, f))
                                    + Cardinality(Received("KICK_GROUP_MEMBER", r, f))
                          size == Cardinality(SlotsOf(roomList[g].members, f))
                      IN  size <= put /\ put <= size + gone
    BY DEF MembersAccountedFor
  <1> DEFINE r == roomList[g].name
             size == Cardinality(SlotsOf(roomList[g].members, f))
             joins == Cardinality(Received("JOIN_ROOM", r, f))
             leaves == Cardinality(Received("LEAVE_ROOM", r, f))
             kicks == Cardinality(Received("KICK_GROUP_MEMBER", r, f))
             settled == Cardinality(Settled(r, f))
             own == IF roomList[g].admin = f THEN 1 ELSE 0
  <1>1. size <= joins + own /\ joins + own <= size + (leaves + settled)
    BY DEF AccountInv, Balanced
  <1>2. /\ joins \in Nat /\ leaves \in Nat /\ kicks \in Nat /\ settled \in Nat
        /\ settled <= kicks /\ own \in Nat
    BY Countable DEF AccountInv
  <1>3. size \in Nat
    BY MemberCount
  <1>4. size <= joins + own /\ joins + own <= size + (leaves + kicks)
    <2> HIDE DEF size, joins, leaves, kicks, settled, own
    <2> QED
      BY <1>1, <1>2, <1>3
  <1> QED
    BY <1>4

----------------------------------------------------------------------------
(* What the steps have in common, for the accounts. *)

\* A room that was first of its name still is.
LEMMA FirstStays ==
    ASSUME RoomsStay, NEW g \in DOMAIN roomList
    PROVE  First(g)' <=> First(g)
  BY DEF RoomsStay, First, IsFirst, Named

\* The balance of a room after a step: a is who is put in, m who is taken off,
\* b and k what is received to take off.
LEMMA Rebalanced ==
    ASSUME ServerInv, AccountInv, IsFiniteSet(Handled)', RoomsStay,
           NEW g \in DOMAIN roomList, First(g), NEW f \in Fds,
           NEW r, r = roomList[g].name,
           NEW a \in {0, 1}, NEW m \in {0, 1}, NEW b \in {0, 1}, NEW k \in {0, 1},
           m <= b + k,
           Cardinality(Received("JOIN_ROOM", r, f)')
             = Cardinality(Received("JOIN_ROOM", r, f)) + a,
           Cardinality(Received("LEAVE_ROOM", r, f)')
             = Cardinality(Received("LEAVE_ROOM", r, f)) + b,
           Cardinality(Settled(r, f)') >= Cardinality(Settled(r, f)) + k,
           Cardinality(Settled(r, f)') \in Nat,
           Cardinality(SlotsOf(roomList'[g].members, f))
             = Cardinality(SlotsOf(roomList[g].members, f)) + a - m
    PROVE  Balanced(g, f)'
  <1> DEFINE size == Cardinality(SlotsOf(roomList[g].members, f))
             joins == Cardinality(Received("JOIN_ROOM", r, f))
             leaves == Cardinality(Received("LEAVE_ROOM", r, f))
             settled == Cardinality(Settled(r, f))
             own == IF roomList[g].admin = f THEN 1 ELSE 0
             more == Cardinality(Settled(r, f)')
  <1>1. size <= joins + own /\ joins + own <= size + (leaves + settled)
    BY DEF AccountInv, Balanced
  <1>2. /\ joins \in Nat /\ leaves \in Nat /\ settled \in Nat /\ own \in Nat
        /\ size \in Nat /\ more \in Nat /\ more >= settled + k
    BY Countable, MemberCount DEF AccountInv
  <1>3. /\ size + a - m <= (joins + a) + own
        /\ (joins + a) + own <= (size + a - m) + ((leaves + b) + more)
    <2> HIDE DEF size, joins, leaves, settled, own, more
    <2> QED
      BY <1>1, <1>2
  <1>4. roomList'[g].name = r /\ (IF roomList'[g].admin = f THEN 1 ELSE 0) = own
    BY DEF RoomsStay
  <1> QED
    BY <1>3, <1>4 DEF Balanced

\* Nothing is received.
LEMMA NothingHeard ==
    ASSUME \A d \in Conns : th'[d].got = th[d].got,
           \A d \in Conns : \A k \in 1 .. th[d].got : sent'[d][k] = sent[d][k]
    PROVE  /\ \A type, room, fd :
                Received(type, room, fd)' = Received(type, room, fd)
           /\ Handled' = Handled
  <1>1. ASSUME NEW type, NEW room, NEW fd
        PROVE  Received(type, room, fd)' = Received(type, room, fd)
    <2>1. ASSUME NEW e
          PROVE  e \in Received(type, room, fd)' <=> e \in Received(type, room, fd)
      BY InReceived
    <2> QED
      BY <2>1
  <1>2. Handled' = Handled
    <2>1. ASSUME NEW e
          PROVE  e \in Handled' <=> e \in Handled
      BY InHandled
    <2> QED
      BY <2>1
  <1> QED
    BY <1>1, <1>2

\* The thread of c receives a packet, and what was in no loop stays so.
Hears(c) ==
    /\ sent' = sent
    /\ th[c].pc \notin InRoom
    /\ th'[c].got = th[c].got + 1
    /\ RoomFrame(c)

LEMMA OneHeard ==
    ASSUME ServerInv, IsFiniteSet(Handled), NEW c \in Conns, Hears(c)
    PROVE  /\ IsFiniteSet(Handled)'
           /\ \A type, room, fd :
                Cardinality(Received(type, room, fd)') =
                  Cardinality(Received(type, room, fd))
                    + (IF Is(Incoming(c), type, room, fd) THEN 1 ELSE 0)
           /\ \A room, fd : Settled(room, fd) \subseteq Settled(room, fd)'
  <1> DEFINE next == <<c, th[c].got + 1>>
  <1>1. \A d \in Conns : th[d].got \in Nat
    BY KnownTypes DEF ServerInv, Thread
  <1>2. \A d \in Conns : th'[d].got = IF d = c THEN th[c].got + 1 ELSE th[d].got
    BY DEF Hears, RoomFrame
  <1>3. Handled' = Handled \cup {next}
    <2>1. ASSUME NEW e
          PROVE  e \in Handled' <=> e \in Handled \/ e = next
      <3>1. ASSUME NEW d \in Conns, NEW k
            PROVE  k \in 1 .. th'[d].got <=>
                     k \in 1 .. th[d].got \/ (d = c /\ k = th[c].got + 1)
        BY <1>1, <1>2
      <3> HIDE DEF next
      <3>2. e \in Handled' <=> \E d \in Conns : \E k \in 1 .. th'[d].got : e = <<d, k>>
        BY InHandled
      <3>3. e \in Handled <=> \E d \in Conns : \E k \in 1 .. th[d].got : e = <<d, k>>
        BY InHandled
      <3> QED
        BY <3>1, <3>2, <3>3 DEF next
    <2> QED
      BY <2>1
  <1>4. IsFiniteSet(Handled)'
    BY <1>3, FS_AddElement
  <1>5. ASSUME NEW type, NEW room, NEW fd
        PROVE  /\ Received(type, room, fd)' =
                    IF Is(Incoming(c), type, room, fd)
                      THEN Received(type, room, fd) \cup {next}
                      ELSE Received(type, room, fd)
               /\ next \notin Received(type, room, fd)
    <2>1. ASSUME NEW d \in Conns, NEW k
          PROVE  k \in 1 .. th'[d].got <=>
                   k \in 1 .. th[d].got \/ (d = c /\ k = th[c].got + 1)
      BY <1>1, <1>2
    <2>2. ASSUME NEW e
          PROVE  e \in Received(type, room, fd)' <=>
                   \/ e \in Received(type, room, fd)
                   \/ e = next /\ Is(Incoming(c), type, room, fd)
      <3>1. e \in Received(type, room, fd)' <=>
              \E d \in Conns : \E k \in 1 .. th'[d].got :
                e = <<d, k>> /\ Is(sent[d][k], type, room, fd)
        BY InReceived DEF Hears
      <3>2. e \in Received(type, room, fd) <=>
              \E d \in Conns : \E k \in 1 .. th[d].got :
                e = <<d, k>> /\ Is(sent[d][k], type, room, fd)
        BY InReceived
      <3> QED
        BY <2>1, <3>1, <3>2 DEF Incoming
    <2>3. next \notin Received(type, room, fd)
      <3>1. th[c].got + 1 \notin 1 .. th[c].got
        BY <1>1
      <3> QED
        BY <3>1, InReceived
    <2> QED
      BY <2>2, <2>3
  <1>6. ASSUME NEW type, NEW room, NEW fd
        PROVE  Cardinality(Received(type, room, fd)') =
                 Cardinality(Received(type, room, fd))
                   + (IF Is(Incoming(c), type, room, fd) THEN 1 ELSE 0)
    <2> DEFINE was == Received(type, room, fd)
    <2>1. IsFiniteSet(was) /\ Cardinality(was) \in Nat
      BY Countable
    <2>2. CASE Is(Incoming(c), type, room, fd)
      <3>1. Received(type, room, fd)' = was \cup {next} /\ next \notin was
        BY <1>5, <2>2
      <3> HIDE DEF was, next
      <3>2. Cardinality(was \cup {next}) = Cardinality(was) + 1
        BY <2>1, <3>1, FS_AddElement
      <3>3. Cardinality(Received(type, room, fd)') = Cardinality(was) + 1
        BY <3>1, <3>2
      <3> QED
        BY <2>2, <3>3 DEF was
    <2>3. CASE ~Is(Incoming(c), type, room, fd)
      <3>1. Received(type, room, fd)' = was
        BY <1>5, <2>3
      <3>2. Cardinality(was) = Cardinality(was) + 0
        BY <2>1
      <3> QED
        BY <2>3, <3>1, <3>2
    <2> QED
      BY <2>2, <2>3
  <1>7. ASSUME NEW room, NEW fd, NEW e \in Settled(room, fd)
        PROVE  e \in Settled(room, fd)'
    <2>1. e \in Received("KICK_GROUP_MEMBER", room, fd)
      BY DEF Settled
    <2>2. e \in Received("KICK_GROUP_MEMBER", room, fd)'
      BY <1>5, <2>1
    <2>3. PICK d \in Conns : \E j \in 1 .. th[d].got : e = <<d, j>>
      BY <2>1, InReceived
    <2>6. PICK k \in 1 .. th[d].got : e = <<d, k>>
      BY <2>3
    <2>4. ~InHand(d, k)
      BY <2>6 DEF Settled
    <2>5. ~InHand(d, k)'
      <3>1. CASE d = c
        BY <1>1, <1>2, <3>1 DEF InHand
      <3>2. CASE d # c
        BY <2>4, <3>2 DEF InHand, Hears, RoomFrame
      <3> QED
        BY <3>1, <3>2
    <2> QED
      BY <2>2, <2>5, <2>6 DEF Settled
  <1> QED
    BY <1>4, <1>6, <1>7

\* Settled kicks that stay settled are no fewer.
LEMMA SettledGrows ==
    ASSUME NEW room, NEW fd, IsFiniteSet(Handled)',
           Settled(room, fd) \subseteq Settled(room, fd)'
    PROVE  /\ Cardinality(Settled(room, fd)') \in Nat
           /\ Cardinality(Settled(room, fd)') >= Cardinality(Settled(room, fd))
  <1>1. Received("KICK_GROUP_MEMBER", room, fd)' \subseteq Handled'
    BY InReceived, InHandled
  <1>2. IsFiniteSet(Settled(room, fd)')
    BY <1>1, FS_Subset DEF Settled
  <1> QED
    BY <1>2, FS_Subset, FS_CardinalityType

\* A room that is the same, of whom no addition and no leave is received.
LEMMA SameRoom ==
    ASSUME ServerInv, AccountInv, IsFiniteSet(Handled)', RoomsStay,
           NEW g \in DOMAIN roomList, First(g), NEW f \in Fds,
           NEW r, r = roomList[g].name,
           Cardinality(SlotsOf(roomList'[g].members, f))
             = Cardinality(SlotsOf(roomList[g].members, f)),
           Cardinality(Received("JOIN_ROOM", r, f)')
             = Cardinality(Received("JOIN_ROOM", r, f)),
           Cardinality(Received("LEAVE_ROOM", r, f)')
             = Cardinality(Received("LEAVE_ROOM", r, f)),
           Settled(r, f) \subseteq Settled(r, f)'
    PROVE  Balanced(g, f)'
  <1>1. /\ Cardinality(Received("JOIN_ROOM", r, f)) \in Nat
        /\ Cardinality(Received("LEAVE_ROOM", r, f)) \in Nat
        /\ Cardinality(Settled(r, f)) \in Nat
        /\ Cardinality(SlotsOf(roomList[g].members, f)) \in Nat
    BY Countable, MemberCount DEF AccountInv
  <1>2. /\ Cardinality(Settled(r, f)') \in Nat
        /\ Cardinality(Settled(r, f)') >= Cardinality(Settled(r, f))
    BY SettledGrows
  <1>3. /\ Cardinality(Received("JOIN_ROOM", r, f)')
             = Cardinality(Received("JOIN_ROOM", r, f)) + 0
        /\ Cardinality(Received("LEAVE_ROOM", r, f)')
             = Cardinality(Received("LEAVE_ROOM", r, f)) + 0
        /\ Cardinality(Settled(r, f)') >= Cardinality(Settled(r, f)) + 0
        /\ Cardinality(SlotsOf(roomList'[g].members, f))
             = Cardinality(SlotsOf(roomList[g].members, f)) + 0 - 0
    BY <1>1, <1>2
  <1>4. 0 \in {0, 1} /\ 0 <= 0 + 0
    OBVIOUS
  <1> QED
    BY <1>2, <1>3, <1>4, Rebalanced

\* The rooms are the same, and no addition and no leave is received.
LEMMA SameBalance ==
    ASSUME ServerInv, AccountInv, IsFiniteSet(Handled)', roomList' = roomList,
           \A room, fd :
             /\ Cardinality(Received("JOIN_ROOM", room, fd)')
                  = Cardinality(Received("JOIN_ROOM", room, fd))
             /\ Cardinality(Received("LEAVE_ROOM", room, fd)')
                  = Cardinality(Received("LEAVE_ROOM", room, fd))
             /\ Settled(room, fd) \subseteq Settled(room, fd)'
    PROVE  (\A g \in DOMAIN roomList : First(g) => \A f \in Fds : Balanced(g, f))'
  <1>1. RoomsStay
    BY DEF RoomsStay
  <1> SUFFICES ASSUME NEW g \in DOMAIN roomList, First(g), NEW f \in Fds
               PROVE  Balanced(g, f)'
    BY <1>1, FirstStays
  <1> QED
    BY <1>1, SameRoom

----------------------------------------------------------------------------
(* Steps that leave the rooms alone. *)

\* Nothing is received and the rooms are as before; no loop is begun or ended.
LEMMA QuietAccount ==
    ASSUME ServerInv, AccountInv, roomList' = roomList,
           \A d \in Conns :
             /\ th'[d].got = th[d].got
             /\ th'[d].pc \in InRoom <=> th[d].pc \in InRoom
             /\ th'[d].pc \in InRoom =>
                  th'[d].pkt = th[d].pkt /\ th'[d].room = th[d].room,
           \A d \in Conns : \A k \in 1 .. th[d].got : sent'[d][k] = sent[d][k]
    PROVE  AccountInv'
  <1>1. /\ \A type, room, fd :
             Received(type, room, fd)' = Received(type, room, fd)
        /\ Handled' = Handled
    BY NothingHeard
  <1>2. IsFiniteSet(Handled)'
    BY <1>1 DEF AccountInv
  <1>3. JoinsFindRooms'
    BY DEF AccountInv, JoinsFindRooms
  <1>4. \A d \in Conns : KickInRoom(th[d], roomList)'
    BY DEF AccountInv, KickInRoom
  <1>5. ASSUME NEW room, NEW fd, NEW e \in Settled(room, fd)
        PROVE  e \in Settled(room, fd)'
    <2>1. PICK d \in Conns : \E j \in 1 .. th[d].got : e = <<d, j>>
      BY InReceived DEF Settled
    <2>2. PICK k \in 1 .. th[d].got : e = <<d, k>>
      BY <2>1
    <2>3. ~InHand(d, k) /\ e \in Received("KICK_GROUP_MEMBER", room, fd)'
      BY <1>1, <2>2 DEF Settled
    <2>4. ~InHand(d, k)'
      BY <2>3 DEF InHand
    <2> QED
      BY <2>2, <2>3, <2>4 DEF Settled
  <1>6. (\A g \in DOMAIN roomList : First(g) => \A f \in Fds : Balanced(g, f))'
    BY <1>1, <1>2, <1>5, SameBalance
  <1> QED
    BY <1>2, <1>3, <1>4, <1>6 DEF AccountInv

\* A packet that adds nobody and takes nobody off is received; a kick begins
\* only in the first room of its name.
LEMMA HeardAccount ==
    ASSUME ServerInv, AccountInv, roomList' = roomList,
           NEW c \in Conns, Hears(c),
           Incoming(c).type \notin {"JOIN_ROOM", "LEAVE_ROOM"},
           KickInRoom(th'[c], roomList)
    PROVE  AccountInv'
  <1>1. /\ IsFiniteSet(Handled)'
        /\ \A type, room, fd :
             Cardinality(Received(type, room, fd)') =
               Cardinality(Received(type, room, fd))
                 + (IF Is(Incoming(c), type, room, fd) THEN 1 ELSE 0)
        /\ \A room, fd : Settled(room, fd) \subseteq Settled(room, fd)'
    BY OneHeard DEF AccountInv
  <1>2. ASSUME NEW type \in {"JOIN_ROOM", "LEAVE_ROOM"}, NEW room, NEW fd
        PROVE  Cardinality(Received(type, room, fd)')
                 = Cardinality(Received(type, room, fd))
    <2>1. ~Is(Incoming(c), type, room, fd)
      BY DEF Is
    <2>2. Cardinality(Received(type, room, fd)) \in Nat
      BY Countable DEF AccountInv
    <2>3. Cardinality(Received(type, room, fd)')
            = Cardinality(Received(type, room, fd)) + 0
      BY <1>1, <2>1
    <2> QED
      BY <2>2, <2>3
  <1>3. \A d \in Conns : th[d].got \in Nat
    BY KnownTypes DEF ServerInv, Thread
  <1>4. JoinsFindRooms'
    <2> SUFFICES ASSUME NEW d \in Conns, NEW k \in 1 .. th'[d].got,
                        sent[d][k].whole, sent[d][k].type = "JOIN_ROOM"
                 PROVE  \E g \in DOMAIN roomList : roomList[g].name = sent[d][k].room
      BY DEF JoinsFindRooms, Hears
    <2>1. CASE k \in 1 .. th[d].got
      BY <2>1 DEF AccountInv, JoinsFindRooms
    <2>2. CASE k \notin 1 .. th[d].got
      <3>1. d = c /\ k = th[c].got + 1
        BY <1>3, <2>2 DEF Hears, RoomFrame
      <3> QED
        BY <3>1 DEF Incoming
    <2> QED
      BY <2>1, <2>2
  <1>5. \A d \in Conns : KickInRoom(th[d], roomList)'
    BY DEF AccountInv, KickInRoom, Hears, RoomFrame
  <1>6. (\A g \in DOMAIN roomList : First(g) => \A f \in Fds : Balanced(g, f))'
    BY <1>1, <1>2, SameBalance
  <1> QED
    BY <1>1, <1>4, <1>5, <1>6 DEF AccountInv

\* The handlers of the registry.
LEMMA RegistryAccount ==
    ASSUME ServerInv, AccountInv, NEW c \in Conns, ServerStep(c),
           roomList' = roomList
    PROVE  AccountInv'
  <1>1. RegistryEffect(c) /\ th[c].pc \notin InRoom
    BY RegistryEffects
  <1>2. CASE th'[c].got = th[c].got
    <2>1. \A d \in Conns :
            /\ th'[d].got = th[d].got
            /\ th'[d].pc \in InRoom <=> th[d].pc \in InRoom
            /\ th'[d].pc \in InRoom =>
                 th'[d].pkt = th[d].pkt /\ th'[d].room = th[d].room
      BY <1>1, <1>2 DEF RegistryEffect, RoomFrame
    <2>2. sent' = sent
      BY <1>1 DEF RegistryEffect
    <2> QED
      BY <2>1, <2>2, QuietAccount
  <1>3. CASE /\ th'[c].got = th[c].got + 1
             /\ Incoming(c).type \in {"INTRO", "USER_LEFT", "CHAT"}
    <2>1. Hears(c) /\ KickInRoom(th'[c], roomList)
      BY <1>1, <1>3 DEF RegistryEffect, Hears, KickInRoom
    <2> QED
      BY <1>3, <2>1, HeardAccount
  <1> QED
    BY <1>1, <1>2, <1>3 DEF RegistryEffect

\* The users.
LEMMA UserAccount ==
    ASSUME ServerInv, AccountInv, NEW c \in Conns, User(c)
    PROVE  AccountInv'
  <1>1. /\ sent \in [Conns -> Seq(Packet)]
        /\ \A d \in Conns : th[d].got \in Nat /\ th[d].got <= Len(sent[d])
    BY KnownTypes DEF ServerInv, NewsInv, NetTypeOK, Thread
  <1>2. /\ UNCHANGED <<th, roomList>>
        /\ \/ sent' = sent
           \/ \E p : sent' = [sent EXCEPT ![c] = Append(@, p)]
    BY DEF User, SendIntro, Quit, Crash, SendChat, SendCreateRoom, SendJoinRoom,
       SendGroupChat, SendKick, SendLeaveRoom, Writes, Write
  <1>3. ASSUME NEW d \in Conns, NEW k \in 1 .. th[d].got
        PROVE  sent'[d][k] = sent[d][k]
    <2>1. sent[d] \in Seq(Packet) /\ k \in 1 .. Len(sent[d])
      BY <1>1, <1>3
    <2>2. ASSUME NEW p, sent' = [sent EXCEPT ![c] = Append(@, p)]
          PROVE  sent'[d][k] = sent[d][k]
      <3>1. sent'[d] = IF d = c THEN Append(sent[d], p) ELSE sent[d]
        BY <1>1, <2>2
      <3>2. Append(sent[d], p)[k] = sent[d][k]
        BY <2>1
      <3> QED
        BY <3>1, <3>2
    <2> QED
      BY <1>2, <2>2
  <1> QED
    BY <1>2, <1>3, QuietAccount

----------------------------------------------------------------------------
(* The handlers of the rooms. *)

\* The steps of a loop before its end.
LEMMA LoopAccount ==
    ASSUME ServerInv, AccountInv, NEW c \in Conns,
           \/ DetailsHeader(c) \/ DetailsPayload(c)
           \/ RoomHeader(c) \/ RoomPayload(c) \/ RoomSkip(c)
           \/ KickedHeader(c) \/ KickedPayload(c)
    PROVE  AccountInv'
  <1>1. th[c].pc \in InRoom /\ sent' = sent /\ roomList' = roomList
    BY DEF DetailsHeader, DetailsPayload, RoomHeader, RoomPayload, RoomSkip,
           KickedHeader, KickedPayload, At, InRoom
  <1>2. \E pc \in InRoom : \E i, msg :
          th' = [th EXCEPT ![c] = [th[c] EXCEPT !.pc = pc, !.i = i, !.msg = msg]]
    <2>1. th[c] \in Thread /\ th \in [Conns -> Thread]
      BY KnownTypes DEF ServerInv
    <2>2. CASE DetailsHeader(c)
      <3>1. PICK p : th' = [th EXCEPT ![c] = [th[c] EXCEPT !.pc = "detailsPayload",
                                                           !.msg = p]]
        BY <2>2 DEF DetailsHeader
      <3>2. [th[c] EXCEPT !.pc = "detailsPayload", !.msg = p]
              = [th[c] EXCEPT !.pc = "detailsPayload", !.i = th[c].i, !.msg = p]
        BY <2>1 DEF Thread
      <3> QED
        BY <3>1, <3>2 DEF InRoom
    <2>3. CASE DetailsPayload(c)
      <3>1. th' = [th EXCEPT ![c] = [th[c] EXCEPT !.pc = "room", !.msg = Blank]]
        BY <2>3 DEF DetailsPayload
      <3>2. [th[c] EXCEPT !.pc = "room", !.msg = Blank]
              = [th[c] EXCEPT !.pc = "room", !.i = th[c].i, !.msg = Blank]
        BY <2>1 DEF Thread
      <3> QED
        BY <3>1, <3>2 DEF InRoom
    <2>4. ASSUME NEW pc \in InRoom,
                 th' = [th EXCEPT ![c] = [th[c] EXCEPT !.pc = pc]]
          PROVE  \E i, msg : th' = [th EXCEPT ![c] =
                                [th[c] EXCEPT !.pc = pc, !.i = i, !.msg = msg]]
      <3>1. [th[c] EXCEPT !.pc = pc]
              = [th[c] EXCEPT !.pc = pc, !.i = th[c].i, !.msg = th[c].msg]
        BY <2>1 DEF Thread
      <3> QED
        BY <2>4, <3>1
    <2>5. CASE RoomHeader(c) \/ KickedHeader(c)
      <3>1. PICK pc \in InRoom : th' = [th EXCEPT ![c] = [th[c] EXCEPT !.pc = pc]]
        BY <2>5 DEF RoomHeader, KickedHeader, InRoom
      <3> QED
        BY <3>1, <2>4
    <2>6. CASE RoomPayload(c) \/ KickedPayload(c)
      <3>1. th' = [th EXCEPT ![c] = [th[c] EXCEPT !.pc = "room", !.i = @ + 1]]
        BY <2>6 DEF RoomPayload, KickedPayload
      <3>2. [th[c] EXCEPT !.pc = "room", !.i = @ + 1]
              = [th[c] EXCEPT !.pc = "room", !.i = th[c].i + 1, !.msg = th[c].msg]
        BY <2>1 DEF Thread
      <3> QED
        BY <3>1, <3>2 DEF InRoom
    <2>7. CASE RoomSkip(c)
      <3>1. /\ th' = [th EXCEPT ![c] = [th[c] EXCEPT !.i = @ + 1]]
            /\ th[c].pc = "room"
        BY <2>7 DEF RoomSkip, At
      <3>2. [th[c] EXCEPT !.i = @ + 1]
              = [th[c] EXCEPT !.pc = "room", !.i = th[c].i + 1, !.msg = th[c].msg]
        BY <2>1, <3>1 DEF Thread
      <3> QED
        BY <3>1, <3>2 DEF InRoom
    <2> QED
      BY <2>2, <2>3, <2>5, <2>6, <2>7
  <1>3. \A d \in Conns :
          /\ th'[d].got = th[d].got
          /\ th'[d].pc \in InRoom <=> th[d].pc \in InRoom
          /\ th'[d].pc \in InRoom =>
               th'[d].pkt = th[d].pkt /\ th'[d].room = th[d].room
    BY <1>1, <1>2, KnownTypes DEF ServerInv, Thread
  <1> QED
    BY <1>1, <1>3, QuietAccount

\* What the two ways to take a packet in do to the locals.
LEMMA EntersHearing ==
    ASSUME ServerInv, NEW c \in Conns, NEW type, Receives(c, type),
           NEW g, NEW pc, EnterRoom(c, g, pc), sent' = sent
    PROVE  /\ Hears(c) /\ th'[c].room = g /\ th'[c].pc = pc
           /\ th'[c].pkt = Incoming(c)
  <1>1. th[c] \in Thread /\ th \in [Conns -> Thread] /\ th[c].pc = "recv"
    BY KnownTypes DEF ServerInv, Receives
  <1>2. /\ \A d \in Conns \ {c} : th'[d] = th[d]
        /\ th'[c] = [th[c] EXCEPT !.pc = pc, !.got = @ + 1, !.i = 1,
                                  !.pkt = Incoming(c), !.room = g]
    BY <1>1 DEF EnterRoom
  <1>3. /\ th'[c].got = th[c].got + 1 /\ th'[c].room = g /\ th'[c].pc = pc
        /\ th'[c].pkt = Incoming(c)
    BY <1>1, <1>2 DEF Thread
  <1> QED
    BY <1>1, <1>2, <1>3 DEF Hears, RoomFrame, InRoom

LEMMA ReturnsHearing ==
    ASSUME ServerInv, NEW c \in Conns, NEW type, Receives(c, type),
           ReceiveAndReturn(c), sent' = sent
    PROVE  Hears(c) /\ th'[c].pc = "recv"
  <1>1. th[c] \in Thread /\ th \in [Conns -> Thread] /\ th[c].pc = "recv"
    BY KnownTypes DEF ServerInv, Receives
  <1>2. /\ \A d \in Conns \ {c} : th'[d] = th[d]
        /\ th'[c] = Idle(th[c], 1)
    BY <1>1 DEF ReceiveAndReturn
  <1>3. th'[c].got = th[c].got + 1 /\ th'[c].pc = "recv"
    BY <1>1, <1>2, IdleType
  <1> QED
    BY <1>1, <1>2, <1>3 DEF Hears, RoomFrame, InRoom

\* manageGroupChat and manageKickedMember, before their loops.
LEMMA GroupChatAccount ==
    ASSUME ServerInv, AccountInv, NEW c \in Conns, GroupChat(c)
    PROVE  AccountInv'
  <1>1. PICK g \in DOMAIN roomList : EnterRoom(c, g, "room")
    BY DEF GroupChat
  <1>2. /\ Receives(c, "GROUP_CHAT") /\ sent' = sent /\ roomList' = roomList
        /\ Incoming(c).type = "GROUP_CHAT"
    BY DEF GroupChat, Receives
  <1>3. Hears(c) /\ KickInRoom(th'[c], roomList)
    BY <1>1, <1>2, EntersHearing DEF KickInRoom
  <1> QED
    BY <1>2, <1>3, HeardAccount

LEMMA KickMemberAccount ==
    ASSUME ServerInv, AccountInv, NEW c \in Conns, KickMember(c)
    PROVE  AccountInv'
  <1>1. /\ Receives(c, "KICK_GROUP_MEMBER") /\ Incoming(c).whole
        /\ sent' = sent /\ roomList' = roomList
        /\ Incoming(c).type = "KICK_GROUP_MEMBER"
    BY DEF KickMember, Receives
  <1>2. Hears(c) /\ KickInRoom(th'[c], roomList)
    <2>1. CASE 1 \in Named(Incoming(c).room)
      <3>1. EnterRoom(c, 1, "room") /\ roomList[1].name = Incoming(c).room
        BY <2>1 DEF KickMember, Named
      <3>2. Hears(c) /\ th'[c].room = 1 /\ th'[c].pkt = Incoming(c)
        BY <1>1, <3>1, EntersHearing
      <3> QED
        BY <1>1, <3>1, <3>2 DEF KickInRoom
    <2>2. CASE 1 \notin Named(Incoming(c).room)
      <3>1. ReceiveAndReturn(c)
        BY <2>2 DEF KickMember
      <3>2. Hears(c) /\ th'[c].pc = "recv"
        BY <1>1, <3>1, ReturnsHearing
      <3> QED
        BY <3>2 DEF KickInRoom, InRoom
    <2> QED
      BY <2>1, <2>2
  <1> QED
    BY <1>1, <1>2, HeardAccount
----------------------------------------------------------------------------
(* Steps that change a room. *)

\* Rooms keep what the accounts want of them.
LEMMA NamesStay ==
    ASSUME ServerInv, AccountInv, RoomsStay, NEW c \in Conns, RoomFrame(c),
           KickInRoom(th'[c], roomList'), sent' = sent,
           \/ th'[c].got = th[c].got
           \/ /\ th'[c].got = th[c].got + 1
              /\ Incoming(c).type = "JOIN_ROOM" =>
                   \E g \in DOMAIN roomList : roomList[g].name = Incoming(c).room
    PROVE  JoinsFindRooms' /\ \A d \in Conns : KickInRoom(th[d], roomList)'
  <1>1. \A d \in Conns : th[d].got \in Nat
    BY KnownTypes DEF ServerInv, Thread
  <1>2. JoinsFindRooms'
    <2> SUFFICES ASSUME NEW d \in Conns, NEW k \in 1 .. th'[d].got,
                        sent[d][k].whole, sent[d][k].type = "JOIN_ROOM"
                 PROVE  \E g \in DOMAIN roomList' :
                          roomList'[g].name = sent[d][k].room
      BY DEF JoinsFindRooms
    <2>1. \E g \in DOMAIN roomList : roomList[g].name = sent[d][k].room
      <3>1. CASE k \in 1 .. th[d].got
        BY <3>1 DEF AccountInv, JoinsFindRooms
      <3>2. CASE k \notin 1 .. th[d].got
        <4>1. /\ d = c /\ k = th[c].got + 1 /\ th'[c].got = th[c].got + 1
          BY <1>1, <3>2 DEF RoomFrame
        <4> QED
          BY <1>1, <4>1 DEF Incoming
      <3> QED
        BY <3>1, <3>2
    <2> QED
      BY <2>1 DEF RoomsStay
  <1>3. ASSUME NEW d \in Conns, d # c
        PROVE  KickInRoom(th'[d], roomList')
    <2> SUFFICES ASSUME th[d].pc \in InRoom,
                        th[d].pkt.type = "KICK_GROUP_MEMBER"
                 PROVE  /\ th[d].room = 1 /\ roomList'[1].name = th[d].pkt.room
                        /\ th[d].pkt.whole
      BY <1>3 DEF KickInRoom, RoomFrame
    <2>1. /\ th[d].room = 1 /\ roomList[1].name = th[d].pkt.room
          /\ th[d].pkt.whole
      BY DEF AccountInv, KickInRoom
    <2>2. 1 \in DOMAIN roomList
      BY <2>1, InLoop
    <2> QED
      BY <2>1, <2>2 DEF RoomsStay
  <1> QED
    BY <1>2, <1>3

\* There is one first room of a name.
LEMMA OneFirst ==
    ASSUME ServerInv, NEW g \in DOMAIN roomList, NEW room,
           IsFirst(g, Named(room)), NEW h \in DOMAIN roomList, First(h)
    PROVE  /\ First(g) /\ roomList[g].name = room
           /\ h # g => roomList[h].name # room
  <1>1. roomList[g].name = room /\ First(g)
    BY DEF IsFirst, Named, First
  <1>2. g \in Nat /\ h \in Nat
    BY RoomKnown, LenProperties
  <1>3. ASSUME roomList[h].name = room
        PROVE  h = g
    <2>1. h \in Named(room) /\ g \in Named(room) /\ g <= h /\ h <= g
      BY <1>1, <1>3 DEF IsFirst, Named, First
    <2> QED
      BY <1>2, <2>1
  <1> QED
    BY <1>1, <1>3

\* The members of one room change, and nothing else of the rooms.
LEMMA OneRoomChanges ==
    ASSUME ServerInv, NEW g \in DOMAIN roomList, NEW new,
           roomList' = [roomList EXCEPT ![g].members = new]
    PROVE  /\ RoomsStay
           /\ roomList'[g].members = new
           /\ \A h \in DOMAIN roomList :
                h # g => roomList'[h].members = roomList[h].members
  <1>1. roomList[g] \in Room
    BY RoomKnown
  <1>2. /\ DOMAIN roomList' = DOMAIN roomList
        /\ \A h \in DOMAIN roomList :
             roomList'[h] = IF h = g THEN [roomList[g] EXCEPT !.members = new]
                                     ELSE roomList[h]
    OBVIOUS
  <1>3. /\ [roomList[g] EXCEPT !.members = new].name = roomList[g].name
        /\ [roomList[g] EXCEPT !.members = new].admin = roomList[g].admin
        /\ [roomList[g] EXCEPT !.members = new].members = new
    BY <1>1 DEF Room
  <1> QED
    BY <1>2, <1>3 DEF RoomsStay

\* A packet is received: what was settled stays so ...
LEMMA HeardCounts ==
    ASSUME ServerInv, AccountInv, NEW c \in Conns, Hears(c), NEW room, NEW fd
    PROVE  /\ IsFiniteSet(Handled)'
           /\ Settled(room, fd) \subseteq Settled(room, fd)'
           /\ Cardinality(Settled(room, fd)') \in Nat
           /\ Cardinality(Settled(room, fd)') >= Cardinality(Settled(room, fd))
  <1>1. /\ IsFiniteSet(Handled)'
        /\ Settled(room, fd) \subseteq Settled(room, fd)'
    BY OneHeard DEF AccountInv
  <1> QED
    BY <1>1, SettledGrows

\* ... and what it is decides what there is one more of.
LEMMA HeardOf ==
    ASSUME ServerInv, AccountInv, NEW c \in Conns, Hears(c),
           NEW type, NEW room, NEW fd
    PROVE  /\ ~Is(Incoming(c), type, room, fd) =>
                Cardinality(Received(type, room, fd)')
                  = Cardinality(Received(type, room, fd))
           /\ Is(Incoming(c), type, room, fd) =>
                Cardinality(Received(type, room, fd)')
                  = Cardinality(Received(type, room, fd)) + 1
  <1>1. Cardinality(Received(type, room, fd)) \in Nat
    BY Countable DEF AccountInv
  <1>2. Cardinality(Received(type, room, fd)') =
          Cardinality(Received(type, room, fd))
            + (IF Is(Incoming(c), type, room, fd) THEN 1 ELSE 0)
    BY OneHeard DEF AccountInv
  <1> QED
    BY <1>1, <1>2

\* manageNewMemberInRoom: one JOIN_ROOM and one slot more.
LEMMA NewMemberAccount ==
    ASSUME ServerInv, AccountInv, NEW c \in Conns, NewMember(c)
    PROVE  AccountInv'
  <1> DEFINE fd == Incoming(c).fd
             client == [name |-> Incoming(c).name, FD |-> fd]
  <1>1. /\ Receives(c, "JOIN_ROOM") /\ Incoming(c).whole /\ sent' = sent
        /\ Incoming(c).type = "JOIN_ROOM"
    BY DEF NewMember, Receives
  <1>2. PICK g \in DOMAIN roomList :
          /\ IsFirst(g, Named(Incoming(c).room))
          /\ roomList' = [roomList EXCEPT ![g].members =
                            addClientInClientList(@, client)]
          /\ EnterRoom(c, g, "details")
    BY DEF NewMember
  <1> DEFINE new == addClientInClientList(roomList[g].members, client)
  <1>3. client.FD = fd
    OBVIOUS
  <1> HIDE DEF client
  <1>4. /\ RoomsStay /\ roomList'[g].members = new
        /\ \A h \in DOMAIN roomList :
             h # g => roomList'[h].members = roomList[h].members
    <2>1. roomList' = [roomList EXCEPT ![g].members = new]
      BY <1>2
    <2> HIDE DEF new
    <2> QED
      BY <2>1, OneRoomChanges
  <1>5. /\ Hears(c) /\ RoomFrame(c) /\ KickInRoom(th'[c], roomList')
        /\ th'[c].got = th[c].got + 1
        /\ roomList[g].name = Incoming(c).room
    <2>1. Hears(c) /\ th'[c].pkt = Incoming(c)
      BY <1>1, <1>2, EntersHearing
    <2>2. roomList[g].name = Incoming(c).room
      BY <1>2 DEF IsFirst, Named
    <2> QED
      BY <1>1, <2>1, <2>2 DEF Hears, KickInRoom
  <1>6. JoinsFindRooms' /\ \A d \in Conns : KickInRoom(th[d], roomList)'
    BY <1>1, <1>4, <1>5, NamesStay
  <1>7. IsFiniteSet(Handled)'
    BY <1>5, HeardCounts
  <1>8. ASSUME NEW h \in DOMAIN roomList, First(h), NEW f \in Fds
        PROVE  Balanced(h, f)'
    <2>5. PICK r : r = roomList[h].name
      OBVIOUS
    <2>1. r = Incoming(c).room <=> h = g
      BY <1>2, <1>8, <2>5, OneFirst
    <2>2. ~Is(Incoming(c), "LEAVE_ROOM", r, f)
      BY <1>1 DEF Is
    <2>3. CASE h = g /\ f = fd
      <3>1. Is(Incoming(c), "JOIN_ROOM", r, f)
        BY <1>1, <2>1, <2>3 DEF Is
      <3>2. Cardinality(SlotsOf(roomList'[h].members, f))
              = Cardinality(SlotsOf(roomList[h].members, f)) + 1
        <4>1. /\ roomList[g].members \in ClientList(Names, AnyFd)
              /\ roomList[g].members.size <= Len(roomList[g].members.clients)
          BY RoomKnown
        <4>2. Cardinality(SlotsOf(new, f))
                = Cardinality(SlotsOf(roomList[g].members, f)) + 1
          BY <1>3, <2>3, <4>1, AdditionCounts
        <4> QED
          BY <1>4, <2>3, <4>2
      <3> HIDE DEF new
      <3>3. Cardinality(SlotsOf(roomList[h].members, f)) \in Nat
        BY MemberCount
      <3>4. /\ Cardinality(Received("JOIN_ROOM", r, f)')
                 = Cardinality(Received("JOIN_ROOM", r, f)) + 1
            /\ Cardinality(Received("LEAVE_ROOM", r, f)')
                 = Cardinality(Received("LEAVE_ROOM", r, f)) + 0
            /\ Cardinality(Settled(r, f)') >= Cardinality(Settled(r, f)) + 0
            /\ Cardinality(Settled(r, f)') \in Nat
        <4>1. /\ Cardinality(Settled(r, f)) \in Nat
              /\ Cardinality(Received("LEAVE_ROOM", r, f)) \in Nat
          BY Countable DEF AccountInv
        <4>2. /\ Cardinality(Received("JOIN_ROOM", r, f)')
                   = Cardinality(Received("JOIN_ROOM", r, f)) + 1
              /\ Cardinality(Received("LEAVE_ROOM", r, f)')
                   = Cardinality(Received("LEAVE_ROOM", r, f))
              /\ Cardinality(Settled(r, f)') >= Cardinality(Settled(r, f))
              /\ Cardinality(Settled(r, f)') \in Nat
          BY <1>5, <2>2, <3>1, HeardCounts, HeardOf
        <4> QED
          BY <4>1, <4>2
      <3>5. Cardinality(SlotsOf(roomList'[h].members, f))
              = Cardinality(SlotsOf(roomList[h].members, f)) + 1 - 0
        BY <3>2, <3>3
      <3>6. 0 \in {0, 1} /\ 1 \in {0, 1} /\ 0 <= 0 + 0
        OBVIOUS
      <3> QED
        BY <1>4, <1>7, <1>8, <2>5, <3>4, <3>5, <3>6, Rebalanced
    <2>4. CASE ~(h = g /\ f = fd)
      <3>1. ~Is(Incoming(c), "JOIN_ROOM", r, f)
        BY <2>1, <2>4 DEF Is
      <3>2. Cardinality(SlotsOf(roomList'[h].members, f))
              = Cardinality(SlotsOf(roomList[h].members, f))
        <4>1. CASE h # g
          BY <1>4, <4>1
        <4>2. CASE h = g
          <5>1. /\ roomList[g].members \in ClientList(Names, AnyFd)
                /\ roomList[g].members.size <= Len(roomList[g].members.clients)
            BY RoomKnown
          <5>2. Cardinality(SlotsOf(new, f))
                  = Cardinality(SlotsOf(roomList[g].members, f))
            BY <1>3, <2>4, <4>2, <5>1, AdditionCounts
          <5> QED
            BY <1>4, <4>2, <5>2
        <4> QED
          BY <4>1, <4>2
      <3>3. /\ Cardinality(Received("JOIN_ROOM", r, f)')
                 = Cardinality(Received("JOIN_ROOM", r, f))
            /\ Cardinality(Received("LEAVE_ROOM", r, f)')
                 = Cardinality(Received("LEAVE_ROOM", r, f))
            /\ Settled(r, f) \subseteq Settled(r, f)'
        BY <1>5, <2>2, <3>1, HeardCounts, HeardOf
      <3> QED
        BY <1>4, <1>7, <1>8, <2>5, <3>2, <3>3, SameRoom
    <2> QED
      BY <2>3, <2>4
  <1>9. DOMAIN roomList' = DOMAIN roomList
    BY <1>2
  <1> QED
    BY <1>4, <1>6, <1>7, <1>8, <1>9, FirstStays DEF AccountInv

\* A removal takes off one slot at most, of the descriptor removed.
LEMMA OneOut ==
    ASSUME ServerInv, NEW g \in DOMAIN roomList, NEW fd, NEW f,
           NEW new, new = removeClientFromClientList(roomList[g].members, fd)
    PROVE  \E m \in {0, 1} :
             /\ m = 1 => f = fd
             /\ Cardinality(SlotsOf(new, f))
                  = Cardinality(SlotsOf(roomList[g].members, f)) - m
  <1>1. /\ roomList[g].members \in ClientList(Names, AnyFd)
        /\ roomList[g].members.size <= Len(roomList[g].members.clients)
        /\ Cardinality(SlotsOf(roomList[g].members, f)) \in Nat
    BY RoomKnown, MemberCount
  <1>2. CASE SlotsOf(roomList[g].members, fd) = {}
    <2>1. new = roomList[g].members
      BY <1>2 DEF removeClientFromClientList
    <2>2. Cardinality(SlotsOf(new, f))
            = Cardinality(SlotsOf(roomList[g].members, f)) - 0
      BY <1>1, <2>1
    <2> QED
      BY <2>2
  <1>3. CASE SlotsOf(roomList[g].members, fd) # {} /\ f = fd
    BY <1>1, <1>3, RemovalCounts
  <1>4. CASE SlotsOf(roomList[g].members, fd) # {} /\ f # fd
    <2>1. Cardinality(SlotsOf(new, f))
            = Cardinality(SlotsOf(roomList[g].members, f)) - 0
      BY <1>1, <1>4, RemovalCounts
    <2> QED
      BY <2>1
  <1> QED
    BY <1>2, <1>3, <1>4

\* manageLeftGroupMember up to the removal: one LEAVE_ROOM more and one slot
\* less, if there was one.
LEMMA LeftMemberAccount ==
    ASSUME ServerInv, AccountInv, NEW c \in Conns, LeftMember(c)
    PROVE  AccountInv'
  <1> DEFINE fd == Incoming(c).fd
  <1>1. /\ Receives(c, "LEAVE_ROOM") /\ Incoming(c).whole /\ sent' = sent
        /\ Incoming(c).type = "LEAVE_ROOM"
    BY DEF LeftMember, Receives
  <1>2. PICK g \in DOMAIN roomList :
          /\ IsFirst(g, Named(Incoming(c).room))
          /\ roomList' = [roomList EXCEPT ![g].members =
                            removeClientFromClientList(@, fd)]
          /\ EnterRoom(c, g, "room")
    BY DEF LeftMember, RemoveMember
  <1> DEFINE new == removeClientFromClientList(roomList[g].members, fd)
  <1>3. /\ RoomsStay /\ roomList'[g].members = new
        /\ \A h \in DOMAIN roomList :
             h # g => roomList'[h].members = roomList[h].members
    <2>1. roomList' = [roomList EXCEPT ![g].members = new]
      BY <1>2
    <2> HIDE DEF new
    <2> QED
      BY <2>1, OneRoomChanges
  <1>4. /\ Hears(c) /\ RoomFrame(c) /\ KickInRoom(th'[c], roomList')
        /\ th'[c].got = th[c].got + 1
    <2>1. Hears(c) /\ th'[c].pkt = Incoming(c)
      BY <1>1, <1>2, EntersHearing
    <2> QED
      BY <1>1, <2>1 DEF Hears, KickInRoom
  <1>5. JoinsFindRooms' /\ \A d \in Conns : KickInRoom(th[d], roomList)'
    BY <1>1, <1>3, <1>4, NamesStay
  <1>6. IsFiniteSet(Handled)'
    BY <1>4, HeardCounts
  <1>7. ASSUME NEW h \in DOMAIN roomList, First(h), NEW f \in Fds
        PROVE  Balanced(h, f)'
    <2>1. PICK r : r = roomList[h].name
      OBVIOUS
    <2>2. r = Incoming(c).room <=> h = g
      BY <1>2, <1>7, <2>1, OneFirst
    <2>3. ~Is(Incoming(c), "JOIN_ROOM", r, f)
      BY <1>1 DEF Is
    <2>4. CASE h = g
      <3>1. PICK m \in {0, 1} :
              /\ m = 1 => f = fd
              /\ Cardinality(SlotsOf(new, f))
                   = Cardinality(SlotsOf(roomList[g].members, f)) - m
        BY OneOut
      <3>2. PICK b \in {0, 1} : b = 1 <=> f = fd
        <4>1. CASE f = fd
          BY <4>1
        <4>2. CASE f # fd
          BY <4>2
        <4> QED
          BY <4>1, <4>2
      <3>3. b = 1 <=> Is(Incoming(c), "LEAVE_ROOM", r, f)
        BY <1>1, <2>2, <2>4, <3>2 DEF Is
      <3> HIDE DEF new
      <3>4. /\ Cardinality(Settled(r, f)) \in Nat
            /\ Cardinality(Received("LEAVE_ROOM", r, f)) \in Nat
            /\ Cardinality(Received("JOIN_ROOM", r, f)) \in Nat
            /\ Cardinality(SlotsOf(roomList[g].members, f)) \in Nat
        BY Countable, MemberCount DEF AccountInv
      <3>5. /\ Cardinality(Received("JOIN_ROOM", r, f)')
                 = Cardinality(Received("JOIN_ROOM", r, f))
            /\ b = 1 => Cardinality(Received("LEAVE_ROOM", r, f)')
                          = Cardinality(Received("LEAVE_ROOM", r, f)) + 1
            /\ b # 1 => Cardinality(Received("LEAVE_ROOM", r, f)')
                          = Cardinality(Received("LEAVE_ROOM", r, f))
            /\ Cardinality(Settled(r, f)') >= Cardinality(Settled(r, f))
            /\ Cardinality(Settled(r, f)') \in Nat
        <4>1. /\ Cardinality(Settled(r, f)') >= Cardinality(Settled(r, f))
              /\ Cardinality(Settled(r, f)') \in Nat
          BY <1>4, HeardCounts
        <4>2. Cardinality(Received("JOIN_ROOM", r, f)')
                = Cardinality(Received("JOIN_ROOM", r, f))
          BY <1>4, <2>3, HeardOf
        <4>3. CASE b = 1
          <5>1. Cardinality(Received("LEAVE_ROOM", r, f)')
                  = Cardinality(Received("LEAVE_ROOM", r, f)) + 1
            BY <1>4, <3>3, <4>3, HeardOf
          <5> QED
            BY <4>1, <4>2, <4>3, <5>1
        <4>4. CASE b # 1
          <5>1. Cardinality(Received("LEAVE_ROOM", r, f)')
                  = Cardinality(Received("LEAVE_ROOM", r, f))
            BY <1>4, <3>3, <4>4, HeardOf
          <5> QED
            BY <4>1, <4>2, <4>4, <5>1
        <4> QED
          BY <4>3, <4>4
      <3>6. /\ Cardinality(Received("JOIN_ROOM", r, f)')
                 = Cardinality(Received("JOIN_ROOM", r, f)) + 0
            /\ Cardinality(Received("LEAVE_ROOM", r, f)')
                 = Cardinality(Received("LEAVE_ROOM", r, f)) + b
            /\ Cardinality(Settled(r, f)') >= Cardinality(Settled(r, f)) + 0
            /\ m <= b + 0 /\ 0 \in {0, 1}
        BY <3>1, <3>2, <3>4, <3>5
      <3>7. Cardinality(SlotsOf(roomList'[h].members, f))
              = Cardinality(SlotsOf(roomList[h].members, f)) + 0 - m
        BY <1>3, <2>4, <3>1, <3>4
      <3> QED
        BY <1>3, <1>6, <1>7, <2>1, <3>5, <3>6, <3>7, Rebalanced
    <2>5. CASE h # g
      <3>1. ~Is(Incoming(c), "LEAVE_ROOM", r, f)
        BY <2>2, <2>5 DEF Is
      <3>2. Cardinality(SlotsOf(roomList'[h].members, f))
              = Cardinality(SlotsOf(roomList[h].members, f))
        BY <1>3, <2>5
      <3>3. /\ Cardinality(Received("JOIN_ROOM", r, f)')
                 = Cardinality(Received("JOIN_ROOM", r, f))
            /\ Cardinality(Received("LEAVE_ROOM", r, f)')
                 = Cardinality(Received("LEAVE_ROOM", r, f))
            /\ Settled(r, f) \subseteq Settled(r, f)'
        BY <1>4, <2>3, <3>1, HeardCounts, HeardOf
      <3> QED
        BY <1>3, <1>6, <1>7, <2>1, <3>2, <3>3, SameRoom
    <2> QED
      BY <2>4, <2>5
  <1>8. DOMAIN roomList' = DOMAIN roomList
    BY <1>2
  <1> QED
    BY <1>3, <1>5, <1>6, <1>7, <1>8, FirstStays DEF AccountInv

\* The thread of c returns from a loop: the kick that was in hand is settled.
LEMMA LoopSettles ==
    ASSUME ServerInv, AccountInv, NEW c \in Conns, RoomFrame(c), sent' = sent,
           th'[c].got = th[c].got, th'[c].pc \notin InRoom, NEW room, NEW fd
    PROVE  /\ IsFiniteSet(Handled)'
           /\ \A type : Received(type, room, fd)' = Received(type, room, fd)
           /\ Settled(room, fd) \subseteq Settled(room, fd)'
           /\ Cardinality(Settled(room, fd)) \in Nat
           /\ Cardinality(Settled(room, fd)') \in Nat
           /\ (/\ th[c].pc \in InRoom /\ th[c].got >= 1
               /\ Is(sent[c][th[c].got], "KICK_GROUP_MEMBER", room, fd))
                => Cardinality(Settled(room, fd)')
                     >= Cardinality(Settled(room, fd)) + 1
  <1>1. \A d \in Conns : th'[d].got = th[d].got
    BY DEF RoomFrame
  <1>2. /\ \A type, r, f : Received(type, r, f)' = Received(type, r, f)
        /\ Handled' = Handled
    BY <1>1, NothingHeard
  <1>3. IsFiniteSet(Handled)'
    BY <1>2 DEF AccountInv
  <1>4. ASSUME NEW e \in Settled(room, fd)
        PROVE  e \in Settled(room, fd)'
    <2>1. PICK d \in Conns : \E j \in 1 .. th[d].got : e = <<d, j>>
      BY InReceived DEF Settled
    <2>2. PICK k \in 1 .. th[d].got : e = <<d, k>>
      BY <2>1
    <2>3. ~InHand(d, k) /\ e \in Received("KICK_GROUP_MEMBER", room, fd)'
      BY <1>2, <2>2 DEF Settled
    <2>4. ~InHand(d, k)'
      BY <2>3 DEF InHand, RoomFrame
    <2> QED
      BY <2>2, <2>3, <2>4 DEF Settled
  <1>5. /\ Cardinality(Settled(room, fd)) \in Nat
        /\ IsFiniteSet(Settled(room, fd))
    BY Countable DEF AccountInv
  <1>6. Cardinality(Settled(room, fd)') \in Nat
    BY <1>3, <1>4, SettledGrows
  <1>7. ASSUME th[c].pc \in InRoom, th[c].got >= 1,
               Is(sent[c][th[c].got], "KICK_GROUP_MEMBER", room, fd)
        PROVE  Cardinality(Settled(room, fd)') >= Cardinality(Settled(room, fd)) + 1
    <2>1. PICK e : e = <<c, th[c].got>>
      OBVIOUS
    <2>2. th[c].got \in 1 .. th[c].got
      BY <1>7, KnownTypes DEF ServerInv, Thread
    <2>3. e \in Received("KICK_GROUP_MEMBER", room, fd)'
      BY <1>2, <1>7, <2>1, <2>2, InReceived
    <2>4. e \in Settled(room, fd)'
      BY <2>1, <2>3 DEF Settled, InHand
    <2>5. e \notin Settled(room, fd)
      BY <1>7, <2>1 DEF Settled, InHand
    <2>6. PICK was : was = Settled(room, fd)
      OBVIOUS
    <2>7. Cardinality(was \cup {e}) = Cardinality(was) + 1
      BY <1>5, <2>5, <2>6, FS_AddElement
    <2>8. /\ was \cup {e} \subseteq Settled(room, fd)'
          /\ IsFiniteSet(Settled(room, fd)')
      <3>1. Received("KICK_GROUP_MEMBER", room, fd)' \subseteq Handled'
        BY InReceived, InHandled
      <3>2. IsFiniteSet(Settled(room, fd)')
        BY <1>3, <3>1, FS_Subset DEF Settled
      <3> QED
        BY <1>4, <2>4, <2>6, <3>2
    <2>9. Cardinality(was \cup {e}) <= Cardinality(Settled(room, fd)')
      BY <2>8, FS_Subset
    <2> QED
      BY <1>5, <1>6, <2>6, <2>7, <2>9
  <1> QED
    BY <1>2, <1>3, <1>4, <1>5, <1>6, <1>7

\* The end of a loop, with the removal of who has been kicked.
LEMMA RoomDoneAccount ==
    ASSUME ServerInv, AccountInv, NEW c \in Conns, RoomDone(c)
    PROVE  AccountInv'
  <1>1. /\ th[c].pc = "room" /\ th[c].pc \in InRoom /\ sent' = sent
        /\ th' = [th EXCEPT ![c] = Idle(th[c], 0)]
    BY DEF RoomDone, At, Return, InRoom
  <1>2. /\ th[c] \in Thread /\ th[c].got \in Nat /\ th[c].got >= 1
        /\ th[c].pkt = sent[c][th[c].got] /\ th[c].room \in DOMAIN roomList
    BY <1>1, InLoop
  <1>3. /\ RoomFrame(c) /\ th'[c].got = th[c].got /\ th'[c].pc \notin InRoom
    <2>1. /\ Idle(th[c], 0).got = th[c].got + 0 /\ Idle(th[c], 0).pc = "recv"
      BY <1>2, IdleType
    <2>2. th'[c] = Idle(th[c], 0) /\ \A d \in Conns \ {c} : th'[d] = th[d]
      BY <1>1, KnownTypes DEF ServerInv
    <2> QED
      BY <1>2, <2>1, <2>2 DEF RoomFrame, InRoom
  <1>4. IsFiniteSet(Handled)'
    BY <1>1, <1>3, LoopSettles
  <1>5. CASE th[c].pkt.type # "KICK_GROUP_MEMBER"
    <2>1. roomList' = roomList
      BY <1>5 DEF RoomDone
    <2>2. RoomsStay
      BY <2>1 DEF RoomsStay
    <2>3. KickInRoom(th'[c], roomList')
      BY <1>3 DEF KickInRoom
    <2>4. JoinsFindRooms' /\ \A d \in Conns : KickInRoom(th[d], roomList)'
      BY <1>1, <1>3, <2>2, <2>3, NamesStay
    <2>5. (\A g \in DOMAIN roomList : First(g) => \A f \in Fds : Balanced(g, f))'
      BY <1>1, <1>3, <1>4, <2>1, LoopSettles, SameBalance
    <2> QED
      BY <1>4, <2>4, <2>5 DEF AccountInv
  <1>6. CASE th[c].pkt.type = "KICK_GROUP_MEMBER"
    <2> DEFINE fd == th[c].pkt.fd
               new == removeClientFromClientList(roomList[1].members, fd)
    <2>1. /\ th[c].room = 1 /\ roomList[1].name = th[c].pkt.room
          /\ th[c].pkt.whole /\ 1 \in DOMAIN roomList
      BY <1>1, <1>2, <1>6 DEF AccountInv, KickInRoom
    <2>2. /\ RoomsStay /\ roomList'[1].members = new
          /\ DOMAIN roomList' = DOMAIN roomList
          /\ \A h \in DOMAIN roomList :
               h # 1 => roomList'[h].members = roomList[h].members
      <3>1. roomList' = [roomList EXCEPT ![1].members = new]
        BY <1>6, <2>1 DEF RoomDone, RemoveMember
      <3> HIDE DEF new
      <3> QED
        BY <2>1, <3>1, OneRoomChanges
    <2>3. KickInRoom(th'[c], roomList')
      BY <1>3 DEF KickInRoom
    <2>4. JoinsFindRooms' /\ \A d \in Conns : KickInRoom(th[d], roomList)'
      BY <1>1, <1>3, <2>2, <2>3, NamesStay
    <2>5. ASSUME NEW h \in DOMAIN roomList, First(h), NEW f \in Fds
          PROVE  Balanced(h, f)'
      <3>1. PICK r : r = roomList[h].name
        OBVIOUS
      <3>2. /\ \A type : Received(type, r, f)' = Received(type, r, f)
            /\ Settled(r, f) \subseteq Settled(r, f)'
            /\ Cardinality(Settled(r, f)) \in Nat
            /\ Cardinality(Settled(r, f)') \in Nat
        BY <1>1, <1>3, LoopSettles
      <3>3. CASE h = 1
        <4>1. PICK m \in {0, 1} :
                /\ m = 1 => f = fd
                /\ Cardinality(SlotsOf(new, f))
                     = Cardinality(SlotsOf(roomList[1].members, f)) - m
          BY <2>1, OneOut
        <4> HIDE DEF new
        <4>2. m = 1 => Cardinality(Settled(r, f)') >= Cardinality(Settled(r, f)) + 1
          <5> SUFFICES ASSUME m = 1
                       PROVE  Cardinality(Settled(r, f)')
                                >= Cardinality(Settled(r, f)) + 1
            OBVIOUS
          <5>1. Is(sent[c][th[c].got], "KICK_GROUP_MEMBER", r, f)
            BY <1>2, <1>6, <2>1, <3>1, <3>3, <4>1 DEF Is
          <5> QED
            BY <1>1, <1>2, <1>3, <5>1, LoopSettles
        <4>3. /\ Cardinality(Received("LEAVE_ROOM", r, f)) \in Nat
              /\ Cardinality(Received("JOIN_ROOM", r, f)) \in Nat
              /\ Cardinality(SlotsOf(roomList[1].members, f)) \in Nat
          BY <2>1, Countable, MemberCount DEF AccountInv
        <4>7. Cardinality(Settled(r, f)') >= Cardinality(Settled(r, f))
          BY <1>4, <3>2, SettledGrows
        <4>4. /\ Cardinality(Received("JOIN_ROOM", r, f)')
                   = Cardinality(Received("JOIN_ROOM", r, f)) + 0
              /\ Cardinality(Received("LEAVE_ROOM", r, f)')
                   = Cardinality(Received("LEAVE_ROOM", r, f)) + 0
          BY <3>2, <4>3
        <4>5. /\ Cardinality(Settled(r, f)') >= Cardinality(Settled(r, f)) + m
              /\ m <= 0 + m /\ 0 \in {0, 1}
          BY <3>2, <4>1, <4>2, <4>7
        <4>6. Cardinality(SlotsOf(roomList'[h].members, f))
                = Cardinality(SlotsOf(roomList[h].members, f)) + 0 - m
          BY <2>2, <3>3, <4>1, <4>3
        <4> QED
          BY <1>4, <2>2, <2>5, <3>1, <3>2, <4>4, <4>5, <4>6, Rebalanced
      <3>4. CASE h # 1
        <4>1. Cardinality(SlotsOf(roomList'[h].members, f))
                = Cardinality(SlotsOf(roomList[h].members, f))
          BY <2>2, <3>4
        <4> QED
          BY <1>4, <2>2, <2>5, <3>1, <3>2, <4>1, SameRoom
      <3> QED
        BY <3>3, <3>4
    <2> QED
      BY <1>4, <2>2, <2>4, <2>5, FirstStays DEF AccountInv
  <1> QED
    BY <1>5, <1>6

\* manageNewRoom: the new room has its admin, and nobody has been put into one
\* of its name if it is the first.
LEMMA NewRoomAccount ==
    ASSUME ServerInv, AccountInv, NEW c \in Conns, NewRoom(c)
    PROVE  AccountInv'
  <1> DEFINE admin == [name |-> Incoming(c).name, FD |-> th[c].fd]
             members == addClientInClientList(EmptyList, admin)
             room == [name |-> Incoming(c).room, admin |-> th[c].fd,
                      members |-> members]
  <1>13. PICK last : last = Len(roomList) + 1
    OBVIOUS
  <1>1. /\ Receives(c, "CREATE_ROOM") /\ sent' = sent
        /\ Incoming(c).type = "CREATE_ROOM"
        /\ roomList' = Append(roomList, room)
    BY DEF NewRoom, Receives
  <1>2. /\ Hears(c) /\ RoomFrame(c) /\ KickInRoom(th'[c], roomList')
        /\ th'[c].got = th[c].got + 1
    <2>1. Hears(c) /\ th'[c].pc = "recv"
      BY <1>1, ReturnsHearing DEF NewRoom
    <2> QED
      BY <2>1 DEF Hears, KickInRoom, InRoom
  <1>3. /\ EmptyList \in ClientList(Names, AnyFd)
        /\ EmptyList.size <= Len(EmptyList.clients)
        /\ \A f : SlotsOf(EmptyList, f) = {}
    <2>1. \A f : SlotsOf(EmptyList, f) = {}
      BY DEF SlotsOf, Live, EmptyList
    <2> QED
      BY <2>1, EmptySeq DEF EmptyList, ClientList
  <1>4. ASSUME NEW f
        PROVE  Cardinality(SlotsOf(members, f)) = IF f = th[c].fd THEN 1 ELSE 0
    <2>1. Cardinality(SlotsOf(members, f)) =
            IF f = admin.FD THEN Cardinality(SlotsOf(EmptyList, f)) + 1
                            ELSE Cardinality(SlotsOf(EmptyList, f))
      <3> HIDE DEF admin
      <3> QED
        BY <1>3, AdditionCounts
    <2>2. Cardinality(SlotsOf(EmptyList, f)) = 0
      BY <1>3, FS_EmptySet
    <2> HIDE DEF members
    <2> QED
      BY <2>1, <2>2
  <1> HIDE DEF members
  <1>5. room.name = Incoming(c).room /\ room.admin = th[c].fd /\ room.members = members
    OBVIOUS
  <1> HIDE DEF room
  <1>6. /\ DOMAIN roomList = 1 .. Len(roomList) /\ Len(roomList) \in Nat
        /\ DOMAIN roomList' = 1 .. last
        /\ \A g \in 1 .. Len(roomList) : roomList'[g] = roomList[g]
        /\ roomList'[last] = room
    <2>1. roomList \in Seq(Room)
      BY DEF ServerInv, RoomInv, RoomsTypeOK
    <2> QED
      BY <1>1, <1>13, <2>1, LenProperties
  <1>7. RoomsStay /\ DOMAIN roomList' \ DOMAIN roomList = {last}
    BY <1>6, <1>13 DEF RoomsStay
  <1>8. JoinsFindRooms' /\ \A d \in Conns : KickInRoom(th[d], roomList)'
    BY <1>1, <1>2, <1>7, NamesStay
  <1>9. IsFiniteSet(Handled)'
    BY <1>2, HeardCounts
  \* The rooms that there were ...
  <1>10. ASSUME NEW h \in DOMAIN roomList, First(h), NEW f \in Fds
         PROVE  Balanced(h, f)'
    <2>1. PICK r : r = roomList[h].name
      OBVIOUS
    <2>2. /\ ~Is(Incoming(c), "JOIN_ROOM", r, f)
          /\ ~Is(Incoming(c), "LEAVE_ROOM", r, f)
      BY <1>1 DEF Is
    <2>3. /\ Cardinality(Received("JOIN_ROOM", r, f)')
               = Cardinality(Received("JOIN_ROOM", r, f))
          /\ Cardinality(Received("LEAVE_ROOM", r, f)')
               = Cardinality(Received("LEAVE_ROOM", r, f))
          /\ Settled(r, f) \subseteq Settled(r, f)'
      BY <1>2, <2>2, HeardCounts, HeardOf
    <2>4. Cardinality(SlotsOf(roomList'[h].members, f))
            = Cardinality(SlotsOf(roomList[h].members, f))
      BY <1>6
    <2> QED
      BY <1>7, <1>9, <1>10, <2>1, <2>3, <2>4, SameRoom
  \* ... and the new one.
  <1>11. ASSUME First(last)', NEW f \in Fds
         PROVE  Balanced(last, f)'
    <2>1. PICK r : r = Incoming(c).room
      OBVIOUS
    <2>2. \A g \in DOMAIN roomList : roomList[g].name # r
      <3> SUFFICES ASSUME NEW g \in DOMAIN roomList, roomList[g].name = r
                   PROVE  FALSE
        OBVIOUS
      <3>1. g \in 1 .. Len(roomList) /\ g \in DOMAIN roomList'
            /\ roomList'[g].name = roomList'[last].name
        BY <1>5, <1>6, <1>13, <2>1
      <3>2. last <= g
        BY <1>11, <3>1 DEF First, IsFirst, Named
      <3> QED
        BY <1>6, <1>13, <3>1, <3>2
    <2>3. Received("JOIN_ROOM", r, f) = {}
      <3> SUFFICES ASSUME NEW e \in Received("JOIN_ROOM", r, f)
                   PROVE  FALSE
        OBVIOUS
      <3>1. PICK d \in Conns : \E k \in 1 .. th[d].got :
                                  Is(sent[d][k], "JOIN_ROOM", r, f)
        BY InReceived
      <3>2. PICK k \in 1 .. th[d].got : Is(sent[d][k], "JOIN_ROOM", r, f)
        BY <3>1
      <3> QED
        BY <2>2, <3>2 DEF AccountInv, JoinsFindRooms, Is
    <2>4. /\ ~Is(Incoming(c), "JOIN_ROOM", r, f)
          /\ ~Is(Incoming(c), "LEAVE_ROOM", r, f)
      BY <1>1 DEF Is
    <2>5. /\ Cardinality(Received("JOIN_ROOM", r, f)') = 0
          /\ Cardinality(Received("LEAVE_ROOM", r, f)') \in Nat
          /\ Cardinality(Settled(r, f)') \in Nat
      <3>1. /\ Cardinality(Received("JOIN_ROOM", r, f)')
                 = Cardinality(Received("JOIN_ROOM", r, f))
            /\ Cardinality(Received("LEAVE_ROOM", r, f)')
                 = Cardinality(Received("LEAVE_ROOM", r, f))
            /\ Cardinality(Received("LEAVE_ROOM", r, f)) \in Nat
            /\ Cardinality(Settled(r, f)') \in Nat
        <4>1. Cardinality(Received("LEAVE_ROOM", r, f)) \in Nat
          BY Countable DEF AccountInv
        <4> QED
          BY <1>2, <2>4, <4>1, HeardCounts, HeardOf
      <3> QED
        BY <2>3, <3>1, FS_EmptySet
    <2>6. /\ roomList'[last].name = r /\ roomList'[last].admin = th[c].fd
          /\ roomList'[last].members = members
      BY <1>5, <1>6, <2>1
    <2> DEFINE own == IF th[c].fd = f THEN 1 ELSE 0
    <2>7. Cardinality(SlotsOf(roomList'[last].members, f)) = own
      BY <1>4, <2>6
    <2>8. /\ own <= 0 + own
          /\ 0 + own <= own + (Cardinality(Received("LEAVE_ROOM", r, f)')
                                + Cardinality(Settled(r, f)'))
      BY <2>5
    <2> QED
      BY <2>5, <2>6, <2>7, <2>8 DEF Balanced
  <1>12. (\A g \in DOMAIN roomList : First(g) => \A f \in Fds : Balanced(g, f))'
    BY <1>7, <1>10, <1>11, FirstStays
  <1> QED
    BY <1>8, <1>9, <1>12 DEF AccountInv

----------------------------------------------------------------------------
(* The accounts are kept. *)

LEMMA AccountInit == ServerInit => AccountInv
  <1> SUFFICES ASSUME ServerInit PROVE AccountInv
    OBVIOUS
  <1>1. /\ roomList = <<>>
        /\ \A c \in Conns : th[c].pc = "new" /\ th[c].got = 0
    BY DEF ServerInit, NetInit, RoomsInit, NewThread
  <1>2. \A c \in Conns : 1 .. th[c].got = {}
    BY <1>1
  <1>3. Handled = {}
    BY <1>2, InHandled
  <1>4. IsFiniteSet(Handled)
    BY <1>3, FS_EmptySet
  <1>5. JoinsFindRooms /\ \A c \in Conns : KickInRoom(th[c], roomList)
    BY <1>1, <1>2 DEF JoinsFindRooms, KickInRoom, InRoom
  <1> QED
    BY <1>1, <1>4, <1>5 DEF AccountInv

LEMMA AccountNext ==
    ServerInv /\ AccountInv /\ [ServerNext]_serverVars => AccountInv'
  <1> SUFFICES ASSUME ServerInv, AccountInv, [ServerNext]_serverVars
               PROVE  AccountInv'
    OBVIOUS
  <1>1. CASE UNCHANGED serverVars
    <2>1. UNCHANGED <<th, sent, roomList>>
      BY <1>1 DEF serverVars, netVars
    <2> QED
      BY <2>1, QuietAccount
  <1>2. CASE Stops /\ UNCHANGED roomList
    BY <1>1, <1>2 DEF Stops, registryVars, serverVars
  <1>3. ASSUME NEW c \in Conns, ServerThread(c)
        PROVE  AccountInv'
    <2>1. CASE RoomHandler(c)
      BY <2>1, NewRoomAccount, NewMemberAccount, GroupChatAccount,
         LeftMemberAccount, KickMemberAccount, RoomDoneAccount, LoopAccount
         DEF RoomHandler
    <2>2. CASE ServerStep(c) /\ roomList' = roomList
      BY <2>2, RegistryAccount
    <2> QED
      BY <1>3, <2>1, <2>2 DEF ServerThread, Handler, ServerStep
  <1>4. ASSUME NEW c \in Conns, User(c)
        PROVE  AccountInv'
    BY <1>4, UserAccount
  <1> QED
    BY <1>1, <1>2, <1>3, <1>4 DEF ServerNext

\* No removal by copying the last entry takes somebody else off a room,
\* whoever loops over it, joins, leaves or is kicked meanwhile: a room holds a
\* descriptor as often as it was put in, less at most once for every packet
\* that takes it off.  For any number of connections, descriptors and packets.
THEOREM MembersCounted == ServerSpec => []MembersAccountedFor
  <1>1. ServerSpec => []AccountInv
    BY ServerInvariance, AccountInit, AccountNext, PTL DEF ServerSpec
  <1> QED
    BY <1>1, ServerInvariance, BalanceAccounts, PTL

----------------------------------------------------------------------------
(* Who hears of a room, while nobody quits: OnlyInvitedHear. *)

\* x has created the room or been put into it.
Invited(x, r) ==
    \/ r \in Created(x)
    \/ \E y \in Conns : \E k \in 1 .. th[y].got :
         /\ sent[y][k].type = "JOIN_ROOM"
         /\ sent[y][k].name = x
         /\ sent[y][k].room = r

\* Descriptor f is open, if it is one; and whoever it is open for is invited.
InUse(f) == f \in Fds => fdTable[f] \in Conns

MayHear(f, r) ==
    f \in Fds => fdTable[f] \in Conns /\ Invited(fdTable[f], r)

\* Nobody's socket is shut, and no array has moved.
AllStay ==
    \A c \in Conns :
      /\ peer[c] \in {"none", "open"}
      /\ th[c].pc # "new" => peer[c] = "open"
      /\ ~th[c].stale

\* What packet p tells of descriptors is true.
TellsInUse(p) ==
    /\ p.type = "USER_JOINED_SERVER" => InUse(p.fd)
    /\ p.type = "CLIENT_LIST" => \A j \in DOMAIN p.list : InUse(p.list[j].FD)

\* The descriptors that users are told of are open, ...
ToldInUse ==
    /\ \A i \in DOMAIN clientList.clients : InUse(clientList.clients[i].FD)
    /\ \A x \in Conns : \A j \in DOMAIN out[x] : TellsInUse(out[x][j].pkt)

\* ... so that who is put into a room is the one on the descriptor.
JoinsNameOwners ==
    \A c \in Conns : \A k \in DOMAIN sent[c] :
      sent[c][k].type = "JOIN_ROOM" =>
        /\ sent[c][k].fd \in Fds
        /\ sent[c][k].name \in Conns
        /\ fdTable[sent[c][k].fd] = sent[c][k].name

\* Every slot of a room's array, past its size too, is of somebody invited.
SlotsInvited ==
    \A g \in DOMAIN roomList :
      \A i \in DOMAIN roomList[g].members.clients :
        MayHear(roomList[g].members.clients[i].FD, roomList[g].name)

\* A thread in a loop writes about the room it loops on.
TellsOfRoom(c) ==
    /\ th[c].pc \in InRoom => roomList[th[c].room].name = th[c].pkt.room
    /\ th[c].pc \in {"details", "detailsPayload"}
         => th[c].pkt.type = "JOIN_ROOM"
    /\ th[c].pc = "detailsPayload" => th[c].msg.room = th[c].pkt.room
    /\ th[c].pc = "kickedPayload" => MayHear(th[c].pkt.fd, th[c].pkt.room)

InviteInv ==
    /\ AllStay /\ ToldInUse /\ JoinsNameOwners /\ SlotsInvited
    /\ \A c \in Conns : TellsOfRoom(c)
    /\ OnlyInvitedHear

\* The same after a step, for a name, a packet or a descriptor of before it.
InvitedNext(x, r) ==
    \/ \E k \in DOMAIN sent'[x] :
         sent'[x][k].type = "CREATE_ROOM" /\ sent'[x][k].room = r
    \/ \E y \in Conns : \E k \in 1 .. th'[y].got :
         /\ sent'[y][k].type = "JOIN_ROOM"
         /\ sent'[y][k].name = x
         /\ sent'[y][k].room = r

InUseNext(f) == f \in Fds => fdTable'[f] \in Conns

MayHearNext(f, r) ==
    f \in Fds => fdTable'[f] \in Conns /\ InvitedNext(fdTable'[f], r)

TellsInUseNext(p) ==
    /\ p.type = "USER_JOINED_SERVER" => InUseNext(p.fd)
    /\ p.type = "CLIENT_LIST" => \A j \in DOMAIN p.list : InUseNext(p.list[j].FD)

\* Open descriptors stay with their users, streams and what has been read grow.
Onwards ==
    /\ \A f \in Fds : fdTable[f] \in Conns => fdTable'[f] = fdTable[f]
    /\ \A y \in Conns : \A k \in 1 .. th[y].got : k \in 1 .. th'[y].got
    /\ \A y \in Conns : \A k \in DOMAIN sent[y] :
         k \in DOMAIN sent'[y] /\ sent'[y][k] = sent[y][k]

\* As streams grow and open descriptors stay, whoever was invited still is.
LEMMA InvitedOn ==
    ASSUME ServerInv, Onwards
    PROVE  /\ \A x \in Conns : \A r : Invited(x, r) => InvitedNext(x, r)
           /\ \A f : InUse(f) => InUseNext(f)
           /\ \A f, r : MayHear(f, r) => MayHearNext(f, r)
           /\ \A p : TellsInUse(p) => TellsInUseNext(p)
  <1>1. \A y \in Conns : \A k \in 1 .. th[y].got : k \in DOMAIN sent[y]
    <2> SUFFICES ASSUME NEW y \in Conns, NEW k \in 1 .. th[y].got
                 PROVE  k \in DOMAIN sent[y]
      OBVIOUS
    <2>1. /\ sent[y] \in Seq(Packet) /\ th[y].got \in Nat
          /\ th[y].got <= Len(sent[y])
      BY KnownTypes DEF ServerInv, NewsInv, NetTypeOK, Thread
    <2> QED
      BY <2>1, LenProperties
  <1>2. ASSUME NEW x \in Conns, NEW r, Invited(x, r)
        PROVE  InvitedNext(x, r)
    <2>1. CASE r \in Created(x)
      <3>1. PICK k \in DOMAIN sent[x] :
              sent[x][k].type = "CREATE_ROOM" /\ sent[x][k].room = r
        BY <2>1 DEF Created, Wrote
      <3>2. k \in DOMAIN sent'[x] /\ sent'[x][k] = sent[x][k]
        BY DEF Onwards
      <3> QED
        BY <3>1, <3>2 DEF InvitedNext
    <2>2. CASE r \notin Created(x)
      <3>1. PICK y \in Conns : \E k \in 1 .. th[y].got :
              /\ sent[y][k].type = "JOIN_ROOM"
              /\ sent[y][k].name = x
              /\ sent[y][k].room = r
        BY <1>2, <2>2 DEF Invited
      <3>2. PICK k \in 1 .. th[y].got :
              /\ sent[y][k].type = "JOIN_ROOM"
              /\ sent[y][k].name = x
              /\ sent[y][k].room = r
        BY <3>1
      <3>3. k \in 1 .. th'[y].got /\ sent'[y][k] = sent[y][k]
        BY <1>1 DEF Onwards
      <3> QED
        BY <3>2, <3>3 DEF InvitedNext
    <2> QED
      BY <2>1, <2>2
  <1>3. \A f : InUse(f) => InUseNext(f)
    BY DEF InUse, InUseNext, Onwards
  <1>4. \A f, r : MayHear(f, r) => MayHearNext(f, r)
    BY <1>2 DEF MayHear, MayHearNext, Onwards
  <1> QED
    BY <1>2, <1>3, <1>4 DEF TellsInUse, TellsInUseNext

\* A chunk of a stream is an old one or the one that has been sent.
LEMMA NewChunk ==
    ASSUME NetTypeOK, NEW c \in Conns, NEW f, NEW part, NEW p,
           Emits(c, f, part, p), NEW x \in Conns, NEW j \in DOMAIN out'[x]
    PROVE  \/ j \in DOMAIN out[x] /\ out'[x][j] = out[x][j]
           \/ f \in Fds /\ fdTable[f] = x /\ out'[x][j].pkt = p
  <1> DEFINE chunk == [part |-> part, by |-> c, pkt |-> p]
  <1>1. out \in [Conns -> Seq(Chunk)] /\ out[x] \in Seq(Chunk)
    BY DEF NetTypeOK
  <1>2. chunk.pkt = p
    OBVIOUS
  <1>3. \/ out'[x] = out[x]
        \/ f \in Fds /\ fdTable[f] = x /\ out'[x] = Append(out[x], chunk)
    BY <1>1 DEF Emits
  <1> HIDE DEF chunk
  <1>4. CASE f \in Fds /\ fdTable[f] = x /\ out'[x] = Append(out[x], chunk)
    <2>1. /\ DOMAIN out[x] = 1 .. Len(out[x]) /\ Len(out[x]) \in Nat
          /\ DOMAIN out'[x] = 1 .. Len(out[x]) + 1
          /\ \A k \in 1 .. Len(out[x]) : out'[x][k] = out[x][k]
          /\ out'[x][Len(out[x]) + 1] = chunk
      BY <1>1, <1>4, LenProperties
    <2> QED
      BY <1>2, <1>4, <2>1
  <1> QED
    BY <1>3, <1>4

\* A step of c that sends one chunk to somebody who may hear it.
LEMMA InviteStep ==
    ASSUME ServerInv, InviteInv, NEW c \in Conns, Onwards, RoomFrame(c),
           NEW f, NEW part, NEW p, Emits(c, f, part, p), TellsInUse(p),
           p.type \in RoomTypes => MayHear(f, p.room),
           AllStay', JoinsNameOwners', SlotsInvited', TellsOfRoom(c)',
           \A i \in DOMAIN clientList'.clients :
             InUseNext(clientList'.clients[i].FD),
           \A g \in DOMAIN roomList :
             g \in DOMAIN roomList' /\ roomList'[g].name = roomList[g].name
    PROVE  InviteInv'
  <1>1. /\ NetTypeOK
        /\ \A x \in Conns : \A r : Invited(x, r) => InvitedNext(x, r)
        /\ \A g, r : MayHear(g, r) => MayHearNext(g, r)
        /\ \A q : TellsInUse(q) => TellsInUseNext(q)
    BY InvitedOn, KnownTypes DEF ServerInv
  <1>2. ToldInUse'
    <2>1. ASSUME NEW x \in Conns, NEW j \in DOMAIN out'[x]
          PROVE  TellsInUseNext(out'[x][j].pkt)
      <3>1. CASE j \in DOMAIN out[x] /\ out'[x][j] = out[x][j]
        BY <1>1, <3>1 DEF InviteInv, ToldInUse
      <3>2. CASE out'[x][j].pkt = p
        BY <1>1, <3>2
      <3> QED
        BY <1>1, <3>1, <3>2, NewChunk
    <2> QED
      BY <2>1 DEF ToldInUse, InUse, InUseNext, TellsInUse, TellsInUseNext
  <1>3. ASSUME NEW d \in Conns, d # c
        PROVE  TellsOfRoom(d)'
    <2>1. /\ th'[d].pc = th[d].pc /\ th'[d].pkt = th[d].pkt
          /\ th'[d].room = th[d].room /\ th'[d].msg = th[d].msg
      BY <1>3 DEF RoomFrame
    <2>2. TellsOfRoom(d)
      BY DEF InviteInv
    <2>3. th[d].pc \in InRoom => th[d].room \in DOMAIN roomList
      BY DEF ServerInv, RoomInv, RoomLocals
    <2>4. th[d].pc = "kickedPayload" => MayHearNext(th[d].pkt.fd, th[d].pkt.room)
      BY <1>1, <2>2 DEF TellsOfRoom
    <2>5. MayHearNext(th[d].pkt.fd, th[d].pkt.room)
            => MayHear(th[d].pkt.fd, th[d].pkt.room)'
      BY <2>1, ZenonT(40) DEF MayHear, MayHearNext, Invited, InvitedNext, Created, Wrote
    <2> QED
      BY <2>1, <2>2, <2>3, <2>4, <2>5 DEF TellsOfRoom
  <1>4. OnlyInvitedHear'
    <2>1. ASSUME NEW x \in Conns, NEW j \in DOMAIN out'[x],
                 out'[x][j].pkt.type \in RoomTypes
          PROVE  InvitedNext(x, out'[x][j].pkt.room)
      <3>1. CASE j \in DOMAIN out[x] /\ out'[x][j] = out[x][j]
        <4>1. Invited(x, out[x][j].pkt.room)
          BY <2>1, <3>1 DEF InviteInv, OnlyInvitedHear, Invited
        <4> QED
          BY <1>1, <3>1, <4>1
      <3>2. CASE f \in Fds /\ fdTable[f] = x /\ out'[x][j].pkt = p
        <4>1. Invited(x, p.room)
          BY <2>1, <3>2 DEF MayHear
        <4> QED
          BY <1>1, <3>2, <4>1
      <3> QED
        BY <1>1, <3>1, <3>2, NewChunk
    <2> QED
      BY <2>1 DEF OnlyInvitedHear, InvitedNext, Created, Wrote
  <1> QED
    BY <1>2, <1>3, <1>4 DEF InviteInv

----------------------------------------------------------------------------
(* The two helpers that change a list, again. *)

\* A slot of the array, in use or not, is of somebody that was in it or comes.
LEMMA AdditionSlots ==
    ASSUME NEW list \in ClientList(Names, AnyFd), NEW client,
           list.size <= Len(list.clients), NEW new,
           new = addClientInClientList(list, client),
           NEW i \in DOMAIN new.clients
    PROVE  \/ new.clients[i] = client
           \/ i \in DOMAIN list.clients /\ new.clients[i] = list.clients[i]
  <1>1. /\ list.clients \in Seq(Entries) /\ list.size \in Nat
        /\ Len(list.clients) \in Nat
        /\ DOMAIN list.clients = 1 .. Len(list.clients)
    BY LenProperties DEF ClientList, Entries
  <1>2. CASE list.size = Len(list.clients)
    <2>1. new.clients = Append(list.clients, client)
      BY <1>2 DEF addClientInClientList
    <2> HIDE DEF Entries
    <2> QED
      BY <1>1, <2>1
  <1>3. CASE list.size # Len(list.clients)
    <2>1. new.clients = [list.clients EXCEPT ![list.size + 1] = client]
      BY <1>3 DEF addClientInClientList
    <2> QED
      BY <1>1, <2>1
  <1> QED
    BY <1>2, <1>3

\* A removal leaves in every slot a descriptor that some slot held before.
LEMMA RemovalSlots ==
    ASSUME NEW list \in ClientList(Names, AnyFd), NEW fd,
           list.size <= Len(list.clients), NEW new,
           new = removeClientFromClientList(list, fd),
           NEW i \in DOMAIN new.clients
    PROVE  \E j \in DOMAIN list.clients : new.clients[i].FD = list.clients[j].FD
  <1>1. /\ list.clients \in Seq(Entries) /\ list.size \in Nat
        /\ Len(list.clients) \in Nat
        /\ DOMAIN list.clients = 1 .. Len(list.clients)
    BY LenProperties DEF ClientList, Entries
  <1>2. CASE SlotsOf(list, fd) = {}
    BY <1>2 DEF removeClientFromClientList
  <1>3. CASE SlotsOf(list, fd) # {}
    <2> DEFINE first == FirstSlot(list, fd)
               last == [list.clients[list.size] EXCEPT !.name = Freed]
    <2>1. list.size \in DOMAIN list.clients
      BY <1>1, <1>3 DEF SlotsOf, Live
    <2>2. last.FD = list.clients[list.size].FD
      <3>1. list.clients[list.size] \in Entries
        BY <1>1, <2>1, ElementOfSeq
      <3> QED
        BY <3>1 DEF Entries, Client
    <2>3. new.clients = [list.clients EXCEPT ![first] = last,
                                             ![list.size] = last]
      BY <1>3 DEF removeClientFromClientList
    <2> HIDE DEF first, last
    <2>4. i \in DOMAIN list.clients /\ new.clients[i] \in {list.clients[i], last}
      BY <1>1, <2>3
    <2> QED
      BY <2>1, <2>2, <2>4
  <1> QED
    BY <1>2, <1>3

----------------------------------------------------------------------------
(* The handlers of the registry. *)

\* The step of c sends a chunk to somebody who may hear it, or nothing.
Tells(c) ==
    \E f, part, p :
      /\ Emits(c, f, part, p)
      /\ TellsInUse(p)
      /\ p.type \in RoomTypes => MayHear(f, p.room)

\* A thread that writes nothing says nothing of descriptors.
LEMMA TellsNothing ==
    ASSUME NEW c \in Conns, out' = out
    PROVE  Tells(c)
  <1>1. Emits(c, NoFd, "header", Blank)
    BY DEF Emits
  <1>2. TellsInUse(Blank) /\ Blank.type \notin RoomTypes
    BY DEF TellsInUse, RoomTypes, Blank
  <1> QED
    BY <1>1, <1>2 DEF Tells

\* A live thread's descriptor is open.
LEMMA OwnInUse ==
    ASSUME ServerInv, NEW c \in Conns, Alive(c)
    PROVE  /\ th[c].fd \in Fds /\ fdTable[th[c].fd] = c
           /\ InUse(th[c].fd)
  BY DEF ServerInv, IndInv, FdInv, OneThreadPerFd, Alive, InUse

\* A list of users sent names open descriptors.
LEMMA ListInUse ==
    ASSUME ServerInv, InviteInv, NEW n \in Nat, n <= Len(clientList.clients),
           NEW p, p.type = "CLIENT_LIST",
           p.list = SubSeq(clientList.clients, 1, n)
    PROVE  TellsInUse(p)
  <1> DEFINE clients == clientList.clients
  <1>1. clients \in Seq(Entries) /\ Len(clients) \in Nat
    BY KnownTypes, LenProperties DEF ServerInv, IndInv, TypeOK, RegistryTypeOK,
       ClientList, Entries
  <1>2. \A i \in DOMAIN clients : InUse(clients[i].FD)
    BY DEF InviteInv, ToldInUse
  <1> HIDE DEF clients, Entries
  <1>3. DOMAIN clients = 1 .. Len(clients)
    BY <1>1, LenProperties
  <1>4. /\ DOMAIN SubSeq(clients, 1, n) = 1 .. n
        /\ \A i \in 1 .. n : SubSeq(clients, 1, n)[i] = clients[i]
    BY <1>1
  <1>5. \A j \in DOMAIN p.list : InUse(p.list[j].FD)
    BY <1>1, <1>2, <1>4, <1>3 DEF clients
  <1> QED
    BY <1>5 DEF TellsInUse

\* What the handlers of the registry write names open descriptors.
LEMMA RegistryTells ==
    ASSUME ServerInv, InviteInv, NEW c \in Conns, RegistryHandler(c)
    PROVE  Tells(c)
  <1>1. /\ th[c] \in Thread /\ InHandler(c) /\ NetTypeOK /\ SlotInv /\ NewsInv
        /\ th[c].n \in Nat /\ ~th[c].stale
        /\ clientList.size \in Nat
        /\ clientList.size <= Len(clientList.clients)
    BY KnownTypes DEF ServerInv, HandlerInv, Thread, InviteInv, AllStay
  \* Blank's fields, and the types of no room.
  <1>2. \A f, part, p : (Send(c, f, part, p) /\ TellsInUse(p)
                          /\ p.type \notin RoomTypes) => Tells(c)
    BY <1>1, SendEffect DEF Tells
  <1>3. CASE IntroduceHeader(c) \/ IntroducePayload(c)
    <2>1. th[c].pc \in {"introduce", "introducePayload"}
      BY <1>3 DEF IntroduceHeader, IntroducePayload, At
    <2>2. PICK f, part : Send(c, f, part, th[c].pkt)
      BY <1>3 DEF IntroduceHeader, IntroducePayload, SendHeader, SendPayload
    <2>3. Alive(c) /\ th[c].pkt.fd = th[c].fd
      BY <1>1, <2>1 DEF Alive, NewsInv
    <2>4. th[c].pkt.type = "USER_JOINED_SERVER"
      BY <1>1, <2>1 DEF InHandler
    <2>5. TellsInUse(th[c].pkt) /\ th[c].pkt.type \notin RoomTypes
      BY <2>3, <2>4, OwnInUse DEF TellsInUse, RoomTypes
    <2> QED
      BY <1>2, <2>2, <2>5
  <1>4. CASE ListHeader(c)
    <2> DEFINE p == [Blank EXCEPT !.type = "CLIENT_LIST",
                       !.list = SubSeq(clientList.clients, 1, clientList.size)]
    <2>1. Send(c, th[c].fd, "header", p)
      BY <1>4 DEF ListHeader, SendHeader
    <2>2. /\ p.type = "CLIENT_LIST"
          /\ p.list = SubSeq(clientList.clients, 1, clientList.size)
      BY DEF Blank
    <2> HIDE DEF p
    <2>3. TellsInUse(p) /\ p.type \notin RoomTypes
      BY <1>1, <2>2, ListInUse DEF RoomTypes
    <2> QED
      BY <1>2, <2>1, <2>3
  <1>5. CASE ListPayload(c)
    <2> DEFINE p == [th[c].pkt EXCEPT !.list =
                       SubSeq(clientList.clients, 1, th[c].n)]
    <2>1. Send(c, th[c].fd, "payload", p) /\ th[c].pc = "listPayload"
      BY <1>1, <1>5 DEF ListPayload, SendPayload, At
    <2>2. th[c].pkt.type = "CLIENT_LIST" /\ th[c].pkt \in Packet
          /\ th[c].n <= Len(clientList.clients)
      BY <1>1, <2>1 DEF InHandler, Thread, SlotInv, HoldsCopy
    <2>3. /\ p.type = "CLIENT_LIST"
          /\ p.list = SubSeq(clientList.clients, 1, th[c].n)
      BY <2>2 DEF Packet
    <2> HIDE DEF p
    <2>4. TellsInUse(p) /\ p.type \notin RoomTypes
      BY <1>1, <2>2, <2>3, ListInUse DEF RoomTypes
    <2> QED
      BY <1>2, <2>1, <2>4
  <1>6. CASE LeftHeader(c) \/ LeftPayload(c)
    <2>1. PICK f, part : Send(c, f, part, th[c].pkt)
      BY <1>6 DEF LeftHeader, LeftPayload, SendHeader, SendPayload
    <2>2. th[c].pkt.type = "USER_LEFT"
      BY <1>1, <1>6 DEF LeftHeader, LeftPayload, At, InHandler, Left, Blank
    <2>3. TellsInUse(th[c].pkt) /\ th[c].pkt.type \notin RoomTypes
      BY <2>2 DEF TellsInUse, RoomTypes
    <2> QED
      BY <1>2, <2>1, <2>3
  <1>7. CASE PeerChat(c)
    <2>1. /\ Send(c, Incoming(c).fd, "header", Incoming(c))
          /\ Incoming(c).type = "CHAT"
      BY <1>7 DEF PeerChat, SendHeader, Receives
    <2>2. TellsInUse(Incoming(c)) /\ Incoming(c).type \notin RoomTypes
      BY <2>1 DEF TellsInUse, RoomTypes
    <2> QED
      BY <1>2, <2>1, <2>2
  <1>8. CASE PeerChatPayload(c)
    <2>1. /\ Send(c, th[c].pkt.fd, "payload", th[c].pkt)
          /\ th[c].pkt.type = "CHAT"
      BY <1>1, <1>8 DEF PeerChatPayload, SendPayload, At, InHandler
    <2>2. TellsInUse(th[c].pkt) /\ th[c].pkt.type \notin RoomTypes
      BY <2>1 DEF TellsInUse, RoomTypes
    <2> QED
      BY <1>2, <2>1, <2>2
  <1>9. CASE \/ NewClient(c) \/ Register(c) \/ FollowsFreedPointer(c)
             \/ LeftClient(c) \/ LeftDone(c)
    <2>1. out' = out
      BY <1>9 DEF NewClient, Register, FollowsFreedPointer, LeftClient, LeftDone
    <2> QED
      BY <2>1, TellsNothing
  <1> QED
    BY <1>3, <1>4, <1>5, <1>6, <1>7, <1>8, <1>9 DEF RegistryHandler

\* What the list of users holds stays true, and no array moves.
LEMMA RegistryStays ==
    ASSUME ~ReallocMoves, ServerInv, InviteInv, NEW c \in Conns,
           ServerStep(c)
    PROVE  /\ \A d \in Conns : ~th'[d].stale
           /\ \A i \in DOMAIN clientList'.clients :
                InUse(clientList'.clients[i].FD)
  <1>1. /\ clientList \in ClientList(Names, AnyFd)
        /\ clientList.size <= Len(clientList.clients)
        /\ \A i \in DOMAIN clientList.clients : InUse(clientList.clients[i].FD)
        /\ \A d \in Conns : ~th[d].stale /\ th[d] \in Thread
        /\ th \in [Conns -> Thread] /\ IndInv
    BY KnownTypes DEF ServerInv, InviteInv, ToldInUse, AllStay
  <1>2. ASSUME NEW d \in Conns
        PROVE  ~th'[d].stale
    <2>1. CASE Register(c)
      <3>1. \E moves \in {FALSE, ReallocMoves /\ Grows(clientList)} :
              th' = [e \in Conns |->
                      IF e = c
                        THEN [th[c] EXCEPT !.pc = "list", !.stale = FALSE]
                        ELSE [th[e] EXCEPT !.stale =
                                th[e].stale \/ (moves /\ HoldsCopy(e))]]
        BY <2>1 DEF Register
      <3>2. th' = [e \in Conns |->
                     IF e = c
                       THEN [th[c] EXCEPT !.pc = "list", !.stale = FALSE]
                       ELSE [th[e] EXCEPT !.stale =
                               th[e].stale \/ (FALSE /\ HoldsCopy(e))]]
        BY <3>1
      <3>3. d = c => th'[d] = [th[c] EXCEPT !.pc = "list", !.stale = FALSE]
        BY <3>2
      <3>4. d # c => th'[d] = [th[d] EXCEPT !.stale =
                                 th[d].stale \/ (FALSE /\ HoldsCopy(d))]
        BY <3>2
      <3> QED
        BY <1>1, <3>3, <3>4 DEF Thread
    <2>2. CASE ~Register(c)
      <3>1. PICK t : th' = [th EXCEPT ![c] = t] /\ Keeps(c, t)
        BY <1>1, <2>2, OwnLocals
      <3> QED
        BY <1>1, <3>1 DEF Keeps
    <2> QED
      BY <2>1, <2>2
  <1>3. ASSUME NEW i \in DOMAIN clientList'.clients
        PROVE  InUse(clientList'.clients[i].FD)
    <2>1. CASE Register(c)
      <3> DEFINE client == [name |-> th[c].pkt.name, FD |-> th[c].fd]
      <3>1. /\ clientList' = addClientInClientList(clientList, client)
            /\ client.FD = th[c].fd /\ Alive(c)
        BY <2>1 DEF Register, At, Alive
      <3> HIDE DEF client
      <3>2. \/ clientList'.clients[i] = client
            \/ /\ i \in DOMAIN clientList.clients
               /\ clientList'.clients[i] = clientList.clients[i]
        BY <1>1, <3>1, AdditionSlots
      <3> QED
        BY <1>1, <3>1, <3>2, OwnInUse
    <2>2. CASE LeftClient(c)
      <3>1. clientList' = removeClientFromClientList(clientList, th[c].fd)
        BY <2>2 DEF LeftClient
      <3>2. \E j \in DOMAIN clientList.clients :
              clientList'.clients[i].FD = clientList.clients[j].FD
        BY <1>1, <3>1, RemovalSlots
      <3> QED
        BY <1>1, <3>2
    <2>3. CASE ~Register(c) /\ ~LeftClient(c)
      <3>1. clientList' = clientList
        BY <2>3, OwnEntry DEF ServerInv
      <3> QED
        BY <1>1, <3>1
    <2> QED
      BY <2>1, <2>2, <2>3
  <1> QED
    BY <1>2, <1>3

----------------------------------------------------------------------------
(* The handlers of the rooms. *)

\* Who is being put into a room may hear of it.
LEMMA JoinerHears ==
    ASSUME ServerInv, InviteInv, NEW c \in Conns,
           th[c].pc \in {"details", "detailsPayload"}
    PROVE  MayHear(th[c].pkt.fd, th[c].pkt.room)
  <1>1. /\ th[c].pkt = sent[c][th[c].got] /\ th[c].got \in 1 .. th[c].got
        /\ th[c].got \in DOMAIN sent[c]
    <2>1. /\ th[c].got >= 1 /\ th[c].got \in Nat /\ th[c].got <= Len(sent[c])
          /\ th[c].pkt = sent[c][th[c].got] /\ sent[c] \in Seq(Packet)
      BY InLoop, KnownTypes DEF InRoom, ServerInv, NetTypeOK
    <2> QED
      BY <2>1, LenProperties
  <1>2. th[c].pkt.type = "JOIN_ROOM"
    BY DEF InviteInv, TellsOfRoom
  <1>3. /\ fdTable[th[c].pkt.fd] = th[c].pkt.name /\ th[c].pkt.name \in Conns
    BY <1>1, <1>2 DEF InviteInv, JoinsNameOwners
  <1> QED
    BY <1>1, <1>2, <1>3 DEF MayHear, Invited

\* So may who is in a slot of the room's array.
LEMMA SlotHears ==
    ASSUME ServerInv, InviteInv, NEW c \in Conns, th[c].pc \in InRoom,
           th[c].i \in DOMAIN Members(c).clients
    PROVE  MayHear(MemberFd(c), th[c].pkt.room)
  <1>1. /\ th[c].room \in DOMAIN roomList
        /\ roomList[th[c].room].name = th[c].pkt.room
    BY InLoop DEF InviteInv, TellsOfRoom
  <1> QED
    BY <1>1 DEF InviteInv, SlotsInvited, MemberFd, Members

\* So does what the handlers of the rooms write.
LEMMA RoomTells ==
    ASSUME ServerInv, InviteInv, NEW c \in Conns, RoomHandler(c)
    PROVE  Tells(c)
  <1>1. NetTypeOK
    BY KnownTypes DEF ServerInv
  <1>2. \A f, part, p : (Send(c, f, part, p) /\ MayHear(f, p.room)
                          /\ p.type \notin {"USER_JOINED_SERVER", "CLIENT_LIST"})
                        => Tells(c)
    BY <1>1, SendEffect DEF Tells, TellsInUse
  <1>3. CASE RoomHeader(c) \/ RoomPayload(c)
    <2>1. /\ th[c].pc \in {"room", "roomPayload"}
          /\ \E part : Send(c, MemberFd(c), part, th[c].pkt)
      BY <1>3 DEF RoomHeader, RoomPayload, At, SendHeader, SendPayload
    <2>2. th[c].i \in DOMAIN Members(c).clients
      BY <1>3, LoopSlot DEF RoomHeader, RoomPayload, At, ServerInv, RoomInv,
         RoomLocals, Members
    <2>3. /\ th[c].pc \in InRoom
          /\ th[c].pkt.type \notin {"USER_JOINED_SERVER", "CLIENT_LIST"}
      BY <2>1, InLoop DEF InRoom, RoomOrders
    <2> QED
      BY <1>2, <2>1, <2>2, <2>3, SlotHears
  <1>4. CASE KickedHeader(c) \/ KickedPayload(c)
    <2> DEFINE p == KickedPacket(th[c].pkt)
    <2>1. \E part : Send(c, th[c].pkt.fd, part, p)
      BY <1>4 DEF KickedHeader, KickedPayload, SendHeader, SendPayload
    <2>2. p.type = "KICKED" /\ p.room = th[c].pkt.room
      BY DEF KickedPacket, Blank
    <2> HIDE DEF p
    <2>3. MayHear(th[c].pkt.fd, th[c].pkt.room)
      <3>1. CASE KickedHeader(c)
        <4>1. /\ th[c].pc = "room" /\ MemberFd(c) = th[c].pkt.fd
              /\ th[c].i <= Members(c).size
          BY <3>1 DEF KickedHeader, At, AtKicked
        <4> QED
          BY <4>1, LoopSlot, SlotHears DEF InRoom
      <3>2. CASE KickedPayload(c)
        BY <3>2 DEF KickedPayload, At, InviteInv, TellsOfRoom
      <3> QED
        BY <1>4, <3>1, <3>2
    <2> QED
      BY <1>2, <2>1, <2>2, <2>3
  <1>5. CASE DetailsHeader(c)
    <2>1. th[c].pc = "details"
      BY <1>5 DEF DetailsHeader, At
    <2> DEFINE p == [Blank EXCEPT !.type = "GROUP_LIST",
                       !.room = roomList[th[c].room].name,
                       !.fd = roomList[th[c].room].admin,
                       !.list = SubSeq(Members(c).clients, 1, Members(c).size)]
    <2>2. /\ Send(c, th[c].pkt.fd, "header", p)
          /\ p.type = "GROUP_LIST" /\ p.room = roomList[th[c].room].name
      BY <1>5 DEF DetailsHeader, SendHeader, Blank
    <2> HIDE DEF p
    <2>3. p.room = th[c].pkt.room
      BY <2>1, <2>2 DEF InviteInv, TellsOfRoom, InRoom
    <2> QED
      BY <1>2, <2>1, <2>2, <2>3, JoinerHears
  <1>6. CASE DetailsPayload(c)
    <2>1. /\ th[c].pc = "detailsPayload"
          /\ Send(c, th[c].pkt.fd, "payload", th[c].msg)
      BY <1>6 DEF DetailsPayload, At, SendPayload
    <2>2. /\ th[c].msg.type = "GROUP_LIST"
          /\ th[c].msg.room = th[c].pkt.room
      BY <2>1 DEF InviteInv, TellsOfRoom, ServerInv, RoomInv, RoomLocals
    <2> QED
      BY <1>2, <2>1, <2>2, JoinerHears
  <1>7. CASE \/ NewRoom(c) \/ NewMember(c) \/ GroupChat(c) \/ LeftMember(c)
             \/ KickMember(c) \/ RoomSkip(c) \/ RoomDone(c)
    <2>1. out' = out
      BY <1>7 DEF NewRoom, NewMember, GroupChat, LeftMember, KickMember,
         RoomSkip, RoomDone
    <2> QED
      BY <2>1, TellsNothing
  <1> QED
    BY <1>3, <1>4, <1>5, <1>6, <1>7 DEF RoomHandler

\* What a handler of a room does to its thread, the sockets and the rooms.
RoomEffect(c) ==
    /\ RoomFrame(c)
    /\ UNCHANGED <<fdTable, sent, clientList>>
    /\ LeavesPeers
    /\ th[c].got \in Nat /\ th'[c].got \in Nat /\ th[c].got <= th'[c].got
    /\ th[c].pc # "new" /\ \A d \in Conns : th'[d].stale => th[d].stale
    /\ \A g \in DOMAIN roomList :
         g \in DOMAIN roomList' /\ roomList'[g].name = roomList[g].name

\* The thread goes on in its loop, or goes back to recvAll().
LEMMA GoesOnEffect ==
    ASSUME ServerInv, NEW c \in Conns, NEW pc, NEW i, NEW msg,
           th' = [th EXCEPT ![c] = [th[c] EXCEPT !.pc = pc, !.i = i, !.msg = msg]]
    PROVE  /\ RoomFrame(c) /\ th'[c].got = th[c].got
           /\ th'[c].pc = pc /\ th'[c].msg = msg
           /\ th'[c].pkt = th[c].pkt /\ th'[c].room = th[c].room
           /\ \A d \in Conns : th'[d].stale = th[d].stale
  <1>1. th \in [Conns -> Thread] /\ th[c] \in Thread
    BY KnownTypes DEF ServerInv
  <1>2. /\ \A d \in Conns \ {c} : th'[d] = th[d]
        /\ th'[c] = [th[c] EXCEPT !.pc = pc, !.i = i, !.msg = msg]
    BY <1>1
  <1> QED
    BY <1>1, <1>2 DEF Thread, RoomFrame

\* A thread that goes back to recv() past k packets keeps the rest.
LEMMA IdleEffect ==
    ASSUME ServerInv, NEW c \in Conns, NEW k \in Nat,
           th' = [th EXCEPT ![c] = Idle(th[c], k)]
    PROVE  /\ RoomFrame(c) /\ th'[c].got = th[c].got + k
           /\ th'[c].pc = "recv" /\ th'[c].pkt = Blank
           /\ \A d \in Conns : th'[d].stale => th[d].stale
  <1>1. th \in [Conns -> Thread] /\ th[c] \in Thread
    BY KnownTypes DEF ServerInv
  <1>2. /\ \A d \in Conns \ {c} : th'[d] = th[d]
        /\ th'[c] = Idle(th[c], k)
    BY <1>1
  <1>3. /\ Idle(th[c], k).got = th[c].got + k /\ Idle(th[c], k).pc = "recv"
    BY <1>1, IdleType
  <1>4. ~Idle(th[c], k).stale /\ Idle(th[c], k).pkt = Blank
    BY BlankType DEF Idle, NewThread, Thread
  <1> QED
    BY <1>1, <1>2, <1>3, <1>4 DEF RoomFrame

\* What the handlers do to the rooms: a new one, another member list, or nothing.
LEMMA RoomChanges ==
    ASSUME ServerInv, NEW c \in Conns, RoomHandler(c)
    PROVE  \/ roomList' = roomList
           \/ NewRoom(c)
           \/ NewMember(c)
           \/ \E g \in DOMAIN roomList : \E fd : RemoveMember(g, fd)
  <1>1. CASE RoomDone(c)
    <2>1. th[c].pc \in InRoom
      BY <1>1 DEF RoomDone, At, InRoom
    <2>2. th[c].room \in DOMAIN roomList
      BY <2>1, InLoop
    <2> QED
      BY <1>1, <2>2 DEF RoomDone
  <1>2. CASE LeftMember(c)
    BY <1>2 DEF LeftMember
  <1>3. CASE ~RoomDone(c) /\ ~LeftMember(c) /\ ~NewRoom(c) /\ ~NewMember(c)
    BY <1>3 DEF RoomHandler, GroupChat, KickMember, DetailsHeader,
       DetailsPayload, RoomHeader, RoomPayload, RoomSkip, KickedHeader,
       KickedPayload
  <1> QED
    BY <1>1, <1>2, <1>3

\* A room keeps its place in roomList and its name.
LEMMA RoomNames ==
    ASSUME ServerInv, NEW c \in Conns, RoomHandler(c)
    PROVE  \A g \in DOMAIN roomList :
             g \in DOMAIN roomList' /\ roomList'[g].name = roomList[g].name
  <1>1. CASE roomList' = roomList
    BY <1>1
  <1>2. CASE NewRoom(c)
    <2>1. \E r : roomList' = Append(roomList, r)
      BY <1>2 DEF NewRoom
    <2>2. roomList \in Seq(Room)
      BY DEF ServerInv, RoomInv, RoomsTypeOK
    <2> QED
      BY <2>1, <2>2
  <1>3. ASSUME NEW g \in DOMAIN roomList, NEW new,
               roomList' = [roomList EXCEPT ![g].members = new]
        PROVE  \A h \in DOMAIN roomList :
                 h \in DOMAIN roomList' /\ roomList'[h].name = roomList[h].name
    BY <1>3, OneRoomChanges DEF RoomsStay
  <1>4. CASE NewMember(c)
    BY <1>3, <1>4 DEF NewMember
  <1>5. CASE \E g \in DOMAIN roomList : \E fd : RemoveMember(g, fd)
    BY <1>3, <1>5 DEF RemoveMember
  <1> QED
    BY <1>1, <1>2, <1>4, <1>5, RoomChanges

\* Every step of the handlers of the rooms has the effect RoomEffect.
LEMMA RoomEffects ==
    ASSUME ServerInv, InviteInv, NEW c \in Conns, RoomHandler(c),
           UNCHANGED clientList
    PROVE  RoomEffect(c) /\ TellsOfRoom(c)'
  <1>1. /\ th[c] \in Thread /\ th[c].got \in Nat /\ NetTypeOK
        /\ th \in [Conns -> Thread] /\ th[c].got + 0 = th[c].got
        /\ th[c].got + 1 \in Nat /\ th[c].got <= th[c].got + 1
    BY KnownTypes DEF ServerInv, Thread
  <1>2. /\ UNCHANGED <<fdTable, sent>> /\ th[c].pc # "new"
    BY DEF RoomHandler, NewRoom, NewMember, GroupChat, LeftMember, KickMember,
       DetailsHeader, DetailsPayload, RoomHeader, RoomPayload, RoomSkip,
       KickedHeader, KickedPayload, RoomDone, At, Receives
  <1>3. LeavesPeers
    <2>1. \/ peer' = peer
          \/ \E f, part, p : Send(c, f, part, p)
      BY DEF RoomHandler, NewRoom, NewMember, GroupChat, LeftMember, KickMember,
         DetailsHeader, DetailsPayload, RoomHeader, RoomPayload, RoomSkip,
         KickedHeader, KickedPayload, RoomDone, SendHeader, SendPayload
    <2> QED
      BY <1>1, <2>1, SendEffect DEF LeavesPeers
  <1>4. \A g \in DOMAIN roomList :
          g \in DOMAIN roomList' /\ roomList'[g].name = roomList[g].name
    BY RoomNames DEF ServerInv
  <1>5. ASSUME RoomFrame(c), th'[c].got \in {th[c].got, th[c].got + 1},
               \A d \in Conns : th'[d].stale => th[d].stale
        PROVE  RoomEffect(c)
    BY <1>1, <1>2, <1>3, <1>4, <1>5 DEF RoomEffect
  <1>6. ASSUME NEW k \in {0, 1}, th' = [th EXCEPT ![c] = Idle(th[c], k)]
        PROVE  RoomEffect(c) /\ TellsOfRoom(c)'
    <2>1. k \in Nat
      OBVIOUS
    <2> QED
      BY <1>1, <1>5, <1>6, <2>1, IdleEffect DEF TellsOfRoom, InRoom
  <1>7. ASSUME NEW g \in DOMAIN roomList, NEW pc, EnterRoom(c, g, pc),
               roomList[g].name = Incoming(c).room,
               \/ pc = "room"
               \/ pc = "details" /\ Incoming(c).type = "JOIN_ROOM"
        PROVE  RoomEffect(c) /\ TellsOfRoom(c)'
    <2> DEFINE t == [th[c] EXCEPT !.pc = pc, !.got = @ + 1, !.i = 1,
                                  !.pkt = Incoming(c), !.room = g]
    <2>1. th'[c] = t /\ \A d \in Conns \ {c} : th'[d] = th[d]
      BY <1>1, <1>7 DEF EnterRoom
    <2>2. /\ t.pc = pc /\ t.got = th[c].got + 1 /\ t.pkt = Incoming(c)
          /\ t.room = g /\ t.stale = th[c].stale
      BY <1>1 DEF Thread
    <2> HIDE DEF t
    <2>3. RoomEffect(c)
      BY <1>5, <2>1, <2>2 DEF RoomFrame
    <2>4. roomList'[g].name = Incoming(c).room
      BY <1>4, <1>7
    <2>5. /\ th'[c].pc \in {"room", "details"} /\ th'[c].room = g
          /\ th'[c].pkt = Incoming(c)
          /\ th'[c].pc = "details" => Incoming(c).type = "JOIN_ROOM"
      BY <1>7, <2>1, <2>2
    <2> HIDE DEF Incoming
    <2>6. TellsOfRoom(c)'
      BY <2>4, <2>5 DEF TellsOfRoom
    <2> QED
      BY <2>3, <2>6
  <1>8. ASSUME NEW pc \in InRoom, NEW i, NEW msg,
               th' = [th EXCEPT ![c] = [th[c] EXCEPT !.pc = pc, !.i = i,
                                                     !.msg = msg]],
               th[c].pc \in InRoom, roomList' = roomList,
               pc = "detailsPayload" =>
                 msg.room = th[c].pkt.room /\ th[c].pc = "details",
               pc # "details",
               pc = "kickedPayload" =>
                 MayHear(th[c].pkt.fd, th[c].pkt.room)
        PROVE  RoomEffect(c) /\ TellsOfRoom(c)'
    <2>1. /\ RoomFrame(c) /\ th'[c].got = th[c].got
          /\ th'[c].pc = pc /\ th'[c].msg = msg
          /\ th'[c].pkt = th[c].pkt /\ th'[c].room = th[c].room
          /\ \A d \in Conns : th'[d].stale = th[d].stale
      BY <1>8, GoesOnEffect
    <2>2. RoomEffect(c)
      BY <1>5, <2>1
    <2>3. TellsOfRoom(c)
      BY DEF InviteInv
    <2>4. Onwards
      BY <1>1, <1>2, <2>1, <2>2 DEF Onwards, RoomFrame
    <2>5. MayHear(th[c].pkt.fd, th[c].pkt.room)
            => MayHearNext(th[c].pkt.fd, th[c].pkt.room)
      BY <2>4, InvitedOn
    <2>6. MayHearNext(th[c].pkt.fd, th[c].pkt.room)
            => MayHear(th[c].pkt.fd, th[c].pkt.room)'
      BY <2>1 DEF MayHear, MayHearNext, Invited, InvitedNext, Created, Wrote
    <2>7. TellsOfRoom(c)'
      BY <1>8, <2>1, <2>3, <2>5, <2>6 DEF TellsOfRoom
    <2> QED
      BY <2>2, <2>7
  <1>9. CASE NewRoom(c)
    BY <1>6, <1>9 DEF NewRoom, ReceiveAndReturn
  <1>10. CASE NewMember(c)
    <2>1. PICK g \in DOMAIN roomList :
            /\ roomList[g].name = Incoming(c).room
            /\ EnterRoom(c, g, "details") /\ Incoming(c).type = "JOIN_ROOM"
      BY <1>10 DEF NewMember, IsFirst, Named, Receives
    <2> QED
      BY <1>7, <2>1
  <1>11. CASE GroupChat(c) \/ LeftMember(c)
    <2>1. PICK g \in DOMAIN roomList :
            /\ roomList[g].name = Incoming(c).room
            /\ EnterRoom(c, g, "room")
      BY <1>11 DEF GroupChat, LeftMember, IsFirst, Named
    <2> QED
      BY <1>7, <2>1
  <1>12. CASE KickMember(c)
    <2>1. CASE 1 \in Named(Incoming(c).room)
      <3>1. /\ 1 \in DOMAIN roomList /\ roomList[1].name = Incoming(c).room
            /\ EnterRoom(c, 1, "room")
        BY <1>12, <2>1 DEF KickMember, Named
      <3> QED
        BY <1>7, <3>1
    <2>2. CASE 1 \notin Named(Incoming(c).room)
      BY <1>6, <1>12, <2>2 DEF KickMember, ReceiveAndReturn
    <2> QED
      BY <2>1, <2>2
  <1>13. CASE RoomDone(c)
    BY <1>6, <1>13 DEF RoomDone, Return
  <1>14. CASE DetailsHeader(c)
    <2> DEFINE p == [Blank EXCEPT !.type = "GROUP_LIST",
                       !.room = roomList[th[c].room].name,
                       !.fd = roomList[th[c].room].admin,
                       !.list = SubSeq(Members(c).clients, 1, Members(c).size)]
    <2>1. /\ th[c].pc = "details" /\ roomList' = roomList
          /\ th' = [th EXCEPT ![c] = [th[c] EXCEPT !.pc = "detailsPayload",
                                                   !.msg = p]]
      BY <1>14 DEF DetailsHeader, At
    <2>2. p.room = roomList[th[c].room].name
      BY DEF Blank
    <2> HIDE DEF p
    <2>3. p.room = th[c].pkt.room
      BY <2>1, <2>2 DEF InviteInv, TellsOfRoom, InRoom
    <2>4. [th[c] EXCEPT !.pc = "detailsPayload", !.msg = p]
            = [th[c] EXCEPT !.pc = "detailsPayload", !.i = th[c].i, !.msg = p]
      BY <1>1 DEF Thread
    <2> QED
      BY <1>8, <2>1, <2>3, <2>4 DEF InRoom
  <1>15. CASE DetailsPayload(c)
    <2>1. /\ th[c].pc = "detailsPayload" /\ roomList' = roomList
          /\ th' = [th EXCEPT ![c] = [th[c] EXCEPT !.pc = "room", !.msg = Blank]]
      BY <1>15 DEF DetailsPayload, At
    <2>2. [th[c] EXCEPT !.pc = "room", !.msg = Blank]
            = [th[c] EXCEPT !.pc = "room", !.i = th[c].i, !.msg = Blank]
      BY <1>1 DEF Thread
    <2> QED
      BY <1>8, <2>1, <2>2 DEF InRoom
  <1>16. CASE RoomHeader(c)
    <2>1. /\ th[c].pc = "room" /\ roomList' = roomList
          /\ th' = [th EXCEPT ![c] = [th[c] EXCEPT !.pc = "roomPayload"]]
      BY <1>16 DEF RoomHeader, At
    <2>2. [th[c] EXCEPT !.pc = "roomPayload"]
            = [th[c] EXCEPT !.pc = "roomPayload", !.i = th[c].i,
                            !.msg = th[c].msg]
      BY <1>1 DEF Thread
    <2> QED
      BY <1>8, <2>1, <2>2 DEF InRoom
  <1>17. CASE KickedHeader(c)
    <2>1. /\ th[c].pc = "room" /\ roomList' = roomList
          /\ MemberFd(c) = th[c].pkt.fd /\ th[c].i <= Members(c).size
          /\ th' = [th EXCEPT ![c] = [th[c] EXCEPT !.pc = "kickedPayload"]]
      BY <1>17 DEF KickedHeader, At, AtKicked
    <2>2. [th[c] EXCEPT !.pc = "kickedPayload"]
            = [th[c] EXCEPT !.pc = "kickedPayload", !.i = th[c].i,
                            !.msg = th[c].msg]
      BY <1>1 DEF Thread
    <2>3. MayHear(th[c].pkt.fd, th[c].pkt.room)
      BY <2>1, LoopSlot, SlotHears DEF InRoom
    <2> QED
      BY <1>8, <2>1, <2>2, <2>3 DEF InRoom
  <1>18. CASE RoomPayload(c) \/ KickedPayload(c)
    <2>1. /\ th[c].pc \in {"roomPayload", "kickedPayload"}
          /\ roomList' = roomList
          /\ th' = [th EXCEPT ![c] = [th[c] EXCEPT !.pc = "room", !.i = @ + 1]]
      BY <1>18 DEF RoomPayload, KickedPayload, At
    <2>2. [th[c] EXCEPT !.pc = "room", !.i = @ + 1]
            = [th[c] EXCEPT !.pc = "room", !.i = th[c].i + 1, !.msg = th[c].msg]
      BY <1>1 DEF Thread
    <2> QED
      BY <1>8, <2>1, <2>2 DEF InRoom
  <1>19. CASE RoomSkip(c)
    <2>1. /\ th[c].pc = "room" /\ roomList' = roomList
          /\ th' = [th EXCEPT ![c] = [th[c] EXCEPT !.i = @ + 1]]
      BY <1>19 DEF RoomSkip, At
    <2>2. [th[c] EXCEPT !.i = @ + 1]
            = [th[c] EXCEPT !.pc = "room", !.i = th[c].i + 1, !.msg = th[c].msg]
      BY <1>1, <2>1 DEF Thread
    <2> QED
      BY <1>8, <2>1, <2>2 DEF InRoom
  <1> QED
    BY <1>9, <1>10, <1>11, <1>12, <1>13, <1>14, <1>15, <1>16, <1>17, <1>18,
       <1>19 DEF RoomHandler

\* The slots of the rooms, after an addition or a removal too.
LEMMA RoomSlots ==
    ASSUME ServerInv, InviteInv, NEW c \in Conns, RoomHandler(c), Onwards,
           RoomEffect(c)
    PROVE  SlotsInvited'
  <1>1. /\ roomList \in Seq(Room) /\ fdTable' = fdTable /\ sent' = sent
        /\ \A f, r : MayHear(f, r) => MayHearNext(f, r)
        /\ DOMAIN roomList = 1 .. Len(roomList) /\ Len(roomList) \in Nat
    BY InvitedOn, LenProperties DEF ServerInv, RoomInv, RoomsTypeOK, RoomEffect
  <1>2. \A g \in DOMAIN roomList :
          \A i \in DOMAIN roomList[g].members.clients :
            MayHearNext(roomList[g].members.clients[i].FD, roomList[g].name)
    BY <1>1 DEF InviteInv, SlotsInvited
  <1>3. (\A g \in DOMAIN roomList' :
           \A i \in DOMAIN roomList'[g].members.clients :
             MayHearNext(roomList'[g].members.clients[i].FD, roomList'[g].name))
        => SlotsInvited'
    <2> SUFFICES ASSUME NEW g \in DOMAIN roomList',
                        NEW i \in DOMAIN roomList'[g].members.clients,
                        MayHearNext(roomList'[g].members.clients[i].FD,
                                    roomList'[g].name)
                 PROVE  MayHear(roomList[g].members.clients[i].FD,
                                roomList[g].name)'
      BY DEF SlotsInvited
    <2> QED
      BY DEF MayHear, MayHearNext, Invited, InvitedNext, Created, Wrote
  <1>4. CASE roomList' = roomList
    BY <1>2, <1>3, <1>4
  <1>5. ASSUME NEW g \in DOMAIN roomList, NEW new,
               roomList' = [roomList EXCEPT ![g].members = new],
               \A i \in DOMAIN new.clients :
                 MayHearNext(new.clients[i].FD, roomList[g].name)
        PROVE  SlotsInvited'
    <2>1. /\ DOMAIN roomList' = DOMAIN roomList
          /\ roomList'[g].members = new
          /\ \A h \in DOMAIN roomList :
               h # g => roomList'[h].members = roomList[h].members
          /\ \A h \in DOMAIN roomList : roomList'[h].name = roomList[h].name
      BY <1>5, OneRoomChanges DEF RoomsStay
    <2> QED
      BY <1>2, <1>3, <1>5, <2>1
  \* What the thread has just received counts.
  <1>6. ASSUME NEW type, Receives(c, type), th'[c].got = th[c].got + 1
        PROVE  /\ th[c].got + 1 \in 1 .. th'[c].got
               /\ th[c].got + 1 \in DOMAIN sent[c]
               /\ sent'[c][th[c].got + 1] = Incoming(c)
               /\ Incoming(c).type = type
    <2>1. /\ th[c].got \in Nat /\ sent[c] \in Seq(Packet)
          /\ th[c].got < Len(sent[c])
      BY <1>6, KnownTypes DEF ServerInv, NetTypeOK, Thread, Receives
    <2> QED
      BY <1>1, <1>6, <2>1, LenProperties DEF Incoming, Receives
  <1>7. CASE NewRoom(c)
    <2> DEFINE admin == [name |-> Incoming(c).name, FD |-> th[c].fd]
               new == [name    |-> Incoming(c).room,
                       admin   |-> admin.FD,
                       members |-> addClientInClientList(EmptyList, admin)]
    <2>1. roomList' = Append(roomList, new)
      BY <1>7 DEF NewRoom
    <2>2. /\ new.name = Incoming(c).room
          /\ new.members.clients = <<admin>> /\ admin.FD = th[c].fd
      BY DEF addClientInClientList, EmptyList
    <2> HIDE DEF admin, new
    <2>3. MayHearNext(th[c].fd, Incoming(c).room)
      <3>1. Receives(c, "CREATE_ROOM") /\ th[c].pc = "recv"
        BY <1>7 DEF NewRoom, Receives
      <3>2. th' = [th EXCEPT ![c] = Idle(th[c], 1)]
        BY <1>7 DEF NewRoom, ReceiveAndReturn
      <3>3. th'[c].got = th[c].got + 1
        BY <3>2, IdleEffect
      <3>4. InvitedNext(c, Incoming(c).room)
        BY <1>1, <1>6, <3>1, <3>3 DEF InvitedNext
      <3>5. fdTable[th[c].fd] = c
        BY <3>1, OwnInUse DEF Alive
      <3> QED
        BY <1>1, <3>4, <3>5 DEF MayHearNext
    <2>4. /\ DOMAIN roomList' = 1 .. Len(roomList) + 1
          /\ \A g \in 1 .. Len(roomList) : roomList'[g] = roomList[g]
          /\ roomList'[Len(roomList) + 1] = new
      BY <1>1, <2>1
    <2>5. ASSUME NEW g \in DOMAIN roomList',
                 NEW i \in DOMAIN roomList'[g].members.clients
          PROVE  MayHearNext(roomList'[g].members.clients[i].FD,
                             roomList'[g].name)
      <3>1. CASE g \in DOMAIN roomList
        BY <1>1, <1>2, <2>4, <2>5, <3>1
      <3>2. CASE roomList'[g] = new
        <4>1. i = 1
          BY <2>2, <2>5, <3>2
        <4> QED
          BY <2>2, <2>3, <3>2, <4>1
      <3> QED
        BY <1>1, <2>4, <3>1, <3>2
    <2> QED
      BY <1>3, <2>5
  <1>8. CASE NewMember(c)
    <2> DEFINE client == [name |-> Incoming(c).name, FD |-> Incoming(c).fd]
    <2>1. PICK g \in DOMAIN roomList :
            /\ roomList[g].name = Incoming(c).room
            /\ roomList' = [roomList EXCEPT ![g].members =
                              addClientInClientList(@, client)]
            /\ EnterRoom(c, g, "details")
      BY <1>8 DEF NewMember, IsFirst, Named
    <2>2. client.FD = Incoming(c).fd
      OBVIOUS
    <2> HIDE DEF client
    <2>3. MayHearNext(Incoming(c).fd, Incoming(c).room)
      <3>1. Receives(c, "JOIN_ROOM")
        BY <1>8 DEF NewMember
      <3>2. th'[c].got = th[c].got + 1
        <4>1. th[c] \in Thread /\ th \in [Conns -> Thread]
          BY KnownTypes DEF ServerInv
        <4> QED
          BY <2>1, <4>1 DEF EnterRoom, Thread
      <3>3. /\ sent'[c][th[c].got + 1] = Incoming(c)
            /\ th[c].got + 1 \in 1 .. th'[c].got
            /\ th[c].got + 1 \in DOMAIN sent[c]
            /\ Incoming(c).type = "JOIN_ROOM"
        BY <1>6, <3>1, <3>2
      <3>4. /\ fdTable[Incoming(c).fd] = Incoming(c).name
            /\ Incoming(c).name \in Conns
        BY <1>1, <3>3 DEF InviteInv, JoinsNameOwners
      <3>5. InvitedNext(Incoming(c).name, Incoming(c).room)
        BY <3>3 DEF InvitedNext
      <3> QED
        BY <1>1, <3>4, <3>5 DEF MayHearNext
    <2> DEFINE new == addClientInClientList(roomList[g].members, client)
    <2>4. ASSUME NEW i \in DOMAIN new.clients
          PROVE  MayHearNext(new.clients[i].FD, roomList[g].name)
      <3>1. \/ new.clients[i] = client
            \/ /\ i \in DOMAIN roomList[g].members.clients
               /\ new.clients[i] = roomList[g].members.clients[i]
        BY RoomKnown, AdditionSlots
      <3> QED
        BY <1>2, <2>1, <2>2, <2>3, <3>1
    <2>5. roomList' = [roomList EXCEPT ![g].members = new]
      BY <2>1
    <2> HIDE DEF new
    <2> QED
      BY <1>5, <2>4, <2>5
  <1>9. ASSUME NEW g \in DOMAIN roomList, NEW fd, RemoveMember(g, fd)
        PROVE  SlotsInvited'
    <2> DEFINE new == removeClientFromClientList(roomList[g].members, fd)
    <2>1. roomList' = [roomList EXCEPT ![g].members = new]
      BY <1>9 DEF RemoveMember
    <2>2. ASSUME NEW i \in DOMAIN new.clients
          PROVE  MayHearNext(new.clients[i].FD, roomList[g].name)
      <3>1. \E j \in DOMAIN roomList[g].members.clients :
              new.clients[i].FD = roomList[g].members.clients[j].FD
        <4>1. /\ roomList[g].members \in ClientList(Names, AnyFd)
              /\ roomList[g].members.size <= Len(roomList[g].members.clients)
          BY RoomKnown
        <4> QED
          BY <4>1, RemovalSlots
      <3> QED
        BY <1>2, <3>1
    <2> HIDE DEF new
    <2> QED
      BY <1>5, <2>1, <2>2
  <1> QED
    BY <1>4, <1>7, <1>8, <1>9, RoomChanges

----------------------------------------------------------------------------
(* The steps. *)

\* A handler that shuts no socket leaves everybody in place.
LEMMA StaySame ==
    ASSUME ServerInv, InviteInv, NEW c \in Conns, RoomFrame(c), LeavesPeers,
           th[c].pc # "new", \A d \in Conns : ~th'[d].stale
    PROVE  AllStay'
  <1>1. \A d \in Conns : peer'[d] = peer[d]
    BY DEF LeavesPeers, InviteInv, AllStay
  <1> QED
    BY <1>1 DEF AllStay, InviteInv, RoomFrame

\* The handlers of the rooms preserve the invariant.
LEMMA RoomStepInvites ==
    ASSUME ServerInv, InviteInv, NEW c \in Conns, RoomHandler(c),
           UNCHANGED clientList
    PROVE  InviteInv'
  <1>1. RoomEffect(c) /\ TellsOfRoom(c)' /\ Tells(c)
    BY RoomEffects, RoomTells
  <1>2. Onwards
    BY <1>1 DEF Onwards, RoomEffect, RoomFrame
  <1>3. SlotsInvited'
    BY <1>1, <1>2, RoomSlots
  <1>4. AllStay'
    BY <1>1, StaySame DEF RoomEffect, InviteInv, AllStay
  <1>5. JoinsNameOwners'
    BY <1>1 DEF RoomEffect, InviteInv, JoinsNameOwners
  <1>6. \A i \in DOMAIN clientList'.clients :
          InUseNext(clientList'.clients[i].FD)
    BY <1>1 DEF RoomEffect, InviteInv, ToldInUse, InUse, InUseNext
  <1>7. PICK f, part, p :
          /\ Emits(c, f, part, p)
          /\ TellsInUse(p)
          /\ p.type \in RoomTypes => MayHear(f, p.room)
    BY <1>1 DEF Tells
  <1> QED
    BY <1>1, <1>2, <1>3, <1>4, <1>5, <1>6, <1>7, InviteStep DEF RoomEffect

\* Where the rooms are left alone, they are what they were.
LEMMA SameSlots ==
    ASSUME ServerInv, InviteInv, Onwards, roomList' = roomList
    PROVE  SlotsInvited'
  <1>1. \A f, r : MayHear(f, r) => MayHearNext(f, r)
    BY InvitedOn
  <1>2. ASSUME NEW g \in DOMAIN roomList,
               NEW i \in DOMAIN roomList[g].members.clients
        PROVE  MayHear(roomList[g].members.clients[i].FD, roomList[g].name)'
    <2>1. MayHearNext(roomList[g].members.clients[i].FD, roomList[g].name)
      BY <1>1 DEF InviteInv, SlotsInvited
    <2> QED
      BY <2>1 DEF MayHear, MayHearNext, Invited, InvitedNext, Created, Wrote
  <1> QED
    BY <1>2 DEF SlotsInvited

\* Open descriptors stay with their users while nobody's socket is shut.
LEMMA RegistryOnwards ==
    ASSUME ServerInv, InviteInv, NEW c \in Conns, ServerStep(c)
    PROVE  Onwards /\ ~Close(c)
  <1>1. RegistryEffect(c) /\ \A d \in Conns : th[d].got \in Nat
    BY RegistryEffects, KnownTypes DEF ServerInv, Thread
  <1>2. ~Close(c)
    <2>1. th[c].pc = "recv" => peer[c] = "open"
      BY DEF InviteInv, AllStay
    <2> QED
      BY <2>1 DEF Close, At
  <1>3. \A f \in Fds : fdTable[f] \in Conns => fdTable'[f] = fdTable[f]
    <2>1. CASE Accept(c)
      <3>1. PICK f \in Fds : /\ fdTable[f] = NoConn
                             /\ fdTable' = [fdTable EXCEPT ![f] = c]
        BY <2>1 DEF Accept
      <3>2. fdTable \in [Fds -> Conns \cup {NoConn}] /\ NoConn \notin Conns
        BY KnownTypes, TransportAssumption DEF ServerInv, NetTypeOK
      <3> QED
        BY <3>1, <3>2
    <2>2. CASE ~Accept(c)
      <3>1. fdTable' = fdTable
        BY <1>2, <2>2 DEF ServerStep, ReadsNull, RegistryHandler, NewClient,
           IntroduceHeader, IntroducePayload, Register, ListHeader,
           ListPayload, FollowsFreedPointer, LeftClient, LeftHeader,
           LeftPayload, LeftDone, PeerChat, PeerChatPayload
      <3> QED
        BY <3>1
    <2> QED
      BY <2>1, <2>2
  <1>4. Onwards
    BY <1>1, <1>3 DEF Onwards, RegistryEffect, RoomFrame
  <1> QED
    BY <1>2, <1>4

\* The thread of a connection outside the loops over rooms.
LEMMA RegistryStepInvites ==
    ASSUME ~ReallocMoves, ServerInv, InviteInv, NEW c \in Conns,
           ServerStep(c), roomList' = roomList
    PROVE  InviteInv'
  <1>1. /\ RegistryEffect(c)
        /\ \A d \in Conns : th[d].got \in Nat
        /\ \A d \in Conns : ~th'[d].stale
        /\ \A i \in DOMAIN clientList'.clients :
             InUse(clientList'.clients[i].FD)
    BY RegistryEffects, RegistryStays, KnownTypes DEF ServerInv, Thread
  <1>2. ~Close(c)
    BY RegistryOnwards
  <1>3. \A f \in Fds : fdTable[f] \in Conns => fdTable'[f] = fdTable[f]
    BY RegistryOnwards DEF Onwards
  <1>4. Onwards
    BY RegistryOnwards
  <1>5. \A i \in DOMAIN clientList'.clients :
          InUseNext(clientList'.clients[i].FD)
    BY <1>1, <1>4, InvitedOn
  <1>6. SlotsInvited'
    BY <1>4, SameSlots
  <1>7. TellsOfRoom(c)'
    BY <1>1 DEF RegistryEffect, TellsOfRoom, InRoom
  <1>8. JoinsNameOwners'
    BY <1>1, <1>3 DEF RegistryEffect, InviteInv, JoinsNameOwners
  <1>9. Tells(c)
    <2>1. CASE RegistryHandler(c)
      BY <2>1, RegistryTells
    <2>2. CASE Accept(c) \/ ReadsNull(c)
      <3>1. out' = out
        BY <2>2 DEF Accept, ReadsNull
      <3> QED
        BY <3>1, TellsNothing
    <2> QED
      BY <1>2, <2>1, <2>2 DEF ServerStep
  <1>10. AllStay'
    <2>1. CASE Accept(c)
      <3>1. peer' = [peer EXCEPT ![c] = "open"]
        BY <2>1 DEF Accept
      <3>2. peer \in [Conns -> PeerStates]
        BY KnownTypes DEF ServerInv, NetTypeOK
      <3> QED
        BY <1>1, <3>1, <3>2 DEF AllStay, InviteInv, RegistryEffect, RoomFrame
    <2>2. CASE ~Accept(c)
      <3>1. \/ peer' = peer
            \/ \E f, part, p : Send(c, f, part, p)
        BY <1>2, <2>2 DEF ServerStep, ReadsNull, RegistryHandler, NewClient,
           IntroduceHeader, IntroducePayload, Register, ListHeader,
           ListPayload, FollowsFreedPointer, LeftClient, LeftHeader,
           LeftPayload, LeftDone, PeerChat, PeerChatPayload, SendHeader,
           SendPayload
      <3>2. LeavesPeers
        BY <3>1, KnownTypes, SendEffect DEF LeavesPeers, ServerInv
      <3>3. th[c].pc # "new"
        BY <1>2, <2>2 DEF ServerStep, ReadsNull, RegistryHandler, NewClient,
           IntroduceHeader, IntroducePayload, Register, ListHeader,
           ListPayload, FollowsFreedPointer, LeftClient, LeftHeader,
           LeftPayload, LeftDone, PeerChat, PeerChatPayload, At, Receives
      <3> QED
        BY <1>1, <3>2, <3>3, StaySame DEF RegistryEffect
    <2> QED
      BY <2>1, <2>2
  <1>11. PICK f, part, p :
           /\ Emits(c, f, part, p)
           /\ TellsInUse(p)
           /\ p.type \in RoomTypes => MayHear(f, p.room)
    BY <1>9 DEF Tells
  <1>12. RoomFrame(c)
    BY <1>1 DEF RegistryEffect
  <1> QED
    BY <1>4, <1>5, <1>6, <1>7, <1>8, <1>10, <1>11, <1>12, InviteStep

\* Nobody quits or dies while nobody may.
LEMMA NobodyEnds ==
    ASSUME MaxGone = 0, InviteInv
    PROVE  ~MayEnd
  <1>1. {d \in Conns : peer[d] \in {"shut", "reset"}} = {}
    BY DEF InviteInv, AllStay
  <1>2. Cardinality({}) = 0
    BY FS_EmptySet
  <1>3. Cardinality({d \in Conns : peer[d] \in {"shut", "reset"}}) = 0
    BY ONLY <1>1, <1>2, Zenon
  <1>4. ~(0 < MaxGone)
    BY SMT
  <1> QED
    BY ONLY <1>3, <1>4, SMT DEF MayEnd

\* What a user writes who does not end: a JOIN_ROOM names the owner of its
\* descriptor, a CHAT a descriptor that is open.
LEMMA UserWrites ==
    ASSUME ServerInv, InviteInv, NEW c \in Conns, User(c),
           ~MayEnd \/ (~CanCrash /\ ~Quit(c))
    PROVE  /\ UNCHANGED <<fdTable, th, out, peer, clientList, roomList>>
           /\ \E p :
                /\ p.type = "JOIN_ROOM" =>
                     /\ p.fd \in Fds
                     /\ p.name \in Conns
                     /\ fdTable[p.fd] = p.name
                /\ p.type = "CHAT" => InUse(p.fd)
                /\ \A d \in Conns :
                     /\ \A k \in DOMAIN sent[d] :
                          k \in DOMAIN sent'[d] /\ sent'[d][k] = sent[d][k]
                     /\ \A k \in DOMAIN sent'[d] :
                          \/ k \in DOMAIN sent[d] /\ sent'[d][k] = sent[d][k]
                          \/ sent'[d][k] = p
  <1>1. /\ sent \in [Conns -> Seq(Packet)] /\ NetTypeOK
        /\ ~Quit(c) /\ ~(CanCrash /\ MayEnd)
        /\ fdTable \in [Fds -> Conns \cup {NoConn}]
    BY KnownTypes DEF ServerInv, NetTypeOK, Quit
  <1>2. UNCHANGED <<fdTable, th, out, clientList, roomList>>
    BY <1>1 DEF User, SendIntro, Quit, Crash, SendChat, SendCreateRoom,
       SendJoinRoom, SendGroupChat, SendKick, SendLeaveRoom, Writes
  <1>3. /\ peer' = peer
        /\ \E p : /\ sent' = [sent EXCEPT ![c] = Append(@, p)]
                  /\ p.type = "JOIN_ROOM" =>
                       /\ p.fd \in Fds
                       /\ p.name \in Conns
                       /\ fdTable[p.fd] = p.name
                  /\ p.type = "CHAT" => InUse(p.fd)
    <2>1. ASSUME NEW p, Write(c, p), p.type \notin {"JOIN_ROOM", "CHAT"}
          PROVE  /\ peer' = peer
                 /\ \E q : /\ sent' = [sent EXCEPT ![c] = Append(@, q)]
                           /\ q.type \notin {"JOIN_ROOM", "CHAT"}
      BY <1>1, <2>1 DEF Write
    <2>2. CASE SendIntro(c)
      <3> DEFINE p == [Blank EXCEPT !.type = "INTRO", !.name = c]
      <3>1. Write(c, p) /\ p.type \notin {"JOIN_ROOM", "CHAT"}
        BY <2>2 DEF SendIntro, Blank
      <3> HIDE DEF p
      <3> QED
        BY <2>1, <3>1
    <2>3. CASE SendChat(c)
      <3>1. PICK f \in KnownFds(c) :
              Write(c, [Blank EXCEPT !.type = "CHAT", !.fd = f, !.name = c])
        BY <2>3 DEF SendChat
      <3> DEFINE p == [Blank EXCEPT !.type = "CHAT", !.fd = f, !.name = c]
      <3>2. Write(c, p) /\ p.type = "CHAT" /\ p.fd = f
        BY <3>1 DEF Blank
      <3> HIDE DEF p
      <3>3. InUse(f)
        BY <3>1 DEF InviteInv, ToldInUse, TellsInUse, KnownFds
      <3>4. /\ peer' = peer
            /\ sent' = [sent EXCEPT ![c] = Append(@, p)]
        BY <1>1, <3>2 DEF Write
      <3> QED
        BY <3>2, <3>3, <3>4
    <2>4. ASSUME NEW type, NEW room, NEW f, NEW name,
                 Writes(c, type, room, f, name),
                 type \notin {"JOIN_ROOM", "CHAT"}
          PROVE  /\ peer' = peer
                 /\ \E q : /\ sent' = [sent EXCEPT ![c] = Append(@, q)]
                           /\ q.type \notin {"JOIN_ROOM", "CHAT"}
      <3> DEFINE p == [Blank EXCEPT !.type = type, !.room = room, !.fd = f,
                                    !.name = name]
      <3>1. Write(c, p) /\ p.type \notin {"JOIN_ROOM", "CHAT"}
        BY <2>4 DEF Writes, Blank
      <3> HIDE DEF p
      <3> QED
        BY <2>1, <3>1
    <2>5. CASE \/ SendCreateRoom(c) \/ SendGroupChat(c) \/ SendKick(c)
               \/ SendLeaveRoom(c)
      <3>1. PICK type, room, f, name :
              Writes(c, type, room, f, name)
                /\ type \notin {"JOIN_ROOM", "CHAT"}
        BY <2>5 DEF SendCreateRoom, SendGroupChat, SendKick, SendLeaveRoom
      <3> QED
        BY <2>4, <3>1
    <2>6. CASE SendJoinRoom(c)
      <3>1. PICK room \in Held(c), f \in KnownFds(c) \cap Fds :
              Writes(c, "JOIN_ROOM", room, f, fdTable[f])
        BY <2>6 DEF SendJoinRoom
      <3> DEFINE p == [Blank EXCEPT !.type = "JOIN_ROOM", !.room = room,
                                    !.fd = f, !.name = fdTable[f]]
      <3>2. /\ Write(c, p) /\ p.fd = f /\ p.name = fdTable[f]
            /\ p.type = "JOIN_ROOM"
        BY <3>1 DEF Writes, Blank
      <3> HIDE DEF p
      <3>3. InUse(f)
        BY <3>1 DEF InviteInv, ToldInUse, TellsInUse, KnownFds
      <3>4. /\ peer' = peer
            /\ sent' = [sent EXCEPT ![c] = Append(@, p)]
        BY <1>1, <3>2 DEF Write
      <3> QED
        BY <3>1, <3>2, <3>3, <3>4 DEF InUse
    <2>7. ~Quit(c) /\ ~Crash(c)
      BY <1>1 DEF Quit, Crash
    <2> QED
      BY <2>2, <2>3, <2>5, <2>6, <2>7 DEF User
  <1>4. PICK p : /\ sent' = [sent EXCEPT ![c] = Append(@, p)]
                 /\ p.type = "JOIN_ROOM" =>
                      /\ p.fd \in Fds
                      /\ p.name \in Conns
                      /\ fdTable[p.fd] = p.name
                 /\ p.type = "CHAT" => InUse(p.fd)
    BY <1>3
  <1>5. ASSUME NEW d \in Conns
        PROVE  /\ \A k \in DOMAIN sent[d] :
                    k \in DOMAIN sent'[d] /\ sent'[d][k] = sent[d][k]
               /\ \A k \in DOMAIN sent'[d] :
                    \/ k \in DOMAIN sent[d] /\ sent'[d][k] = sent[d][k]
                    \/ sent'[d][k] = p
    <2>1. /\ sent[d] \in Seq(Packet)
          /\ \/ sent'[d] = sent[d]
             \/ sent'[d] = Append(sent[d], p)
      BY <1>1, <1>4
    <2> QED
      BY <2>1
  <1> QED
    BY <1>2, <1>3, <1>4, <1>5

LEMMA UserInvites ==
    ASSUME ServerInv, InviteInv, NEW c \in Conns, User(c),
           ~MayEnd \/ (~CanCrash /\ ~Quit(c))
    PROVE  InviteInv'
  <1>1. UNCHANGED <<fdTable, th, out, peer, clientList, roomList>>
    BY UserWrites
  <1>2. PICK p :
          /\ p.type = "JOIN_ROOM" =>
               p.fd \in Fds /\ p.name \in Conns /\ fdTable[p.fd] = p.name
          /\ \A d \in Conns :
               /\ \A k \in DOMAIN sent[d] :
                    k \in DOMAIN sent'[d] /\ sent'[d][k] = sent[d][k]
               /\ \A k \in DOMAIN sent'[d] :
                    \/ k \in DOMAIN sent[d] /\ sent'[d][k] = sent[d][k]
                    \/ sent'[d][k] = p
    BY UserWrites, Zenon
  <1>3. Onwards
    BY <1>1, <1>2 DEF Onwards
  <1>4. JoinsNameOwners'
    BY <1>1, <1>2 DEF JoinsNameOwners, InviteInv
  <1>5. SlotsInvited'
    BY <1>1, <1>3, SameSlots
  <1>6. AllStay'
    BY <1>1 DEF AllStay, InviteInv
  <1>7. TellsOfRoom(c)'
    <2>1. TellsOfRoom(c)
      BY DEF InviteInv
    <2>2. MayHear(th[c].pkt.fd, th[c].pkt.room)
            => MayHearNext(th[c].pkt.fd, th[c].pkt.room)
      BY <1>3, InvitedOn
    <2>3. MayHearNext(th[c].pkt.fd, th[c].pkt.room)
            => MayHear(th[c].pkt.fd, th[c].pkt.room)'
      BY <1>1 DEF MayHear, MayHearNext, Invited, InvitedNext, Created, Wrote
    <2> QED
      BY <1>1, <2>1, <2>2, <2>3 DEF TellsOfRoom
  <1>8. \A i \in DOMAIN clientList'.clients :
           InUseNext(clientList'.clients[i].FD)
    BY <1>1 DEF InviteInv, ToldInUse, InUse, InUseNext
  <1>9. /\ Emits(c, NoFd, "header", Blank) /\ TellsInUse(Blank)
         /\ Blank.type \notin RoomTypes /\ RoomFrame(c)
    BY <1>1 DEF Emits, TellsInUse, RoomTypes, Blank, RoomFrame
  <1> QED
    BY <1>1, <1>3, <1>4, <1>5, <1>6, <1>7, <1>8, <1>9, InviteStep

\* Nobody has been told anything at first.
LEMMA InviteInit == ServerInit => InviteInv
  <1> SUFFICES ASSUME ServerInit PROVE InviteInv
    OBVIOUS
  <1>1. /\ \A c \in Conns : /\ th[c] = NewThread /\ sent[c] = <<>>
                            /\ out[c] = <<>> /\ peer[c] = "none"
        /\ roomList = <<>> /\ clientList.clients = <<>>
    BY DEF ServerInit, NetInit, RegistryInit, RoomsInit, EmptyList
  <1>2. NewThread.pc = "new" /\ ~NewThread.stale
    BY DEF NewThread
  <1> QED
    BY <1>1, <1>2 DEF InviteInv, AllStay, ToldInUse, JoinsNameOwners,
       SlotsInvited, TellsOfRoom, InRoom, OnlyInvitedHear

\* A step after which nobody has written a USER_LEFT is nobody's /quit.
LEMMA NobodyQuits ==
    ASSUME ServerInv, NobodyRemoved', NEW c \in Conns
    PROVE  ~Quit(c)
  <1> SUFFICES ASSUME Quit(c) PROVE FALSE
    OBVIOUS
  <1> DEFINE p == [Blank EXCEPT !.type = "USER_LEFT"]
  <1>1. /\ sent \in [Conns -> Seq(Packet)]
        /\ sent' = [sent EXCEPT ![c] = Append(@, p)]
    BY KnownTypes DEF ServerInv, NetTypeOK, Quit
  <1>2. p.type = "USER_LEFT"
    BY DEF Blank
  <1> HIDE DEF p
  <1>3. sent[c] \in Seq(Packet) /\ sent'[c] = Append(sent[c], p)
    BY <1>1
  <1>4. /\ Len(sent[c]) + 1 \in DOMAIN sent'[c]
        /\ sent'[c][Len(sent[c]) + 1] = p
    BY <1>3, LenProperties
  <1> QED
    BY <1>2, <1>4 DEF NobodyRemoved, Removals

\* While nobody goes and no array moves the invariant is inductive.
LEMMA InviteNext ==
    ASSUME MaxGone = 0 \/ (~CanCrash /\ NobodyRemoved'),
           ~ReallocMoves, ServerInv, InviteInv,
           [ServerNext]_serverVars
    PROVE  InviteInv'
  <1>1. CASE UNCHANGED serverVars
    <2>1. UNCHANGED <<fdTable, th, sent, out, peer, clientList, roomList>>
      BY <1>1 DEF serverVars, netVars
    <2>2. AllStay'
      BY <2>1 DEF InviteInv, AllStay
    <2>3. ToldInUse'
      <3>1. ToldInUse
        BY DEF InviteInv
      <3> QED
        BY <2>1, <3>1 DEF ToldInUse, TellsInUse, InUse
    <2>4. JoinsNameOwners'
      <3>1. JoinsNameOwners
        BY DEF InviteInv
      <3> QED
        BY <2>1, <3>1 DEF JoinsNameOwners
    <2>5. SlotsInvited'
      <3>1. SlotsInvited
        BY DEF InviteInv
      <3>2. SUFFICES ASSUME NEW g \in DOMAIN roomList,
                            NEW i \in DOMAIN roomList[g].members.clients
                     PROVE  MayHear(roomList[g].members.clients[i].FD,
                                    roomList[g].name)'
        BY <2>1 DEF SlotsInvited
      <3>3. MayHear(roomList[g].members.clients[i].FD, roomList[g].name)
        BY <3>1 DEF SlotsInvited
      <3> QED
        BY <2>1, <3>3 DEF MayHear, Invited, Created, Wrote
    <2>6. \A c \in Conns : TellsOfRoom(c)'
      <3>1. \A c \in Conns : TellsOfRoom(c)
        BY DEF InviteInv
      <3>2. \A f, r : MayHear(f, r) => MayHear(f, r)'
        BY <2>1 DEF MayHear, Invited, Created, Wrote
      <3> QED
        BY <2>1, <3>1, <3>2 DEF TellsOfRoom
    <2>7. OnlyInvitedHear'
      BY <2>1 DEF InviteInv, OnlyInvitedHear, Created, Wrote
    <2> QED
      BY <2>2, <2>3, <2>4, <2>5, <2>6, <2>7 DEF InviteInv
  <1>2. CASE Stops /\ UNCHANGED roomList
    BY <1>1, <1>2 DEF Stops, registryVars, serverVars
  <1>3. ASSUME NEW c \in Conns, ServerThread(c)
        PROVE  InviteInv'
    BY <1>3, RoomStepInvites, RegistryStepInvites
       DEF ServerThread, Handler, ServerStep
  <1>4. ASSUME NEW c \in Conns, User(c)
        PROVE  InviteInv'
    <2>1. ~MayEnd \/ (~CanCrash /\ ~Quit(c))
      BY NobodyEnds, NobodyQuits
    <2> QED
      BY <1>4, <2>1, UserInvites
  <1> QED
    BY <1>1, <1>2, <1>3, <1>4 DEF ServerNext

\* As long as nobody quits or dies and no array moves, nobody hears of a room
\* who has not created it or been put into it, although each loop reads the
\* descriptor of a slot twice and members come, leave and are kicked meanwhile.
THEOREM RoomsPrivate ==
    ASSUME MaxGone = 0, ~ReallocMoves
    PROVE  ServerSpec => []OnlyInvitedHear
  <1>1. ServerInit => InviteInv
    BY InviteInit
  <1>2. ServerInv /\ InviteInv /\ [ServerNext]_serverVars => InviteInv'
    BY InviteNext
  <1>3. InviteInv => OnlyInvitedHear
    BY DEF InviteInv
  <1> QED
    BY <1>1, <1>2, <1>3, ServerInvariance, PTL DEF ServerSpec

----------------------------------------------------------------------------
(* While nobody is taken off a list: everyone in a room hears what is said   *)
(* there and of everyone else in it, and each writer's packets come whole.   *)

\* No list has had more entries than it has, and members have descriptors.
ListsFull ==
    /\ clientList.size = Len(clientList.clients)
    /\ \A g \in DOMAIN roomList :
         LET members == roomList[g].members
         IN  /\ members.size = Len(members.clients)
             /\ \A s \in DOMAIN members.clients : members.clients[s].FD \in Fds

\* The descriptor a CHAT is for is open.
ChatsFindOwners ==
    \A c \in Conns :
      /\ \A k \in DOMAIN sent[c] :
           sent[c][k].type = "CHAT" => InUse(sent[c][k].fd)
      /\ th[c].pc = "chatPayload" => InUse(th[c].pkt.fd)

\* The loop of the thread of c has served slot s: the packet has been sent to
\* its member, or it is the sender's.
Served(c, s) ==
    /\ s \in DOMAIN Members(c).clients
    /\ LET f == Members(c).clients[s].FD
       IN  f # th[c].fd => th[c].pkt \in Payloads(fdTable[f])

\* The members that the loop of a GROUP_CHAT has passed have been sent it.
Reaches(c) ==
    (th[c].pc \in {"room", "roomPayload"} /\ th[c].pkt.type = "GROUP_CHAT") =>
      \A s \in 1 .. th[c].i - 1 : Served(c, s)

\* The thread of c, which handles the JOIN_ROOM of one of the two members in
\* slots a and b of room g, will yet tell the first of the second.
Telling(c, g, a, b) ==
    LET clients == roomList[g].members.clients
    IN  /\ th[c].pkt.type = "JOIN_ROOM" /\ th[c].room = g
        /\ \/ /\ th[c].pkt.fd = clients[b].FD
              /\ \/ th[c].pc \in {"details", "detailsPayload"}
                 \/ th[c].pc \in {"room", "roomPayload"} /\ th[c].i <= a
           \/ /\ th[c].pkt.fd = clients[a].FD
              /\ \/ th[c].pc = "details"
                 \/ /\ th[c].pc = "detailsPayload"
                    /\ \E j \in DOMAIN th[c].msg.list :
                         th[c].msg.list[j].FD = clients[b].FD

\* Of two members the first has been told of the second or is about to be.
Acquainted(g, a, b) ==
    LET clients == roomList[g].members.clients
    IN  clients[a].FD # clients[b].FD =>
          \/ ToldOfMember(fdTable[clients[a].FD], roomList[g].name, clients[b].FD)
          \/ \E c \in Conns : Telling(c, g, a, b)

AllAcquainted ==
    /\ \A g \in DOMAIN roomList :
         \A a, b \in DOMAIN roomList[g].members.clients : Acquainted(g, a, b)
    /\ \A c \in Conns : th[c].pc \in {"details", "detailsPayload"} => th[c].i = 1

\* The thread of c is between the two send() calls of a packet of the type, to
\* descriptor f.
Between(c, f, type) ==
    \/ /\ th[c].pc = "introducePayload" /\ type = "USER_JOINED_SERVER"
       /\ f = clientList.clients[th[c].i].FD
    \/ th[c].pc = "listPayload" /\ type = "CLIENT_LIST" /\ f = th[c].fd
    \/ th[c].pc = "chatPayload" /\ type = "CHAT" /\ f = th[c].pkt.fd
    \/ th[c].pc = "detailsPayload" /\ type = "GROUP_LIST" /\ f = th[c].pkt.fd
    \/ th[c].pc = "roomPayload" /\ type = th[c].pkt.type /\ f = MemberFd(c)

\* The last chunk of c in the stream is the header of a packet of the type.
HeaderLast(stream, c, type) ==
    \E j \in DOMAIN stream :
      /\ stream[j].by = c /\ stream[j].part = "header"
      /\ stream[j].pkt.type = type
      /\ \A i \in j + 1 .. Len(stream) : stream[i].by # c

HeadersSent ==
    \A c \in Conns : \A f \in Fds : \A type \in Types :
      Between(c, f, type) => HeaderLast(out[fdTable[f]], c, type)

\* The chunk at place k of the stream has its header before it, and nothing of
\* its writer between the two.
HeaderBefore(stream, k) ==
    \E j \in 1 .. k - 1 :
      /\ stream[j].by = stream[k].by /\ stream[j].part = "header"
      /\ stream[j].pkt.type = stream[k].pkt.type
      /\ \A i \in j + 1 .. k - 1 : stream[i].by # stream[k].by

Framed ==
    \A x \in Conns : \A k \in DOMAIN out[x] :
      out[x][k].part = "payload" => HeaderBefore(out[x], k)

CalmInv ==
    NobodyRemoved =>
      /\ InviteInv /\ ListsFull /\ ChatsFindOwners
      /\ \A c \in Conns : Reaches(c)
      /\ AllAcquainted
      /\ HeadersSent
      /\ Framed

\* Lists and rooms only grow, slot by slot.
ListsGrow ==
    /\ \A s \in DOMAIN clientList.clients :
         /\ s \in DOMAIN clientList'.clients
         /\ clientList'.clients[s] = clientList.clients[s]
    /\ \A g \in DOMAIN roomList :
         /\ g \in DOMAIN roomList' /\ roomList'[g].name = roomList[g].name
         /\ \A s \in DOMAIN roomList[g].members.clients :
              /\ s \in DOMAIN roomList'[g].members.clients
              /\ roomList'[g].members.clients[s] = roomList[g].members.clients[s]

\* What users have written stays written.
LEMMA StillCalm ==
    ASSUME ServerInv, NobodyRemoved',
           \A d \in Conns : \A k \in DOMAIN sent[d] :
             k \in DOMAIN sent'[d] /\ sent'[d][k] = sent[d][k]
    PROVE  NobodyRemoved
  BY DEF NobodyRemoved

\* No thread has a packet at hand that takes an entry off a list.
LEMMA CalmThreads ==
    ASSUME ServerInv, NobodyRemoved, NEW c \in Conns
    PROVE  /\ th[c].pc \notin {"left", "leftPayload", "kickedPayload"}
           /\ th[c].pc \in InRoom => th[c].pkt.type \in {"JOIN_ROOM", "GROUP_CHAT"}
           /\ \A type : Receives(c, type) => type \notin Removals
  <1>1. /\ sent[c] \in Seq(Packet) /\ th[c].got \in Nat
        /\ th[c].got <= Len(sent[c]) /\ InHandler(c)
    BY KnownTypes DEF ServerInv, NewsInv, HandlerInv, NetTypeOK, Thread
  <1>2. DOMAIN sent[c] = 1 .. Len(sent[c]) /\ Len(sent[c]) \in Nat
    BY <1>1, LenProperties
  <1>3. th[c].got >= 1 => sent[c][th[c].got].type \notin Removals
    BY <1>1, <1>2 DEF NobodyRemoved
  <1>4. th[c].pc \notin {"left", "leftPayload"}
    BY <1>1, <1>3 DEF InHandler, SaidGoodbye, Removals
  <1>5. th[c].pc \in InRoom => th[c].pkt.type \in {"JOIN_ROOM", "GROUP_CHAT"}
    BY <1>3, InLoop DEF RoomOrders, Removals
  <1>6. th[c].pc # "kickedPayload"
    BY <1>5 DEF ServerInv, RoomInv, RoomLocals, InRoom
  <1>7. ASSUME NEW type, Receives(c, type)
        PROVE  type \notin Removals
    <2>1. th[c].got + 1 \in DOMAIN sent[c] /\ sent[c][th[c].got + 1].type = type
      BY <1>1, <1>2, <1>7 DEF Receives, Incoming
    <2> QED
      BY <2>1 DEF NobodyRemoved
  <1> QED
    BY <1>4, <1>5, <1>6, <1>7

\* The steps that are left to the handlers of the rooms ...
CalmRoom(c) ==
    \/ NewRoom(c) \/ NewMember(c) \/ GroupChat(c)
    \/ DetailsHeader(c) \/ DetailsPayload(c)
    \/ RoomHeader(c) \/ RoomPayload(c) \/ RoomSkip(c)
    \/ RoomDone(c) /\ UNCHANGED roomList

\* ... and to those of the list of users.
CalmRegistry(c) ==
    \/ NewClient(c) \/ IntroduceHeader(c) \/ IntroducePayload(c)
    \/ Register(c) \/ ListHeader(c) \/ ListPayload(c)
    \/ PeerChat(c) \/ PeerChatPayload(c)

LEMMA CalmHandlers ==
    ASSUME ServerInv, InviteInv, NobodyRemoved, NEW c \in Conns
    PROVE  /\ RoomHandler(c) => CalmRoom(c)
           /\ RegistryHandler(c) => CalmRegistry(c)
  <1>1. /\ ~LeftMember(c) /\ ~KickMember(c) /\ ~LeftClient(c)
        /\ ~KickedPayload(c) /\ ~LeftHeader(c) /\ ~LeftPayload(c) /\ ~LeftDone(c)
    BY CalmThreads DEF LeftMember, KickMember, LeftClient, KickedPayload,
       LeftHeader, LeftPayload, LeftDone, At, Removals
  <1>2. th[c].pc = "room" => th[c].pkt.type # "KICK_GROUP_MEMBER"
    BY CalmThreads DEF InRoom
  <1>3. ~KickedHeader(c) /\ (RoomDone(c) => UNCHANGED roomList)
    BY <1>2 DEF KickedHeader, AtKicked, RoomDone, At
  <1>4. ~FollowsFreedPointer(c)
    BY DEF FollowsFreedPointer, InviteInv, AllStay
  <1> QED
    BY <1>1, <1>3, <1>4 DEF RoomHandler, RegistryHandler, CalmRoom, CalmRegistry

\* An addition to a list that fills its array appends.
LEMMA FullAddition ==
    ASSUME NEW list \in ClientList(Names, AnyFd), NEW client,
           list.size = Len(list.clients), NEW new,
           new = addClientInClientList(list, client)
    PROVE  /\ new.size = Len(new.clients)
           /\ DOMAIN new.clients = 1 .. Len(list.clients) + 1
           /\ DOMAIN list.clients = 1 .. Len(list.clients)
           /\ Len(list.clients) \in Nat
           /\ \A s \in DOMAIN list.clients : new.clients[s] = list.clients[s]
           /\ new.clients[Len(list.clients) + 1] = client
  <1>1. /\ list.clients \in Seq(Entries) /\ Len(list.clients) \in Nat
        /\ DOMAIN list.clients = 1 .. Len(list.clients)
    BY LenProperties DEF ClientList, Entries
  <1>2. /\ new.clients = Append(list.clients, client)
        /\ new.size = Len(list.clients) + 1
    BY DEF addClientInClientList
  <1> HIDE DEF Entries
  <1> QED
    BY <1>1, <1>2

\* The lists after a step that may add an entry to one of them.
LEMMA ListSteps ==
    ASSUME ServerInv, InviteInv, ListsFull, NobodyRemoved, NEW c \in Conns,
           ServerThread(c)
    PROVE  ListsFull' /\ ListsGrow
  <1>1. /\ clientList \in ClientList(Names, AnyFd)
        /\ clientList.size = Len(clientList.clients)
        /\ roomList \in Seq(Room)
    BY KnownTypes DEF ServerInv, RoomInv, RoomsTypeOK, ListsFull
  <1>2. CASE clientList' = clientList /\ roomList' = roomList
    BY <1>2 DEF ListsFull, ListsGrow
  <1>3. CASE Register(c) /\ roomList' = roomList
    <2> DEFINE client == [name |-> th[c].pkt.name, FD |-> th[c].fd]
    <2>1. clientList' = addClientInClientList(clientList, client)
      BY <1>3 DEF Register
    <2> HIDE DEF client
    <2>2. /\ clientList'.size = Len(clientList'.clients)
          /\ \A s \in DOMAIN clientList.clients :
               /\ s \in DOMAIN clientList'.clients
               /\ clientList'.clients[s] = clientList.clients[s]
      <3>1. PICK new : new = addClientInClientList(clientList, client)
        OBVIOUS
      <3> QED
        BY <1>1, <2>1, <3>1, FullAddition
    <2> QED
      BY <1>3, <2>2 DEF ListsFull, ListsGrow
  <1>4. CASE NewRoom(c) /\ clientList' = clientList
    <2> DEFINE admin == [name |-> Incoming(c).name, FD |-> th[c].fd]
               new == [name    |-> Incoming(c).room,
                       admin   |-> admin.FD,
                       members |-> addClientInClientList(EmptyList, admin)]
    <2>1. roomList' = Append(roomList, new)
      BY <1>4 DEF NewRoom
    <2>2. /\ new.members.clients = <<admin>> /\ admin.FD = th[c].fd
          /\ new.members.size = 1
      BY DEF addClientInClientList, EmptyList
    <2>3. th[c].fd \in Fds
      BY <1>4, OwnInUse DEF NewRoom, Receives, Alive
    <2> HIDE DEF admin, new
    <2>4. /\ DOMAIN roomList = 1 .. Len(roomList) /\ Len(roomList) \in Nat
          /\ DOMAIN roomList' = 1 .. Len(roomList) + 1
          /\ \A g \in 1 .. Len(roomList) : roomList'[g] = roomList[g]
          /\ roomList'[Len(roomList) + 1] = new
      BY <1>1, <2>1, LenProperties
    <2>5. /\ new.members.size = Len(new.members.clients)
          /\ \A s \in DOMAIN new.members.clients : new.members.clients[s].FD \in Fds
      BY <2>2, <2>3
    <2>6. ListsFull'
      <3> SUFFICES ASSUME NEW g \in DOMAIN roomList'
                   PROVE  LET members == roomList'[g].members
                          IN  /\ members.size = Len(members.clients)
                              /\ \A s \in DOMAIN members.clients :
                                   members.clients[s].FD \in Fds
        BY <1>1, <1>4 DEF ListsFull
      <3>1. CASE g \in DOMAIN roomList
        BY <2>4, <3>1 DEF ListsFull
      <3>2. CASE roomList'[g] = new
        BY <2>5, <3>2
      <3> QED
        BY <2>4, <3>1, <3>2
    <2>7. ListsGrow
      BY <1>4, <2>4 DEF ListsGrow
    <2> QED
      BY <2>6, <2>7
  <1>5. CASE NewMember(c) /\ clientList' = clientList
    <2> DEFINE client == [name |-> Incoming(c).name, FD |-> Incoming(c).fd]
    <2>1. PICK g \in DOMAIN roomList :
            roomList' = [roomList EXCEPT ![g].members =
                           addClientInClientList(@, client)]
      BY <1>5 DEF NewMember
    <2>2. client.FD = Incoming(c).fd
      OBVIOUS
    <2> HIDE DEF client
    <2>3. Incoming(c).fd \in Fds
      <3>1. th[c].got + 1 \in DOMAIN sent[c] /\ Incoming(c).type = "JOIN_ROOM"
        <4>1. /\ sent[c] \in Seq(Packet) /\ th[c].got \in Nat
              /\ th[c].got < Len(sent[c]) /\ Incoming(c).type = "JOIN_ROOM"
          BY <1>5, KnownTypes DEF ServerInv, NetTypeOK, Thread, NewMember, Receives
        <4> QED
          BY <4>1, LenProperties
      <3> QED
        BY <3>1 DEF InviteInv, JoinsNameOwners, Incoming
    <2>4. PICK new : new = addClientInClientList(roomList[g].members, client)
      OBVIOUS
    <2>5. roomList[g].members \in ClientList(Names, AnyFd)
          /\ roomList[g].members.size = Len(roomList[g].members.clients)
      BY RoomKnown DEF ListsFull
    <2>6. /\ new.size = Len(new.clients)
          /\ DOMAIN new.clients = 1 .. Len(roomList[g].members.clients) + 1
          /\ DOMAIN roomList[g].members.clients
               = 1 .. Len(roomList[g].members.clients)
          /\ Len(roomList[g].members.clients) \in Nat
          /\ \A s \in DOMAIN roomList[g].members.clients :
               new.clients[s] = roomList[g].members.clients[s]
          /\ new.clients[Len(roomList[g].members.clients) + 1] = client
      BY <2>4, <2>5, FullAddition
    <2>7. \A s \in DOMAIN new.clients : new.clients[s].FD \in Fds
      <3> SUFFICES ASSUME NEW s \in DOMAIN new.clients PROVE new.clients[s].FD \in Fds
        OBVIOUS
      <3>1. CASE s \in DOMAIN roomList[g].members.clients
        BY <2>6, <3>1 DEF ListsFull
      <3>2. CASE s = Len(roomList[g].members.clients) + 1
        BY <2>2, <2>3, <2>6, <3>2
      <3> QED
        BY <2>6, <3>1, <3>2
    <2>8. /\ DOMAIN roomList' = DOMAIN roomList
          /\ roomList'[g].members = new
          /\ \A h \in DOMAIN roomList :
               h # g => roomList'[h].members = roomList[h].members
          /\ \A h \in DOMAIN roomList : roomList'[h].name = roomList[h].name
      BY <2>1, <2>4, OneRoomChanges DEF RoomsStay
    <2>9. ListsFull'
      BY <1>1, <1>5, <2>6, <2>7, <2>8 DEF ListsFull
    <2>10. ListsGrow
      BY <1>5, <2>6, <2>8 DEF ListsGrow
    <2> QED
      BY <2>9, <2>10
  <1>6. \/ clientList' = clientList /\ roomList' = roomList
        \/ Register(c) /\ roomList' = roomList
        \/ NewRoom(c) /\ clientList' = clientList
        \/ NewMember(c) /\ clientList' = clientList
    <2>1. CASE RoomHandler(c) /\ UNCHANGED clientList
      BY <2>1, CalmHandlers DEF CalmRoom, GroupChat, DetailsHeader, DetailsPayload,
         RoomHeader, RoomPayload, RoomSkip
    <2>2. CASE RegistryHandler(c) /\ UNCHANGED roomList
      BY <2>2, CalmHandlers DEF CalmRegistry, NewClient, IntroduceHeader,
         IntroducePayload, ListHeader, ListPayload, PeerChat, PeerChatPayload
    <2> QED
      BY <2>1, <2>2 DEF ServerThread, Handler
  <1> QED
    BY <1>2, <1>3, <1>4, <1>5, <1>6

\* What one send() appends, and to whose stream.
LEMMA StreamSteps ==
    ASSUME NetTypeOK, NEW c \in Conns, NEW f, NEW part, NEW p,
           Emits(c, f, part, p), NEW x \in Conns
    PROVE  /\ DOMAIN out[x] = 1 .. Len(out[x]) /\ Len(out[x]) \in Nat
           /\ DOMAIN out'[x] = 1 .. Len(out'[x]) /\ Len(out'[x]) \in Nat
           /\ \A k \in DOMAIN out[x] : k \in DOMAIN out'[x] /\ out'[x][k] = out[x][k]
           /\ \/ out'[x] = out[x]
              \/ /\ Len(out'[x]) = Len(out[x]) + 1
                 /\ out'[x][Len(out[x]) + 1].by = c
                 /\ out'[x][Len(out[x]) + 1].part = part
                 /\ out'[x][Len(out[x]) + 1].pkt = p
                 /\ f \in Fds /\ fdTable[f] = x
           /\ Payloads(x) \subseteq Payloads(x)'
  <1> DEFINE chunk == [part |-> part, by |-> c, pkt |-> p]
  <1>1. out \in [Conns -> Seq(Chunk)] /\ out[x] \in Seq(Chunk)
    BY DEF NetTypeOK
  <1>2. chunk.by = c /\ chunk.part = part /\ chunk.pkt = p
    OBVIOUS
  <1> HIDE DEF chunk
  <1>3. \/ out'[x] = out[x]
        \/ f \in Fds /\ fdTable[f] = x /\ out'[x] = Append(out[x], chunk)
    BY <1>1 DEF Emits, chunk
  <1>4. DOMAIN out[x] = 1 .. Len(out[x]) /\ Len(out[x]) \in Nat
    BY <1>1, LenProperties
  <1>5. CASE f \in Fds /\ fdTable[f] = x /\ out'[x] = Append(out[x], chunk)
    <2>1. /\ DOMAIN out'[x] = 1 .. Len(out[x]) + 1
          /\ Len(out'[x]) = Len(out[x]) + 1
          /\ \A k \in 1 .. Len(out[x]) : out'[x][k] = out[x][k]
          /\ out'[x][Len(out[x]) + 1] = chunk
      BY <1>1, <1>4, <1>5
    <2>2. \A k \in DOMAIN out[x] : k \in DOMAIN out'[x] /\ out'[x][k] = out[x][k]
      BY <1>4, <2>1
    <2>3. Payloads(x) \subseteq Payloads(x)'
      BY <2>2 DEF Payloads
    <2> QED
      BY <1>2, <1>4, <1>5, <2>1, <2>2, <2>3
  <1>6. CASE out'[x] = out[x]
    <2>1. Payloads(x) = Payloads(x)'
      BY <1>6 DEF Payloads
    <2> QED
      BY <1>4, <1>6, <2>1
  <1> QED
    BY <1>3, <1>5, <1>6

\* A chunk to a descriptor in use arrives while nobody's socket is shut.
LEMMA Arrives ==
    ASSUME ServerInv, InviteInv, NEW c \in Conns, NEW f \in Fds, NEW part, NEW p,
           NEW x \in Conns, fdTable[f] = x, Send(c, f, part, p)
    PROVE  /\ Len(out'[x]) = Len(out[x]) + 1
           /\ out'[x][Len(out[x]) + 1].by = c
           /\ out'[x][Len(out[x]) + 1].part = part
           /\ out'[x][Len(out[x]) + 1].pkt = p
           /\ part = "payload" => p \in Payloads(x)'
  <1> DEFINE chunk == [part |-> part, by |-> c, pkt |-> p]
  <1>1. peer[x] = "open"
    <2>1. th[x].pc # "new"
      BY DEF ServerInv, IndInv, FdInv, OneThreadPerFd
    <2> QED
      BY <2>1 DEF InviteInv, AllStay
  <1>2. out \in [Conns -> Seq(Chunk)] /\ out[x] \in Seq(Chunk)
    BY KnownTypes DEF ServerInv, NetTypeOK
  <1>3. out' = [out EXCEPT ![x] = Append(@, chunk)]
    BY <1>1 DEF Send
  <1>4. chunk.by = c /\ chunk.part = part /\ chunk.pkt = p
    OBVIOUS
  <1> HIDE DEF chunk
  <1>5. out'[x] = Append(out[x], chunk)
    BY <1>2, <1>3
  <1>6. /\ Len(out'[x]) = Len(out[x]) + 1
        /\ out'[x][Len(out[x]) + 1] = chunk
        /\ Len(out[x]) + 1 \in DOMAIN out'[x]
    BY <1>2, <1>5, LenProperties
  <1>7. part = "payload" => p \in Payloads(x)'
    BY <1>4, <1>6 DEF Payloads
  <1> QED
    BY <1>4, <1>6, <1>7

\* The slots of the lists are of connected users.
LEMMA SlotOwners ==
    ASSUME ServerInv, InviteInv, ListsFull
    PROVE  /\ \A s \in DOMAIN clientList.clients :
                InUse(clientList.clients[s].FD)
           /\ \A g \in DOMAIN roomList : \A s \in DOMAIN roomList[g].members.clients :
                LET f == roomList[g].members.clients[s].FD
                IN  f \in Fds /\ fdTable[f] \in Conns
  <1>1. \A s \in DOMAIN clientList.clients : InUse(clientList.clients[s].FD)
    BY DEF InviteInv, ToldInUse
  <1>2. ASSUME NEW g \in DOMAIN roomList, NEW s \in DOMAIN roomList[g].members.clients
        PROVE  LET f == roomList[g].members.clients[s].FD
               IN  f \in Fds /\ fdTable[f] \in Conns
    BY DEF InviteInv, SlotsInvited, MayHear, ListsFull
  <1> QED
    BY <1>1, <1>2

\* What every step leaves to the others: streams that grow, lists that grow and
\* descriptors that stay.
Calmly(c) ==
    /\ RoomFrame(c) /\ Onwards /\ ListsGrow
    /\ \E f, part, p : Emits(c, f, part, p)

LEMMA CalmOthers ==
    ASSUME ServerInv, NEW c \in Conns, Calmly(c)
    PROVE  /\ \A x \in Conns : Payloads(x) \subseteq Payloads(x)'
           /\ \A f \in Fds : fdTable[f] \in Conns => fdTable'[f] = fdTable[f]
           /\ \A g \in DOMAIN roomList :
                g \in DOMAIN roomList' /\ roomList'[g].name = roomList[g].name
           /\ \A g \in DOMAIN roomList : \A s \in DOMAIN roomList[g].members.clients :
                /\ s \in DOMAIN roomList'[g].members.clients
                /\ roomList'[g].members.clients[s] = roomList[g].members.clients[s]
  <1>1. NetTypeOK
    BY KnownTypes DEF ServerInv
  <1>2. \A x \in Conns : Payloads(x) \subseteq Payloads(x)'
    BY <1>1, StreamSteps DEF Calmly
  <1> QED
    BY <1>2 DEF Calmly, Onwards, ListsGrow

\* What a member has been told it knows from then on.
LEMMA ToldStays ==
    ASSUME NEW x \in Conns, NEW r, NEW f, ToldOfMember(x, r, f),
           Payloads(x) \subseteq Payloads(x)'
    PROVE  ToldOfMember(x, r, f)'
  BY DEF ToldOfMember

----------------------------------------------------------------------------
(* What the steps do to the locals of their thread. *)

\* The thread stays in the handler it is in.
GoesOn(c) ==
    /\ th'[c].pkt = th[c].pkt /\ th'[c].room = th[c].room
    /\ th'[c].fd = th[c].fd /\ th'[c].got = th[c].got

LEMMA GoesOnLocals ==
    ASSUME ServerInv, NEW c \in Conns, NEW pc, NEW i, NEW msg,
           th' = [th EXCEPT ![c] = [th[c] EXCEPT !.pc = pc, !.i = i, !.msg = msg]]
    PROVE  /\ GoesOn(c) /\ th'[c].pc = pc /\ th'[c].i = i /\ th'[c].msg = msg
  <1>1. th \in [Conns -> Thread] /\ th[c] \in Thread
    BY KnownTypes DEF ServerInv
  <1>2. th'[c] = [th[c] EXCEPT !.pc = pc, !.i = i, !.msg = msg]
    BY <1>1
  <1> QED
    BY <1>1, <1>2 DEF Thread, GoesOn

\* A thread back in recvAll() has no packet.
LEMMA IdleLocals ==
    ASSUME ServerInv, NEW c \in Conns, NEW k \in Nat,
           th' = [th EXCEPT ![c] = Idle(th[c], k)]
    PROVE  th'[c].pc = "recv" /\ th'[c].pkt.type = "NONE"
  <1>1. Blank.type = "NONE"
    BY DEF Blank
  <1> QED
    BY <1>1, IdleEffect

\* The steps in a loop over the members of a room.
LEMMA LoopLocals ==
    ASSUME ServerInv, NEW c \in Conns
    PROVE  /\ DetailsHeader(c) =>
                /\ GoesOn(c) /\ th'[c].pc = "detailsPayload" /\ th'[c].i = th[c].i
                /\ th'[c].msg.type = "GROUP_LIST"
                /\ th'[c].msg.room = roomList[th[c].room].name
                /\ th'[c].msg.list = SubSeq(Members(c).clients, 1, Members(c).size)
           /\ DetailsPayload(c) =>
                GoesOn(c) /\ th'[c].pc = "room" /\ th'[c].i = th[c].i
           /\ RoomHeader(c) =>
                GoesOn(c) /\ th'[c].pc = "roomPayload" /\ th'[c].i = th[c].i
           /\ RoomPayload(c) =>
                GoesOn(c) /\ th'[c].pc = "room" /\ th'[c].i = th[c].i + 1
           /\ RoomSkip(c) =>
                GoesOn(c) /\ th'[c].pc = "room" /\ th'[c].i = th[c].i + 1
  <1>1. th \in [Conns -> Thread] /\ th[c] \in Thread
    BY KnownTypes DEF ServerInv
  <1>2. ASSUME DetailsHeader(c)
        PROVE  /\ GoesOn(c) /\ th'[c].pc = "detailsPayload" /\ th'[c].i = th[c].i
               /\ th'[c].msg.type = "GROUP_LIST"
               /\ th'[c].msg.room = roomList[th[c].room].name
               /\ th'[c].msg.list = SubSeq(Members(c).clients, 1, Members(c).size)
    <2> DEFINE p == [Blank EXCEPT !.type = "GROUP_LIST",
                       !.room = roomList[th[c].room].name,
                       !.fd = roomList[th[c].room].admin,
                       !.list = SubSeq(Members(c).clients, 1, Members(c).size)]
    <2>1. th' = [th EXCEPT ![c] = [th[c] EXCEPT !.pc = "detailsPayload", !.msg = p]]
      BY <1>2 DEF DetailsHeader
    <2>2. /\ p.type = "GROUP_LIST" /\ p.room = roomList[th[c].room].name
          /\ p.list = SubSeq(Members(c).clients, 1, Members(c).size)
      BY DEF Blank
    <2> HIDE DEF p
    <2>3. [th[c] EXCEPT !.pc = "detailsPayload", !.msg = p]
            = [th[c] EXCEPT !.pc = "detailsPayload", !.i = th[c].i, !.msg = p]
      BY <1>1 DEF Thread
    <2>4. th' = [th EXCEPT ![c] = [th[c] EXCEPT !.pc = "detailsPayload",
                                               !.i = th[c].i, !.msg = p]]
      BY <2>1, <2>3, Zenon
    <2>5. /\ GoesOn(c) /\ th'[c].pc = "detailsPayload" /\ th'[c].i = th[c].i
          /\ th'[c].msg = p
      BY <2>4, GoesOnLocals
    <2> QED
      BY <2>2, <2>5
  <1>3. ASSUME DetailsPayload(c)
        PROVE  GoesOn(c) /\ th'[c].pc = "room" /\ th'[c].i = th[c].i
    <2>1. th' = [th EXCEPT ![c] = [th[c] EXCEPT !.pc = "room", !.msg = Blank]]
      BY <1>3 DEF DetailsPayload
    <2>2. [th[c] EXCEPT !.pc = "room", !.msg = Blank]
            = [th[c] EXCEPT !.pc = "room", !.i = th[c].i, !.msg = Blank]
      BY <1>1 DEF Thread
    <2>3. th' = [th EXCEPT ![c] = [th[c] EXCEPT !.pc = "room", !.i = th[c].i,
                                               !.msg = Blank]]
      BY <2>1, <2>2, Zenon
    <2> DEFINE i == th[c].i
               msg == Blank
    <2>4. th' = [th EXCEPT ![c] = [th[c] EXCEPT !.pc = "room", !.i = i, !.msg = msg]]
      BY <2>3, Zenon
    <2> HIDE DEF i, msg
    <2>5. GoesOn(c) /\ th'[c].pc = "room" /\ th'[c].i = i
      BY <2>4, GoesOnLocals
    <2> QED
      BY <2>5 DEF i
  <1>4. ASSUME RoomHeader(c)
        PROVE  GoesOn(c) /\ th'[c].pc = "roomPayload" /\ th'[c].i = th[c].i
    <2>1. th' = [th EXCEPT ![c] = [th[c] EXCEPT !.pc = "roomPayload"]]
      BY <1>4, <1>1, SMT DEF RoomHeader
    <2>2. [th[c] EXCEPT !.pc = "roomPayload"]
            = [th[c] EXCEPT !.pc = "roomPayload", !.i = th[c].i, !.msg = th[c].msg]
      BY <1>1 DEF Thread
    <2>3. th' = [th EXCEPT ![c] = [th[c] EXCEPT !.pc = "roomPayload",
                                               !.i = th[c].i, !.msg = th[c].msg]]
      BY <2>1, <2>2, Zenon
    <2> DEFINE i == th[c].i
               msg == th[c].msg
    <2>4. th' = [th EXCEPT ![c] = [th[c] EXCEPT !.pc = "roomPayload", !.i = i,
                                               !.msg = msg]]
      BY <2>3, Zenon
    <2> HIDE DEF i, msg
    <2>5. GoesOn(c) /\ th'[c].pc = "roomPayload" /\ th'[c].i = i
      BY <2>4, GoesOnLocals
    <2> QED
      BY <2>5 DEF i
  <1>5. ASSUME NEW i, th' = [th EXCEPT ![c] = [th[c] EXCEPT !.pc = "room", !.i = i]]
        PROVE  GoesOn(c) /\ th'[c].pc = "room" /\ th'[c].i = i
    <2>1. [th[c] EXCEPT !.pc = "room", !.i = i]
            = [th[c] EXCEPT !.pc = "room", !.i = i, !.msg = th[c].msg]
      BY <1>1 DEF Thread
    <2>2. th' = [th EXCEPT ![c] = [th[c] EXCEPT !.pc = "room", !.i = i,
                                               !.msg = th[c].msg]]
      BY <1>5, <2>1, Zenon
    <2> DEFINE msg == th[c].msg
    <2>3. th' = [th EXCEPT ![c] = [th[c] EXCEPT !.pc = "room", !.i = i, !.msg = msg]]
      BY <2>2, Zenon
    <2> HIDE DEF msg
    <2> QED
      BY <2>3, GoesOnLocals
  <1>6. RoomPayload(c) =>
          GoesOn(c) /\ th'[c].pc = "room" /\ th'[c].i = th[c].i + 1
    BY <1>5 DEF RoomPayload
  <1>7. ASSUME RoomSkip(c)
        PROVE  GoesOn(c) /\ th'[c].pc = "room" /\ th'[c].i = th[c].i + 1
    <2>1. th' = [th EXCEPT ![c] = [th[c] EXCEPT !.i = th[c].i + 1]]
          /\ th[c].pc = "room"
      BY <1>7 DEF RoomSkip, At
    <2>2. [th[c] EXCEPT !.i = th[c].i + 1]
            = [th[c] EXCEPT !.pc = "room", !.i = th[c].i + 1]
      BY <1>1, <2>1 DEF Thread
    <2>3. th' = [th EXCEPT ![c] = [th[c] EXCEPT !.pc = "room", !.i = th[c].i + 1]]
      BY <2>1, <2>2, Zenon
    <2> QED
      BY <1>5, <2>3
  <1> QED
    BY <1>2, <1>3, <1>4, <1>6, <1>7

\* The steps that enter a handler of a room, and those that leave it.
LEMMA EdgeLocals ==
    ASSUME ServerInv, NEW c \in Conns
    PROVE  /\ NewRoom(c) \/ RoomDone(c) =>
                th'[c].pc = "recv" /\ th'[c].pkt.type = "NONE"
           /\ \A g \in DOMAIN roomList : \A pc :
                EnterRoom(c, g, pc) =>
                  /\ th'[c].pc = pc /\ th'[c].i = 1 /\ th'[c].room = g
                  /\ th'[c].pkt = Incoming(c) /\ th'[c].fd = th[c].fd
  <1>1. th \in [Conns -> Thread] /\ th[c] \in Thread
    BY KnownTypes DEF ServerInv
  <1>2. ASSUME NewRoom(c) \/ RoomDone(c)
        PROVE  th'[c].pc = "recv" /\ th'[c].pkt.type = "NONE"
    <2>1. \E k \in {0, 1} : th' = [th EXCEPT ![c] = Idle(th[c], k)]
      BY <1>2 DEF NewRoom, RoomDone, Return, ReceiveAndReturn
    <2> QED
      BY <2>1, IdleLocals
  <1>3. ASSUME NEW g \in DOMAIN roomList, NEW pc, EnterRoom(c, g, pc)
        PROVE  /\ th'[c].pc = pc /\ th'[c].i = 1 /\ th'[c].room = g
               /\ th'[c].pkt = Incoming(c) /\ th'[c].fd = th[c].fd
    <2> DEFINE t == [th[c] EXCEPT !.pc = pc, !.got = @ + 1, !.i = 1,
                                  !.pkt = Incoming(c), !.room = g]
    <2>1. th'[c] = t
      BY <1>1, <1>3 DEF EnterRoom
    <2>2. /\ t.pc = pc /\ t.i = 1 /\ t.room = g /\ t.pkt = Incoming(c)
          /\ t.fd = th[c].fd
      BY <1>1 DEF Thread
    <2> HIDE DEF t
    <2> QED
      BY <2>1, <2>2
  <1> QED
    BY <1>2, <1>3

----------------------------------------------------------------------------
(* The steps of the threads while nobody is removed. *)

\* What the invariant says of the lists and the sockets.
Calm == ServerInv /\ InviteInv /\ ListsFull /\ NobodyRemoved

LEMMA CalmSteps ==
    ASSUME Calm, NEW c \in Conns, ServerThread(c)
    PROVE  Calmly(c) /\ sent' = sent
  <1>1. ListsGrow
    BY ListSteps DEF Calm
  <1>2. CASE RoomHandler(c) /\ UNCHANGED clientList
    <2>1. RoomEffect(c) /\ Tells(c)
      BY <1>2, RoomEffects, RoomTells DEF Calm
    <2>2. Onwards
      BY <2>1 DEF Onwards, RoomEffect, RoomFrame
    <2> QED
      BY <1>1, <2>1, <2>2 DEF Calmly, RoomEffect, Tells
  <1>3. CASE ServerStep(c) /\ UNCHANGED roomList
    <2>1. RegistryEffect(c) /\ Onwards
      BY <1>3, RegistryEffects, RegistryOnwards DEF Calm
    <2>2. \E f, part, p : Emits(c, f, part, p)
      <3>1. out' = out => Emits(c, NoFd, "header", Blank)
        BY DEF Emits
      <3> QED
        BY <2>1, <3>1 DEF RegistryEffect, WritesNoKicked
    <2> QED
      BY <1>1, <2>1, <2>2 DEF Calmly, RegistryEffect
  <1> QED
    BY <1>2, <1>3 DEF ServerThread, Handler, ServerStep

\* What a loop has done stays done.
LEMMA ServedStays ==
    ASSUME Calm, NEW c \in Conns, Calmly(c), NEW d \in Conns,
           th[d].pc \in InRoom, NEW s, Served(d, s),
           th'[d].pkt = th[d].pkt, th'[d].room = th[d].room,
           th'[d].fd = th[d].fd
    PROVE  Served(d, s)'
  <1>1. th[d].room \in DOMAIN roomList
    BY InLoop DEF Calm
  <1>2. /\ s \in DOMAIN Members(d).clients
        /\ Members(d)'.clients[s] = Members(d).clients[s]
        /\ s \in DOMAIN Members(d)'.clients
    BY <1>1, CalmOthers DEF Calm, Served, Members
  <1>3. PICK f \in Fds, x \in Conns : Members(d).clients[s].FD = f /\ fdTable[f] = x
    BY <1>1, <1>2, SlotOwners DEF Calm, Members
  <1>4. f # th[d].fd => th[d].pkt \in Payloads(x)
    BY <1>3 DEF Served
  <1>5. fdTable'[f] = x /\ Payloads(x) \subseteq Payloads(x)'
    BY <1>3, CalmOthers DEF Calm
  <1>6. Members(d)'.clients[s].FD = f
    BY <1>2, <1>3
  <1>7. f # th'[d].fd => th'[d].pkt \in Payloads(x)'
    BY <1>4, <1>5
  <1> QED
    BY <1>2, <1>5, <1>6, <1>7 DEF Served, Payloads

\* The loops of the other threads.
LEMMA OthersReach ==
    ASSUME Calm, NEW c \in Conns, Calmly(c), NEW d \in Conns \ {c}, Reaches(d)
    PROVE  Reaches(d)'
  <1>1. /\ th'[d].pc = th[d].pc /\ th'[d].pkt = th[d].pkt /\ th'[d].i = th[d].i
        /\ th'[d].room = th[d].room /\ th'[d].fd = th[d].fd
    BY DEF Calmly, RoomFrame
  <1> SUFFICES ASSUME th[d].pc \in {"room", "roomPayload"},
                      th[d].pkt.type = "GROUP_CHAT",
                      NEW s \in 1 .. th[d].i - 1
               PROVE  Served(d, s)'
    BY <1>1 DEF Reaches
  <1>2. Served(d, s) /\ th[d].pc \in InRoom
    BY DEF Reaches, InRoom
  <1> QED
    BY <1>1, <1>2, ServedStays

\* The loop of a GROUP_CHAT is at a slot whose member has an open descriptor.
LEMMA SlotAtHand ==
    ASSUME Calm, NEW c \in Conns,
           \/ th[c].pc = "roomPayload"
           \/ th[c].pc = "room" /\ th[c].i <= Members(c).size
    PROVE  /\ th[c].room \in DOMAIN roomList
           /\ th[c].i \in Nat /\ th[c].i >= 1
           /\ th[c].i \in DOMAIN Members(c).clients
           /\ MemberFd(c) \in Fds /\ fdTable[MemberFd(c)] \in Conns
  <1>1. /\ th[c].room \in DOMAIN roomList
        /\ th[c].i \in Nat /\ th[c].i >= 1
    BY InLoop DEF InRoom, Calm
  <1>2. th[c].i \in DOMAIN Members(c).clients
    BY LoopSlot DEF Calm, ServerInv, RoomInv, RoomLocals, Members
  <1>3. MemberFd(c) \in Fds /\ fdTable[MemberFd(c)] \in Conns
    BY <1>1, <1>2, SlotOwners DEF Calm, MemberFd, Members
  <1> QED
    BY <1>1, <1>2, <1>3

\* The loop of a thread's own steps.
LEMMA OwnReach ==
    ASSUME Calm, NEW c \in Conns, ServerThread(c), Reaches(c)
    PROVE  Reaches(c)'
  <1>1. Calmly(c) /\ sent' = sent
    BY CalmSteps
  <1>2. CASE ServerStep(c) /\ UNCHANGED roomList
    BY <1>2, RegistryEffects DEF Calm, RegistryEffect, InRoom, Reaches
  <1>3. CASE NewRoom(c) \/ RoomDone(c)
    BY <1>3, EdgeLocals DEF Calm, Reaches
  <1>4. CASE NewMember(c)
    <2>1. th'[c].pc = "details"
      BY <1>4, EdgeLocals DEF Calm, NewMember
    <2> QED
      BY <2>1 DEF Reaches
  <1>5. CASE GroupChat(c)
    <2>1. th'[c].i = 1
      BY <1>5, EdgeLocals DEF Calm, GroupChat
    <2> QED
      BY <2>1 DEF Reaches
  <1>6. CASE DetailsHeader(c) \/ DetailsPayload(c)
    <2>1. th[c].pc \in {"details", "detailsPayload"} /\ GoesOn(c)
      BY <1>6, LoopLocals DEF Calm, DetailsHeader, DetailsPayload, At
    <2>2. th'[c].pkt.type = "JOIN_ROOM"
      BY <2>1 DEF Calm, InviteInv, TellsOfRoom, GoesOn
    <2> QED
      BY <2>2 DEF Reaches
  <1>7. CASE RoomHeader(c)
    <2>1. /\ th[c].pc = "room" /\ GoesOn(c) /\ th'[c].i = th[c].i
      BY <1>7, LoopLocals DEF Calm, RoomHeader, At
    <2> SUFFICES ASSUME th[c].pkt.type = "GROUP_CHAT", NEW s \in 1 .. th[c].i - 1
                 PROVE  Served(c, s)'
      BY <2>1 DEF Reaches, GoesOn
    <2>2. Served(c, s)
      BY <2>1 DEF Reaches
    <2> QED
      BY <1>1, <2>1, <2>2, ServedStays DEF GoesOn, InRoom
  <1>8. CASE RoomPayload(c) \/ RoomSkip(c)
    <2>1. /\ GoesOn(c) /\ th'[c].i = th[c].i + 1
          /\ \/ th[c].pc = "roomPayload"
             \/ th[c].pc = "room" /\ th[c].i <= Members(c).size
      BY <1>8, LoopLocals DEF Calm, RoomPayload, RoomSkip, At
    <2>2. /\ th[c].i \in Nat /\ th[c].i \in DOMAIN Members(c).clients
      BY <2>1, SlotAtHand
    <2> SUFFICES ASSUME th[c].pkt.type = "GROUP_CHAT", NEW s \in 1 .. th[c].i
                 PROVE  Served(c, s)'
      BY <2>1, <2>2 DEF Reaches, GoesOn
    <2>3. CASE s # th[c].i
      <3>1. Served(c, s)
        BY <2>1, <2>2, <2>3 DEF Reaches
      <3> QED
        BY <1>1, <2>1, <3>1, ServedStays DEF GoesOn, InRoom
    <2>4. CASE s = th[c].i /\ RoomSkip(c)
      <3>1. MemberFd(c) = th[c].fd
        BY <2>4 DEF RoomSkip, SkippedFd
      <3>2. Served(c, s)
        BY <2>2, <2>4, <3>1 DEF Served, MemberFd
      <3> QED
        BY <1>1, <2>1, <3>2, ServedStays DEF GoesOn, InRoom
    <2>5. CASE s = th[c].i /\ RoomPayload(c)
      <3>1. /\ th[c].pc = "roomPayload" /\ th[c].room \in DOMAIN roomList
            /\ Send(c, MemberFd(c), "payload", th[c].pkt)
        BY <2>5, SlotAtHand DEF RoomPayload, At, SendPayload
      <3>2. PICK f \in Fds, x \in Conns : MemberFd(c) = f /\ fdTable[f] = x
        BY <3>1, SlotAtHand
      <3>3. th[c].pkt \in Payloads(x)'
        BY <3>1, <3>2, Arrives DEF Calm
      <3>4. /\ s \in DOMAIN Members(c)'.clients
            /\ Members(c)'.clients[s].FD = f /\ fdTable'[f] = x
        <4>1. /\ s \in DOMAIN roomList[th[c].room].members.clients
              /\ roomList[th[c].room].members.clients[s].FD = f
          BY <2>2, <2>5, <3>2 DEF Members, MemberFd
        <4>2. th'[c].room = th[c].room
          BY <2>1 DEF GoesOn
        <4> QED
          BY <1>1, <3>1, <3>2, <4>1, <4>2, CalmOthers DEF Members, Calm
      <3>5. th'[c].pkt \in Payloads(x)'
        BY <2>1, <3>3 DEF GoesOn
      <3> QED
        BY <3>4, <3>5 DEF Served, Payloads
    <2> QED
      BY <1>8, <2>3, <2>4, <2>5
  <1> QED
    BY <1>2, <1>3, <1>4, <1>5, <1>6, <1>7, <1>8, CalmHandlers
       DEF Calm, CalmRoom, ServerThread, Handler, ServerStep

----------------------------------------------------------------------------
(* Acquaintance *)

\* Slots of before the step hold what they held.
LEMMA OldSlots ==
    ASSUME Calm, NEW c \in Conns, Calmly(c), NEW g \in DOMAIN roomList,
           NEW s \in DOMAIN roomList[g].members.clients
    PROVE  /\ g \in DOMAIN roomList' /\ roomList'[g].name = roomList[g].name
           /\ s \in DOMAIN roomList'[g].members.clients
           /\ roomList'[g].members.clients[s] = roomList[g].members.clients[s]
  BY CalmOthers DEF Calm

\* A thread that will yet tell one member of another still will after the steps
\* of the others.
LEMMA OthersTelling ==
    ASSUME Calm, NEW c \in Conns, Calmly(c), NEW d \in Conns \ {c},
           NEW g \in DOMAIN roomList,
           NEW a \in DOMAIN roomList[g].members.clients,
           NEW b \in DOMAIN roomList[g].members.clients, Telling(d, g, a, b)
    PROVE  Telling(d, g, a, b)'
  <1>1. /\ th'[d].pc = th[d].pc /\ th'[d].pkt = th[d].pkt /\ th'[d].i = th[d].i
        /\ th'[d].room = th[d].room /\ th'[d].msg = th[d].msg
    BY DEF Calmly, RoomFrame
  <1>2. /\ roomList'[g].members.clients[a] = roomList[g].members.clients[a]
        /\ roomList'[g].members.clients[b] = roomList[g].members.clients[b]
    BY OldSlots
  <1> QED
    BY <1>1, <1>2 DEF Telling

\* The handler of a JOIN_ROOM tells: the new member by the details of the room,
\* the others by the packet.
LEMMA OwnTelling ==
    ASSUME Calm, AllAcquainted, NEW c \in Conns, ServerThread(c),
           NEW g \in DOMAIN roomList,
           NEW a \in DOMAIN roomList[g].members.clients,
           NEW b \in DOMAIN roomList[g].members.clients,
           NEW x \in Conns, NEW f \in Fds, NEW h, NEW r,
           roomList[g].members.clients[a].FD = f, fdTable[f] = x,
           roomList[g].members.clients[b].FD = h, h # f,
           roomList[g].name = r,
           Telling(c, g, a, b)
    PROVE  Telling(c, g, a, b)' \/ ToldOfMember(x, r, h)'
  <1>1. /\ Calmly(c)
        /\ th[c].pkt.type = "JOIN_ROOM" /\ th[c].room = g
        /\ th[c].pc \in {"details", "detailsPayload", "room", "roomPayload"}
    BY CalmSteps DEF Telling
  <1>2. /\ a \in Nat /\ a >= 1 /\ a <= Len(Members(c).clients)
        /\ b \in 1 .. Len(Members(c).clients)
        /\ Members(c) = roomList[g].members
        /\ Members(c).size = Len(Members(c).clients)
        /\ Len(Members(c).clients) \in Nat
        /\ Members(c).clients \in Seq(Entries)
    <2>1. /\ roomList[g].members \in ClientList(Names, AnyFd)
          /\ roomList[g].members.size = Len(roomList[g].members.clients)
      BY RoomKnown DEF Calm, ListsFull
    <2>2. roomList[g].members.clients \in Seq(Entries)
      BY <2>1 DEF ClientList, Entries
    <2> QED
      BY <1>1, <2>1, <2>2, LenProperties DEF Members
  <1>3. /\ g \in DOMAIN roomList' /\ roomList'[g].name = r
        /\ roomList'[g].members.clients[a].FD = f
        /\ roomList'[g].members.clients[b].FD = h
    BY <1>1, OldSlots
  <1>4. r = th[c].pkt.room
    BY <1>1 DEF Calm, InviteInv, TellsOfRoom, InRoom
  <1>5. th[c].pc \in {"details", "detailsPayload"} => th[c].i = 1
    BY DEF AllAcquainted
  \* What the thread will do, in terms of the names above.
  <1>6. \/ /\ th[c].pkt.fd = h
           /\ \/ th[c].pc \in {"details", "detailsPayload"}
              \/ th[c].pc \in {"room", "roomPayload"} /\ th[c].i <= a
        \/ /\ th[c].pkt.fd = f
           /\ \/ th[c].pc = "details"
              \/ /\ th[c].pc = "detailsPayload"
                 /\ \E j \in DOMAIN th[c].msg.list : th[c].msg.list[j].FD = h
    BY DEF Telling
  <1>7. (/\ GoesOn(c)
         /\ \/ /\ th[c].pkt.fd = h
               /\ \/ th'[c].pc \in {"details", "detailsPayload"}
                  \/ th'[c].pc \in {"room", "roomPayload"} /\ th'[c].i <= a
            \/ /\ th[c].pkt.fd = f
               /\ th'[c].pc = "detailsPayload"
               /\ \E j \in DOMAIN th'[c].msg.list : th'[c].msg.list[j].FD = h)
          => Telling(c, g, a, b)'
    BY <1>1, <1>3 DEF Telling, GoesOn
  <1>8. CASE DetailsHeader(c)
    <2>1. /\ GoesOn(c) /\ th'[c].pc = "detailsPayload"
          /\ th'[c].msg.list = SubSeq(Members(c).clients, 1, Members(c).size)
      BY <1>8, LoopLocals DEF Calm
    <2>2. /\ b \in DOMAIN th'[c].msg.list
          /\ th'[c].msg.list[b] = Members(c).clients[b]
      <3> HIDE DEF Entries
      <3> QED
        BY <1>2, <2>1
    <2>3. th'[c].msg.list[b].FD = h
      BY <1>2, <2>2
    <2>4. th[c].pc = "details"
      BY <1>8 DEF DetailsHeader, At
    <2> QED
      BY <1>6, <1>7, <2>1, <2>2, <2>3, <2>4
  <1>9. CASE DetailsPayload(c)
    <2>1. /\ GoesOn(c) /\ th'[c].pc = "room" /\ th'[c].i = th[c].i
          /\ th[c].pc = "detailsPayload"
          /\ Send(c, th[c].pkt.fd, "payload", th[c].msg)
      BY <1>9, LoopLocals DEF Calm, DetailsPayload, At, SendPayload
    <2>2. CASE th[c].pkt.fd = h
      BY <1>2, <1>5, <1>7, <2>1, <2>2
    <2>3. CASE th[c].pkt.fd = f /\ \E j \in DOMAIN th[c].msg.list :
                                     th[c].msg.list[j].FD = h
      <3>1. th[c].msg \in Payloads(x)'
        BY <2>1, <2>3, Arrives DEF Calm
      <3>2. th[c].msg.type = "GROUP_LIST" /\ th[c].msg.room = r
        BY <1>4, <2>1 DEF Calm, InviteInv, TellsOfRoom, ServerInv, RoomInv,
           RoomLocals
      <3> QED
        BY <2>3, <3>1, <3>2 DEF ToldOfMember
    <2> QED
      BY <1>6, <2>1, <2>2, <2>3
  <1>10. CASE RoomHeader(c)
    <2>1. /\ GoesOn(c) /\ th'[c].pc = "roomPayload" /\ th'[c].i = th[c].i
          /\ th[c].pc = "room"
      BY <1>10, LoopLocals DEF Calm, RoomHeader, At
    <2> QED
      BY <1>6, <1>7, <2>1
  <1>11. CASE RoomPayload(c)
    <2>1. /\ GoesOn(c) /\ th'[c].pc = "room" /\ th'[c].i = th[c].i + 1
          /\ th[c].pc = "roomPayload"
          /\ Send(c, MemberFd(c), "payload", th[c].pkt)
      BY <1>11, LoopLocals DEF Calm, RoomPayload, At, SendPayload
    <2>2. th[c].i \in Nat
      BY <2>1, SlotAtHand
    <2>3. th[c].pkt.fd = h /\ th[c].i <= a
      BY <1>6, <2>1
    <2>4. CASE th[c].i < a
      BY <1>2, <1>7, <2>1, <2>2, <2>3, <2>4
    <2>5. CASE th[c].i = a
      <3>1. MemberFd(c) = f
        BY <1>2, <2>5 DEF MemberFd
      <3>2. th[c].pkt \in Payloads(x)'
        BY <2>1, <3>1, Arrives DEF Calm
      <3> QED
        BY <1>1, <1>4, <2>3, <3>2 DEF ToldOfMember
    <2> QED
      BY <1>2, <2>2, <2>3, <2>4, <2>5
  <1>12. CASE RoomSkip(c)
    <2>1. /\ GoesOn(c) /\ th'[c].pc = "room" /\ th'[c].i = th[c].i + 1
          /\ th[c].pc = "room" /\ th[c].i <= Members(c).size
          /\ MemberFd(c) = th[c].pkt.fd
      BY <1>1, <1>12, LoopLocals DEF Calm, RoomSkip, At, SkippedFd
    <2>2. th[c].i \in Nat
      BY <2>1, SlotAtHand
    <2>3. th[c].pkt.fd = h /\ th[c].i <= a
      BY <1>6, <2>1
    <2>4. th[c].i # a
      BY <1>2, <2>1, <2>3 DEF MemberFd
    <2> QED
      BY <1>2, <1>7, <2>1, <2>2, <2>3, <2>4
  <1>13. ~RoomDone(c)
    <2>1. RoomDone(c) => th[c].pc = "room" /\ th[c].i > Members(c).size
      BY DEF RoomDone, At
    <2>2. th[c].pc = "room" => th[c].i \in Nat /\ th[c].i <= a
      BY <1>6, InLoop DEF Calm, InRoom
    <2> QED
      BY <1>2, <2>1, <2>2
  <1>14. ~ServerStep(c)
    BY <1>1, RegistryEffects DEF Calm, InRoom
  <1>15. ~NewRoom(c) /\ ~NewMember(c) /\ ~GroupChat(c)
    BY <1>1 DEF NewRoom, NewMember, GroupChat, Receives
  <1> QED
    BY <1>8, <1>9, <1>10, <1>11, <1>12, <1>13, <1>14, <1>15, CalmHandlers
       DEF Calm, CalmRoom, ServerThread, Handler, ServerStep

\* A slot that was not there is the creator's of a new room, its only one, or
\* that of the member whom the thread is about to announce.
LEMMA NewSlots ==
    ASSUME Calm, NEW c \in Conns, ServerThread(c), NEW g \in DOMAIN roomList',
           NEW s \in DOMAIN roomList'[g].members.clients
    PROVE  \/ g \in DOMAIN roomList /\ s \in DOMAIN roomList[g].members.clients
           \/ g \notin DOMAIN roomList /\ DOMAIN roomList'[g].members.clients = {1}
           \/ /\ th'[c].pc = "details" /\ th'[c].room = g
              /\ th'[c].pkt.type = "JOIN_ROOM"
              /\ th'[c].pkt.fd = roomList'[g].members.clients[s].FD
  <1>1. roomList \in Seq(Room)
    BY DEF Calm, ServerInv, RoomInv, RoomsTypeOK
  <1>2. CASE roomList' = roomList
    BY <1>2
  <1>3. CASE NewRoom(c)
    <2> DEFINE admin == [name |-> Incoming(c).name, FD |-> th[c].fd]
               new == [name    |-> Incoming(c).room,
                       admin   |-> admin.FD,
                       members |-> addClientInClientList(EmptyList, admin)]
    <2>1. roomList' = Append(roomList, new)
      BY <1>3 DEF NewRoom
    <2>2. new.members.clients = <<admin>>
      BY DEF addClientInClientList, EmptyList
    <2> HIDE DEF admin, new
    <2>3. /\ DOMAIN roomList = 1 .. Len(roomList) /\ Len(roomList) \in Nat
          /\ DOMAIN roomList' = 1 .. Len(roomList) + 1
          /\ \A i \in 1 .. Len(roomList) : roomList'[i] = roomList[i]
          /\ roomList'[Len(roomList) + 1] = new
      BY <1>1, <2>1, LenProperties
    <2>4. CASE g \in DOMAIN roomList
      BY <2>3, <2>4
    <2>5. CASE g \notin DOMAIN roomList
      <3>1. roomList'[g].members.clients = <<admin>>
        BY <2>2, <2>3, <2>5
      <3>2. DOMAIN roomList'[g].members.clients = {1}
        BY <3>1
      <3> QED
        BY <2>5, <3>2
    <2> QED
      BY <2>4, <2>5
  <1>4. CASE NewMember(c)
    <2> DEFINE client == [name |-> Incoming(c).name, FD |-> Incoming(c).fd]
    <2>1. PICK r \in DOMAIN roomList :
            /\ roomList' = [roomList EXCEPT ![r].members =
                              addClientInClientList(@, client)]
            /\ EnterRoom(c, r, "details") /\ Incoming(c).type = "JOIN_ROOM"
      BY <1>4 DEF NewMember, Receives
    <2>2. client.FD = Incoming(c).fd
      OBVIOUS
    <2> HIDE DEF client
    <2>3. PICK new : new = addClientInClientList(roomList[r].members, client)
      OBVIOUS
    <2>4. /\ roomList[r].members \in ClientList(Names, AnyFd)
          /\ roomList[r].members.size = Len(roomList[r].members.clients)
      BY RoomKnown DEF Calm, ListsFull
    <2>5. /\ DOMAIN new.clients = 1 .. Len(roomList[r].members.clients) + 1
          /\ DOMAIN roomList[r].members.clients
               = 1 .. Len(roomList[r].members.clients)
          /\ Len(roomList[r].members.clients) \in Nat
          /\ new.clients[Len(roomList[r].members.clients) + 1] = client
      BY <2>3, <2>4, FullAddition
    <2>6. /\ DOMAIN roomList' = DOMAIN roomList
          /\ roomList'[r].members = new
          /\ \A h \in DOMAIN roomList :
               h # r => roomList'[h].members = roomList[h].members
      BY <2>1, <2>3, OneRoomChanges DEF RoomsStay, Calm
    <2>7. /\ th'[c].pc = "details" /\ th'[c].room = r
          /\ th'[c].pkt.type = "JOIN_ROOM" /\ th'[c].pkt.fd = client.FD
      BY <2>1, <2>2, EdgeLocals DEF Calm
    <2>8. CASE g = r /\ s = Len(roomList[r].members.clients) + 1
      BY <2>5, <2>6, <2>7, <2>8
    <2>9. CASE ~(g = r /\ s = Len(roomList[r].members.clients) + 1)
      BY <2>5, <2>6, <2>9
    <2> QED
      BY <2>8, <2>9
  <1>5. roomList' = roomList \/ NewRoom(c) \/ NewMember(c)
    <2>1. CASE RoomHandler(c)
      BY <2>1, CalmHandlers DEF Calm, CalmRoom, GroupChat, DetailsHeader,
         DetailsPayload, RoomHeader, RoomPayload, RoomSkip
    <2>2. CASE ~RoomHandler(c)
      BY <2>2 DEF ServerThread, Handler
    <2> QED
      BY <2>1, <2>2
  <1> QED
    BY <1>2, <1>3, <1>4, <1>5

\* Nobody is told by a loop that has not begun.
LEMMA DetailsFirst ==
    ASSUME Calm, AllAcquainted, NEW c \in Conns, ServerThread(c), NEW d \in Conns,
           th'[d].pc \in {"details", "detailsPayload"}
    PROVE  th'[d].i = 1
  <1>1. CASE d # c
    BY <1>1, CalmSteps DEF Calmly, RoomFrame, AllAcquainted
  <1>2. CASE d = c
    <2>1. ~ServerStep(c)
      BY <1>2, RegistryEffects DEF Calm, RegistryEffect, InRoom
    <2>2. NewRoom(c) \/ RoomDone(c) \/ DetailsPayload(c) \/ RoomHeader(c)
            \/ RoomPayload(c) \/ RoomSkip(c)
            => th'[c].pc \notin {"details", "detailsPayload"}
      BY EdgeLocals, LoopLocals DEF Calm
    <2>3. NewMember(c) \/ GroupChat(c) => th'[c].i = 1
      BY EdgeLocals DEF Calm, NewMember, GroupChat
    <2>4. DetailsHeader(c) => th'[c].i = 1
      BY LoopLocals DEF Calm, DetailsHeader, At, AllAcquainted
    <2> QED
      BY <1>2, <2>1, <2>2, <2>3, <2>4, CalmHandlers
         DEF Calm, CalmRoom, ServerThread, Handler, ServerStep
  <1> QED
    BY <1>1, <1>2

\* The members of a room are acquainted or about to be.
LEMMA StayAcquainted ==
    ASSUME Calm, AllAcquainted, NEW c \in Conns, ServerThread(c)
    PROVE  AllAcquainted'
  <1>1. Calmly(c)
    BY CalmSteps
  <1> SUFFICES ASSUME NEW g \in DOMAIN roomList',
                      NEW a \in DOMAIN roomList'[g].members.clients,
                      NEW b \in DOMAIN roomList'[g].members.clients,
                      NEW f, NEW h,
                      roomList'[g].members.clients[a].FD = f,
                      roomList'[g].members.clients[b].FD = h, f # h
               PROVE  \/ ToldOfMember(fdTable[f], roomList[g].name, h)'
                      \/ \E d \in Conns : Telling(d, g, a, b)'
    <2>1. \A d \in Conns : th'[d].pc \in {"details", "detailsPayload"}
                             => th'[d].i = 1
      BY DetailsFirst
    <2> QED
      BY <2>1 DEF AllAcquainted, Acquainted
  <1>2. CASE /\ g \in DOMAIN roomList
             /\ a \in DOMAIN roomList[g].members.clients
             /\ b \in DOMAIN roomList[g].members.clients
    <2>1. /\ roomList[g].members.clients[a].FD = f
          /\ roomList[g].members.clients[b].FD = h
          /\ roomList'[g].name = roomList[g].name
      BY <1>1, <1>2, OldSlots
    <2>2. PICK x \in Conns : f \in Fds /\ fdTable[f] = x
      BY <1>2, <2>1, SlotOwners DEF Calm
    <2>3. fdTable'[f] = x /\ Payloads(x) \subseteq Payloads(x)'
      BY <1>1, <2>2, CalmOthers DEF Calm
    <2>4. PICK r : r = roomList[g].name
      OBVIOUS
    <2>5. ToldOfMember(x, r, h)' => ToldOfMember(fdTable[f], roomList[g].name, h)'
      BY <2>1, <2>3, <2>4 DEF ToldOfMember, Payloads
    <2>6. \/ ToldOfMember(x, r, h)
          \/ \E d \in Conns : Telling(d, g, a, b)
      BY <1>2, <2>1, <2>2, <2>4 DEF AllAcquainted, Acquainted
    <2>7. CASE ToldOfMember(x, r, h)
      BY <2>3, <2>5, <2>7, ToldStays
    <2>8. ASSUME NEW d \in Conns, Telling(d, g, a, b)
          PROVE  Telling(d, g, a, b)' \/ ToldOfMember(x, r, h)'
      <3>1. CASE d = c
        BY <1>2, <2>1, <2>2, <2>4, <2>8, <3>1, OwnTelling
      <3>2. CASE d # c
        BY <1>1, <1>2, <2>8, <3>2, OthersTelling
      <3> QED
        BY <3>1, <3>2
    <2> QED
      BY <2>5, <2>6, <2>7, <2>8
  <1>3. CASE g \notin DOMAIN roomList
             /\ DOMAIN roomList'[g].members.clients = {1}
    BY <1>3
  <1>4. CASE /\ th'[c].pc = "details" /\ th'[c].room = g
             /\ th'[c].pkt.type = "JOIN_ROOM"
             /\ th'[c].pkt.fd = f \/ th'[c].pkt.fd = h
    BY <1>4 DEF Telling
  <1> QED
    BY <1>2, <1>3, <1>4, NewSlots

----------------------------------------------------------------------------
(* Headers and payloads *)

\* Where a thread is between the two send() calls of a packet.
Sending == {"introducePayload", "listPayload", "chatPayload", "detailsPayload",
            "roomPayload"}

\* The slot of the loop of introduceNewClient.
LEMMA IntroduceSlot ==
    ASSUME ServerInv, NEW c \in Conns, th[c].pc = "introducePayload"
    PROVE  th[c].i \in DOMAIN clientList.clients
  <1>1. /\ th[c].i \in 1 .. th[c].n /\ th[c].n <= Len(clientList.clients)
        /\ th[c].n \in Nat /\ Len(clientList.clients) \in Nat
        /\ clientList.clients \in Seq(Entries)
    BY KnownTypes DEF ServerInv, SlotInv, HoldsCopy, Thread
  <1> HIDE DEF Entries
  <1> QED
    BY <1>1, LenProperties

\* The two calls go to one open descriptor.
LEMMA BetweenInUse ==
    ASSUME Calm, ChatsFindOwners, NEW c \in Conns, NEW f \in Fds, NEW type,
           Between(c, f, type)
    PROVE  fdTable[f] \in Conns
  <1>1. CASE th[c].pc = "introducePayload" /\ f = clientList.clients[th[c].i].FD
    BY <1>1, IntroduceSlot, SlotOwners DEF Calm, InUse
  <1>2. CASE th[c].pc = "listPayload" /\ f = th[c].fd
    BY <1>2, OwnInUse DEF Calm, Alive
  <1>3. CASE th[c].pc = "chatPayload" /\ f = th[c].pkt.fd
    BY <1>3 DEF ChatsFindOwners, InUse
  <1>4. CASE th[c].pc = "detailsPayload" /\ f = th[c].pkt.fd
    BY <1>4, JoinerHears DEF Calm, MayHear
  <1>5. CASE th[c].pc = "roomPayload" /\ f = MemberFd(c)
    BY <1>5, SlotAtHand
  <1> QED
    BY <1>1, <1>2, <1>3, <1>4, <1>5 DEF Between

LEMMA BetweenType ==
    ASSUME ServerInv, NEW c \in Conns, NEW f, NEW type, Between(c, f, type)
    PROVE  type \in Types
  <1>1. th[c].pkt.type \in Types
    <2>1. th[c].pkt \in Packet
      BY KnownTypes DEF ServerInv, Thread
    <2> QED
      BY <2>1 DEF Packet
  <1> QED
    BY <1>1 DEF Between, Types

\* The steps of the others do not come between them.
LEMMA OthersBetween ==
    ASSUME Calm, NEW c \in Conns, Calmly(c), NEW d \in Conns \ {c},
           NEW f, NEW type, Between(d, f, type)'
    PROVE  Between(d, f, type)
  <1>1. /\ th'[d].pc = th[d].pc /\ th'[d].pkt = th[d].pkt /\ th'[d].i = th[d].i
        /\ th'[d].room = th[d].room /\ th'[d].fd = th[d].fd
    BY DEF Calmly, RoomFrame
  <1>2. CASE th[d].pc = "introducePayload"
    <2>1. th[d].i \in DOMAIN clientList.clients
      BY <1>2, IntroduceSlot DEF Calm
    <2>2. clientList'.clients[th[d].i] = clientList.clients[th[d].i]
      BY <2>1 DEF Calmly, ListsGrow
    <2> QED
      BY <1>1, <1>2, <2>2 DEF Between
  <1>3. CASE th[d].pc = "roomPayload"
    <2>1. MemberFd(d)' = MemberFd(d)
      <3>1. /\ th[d].room \in DOMAIN roomList
            /\ th[d].i \in DOMAIN roomList[th[d].room].members.clients
        BY <1>3, SlotAtHand DEF Members
      <3> QED
        BY <1>1, <3>1, OldSlots DEF MemberFd, Members
    <2> QED
      BY <1>1, <1>3, <2>1 DEF Between
  <1>4. CASE th[d].pc \notin {"introducePayload", "roomPayload"}
    BY <1>1, <1>4 DEF Between
  <1> QED
    BY <1>2, <1>3, <1>4

\* A step that writes nothing, or the payload, is of no thread between the two
\* calls any more ...
Rests(c) == th'[c].pc \notin Sending

\* ... and one that writes the header goes between the calls of that packet.
Begins(c, f, p) ==
    \A h, type : Between(c, h, type)' => h = f /\ type = p.type

\* What the handlers of the registry write.
LEMMA RegistryWrites ==
    ASSUME Calm, ChatsFindOwners, NEW c \in Conns, ServerStep(c),
           UNCHANGED roomList
    PROVE  \/ out' = out /\ Rests(c)
           \/ \E f, p : /\ Send(c, f, "payload", p) /\ Between(c, f, p.type)
                        /\ Rests(c)
           \/ \E f, p : /\ Send(c, f, "header", p) /\ InUse(f)
                        /\ Begins(c, f, p)
  <1>1. /\ th \in [Conns -> Thread] /\ th[c] \in Thread /\ InHandler(c)
        /\ ~th[c].stale
    BY KnownTypes DEF Calm, ServerInv, HandlerInv, InviteInv, AllStay
  <1>2. CASE IntroduceHeader(c)
    <2>1. /\ th[c].pc = "introduce" /\ clientList' = clientList
          /\ Send(c, clientList.clients[th[c].i].FD, "header", th[c].pkt)
          /\ th' = [th EXCEPT ![c] = [th[c] EXCEPT !.pc = "introducePayload"]]
      BY <1>1, <1>2 DEF IntroduceHeader, At, Slot, SendHeader
    <2>2. th'[c].pc = "introducePayload" /\ th'[c].i = th[c].i
      BY <1>1, <2>1 DEF Thread
    <2>3. th[c].pkt.type = "USER_JOINED_SERVER"
      BY <1>1, <2>1 DEF InHandler
    <2>4. Begins(c, clientList.clients[th[c].i].FD, th[c].pkt)
      BY <2>1, <2>2, <2>3 DEF Begins, Between
    <2>5. InUse(clientList.clients[th[c].i].FD)
      <3>1. /\ th[c].i \in Nat /\ th[c].i >= 1 /\ th[c].i <= th[c].n
            /\ th[c].n \in Nat /\ th[c].n <= Len(clientList.clients)
            /\ Len(clientList.clients) \in Nat
            /\ clientList.clients \in Seq(Entries)
        BY <1>1, <1>2, <2>1, KnownTypes DEF Calm, ServerInv, SlotInv, HoldsCopy,
           Thread, IntroduceHeader
      <3>2. th[c].i \in DOMAIN clientList.clients
        <4> HIDE DEF Entries
        <4> QED
          BY <3>1, LenProperties
      <3> QED
        BY <3>2, SlotOwners DEF Calm
    <2> QED
      BY <2>1, <2>4, <2>5
  <1>3. CASE IntroducePayload(c)
    <2>1. /\ th[c].pc = "introducePayload"
          /\ Send(c, clientList.clients[th[c].i].FD, "payload", th[c].pkt)
          /\ th' = [th EXCEPT ![c] = [th[c] EXCEPT !.pc = "introduce",
                                                   !.i = th[c].i + 1]]
      BY <1>1, <1>3 DEF IntroducePayload, At, Slot, SendPayload
    <2>2. th'[c].pc = "introduce"
      BY <1>1, <2>1 DEF Thread
    <2>3. th[c].pkt.type = "USER_JOINED_SERVER"
      BY <1>1, <2>1 DEF InHandler
    <2>4. Rests(c)
      BY <2>2 DEF Rests, Sending
    <2>5. Between(c, clientList.clients[th[c].i].FD, th[c].pkt.type)
      BY <2>1, <2>3 DEF Between
    <2> QED
      BY <2>1, <2>4, <2>5
  <1>4. CASE ListHeader(c)
    <2> DEFINE p == [Blank EXCEPT !.type = "CLIENT_LIST",
                       !.list = SubSeq(clientList.clients, 1, clientList.size)]
    <2>1. /\ Send(c, th[c].fd, "header", p)
          /\ th' = [th EXCEPT ![c] = [th[c] EXCEPT !.pc = "listPayload", !.pkt = p,
                                                   !.n = clientList.size]]
      BY <1>4 DEF ListHeader, SendHeader
    <2>2. p.type = "CLIENT_LIST"
      BY DEF Blank
    <2> HIDE DEF p
    <2>3. th'[c].pc = "listPayload" /\ th'[c].fd = th[c].fd
      BY <1>1, <2>1 DEF Thread
    <2>4. Begins(c, th[c].fd, p)
      BY <2>2, <2>3 DEF Begins, Between
    <2>5. InUse(th[c].fd)
      BY <1>4, OwnInUse DEF Calm, ListHeader, At, Alive
    <2> QED
      BY <2>1, <2>4, <2>5
  <1>5. CASE ListPayload(c)
    <2>1. PICK list : /\ th[c].pc = "listPayload" /\ Return(c)
                      /\ Send(c, th[c].fd, "payload",
                              [th[c].pkt EXCEPT !.list = list])
      BY <1>5 DEF ListPayload, At, SendPayload
    <2> DEFINE p == [th[c].pkt EXCEPT !.list = list]
    <2>2. p.type = "CLIENT_LIST"
      <3>1. th[c].pkt \in Packet /\ th[c].pkt.type = "CLIENT_LIST"
        BY <1>1, <2>1 DEF Thread, InHandler
      <3> QED
        BY <3>1 DEF Packet
    <2>3. Send(c, th[c].fd, "payload", p)
      BY <2>1
    <2> HIDE DEF p
    <2>4. Rests(c)
      BY <2>1, IdleEffect DEF Calm, Return, Rests, Sending
    <2>5. Between(c, th[c].fd, p.type)
      BY <2>1, <2>2 DEF Between
    <2> QED
      BY <2>3, <2>4, <2>5
  <1>6. CASE PeerChat(c)
    <2>1. /\ Incoming(c).type = "CHAT"
          /\ Send(c, Incoming(c).fd, "header", Incoming(c))
          /\ th' = [th EXCEPT ![c] = [th[c] EXCEPT !.pc = "chatPayload",
                                                   !.got = th[c].got + 1,
                                                   !.pkt = Incoming(c)]]
      BY <1>6 DEF PeerChat, Receives, SendHeader
    <2>2. th'[c].pc = "chatPayload" /\ th'[c].pkt = Incoming(c)
      BY <1>1, <2>1 DEF Thread
    <2>3. Begins(c, Incoming(c).fd, Incoming(c))
      BY <2>1, <2>2 DEF Begins, Between
    <2>4. InUse(Incoming(c).fd)
      <3>1. th[c].got + 1 \in DOMAIN sent[c]
        <4>1. /\ sent[c] \in Seq(Packet) /\ th[c].got \in Nat
              /\ th[c].got < Len(sent[c])
          BY <1>6, KnownTypes DEF Calm, ServerInv, NetTypeOK, Thread, PeerChat,
             Receives
        <4> QED
          BY <4>1, LenProperties
      <3> QED
        BY <2>1, <3>1 DEF ChatsFindOwners, Incoming
    <2> QED
      BY <2>1, <2>3, <2>4
  <1>7. CASE PeerChatPayload(c)
    <2>1. /\ th[c].pc = "chatPayload" /\ Return(c)
          /\ Send(c, th[c].pkt.fd, "payload", th[c].pkt)
      BY <1>7 DEF PeerChatPayload, At, SendPayload
    <2>2. th[c].pkt.type = "CHAT"
      BY <1>1, <2>1 DEF InHandler
    <2>3. Rests(c)
      BY <2>1, IdleEffect DEF Calm, Return, Rests, Sending
    <2>4. Between(c, th[c].pkt.fd, th[c].pkt.type)
      BY <2>1, <2>2 DEF Between
    <2> QED
      BY <2>1, <2>3, <2>4
  <1>8. CASE NewClient(c)
    <2>1. out' = out
      BY <1>8 DEF NewClient
    <2>2. th'[c].pc \in {"introduce", "recv"}
      <3>1. CASE ReceiveAndReturn(c)
        BY <3>1, IdleEffect DEF Calm, ReceiveAndReturn
      <3>2. CASE ~ReceiveAndReturn(c)
        <4>1. th' = [th EXCEPT ![c] = [th[c] EXCEPT !.pc = "introduce",
                                                    !.got = th[c].got + 1,
                                                    !.pkt = Joined(c), !.i = 1,
                                                    !.n = clientList.size]]
          BY <1>8, <3>2 DEF NewClient
        <4> QED
          BY <1>1, <4>1 DEF Thread
      <3> QED
        BY <3>1, <3>2
    <2> QED
      BY <2>1, <2>2 DEF Rests, Sending
  <1>9. CASE Register(c)
    <2>1. out' = out
      BY <1>9 DEF Register
    <2>2. th'[c].pc = "list"
      BY <1>1, <1>9 DEF Register, Thread
    <2> QED
      BY <2>1, <2>2 DEF Rests, Sending
  <1>10. CASE Accept(c)
    <2>1. out' = out
      BY <1>10 DEF Accept
    <2>2. th'[c].pc = "recv"
      BY <1>1, <1>10 DEF Accept, Thread
    <2> QED
      BY <2>1, <2>2 DEF Rests, Sending
  <1>11. CASE ReadsNull(c)
    BY <1>11 DEF ReadsNull, Rests, Sending
  <1>12. ~Close(c)
    BY RegistryOnwards DEF Calm
  <1> QED
    BY <1>2, <1>3, <1>4, <1>5, <1>6, <1>7, <1>8, <1>9, <1>10, <1>11, <1>12,
       CalmHandlers DEF Calm, CalmRegistry, ServerStep

\* What the handlers of the rooms write.
LEMMA RoomWrites ==
    ASSUME Calm, NEW c \in Conns, RoomHandler(c), UNCHANGED clientList
    PROVE  \/ out' = out /\ Rests(c)
           \/ \E f, p : /\ Send(c, f, "payload", p) /\ Between(c, f, p.type)
                        /\ Rests(c)
           \/ \E f, p : /\ Send(c, f, "header", p) /\ InUse(f)
                        /\ Begins(c, f, p)
  <1>1. CASE RoomHeader(c)
    <2>1. /\ GoesOn(c) /\ th'[c].pc = "roomPayload" /\ th'[c].i = th[c].i
          /\ Send(c, MemberFd(c), "header", th[c].pkt) /\ roomList' = roomList
      BY <1>1, LoopLocals DEF Calm, RoomHeader, SendHeader
    <2>2. MemberFd(c)' = MemberFd(c)
      BY <2>1 DEF MemberFd, Members, GoesOn
    <2>3. Begins(c, MemberFd(c), th[c].pkt)
      BY <2>1, <2>2 DEF Begins, Between, GoesOn
    <2>4. InUse(MemberFd(c))
      BY <1>1, SlotAtHand DEF RoomHeader, At, InUse
    <2> QED
      BY <2>1, <2>3, <2>4
  <1>2. CASE RoomPayload(c)
    <2>1. /\ th'[c].pc = "room" /\ th[c].pc = "roomPayload"
          /\ Send(c, MemberFd(c), "payload", th[c].pkt)
      BY <1>2, LoopLocals DEF Calm, RoomPayload, SendPayload, At
    <2>2. Rests(c) /\ Between(c, MemberFd(c), th[c].pkt.type)
      BY <2>1 DEF Rests, Sending, Between
    <2> QED
      BY <2>1, <2>2
  <1>3. CASE DetailsHeader(c)
    <2> DEFINE p == [Blank EXCEPT !.type = "GROUP_LIST",
                       !.room = roomList[th[c].room].name,
                       !.fd = roomList[th[c].room].admin,
                       !.list = SubSeq(Members(c).clients, 1, Members(c).size)]
    <2>1. Send(c, th[c].pkt.fd, "header", p) /\ p.type = "GROUP_LIST"
      BY <1>3 DEF DetailsHeader, SendHeader, Blank
    <2> HIDE DEF p
    <2>2. GoesOn(c) /\ th'[c].pc = "detailsPayload"
      BY <1>3, LoopLocals DEF Calm
    <2>3. Begins(c, th[c].pkt.fd, p)
      BY <2>1, <2>2 DEF Begins, Between, GoesOn
    <2>4. InUse(th[c].pkt.fd)
      BY <1>3, JoinerHears DEF Calm, DetailsHeader, At, InUse, MayHear
    <2> QED
      BY <2>1, <2>3, <2>4
  <1>4. CASE DetailsPayload(c)
    <2>1. /\ th'[c].pc = "room" /\ th[c].pc = "detailsPayload"
          /\ Send(c, th[c].pkt.fd, "payload", th[c].msg)
      BY <1>4, LoopLocals DEF Calm, DetailsPayload, SendPayload, At
    <2>2. th[c].msg.type = "GROUP_LIST"
      BY <2>1 DEF Calm, ServerInv, RoomInv, RoomLocals
    <2>3. Rests(c) /\ Between(c, th[c].pkt.fd, th[c].msg.type)
      BY <2>1, <2>2 DEF Rests, Sending, Between
    <2> QED
      BY <2>1, <2>3
  <1>5. CASE NewRoom(c) \/ NewMember(c) \/ GroupChat(c) \/ RoomSkip(c)
             \/ RoomDone(c)
    <2>1. out' = out
      BY <1>5 DEF NewRoom, NewMember, GroupChat, RoomSkip, RoomDone
    <2>2. th'[c].pc \in {"recv", "details", "room"}
      BY <1>5, EdgeLocals, LoopLocals DEF Calm, NewMember, GroupChat
    <2> QED
      BY <2>1, <2>2 DEF Rests, Sending
  <1> QED
    BY <1>1, <1>2, <1>3, <1>4, <1>5, CalmHandlers DEF Calm, CalmRoom

\* A payload follows its header: a step appends at most one chunk to one stream,
\* a header or the payload of the header that its thread has sent there last.
LEMMA StayFramed ==
    ASSUME Calm, ChatsFindOwners, HeadersSent, Framed, NEW c \in Conns,
           ServerThread(c)
    PROVE  HeadersSent' /\ Framed'
  <1>1. Calmly(c) /\ NetTypeOK
    BY CalmSteps, KnownTypes DEF Calm, ServerInv
  \* The streams of before are kept, and the next chunk is of c.
  <1>2. ASSUME NEW x \in Conns
        PROVE  /\ DOMAIN out[x] = 1 .. Len(out[x]) /\ Len(out[x]) \in Nat
               /\ DOMAIN out'[x] = 1 .. Len(out'[x]) /\ Len(out'[x]) \in Nat
               /\ \A k \in DOMAIN out[x] :
                    k \in DOMAIN out'[x] /\ out'[x][k] = out[x][k]
               /\ \/ out'[x] = out[x]
                  \/ /\ Len(out'[x]) = Len(out[x]) + 1
                     /\ out'[x][Len(out[x]) + 1].by = c
    <2>1. PICK f, part, p : Emits(c, f, part, p)
      BY <1>1 DEF Calmly
    <2> QED
      BY <1>1, <2>1, StreamSteps
  <1>3. ASSUME NEW d \in Conns \ {c}, NEW f \in Fds, NEW type \in Types,
               Between(d, f, type)'
        PROVE  HeaderLast(out[fdTable[f]], d, type)'
    <2>1. Between(d, f, type)
      BY <1>1, <1>3, OthersBetween
    <2>2. PICK x \in Conns : fdTable[f] = x
      BY <2>1, BetweenInUse
    <2>3. fdTable'[f] = x
      BY <1>1, <2>2, CalmOthers DEF Calm
    <2>4. HeaderLast(out[x], d, type)
      BY <2>1, <2>2 DEF HeadersSent
    <2>5. HeaderLast(out'[x], d, type)
      <3>1. PICK j \in DOMAIN out[x] :
              /\ out[x][j].by = d /\ out[x][j].part = "header"
              /\ out[x][j].pkt.type = type
              /\ \A i \in j + 1 .. Len(out[x]) : out[x][i].by # d
        BY <2>4 DEF HeaderLast
      <3>2. /\ j \in DOMAIN out'[x] /\ out'[x][j] = out[x][j]
            /\ j \in Nat /\ j >= 1
        BY <1>2
      <3>3. ASSUME NEW i \in j + 1 .. Len(out'[x])
            PROVE  out'[x][i].by # d
        <4>1. CASE i \in DOMAIN out[x]
          BY <1>2, <3>1, <3>2, <4>1
        <4>2. CASE i \notin DOMAIN out[x]
          BY <1>2, <3>2, <4>2
        <4> QED
          BY <4>1, <4>2
      <3> QED
        BY <3>1, <3>2, <3>3 DEF HeaderLast
    <2> QED
      BY <2>3, <2>5
  \* The chunks of before.
  <1>4. ASSUME NEW x \in Conns, NEW k \in DOMAIN out[x], out[x][k].part = "payload"
        PROVE  HeaderBefore(out'[x], k)
    <2>1. PICK j \in 1 .. k - 1 :
            /\ out[x][j].by = out[x][k].by /\ out[x][j].part = "header"
            /\ out[x][j].pkt.type = out[x][k].pkt.type
            /\ \A i \in j + 1 .. k - 1 : out[x][i].by # out[x][k].by
      BY <1>4 DEF Framed, HeaderBefore
    <2>2. \A i \in 1 .. k : out'[x][i] = out[x][i]
      BY <1>2
    <2>3. k \in Nat /\ k >= 1
      BY <1>2
    <2>4. /\ out'[x][j] = out[x][j] /\ out'[x][k] = out[x][k]
          /\ \A i \in j + 1 .. k - 1 : out'[x][i] = out[x][i]
      BY <2>2, <2>3
    <2> QED
      BY <2>1, <2>4 DEF HeaderBefore
  <1>5. ASSUME \A x \in Conns : \A k \in DOMAIN out'[x] :
                 (k \notin DOMAIN out[x] /\ out'[x][k].part = "payload")
                   => HeaderBefore(out'[x], k)
        PROVE  Framed'
    <2> SUFFICES ASSUME NEW x \in Conns, NEW k \in DOMAIN out'[x],
                        out'[x][k].part = "payload"
                 PROVE  HeaderBefore(out'[x], k)
      BY DEF Framed
    <2>1. CASE k \in DOMAIN out[x]
      <3>1. out[x][k].part = "payload"
        BY <1>2, <2>1
      <3> QED
        BY <1>4, <2>1, <3>1
    <2>2. CASE k \notin DOMAIN out[x]
      BY <1>5, <2>2
    <2> QED
      BY <2>1, <2>2
  <1>6. CASE out' = out /\ Rests(c)
    <2>1. \A f, type : ~Between(c, f, type)'
      BY <1>6 DEF Rests, Sending, Between
    <2>2. HeadersSent'
      BY <1>3, <2>1 DEF HeadersSent
    <2>3. Framed'
      BY <1>5, <1>6
    <2> QED
      BY <2>2, <2>3
  <1>7. ASSUME NEW f, NEW p, Send(c, f, "payload", p), Between(c, f, p.type),
               Rests(c)
        PROVE  HeadersSent' /\ Framed'
    <2>1. \A h, type : ~Between(c, h, type)'
      BY <1>7 DEF Rests, Sending, Between
    <2>2. HeadersSent'
      BY <1>3, <2>1 DEF HeadersSent
    <2>3. ASSUME NEW x \in Conns, NEW k \in DOMAIN out'[x], k \notin DOMAIN out[x]
          PROVE  HeaderBefore(out'[x], k)
      <3>1. Emits(c, f, "payload", p)
        BY <1>1, <1>7, SendEffect
      <3>2. /\ Len(out'[x]) = Len(out[x]) + 1 /\ k = Len(out[x]) + 1
            /\ out'[x][k].by = c /\ out'[x][k].pkt = p
            /\ f \in Fds /\ fdTable[f] = x
        <4>1. \/ out'[x] = out[x]
              \/ /\ Len(out'[x]) = Len(out[x]) + 1
                 /\ out'[x][Len(out[x]) + 1].by = c
                 /\ out'[x][Len(out[x]) + 1].pkt = p
                 /\ f \in Fds /\ fdTable[f] = x
          BY <1>1, <3>1, StreamSteps
        <4>2. out'[x] # out[x]
          BY <2>3
        <4>3. Len(out'[x]) = Len(out[x]) + 1 /\ k = Len(out[x]) + 1
          BY <1>2, <2>3, <4>1, <4>2
        <4> QED
          BY <4>1, <4>2, <4>3
      <3>3. p.type \in Types
        BY <1>7, BetweenType DEF Calm
      <3>4. HeaderLast(out[x], c, p.type)
        BY <1>7, <3>2, <3>3 DEF HeadersSent
      <3>5. PICK j \in DOMAIN out[x] :
              /\ out[x][j].by = c /\ out[x][j].part = "header"
              /\ out[x][j].pkt.type = p.type
              /\ \A i \in j + 1 .. Len(out[x]) : out[x][i].by # c
        BY <3>4 DEF HeaderLast
      <3>6. /\ j \in 1 .. k - 1 /\ out'[x][j] = out[x][j]
            /\ \A i \in j + 1 .. k - 1 : out'[x][i] = out[x][i]
            /\ k - 1 = Len(out[x])
        BY <1>2, <3>2
      <3>7. \A i \in j + 1 .. k - 1 : out'[x][i].by # out'[x][k].by
        BY <3>2, <3>5, <3>6
      <3>8. /\ out'[x][j].by = out'[x][k].by /\ out'[x][j].part = "header"
            /\ out'[x][j].pkt.type = out'[x][k].pkt.type
        BY <3>2, <3>5, <3>6
      <3> QED
        BY <3>6, <3>7, <3>8, ZenonT(30) DEF HeaderBefore
    <2>4. Framed'
      BY <1>5, <2>3
    <2> QED
      BY <2>2, <2>4
  <1>8. ASSUME NEW f, NEW p, Send(c, f, "header", p), InUse(f), Begins(c, f, p)
        PROVE  HeadersSent' /\ Framed'
    <2>1. ASSUME NEW h \in Fds, NEW type \in Types, Between(c, h, type)'
          PROVE  HeaderLast(out[fdTable[h]], c, type)'
      <3>1. h = f /\ type = p.type /\ f \in Fds
        BY <1>8, <2>1 DEF Begins
      <3>2. PICK x \in Conns : fdTable[f] = x
        BY <1>8, <3>1 DEF InUse
      <3>3. /\ Len(out'[x]) = Len(out[x]) + 1
            /\ out'[x][Len(out[x]) + 1].by = c
            /\ out'[x][Len(out[x]) + 1].part = "header"
            /\ out'[x][Len(out[x]) + 1].pkt = p
        BY <1>8, <3>1, <3>2, Arrives DEF Calm
      <3>4. fdTable'[h] = x
        BY <1>1, <3>1, <3>2, CalmOthers DEF Calm
      <3>5. /\ Len(out[x]) + 1 \in DOMAIN out'[x]
            /\ \A i \in Len(out[x]) + 2 .. Len(out'[x]) : FALSE
        BY <1>2, <3>3
      <3>6. HeaderLast(out'[x], c, type)
        BY <1>2, <3>1, <3>3, <3>5 DEF HeaderLast
      <3> QED
        BY <3>4, <3>6
    <2>2. HeadersSent'
      BY <1>3, <2>1 DEF HeadersSent
    <2>3. ASSUME NEW x \in Conns, NEW k \in DOMAIN out'[x],
                 out'[x][k].part = "payload"
          PROVE  k \in DOMAIN out[x]
      <3>1. Emits(c, f, "header", p)
        BY <1>1, <1>8, SendEffect
      <3>2. \/ out'[x] = out[x]
            \/ /\ Len(out'[x]) = Len(out[x]) + 1
               /\ out'[x][Len(out[x]) + 1].part = "header"
        BY <1>1, <3>1, StreamSteps
      <3> QED
        BY <1>2, <2>3, <3>2
    <2>4. Framed'
      BY <1>5, <2>3
    <2> QED
      BY <2>2, <2>4
  <1> QED
    BY <1>6, <1>7, <1>8, RegistryWrites, RoomWrites
       DEF ServerThread, Handler, ServerStep

----------------------------------------------------------------------------
(* The invariant *)

\* A CHAT is for somebody connected: users are told of nobody else, and nobody
\* is gone.
LEMMA ThreadChats ==
    ASSUME Calm, ChatsFindOwners, NEW c \in Conns, ServerThread(c)
    PROVE  ChatsFindOwners'
  <1>1. /\ Calmly(c) /\ sent' = sent
        /\ \A f : InUse(f) => InUseNext(f)
    BY CalmSteps, InvitedOn DEF Calm, Calmly
  <1>2. ASSUME NEW d \in Conns, th'[d].pc = "chatPayload"
        PROVE  InUse(th'[d].pkt.fd)
    <2>1. CASE d # c
      BY <1>1, <1>2, <2>1 DEF Calmly, RoomFrame, ChatsFindOwners
    <2>2. CASE d = c
      <3>1. PICK h : th'[c].pkt.fd = h
        OBVIOUS
      <3>2. ~Rests(c) /\ Between(c, h, "CHAT")'
        BY <1>2, <2>2, <3>1 DEF Rests, Sending, Between
      <3>3. \E f, p : InUse(f) /\ Begins(c, f, p)
        BY <3>2, RegistryWrites, RoomWrites DEF ServerThread, Handler, ServerStep
      <3>4. PICK f, p : InUse(f) /\ Begins(c, f, p)
        BY <3>3
      <3>5. h = f
        BY <3>2, <3>4 DEF Begins
      <3> QED
        BY <2>2, <3>1, <3>4, <3>5
    <2> QED
      BY <2>1, <2>2
  <1> QED
    BY <1>1, <1>2 DEF ChatsFindOwners, InUse, InUseNext

\* What no step of a thread or a socket touches stays as it is.
LEMMA SameCalm ==
    ASSUME UNCHANGED <<fdTable, th, out, clientList, roomList>>
    PROVE  /\ ListsFull => ListsFull'
           /\ (\A c \in Conns : Reaches(c)) => \A c \in Conns : Reaches(c)'
           /\ AllAcquainted => AllAcquainted'
           /\ HeadersSent => HeadersSent'
           /\ Framed => Framed'
  <1>1. \A x : Payloads(x)' = Payloads(x)
    BY DEF Payloads
  <1>2. ListsFull => ListsFull'
    BY DEF ListsFull
  <1>3. (\A c \in Conns : Reaches(c)) => \A c \in Conns : Reaches(c)'
    <2>1. \A c \in Conns : Members(c)' = Members(c)
      BY DEF Members
    <2>2. \A c \in Conns : \A s : Served(c, s) => Served(c, s)'
      BY <1>1, <2>1 DEF Served
    <2> QED
      BY <2>2 DEF Reaches
  <1>4. AllAcquainted => AllAcquainted'
    <2>1. \A c \in Conns : \A g, a, b : Telling(c, g, a, b)' <=> Telling(c, g, a, b)
      BY DEF Telling
    <2>2. \A x, r, f : ToldOfMember(x, r, f)' <=> ToldOfMember(x, r, f)
      BY <1>1 DEF ToldOfMember
    <2>3. ASSUME NEW g, NEW a, NEW b, Acquainted(g, a, b)
          PROVE  Acquainted(g, a, b)'
      <3>1. roomList'[g] = roomList[g] /\ fdTable' = fdTable
        OBVIOUS
      <3>2. (\E c \in Conns : Telling(c, g, a, b))' <=>
              \E c \in Conns : Telling(c, g, a, b)
        BY <2>1
      <3> QED
        BY <2>2, <2>3, <3>1, <3>2 DEF Acquainted
    <2> QED
      BY <2>3 DEF AllAcquainted
  <1>5. HeadersSent => HeadersSent'
    <2>1. \A c \in Conns : \A f, type : Between(c, f, type)' <=> Between(c, f, type)
      BY DEF Between, MemberFd, Members
    <2> QED
      BY <2>1 DEF HeadersSent
  <1>6. Framed => Framed'
    BY DEF Framed
  <1> QED
    BY <1>2, <1>3, <1>4, <1>5, <1>6

LEMMA ThreadSent ==
    ASSUME ServerInv, NEW c \in Conns, ServerThread(c)
    PROVE  sent' = sent
  <1>1. CASE ServerStep(c)
    BY <1>1, RegistryEffects DEF RegistryEffect
  <1>2. CASE RoomHandler(c)
    BY <1>2 DEF RoomHandler, NewRoom, NewMember, GroupChat, LeftMember, KickMember,
       DetailsHeader, DetailsPayload, RoomHeader, RoomPayload, RoomSkip,
       KickedHeader, KickedPayload, RoomDone
  <1> QED
    BY <1>1, <1>2 DEF ServerThread, Handler, ServerStep

\* A user touches no thread, and leaves what has been written.
LEMMA UserKeeps ==
    ASSUME ServerInv, NEW c \in Conns, User(c)
    PROVE  /\ UNCHANGED <<th, roomList>>
           /\ \A d \in Conns : \A k \in DOMAIN sent[d] :
                k \in DOMAIN sent'[d] /\ sent'[d][k] = sent[d][k]
  <1>1. sent \in [Conns -> Seq(Packet)]
    BY KnownTypes DEF ServerInv, NetTypeOK
  <1>2. /\ UNCHANGED <<th, roomList>>
        /\ \/ sent' = sent
           \/ \E p : sent' = [sent EXCEPT ![c] = Append(@, p)]
    BY DEF User, SendIntro, Quit, Crash, SendChat, SendCreateRoom, SendJoinRoom,
       SendGroupChat, SendKick, SendLeaveRoom, Writes, Write
  <1>3. ASSUME NEW d \in Conns, NEW k \in DOMAIN sent[d]
        PROVE  k \in DOMAIN sent'[d] /\ sent'[d][k] = sent[d][k]
    <2>1. ASSUME NEW p, sent' = [sent EXCEPT ![c] = Append(@, p)]
          PROVE  k \in DOMAIN sent'[d] /\ sent'[d][k] = sent[d][k]
      <3>1. sent'[d] = IF d = c THEN Append(sent[d], p) ELSE sent[d]
        BY <1>1, <2>1
      <3>2. /\ k \in DOMAIN Append(sent[d], p)
            /\ Append(sent[d], p)[k] = sent[d][k]
        BY <1>1, <1>3
      <3> QED
        BY <1>3, <3>1, <3>2
    <2> QED
      BY <1>2, <1>3, <2>1
  <1> QED
    BY <1>2, <1>3

LEMMA CalmInit == ServerInit => CalmInv
  <1> SUFFICES ASSUME ServerInit PROVE CalmInv
    OBVIOUS
  <1>1. /\ \A c \in Conns : /\ th[c] = NewThread /\ sent[c] = <<>>
                            /\ out[c] = <<>>
        /\ roomList = <<>> /\ clientList.clients = <<>> /\ clientList.size = 0
    BY DEF ServerInit, NetInit, RegistryInit, RoomsInit, EmptyList
  <1>2. NewThread.pc = "new"
    BY DEF NewThread
  <1>3. ListsFull
    BY <1>1 DEF ListsFull
  <1>4. ChatsFindOwners
    BY <1>1, <1>2 DEF ChatsFindOwners
  <1>5. \A c \in Conns : Reaches(c)
    BY <1>1, <1>2 DEF Reaches
  <1>6. AllAcquainted
    BY <1>1, <1>2 DEF AllAcquainted
  <1>7. HeadersSent
    BY <1>1, <1>2 DEF HeadersSent, Between
  <1>8. Framed
    BY <1>1 DEF Framed
  <1> QED
    BY <1>3, <1>4, <1>5, <1>6, <1>7, <1>8, InviteInit DEF CalmInv

\* While no crash is possible and no array moves the invariant is inductive.
LEMMA CalmNext ==
    ASSUME ~CanCrash, ~ReallocMoves, ServerInv, CalmInv,
           [ServerNext]_serverVars
    PROVE  CalmInv'
  <1> SUFFICES ASSUME NobodyRemoved'
               PROVE  /\ ListsFull' /\ ChatsFindOwners'
                      /\ \A c \in Conns : Reaches(c)'
                      /\ AllAcquainted' /\ HeadersSent' /\ Framed' /\ InviteInv'
    BY DEF CalmInv
  <1>1. CASE UNCHANGED serverVars
    <2>1. UNCHANGED <<fdTable, th, sent, out, clientList, roomList>>
      BY <1>1 DEF serverVars, netVars
    <2>2. NobodyRemoved
      BY <2>1 DEF NobodyRemoved
    <2>3. InviteInv'
      BY <2>2, InviteNext DEF CalmInv
    <2>4. ChatsFindOwners'
      BY <2>1, <2>2 DEF CalmInv, ChatsFindOwners, InUse
    <2> QED
      BY <2>1, <2>2, <2>3, <2>4, SameCalm DEF CalmInv
  <1>2. CASE Stops /\ UNCHANGED roomList
    BY <1>1, <1>2 DEF Stops, registryVars, serverVars
  <1>3. ASSUME NEW c \in Conns, ServerThread(c)
        PROVE  /\ ListsFull' /\ ChatsFindOwners'
               /\ \A d \in Conns : Reaches(d)'
               /\ AllAcquainted' /\ HeadersSent' /\ Framed' /\ InviteInv'
    <2>1. sent' = sent
      BY <1>3, ThreadSent DEF ServerThread, Handler, ServerStep
    <2>2. NobodyRemoved
      BY <2>1 DEF NobodyRemoved
    <2>3. Calm /\ CalmInv
      BY <2>2 DEF Calm, CalmInv
    <2>4. Calmly(c)
      BY <1>3, <2>3, CalmSteps
    <2>5. ListsFull'
      BY <1>3, <2>3, ListSteps DEF Calm
    <2>6. \A d \in Conns : Reaches(d)'
      BY <1>3, <2>2, <2>3, <2>4, OwnReach, OthersReach DEF CalmInv
    <2>7. AllAcquainted'
      BY <1>3, <2>2, <2>3, StayAcquainted DEF CalmInv
    <2>8. ChatsFindOwners' /\ HeadersSent' /\ Framed'
      BY <1>3, <2>2, <2>3, ThreadChats, StayFramed DEF CalmInv
    <2>9. InviteInv'
      BY <2>3, InviteNext DEF Calm
    <2> QED
      BY <2>5, <2>6, <2>7, <2>8, <2>9
  <1>4. ASSUME NEW c \in Conns, User(c)
        PROVE  /\ ListsFull' /\ ChatsFindOwners'
               /\ \A d \in Conns : Reaches(d)'
               /\ AllAcquainted' /\ HeadersSent' /\ Framed' /\ InviteInv'
    <2>1. ~CanCrash /\ ~Quit(c)
      BY NobodyQuits
    <2>2. NobodyRemoved
      <3>1. \A d \in Conns : \A k \in DOMAIN sent[d] :
              k \in DOMAIN sent'[d] /\ sent'[d][k] = sent[d][k]
        BY <1>4, <2>1, UserKeeps
      <3> QED
        BY <3>1, StillCalm
    <2>3. InviteInv
      BY <2>2 DEF CalmInv
    <2>4. UNCHANGED <<fdTable, th, out, clientList, roomList>>
      BY <1>4, <2>1, <2>3, UserWrites
    <2>5. PICK p :
            /\ p.type = "CHAT" => InUse(p.fd)
            /\ \A d \in Conns : \A k \in DOMAIN sent'[d] :
                 \/ k \in DOMAIN sent[d] /\ sent'[d][k] = sent[d][k]
                 \/ sent'[d][k] = p
      BY <1>4, <2>1, <2>3, UserWrites
    <2>6. ChatsFindOwners'
      BY <2>2, <2>4, <2>5 DEF CalmInv, ChatsFindOwners, InUse
    <2>7. InviteInv'
      BY <2>3, InviteNext
    <2> QED
      BY <2>2, <2>4, <2>6, <2>7, SameCalm DEF CalmInv
  <1> QED
    BY <1>1, <1>2, <1>3, <1>4 DEF ServerNext

LEMMA CalmInvariance ==
    ASSUME ~CanCrash, ~ReallocMoves
    PROVE  ServerSpec => []CalmInv
  <1> QED
    BY ServerInvariance, CalmInit, CalmNext, PTL DEF ServerSpec

\* While nobody is removed, every two members of a room that are two users know
\* each other once no JOIN_ROOM is being handled, in whatever order JOIN_ROOMs
\* are handled and their loops run beside each other: whom the GROUP_LIST of a
\* new member lacks, the loop of another JOIN_ROOM tells it of.  For any number
\* of connections, descriptors and packets, without crashes and while
\* the array of the users does not move.
THEOREM MembersAgree ==
    ASSUME ~CanCrash, ~ReallocMoves
    PROVE  ServerSpec => []RoomMembersAgree
  <1>1. ASSUME CalmInv PROVE RoomMembersAgree
    <2> SUFFICES ASSUME NobodyRemoved, \A c \in Conns : th[c].pkt.type # "JOIN_ROOM",
                        NEW g \in DOMAIN roomList,
                        NEW f \in FdsOf(roomList[g].members),
                        NEW h \in FdsOf(roomList[g].members), f # h
                 PROVE  ToldOfMember(fdTable[f], roomList[g].name, h)
      BY DEF RoomMembersAgree
    <2>1. PICK a \in Live(roomList[g].members) :
            f = roomList[g].members.clients[a].FD
      BY DEF FdsOf
    <2>2. PICK b \in Live(roomList[g].members) :
            h = roomList[g].members.clients[b].FD
      BY DEF FdsOf
    <2>3. ListsFull /\ AllAcquainted
      BY <1>1 DEF CalmInv
    <2>4. /\ a \in DOMAIN roomList[g].members.clients
          /\ b \in DOMAIN roomList[g].members.clients
      <3>1. roomList[g].members.size = Len(roomList[g].members.clients)
        BY <2>3 DEF ListsFull
      <3> QED
        BY <3>1 DEF Live
    <2>5. Acquainted(g, a, b)
      BY <2>3, <2>4 DEF AllAcquainted
    <2>6. \A c \in Conns : ~Telling(c, g, a, b)
      BY DEF Telling
    <2> QED
      BY <2>1, <2>2, <2>5, <2>6 DEF Acquainted
  <1> QED
    BY <1>1, CalmInvariance, PTL

\* While nobody is removed, the payload of every packet follows its header in
\* the stream of its reader, and nothing of the same writer comes between: no
\* slot that a handler reads again between its two send() calls has changed.
\* For any number of connections, descriptors and packets, without crashes and
\* while the array of the users does not move.
THEOREM WritersKeepFrames ==
    ASSUME ~CanCrash, ~ReallocMoves
    PROVE  ServerSpec => []WritersFramed
  <1>1. CalmInv => WritersFramed
    BY DEF CalmInv, Framed, HeaderBefore, WritersFramed
  <1> QED
    BY <1>1, CalmInvariance, PTL

\* While nobody is removed, the loop of a GROUP_CHAT has sent it to every member
\* but the sender when it ends, also to those put in while it ran.  For any
\* number of connections, descriptors and packets, without crashes and while
\* the array of the users does not move.
THEOREM ChatReaches ==
    ASSUME ~CanCrash, ~ReallocMoves
    PROVE  ServerSpec => ChatReachesMembers
  <1>1. ASSUME ServerInv, CalmInv, [ServerNext]_serverVars, NobodyRemoved,
               NEW c \in Conns, th[c].pc = "room", th[c].pkt.type = "GROUP_CHAT",
               th'[c].pc = "recv", NEW f \in FdsOf(Members(c)) \ {th[c].fd}
        PROVE  th[c].pkt \in Payloads(fdTable[f])
    <2>1. Calm /\ Reaches(c) /\ ListsFull
      BY <1>1 DEF CalmInv, Calm
    \* The step is the end of the loop.
    <2>2. ServerThread(c)
      <3>1. ~UNCHANGED serverVars
        BY <1>1 DEF serverVars, netVars
      <3>2. ~(Stops /\ UNCHANGED roomList)
        BY <1>1 DEF Stops, registryVars, netVars
      <3>3. \A d \in Conns : ~User(d)
        BY <1>1, UserKeeps
      <3>4. ASSUME NEW d \in Conns \ {c}, ServerThread(d)
            PROVE  FALSE
        BY <1>1, <2>1, <3>4, CalmSteps DEF Calmly, RoomFrame
      <3> QED
        BY <1>1, <3>1, <3>2, <3>3, <3>4 DEF ServerNext
    <2>3. RoomDone(c)
      <3>1. CASE RoomHandler(c)
        <4>1. /\ DetailsHeader(c) => th'[c].pc = "detailsPayload"
              /\ DetailsPayload(c) => th'[c].pc = "room"
              /\ RoomHeader(c) => th'[c].pc = "roomPayload"
              /\ RoomPayload(c) => th'[c].pc = "room"
              /\ RoomSkip(c) => th'[c].pc = "room"
          BY <2>1, LoopLocals DEF Calm, GoesOn
        <4>2. CalmRoom(c)
          BY <1>1, <2>1, <3>1, CalmHandlers DEF Calm
        <4> QED
          BY <1>1, <4>1, <4>2
             DEF CalmRoom, NewRoom, NewMember, GroupChat, Receives
      <3>2. CASE ServerStep(c)
        BY <1>1, <3>2, RegistryEffects DEF InRoom
      <3> QED
        BY <2>2, <3>1, <3>2 DEF ServerThread, Handler, ServerStep
    <2>4. PICK s \in Live(Members(c)) : f = Members(c).clients[s].FD
      BY DEF FdsOf
    <2>5. th[c].room \in DOMAIN roomList /\ th[c].i \in Nat
      BY <1>1, <2>1, InLoop DEF Calm, InRoom
    <2>6. Members(c).size \in Nat /\ th[c].i > Members(c).size
      <3>1. Members(c).size = Len(Members(c).clients)
        BY <2>1, <2>5 DEF ListsFull, Members
      <3> QED
        BY <2>3, <2>4, <2>5, <3>1 DEF RoomDone
    <2>7. Served(c, s)
      BY <1>1, <2>1, <2>4, <2>5, <2>6 DEF Reaches, Live
    <2> QED
      BY <1>1, <2>4, <2>7 DEF Served
  <1>2. ServerInv /\ CalmInv /\ [ServerNext]_serverVars =>
          [\A c \in Conns :
             (/\ NobodyRemoved
              /\ th[c].pc = "room" /\ th[c].pkt.type = "GROUP_CHAT"
              /\ th'[c].pc = "recv")
             => \A f \in FdsOf(Members(c)) \ {th[c].fd} :
                  (fdTable[f] \in Conns /\ peer[fdTable[f]] = "open")
                    => th[c].pkt \in Payloads(fdTable[f])]_serverVars
    BY <1>1
  <1> QED
    BY <1>2, CalmInvariance, ServerInvariance, PTL
       DEF ServerSpec, ChatReachesMembers

=============================================================================
