---------------------------- MODULE ClientWorld ----------------------------
(***************************************************************************)
(* What one client program, Me, is connected to: the server and the other  *)
(* users, as far as Me can tell them by the packets it gets.               *)
(*                                                                         *)
(* Each handler of the server is one step here, with what it changes and   *)
(* what it sends to Me; Registry and Rooms have the handlers in detail.    *)
(* One exception: the two halves of manageNewClient for Me are apart,      *)
(* since others come and go between them.                                  *)
(***************************************************************************)
EXTENDS ClientLists, SequencesExt

CONSTANTS
    Users,       \* names of users, Me among them
    Me,
    Fds,         \* descriptors of the server
    Rooms,       \* names of rooms
    Foreign,     \* those that are there from the start, made by another user
    MaxEvents,   \* bound: what other users do
    NoUser, NoFd, NoRoom

ASSUME ClientWorldAssumption ==
    /\ Me \in Users
    /\ Fds \subseteq Nat
    /\ IsFiniteSet(Fds)
    /\ Foreign \subseteq Rooms
    /\ IsFiniteSet(Foreign)
    /\ NoUser \notin Users
    /\ Freed \notin Users \cup Rooms
    /\ NoFd \notin Fds
    /\ NoRoom \notin Rooms
    /\ MaxEvents \in Nat

VARIABLES
    online,   \* descriptor -> who is connected on it, or NoUser
    been,     \* history: the users that have come so far
    rooms,    \* the server's roomList, in its order
    me,       \* how far manageNewClient is with Me
    events,   \* what other users have done, for the bound
    inbox,    \* packets on their way to Me
    outbox    \* packets on their way from Me

serverVars == <<online, been, rooms, me, events>>

worldVars == <<serverVars, inbox, outbox>>

Packet(type, fd, name, room) ==
    [type |-> type, fd |-> fd, name |-> name, room |-> room, list |-> <<>>]

Entry(f) == [name |-> online[f], FD |-> f]

OnlineFds == {f \in Fds : online[f] # NoUser}

FdOf(u) == CHOOSE f \in Fds : online[f] = u

Lowest(S) == CHOOSE f \in S : \A g \in S : f <= g

IsOnline(u) == \E f \in Fds : online[f] = u

\* The members of room number g that hold a descriptor.
Holding(g, fd) == {i \in DOMAIN rooms[g].members : rooms[g].members[i].FD = fd}

In(g, u) == [name |-> u, FD |-> FdOf(u)] \in ToSet(rooms[g].members)

Made(name) == \E g \in DOMAIN rooms : rooms[g].name = name

\* Another user and Me are connected; the other has made the foreign rooms.
WorldInit ==
    \E u \in Users \ {Me}, f, h \in Fds :
      /\ f # h
      /\ {f, h} = {Lowest(Fds), Lowest(Fds \ {Lowest(Fds)})}
      /\ online = [x \in Fds |-> IF x = f THEN u ELSE IF x = h THEN Me ELSE NoUser]
      /\ been = {u, Me}
      /\ rooms = SetToSeq({[name |-> r, admin |-> u,
                            members |-> <<[name |-> u, FD |-> f]>>] : r \in Foreign})
      /\ me = "new"
      /\ events = 0
      /\ inbox = <<>>
      /\ outbox = <<>>

----------------------------------------------------------------------------
(* Handlers of the server. *)

SendsMe(p) == inbox' = Append(inbox, p)

\* introduceNewClient and addClientInClientList, for Me: from here on Me hears
\* of others.
IntroduceMe ==
    /\ me = "new"
    /\ outbox # <<>> /\ Head(outbox).type = "INTRO"
    /\ me' = "named"
    /\ outbox' = Tail(outbox)
    /\ UNCHANGED <<online, been, rooms, events, inbox>>

\* sendClientListToClient: those who came since are in it as well.
SendListToMe ==
    /\ me = "named"
    /\ me' = "listed"
    /\ SendsMe([Packet("CLIENT_LIST", NoFd, Me, NoRoom) EXCEPT !.list =
                  LET fds == SetToSeq(OnlineFds)
                  IN  [i \in DOMAIN fds |-> Entry(fds[i])]])
    /\ UNCHANGED <<online, been, rooms, events, outbox>>

\* Another user, on the lowest free descriptor.
NewUser(u) ==
    /\ u \notin been
    /\ OnlineFds # Fds
    /\ LET f == Lowest(Fds \ OnlineFds)
       IN  /\ online' = [online EXCEPT ![f] = u]
           /\ IF me = "new" THEN inbox' = inbox
              ELSE SendsMe(Packet("USER_JOINED_SERVER", f, u, NoRoom))
    /\ been' = been \cup {u}
    /\ UNCHANGED <<rooms, me, outbox>>

\* Its entries in rooms stay.
LeftUser(u) ==
    /\ IsOnline(u)
    /\ online' = [online EXCEPT ![FdOf(u)] = NoUser]
    /\ IF me = "new" THEN inbox' = inbox
       ELSE SendsMe(Packet("USER_LEFT", FdOf(u), NoUser, NoRoom))
    /\ UNCHANGED <<been, rooms, me, outbox>>

WithMember(g, entry) ==
    [rooms EXCEPT ![g].members = Append(@, entry)]

\* Without the first member that holds the descriptor.
WithoutMember(g, fd) ==
    IF Holding(g, fd) = {} THEN rooms
    ELSE [rooms EXCEPT ![g].members = RemoveAt(@, Lowest(Holding(g, fd)))]

\* A packet that goes to all members of a room but one.
TellsMe(g, p, hears) ==
    inbox' = IF In(g, Me) /\ hears THEN Append(inbox, p) ELSE inbox

\* JOIN_ROOM: the member gets the whole group, the others get the packet.
NewMember(g, u, fd) ==
    /\ rooms' = WithMember(g, [name |-> u, FD |-> fd])
    /\ IF fd = FdOf(Me)
         THEN SendsMe([Packet("GROUP_LIST", NoFd, rooms[g].admin, rooms[g].name)
                         EXCEPT !.list = rooms'[g].members])
         ELSE TellsMe(g, Packet("JOIN_ROOM", fd, u, rooms[g].name), TRUE)

\* LEAVE_ROOM: the member goes first, then all but the sender are told.
LeftMember(g, u, fd) ==
    /\ rooms' = WithoutMember(g, fd)
    /\ TellsMe(g, Packet("LEAVE_ROOM", fd, u, rooms[g].name), u # Me)

\* KICK_GROUP_MEMBER: the target is told as often as it is in the room, the
\* others but the sender get the packet, and then the target goes, once.  Only
\* the first room is ever looked at.
KickedMember(g, u, fd, by) ==
    /\ rooms' = IF g = 1 THEN WithoutMember(g, fd) ELSE rooms
    /\ inbox' =
         IF g # 1 THEN inbox
         ELSE IF fd = FdOf(Me)
           THEN inbox \o [i \in 1 .. Cardinality(Holding(g, fd)) |->
                            Packet("KICKED", NoFd, NoUser, rooms[g].name)]
         ELSE IF by # Me /\ In(g, Me)
           THEN Append(inbox, Packet("KICK_GROUP_MEMBER", fd, u, rooms[g].name))
         ELSE inbox

----------------------------------------------------------------------------
(* What other users do in rooms.  The rooms of another user have it as the  *)
(* only one that adds and kicks.                                            *)

InvitesMe(g) ==
    /\ IsOnline(rooms[g].admin) /\ rooms[g].admin # Me
    /\ me # "new"
    /\ ~In(g, Me)
    /\ NewMember(g, Me, FdOf(Me))

Invites(g, u) ==
    /\ IsOnline(rooms[g].admin) /\ rooms[g].admin # Me
    /\ IsOnline(u) /\ ~In(g, u)
    /\ NewMember(g, u, FdOf(u))

Leaves(g, u) ==
    /\ IsOnline(u) /\ In(g, u)
    /\ LeftMember(g, u, FdOf(u))

Kicks(g, u) ==
    /\ IsOnline(rooms[g].admin) /\ rooms[g].admin # Me
    /\ IsOnline(u) /\ u # rooms[g].admin /\ In(g, u)
    /\ KickedMember(g, u, FdOf(u), rooms[g].admin)

OthersAct ==
    /\ events < MaxEvents
    /\ events' = events + 1
    /\ \/ \E u \in Users \ {Me} : NewUser(u) \/ LeftUser(u)
       \/ /\ \E g \in DOMAIN rooms :
               \/ InvitesMe(g)
               \/ \E u \in Users \ {Me} : Invites(g, u) \/ Leaves(g, u)
               \/ \E u \in Users : Kicks(g, u)
          /\ UNCHANGED <<online, been, me, outbox>>

----------------------------------------------------------------------------
(* What the server makes of the packets of Me. *)

ServeNext(type) ==
    /\ outbox # <<>>
    /\ Head(outbox).type = type
    /\ outbox' = Tail(outbox)
    /\ UNCHANGED <<online, been, me, events>>

Numbers(name) == {g \in DOMAIN rooms : rooms[g].name = name}

\* manageNewRoom takes the descriptor from the socket.
ServeCreateRoom ==
    /\ ServeNext("CREATE_ROOM")
    /\ rooms' = Append(rooms, [name |-> Head(outbox).room, admin |-> Me,
                               members |-> <<[name |-> Me, FD |-> FdOf(Me)]>>])
    /\ inbox' = inbox

ServeJoinRoom ==
    /\ ServeNext("JOIN_ROOM")
    /\ \E g \in Numbers(Head(outbox).room) :
         NewMember(g, Head(outbox).name, Head(outbox).fd)

ServeKick ==
    /\ ServeNext("KICK_GROUP_MEMBER")
    /\ \E g \in Numbers(Head(outbox).room) :
         KickedMember(g, Head(outbox).name, Head(outbox).fd, Me)

ServeLeaveRoom ==
    /\ ServeNext("LEAVE_ROOM")
    /\ \E g \in Numbers(Head(outbox).room) :
         LeftMember(g, Me, Head(outbox).fd)

\* Relayed to others, or the end.
ServeOther ==
    /\ \E type \in {"CHAT", "GROUP_CHAT", "USER_LEFT"} : ServeNext(type)
    /\ UNCHANGED <<rooms, inbox>>

Serves ==
    \/ IntroduceMe \/ SendListToMe
    \/ ServeCreateRoom \/ ServeJoinRoom \/ ServeKick \/ ServeLeaveRoom
    \/ ServeOther
=============================================================================
