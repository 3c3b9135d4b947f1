---------------------------- MODULE MCChatServer ----------------------------
(* Instances of ChatServer for TLC.  The users are settled at the start; see *)
(* MCRegistry for the runs in which they come.                               *)
EXTENDS ChatServer, MCRegistry

CONSTANT room2

----------------------------------------------------------------------------
(* Runs that start with a room: the first user has created it and added the *)
(* others up to the last, one after the other, with everything delivered.   *)

Join(order, i) ==
    [Blank EXCEPT !.type = "JOIN_ROOM", !.room = room, !.fd = FdSeq[i],
                  !.name = order[i]]

Details(order, i) ==
    [Blank EXCEPT !.type = "GROUP_LIST", !.room = room, !.fd = FdSeq[1],
                  !.list = [j \in 1 .. i |-> Entry(order, j)]]

Creation(order, last) ==
    <<[Blank EXCEPT !.type = "CREATE_ROOM", !.name = order[1], !.room = room]>>
    \o [k \in 1 .. last - 1 |-> Join(order, k + 1)]

RoomNews(order, i, last) ==
    (IF i \in 2 .. last THEN Both(order[1], Details(order, i)) ELSE <<>>)
    \o FlattenSeq([k \in 1 .. (IF i <= last THEN last - i ELSE 0) |->
                    Both(order[1], Join(order, i + k))])

SettledRoom(order, last) ==
    LET More(i) == IF i = 1 THEN Creation(order, last) ELSE <<>>
        News_(i) == RoomNews(order, i, last)
    IN  /\ SettledWith(order, More, News_)
        /\ roomList = <<[name |-> room, admin |-> FdSeq[1],
                         members |-> [clients |-> [i \in 1 .. last |->
                                                     Entry(order, i)],
                                      size |-> last]]>>

\* No room yet, and two to come.
Settled2Server == Settled(<<ann, bob>>) /\ RoomsInit /\ [][ServerNext]_serverVars

\* A room of two, and a third user to come.
PairSpec ==
    SettledRoom(<<ann, bob>>, 2) /\ [][ServerNext]_serverVars /\ Fairness

\* A room of all users, or of all but the last; the two starts differ in who
\* has created it.  From both two packets are written: the larger room took one
\* more.
RoomStart ==
    \/ SettledRoom(<<ann, bob, cat>>, 2)
    \/ SettledRoom(<<bob, ann, cat>>, 3)

SameBound ==
    fdTable[FdSeq[1]] = ann => Cardinality(Written) < MaxPackets

RoomSpec == RoomStart /\ [][ServerNext /\ SameBound']_serverVars
=============================================================================
