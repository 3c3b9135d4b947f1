---------------------------- MODULE MCChatClient ----------------------------
(* Instances of ChatClient for TLC. *)
EXTENDS ChatClient

CONSTANTS ann, bob, cat, self, room, room2

\* MembersFrom gives what additions to an empty list do, one by one.
ASSUME CopiedOneByOne ==
    \A n \in 0 .. 3 :
      \A entries \in [1 .. n -> [name : Users, FD : Fds]] :
        MembersFrom(entries) =
          FoldLeft(addClientInClientList, EmptyList, entries)

\* A start with everything delivered: ann, self and bob are connected, self has
\* made room2 and added ann, bob has made room and added self, one before the
\* other.  The copy of the JOIN_ROOM that came back has put ann into room2 a
\* second time.
At(name, fd) == [name |-> name, FD |-> fd]

FdNo(i) == SetToSortSeq(Fds, <)[i]

SettledInit(ownFirst) ==
    LET a == At(ann, FdNo(1))
        b == At(bob, FdNo(2))
        s == At(self, FdNo(3))
    IN  /\ online = [f \in Fds |-> IF f = a.FD THEN ann
                                   ELSE IF f = b.FD THEN bob ELSE self]
        /\ been = {ann, self, bob}
        /\ rooms = LET own   == [name |-> room2, admin |-> self, members |-> <<s, a>>]
                       bobs  == [name |-> room, admin |-> bob, members |-> <<b, s>>]
                   IN  IF ownFirst THEN <<own, bobs>> ELSE <<bobs, own>>
        /\ me = "listed"
        /\ inbox = <<>> /\ outbox = <<>>
        /\ userList = MembersFrom(<<a, b, s>>)
        /\ groupList = <<NewGroup(room2, self, MembersFrom(<<s, a, a>>)),
                         NewGroup(room, bob, MembersFrom(<<b, s>>))>>
        /\ main = [pc |-> "command", text |-> NoChat]
        /\ mySocketFD = s.FD

\* A fresh start with one line and three actions of other users to come, or the
\* settled one with three and one or with two and two or, where the first room
\* is that of another user, with one and three.
StartSpec ==
    /\ \/ WorldInit /\ NewClient /\ typed = 2
       \/ SettledInit(TRUE) /\ Silent /\ typed \in {0, 1} /\ events = 2 - typed
       \/ SettledInit(FALSE) /\ Silent /\ typed = 2 /\ events = 0
    /\ [][Next]_vars
=============================================================================
