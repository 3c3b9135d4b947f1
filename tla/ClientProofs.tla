---------------------------- MODULE ClientProofs ----------------------------
(***************************************************************************)
(* Proofs about ChatClient, for any finite set of descriptors, any users,  *)
(* rooms and bounds, and whether or not arrays move.                       *)
(***************************************************************************)
EXTENDS ChatClient, SequenceTheorems, FiniteSetTheorems, WellFoundedInduction,
        TLAPS

----------------------------------------------------------------------------
(* Lists of clients. *)

\* A set of numbers that is not empty has a smallest.
LEMMA SmallestExists ==
    ASSUME NEW S, S \subseteq Nat, S # {}
    PROVE  \E m \in S : \A n \in S : m <= n
  <1> DEFINE Less == {pair \in Nat \X Nat : pair[1] < pair[2]}
  <1>1. IsWellFoundedOn(Less, Nat)
    BY NatLessThanWellFounded DEF OpToRel
  <1>2. PICK m \in S : \A n \in S : <<n, m>> \notin Less
    BY <1>1, WFMin
  <1>3. ASSUME NEW n \in S
        PROVE  m <= n
    <2>1. m \in Nat /\ n \in Nat /\ <<n, m>> \notin Less
      BY <1>2
    <2> QED
      BY <2>1
  <1> QED
    BY <1>3

LEMMA FirstSlotHolds ==
    ASSUME NEW list, list.size \in Nat, NEW fd, SlotsOf(list, fd) # {}
    PROVE  FirstSlot(list, fd) \in SlotsOf(list, fd)
  <1>1. SlotsOf(list, fd) \subseteq Nat
    BY DEF SlotsOf, Live
  <1>2. \E i \in SlotsOf(list, fd) : \A j \in SlotsOf(list, fd) : i <= j
    BY <1>1, SmallestExists
  <1> QED
    BY <1>2 DEF FirstSlot

\* addClientInClientList keeps the live slots and fills the next one.
LEMMA Addition ==
    ASSUME NEW N, NEW F, NEW list \in ClientList(N, F),
           list.size <= Len(list.clients), NEW client \in Client(N, F),
           NEW new, new = addClientInClientList(list, client)
    PROVE  /\ new \in ClientList(N, F)
           /\ new.size = list.size + 1
           /\ new.size <= Len(new.clients)
           /\ Len(list.clients) <= Len(new.clients)
           /\ \A i \in 1 .. list.size : new.clients[i] = list.clients[i]
           /\ new.clients[new.size] = client
  <1>1. /\ list.clients \in Seq(Client(N, F)) /\ list.size \in Nat
        /\ Len(list.clients) \in Nat
        /\ DOMAIN list.clients = 1 .. Len(list.clients)
    BY LenProperties DEF ClientList
  <1>2. CASE list.size = Len(list.clients)
    <2>1. new = [clients |-> Append(list.clients, client), size |-> list.size + 1]
      BY <1>2 DEF addClientInClientList
    <2> QED
      BY <1>1, <1>2, <2>1 DEF ClientList
  <1>3. CASE list.size # Len(list.clients)
    <2>1. list.size + 1 \in 1 .. Len(list.clients)
      BY <1>1, <1>3
    <2> DEFINE filled == [list.clients EXCEPT ![list.size + 1] = client]
    <2>2. new = [clients |-> filled, size |-> list.size + 1]
      BY <1>3 DEF addClientInClientList
    <2>3. /\ filled \in Seq(Client(N, F))
          /\ Len(filled) = Len(list.clients)
          /\ \A i \in 1 .. Len(list.clients) :
               filled[i] = IF i = list.size + 1 THEN client ELSE list.clients[i]
      BY <1>1, <2>1, ExceptSeq
    <2> HIDE DEF filled
    <2> QED
      BY <1>1, <2>1, <2>2, <2>3 DEF ClientList
  <1> QED
    BY <1>2, <1>3

\* removeClientFromClientList keeps the array, every descriptor but the one
\* that is removed, and whole entries, their names perhaps freed.
LEMMA Removal ==
    ASSUME NEW N, NEW F, NEW list \in ClientList(N, F),
           list.size <= Len(list.clients), NEW fd,
           NEW new, new = removeClientFromClientList(list, fd)
    PROVE  /\ new \in ClientList(N, F)
           /\ new.size <= Len(new.clients)
           /\ Len(new.clients) = Len(list.clients)
           /\ \A i \in Live(new) : \E j \in Live(list) :
                /\ new.clients[i].FD = list.clients[j].FD
                /\ new.clients[i].name \in {list.clients[j].name, Freed}
           /\ \A i \in 1 .. Len(list.clients) :
                list.clients[i].FD # fd => new.clients[i].FD = list.clients[i].FD
           /\ \A i \in Live(list) :
                list.clients[i].FD # fd =>
                  \E j \in Live(new) : new.clients[j].FD = list.clients[i].FD
  <1>1. /\ list.clients \in Seq(Client(N, F)) /\ list.size \in Nat
        /\ Len(list.clients) \in Nat
        /\ DOMAIN list.clients = 1 .. Len(list.clients)
    BY LenProperties DEF ClientList
  <1>2. CASE SlotsOf(list, fd) = {}
    BY <1>1, <1>2 DEF removeClientFromClientList, Live
  <1>3. CASE SlotsOf(list, fd) # {}
    <2> DEFINE first == FirstSlot(list, fd)
               last  == [list.clients[list.size] EXCEPT !.name = Freed]
               one   == [list.clients EXCEPT ![first] = last]
               both  == [one EXCEPT ![list.size] = last]
    <2>1. first \in 1 .. list.size /\ list.clients[first].FD = fd
      BY <1>1, <1>3, FirstSlotHolds DEF SlotsOf, Live
    <2>2. /\ list.size \in 1 .. Len(list.clients)
          /\ first \in 1 .. Len(list.clients)
      BY <1>1, <2>1
    <2>3. /\ last \in Client(N, F)
          /\ last.FD = list.clients[list.size].FD /\ last.name = Freed
      <3>1. list.clients[list.size] \in Client(N, F)
        BY <1>1, <2>2, ElementOfSeq
      <3> QED
        BY <3>1 DEF Client
    <2>4. /\ one \in Seq(Client(N, F)) /\ Len(one) = Len(list.clients)
          /\ \A i \in 1 .. Len(list.clients) :
               one[i] = IF i = first THEN last ELSE list.clients[i]
      BY <1>1, <2>2, <2>3, ExceptSeq
    <2>5. /\ both \in Seq(Client(N, F)) /\ Len(both) = Len(list.clients)
          /\ \A i \in 1 .. Len(list.clients) :
               both[i] = IF i = list.size THEN last ELSE one[i]
      BY <2>2, <2>3, <2>4, ExceptSeq
    <2>6. new = [clients |-> both, size |-> list.size - 1]
      BY <1>3 DEF removeClientFromClientList
    <2> HIDE DEF first, last, one, both
    <2>7. \A i \in 1 .. Len(list.clients) :
            both[i] = IF i \in {first, list.size} THEN last ELSE list.clients[i]
      BY <2>4, <2>5
    <2>8. /\ new \in ClientList(N, F) /\ new.size <= Len(new.clients)
          /\ Len(new.clients) = Len(list.clients)
      BY <1>1, <2>2, <2>5, <2>6 DEF ClientList
    <2>9. ASSUME NEW i \in Live(new)
          PROVE  \E j \in Live(list) :
                   /\ new.clients[i].FD = list.clients[j].FD
                   /\ new.clients[i].name \in {list.clients[j].name, Freed}
      <3>1. i \in Live(list) /\ i \in 1 .. Len(list.clients) /\ i # list.size
        BY <1>1, <2>2, <2>6 DEF Live
      <3>2. CASE i = first
        <4>1. list.size \in Live(list)
          BY <1>1, <2>2 DEF Live
        <4>2. new.clients[i] = last
          BY <2>6, <2>7, <3>1, <3>2
        <4> QED
          BY <2>3, <4>1, <4>2
      <3>3. CASE i # first
        BY <2>6, <2>7, <3>1, <3>3
      <3> QED
        BY <3>2, <3>3
    <2>10. ASSUME NEW i \in 1 .. Len(list.clients), list.clients[i].FD # fd
           PROVE  new.clients[i].FD = list.clients[i].FD
      BY <2>1, <2>3, <2>6, <2>7, <2>10
    <2>11. ASSUME NEW i \in Live(list), list.clients[i].FD # fd
           PROVE  \E j \in Live(new) : new.clients[j].FD = list.clients[i].FD
      <3>1. i \in 1 .. Len(list.clients) /\ i # first
        BY <1>1, <2>1, <2>2, <2>11 DEF Live
      <3>2. CASE i = list.size
        <4>1. first \in Live(new) /\ first # list.size
          BY <1>1, <2>1, <2>6, <3>1, <3>2 DEF Live
        <4>2. new.clients[first].FD = list.clients[i].FD
          BY <2>2, <2>3, <2>6, <2>7, <3>2
        <4> QED
          BY <4>1, <4>2
      <3>3. CASE i # list.size
        <4>1. i \in Live(new)
          BY <1>1, <2>6, <2>11, <3>3 DEF Live
        <4> QED
          BY <2>10, <2>11, <3>1, <4>1
      <3> QED
        BY <3>2, <3>3
    <2> QED
      BY <2>8, <2>9, <2>10, <2>11
  <1> QED
    BY <1>2, <1>3

----------------------------------------------------------------------------
(* Types, with what they rest on: no list is longer than its array, no       *)
(* conversation points past it, packets are as their readers take them.      *)

SizedList == {list \in ClientList(Users, MyFds) : list.size <= Len(list.clients)}

SizedGroup == {group \in Group : group.members \in SizedList}

\* Entries that are sent; in none of them is a freed name.
Listed == [name : Users, FD : MyFds]

Letters == [type : {"INTRO", "USER_JOINED_SERVER", "CLIENT_LIST", "USER_LEFT",
                    "CHAT", "CREATE_ROOM", "JOIN_ROOM", "GROUP_LIST",
                    "GROUP_CHAT", "KICK_GROUP_MEMBER", "KICKED", "LEAVE_ROOM"},
            fd : MyFds, name : Users \cup {NoUser}, room : Rooms \cup {NoRoom},
            list : Seq(Listed)]

\* Packets with the fields filled in that their readers use.
Whole ==
    {p \in Letters :
       /\ p.type \in {"USER_JOINED_SERVER", "GROUP_LIST", "JOIN_ROOM",
                    "KICK_GROUP_MEMBER"} => p.name \in Users
       /\ p.type \in {"GROUP_LIST", "CREATE_ROOM"} => p.room \in Rooms
       /\ p.type = "CLIENT_LIST" => p.list # <<>>}

WorldTypeOK ==
    /\ online \in [Fds -> Users \cup {NoUser}]
    /\ been \in SUBSET Users
    /\ rooms \in Seq([name : Rooms, admin : Users, members : Seq(Listed)])
    /\ me \in {"new", "named", "listed"}
    /\ inbox \in Seq(Whole) /\ outbox \in Seq(Whole)
    /\ IsOnline(Me)

TypeInv ==
    /\ ClientTypeOK
    /\ WorldTypeOK
    /\ userList \in SizedList
    /\ groupList \in Seq(SizedGroup)
    /\ rx.pc = "userList" => rx.rest # <<>>
    /\ \A k \in DOMAIN chats :
         /\ chats[k].slot <= Len(userList.clients)
         /\ IF chats[k].slot > 0 THEN chats[k].name \in Users
                                 ELSE chats[k].name \in Rooms

\* SetToSeq lists every element of a finite set.
LEMMA EveryoneListed ==
    ASSUME NEW S, IsFiniteSet(S)
    PROVE  /\ SetToSeq(S) \in Seq(S)
           /\ Len(SetToSeq(S)) = Cardinality(S)
           /\ \A x \in S : \E i \in 1 .. Len(SetToSeq(S)) : SetToSeq(S)[i] = x
           /\ \A i, j \in 1 .. Len(SetToSeq(S)) :
                SetToSeq(S)[i] = SetToSeq(S)[j] => i = j
  <1> DEFINE n == Cardinality(S)
             f == SetToSeq(S)
  <1>1. n \in Nat /\ ExistsBijection(1 .. n, S)
    BY FS_CardinalityType
  <1>2. \E g \in [1 .. n -> S] : IsInjective(g)
    BY <1>1 DEF ExistsBijection, Bijection, Injection
  <1>3. f \in [1 .. n -> S] /\ IsInjective(f)
    BY <1>2 DEF SetToSeq
  <1>4. IsFiniteSet(1 .. n) /\ Cardinality(1 .. n) = n
    BY <1>1, FS_Interval
  <1> HIDE DEF f
  <1>5. f \in Injection(1 .. n, S)
    BY <1>3 DEF Injection
  <1>6. f \in Surjection(1 .. n, S)
    BY <1>4, <1>5, FS_Injection
  <1>7. \A x \in S : \E i \in 1 .. n : f[i] = x
    BY <1>6 DEF Surjection
  <1>8. f \in Seq(S) /\ Len(f) = n
    BY <1>1, <1>3
  <1>9. \A i, j \in 1 .. n : f[i] = f[j] => i = j
    BY <1>3 DEF IsInjective
  <1> QED
    BY <1>7, <1>8, <1>9 DEF f

LEMMA FdOfHolds ==
    ASSUME NEW u, IsOnline(u)
    PROVE  FdOf(u) \in Fds /\ online[FdOf(u)] = u
  BY DEF IsOnline, FdOf

LEMMA LowestHolds ==
    ASSUME NEW S, S \subseteq Nat, S # {}
    PROVE  Lowest(S) \in S
  <1>1. \E m \in S : \A n \in S : m <= n
    BY SmallestExists
  <1> QED
    BY <1>1 DEF Lowest

----------------------------------------------------------------------------
(* Lists of groups. *)

LEMMA FirstHolds ==
    ASSUME NEW list \in Seq(SizedGroup), NEW name, Called(list, name) # {}
    PROVE  /\ First(Called(list, name)) \in 1 .. Len(list)
           /\ list[First(Called(list, name))].name = name
           /\ list[First(Called(list, name))] \in SizedGroup
           /\ MembersOf(list, name) \in SizedList
  <1>1. Called(list, name) \subseteq 1 .. Len(list) /\ Len(list) \in Nat
    BY DEF Called
  <1>2. \E m \in Called(list, name) : \A n \in Called(list, name) : m <= n
    BY <1>1, SmallestExists
  <1>3. First(Called(list, name)) \in Called(list, name)
    BY <1>2 DEF First
  <1>4. First(Called(list, name)) \in 1 .. Len(list)
    BY <1>1, <1>3
  <1>5. list[First(Called(list, name))] \in SizedGroup
    BY <1>4, ElementOfSeq
  <1> QED
    BY <1>3, <1>4, <1>5 DEF Called, MembersOf, SizedGroup

\* Members change in one group; names and places of the groups stay.
LEMMA MembersChange ==
    ASSUME NEW list \in Seq(SizedGroup), NEW name, NEW members,
           Called(list, name) # {} => members \in SizedList,
           NEW new, new = WithMembers(list, name, members)
    PROVE  /\ new \in Seq(SizedGroup) /\ Len(new) = Len(list)
           /\ \A g \in 1 .. Len(list) :
                /\ new[g].name = list[g].name
                /\ \/ new[g].members = list[g].members
                   \/ Called(list, name) # {} /\ new[g].members = members
  <1>1. CASE Called(list, name) = {}
    BY <1>1 DEF WithMembers
  <1>2. CASE Called(list, name) # {}
    <2> DEFINE first == First(Called(list, name))
               group == [list[first] EXCEPT !.members = members]
    <2>1. first \in 1 .. Len(list) /\ list[first] \in SizedGroup
      BY <1>2, FirstHolds
    <2>2. /\ group \in SizedGroup
          /\ group.name = list[first].name /\ group.members = members
      <3>1. members \in SizedList
        BY <1>2
      <3> HIDE DEF first
      <3> QED
        BY <2>1, <3>1 DEF SizedGroup, Group, SizedList
    <2>3. new = [list EXCEPT ![first] = group]
      BY <1>2 DEF WithMembers
    <2> HIDE DEF group, first
    <2>4. /\ new \in Seq(SizedGroup) /\ Len(new) = Len(list)
          /\ \A g \in 1 .. Len(list) :
               new[g] = IF g = first THEN group ELSE list[g]
      BY <2>1, <2>2, <2>3, ExceptSeq
    <2> QED
      BY <1>2, <2>2, <2>4
  <1> QED
    BY <1>1, <1>2

LEMMA CopiedMembers ==
    ASSUME NEW entries \in Seq(Member)
    PROVE  MembersFrom(entries) \in SizedList
  <1>1. Len(entries) \in Nat
    OBVIOUS
  <1> QED
    BY <1>1 DEF MembersFrom, SizedList, ClientList, Member

\* A group is added with a copy of its members.
LEMMA GroupCopied ==
    ASSUME NEW list, NEW group \in SizedGroup,
           NEW new, new = addGroupInGroupList(list, group)
    PROVE  \E copy \in SizedGroup :
             /\ new = Append(list, copy)
             /\ copy.name = group.name
             /\ copy.members.size = group.members.size
             /\ \A i \in 1 .. group.members.size :
                  copy.members.clients[i] = group.members.clients[i]
  <1> DEFINE members == group.members
             copied == SubSeq(members.clients, 1, members.size)
             copy == [group EXCEPT !.members = MembersFrom(copied)]
  <1>1. /\ members \in SizedList /\ members.clients \in Seq(Member)
        /\ members.size \in Nat /\ members.size <= Len(members.clients)
    BY DEF SizedGroup, SizedList, ClientList, Member
  <1>2. \A i \in 1 .. members.size : members.clients[i] \in Member
    <2>1. Len(members.clients) \in Nat
      BY <1>1, LenProperties
    <2> QED
      BY <1>1, <2>1, ElementOfSeq
  <1>3. /\ copied \in Seq(Member) /\ Len(copied) = members.size
        /\ \A i \in 1 .. members.size : copied[i] = members.clients[i]
    BY <1>1, <1>2, SubSeqProperties
  <1> HIDE DEF copied, members
  <1>4. MembersFrom(copied) \in SizedList
    BY <1>3, CopiedMembers
  <1>5. copy \in SizedGroup /\ copy.name = group.name
        /\ copy.members = [clients |-> copied, size |-> Len(copied)]
    BY <1>4 DEF SizedGroup, Group, SizedList, MembersFrom
  <1>6. new = Append(list, copy)
    BY DEF addGroupInGroupList, copied, members
  <1> HIDE DEF copy
  <1> QED
    BY <1>3, <1>5, <1>6 DEF members

LEMMA GroupAdded ==
    ASSUME NEW list \in Seq(SizedGroup), NEW group \in SizedGroup,
           NEW new, new = addGroupInGroupList(list, group)
    PROVE  new \in Seq(SizedGroup)
  BY GroupCopied

\* The groups that remain are some that were there.
LEMMA GroupRemoved ==
    ASSUME NEW list \in Seq(SizedGroup), NEW name,
           NEW new, new = removeGroupFromGroupList(list, name)
    PROVE  /\ new \in Seq(SizedGroup)
           /\ \A g \in 1 .. Len(new) : \E h \in 1 .. Len(list) : new[g] = list[h]
  <1>1. CASE Called(list, name) = {}
    BY <1>1 DEF removeGroupFromGroupList
  <1>2. CASE Called(list, name) # {}
    <2> DEFINE first == First(Called(list, name))
               n == Len(list)
               filled == [list EXCEPT ![first] = list[n]]
    <2>1. first \in 1 .. n
      BY <1>2, FirstHolds
    <2>2. n \in Nat /\ n \in 1 .. n
      BY <2>1
    <2>3. list[n] \in SizedGroup
      BY <2>2, ElementOfSeq
    <2>4. /\ filled \in Seq(SizedGroup) /\ Len(filled) = n
          /\ \A g \in 1 .. n : filled[g] = IF g = first THEN list[n] ELSE list[g]
      BY <2>1, <2>3, ExceptSeq
    <2>5. new = SubSeq(filled, 1, n - 1)
      BY <1>2, <2>4 DEF removeGroupFromGroupList, Front, Last
    <2> HIDE DEF filled, first, n
    <2>6. \A g \in 1 .. n - 1 : filled[g] \in SizedGroup
      BY <2>2, <2>4, ElementOfSeq
    <2>7. /\ new \in Seq(SizedGroup) /\ Len(new) = n - 1
          /\ \A g \in 1 .. n - 1 : new[g] = filled[g]
      BY <2>2, <2>5, <2>6, SubSeqProperties
    <2>8. \A g \in 1 .. Len(new) : \E h \in 1 .. n : new[g] = list[h]
      BY <2>2, <2>4, <2>7
    <2> QED
      BY <2>7, <2>8 DEF n
  <1> QED
    BY <1>1, <1>2

----------------------------------------------------------------------------
(* Types: the server and the other users. *)

Room == [name : Rooms, admin : Users, members : Seq(Listed)]

LEMMA RoomTyped ==
    ASSUME TypeInv, NEW g \in DOMAIN rooms
    PROVE  /\ rooms[g] \in Room
           /\ Holding(g, NoFd) \subseteq Nat
           /\ Len(rooms[g].members) \in Nat
           /\ DOMAIN rooms[g].members = 1 .. Len(rooms[g].members)
           /\ \A i \in 1 .. Len(rooms[g].members) : rooms[g].members[i] \in Listed
  <1>1. rooms \in Seq(Room)
    BY DEF TypeInv, WorldTypeOK, Room
  <1>2. rooms[g] \in Room
    BY <1>1
  <1>3. rooms[g].members \in Seq(Listed)
    BY <1>2 DEF Room
  <1> QED
    BY <1>2, <1>3 DEF Holding

LEMMA HoldingFinite ==
    ASSUME TypeInv, NEW g \in DOMAIN rooms, NEW fd
    PROVE  Cardinality(Holding(g, fd)) \in Nat
  <1>1. /\ Len(rooms[g].members) \in Nat
        /\ DOMAIN rooms[g].members = 1 .. Len(rooms[g].members)
    BY RoomTyped
  <1>2. IsFiniteSet(1 .. Len(rooms[g].members))
    BY <1>1, FS_Interval
  <1>3. Holding(g, fd) \subseteq 1 .. Len(rooms[g].members)
    BY <1>1 DEF Holding
  <1> QED
    BY <1>2, <1>3, FS_Subset, FS_CardinalityType

\* A member is added behind the others.
LEMMA MemberAdded ==
    ASSUME TypeInv, NEW g \in DOMAIN rooms, NEW entry \in Listed,
           NEW new, new = WithMember(g, entry)
    PROVE  /\ new \in Seq(Room) /\ Len(new) = Len(rooms)
           /\ \A h \in 1 .. Len(rooms) : h # g => new[h] = rooms[h]
           /\ new[g].name = rooms[g].name /\ new[g].admin = rooms[g].admin
           /\ new[g].members = Append(rooms[g].members, entry)
  <1> DEFINE room == [rooms[g] EXCEPT !.members = Append(rooms[g].members, entry)]
  <1>1. rooms \in Seq(Room) /\ g \in 1 .. Len(rooms)
    BY DEF TypeInv, WorldTypeOK, Room
  <1>2. rooms[g] \in Room
    BY RoomTyped
  <1>3. /\ room \in Room /\ room.name = rooms[g].name
        /\ room.admin = rooms[g].admin
        /\ room.members = Append(rooms[g].members, entry)
    BY <1>2 DEF Room
  <1>4. new = [rooms EXCEPT ![g] = room]
    BY DEF WithMember
  <1> HIDE DEF room
  <1>5. /\ new \in Seq(Room) /\ Len(new) = Len(rooms)
        /\ \A h \in 1 .. Len(rooms) : new[h] = IF h = g THEN room ELSE rooms[h]
    BY <1>1, <1>3, <1>4, ExceptSeq
  <1> QED
    BY <1>1, <1>3, <1>5

\* The members that remain are some that were there.
LEMMA MemberRemoved ==
    ASSUME TypeInv, NEW g \in DOMAIN rooms, NEW fd,
           NEW new, new = WithoutMember(g, fd)
    PROVE  /\ new \in Seq(Room) /\ Len(new) = Len(rooms)
           /\ \A h \in 1 .. Len(rooms) : h # g => new[h] = rooms[h]
           /\ new[g].name = rooms[g].name /\ new[g].admin = rooms[g].admin
           /\ \A i \in DOMAIN new[g].members :
                \E j \in DOMAIN rooms[g].members :
                  new[g].members[i] = rooms[g].members[j]
           /\ Holding(g, fd) = {} => new = rooms
           /\ Holding(g, fd) # {} =>
                /\ Lowest(Holding(g, fd)) \in 1 .. Len(rooms[g].members)
                /\ DOMAIN new[g].members = 1 .. Len(rooms[g].members) - 1
                /\ \A k \in 1 .. Len(rooms[g].members) - 1 :
                     new[g].members[k] =
                       rooms[g].members[IF k < Lowest(Holding(g, fd)) THEN k ELSE k + 1]
  <1>1. rooms \in Seq(Room) /\ g \in 1 .. Len(rooms)
    BY DEF TypeInv, WorldTypeOK, Room
  <1>2. rooms[g] \in Room /\ rooms[g].members \in Seq(Listed)
    BY RoomTyped DEF Room
  <1>3. CASE Holding(g, fd) = {}
    BY <1>1, <1>3 DEF WithoutMember
  <1>4. CASE Holding(g, fd) # {}
    <2> DEFINE s == rooms[g].members
               i == Lowest(Holding(g, fd))
               front == SubSeq(s, 1, i - 1)
               back == SubSeq(s, i + 1, Len(s))
               room == [rooms[g] EXCEPT !.members = front \o back]
    <2>1. i \in 1 .. Len(s) /\ Len(s) \in Nat
      <3>1. Holding(g, fd) \subseteq 1 .. Len(s) /\ Len(s) \in Nat
        BY <1>2 DEF Holding
      <3> QED
        BY <1>4, <3>1, LowestHolds
    <2>2. \A k \in 1 .. Len(s) : s[k] \in Listed
      BY <1>2
    <2>3. room \in Room /\ new = [rooms EXCEPT ![g] = room]
      <3> HIDE DEF i, s
      <3>1. front \in Seq(Listed)
        <4>1. \A k \in 1 .. i - 1 : s[k] \in Listed
          BY <2>1, <2>2
        <4> QED
          BY <2>1, <4>1, SubSeqProperties
      <3>2. back \in Seq(Listed)
        <4>1. \A k \in i + 1 .. Len(s) : s[k] \in Listed
          BY <2>1, <2>2
        <4> QED
          BY <2>1, <4>1, SubSeqProperties
      <3>3. front \o back \in Seq(Listed)
        BY <3>1, <3>2, ConcatProperties
      <3>4. room \in Room
        BY <1>2, <3>3 DEF Room
      <3>5. new = [rooms EXCEPT ![g] = room]
        BY <1>4 DEF WithoutMember, RemoveAt, i, s
      <3> QED
        BY <3>4, <3>5
    <2>4. /\ DOMAIN (front \o back) = 1 .. Len(s) - 1 /\ DOMAIN s = 1 .. Len(s)
          /\ \A k \in 1 .. Len(s) - 1 :
               /\ (IF k < i THEN k ELSE k + 1) \in 1 .. Len(s)
               /\ (front \o back)[k] = s[IF k < i THEN k ELSE k + 1]
      <3> HIDE DEF i
      <3>1. /\ front \in Seq(Listed) /\ Len(front) = i - 1
            /\ \A k \in 1 .. i - 1 : front[k] = s[k]
        <4>1. \A k \in 1 .. i - 1 : s[k] \in Listed
          BY <2>1, <2>2
        <4> QED
          BY <2>1, <4>1, SubSeqProperties
      <3>2. /\ back \in Seq(Listed) /\ Len(back) = Len(s) - i
            /\ \A k \in 1 .. Len(s) - i : back[k] = s[i + k]
        <4>1. \A k \in i + 1 .. Len(s) : s[k] \in Listed
          BY <2>1, <2>2
        <4>2. /\ back \in Seq(Listed)
              /\ Len(back) = IF i + 1 <= Len(s) THEN Len(s) - (i + 1) + 1 ELSE 0
              /\ \A k \in 1 .. Len(s) - (i + 1) + 1 : back[k] = s[(i + 1) + k - 1]
          BY <2>1, <4>1, SubSeqProperties
        <4> HIDE DEF back, s
        <4> QED
          BY <2>1, <4>2
      <3> HIDE DEF front, back
      <3>3. /\ Len(front \o back) = Len(s) - 1
            /\ front \o back \in Seq(Listed)
            /\ \A k \in 1 .. Len(s) - 1 :
                 (front \o back)[k] = IF k <= i - 1 THEN front[k] ELSE back[k - (i - 1)]
        <4> HIDE DEF s
        <4>1. /\ front \o back \in Seq(Listed)
              /\ Len(front \o back) = Len(front) + Len(back)
              /\ \A k \in 1 .. Len(front) + Len(back) : (front \o back)[k] =
                     IF k <= Len(front) THEN front[k] ELSE back[k - Len(front)]
          BY <3>1, <3>2, ConcatProperties
        <4> QED
          BY <2>1, <3>1, <3>2, <4>1
      <3>4. DOMAIN (front \o back) = 1 .. Len(s) - 1 /\ DOMAIN s = 1 .. Len(s)
        BY <1>2, <3>3, LenProperties
      <3>5. ASSUME NEW k \in 1 .. Len(s) - 1
            PROVE  /\ (IF k < i THEN k ELSE k + 1) \in 1 .. Len(s)
                   /\ (front \o back)[k] = s[IF k < i THEN k ELSE k + 1]
        <4> HIDE DEF s
        <4>1. CASE k <= i - 1
          <5>1. k < i /\ k \in 1 .. Len(s) /\ k \in 1 .. i - 1
            BY <2>1, <4>1
          <5> QED
            BY <3>1, <3>3, <4>1, <5>1
        <4>2. CASE ~(k <= i - 1)
          <5>1. /\ k - (i - 1) \in 1 .. Len(s) - i /\ k + 1 \in 1 .. Len(s)
                /\ ~(k < i)
            BY <2>1, <4>2
          <5>2. back[k - (i - 1)] = s[k + 1]
            BY <2>1, <3>2, <5>1
          <5> QED
            BY <3>3, <4>2, <5>1, <5>2
        <4> QED
          BY <4>1, <4>2
      <3> QED
        BY <3>4, <3>5
    <2>5. /\ room.name = rooms[g].name /\ room.admin = rooms[g].admin
          /\ room.members = front \o back
      BY <1>2 DEF Room
    <2> HIDE DEF room, front, back, i
    <2>6. /\ new \in Seq(Room) /\ Len(new) = Len(rooms)
          /\ \A h \in 1 .. Len(rooms) : new[h] = IF h = g THEN room ELSE rooms[h]
      BY <1>1, <2>3, ExceptSeq
    <2>7. new[g] = room
      BY <1>1, <2>6
    <2>8. new[g].members = front \o back
      BY <2>5, <2>7
    <2>9. /\ new[g].name = rooms[g].name /\ new[g].admin = rooms[g].admin
          /\ \A h \in 1 .. Len(rooms) : h # g => new[h] = rooms[h]
      BY <2>5, <2>6, <2>7
    <2>10. \A k \in DOMAIN new[g].members :
             \E j \in DOMAIN rooms[g].members :
               new[g].members[k] = rooms[g].members[j]
      BY <2>4, <2>8
    <2>11. /\ i \in 1 .. Len(rooms[g].members)
           /\ DOMAIN new[g].members = 1 .. Len(rooms[g].members) - 1
           /\ \A k \in 1 .. Len(rooms[g].members) - 1 :
                new[g].members[k] = rooms[g].members[IF k < i THEN k ELSE k + 1]
      BY <2>1, <2>4, <2>8
    <2> QED
      BY <1>4, <2>6, <2>9, <2>10, <2>11 DEF i
  <1> QED
    BY <1>3, <1>4

LEMMA MyDescriptor ==
    ASSUME TypeInv
    PROVE  FdOf(Me) \in Fds /\ online[FdOf(Me)] = Me
  BY FdOfHolds DEF TypeInv, WorldTypeOK

LEMMA PacketFields ==
    ASSUME NEW type, NEW fd, NEW name, NEW room
    PROVE  LET p == Packet(type, fd, name, room)
           IN  /\ p.type = type /\ p.fd = fd /\ p.name = name /\ p.room = room
               /\ p.list = <<>>
  BY DEF Packet

LEMMA SentWhole ==
    ASSUME NEW type, NEW fd \in MyFds, NEW name \in Users \cup {NoUser},
           NEW room \in Rooms \cup {NoRoom},
           Packet(type, fd, name, room) \in Whole,
           NEW queue \in Seq(Whole)
    PROVE  Append(queue, Packet(type, fd, name, room)) \in Seq(Whole)
  BY AppendProperties

LEMMA NewMemberTypes ==
    ASSUME TypeInv, NEW g \in DOMAIN rooms, NEW u \in Users, NEW fd \in MyFds,
           NewMember(g, u, fd)
    PROVE  rooms' \in Seq(Room) /\ inbox' \in Seq(Whole)
  <1> DEFINE entry == [name |-> u, FD |-> fd]
  <1>1. entry \in Listed
    BY DEF Listed
  <1>2. rooms' = WithMember(g, entry)
    BY DEF NewMember
  <1>3. /\ rooms' \in Seq(Room) /\ Len(rooms') = Len(rooms)
        /\ rooms'[g].members = Append(rooms[g].members, entry)
    BY <1>1, <1>2, MemberAdded
  <1>4. rooms[g] \in Room /\ rooms[g].members \in Seq(Listed)
    BY RoomTyped DEF Room
  <1>5. inbox \in Seq(Whole)
    BY DEF TypeInv, WorldTypeOK
  <1>6. CASE fd = FdOf(Me)
    <2> DEFINE p == [Packet("GROUP_LIST", NoFd, rooms[g].admin, rooms[g].name)
                       EXCEPT !.list = rooms'[g].members]
    <2>1. rooms'[g].members \in Seq(Listed)
      BY <1>1, <1>3, <1>4, AppendProperties
    <2>2. p \in Whole
      BY <1>4, <2>1, EmptySeq DEF Packet, Whole, Letters, MyFds, Room
    <2>3. inbox' = Append(inbox, p)
      BY <1>6 DEF NewMember, SendsMe
    <2> HIDE DEF p
    <2>4. inbox' \in Seq(Whole)
      BY <1>5, <2>2, <2>3, AppendProperties
    <2> QED
      BY <1>3, <2>4
  <1>7. CASE fd # FdOf(Me)
    <2> DEFINE p == Packet("JOIN_ROOM", fd, u, rooms[g].name)
    <2>1. p \in Whole
      BY <1>4, EmptySeq DEF Packet, Whole, Letters, Room
    <2>2. inbox' \in {inbox, Append(inbox, p)}
      BY <1>7 DEF NewMember, TellsMe
    <2> HIDE DEF p
    <2>3. inbox' \in Seq(Whole)
      BY <1>5, <2>1, <2>2, AppendProperties
    <2> QED
      BY <1>3, <2>3
  <1> QED
    BY <1>6, <1>7

LEMMA LeftMemberTypes ==
    ASSUME TypeInv, NEW g \in DOMAIN rooms, NEW u \in Users, NEW fd \in MyFds,
           LeftMember(g, u, fd)
    PROVE  rooms' \in Seq(Room) /\ inbox' \in Seq(Whole)
  <1> DEFINE p == Packet("LEAVE_ROOM", fd, u, rooms[g].name)
  <1>1. rooms' \in Seq(Room)
    BY MemberRemoved DEF LeftMember
  <1>2. rooms[g].name \in Rooms
    BY RoomTyped DEF Room
  <1>3. p \in Whole
    BY <1>2, EmptySeq DEF Packet, Whole, Letters
  <1>4. inbox \in Seq(Whole) /\ inbox' \in {inbox, Append(inbox, p)}
    BY DEF LeftMember, TellsMe, TypeInv, WorldTypeOK
  <1> HIDE DEF p
  <1>5. inbox' \in Seq(Whole)
    BY <1>3, <1>4, AppendProperties
  <1> QED
    BY <1>1, <1>5

LEMMA KickedMemberTypes ==
    ASSUME TypeInv, NEW g \in DOMAIN rooms, NEW u \in Users, NEW fd \in MyFds,
           NEW by, KickedMember(g, u, fd, by)
    PROVE  rooms' \in Seq(Room) /\ inbox' \in Seq(Whole)
  <1> DEFINE p == Packet("KICK_GROUP_MEMBER", fd, u, rooms[g].name)
             kicked == Packet("KICKED", NoFd, NoUser, rooms[g].name)
             n == Cardinality(Holding(g, fd))
             told == [i \in 1 .. n |-> kicked]
  <1>1. inbox \in Seq(Whole) /\ rooms \in Seq(Room)
    BY DEF TypeInv, WorldTypeOK, Room
  <1>2. rooms' \in Seq(Room)
    BY <1>1, MemberRemoved DEF KickedMember
  <1>3. rooms[g].name \in Rooms
    BY RoomTyped DEF Room
  <1>4. p \in Whole /\ kicked \in Whole
    BY <1>3, EmptySeq DEF Packet, Whole, Letters, MyFds
  <1>5. n \in Nat
    BY HoldingFinite
  <1>6. inbox' \in {inbox, Append(inbox, p), inbox \o told}
    BY DEF KickedMember
  <1> HIDE DEF p, kicked, n
  <1>7. told \in Seq(Whole)
    BY <1>4, <1>5
  <1> HIDE DEF told
  <1>8. Append(inbox, p) \in Seq(Whole) /\ inbox \o told \in Seq(Whole)
    BY <1>1, <1>4, <1>7, AppendProperties, ConcatProperties
  <1> QED
    BY <1>1, <1>2, <1>6, <1>8

LEMMA OthersTypes ==
    ASSUME TypeInv, OthersAct
    PROVE  WorldTypeOK'
  <1> USE ClientWorldAssumption
  <1>1. /\ online \in [Fds -> Users \cup {NoUser}] /\ been \in SUBSET Users
        /\ rooms \in Seq(Room) /\ me \in {"new", "named", "listed"}
        /\ inbox \in Seq(Whole) /\ outbox \in Seq(Whole) /\ IsOnline(Me)
    BY DEF TypeInv, WorldTypeOK, Room
  <1>2. ASSUME NEW u \in Users \ {Me}, NewUser(u)
        PROVE  WorldTypeOK'
    <2> DEFINE f == Lowest(Fds \ OnlineFds)
               p == Packet("USER_JOINED_SERVER", f, u, NoRoom)
    <2>1. f \in Fds /\ online[f] = NoUser
      <3>1. Fds \ OnlineFds # {} /\ Fds \ OnlineFds \subseteq Nat
        BY <1>2 DEF NewUser, OnlineFds
      <3>2. f \in Fds \ OnlineFds
        BY <3>1, LowestHolds
      <3> QED
        BY <3>2 DEF OnlineFds
    <2>2. p \in Whole
      BY <2>1, EmptySeq DEF Packet, Whole, Letters, MyFds
    <2>3. inbox' \in {inbox, Append(inbox, p)} /\ online' = [online EXCEPT ![f] = u]
      BY <1>2 DEF NewUser, SendsMe
    <2> HIDE DEF p, f
    <2>4. inbox' \in Seq(Whole) /\ online' \in [Fds -> Users \cup {NoUser}]
      <3>1. Append(inbox, p) \in Seq(Whole)
        BY <1>1, <2>2, AppendProperties
      <3> QED
        BY <1>1, <2>1, <2>3, <3>1
    <2>5. IsOnline(Me)'
      BY <1>1, <2>1, <2>3 DEF IsOnline
    <2> QED
      BY <1>1, <1>2, <2>4, <2>5 DEF NewUser, WorldTypeOK, Room
  <1>3. ASSUME NEW u \in Users \ {Me}, LeftUser(u)
        PROVE  WorldTypeOK'
    <2> DEFINE f == FdOf(u)
               p == Packet("USER_LEFT", f, NoUser, NoRoom)
    <2>1. f \in Fds /\ online[f] = u
      BY <1>3, FdOfHolds DEF LeftUser
    <2>2. p \in Whole
      BY <2>1, EmptySeq DEF Packet, Whole, Letters, MyFds
    <2>3. /\ inbox' \in {inbox, Append(inbox, p)}
          /\ online' = [online EXCEPT ![f] = NoUser]
      BY <1>3 DEF LeftUser, SendsMe
    <2> HIDE DEF p, f
    <2>4. inbox' \in Seq(Whole) /\ online' \in [Fds -> Users \cup {NoUser}]
      <3>1. Append(inbox, p) \in Seq(Whole)
        BY <1>1, <2>2, AppendProperties
      <3> QED
        BY <1>1, <2>1, <2>3, <3>1
    <2>5. IsOnline(Me)'
      BY <1>1, <2>1, <2>3 DEF IsOnline
    <2> QED
      BY <1>1, <1>3, <2>4, <2>5 DEF LeftUser, WorldTypeOK, Room
  <1>4. ASSUME UNCHANGED <<online, been, me, outbox>>,
               rooms' \in Seq(Room), inbox' \in Seq(Whole)
        PROVE  WorldTypeOK'
    <2>1. IsOnline(Me)'
      BY <1>1, <1>4 DEF IsOnline
    <2> QED
      BY <1>1, <1>4, <2>1 DEF WorldTypeOK, Room
  <1>5. ASSUME NEW g \in DOMAIN rooms, UNCHANGED <<online, been, me, outbox>>,
               InvitesMe(g)
        PROVE  WorldTypeOK'
    <2>1. FdOf(Me) \in MyFds
      BY MyDescriptor DEF MyFds
    <2>2. rooms' \in Seq(Room) /\ inbox' \in Seq(Whole)
      BY <1>5, <2>1, NewMemberTypes DEF InvitesMe
    <2> QED
      BY <1>4, <1>5, <2>2
  <1>6. ASSUME NEW g \in DOMAIN rooms, UNCHANGED <<online, been, me, outbox>>,
               NEW u \in Users, Invites(g, u) \/ Leaves(g, u) \/ Kicks(g, u)
        PROVE  WorldTypeOK'
    <2>1. FdOf(u) \in MyFds
      BY <1>6, FdOfHolds DEF Invites, Leaves, Kicks, MyFds
    <2>2. CASE Invites(g, u)
      <3>1. rooms' \in Seq(Room) /\ inbox' \in Seq(Whole)
        BY <2>1, <2>2, NewMemberTypes DEF Invites
      <3> QED
        BY <1>4, <1>6, <3>1
    <2>3. CASE Leaves(g, u)
      <3>1. rooms' \in Seq(Room) /\ inbox' \in Seq(Whole)
        BY <2>1, <2>3, LeftMemberTypes DEF Leaves
      <3> QED
        BY <1>4, <1>6, <3>1
    <2>4. CASE Kicks(g, u)
      <3>1. rooms' \in Seq(Room) /\ inbox' \in Seq(Whole)
        BY <2>1, <2>4, KickedMemberTypes DEF Kicks
      <3> QED
        BY <1>4, <1>6, <3>1
    <2> QED
      BY <1>6, <2>2, <2>3, <2>4
  <1>7. CASE \E u \in Users \ {Me} : NewUser(u) \/ LeftUser(u)
    BY <1>2, <1>3, <1>7
  <1>8. CASE /\ \E g \in DOMAIN rooms :
                 \/ InvitesMe(g)
                 \/ \E u \in Users \ {Me} : Invites(g, u) \/ Leaves(g, u)
                 \/ \E u \in Users : Kicks(g, u)
             /\ UNCHANGED <<online, been, me, outbox>>
    BY <1>5, <1>6, <1>8
  <1> QED
    BY <1>7, <1>8 DEF OthersAct

\* The first packet of a queue and those behind it.
LEMMA FirstTaken ==
    ASSUME NEW queue \in Seq(Whole), queue # <<>>
    PROVE  /\ Len(queue) \in Nat \ {0} /\ 1 \in DOMAIN queue
           /\ Head(queue) = queue[1] /\ Head(queue) \in Whole
           /\ Tail(queue) \in Seq(Whole)
           /\ Len(Tail(queue)) = Len(queue) - 1
           /\ \A i \in 1 .. Len(queue) - 1 : Tail(queue)[i] = queue[i + 1]
  BY EmptySeq, HeadTailProperties

LEMMA ServesTypes ==
    ASSUME TypeInv, Serves
    PROVE  WorldTypeOK'
  <1> USE ClientWorldAssumption
  <1>1. /\ online \in [Fds -> Users \cup {NoUser}] /\ been \in SUBSET Users
        /\ rooms \in Seq(Room) /\ me \in {"new", "named", "listed"}
        /\ inbox \in Seq(Whole) /\ outbox \in Seq(Whole) /\ IsOnline(Me)
    BY DEF TypeInv, WorldTypeOK, Room
  <1>2. ASSUME UNCHANGED <<online, been>>, me' \in {"new", "named", "listed"},
               outbox' \in Seq(Whole), rooms' \in Seq(Room), inbox' \in Seq(Whole)
        PROVE  WorldTypeOK'
    <2>1. IsOnline(Me)'
      BY <1>1, <1>2 DEF IsOnline
    <2> QED
      BY <1>1, <1>2, <2>1 DEF WorldTypeOK, Room
  <1>3. outbox # <<>> => /\ Tail(outbox) \in Seq(Whole)
                         /\ Head(outbox) \in Whole /\ Head(outbox) \in Letters
    BY <1>1, FirstTaken DEF Whole
  <1>4. CASE IntroduceMe
    BY <1>1, <1>2, <1>3, <1>4 DEF IntroduceMe
  <1>5. CASE SendListToMe
    <2> DEFINE fds == SetToSeq(OnlineFds)
               list == [i \in DOMAIN fds |-> Entry(fds[i])]
               p == [Packet("CLIENT_LIST", NoFd, Me, NoRoom) EXCEPT !.list = list]
    <2>1. IsFiniteSet(OnlineFds) /\ FdOf(Me) \in OnlineFds
      BY <1>1, FS_Subset, MyDescriptor DEF OnlineFds
    <2>2. /\ fds \in Seq(OnlineFds) /\ Len(fds) \in Nat
          /\ DOMAIN fds = 1 .. Len(fds)
          /\ \E i \in 1 .. Len(fds) : fds[i] = FdOf(Me)
      BY <2>1, EveryoneListed, LenProperties
    <2> HIDE DEF fds
    <2>3. ASSUME NEW i \in 1 .. Len(fds)
          PROVE  Entry(fds[i]) \in Listed
      <3>1. fds[i] \in Fds /\ online[fds[i]] # NoUser
        BY <2>2, ElementOfSeq DEF OnlineFds
      <3>2. online[fds[i]] \in Users
        BY <1>1, <3>1
      <3> QED
        BY <3>1, <3>2 DEF Entry, Listed, MyFds
    <2>4. list \in Seq(Listed) /\ list # <<>>
      BY <2>2, <2>3
    <2> HIDE DEF list
    <2>5. p \in Whole
      BY <2>4 DEF Packet, Whole, Letters, MyFds
    <2>6. inbox' = Append(inbox, p)
      BY <1>5 DEF SendListToMe, SendsMe, fds, list
    <2> HIDE DEF p
    <2>7. inbox' \in Seq(Whole)
      BY <1>1, <2>5, <2>6, AppendProperties
    <2> QED
      BY <1>1, <1>2, <1>5, <2>7 DEF SendListToMe
  <1>6. ASSUME NEW type, ServeNext(type), rooms' \in Seq(Room),
               inbox' \in Seq(Whole)
        PROVE  WorldTypeOK'
    BY <1>1, <1>2, <1>3, <1>6 DEF ServeNext
  <1>7. CASE ServeCreateRoom
    <2> DEFINE room == [name |-> Head(outbox).room, admin |-> Me,
                        members |-> <<[name |-> Me, FD |-> FdOf(Me)]>>]
    <2>1. Head(outbox).room \in Rooms
      BY <1>3, <1>7 DEF ServeCreateRoom, ServeNext, Whole
    <2>2. [name |-> Me, FD |-> FdOf(Me)] \in Listed
      BY MyDescriptor DEF Listed, MyFds
    <2>3. <<[name |-> Me, FD |-> FdOf(Me)]>> \in Seq(Listed)
      BY <2>2
    <2>4. room \in Room
      BY <2>1, <2>3 DEF Room
    <2>5. rooms' = Append(rooms, room)
      BY <1>7 DEF ServeCreateRoom
    <2> HIDE DEF room
    <2>6. rooms' \in Seq(Room)
      BY <1>1, <2>4, <2>5, AppendProperties
    <2> QED
      BY <1>1, <1>6, <1>7, <2>6 DEF ServeCreateRoom
  <1>8. ASSUME NEW g \in Numbers(Head(outbox).room)
        PROVE  g \in DOMAIN rooms
    BY DEF Numbers
  <1>9. CASE ServeJoinRoom
    <2>1. PICK g \in Numbers(Head(outbox).room) :
            NewMember(g, Head(outbox).name, Head(outbox).fd)
      BY <1>9 DEF ServeJoinRoom
    <2>2. Head(outbox).name \in Users /\ Head(outbox).fd \in MyFds
      BY <1>3, <1>9 DEF ServeJoinRoom, ServeNext, Whole, Letters
    <2>3. rooms' \in Seq(Room) /\ inbox' \in Seq(Whole)
      BY <1>8, <2>1, <2>2, NewMemberTypes
    <2> QED
      BY <1>6, <1>9, <2>3 DEF ServeJoinRoom
  <1>10. CASE ServeKick
    <2>1. PICK g \in Numbers(Head(outbox).room) :
            KickedMember(g, Head(outbox).name, Head(outbox).fd, Me)
      BY <1>10 DEF ServeKick
    <2>2. Head(outbox).name \in Users /\ Head(outbox).fd \in MyFds
      BY <1>3, <1>10 DEF ServeKick, ServeNext, Whole, Letters
    <2>3. rooms' \in Seq(Room) /\ inbox' \in Seq(Whole)
      BY <1>8, <2>1, <2>2, KickedMemberTypes
    <2> QED
      BY <1>6, <1>10, <2>3 DEF ServeKick
  <1>11. CASE ServeLeaveRoom
    <2>1. PICK g \in Numbers(Head(outbox).room) :
            LeftMember(g, Me, Head(outbox).fd)
      BY <1>11 DEF ServeLeaveRoom
    <2>2. Me \in Users /\ Head(outbox).fd \in MyFds
      BY <1>3, <1>11 DEF ServeLeaveRoom, ServeNext, Letters
    <2>3. rooms' \in Seq(Room) /\ inbox' \in Seq(Whole)
      BY <1>8, <2>1, <2>2, LeftMemberTypes
    <2> QED
      BY <1>6, <1>11, <2>3 DEF ServeLeaveRoom
  <1>12. CASE ServeOther
    BY <1>1, <1>6, <1>12 DEF ServeOther
  <1> QED
    BY <1>4, <1>5, <1>7, <1>9, <1>10, <1>11, <1>12 DEF Serves

LEMMA WorldTypes ==
    ASSUME TypeInv, WorldStep
    PROVE  TypeInv'
  <1>1. WorldTypeOK' /\ UNCHANGED clientVars
    BY OthersTypes, ServesTypes DEF WorldStep
  <1> QED
    BY <1>1 DEF TypeInv, ClientTypeOK, clientVars

----------------------------------------------------------------------------
(* Types: the receive thread. *)

LEMMA ArrivedPacket ==
    ASSUME TypeInv, NEW type, NEW p \in Arrived(type)
    PROVE  /\ Runs /\ rx.pc = "recv"
           /\ inbox # <<>> /\ p = Head(inbox) /\ p = inbox[1]
           /\ p \in Whole /\ p \in Letters /\ p.type = type
  <1>1. inbox \in Seq(Whole) /\ DOMAIN inbox = 1 .. Len(inbox)
    BY DEF TypeInv, WorldTypeOK
  <1>2. PICK k \in DOMAIN inbox \cap {1} : p = inbox[k]
    BY DEF Arrived
  <1>3. k = 1 /\ 1 \in DOMAIN inbox
    BY <1>2
  <1>4. inbox # <<>>
    BY <1>3
  <1> QED
    BY <1>1, <1>2, <1>3, <1>4, FirstTaken DEF Arrived, Whole

LEMMA TakeTypes ==
    ASSUME TypeInv, inbox # <<>>, Take
    PROVE  WorldTypeOK'
  <1>1. inbox' \in Seq(Whole)
    BY FirstTaken DEF Take, TypeInv, WorldTypeOK
  <1>2. UNCHANGED <<online, been, rooms, me, outbox>>
    BY DEF Take, serverVars
  <1> QED
    BY <1>1, <1>2 DEF TypeInv, WorldTypeOK, IsOnline

LEMMA WorldUnchanged ==
    ASSUME TypeInv, UNCHANGED <<serverVars, inbox>>, outbox' \in Seq(Whole)
    PROVE  WorldTypeOK'
  BY DEF TypeInv, WorldTypeOK, IsOnline, serverVars

LEMMA GroupsTyped ==
    ASSUME NEW groups \in Seq(SizedGroup)
    PROVE  groups \in Seq(Group)
  <1>1. SizedGroup \subseteq Group
    BY DEF SizedGroup
  <1> QED
    BY <1>1, SeqMonotonic

LEMMA ChatTyped ==
    ASSUME TypeInv
    PROVE  /\ chats \in Seq(Chat) /\ Len(chats) \in Nat
           /\ DOMAIN chats = 1 .. Len(chats)
           /\ \A k \in 1 .. Len(chats) :
                /\ chats[k] \in Chat
                /\ chats[k].slot <= Len(userList.clients)
                /\ IF chats[k].slot > 0 THEN chats[k].name \in Users
                                        ELSE chats[k].name \in Rooms
  <1>1. chats \in Seq(Chat) /\ DOMAIN chats = 1 .. Len(chats)
    BY LenProperties DEF TypeInv, ClientTypeOK
  <1>2. \A k \in 1 .. Len(chats) : chats[k] \in Chat
    BY <1>1, ElementOfSeq
  <1> QED
    BY <1>1, <1>2 DEF TypeInv

\* The entries of the packets, as members of lists.
LEMMA ListedMembers ==
    ASSUME NEW list \in Seq(Listed)
    PROVE  list \in Seq(Member)
  <1>1. Listed \subseteq Member
    BY DEF Listed, Member, Client
  <1> QED
    BY <1>1, SeqMonotonic

\* AddUser fills the next slot; the chats learn of it.
LEMMA UserAdded ==
    ASSUME TypeInv, NEW user \in Member, AddUser(user)
    PROVE  /\ userList' \in SizedList
           /\ userList'.size = userList.size + 1
           /\ Len(userList.clients) <= Len(userList'.clients)
           /\ \A i \in 1 .. userList.size :
                userList'.clients[i] = userList.clients[i]
           /\ userList'.clients[userList'.size] = user
           /\ chats' \in Seq(Chat) /\ Len(chats') = Len(chats)
           /\ \A k \in 1 .. Len(chats) :
                /\ chats'[k].name = chats[k].name
                /\ chats'[k].slot = chats[k].slot
                /\ chats'[k].peer = chats[k].peer
                /\ chats'[k].hole = chats[k].hole
                /\ chats[k].stale => chats'[k].stale
                /\ chats'[k].spoilt <=> (chats[k].spoilt \/ chats[k].hole)
  <1>1. userList \in SizedList /\ userList \in ClientList(Users, MyFds)
    BY DEF TypeInv, SizedList
  <1>2. userList' = addClientInClientList(userList, user)
    BY DEF AddUser
  <1>3. /\ userList' \in ClientList(Users, MyFds)
        /\ userList'.size = userList.size + 1
        /\ userList'.size <= Len(userList'.clients)
        /\ Len(userList.clients) <= Len(userList'.clients)
        /\ \A i \in 1 .. userList.size :
             userList'.clients[i] = userList.clients[i]
        /\ userList'.clients[userList'.size] = user
    BY <1>1, <1>2, Addition DEF SizedList, Member
  <1>4. PICK moves \in {FALSE, ReallocMoves /\ Grows(userList)} :
          chats' = [k \in DOMAIN chats |->
                     [chats[k] EXCEPT !.stale = @ \/ (moves /\ chats[k].slot > 0),
                                      !.spoilt = @ \/ chats[k].hole]]
    BY DEF AddUser
  <1> DEFINE new(k) ==
        [chats[k] EXCEPT !.stale = @ \/ (moves /\ chats[k].slot > 0),
                         !.spoilt = @ \/ chats[k].hole]
  <1>5. /\ Len(chats) \in Nat /\ DOMAIN chats = 1 .. Len(chats)
        /\ \A k \in 1 .. Len(chats) : chats[k] \in Chat
    BY ChatTyped
  <1>6. ASSUME NEW k \in 1 .. Len(chats)
        PROVE  /\ new(k) \in Chat
               /\ new(k).name = chats[k].name
               /\ new(k).slot = chats[k].slot
               /\ new(k).peer = chats[k].peer
               /\ new(k).hole = chats[k].hole
               /\ chats[k].stale => new(k).stale
               /\ new(k).spoilt <=> (chats[k].spoilt \/ chats[k].hole)
    <2>1. chats[k] \in Chat
      BY <1>5
    <2>2. /\ chats[k].stale \in BOOLEAN /\ chats[k].hole \in BOOLEAN
          /\ chats[k].spoilt \in BOOLEAN
      BY <2>1 DEF Chat
    <2>3. (chats[k].stale \/ (moves /\ chats[k].slot > 0)) \in BOOLEAN
      OBVIOUS
    <2> QED
      BY <2>1, <2>2, <2>3 DEF Chat
  <1>7. chats' = [k \in 1 .. Len(chats) |-> new(k)]
    BY <1>4, <1>5
  <1> HIDE DEF new
  <1>8. chats' \in Seq(Chat) /\ Len(chats') = Len(chats)
    BY <1>5, <1>6, <1>7
  <1>9. \A k \in 1 .. Len(chats) : chats'[k] = new(k)
    BY <1>7
  <1> QED
    BY <1>3, <1>6, <1>8, <1>9 DEF SizedList

\* handleLeftUser takes one entry off; the chats learn of it.
LeavesChats(fd) ==
    chats' = [k \in DOMAIN chats |->
               [chats[k] EXCEPT !.hole = TRUE,
                                !.spoilt = @ \/ chats[k].peer = fd]]

LEMMA UserRemoved ==
    ASSUME TypeInv, NEW fd,
           userList' = removeClientFromClientList(userList, fd)
    PROVE  /\ userList' \in SizedList
           /\ Len(userList'.clients) = Len(userList.clients)
           /\ \A i \in Live(userList') : \E j \in Live(userList) :
                /\ userList'.clients[i].FD = userList.clients[j].FD
                /\ userList'.clients[i].name \in {userList.clients[j].name, Freed}
           /\ \A i \in 1 .. Len(userList.clients) :
                userList.clients[i].FD # fd =>
                  userList'.clients[i].FD = userList.clients[i].FD
           /\ \A i \in Live(userList) :
                userList.clients[i].FD # fd =>
                  \E j \in Live(userList') :
                    userList'.clients[j].FD = userList.clients[i].FD
  <1>1. /\ userList \in ClientList(Users, MyFds)
        /\ userList.size <= Len(userList.clients)
    BY DEF TypeInv, SizedList
  <1> QED
    BY <1>1, Removal DEF SizedList

LEMMA ChatsLeft ==
    ASSUME TypeInv, NEW fd, LeavesChats(fd)
    PROVE  /\ chats' \in Seq(Chat) /\ Len(chats') = Len(chats)
           /\ \A k \in 1 .. Len(chats) :
                /\ chats'[k].name = chats[k].name
                /\ chats'[k].slot = chats[k].slot
                /\ chats'[k].peer = chats[k].peer
                /\ chats'[k].hole
                /\ chats'[k].stale = chats[k].stale
                /\ chats'[k].spoilt <=> (chats[k].spoilt \/ chats[k].peer = fd)
  <1> DEFINE new(k) == [chats[k] EXCEPT !.hole = TRUE,
                                        !.spoilt = @ \/ chats[k].peer = fd]
  <1>1. /\ Len(chats) \in Nat /\ DOMAIN chats = 1 .. Len(chats)
        /\ \A k \in 1 .. Len(chats) : chats[k] \in Chat
    BY ChatTyped
  <1>2. ASSUME NEW k \in 1 .. Len(chats)
        PROVE  /\ new(k) \in Chat
               /\ new(k).name = chats[k].name
               /\ new(k).slot = chats[k].slot
               /\ new(k).peer = chats[k].peer
               /\ new(k).hole
               /\ new(k).stale = chats[k].stale
               /\ new(k).spoilt <=> (chats[k].spoilt \/ chats[k].peer = fd)
    <2>1. chats[k] \in Chat
      BY <1>1
    <2> QED
      BY <2>1 DEF Chat
  <1>3. chats' = [k \in 1 .. Len(chats) |-> new(k)]
    BY <1>1 DEF LeavesChats
  <1> HIDE DEF new
  <1>4. \A k \in 1 .. Len(chats) : chats'[k] = new(k)
    BY <1>3
  <1>5. chats' \in Seq(Chat) /\ Len(chats') = Len(chats)
    BY <1>1, <1>2, <1>3
  <1> QED
    BY <1>2, <1>4, <1>5

\* The slots that conversations point to stay in the array.
LEMMA ChatsStay ==
    ASSUME TypeInv, chats' \in Seq(Chat), Len(chats') = Len(chats),
           userList' \in SizedList,
           Len(userList.clients) <= Len(userList'.clients),
           \A k \in 1 .. Len(chats) :
             chats'[k].name = chats[k].name /\ chats'[k].slot = chats[k].slot
    PROVE  \A k \in DOMAIN chats' :
             /\ chats'[k].slot <= Len(userList'.clients)
             /\ IF chats'[k].slot > 0 THEN chats'[k].name \in Users
                                      ELSE chats'[k].name \in Rooms
  <1>1. DOMAIN chats' = 1 .. Len(chats)
    BY LenProperties
  <1>2. /\ Len(userList.clients) \in Nat /\ Len(userList'.clients) \in Nat
    BY LenProperties DEF TypeInv, SizedList, ClientList
  <1>3. \A k \in 1 .. Len(chats) : chats[k].slot \in Nat
    BY ChatTyped DEF Chat
  <1> QED
    BY <1>1, <1>2, <1>3, ChatTyped

\* What the handlers that leave the list of users alone leave of TypeInv.
LEMMA GroupStepTypes ==
    ASSUME TypeInv, WorldTypeOK', groupList' \in Seq(SizedGroup),
           UNCHANGED <<userList, chats, mySocketFD, line, strayed>>,
           currentCommunication' \in {currentCommunication, Freed, NoChat},
           main' \in {main, [main EXCEPT !.pc = "aborted"]},
           rx'.pc \in {"recv", "kicked"}, rx'.rest = rx.rest,
           rx' = [rx EXCEPT !.pc = rx'.pc]
    PROVE  TypeInv'
  <1>1. groupList' \in Seq(Group)
    BY GroupsTyped
  <1>2. rx' \in [pc : {"recv", "userList", "kicked"}, rest : Seq(Member)]
    BY DEF TypeInv, ClientTypeOK
  <1>3. main' \in [pc : {"intro", "learn", "command", "assign", "aborted", "quit"},
                   text : Texts]
    BY DEF TypeInv, ClientTypeOK
  <1>4. currentCommunication' \in Texts \cup {NULL, Freed}
    BY DEF TypeInv, ClientTypeOK, Texts
  <1>5. ClientTypeOK'
    BY <1>1, <1>2, <1>3, <1>4 DEF TypeInv, ClientTypeOK
  <1> QED
    BY <1>5 DEF TypeInv

LEMMA ChangesGroupsTypes ==
    ASSUME TypeInv, inbox # <<>>, NEW list \in Seq(SizedGroup),
           ChangesGroups(list), rx.pc = "recv"
    PROVE  TypeInv'
  <1>1. WorldTypeOK'
    BY TakeTypes DEF ChangesGroups
  <1>2. rx' = [rx EXCEPT !.pc = rx'.pc]
    BY DEF ChangesGroups, TypeInv, ClientTypeOK
  <1> QED
    BY <1>1, <1>2, GroupStepTypes DEF ChangesGroups

LEMMA UserStepTypes ==
    ASSUME TypeInv, WorldTypeOK', userList' \in SizedList,
           Len(userList.clients) <= Len(userList'.clients),
           chats' \in Seq(Chat), Len(chats') = Len(chats),
           \A k \in 1 .. Len(chats) :
             chats'[k].name = chats[k].name /\ chats'[k].slot = chats[k].slot,
           rx' \in [pc : {"recv", "userList"}, rest : Seq(Member)],
           rx'.pc = "userList" => rx'.rest # <<>>,
           UNCHANGED <<groupList, currentCommunication, main, mySocketFD,
                       line, strayed>>
    PROVE  TypeInv'
  <1>1. ClientTypeOK'
    BY DEF TypeInv, ClientTypeOK, SizedList
  <1> QED
    BY <1>1, ChatsStay DEF TypeInv

LEMMA ReceiveTypes ==
    ASSUME TypeInv, ReceiveThread
    PROVE  TypeInv'
  <1>1. /\ groupList \in Seq(SizedGroup) /\ userList \in SizedList
        /\ rx \in [pc : {"recv", "userList", "kicked"}, rest : Seq(Member)]
        /\ rx.pc = "userList" => rx.rest # <<>>
    BY DEF TypeInv, ClientTypeOK
  <1>2. \A name : Called(groupList, name) # {} => MembersOf(groupList, name) \in SizedList
    BY <1>1, FirstHolds
  <1>3. ASSUME NEW list \in SizedList, NEW client \in Member
        PROVE  addClientInClientList(list, client) \in SizedList
    <2>1. list \in ClientList(Users, MyFds) /\ list.size <= Len(list.clients)
      BY DEF SizedList
    <2> QED
      BY <2>1, Addition DEF SizedList, Member
  <1>4. ASSUME NEW list \in SizedList, NEW fd
        PROVE  removeClientFromClientList(list, fd) \in SizedList
    <2>1. list \in ClientList(Users, MyFds) /\ list.size <= Len(list.clients)
      BY DEF SizedList
    <2> QED
      BY <2>1, Removal DEF SizedList
  <1>5. CASE addJoinedUserInUserList
    <2>1. PICK p \in Arrived("USER_JOINED_SERVER") :
            /\ AddUser([name |-> p.name, FD |-> p.fd])
            /\ Take
            /\ UNCHANGED <<groupList, currentCommunication, rx, main, mySocketFD,
                           typed, line, strayed>>
      BY <1>5 DEF addJoinedUserInUserList
    <2>2. p \in Whole /\ p.type = "USER_JOINED_SERVER" /\ inbox # <<>> /\ rx.pc = "recv"
      BY ArrivedPacket
    <2>3. [name |-> p.name, FD |-> p.fd] \in Member
      BY <2>2 DEF Whole, Letters, Member, Client
    <2>4. WorldTypeOK'
      BY <2>1, <2>2, TakeTypes
    <2>5. rx' \in [pc : {"recv", "userList"}, rest : Seq(Member)] /\ rx'.pc = "recv"
      BY <1>1, <2>1, <2>2
    <2> QED
      BY <2>1, <2>3, <2>4, <2>5, UserAdded, UserStepTypes
  <1>6. CASE receiveUserList
    <2>1. PICK p \in Arrived("CLIENT_LIST") :
            /\ rx' = [pc |-> "userList", rest |-> p.list]
            /\ Take
            /\ UNCHANGED <<userList, groupList, currentCommunication, main, chats,
                           mySocketFD, typed, line, strayed>>
      BY <1>6 DEF receiveUserList
    <2>2. p \in Whole /\ p.type = "CLIENT_LIST" /\ inbox # <<>>
      BY ArrivedPacket
    <2>3. p.list \in Seq(Member) /\ p.list # <<>>
      BY <2>2, ListedMembers DEF Whole, Letters
    <2>4. WorldTypeOK'
      BY <2>1, <2>2, TakeTypes
    <2>5. /\ rx' \in [pc : {"recv", "userList"}, rest : Seq(Member)]
          /\ rx'.pc = "userList" => rx'.rest # <<>>
      BY <2>1, <2>3
    <2>6. /\ chats' \in Seq(Chat) /\ Len(chats') = Len(chats)
          /\ Len(userList.clients) <= Len(userList'.clients)
          /\ userList' \in SizedList
      BY <1>1, <2>1, ChatTyped, LenProperties DEF SizedList, ClientList
    <2> QED
      BY <2>1, <2>4, <2>5, <2>6, UserStepTypes
  <1>7. CASE AddListedUser
    <2>1. /\ rx.pc = "userList" /\ AddUser(Head(rx.rest))
          /\ rx' = [pc   |-> IF Len(rx.rest) = 1 THEN "recv" ELSE "userList",
                    rest |-> Tail(rx.rest)]
          /\ UNCHANGED <<worldVars, groupList, currentCommunication, main,
                         mySocketFD, typed, line, strayed>>
      BY <1>7 DEF AddListedUser
    <2>2. rx.rest \in Seq(Member) /\ rx.rest # <<>>
      BY <1>1, <2>1
    <2>3. /\ Head(rx.rest) \in Member /\ Tail(rx.rest) \in Seq(Member)
          /\ Len(Tail(rx.rest)) = Len(rx.rest) - 1
          /\ Len(rx.rest) \in Nat \ {0}
      BY <2>2, HeadTailProperties, EmptySeq
    <2>4. WorldTypeOK'
      BY <2>1, WorldUnchanged DEF worldVars, TypeInv, WorldTypeOK
    <2>5. /\ rx' \in [pc : {"recv", "userList"}, rest : Seq(Member)]
          /\ rx'.pc = "userList" => rx'.rest # <<>>
      <3>1. Len(rx.rest) # 1 => Tail(rx.rest) # <<>>
        <4> DEFINE left == Tail(rx.rest)
        <4>1. left \in Seq(Member) /\ Len(left) = Len(rx.rest) - 1
          BY <2>3
        <4> HIDE DEF left
        <4>2. left = <<>> => Len(left) = 0
          BY <4>1
        <4>3. Len(rx.rest) # 1 => left # <<>>
          BY <2>3, <4>1, <4>2
        <4> QED
          BY <4>3 DEF left
      <3> QED
        BY <2>1, <2>3, <3>1
    <2> QED
      BY <2>1, <2>3, <2>4, <2>5, UserAdded, UserStepTypes
  <1>8. CASE handleLeftUser
    <2>1. PICK p \in Arrived("USER_LEFT") :
            /\ userList' = removeClientFromClientList(userList, p.fd)
            /\ LeavesChats(p.fd)
            /\ Take
            /\ UNCHANGED <<groupList, currentCommunication, rx, main, mySocketFD,
                           typed, line, strayed>>
      BY <1>8 DEF handleLeftUser, LeavesChats
    <2>2. inbox # <<>> /\ rx.pc = "recv"
      BY ArrivedPacket
    <2>3. WorldTypeOK'
      BY <2>1, <2>2, TakeTypes
    <2>4. /\ userList' \in SizedList
          /\ Len(userList'.clients) = Len(userList.clients)
      BY <2>1, UserRemoved
    <2>5. /\ chats' \in Seq(Chat) /\ Len(chats') = Len(chats)
          /\ \A k \in 1 .. Len(chats) :
               chats'[k].name = chats[k].name /\ chats'[k].slot = chats[k].slot
      BY <2>1, ChatsLeft
    <2>6. rx' \in [pc : {"recv", "userList"}, rest : Seq(Member)] /\ rx'.pc = "recv"
      BY <1>1, <2>1, <2>2
    <2>7. Len(userList.clients) <= Len(userList'.clients)
      BY <1>1, <2>4, LenProperties DEF SizedList, ClientList
    <2> QED
      BY <2>1, <2>3, <2>4, <2>5, <2>6, <2>7, UserStepTypes
  <1>9. CASE receiveGroupList
    <2>1. PICK p \in Arrived("GROUP_LIST") :
            ChangesGroups(addGroupInGroupList(groupList,
                            NewGroup(p.room, p.name, MembersFrom(p.list))))
      BY <1>9 DEF receiveGroupList
    <2>2. p \in Whole /\ p.type = "GROUP_LIST" /\ inbox # <<>> /\ rx.pc = "recv"
      BY ArrivedPacket
    <2> DEFINE group == NewGroup(p.room, p.name, MembersFrom(p.list))
    <2>3. MembersFrom(p.list) \in SizedList
      BY <2>2, ListedMembers, CopiedMembers DEF Whole, Letters
    <2>4. group \in SizedGroup
      BY <2>2, <2>3 DEF Whole, Letters, NewGroup, SizedGroup, Group, SizedList
    <2>5. addGroupInGroupList(groupList, group) \in Seq(SizedGroup)
      BY <1>1, <2>4, GroupAdded
    <2> QED
      BY <2>1, <2>2, <2>5, ChangesGroupsTypes
  <1>10. CASE manageNewMemberInGroup
    <2>1. PICK p \in Arrived("JOIN_ROOM") :
            ChangesGroups(WithMembers(groupList, p.room,
              addClientInClientList(MembersOf(groupList, p.room),
                                    [name |-> p.name, FD |-> p.fd])))
      BY <1>10 DEF manageNewMemberInGroup
    <2>2. p \in Whole /\ p.type = "JOIN_ROOM" /\ inbox # <<>> /\ rx.pc = "recv"
      BY ArrivedPacket
    <2> DEFINE members == addClientInClientList(MembersOf(groupList, p.room),
                                                [name |-> p.name, FD |-> p.fd])
    <2>3. [name |-> p.name, FD |-> p.fd] \in Member
      BY <2>2 DEF Whole, Letters, Member, Client
    <2>4. Called(groupList, p.room) # {} => members \in SizedList
      BY <1>2, <1>3, <2>3
    <2>5. WithMembers(groupList, p.room, members) \in Seq(SizedGroup)
      BY <1>1, <2>4, MembersChange
    <2> QED
      BY <2>1, <2>2, <2>5, ChangesGroupsTypes
  <1>11. CASE manageKickedMember
    <2>1. PICK p \in Arrived("KICK_GROUP_MEMBER") :
            ChangesGroups(WithMembers(groupList, p.room,
              removeClientFromClientList(MembersOf(groupList, p.room), p.fd)))
      BY <1>11 DEF manageKickedMember
    <2>2. inbox # <<>> /\ rx.pc = "recv"
      BY ArrivedPacket
    <2> DEFINE members == removeClientFromClientList(MembersOf(groupList, p.room), p.fd)
    <2>3. Called(groupList, p.room) # {} => members \in SizedList
      BY <1>2, <1>4
    <2>4. WithMembers(groupList, p.room, members) \in Seq(SizedGroup)
      BY <1>1, <2>3, MembersChange
    <2> QED
      BY <2>1, <2>2, <2>4, ChangesGroupsTypes
  <1>12. CASE manageLeftGroupMember
    <2>1. PICK p \in Arrived("LEAVE_ROOM") :
            /\ groupList' = WithMembers(groupList, p.room,
                 removeClientFromClientList(MembersOf(groupList, p.room), p.fd))
            /\ main' \in {main, [main EXCEPT !.pc = "aborted"]}
            /\ Take
            /\ UNCHANGED <<userList, currentCommunication, rx, chats,
                           mySocketFD, typed, line, strayed>>
      BY <1>12 DEF manageLeftGroupMember
    <2>2. inbox # <<>> /\ rx.pc = "recv"
      BY ArrivedPacket
    <2> DEFINE members == removeClientFromClientList(MembersOf(groupList, p.room), p.fd)
    <2>3. Called(groupList, p.room) # {} => members \in SizedList
      BY <1>2, <1>4
    <2>4. groupList' \in Seq(SizedGroup)
      BY <1>1, <2>1, <2>3, MembersChange
    <2>5. WorldTypeOK'
      BY <2>1, <2>2, TakeTypes
    <2>6. rx' = [rx EXCEPT !.pc = rx'.pc]
      BY <1>1, <2>1
    <2> QED
      BY <2>1, <2>2, <2>4, <2>5, <2>6, GroupStepTypes
  <1>13. CASE handleDepression
    <2>1. PICK p \in Arrived("KICKED") :
            /\ groupList' = removeGroupFromGroupList(groupList, p.room)
            /\ rx' = [rx EXCEPT !.pc = "kicked"]
            /\ Frees(main)
            /\ Take
            /\ UNCHANGED <<userList, chats, mySocketFD, typed, line, strayed>>
      BY <1>13 DEF handleDepression
    <2>2. inbox # <<>>
      BY ArrivedPacket
    <2>3. groupList' \in Seq(SizedGroup)
      BY <1>1, <2>1, GroupRemoved
    <2>4. WorldTypeOK'
      BY <2>1, <2>2, TakeTypes
    <2>5. /\ currentCommunication' = Freed
          /\ main' \in {main, [main EXCEPT !.pc = "aborted"]}
      BY <2>1 DEF Frees
    <2>6. rx'.pc = "kicked" /\ rx'.rest = rx.rest /\ rx' = [rx EXCEPT !.pc = rx'.pc]
      BY <1>1, <2>1
    <2> QED
      BY <2>1, <2>3, <2>4, <2>5, <2>6, GroupStepTypes
  <1>14. CASE SetNoChat
    <2>1. /\ rx' = [rx EXCEPT !.pc = "recv"]
          /\ currentCommunication' = NoChat
          /\ UNCHANGED <<worldVars, userList, groupList, main, chats, mySocketFD,
                         typed, line, strayed>>
      BY <1>14 DEF SetNoChat
    <2>2. WorldTypeOK'
      BY <2>1, WorldUnchanged DEF worldVars, TypeInv, WorldTypeOK
    <2>3. rx'.pc = "recv" /\ rx'.rest = rx.rest /\ rx' = [rx EXCEPT !.pc = rx'.pc]
      BY <1>1, <2>1
    <2> QED
      BY <1>1, <2>1, <2>2, <2>3, GroupStepTypes
  <1> QED
    BY <1>5, <1>6, <1>7, <1>8, <1>9, <1>10, <1>11, <1>12, <1>13, <1>14
       DEF ReceiveThread

----------------------------------------------------------------------------
(* Types: the main thread. *)

LEMMA TypesWorld ==
    ASSUME TypeInv, NEW p \in Whole, Types(p)
    PROVE  WorldTypeOK' /\ UNCHANGED mySocketFD /\ main.pc = "command"
  <1>1. outbox' \in Seq(Whole)
    BY AppendProperties DEF Types, TypeInv, WorldTypeOK
  <1> QED
    BY <1>1, WorldUnchanged DEF Types

LEMMA FoundEntry ==
    ASSUME NEW list \in SizedList, NEW name, NEW i \in Found(list, name)
    PROVE  /\ i \in 1 .. list.size /\ i \in 1 .. Len(list.clients)
           /\ list.clients[i] \in Member
           /\ list.clients[i].name \in {name, Freed}
  <1>1. /\ list.clients \in Seq(Member) /\ list.size \in Nat
        /\ list.size <= Len(list.clients) /\ Len(list.clients) \in Nat
    BY LenProperties DEF SizedList, ClientList, Member
  <1>2. i \in 1 .. list.size /\ list.clients[i].name \in {name, Freed}
    BY DEF Found, Live
  <1>3. i \in 1 .. Len(list.clients)
    BY <1>1, <1>2
  <1> QED
    BY <1>1, <1>2, <1>3, ElementOfSeq

\* What the commands leave of TypeInv that do not end a conversation, nor begin
\* one, nor change the list of users.
LEMMA MainStepTypes ==
    ASSUME TypeInv, WorldTypeOK', groupList' \in Seq(SizedGroup),
           UNCHANGED <<userList, rx, chats>>,
           currentCommunication' \in {currentCommunication, Freed} \cup Texts,
           main' \in [pc : {"intro", "learn", "command", "assign", "aborted", "quit"},
                      text : Texts],
           mySocketFD' \in MyFds, strayed' \in BOOLEAN,
           line' \in [name : Users, FD : MyFds, owner : Users \cup {NoUser},
                      peer : MyFds, spoilt : BOOLEAN, told : BOOLEAN]
    PROVE  TypeInv'
  <1>1. groupList' \in Seq(Group)
    BY GroupsTyped
  <1>2. ClientTypeOK'
    BY <1>1 DEF TypeInv, ClientTypeOK
  <1> QED
    BY <1>2 DEF TypeInv

LEMMA EnterTypes ==
    ASSUME TypeInv, NEW chat \in Chat, Enter(chat),
           chat.slot <= Len(userList.clients),
           IF chat.slot > 0 THEN chat.name \in Users ELSE chat.name \in Rooms,
           NEW text \in Texts, Frees([pc |-> "assign", text |-> text])
    PROVE  TypeInv'
  <1>1. /\ chats' = Append(chats, chat)
        /\ UNCHANGED <<worldVars, userList, groupList, rx, mySocketFD, line, strayed>>
    BY DEF Enter
  <1>2. WorldTypeOK'
    BY <1>1, WorldUnchanged DEF worldVars, TypeInv, WorldTypeOK
  <1>3. /\ chats' \in Seq(Chat) /\ Len(chats') = Len(chats) + 1
        /\ \A k \in 1 .. Len(chats) : chats'[k] = chats[k]
        /\ chats'[Len(chats) + 1] = chat
        /\ Len(chats) \in Nat
    BY <1>1, ChatTyped, AppendProperties
  <1>4. /\ currentCommunication' = Freed
        /\ main' \in [pc : {"assign", "aborted"}, text : Texts]
    BY DEF Frees
  <1>5. \A k \in DOMAIN chats' :
          /\ chats'[k].slot <= Len(userList'.clients)
          /\ IF chats'[k].slot > 0 THEN chats'[k].name \in Users
                                   ELSE chats'[k].name \in Rooms
    <2>1. DOMAIN chats' = 1 .. Len(chats) + 1
      BY <1>3, LenProperties
    <2> QED
      BY <1>1, <1>3, <2>1, ChatTyped
  <1>6. ClientTypeOK'
    BY <1>1, <1>3, <1>4 DEF TypeInv, ClientTypeOK
  <1> QED
    BY <1>1, <1>2, <1>5, <1>6 DEF TypeInv

LEMMA MainTypes ==
    ASSUME TypeInv, MainThread
    PROVE  TypeInv'
  <1> USE ClientWorldAssumption, ChatClientAssumption
  <1>1. /\ groupList \in Seq(SizedGroup) /\ userList \in SizedList
        /\ chats \in Seq(Chat)
        /\ main \in [pc : {"intro", "learn", "command", "assign", "aborted", "quit"},
                     text : Texts]
        /\ currentCommunication \in Texts \cup {NULL, Freed}
        /\ mySocketFD \in MyFds /\ strayed \in BOOLEAN
        /\ line \in [name : Users, FD : MyFds, owner : Users \cup {NoUser},
                     peer : MyFds, spoilt : BOOLEAN, told : BOOLEAN]
        /\ online \in [Fds -> Users \cup {NoUser}]
        /\ outbox \in Seq(Whole)
    BY DEF TypeInv, ClientTypeOK, WorldTypeOK
  <1>2. UNCHANGED worldVars => WorldTypeOK'
    BY <1>1, WorldUnchanged DEF worldVars
  <1>3. ASSUME NEW type \in {"INTRO", "USER_LEFT", "CHAT", "GROUP_CHAT", "LEAVE_ROOM"},
               NEW f \in MyFds, NEW room \in Rooms \cup {NoRoom}
        PROVE  Packet(type, f, Me, room) \in Whole
    BY EmptySeq DEF Packet, Whole, Letters
  <1>4. CASE Intro
    <2> DEFINE p == Packet("INTRO", NoFd, Me, NoRoom)
    <2>1. p \in Whole
      BY <1>3 DEF MyFds
    <2>2. outbox' = Append(outbox, p)
      BY <1>4 DEF Intro
    <2> HIDE DEF p
    <2>3. outbox' \in Seq(Whole)
      BY <1>1, <2>1, <2>2, AppendProperties
    <2>4. WorldTypeOK'
      BY <1>4, <2>3, WorldUnchanged DEF Intro
    <2> QED
      BY <1>1, <1>4, <2>4, MainStepTypes DEF Intro
  <1>5. CASE Quit
    <2> DEFINE p == Packet("USER_LEFT", NoFd, Me, NoRoom)
    <2>1. p \in Whole
      BY <1>3 DEF MyFds
    <2>2. outbox' = Append(outbox, p)
      BY <1>5 DEF Quit
    <2> HIDE DEF p
    <2>3. outbox' \in Seq(Whole)
      BY <1>1, <2>1, <2>2, AppendProperties
    <2>4. WorldTypeOK'
      BY <1>5, <2>3, WorldUnchanged DEF Quit
    <2> QED
      BY <1>1, <1>5, <2>4, MainStepTypes DEF Quit
  <1>6. CASE Learn
    <2>1. mySocketFD' \in MyFds
      <3>1. CASE mySocketFD' = NotLearnt
        BY <3>1 DEF MyFds
      <3>2. ASSUME NEW i \in Found(userList, Me), mySocketFD' = userList.clients[i].FD
            PROVE  mySocketFD' \in MyFds
        BY <1>1, <3>2, FoundEntry DEF Member, Client
      <3> QED
        BY <1>6, <3>1, <3>2 DEF Learn
    <2> QED
      BY <1>1, <1>2, <1>6, <2>1, MainStepTypes DEF Learn
  <1>7. CASE AssignChat
    <2>1. currentCommunication' \in Texts
      BY <1>1, <1>7 DEF AssignChat
    <2> QED
      BY <1>1, <1>2, <1>7, <2>1, MainStepTypes DEF AssignChat
  <1>8. CASE KickNowhere
    BY <1>1, <1>2, <1>8, MainStepTypes DEF KickNowhere
  <1>9. CASE Back
    <2>1. /\ chats' = Front(chats) /\ chats # <<>>
          /\ UNCHANGED <<worldVars, userList, groupList, currentCommunication, rx,
                         main, mySocketFD, typed, line, strayed>>
      BY <1>9 DEF Back
    <2>2. Len(chats) \in Nat \ {0} /\ \A k \in 1 .. Len(chats) : chats[k] \in Chat
      BY <1>1, <2>1, EmptySeq, ChatTyped
    <2>3. /\ chats' \in Seq(Chat) /\ Len(chats') = Len(chats) - 1
          /\ \A k \in 1 .. Len(chats) - 1 : chats'[k] = chats[k]
      <3> DEFINE n == Len(chats) - 1
      <3>1. \A k \in 1 .. n : chats[k] \in Chat
        BY <2>2
      <3>2. chats' = SubSeq(chats, 1, n) /\ n \in Nat
        BY <2>1, <2>2 DEF Front
      <3> HIDE DEF n
      <3>3. /\ SubSeq(chats, 1, n) \in Seq(Chat) /\ Len(SubSeq(chats, 1, n)) = n
            /\ \A k \in 1 .. n : SubSeq(chats, 1, n)[k] = chats[k]
        BY <3>1, <3>2, SubSeqProperties
      <3> QED
        BY <3>2, <3>3 DEF n
    <2>4. \A k \in DOMAIN chats' :
            /\ chats'[k].slot <= Len(userList'.clients)
            /\ IF chats'[k].slot > 0 THEN chats'[k].name \in Users
                                     ELSE chats'[k].name \in Rooms
      <3>1. DOMAIN chats' = 1 .. Len(chats) - 1
        BY <2>3, LenProperties
      <3> QED
        BY <2>1, <2>2, <2>3, <3>1, ChatTyped
    <2>5. ClientTypeOK'
      BY <2>1, <2>3 DEF TypeInv, ClientTypeOK
    <2> QED
      BY <1>2, <2>1, <2>4, <2>5 DEF TypeInv
  <1>10. CASE LineToUser
    <2> DEFINE chat == Last(chats)
    <2>1. chat \in Chat /\ chat.slot > 0 /\ chat.slot \in 1 .. Len(userList.clients)
          /\ chat.name \in Users
      <3>1. Len(chats) \in 1 .. Len(chats)
        BY <1>1, <1>10, EmptySeq DEF LineToUser
      <3>2. /\ chats[Len(chats)] \in Chat
            /\ chats[Len(chats)].slot <= Len(userList.clients)
            /\ chats[Len(chats)].slot > 0 => chats[Len(chats)].name \in Users
        BY <3>1, ChatTyped
      <3>3. chat = chats[Len(chats)] /\ chat.slot > 0
        BY <1>10 DEF LineToUser, Last
      <3> QED
        BY <3>2, <3>3 DEF Chat
    <2>2. PICK f \in IF chat.stale THEN Fds \cup {NoFd}
                       ELSE {userList.clients[chat.slot].FD} :
            /\ Types(Packet("CHAT", f, Me, NoRoom))
            /\ line' = [name |-> chat.name, FD |-> f,
                        owner |-> IF f \in Fds THEN online[f] ELSE NoUser,
                        peer |-> chat.peer,
                        spoilt |-> chat.spoilt \/ chat.stale,
                        told |-> chat.named /\ inbox = <<>>]
      BY <1>10 DEF LineToUser
    <2> HIDE DEF chat
    <2>3. f \in MyFds
      <3>1. userList.clients[chat.slot] \in Member
        BY <1>1, <2>1, ElementOfSeq DEF SizedList, ClientList, Member
      <3> QED
        BY <2>2, <3>1 DEF MyFds, Member, Client
    <2>4. WorldTypeOK' /\ UNCHANGED mySocketFD
      BY <1>3, <2>2, <2>3, TypesWorld
    <2>5. line' \in [name : Users, FD : MyFds, owner : Users \cup {NoUser},
                     peer : MyFds, spoilt : BOOLEAN, told : BOOLEAN]
      <3>1. /\ chat.name \in Users /\ chat.peer \in MyFds
            /\ (IF f \in Fds THEN online[f] ELSE NoUser) \in Users \cup {NoUser}
        BY <1>1, <2>1 DEF Chat
      <3>2. (chat.spoilt \/ chat.stale) \in BOOLEAN
            /\ (chat.named /\ inbox = <<>>) \in BOOLEAN
        OBVIOUS
      <3> QED
        BY <2>2, <2>3, <3>1, <3>2
    <2> QED
      BY <1>1, <1>10, <2>4, <2>5, MainStepTypes DEF LineToUser
  <1>11. CASE LineToGroup
    <2> DEFINE p == Packet("GROUP_CHAT", NoFd, Me, Last(chats).name)
    <2>1. Last(chats).name \in Rooms
      <3>1. Len(chats) \in 1 .. Len(chats)
        BY <1>1, <1>11, EmptySeq DEF LineToGroup
      <3>2. chats[Len(chats)].slot = 0 => chats[Len(chats)].name \in Rooms
        BY <3>1, ChatTyped
      <3> QED
        BY <1>11, <3>2 DEF LineToGroup, Last
    <2>2. p \in Whole
      BY <1>3, <2>1 DEF MyFds
    <2>3. WorldTypeOK' /\ UNCHANGED mySocketFD
      BY <1>11, <2>2, TypesWorld DEF LineToGroup
    <2> QED
      BY <1>1, <1>11, <2>3, MainStepTypes DEF LineToGroup
  <1>12. ASSUME NEW u \in Users, chatWithUser(u)
         PROVE  TypeInv'
    <2>1. PICK i \in Found(userList, u), text \in {u, NoChat} \cup Rooms :
            /\ Enter([name |-> u, slot |-> i, stale |-> FALSE,
                      peer |-> userList.clients[i].FD,
                      named |-> userList.clients[i].name = u,
                      hole |-> FALSE, spoilt |-> FALSE])
            /\ Frees([pc |-> "assign", text |-> text])
      BY <1>12 DEF chatWithUser
    <2> DEFINE chat == [name |-> u, slot |-> i, stale |-> FALSE,
                        peer |-> userList.clients[i].FD,
                        named |-> userList.clients[i].name = u,
                        hole |-> FALSE, spoilt |-> FALSE]
    <2>2. i \in 1 .. Len(userList.clients) /\ userList.clients[i].FD \in MyFds
      BY <1>1, FoundEntry DEF Member, Client
    <2>3. chat \in Chat /\ chat.slot = i /\ chat.name = u
      <3>1. (userList.clients[i].name = u) \in BOOLEAN
        OBVIOUS
      <3> QED
        BY <2>2, <3>1 DEF Chat
    <2>4. Enter(chat) /\ text \in Texts
      BY <2>1 DEF Texts
    <2> HIDE DEF chat
    <2>5. chat.slot <= Len(userList.clients) /\ chat.name \in Users
      BY <2>2, <2>3
    <2> QED
      BY <2>1, <2>2, <2>3, <2>4, <2>5, EnterTypes
  <1>13. ASSUME NEW g \in Rooms, chatWithinGroup(g)
         PROVE  TypeInv'
    <2> DEFINE chat == [name |-> g, slot |-> 0, stale |-> FALSE, peer |-> NoFd,
                        named |-> TRUE, hole |-> FALSE, spoilt |-> FALSE]
    <2>1. chat \in Chat /\ chat.slot = 0 /\ chat.name = g
      BY DEF Chat, MyFds
    <2>2. Enter(chat) /\ Frees([pc |-> "assign", text |-> g]) /\ g \in Texts
      BY <1>13 DEF chatWithinGroup, Texts
    <2> HIDE DEF chat
    <2>3. chat.slot <= Len(userList.clients)
      BY <1>1, <2>1, LenProperties DEF SizedList, ClientList
    <2> QED
      BY <2>1, <2>2, <2>3, EnterTypes
  <1>14. ASSUME NEW g \in Rooms, createGroup(g)
         PROVE  TypeInv'
    <2> DEFINE admin == [name |-> Me, FD |-> mySocketFD]
               members == addClientInClientList(EmptyList, admin)
               group == NewGroup(g, Me, members)
               p == Packet("CREATE_ROOM", mySocketFD, Me, g)
    <2>1. admin \in Member
      BY <1>1 DEF Member, Client
    <2>2. EmptyList \in ClientList(Users, MyFds) /\ EmptyList.size <= Len(EmptyList.clients)
      BY EmptySeq DEF EmptyList, ClientList
    <2> HIDE DEF admin
    <2>3. members \in SizedList
      BY <2>1, <2>2, Addition DEF SizedList, Member
    <2> HIDE DEF members
    <2>4. group \in SizedGroup
      BY <2>3 DEF NewGroup, SizedGroup, Group, SizedList
    <2> HIDE DEF group
    <2>5. groupList' = addGroupInGroupList(groupList, group)
      BY <1>14 DEF createGroup, group, members, admin
    <2>6. groupList' \in Seq(SizedGroup)
      BY <1>1, <2>4, <2>5, GroupAdded
    <2>7. p \in Whole
      BY <1>1, EmptySeq DEF Packet, Whole, Letters
    <2>8. WorldTypeOK' /\ UNCHANGED mySocketFD
      BY <1>14, <2>7, TypesWorld DEF createGroup
    <2> QED
      BY <1>1, <1>14, <2>6, <2>8, MainStepTypes DEF createGroup
  <1>15. ASSUME NEW u \in Users, NEW g \in Rooms, addMember(u, g)
         PROVE  TypeInv'
    <2>1. PICK i \in Found(userList, u) :
            /\ userList.clients[i].name # Freed
            /\ groupList' = WithMembers(groupList, g,
                 addClientInClientList(MembersOf(groupList, g), userList.clients[i]))
            /\ Types(Packet("JOIN_ROOM", userList.clients[i].FD, u, g))
      BY <1>15 DEF addMember
    <2> DEFINE members == addClientInClientList(MembersOf(groupList, g),
                                                userList.clients[i])
               p == Packet("JOIN_ROOM", userList.clients[i].FD, u, g)
    <2>2. userList.clients[i] \in Member /\ userList.clients[i].FD \in MyFds
      BY <1>1, FoundEntry DEF Member, Client
    <2>3. Called(groupList, g) # {}
      BY <1>15 DEF addMember
    <2>4. /\ MembersOf(groupList, g) \in ClientList(Users, MyFds)
          /\ MembersOf(groupList, g).size <= Len(MembersOf(groupList, g).clients)
      BY <1>1, <2>3, FirstHolds DEF SizedList
    <2>5. members \in SizedList
      BY <2>2, <2>4, Addition DEF SizedList, Member
    <2> HIDE DEF members
    <2>6. groupList' = WithMembers(groupList, g, members)
      BY <2>1 DEF members
    <2>7. groupList' \in Seq(SizedGroup)
      BY <1>1, <2>5, <2>6, MembersChange
    <2>8. p \in Whole
      BY <2>2, EmptySeq DEF Packet, Whole, Letters
    <2>9. WorldTypeOK' /\ UNCHANGED mySocketFD
      BY <2>1, <2>8, TypesWorld
    <2> QED
      BY <1>1, <1>15, <2>7, <2>9, MainStepTypes DEF addMember
  <1>16. ASSUME NEW g \in Rooms, leaveGroupAndInformServer(g)
         PROVE  TypeInv'
    <2>1. PICK i \in Found(MembersOf(groupList, g), Me) :
            /\ Types(Packet("LEAVE_ROOM", MembersOf(groupList, g).clients[i].FD, Me, g))
            /\ strayed' = (strayed \/ MembersOf(groupList, g).clients[i].FD # FdOf(Me))
      BY <1>16 DEF leaveGroupAndInformServer
    <2>2. MembersOf(groupList, g) \in SizedList
      BY <1>1, <1>16, FirstHolds DEF leaveGroupAndInformServer
    <2>3. MembersOf(groupList, g).clients[i].FD \in MyFds
      BY <2>2, FoundEntry DEF Member, Client
    <2>4. WorldTypeOK' /\ UNCHANGED mySocketFD
      BY <1>3, <2>1, <2>3, TypesWorld
    <2>5. strayed' \in BOOLEAN
      BY <2>1
    <2>6. groupList' \in Seq(SizedGroup)
      BY <1>1, <1>16, GroupRemoved DEF leaveGroupAndInformServer
    <2>7. /\ currentCommunication' = Freed
          /\ main' \in [pc : {"assign", "aborted"}, text : Texts]
      BY <1>16 DEF leaveGroupAndInformServer, Frees, Texts
    <2> QED
      BY <1>1, <1>16, <2>4, <2>5, <2>6, <2>7, MainStepTypes
         DEF leaveGroupAndInformServer
  <1>17. ASSUME NEW u \in Users, kickMemberAndShareOnServer(u)
         PROVE  TypeInv'
    <2>1. PICK g \in Rooms, f \in Targets(u) :
            /\ Called(groupList, g) # {}
            /\ groupList' = WithMembers(groupList, g,
                 removeClientFromClientList(MembersOf(groupList, g), f))
            /\ Types(Packet("KICK_GROUP_MEMBER", f, u, g))
            /\ UNCHANGED <<userList, currentCommunication, rx, main, chats, line, strayed>>
      BY <1>17 DEF kickMemberAndShareOnServer
    <2>2. f \in MyFds
      <3>1. ASSUME NEW i \in Found(userList, u)
            PROVE  userList.clients[i].FD \in MyFds
        BY <1>1, FoundEntry DEF Member, Client
      <3> QED
        BY <3>1 DEF Targets, MyFds
    <2> DEFINE members == removeClientFromClientList(MembersOf(groupList, g), f)
               p == Packet("KICK_GROUP_MEMBER", f, u, g)
    <2>3. /\ MembersOf(groupList, g) \in ClientList(Users, MyFds)
          /\ MembersOf(groupList, g).size <= Len(MembersOf(groupList, g).clients)
      BY <1>1, <2>1, FirstHolds DEF SizedList
    <2>4. members \in SizedList
      BY <2>3, Removal DEF SizedList
    <2> HIDE DEF members
    <2>5. groupList' = WithMembers(groupList, g, members)
      BY <2>1 DEF members
    <2>6. groupList' \in Seq(SizedGroup)
      BY <1>1, <2>4, <2>5, MembersChange
    <2>7. p \in Whole
      BY <2>2, EmptySeq DEF Packet, Whole, Letters
    <2>8. WorldTypeOK' /\ UNCHANGED mySocketFD
      BY <2>1, <2>7, TypesWorld
    <2> QED
      BY <1>1, <2>1, <2>6, <2>8, MainStepTypes
  <1> QED
    BY <1>4, <1>5, <1>6, <1>7, <1>8, <1>9, <1>10, <1>11, <1>12, <1>13, <1>14,
       <1>15, <1>16, <1>17 DEF MainThread

LEMMA NextTypes ==
    ASSUME TypeInv, [Next]_vars
    PROVE  TypeInv'
  <1>1. CASE UNCHANGED vars
    BY <1>1 DEF vars, clientVars, worldVars, serverVars, TypeInv, ClientTypeOK,
       WorldTypeOK, IsOnline
  <1> QED
    BY <1>1, WorldTypes, ReceiveTypes, MainTypes DEF Next, Stops

\* The start of WorldInit, with the other user and the two descriptors.
Start(u, f, h) ==
    /\ f # h
    /\ {f, h} = {Lowest(Fds), Lowest(Fds \ {Lowest(Fds)})}
    /\ online = [x \in Fds |-> IF x = f THEN u ELSE IF x = h THEN Me ELSE NoUser]
    /\ been = {u, Me}
    /\ rooms = SetToSeq({[name |-> r, admin |-> u,
                          members |-> <<[name |-> u, FD |-> f]>>] : r \in Foreign})
    /\ me = "new"
    /\ events = 0
    /\ inbox = <<>>
    /\ outbox = <<>>

LEMMA InitTypes ==
    ASSUME Init
    PROVE  TypeInv
  <1> USE ClientWorldAssumption, ChatClientAssumption
  <1>0. PICK u \in Users \ {Me}, f \in Fds, h \in Fds : Start(u, f, h)
    BY DEF Init, WorldInit, Start
  <1>1.
          /\ f # h
          /\ online = [x \in Fds |-> IF x = f THEN u ELSE IF x = h THEN Me ELSE NoUser]
          /\ been = {u, Me}
          /\ rooms = SetToSeq({[name |-> r, admin |-> u,
                                members |-> <<[name |-> u, FD |-> f]>>] : r \in Foreign})
          /\ me = "new" /\ events = 0 /\ inbox = <<>> /\ outbox = <<>>
    BY <1>0 DEF Start
  <1> DEFINE made == {[name |-> r, admin |-> u,
                       members |-> <<[name |-> u, FD |-> f]>>] : r \in Foreign}
  <1>2. IsFiniteSet(made)
    <2> DEFINE make == [r \in Foreign |->
                         [name |-> r, admin |-> u,
                          members |-> <<[name |-> u, FD |-> f]>>]]
    <2>1. make \in Surjection(Foreign, made)
      BY DEF Surjection
    <2> QED
      BY <2>1, FS_Surjection
  <1>3. made \subseteq Room
    <2>1. [name |-> u, FD |-> f] \in Listed
      BY DEF Listed, MyFds
    <2>2. <<[name |-> u, FD |-> f]>> \in Seq(Listed)
      BY <2>1
    <2>3. ASSUME NEW r \in Foreign
          PROVE  [name |-> r, admin |-> u,
                  members |-> <<[name |-> u, FD |-> f]>>] \in Room
      BY <2>2 DEF Room
    <2> QED
      BY <2>3
  <1>4. rooms \in Seq(Room)
    <2>1. SetToSeq(made) \in Seq(made)
      BY <1>2, EveryoneListed
    <2> HIDE DEF made
    <2>2. SetToSeq(made) \in Seq(Room)
      BY <1>3, <2>1, SeqMonotonic
    <2> QED
      BY <1>1, <2>2 DEF made
  <1>5. online \in [Fds -> Users \cup {NoUser}] /\ IsOnline(Me)
    BY <1>1 DEF IsOnline
  <1>6. WorldTypeOK
    BY <1>1, <1>4, <1>5 DEF WorldTypeOK, Room
  <1>7. EmptyList \in SizedList
    BY EmptySeq DEF EmptyList, SizedList, ClientList
  <1>8. /\ userList = EmptyList /\ groupList = <<>> /\ chats = <<>>
        /\ currentCommunication = NULL /\ rx = [pc |-> "recv", rest |-> <<>>]
        /\ main = [pc |-> "intro", text |-> NoChat] /\ mySocketFD = NoFd
        /\ line = NoLine /\ strayed = FALSE
    BY DEF Init, NewClient, Silent
  <1>9. ClientTypeOK
    <2>1. /\ userList \in ClientList(Users, MyFds) /\ groupList \in Seq(Group)
          /\ chats \in Seq(Chat) /\ currentCommunication \in Texts \cup {NULL, Freed}
      BY <1>7, <1>8, EmptySeq DEF SizedList
    <2>2. rx \in [pc : {"recv", "userList", "kicked"}, rest : Seq(Member)]
      BY <1>8, EmptySeq
    <2>3. /\ main \in [pc : {"intro", "learn", "command", "assign", "aborted", "quit"},
                       text : Texts]
          /\ mySocketFD \in MyFds /\ strayed \in BOOLEAN
      BY <1>8 DEF Texts, MyFds
    <2>4. line \in [name : Users, FD : MyFds, owner : Users \cup {NoUser},
                    peer : MyFds, spoilt : BOOLEAN, told : BOOLEAN]
      BY <1>8 DEF NoLine, MyFds
    <2> QED
      BY <2>1, <2>2, <2>3, <2>4 DEF ClientTypeOK
  <1> QED
    BY <1>6, <1>7, <1>8, <1>9 DEF TypeInv

\* Types, of everything the client keeps.
THEOREM ClientTyped == Spec => [](ClientTypeOK /\ TypeInv)
  <1>1. Init => TypeInv
    BY InitTypes
  <1>2. TypeInv /\ [Next]_vars => TypeInv'
    BY NextTypes
  <1>3. TypeInv => ClientTypeOK
    BY DEF TypeInv
  <1> QED
    BY <1>1, <1>2, <1>3, PTL DEF Spec

----------------------------------------------------------------------------
(* currentCommunication *)

\* currentCommunication dangles only while one of the threads is between its
\* free() and its assignment, however the two threads take turns.
LEMMA DanglingStep ==
    ASSUME TypeInv, NoDanglingChat, [Next]_vars
    PROVE  NoDanglingChat'
  <1> USE ChatClientAssumption, ClientWorldAssumption
  <1>1. main.text \in Texts /\ Freed \notin Texts
        /\ main = [pc |-> main.pc, text |-> main.text]
        /\ rx = [pc |-> rx.pc, rest |-> rx.rest]
    BY DEF TypeInv, ClientTypeOK, Texts
  <1>2. CASE UNCHANGED vars
    BY <1>2 DEF vars, clientVars, NoDanglingChat
  <1>3. CASE WorldStep
    BY <1>3 DEF WorldStep, clientVars, NoDanglingChat
  <1>4. CASE ReceiveThread
    <2>1. CASE addJoinedUserInUserList \/ receiveUserList \/ AddListedUser
               \/ handleLeftUser
      BY <2>1 DEF addJoinedUserInUserList, receiveUserList, AddListedUser,
                  handleLeftUser, Arrived, NoDanglingChat
    <2>2. CASE receiveGroupList \/ manageNewMemberInGroup \/ manageKickedMember
      BY <2>2 DEF receiveGroupList, manageNewMemberInGroup, manageKickedMember,
                  ChangesGroups, NoDanglingChat
    <2>3. CASE manageLeftGroupMember
      BY <1>1, <2>3 DEF manageLeftGroupMember, NoDanglingChat
    <2>4. CASE handleDepression
      BY <1>1, <2>4 DEF handleDepression, NoDanglingChat
    <2>5. CASE SetNoChat
      BY <1>1, <2>5 DEF SetNoChat, NoDanglingChat, Texts
    <2> QED
      BY <1>4, <2>1, <2>2, <2>3, <2>4, <2>5 DEF ReceiveThread
  <1>5. CASE MainThread
    <2>1. CASE Intro \/ Learn \/ Back \/ KickNowhere \/ Quit
      BY <1>1, <2>1 DEF Intro, Learn, Back, KickNowhere, Quit, NoDanglingChat
    <2>2. CASE AssignChat
      BY <1>1, <2>2 DEF AssignChat, NoDanglingChat
    <2>3. CASE LineToUser \/ LineToGroup
      BY <2>3 DEF LineToUser, LineToGroup, NoDanglingChat
    <2>4. ASSUME NEW text, Frees([pc |-> "assign", text |-> text])
          PROVE  NoDanglingChat'
      BY <2>4 DEF Frees, NoDanglingChat
    <2>5. ASSUME NEW u, chatWithUser(u) \/ kickMemberAndShareOnServer(u)
          PROVE  NoDanglingChat'
      BY <2>4, <2>5 DEF chatWithUser, kickMemberAndShareOnServer, NoDanglingChat
    <2>6. ASSUME NEW g, chatWithinGroup(g) \/ createGroup(g)
                        \/ leaveGroupAndInformServer(g)
          PROVE  NoDanglingChat'
      BY <2>4, <2>6 DEF chatWithinGroup, createGroup, leaveGroupAndInformServer,
                        NoDanglingChat
    <2>7. ASSUME NEW u, NEW g, addMember(u, g)
          PROVE  NoDanglingChat'
      BY <2>7 DEF addMember, NoDanglingChat
    <2> QED
      BY <1>5, <2>1, <2>2, <2>3, <2>5, <2>6, <2>7 DEF MainThread
  <1> QED
    BY <1>2, <1>3, <1>4, <1>5 DEF Next, Stops

\* currentCommunication, which both threads free and assign without a lock, is
\* never left dangling: it is freed memory only while one of them is between
\* its free() and its assignment.
THEOREM ChatNeverLeftFreed == Spec => []NoDanglingChat
  <1>1. Init => NoDanglingChat
    BY ChatClientAssumption DEF Init, NewClient, Silent, NoDanglingChat
  <1>2. TypeInv /\ NoDanglingChat /\ [Next]_vars => NoDanglingChat'
    BY DanglingStep
  <1> QED
    BY <1>1, <1>2, ClientTyped, PTL DEF Spec

----------------------------------------------------------------------------
(* Conversations: a slot keeps the descriptor the conversation was opened on. *)

\* A conversation whose peer has not left and whose slot cannot have been filled
\* again reads the descriptor it was opened on; until somebody leaves, from a
\* slot that is in use.
OpenedInv ==
    \A k \in 1 .. Len(chats) :
      (chats[k].slot > 0 /\ ~chats[k].stale /\ ~chats[k].spoilt) =>
        /\ userList.clients[chats[k].slot].FD = chats[k].peer
        /\ ~chats[k].hole => chats[k].slot <= userList.size

LEMMA UserListTyped ==
    ASSUME TypeInv
    PROVE  /\ userList.size \in Nat /\ Len(userList.clients) \in Nat
           /\ userList.size <= Len(userList.clients)
           /\ \A i \in 1 .. Len(userList.clients) :
                userList.clients[i] \in Member /\ userList.clients[i].FD \in MyFds
  <1>1. /\ userList.clients \in Seq(Member) /\ userList.size \in Nat
        /\ userList.size <= Len(userList.clients)
    BY DEF TypeInv, SizedList, ClientList, Member
  <1>2. \A i \in 1 .. Len(userList.clients) : userList.clients[i] \in Member
    BY <1>1, ElementOfSeq
  <1> QED
    BY <1>1, <1>2, LenProperties DEF Member, Client

LEMMA OpenedAfterAddition ==
    ASSUME TypeInv, OpenedInv, NEW user \in Member, AddUser(user)
    PROVE  OpenedInv'
  <1>1. /\ userList.size \in Nat /\ userList'.size = userList.size + 1
        /\ \A i \in 1 .. userList.size :
             userList'.clients[i] = userList.clients[i]
        /\ Len(chats') = Len(chats)
        /\ \A k \in 1 .. Len(chats) :
             /\ chats'[k].slot = chats[k].slot
             /\ chats'[k].peer = chats[k].peer
             /\ chats'[k].hole = chats[k].hole
             /\ chats[k].stale => chats'[k].stale
             /\ chats'[k].spoilt <=> (chats[k].spoilt \/ chats[k].hole)
    BY UserAdded, UserListTyped
  <1> SUFFICES ASSUME NEW k \in 1 .. Len(chats),
                      chats[k].slot > 0, ~chats'[k].stale, ~chats'[k].spoilt
               PROVE  /\ userList'.clients[chats[k].slot].FD = chats[k].peer
                      /\ chats[k].slot <= userList'.size
    BY <1>1 DEF OpenedInv
  <1>2. chats[k].slot \in Nat
    BY ChatTyped DEF Chat
  <1>3. /\ userList.clients[chats[k].slot].FD = chats[k].peer
        /\ chats[k].slot <= userList.size
    BY <1>1 DEF OpenedInv
  <1>4. chats[k].slot \in 1 .. userList.size
    BY <1>1, <1>2, <1>3
  <1> QED
    BY <1>1, <1>3, <1>4

LEMMA OpenedStep ==
    ASSUME TypeInv, OpenedInv, [Next]_vars
    PROVE  OpenedInv'
  <1>1. CASE UNCHANGED <<userList, chats>>
    BY <1>1 DEF OpenedInv
  <1>2. CASE addJoinedUserInUserList
    <2>1. PICK p \in Arrived("USER_JOINED_SERVER") :
            AddUser([name |-> p.name, FD |-> p.fd])
      BY <1>2 DEF addJoinedUserInUserList
    <2>2. [name |-> p.name, FD |-> p.fd] \in Member
      BY ArrivedPacket DEF Whole, Letters, Member, Client
    <2> QED
      BY <2>1, <2>2, OpenedAfterAddition
  <1>3. CASE AddListedUser
    <2>1. rx.pc = "userList" /\ AddUser(Head(rx.rest))
      BY <1>3 DEF AddListedUser
    <2>2. Head(rx.rest) \in Member
      BY <2>1, HeadTailProperties DEF TypeInv, ClientTypeOK
    <2> QED
      BY <2>1, <2>2, OpenedAfterAddition
  <1>4. CASE handleLeftUser
    <2>1. PICK p \in Arrived("USER_LEFT") :
            /\ userList' = removeClientFromClientList(userList, p.fd)
            /\ LeavesChats(p.fd)
      BY <1>4 DEF handleLeftUser, LeavesChats
    <2>2. \A i \in 1 .. Len(userList.clients) :
            userList.clients[i].FD # p.fd =>
              userList'.clients[i].FD = userList.clients[i].FD
      BY <2>1, UserRemoved
    <2>3. /\ Len(chats') = Len(chats)
          /\ \A k \in 1 .. Len(chats) :
               /\ chats'[k].slot = chats[k].slot
               /\ chats'[k].peer = chats[k].peer
               /\ chats'[k].hole
               /\ chats'[k].stale = chats[k].stale
               /\ chats'[k].spoilt <=> (chats[k].spoilt \/ chats[k].peer = p.fd)
      BY <2>1, ChatsLeft
    <2>4. ASSUME NEW k \in 1 .. Len(chats),
                 chats[k].slot > 0, ~chats'[k].stale, ~chats'[k].spoilt
          PROVE  userList'.clients[chats[k].slot].FD = chats[k].peer
      <3>1. /\ userList.clients[chats[k].slot].FD = chats[k].peer
            /\ chats[k].peer # p.fd
        BY <2>3, <2>4 DEF OpenedInv
      <3>2. chats[k].slot \in 1 .. Len(userList.clients)
        BY <2>4, ChatTyped, UserListTyped DEF Chat
      <3> QED
        BY <2>2, <3>1, <3>2
    <2> QED
      BY <2>3, <2>4 DEF OpenedInv
  <1>5. ASSUME NEW u \in Users, chatWithUser(u)
        PROVE  OpenedInv'
    <2>1. PICK i \in Found(userList, u) :
            Enter([name |-> u, slot |-> i, stale |-> FALSE,
                   peer |-> userList.clients[i].FD,
                   named |-> userList.clients[i].name = u,
                   hole |-> FALSE, spoilt |-> FALSE])
      BY <1>5 DEF chatWithUser
    <2> DEFINE chat == [name |-> u, slot |-> i, stale |-> FALSE,
                        peer |-> userList.clients[i].FD,
                        named |-> userList.clients[i].name = u,
                        hole |-> FALSE, spoilt |-> FALSE]
    <2>2. i \in 1 .. userList.size /\ userList' = userList
      BY <2>1, FoundEntry DEF TypeInv, Enter
    <2>3. chats' = Append(chats, chat)
      BY <2>1 DEF Enter
    <2>4. chat.slot = i /\ chat.peer = userList.clients[i].FD
      OBVIOUS
    <2> HIDE DEF chat
    <2>5. /\ Len(chats') = Len(chats) + 1 /\ chats'[Len(chats) + 1] = chat
          /\ \A k \in 1 .. Len(chats) : chats'[k] = chats[k]
          /\ Len(chats) \in Nat
      BY <2>3, ChatTyped
    <2>6. ASSUME NEW k \in 1 .. Len(chats'),
                 chats'[k].slot > 0, ~chats'[k].stale, ~chats'[k].spoilt
          PROVE  /\ userList'.clients[chats'[k].slot].FD = chats'[k].peer
                 /\ ~chats'[k].hole => chats'[k].slot <= userList'.size
      <3>1. CASE k = Len(chats) + 1
        BY <2>2, <2>4, <2>5, <3>1
      <3>2. CASE k # Len(chats) + 1
        <4>1. k \in 1 .. Len(chats) /\ chats'[k] = chats[k]
          BY <2>5, <3>2
        <4> QED
          BY <2>2, <2>6, <4>1 DEF OpenedInv
      <3> QED
        BY <3>1, <3>2
    <2> QED
      BY <2>6 DEF OpenedInv
  <1>6. ASSUME NEW g \in Rooms, chatWithinGroup(g)
        PROVE  OpenedInv'
    <2> DEFINE chat == [name |-> g, slot |-> 0, stale |-> FALSE, peer |-> NoFd,
                        named |-> TRUE, hole |-> FALSE, spoilt |-> FALSE]
    <2>1. chats' = Append(chats, chat) /\ userList' = userList
      BY <1>6 DEF chatWithinGroup, Enter
    <2>2. chat.slot = 0
      OBVIOUS
    <2> HIDE DEF chat
    <2>3. /\ Len(chats') = Len(chats) + 1 /\ chats'[Len(chats) + 1] = chat
          /\ \A k \in 1 .. Len(chats) : chats'[k] = chats[k]
          /\ Len(chats) \in Nat
      BY <2>1, ChatTyped
    <2> QED
      BY <2>1, <2>2, <2>3 DEF OpenedInv
  <1>7. CASE Back
    <2>1. chats' = SubSeq(chats, 1, Len(chats) - 1) /\ userList' = userList
          /\ chats # <<>>
      BY <1>7 DEF Back, Front
    <2>2. Len(chats) \in Nat \ {0}
      BY <2>1, ChatTyped, EmptySeq
    <2> DEFINE n == Len(chats) - 1
    <2>3. n \in Nat /\ \A k \in 1 .. n : k \in 1 .. Len(chats) /\ chats[k] \in Chat
      BY <2>2, ChatTyped
    <2>4. chats' = SubSeq(chats, 1, n)
      BY <2>1
    <2> HIDE DEF n
    <2>5. Len(chats') = n /\ \A k \in 1 .. n : chats'[k] = chats[k]
      BY <2>3, <2>4, SubSeqProperties
    <2> QED
      BY <2>1, <2>3, <2>5 DEF OpenedInv
  <1>8. CASE WorldStep
    BY <1>1, <1>8 DEF WorldStep, clientVars
  <1>9. CASE ReceiveThread
    <2>1. CASE receiveUserList \/ manageLeftGroupMember \/ handleDepression
               \/ SetNoChat
      BY <1>1, <2>1 DEF receiveUserList, manageLeftGroupMember,
                        handleDepression, SetNoChat
    <2>2. CASE receiveGroupList \/ manageNewMemberInGroup \/ manageKickedMember
      BY <1>1, <2>2 DEF receiveGroupList, manageNewMemberInGroup,
                        manageKickedMember, ChangesGroups
    <2> QED
      BY <1>2, <1>3, <1>4, <1>9, <2>1, <2>2 DEF ReceiveThread
  <1>10. CASE MainThread
    <2>1. CASE Intro \/ Learn \/ AssignChat \/ LineToUser \/ LineToGroup
               \/ KickNowhere \/ Quit
      BY <1>1, <2>1 DEF Intro, Learn, AssignChat, LineToUser, LineToGroup,
                        KickNowhere, Quit
    <2>2. ASSUME NEW u \in Users, NEW g \in Rooms,
                 kickMemberAndShareOnServer(u) \/ createGroup(g)
                   \/ leaveGroupAndInformServer(g) \/ addMember(u, g)
          PROVE  OpenedInv'
      BY <1>1, <2>2 DEF kickMemberAndShareOnServer, createGroup,
                        leaveGroupAndInformServer, addMember
    <2>3. ASSUME NEW u \in Users, kickMemberAndShareOnServer(u)
          PROVE  OpenedInv'
      BY <1>1, <2>3 DEF kickMemberAndShareOnServer
    <2>4. Me \in Users
      BY ClientWorldAssumption
    <2> QED
      BY <1>5, <1>6, <1>7, <1>10, <2>1, <2>2, <2>3, <2>4 DEF MainThread
  <1> QED
    BY <1>1, <1>8, <1>9, <1>10 DEF Next, Stops, vars, clientVars

LEMMA LineStep ==
    ASSUME TypeInv, OpenedInv, LineToOpened, [Next]_vars
    PROVE  LineToOpened'
  <1>1. CASE line' = line
    BY <1>1 DEF LineToOpened
  <1>2. CASE LineToUser
    <2>1. Last(chats) = chats[Len(chats)] /\ Len(chats) \in 1 .. Len(chats)
      BY <1>2, ChatTyped, EmptySeq DEF LineToUser, Last
    <2> DEFINE chat == Last(chats)
    <2>2. PICK f \in IF chat.stale THEN Fds \cup {NoFd}
                       ELSE {userList.clients[chat.slot].FD} :
            line' = [name |-> chat.name, FD |-> f,
                     owner |-> IF f \in Fds THEN online[f] ELSE NoUser,
                     peer |-> chat.peer,
                     spoilt |-> chat.spoilt \/ chat.stale,
                     told |-> chat.named /\ inbox = <<>>]
      BY <1>2 DEF LineToUser
    <2>3. chat.slot > 0
      BY <1>2 DEF LineToUser
    <2>4. (~chat.stale /\ ~chat.spoilt) =>
            userList.clients[chat.slot].FD = chat.peer
      BY <2>1, <2>3 DEF OpenedInv
    <2> HIDE DEF chat
    <2>5. ~line'.spoilt => ~chat.stale /\ ~chat.spoilt
      BY <2>2
    <2> QED
      BY <2>2, <2>4, <2>5 DEF LineToOpened
  <1>3. CASE WorldStep
    BY <1>1, <1>3 DEF WorldStep, clientVars
  <1>4. CASE ReceiveThread
    BY <1>1, <1>4 DEF ReceiveThread, addJoinedUserInUserList, receiveUserList,
       AddListedUser, handleLeftUser, receiveGroupList, manageNewMemberInGroup,
       manageKickedMember, manageLeftGroupMember, handleDepression, SetNoChat,
       ChangesGroups
  <1>5. CASE MainThread
    BY <1>1, <1>2, <1>5 DEF MainThread, Intro, Learn, AssignChat, Back,
       LineToGroup, KickNowhere, Quit, chatWithUser, kickMemberAndShareOnServer,
       chatWithinGroup, createGroup, leaveGroupAndInformServer, addMember, Enter
  <1> QED
    BY <1>1, <1>3, <1>4, <1>5 DEF Next, Stops, vars, clientVars

\* A line typed in a conversation goes to the descriptor it was opened on, as
\* long as that user has not left, nobody has come after a departure and the
\* array has not moved: the loop reads the slot each time, and no removal of
\* another user changes the descriptor in it.
THEOREM LinesGoWhereOpened == Spec => []LineToOpened
  <1>1. Init => OpenedInv /\ LineToOpened
    BY DEF Init, NewClient, Silent, OpenedInv, LineToOpened, NoLine
  <1>2. TypeInv /\ OpenedInv /\ LineToOpened /\ [Next]_vars
          => OpenedInv' /\ LineToOpened'
    BY OpenedStep, LineStep
  <1> QED
    BY <1>1, <1>2, ClientTyped, PTL DEF Spec

----------------------------------------------------------------------------
(* Everybody who is connected is listed, or on the way to be. *)

Adds(p, f) ==
    \/ p.type = "USER_JOINED_SERVER" /\ p.fd = f
    \/ p.type = "CLIENT_LIST" /\ \E i \in 1 .. Len(p.list) : p.list[i].FD = f

Removes(p, f) == p.type = "USER_LEFT" /\ p.fd = f

\* A packet puts descriptor f on the list and none behind it takes f off.
OnTheWay(f) ==
    \E k \in 1 .. Len(inbox) :
      /\ Adds(inbox[k], f)
      /\ \A j \in k + 1 .. Len(inbox) : ~Removes(inbox[j], f)

\* f is on the list, or among those being put on it, and no packet takes it off.
Noted(f) ==
    /\ \A j \in 1 .. Len(inbox) : ~Removes(inbox[j], f)
    /\ \/ f \in FdsOf(userList)
       \/ rx.pc = "userList" /\ \E i \in 1 .. Len(rx.rest) : rx.rest[i].FD = f

HeardInv == me = "listed" => \A f \in OnlineFds : OnTheWay(f) \/ Noted(f)

\* The queue grows, behind what is in it.
Extended(queue, longer) ==
    /\ Len(queue) \in Nat /\ Len(longer) \in Nat /\ Len(queue) <= Len(longer)
    /\ \A i \in 1 .. Len(queue) : longer[i] = queue[i]

LEMMA AppendExtends ==
    ASSUME NEW queue \in Seq(Whole), NEW p \in Whole,
           NEW longer, longer = Append(queue, p)
    PROVE  /\ Extended(queue, longer) /\ Len(longer) = Len(queue) + 1
           /\ longer[Len(queue) + 1] = p
  BY AppendProperties DEF Extended

\* What is known of f is not undone by packets that do not take it off.
LEMMA NewsKeeps ==
    ASSUME NEW f, OnTheWay(f) \/ Noted(f), UNCHANGED <<userList, rx>>,
           Extended(inbox, inbox'),
           \A i \in Len(inbox) + 1 .. Len(inbox') : ~Removes(inbox'[i], f)
    PROVE  (OnTheWay(f) \/ Noted(f))'
  <1>1. CASE OnTheWay(f)
    <2>1. PICK k \in 1 .. Len(inbox) :
            /\ Adds(inbox[k], f)
            /\ \A j \in k + 1 .. Len(inbox) : ~Removes(inbox[j], f)
      BY <1>1 DEF OnTheWay
    <2>2. k \in 1 .. Len(inbox') /\ Adds(inbox'[k], f)
      BY <2>1 DEF Extended
    <2>3. ASSUME NEW j \in k + 1 .. Len(inbox')
          PROVE  ~Removes(inbox'[j], f)
      <3>1. CASE j \in 1 .. Len(inbox)
        BY <2>1, <3>1 DEF Extended
      <3>2. CASE j \notin 1 .. Len(inbox)
        <4>1. j \in Len(inbox) + 1 .. Len(inbox')
          BY <3>2 DEF Extended
        <4> QED
          BY <4>1
      <3> QED
        BY <3>1, <3>2
    <2> QED
      BY <2>2, <2>3 DEF OnTheWay
  <1>2. CASE Noted(f)
    <2>1. ASSUME NEW j \in 1 .. Len(inbox')
          PROVE  ~Removes(inbox'[j], f)
      <3>1. CASE j \in 1 .. Len(inbox)
        BY <1>2, <3>1 DEF Extended, Noted
      <3>2. CASE j \notin 1 .. Len(inbox)
        <4>1. j \in Len(inbox) + 1 .. Len(inbox')
          BY <3>2 DEF Extended
        <4> QED
          BY <4>1
      <3> QED
        BY <3>1, <3>2
    <2> QED
      BY <1>2, <2>1 DEF Noted
  <1> QED
    BY <1>1, <1>2

\* Packets about rooms are not about the list of users.
LEMMA RoomNews ==
    ASSUME TypeInv, NEW g \in DOMAIN rooms, NEW u \in Users, NEW fd \in MyFds,
           \/ NewMember(g, u, fd) \/ LeftMember(g, u, fd)
           \/ \E by : KickedMember(g, u, fd, by)
    PROVE  /\ Extended(inbox, inbox')
           /\ \A i \in Len(inbox) + 1 .. Len(inbox') :
                inbox'[i].type \in {"GROUP_LIST", "JOIN_ROOM", "LEAVE_ROOM",
                                    "KICK_GROUP_MEMBER", "KICKED"}
  <1>1. inbox \in Seq(Whole) /\ Len(inbox) \in Nat
    BY DEF TypeInv, WorldTypeOK
  <1>2. rooms[g].name \in Rooms
    BY RoomTyped DEF Room
  <1>3. ASSUME NEW p, inbox' = Append(inbox, p),
               p.type \in {"GROUP_LIST", "JOIN_ROOM", "LEAVE_ROOM", "KICK_GROUP_MEMBER"},
               inbox' \in Seq(Whole)
        PROVE  /\ Extended(inbox, inbox')
               /\ \A i \in Len(inbox) + 1 .. Len(inbox') :
                    inbox'[i].type \in {"GROUP_LIST", "JOIN_ROOM", "LEAVE_ROOM",
                                        "KICK_GROUP_MEMBER", "KICKED"}
    BY <1>1, <1>3 DEF Extended
  <1>4. CASE inbox' = inbox
    BY <1>1, <1>4 DEF Extended
  <1>5. CASE NewMember(g, u, fd)
    <2>1. inbox' \in Seq(Whole)
      BY <1>5, NewMemberTypes
    <2> DEFINE list == [Packet("GROUP_LIST", NoFd, rooms[g].admin, rooms[g].name)
                          EXCEPT !.list = rooms'[g].members]
    <2>2. list.type = "GROUP_LIST"
      BY DEF Packet
    <2>3. inbox' \in {inbox, Append(inbox, list),
                      Append(inbox, Packet("JOIN_ROOM", fd, u, rooms[g].name))}
      BY <1>5 DEF NewMember, TellsMe, SendsMe
    <2> HIDE DEF list
    <2> QED
      BY <1>3, <1>4, <2>1, <2>2, <2>3, PacketFields
  <1>6. CASE LeftMember(g, u, fd)
    <2>1. inbox' \in Seq(Whole)
      BY <1>6, LeftMemberTypes
    <2>2. inbox' \in {inbox, Append(inbox, Packet("LEAVE_ROOM", fd, u, rooms[g].name))}
      BY <1>6 DEF LeftMember, TellsMe
    <2> QED
      BY <1>3, <1>4, <2>1, <2>2, PacketFields
  <1>7. ASSUME NEW by, KickedMember(g, u, fd, by)
        PROVE  /\ Extended(inbox, inbox')
               /\ \A i \in Len(inbox) + 1 .. Len(inbox') :
                    inbox'[i].type \in {"GROUP_LIST", "JOIN_ROOM", "LEAVE_ROOM",
                                        "KICK_GROUP_MEMBER", "KICKED"}
    <2>1. inbox' \in Seq(Whole)
      BY <1>7, KickedMemberTypes
    <2> DEFINE kicked == Packet("KICKED", NoFd, NoUser, rooms[g].name)
               n == Cardinality(Holding(g, fd))
               told == [i \in 1 .. n |-> kicked]
    <2>2. inbox' \in {inbox, inbox \o told,
                      Append(inbox, Packet("KICK_GROUP_MEMBER", fd, u, rooms[g].name))}
      BY <1>7 DEF KickedMember
    <2>3. CASE inbox' = inbox \o told
      <3>1. kicked \in Whole /\ kicked.type = "KICKED"
        BY <1>2, EmptySeq DEF Packet, Whole, Letters, MyFds
      <3>2. n \in Nat
        BY HoldingFinite
      <3> HIDE DEF kicked, n
      <3>3. told \in Seq(Whole) /\ Len(told) = n /\ \A i \in 1 .. n : told[i] = kicked
        BY <3>1, <3>2
      <3> HIDE DEF told
      <3>4. /\ Len(inbox') = Len(inbox) + n
            /\ \A i \in 1 .. Len(inbox) + n :
                 inbox'[i] = IF i <= Len(inbox) THEN inbox[i] ELSE told[i - Len(inbox)]
        BY <1>1, <2>3, <3>3, ConcatProperties
      <3>5. \A i \in Len(inbox) + 1 .. Len(inbox') : inbox'[i] = kicked
        BY <1>1, <3>2, <3>3, <3>4
      <3> QED
        BY <1>1, <3>1, <3>2, <3>4, <3>5 DEF Extended
    <2> HIDE DEF told
    <2> QED
      BY <1>3, <1>4, <2>1, <2>2, <2>3, PacketFields
  <1> QED
    BY <1>5, <1>6, <1>7

\* What the server does for the rooms leaves the list of users alone.
RoomsOnly ==
    /\ UNCHANGED <<online, me>>
    /\ Extended(inbox, inbox')
    /\ \A i \in Len(inbox) + 1 .. Len(inbox') :
         inbox'[i].type \in {"GROUP_LIST", "JOIN_ROOM", "LEAVE_ROOM",
                             "KICK_GROUP_MEMBER", "KICKED"}

LEMMA OthersAboutRooms ==
    ASSUME TypeInv, OthersAct, \A u \in Users \ {Me} : ~NewUser(u) /\ ~LeftUser(u)
    PROVE  RoomsOnly /\ UNCHANGED been
  <1>1. /\ \E g \in DOMAIN rooms :
             \/ InvitesMe(g)
             \/ \E u \in Users \ {Me} : Invites(g, u) \/ Leaves(g, u)
             \/ \E u \in Users : Kicks(g, u)
        /\ UNCHANGED <<online, been, me, outbox>>
    BY DEF OthersAct
  <1>2. ASSUME NEW u, IsOnline(u)
        PROVE  FdOf(u) \in MyFds
    BY <1>2, FdOfHolds DEF MyFds
  <1>3. ASSUME NEW g \in DOMAIN rooms, InvitesMe(g)
        PROVE  RoomsOnly
    <2>1. NewMember(g, Me, FdOf(Me)) /\ Me \in Users /\ FdOf(Me) \in MyFds
      BY <1>3, MyDescriptor, ClientWorldAssumption DEF InvitesMe, MyFds
    <2> QED
      BY <1>1, <2>1, RoomNews DEF RoomsOnly
  <1>4. ASSUME NEW g \in DOMAIN rooms, NEW u \in Users, Invites(g, u)
        PROVE  RoomsOnly
    <2>1. NewMember(g, u, FdOf(u)) /\ FdOf(u) \in MyFds
      BY <1>2, <1>4 DEF Invites
    <2> QED
      BY <1>1, <2>1, RoomNews DEF RoomsOnly
  <1>5. ASSUME NEW g \in DOMAIN rooms, NEW u \in Users, Leaves(g, u)
        PROVE  RoomsOnly
    <2>1. LeftMember(g, u, FdOf(u)) /\ FdOf(u) \in MyFds
      BY <1>2, <1>5 DEF Leaves
    <2> QED
      BY <1>1, <2>1, RoomNews DEF RoomsOnly
  <1>6. ASSUME NEW g \in DOMAIN rooms, NEW u \in Users, Kicks(g, u)
        PROVE  RoomsOnly
    <2>1. KickedMember(g, u, FdOf(u), rooms[g].admin) /\ FdOf(u) \in MyFds
      BY <1>2, <1>6 DEF Kicks
    <2> QED
      BY <1>1, <2>1, RoomNews DEF RoomsOnly
  <1> QED
    BY <1>1, <1>3, <1>4, <1>5, <1>6

LEMMA ServesRooms ==
    ASSUME TypeInv, Serves, ~IntroduceMe, ~SendListToMe
    PROVE  RoomsOnly /\ UNCHANGED been
  <1>1. \E type : ServeNext(type)
    BY DEF Serves, ServeCreateRoom, ServeJoinRoom, ServeKick, ServeLeaveRoom,
           ServeOther
  <1>2. /\ UNCHANGED <<online, been, me>>
        /\ Head(outbox) \in Whole
    BY <1>1, FirstTaken DEF ServeNext, TypeInv, WorldTypeOK
  <1>3. Head(outbox).fd \in MyFds /\ Me \in Users
    BY <1>2, ClientWorldAssumption DEF Whole, Letters
  <1>4. Extended(inbox, inbox)
    BY DEF Extended, TypeInv, WorldTypeOK
  <1>5. CASE ServeCreateRoom \/ ServeOther
    <2>1. inbox' = inbox
      BY <1>5 DEF ServeCreateRoom, ServeOther
    <2> QED
      BY <1>2, <1>4, <2>1 DEF RoomsOnly, Extended
  <1>6. CASE ServeJoinRoom
    <2>1. PICK g \in DOMAIN rooms : NewMember(g, Head(outbox).name, Head(outbox).fd)
      BY <1>6 DEF ServeJoinRoom, Numbers
    <2>2. Head(outbox).name \in Users
      BY <1>2, <1>6 DEF ServeJoinRoom, ServeNext, Whole
    <2> QED
      BY <1>2, <1>3, <2>1, <2>2, RoomNews DEF RoomsOnly
  <1>7. CASE ServeKick
    <2>1. PICK g \in DOMAIN rooms :
            KickedMember(g, Head(outbox).name, Head(outbox).fd, Me)
      BY <1>7 DEF ServeKick, Numbers
    <2>2. Head(outbox).name \in Users
      BY <1>2, <1>7 DEF ServeKick, ServeNext, Whole
    <2> QED
      BY <1>2, <1>3, <2>1, <2>2, RoomNews DEF RoomsOnly
  <1>8. CASE ServeLeaveRoom
    <2>1. PICK g \in DOMAIN rooms : LeftMember(g, Me, Head(outbox).fd)
      BY <1>8 DEF ServeLeaveRoom, Numbers
    <2> QED
      BY <1>2, <1>3, <2>1, RoomNews DEF RoomsOnly
  <1> QED
    BY <1>2, <1>5, <1>6, <1>7, <1>8 DEF Serves

\* What is known of f when the first packet is taken from the queue.
LEMMA NewsTaken ==
    ASSUME TypeInv, inbox # <<>>, inbox' = Tail(inbox), NEW f,
           OnTheWay(f) \/ Noted(f)
    PROVE  \/ OnTheWay(f)'
           \/ /\ \A j \in 1 .. Len(inbox') : ~Removes(inbox'[j], f)
              /\ \/ Adds(inbox[1], f)
                 \/ /\ ~Removes(inbox[1], f)
                    /\ \/ f \in FdsOf(userList)
                       \/ rx.pc = "userList"
  <1>1. /\ Len(inbox) \in Nat \ {0} /\ Len(inbox') = Len(inbox) - 1
        /\ \A i \in 1 .. Len(inbox) - 1 : inbox'[i] = inbox[i + 1]
    BY FirstTaken DEF TypeInv, WorldTypeOK
  <1>2. CASE OnTheWay(f)
    <2>1. PICK k \in 1 .. Len(inbox) :
            /\ Adds(inbox[k], f)
            /\ \A j \in k + 1 .. Len(inbox) : ~Removes(inbox[j], f)
      BY <1>2 DEF OnTheWay
    <2>2. CASE k = 1
      <3>1. \A j \in 1 .. Len(inbox') : ~Removes(inbox'[j], f)
        BY <1>1, <2>1, <2>2
      <3> QED
        BY <2>1, <2>2, <3>1
    <2>3. CASE k # 1
      <3>1. k - 1 \in 1 .. Len(inbox') /\ inbox'[k - 1] = inbox[k]
        BY <1>1, <2>3
      <3>2. \A j \in (k - 1) + 1 .. Len(inbox') : ~Removes(inbox'[j], f)
        BY <1>1, <2>1
      <3> QED
        BY <2>1, <3>1, <3>2 DEF OnTheWay
    <2> QED
      BY <2>2, <2>3
  <1>3. CASE Noted(f)
    <2>1. \A j \in 1 .. Len(inbox') : ~Removes(inbox'[j], f)
      BY <1>1, <1>3 DEF Noted
    <2>2. ~Removes(inbox[1], f)
      BY <1>1, <1>3 DEF Noted
    <2> QED
      BY <1>3, <2>1, <2>2 DEF Noted
  <1> QED
    BY <1>2, <1>3

\* An addition to the list of users keeps the descriptors on it.
LEMMA AdditionKeeps ==
    ASSUME TypeInv, NEW user \in Member, AddUser(user)
    PROVE  FdsOf(userList') = FdsOf(userList) \cup {user.FD}
  <1>1. /\ userList.size \in Nat /\ userList'.size = userList.size + 1
        /\ \A i \in 1 .. userList.size :
             userList'.clients[i] = userList.clients[i]
        /\ userList'.clients[userList'.size] = user
    BY UserAdded, UserListTyped
  <1> QED
    BY <1>1 DEF FdsOf, Live

LEMMA HeardWorld ==
    ASSUME TypeInv, HeardInv, WorldStep
    PROVE  HeardInv'
  <1>1. inbox \in Seq(Whole) /\ UNCHANGED <<userList, rx>>
    BY DEF TypeInv, WorldTypeOK, WorldStep, clientVars
  <1>2. CASE RoomsOnly
    <2> SUFFICES ASSUME me' = "listed", NEW f \in OnlineFds'
                 PROVE  (OnTheWay(f) \/ Noted(f))'
      BY DEF HeardInv
    <2>1. OnTheWay(f) \/ Noted(f)
      BY <1>2 DEF HeardInv, RoomsOnly, OnlineFds
    <2>2. \A i \in Len(inbox) + 1 .. Len(inbox') : ~Removes(inbox'[i], f)
      BY <1>2 DEF RoomsOnly, Removes
    <2> QED
      BY <1>1, <1>2, <2>1, <2>2, NewsKeeps DEF RoomsOnly
  <1>3. CASE IntroduceMe
    BY <1>3 DEF IntroduceMe, HeardInv
  <1>4. CASE SendListToMe
    <2> DEFINE fds == SetToSeq(OnlineFds)
               list == [i \in DOMAIN fds |-> Entry(fds[i])]
               p == [Packet("CLIENT_LIST", NoFd, Me, NoRoom) EXCEPT !.list = list]
    <2>1. inbox' = Append(inbox, p) /\ OnlineFds' = OnlineFds
      BY <1>4 DEF SendListToMe, SendsMe, OnlineFds
    <2>2. p.type = "CLIENT_LIST" /\ p.list = list
      BY DEF Packet
    <2>3. IsFiniteSet(OnlineFds)
      BY ClientWorldAssumption, FS_Subset DEF OnlineFds
    <2>4. /\ fds \in Seq(OnlineFds) /\ Len(fds) \in Nat
          /\ DOMAIN fds = 1 .. Len(fds)
          /\ \A f \in OnlineFds : \E i \in 1 .. Len(fds) : fds[i] = f
      BY <2>3, EveryoneListed, LenProperties
    <2> HIDE DEF fds
    <2>5. /\ Len(list) = Len(fds)
          /\ \A i \in 1 .. Len(fds) : list[i].FD = fds[i]
      BY <2>4 DEF Entry
    <2> HIDE DEF list, p
    <2>6. \A f \in OnlineFds : Adds(p, f)
      BY <2>2, <2>4, <2>5 DEF Adds
    <2>7. /\ Len(inbox) \in Nat /\ Len(inbox') = Len(inbox) + 1
          /\ inbox'[Len(inbox) + 1] = p
      BY <1>1, <2>1
    <2>8. ASSUME NEW f \in OnlineFds
          PROVE  OnTheWay(f)'
      <3>1. Adds(inbox'[Len(inbox')], f) /\ Len(inbox') \in 1 .. Len(inbox')
        BY <2>6, <2>7
      <3>2. \A j \in Len(inbox') + 1 .. Len(inbox') : FALSE
        BY <2>7
      <3> QED
        BY <3>1, <3>2 DEF OnTheWay
    <2> QED
      BY <2>1, <2>8 DEF HeardInv
  <1>5. ASSUME NEW u \in Users \ {Me}, NewUser(u)
        PROVE  HeardInv'
    <2> DEFINE f == Lowest(Fds \ OnlineFds)
               p == Packet("USER_JOINED_SERVER", f, u, NoRoom)
    <2>1. f \in Fds
      <3>1. Fds \ OnlineFds # {} /\ Fds \ OnlineFds \subseteq Nat
        BY <1>5, ClientWorldAssumption DEF NewUser, OnlineFds
      <3> QED
        BY <3>1, LowestHolds
    <2>2. online' = [online EXCEPT ![f] = u] /\ me' = me
      BY <1>5 DEF NewUser
    <2>3. me = "listed" => inbox' = Append(inbox, p)
      BY <1>5 DEF NewUser, SendsMe
    <2>4. p.type = "USER_JOINED_SERVER" /\ p.fd = f
      BY DEF Packet
    <2>5. p \in Whole
      BY <2>1, EmptySeq, ClientWorldAssumption DEF Packet, Whole, Letters, MyFds
    <2> HIDE DEF p, f
    <2> SUFFICES ASSUME me = "listed", NEW h \in OnlineFds'
                 PROVE  (OnTheWay(h) \/ Noted(h))'
      BY <2>2 DEF HeardInv
    <2>6. /\ Extended(inbox, inbox') /\ Len(inbox') = Len(inbox) + 1
          /\ inbox'[Len(inbox) + 1] = p /\ Len(inbox) \in Nat
      BY <1>1, <2>3, <2>5, AppendExtends DEF Extended
    <2>7. CASE h = f
      <3>1. Adds(inbox'[Len(inbox')], h) /\ Len(inbox') \in 1 .. Len(inbox')
        BY <2>4, <2>6, <2>7 DEF Adds
      <3>2. \A j \in Len(inbox') + 1 .. Len(inbox') : FALSE
        BY <2>6
      <3> QED
        BY <3>1, <3>2 DEF OnTheWay
    <2>8. CASE h # f
      <3>1. h \in OnlineFds
        BY <2>2, <2>8 DEF OnlineFds, TypeInv, WorldTypeOK
      <3>2. \A i \in Len(inbox) + 1 .. Len(inbox') : ~Removes(inbox'[i], h)
        BY <2>4, <2>6 DEF Removes
      <3> QED
        BY <1>1, <2>6, <3>1, <3>2, NewsKeeps DEF HeardInv
    <2> QED
      BY <2>7, <2>8
  <1>6. ASSUME NEW u \in Users \ {Me}, LeftUser(u)
        PROVE  HeardInv'
    <2> DEFINE f == FdOf(u)
               p == Packet("USER_LEFT", f, NoUser, NoRoom)
    <2>1. f \in Fds
      BY <1>6, FdOfHolds DEF LeftUser
    <2>2. online' = [online EXCEPT ![f] = NoUser] /\ me' = me
      BY <1>6 DEF LeftUser
    <2>3. me = "listed" => inbox' = Append(inbox, p)
      BY <1>6 DEF LeftUser, SendsMe
    <2>4. p.fd = f
      BY DEF Packet
    <2>5. p \in Whole
      BY <2>1, EmptySeq DEF Packet, Whole, Letters, MyFds
    <2> HIDE DEF p, f
    <2> SUFFICES ASSUME me = "listed", NEW h \in OnlineFds'
                 PROVE  (OnTheWay(h) \/ Noted(h))'
      BY <2>2 DEF HeardInv
    <2>6. /\ Extended(inbox, inbox') /\ Len(inbox') = Len(inbox) + 1
          /\ inbox'[Len(inbox) + 1] = p /\ Len(inbox) \in Nat
      BY <1>1, <2>3, <2>5, AppendExtends DEF Extended
    <2>7. h \in OnlineFds /\ h # f
      BY <2>1, <2>2 DEF OnlineFds, TypeInv, WorldTypeOK
    <2>8. \A i \in Len(inbox) + 1 .. Len(inbox') : ~Removes(inbox'[i], h)
      BY <2>4, <2>6, <2>7 DEF Removes
    <2> QED
      BY <1>1, <2>6, <2>7, <2>8, NewsKeeps DEF HeardInv
  <1>7. CASE OthersAct
    BY <1>2, <1>5, <1>6, <1>7, OthersAboutRooms
  <1>8. CASE Serves
    BY <1>2, <1>3, <1>4, <1>8, ServesRooms
  <1> QED
    BY <1>7, <1>8 DEF WorldStep

LEMMA HeardReceive ==
    ASSUME TypeInv, HeardInv, ReceiveThread
    PROVE  HeardInv'
  <1>1. ASSUME NEW p, inbox # <<>>, p = inbox[1], rx.pc = "recv", Take,
               \A f : Adds(p, f) =>
                 \/ f \in FdsOf(userList')
                 \/ rx'.pc = "userList" /\ \E i \in 1 .. Len(rx'.rest) : rx'.rest[i].FD = f,
               \A f \in FdsOf(userList) : Removes(p, f) \/ f \in FdsOf(userList')
        PROVE  HeardInv'
    <2>1. UNCHANGED <<online, me>> /\ inbox' = Tail(inbox)
      BY <1>1 DEF Take, serverVars
    <2> SUFFICES ASSUME me = "listed", NEW f \in OnlineFds
                 PROVE  (OnTheWay(f) \/ Noted(f))'
      BY <2>1 DEF HeardInv, OnlineFds
    <2>2. OnTheWay(f) \/ Noted(f)
      BY DEF HeardInv
    <2>3. \/ OnTheWay(f)'
          \/ /\ \A j \in 1 .. Len(inbox') : ~Removes(inbox'[j], f)
             /\ Adds(p, f) \/ (~Removes(p, f) /\ f \in FdsOf(userList))
      BY <1>1, <2>1, <2>2, NewsTaken
    <2> QED
      BY <1>1, <2>3 DEF Noted
  <1>2. ASSUME NEW type, NEW p \in Arrived(type), Take, UNCHANGED userList,
               type \notin {"USER_JOINED_SERVER", "CLIENT_LIST", "USER_LEFT"}
        PROVE  HeardInv'
    <2>1. inbox # <<>> /\ p = inbox[1] /\ p.type = type /\ rx.pc = "recv"
      BY ArrivedPacket
    <2>2. \A f : ~Adds(p, f)
      BY <1>2, <2>1 DEF Adds
    <2> QED
      BY <1>1, <1>2, <2>1, <2>2
  <1>3. CASE addJoinedUserInUserList
    <2>1. PICK p \in Arrived("USER_JOINED_SERVER") :
            AddUser([name |-> p.name, FD |-> p.fd]) /\ Take
      BY <1>3 DEF addJoinedUserInUserList
    <2>2. /\ p \in Whole /\ p.type = "USER_JOINED_SERVER" /\ inbox # <<>>
          /\ rx.pc = "recv" /\ p = inbox[1]
      BY ArrivedPacket
    <2>3. [name |-> p.name, FD |-> p.fd] \in Member
      BY <2>2 DEF Whole, Letters, Member, Client
    <2>4. FdsOf(userList') = FdsOf(userList) \cup {p.fd}
      BY <2>1, <2>3, AdditionKeeps
    <2>5. \A f : Adds(p, f) => f = p.fd
      BY <2>2 DEF Adds
    <2> QED
      BY <1>1, <2>1, <2>2, <2>4, <2>5
  <1>4. CASE receiveUserList
    <2>1. PICK p \in Arrived("CLIENT_LIST") :
            /\ rx' = [pc |-> "userList", rest |-> p.list]
            /\ Take /\ UNCHANGED userList
      BY <1>4 DEF receiveUserList
    <2>2. p.type = "CLIENT_LIST" /\ inbox # <<>> /\ rx.pc = "recv" /\ p = inbox[1]
      BY ArrivedPacket
    <2>3. rx'.pc = "userList" /\ rx'.rest = p.list
      BY <2>1
    <2>4. \A f : Adds(p, f) => \E i \in 1 .. Len(rx'.rest) : rx'.rest[i].FD = f
      BY <2>2, <2>3 DEF Adds
    <2> QED
      BY <1>1, <2>1, <2>2, <2>3, <2>4
  <1>5. CASE AddListedUser
    <2>1. /\ rx.pc = "userList" /\ AddUser(Head(rx.rest))
          /\ rx' = [pc   |-> IF Len(rx.rest) = 1 THEN "recv" ELSE "userList",
                    rest |-> Tail(rx.rest)]
          /\ UNCHANGED <<inbox, online, me>>
      BY <1>5 DEF AddListedUser, worldVars, serverVars
    <2>2. rx.rest \in Seq(Member) /\ rx.rest # <<>>
      BY <2>1 DEF TypeInv, ClientTypeOK
    <2>3. /\ Head(rx.rest) \in Member /\ Head(rx.rest) = rx.rest[1]
          /\ Len(Tail(rx.rest)) = Len(rx.rest) - 1
          /\ Len(rx.rest) \in Nat \ {0}
          /\ \A i \in 1 .. Len(rx.rest) - 1 : Tail(rx.rest)[i] = rx.rest[i + 1]
      BY <2>2, HeadTailProperties, EmptySeq
    <2>4. FdsOf(userList') = FdsOf(userList) \cup {rx.rest[1].FD}
      BY <2>1, <2>3, AdditionKeeps
    <2>5. ASSUME NEW f, Noted(f)
          PROVE  Noted(f)'
      <3>1. ASSUME NEW i \in 1 .. Len(rx.rest), rx.rest[i].FD = f
            PROVE  \/ f \in FdsOf(userList')
                   \/ rx'.pc = "userList"
                        /\ \E j \in 1 .. Len(rx'.rest) : rx'.rest[j].FD = f
        <4>1. CASE i = 1
          BY <2>4, <3>1, <4>1
        <4>2. CASE i # 1
          <5>1. /\ i - 1 \in 1 .. Len(Tail(rx.rest))
                /\ Tail(rx.rest)[i - 1] = rx.rest[i] /\ Len(rx.rest) # 1
            BY <2>3, <4>2
          <5>2. rx'.pc = "userList" /\ rx'.rest = Tail(rx.rest)
            BY <2>1, <5>1
          <5> QED
            BY <3>1, <5>1, <5>2
        <4> QED
          BY <4>1, <4>2
      <3>2. f \in FdsOf(userList) => f \in FdsOf(userList')
        BY <2>4
      <3> QED
        BY <2>1, <2>5, <3>1, <3>2 DEF Noted
    <2>6. \A f : OnTheWay(f) => OnTheWay(f)'
      BY <2>1 DEF OnTheWay
    <2> QED
      BY <2>1, <2>5, <2>6 DEF HeardInv, OnlineFds
  <1>6. CASE handleLeftUser
    <2>1. PICK p \in Arrived("USER_LEFT") :
            /\ userList' = removeClientFromClientList(userList, p.fd)
            /\ Take
      BY <1>6 DEF handleLeftUser
    <2>2. p.type = "USER_LEFT" /\ inbox # <<>> /\ rx.pc = "recv" /\ p = inbox[1]
      BY ArrivedPacket
    <2>3. \A i \in Live(userList) :
            userList.clients[i].FD # p.fd =>
              \E j \in Live(userList') :
                userList'.clients[j].FD = userList.clients[i].FD
      BY <2>1, UserRemoved
    <2>4. \A f \in FdsOf(userList) : f = p.fd \/ f \in FdsOf(userList')
      BY <2>3 DEF FdsOf
    <2>5. \A f : ~Adds(p, f) /\ (f = p.fd => Removes(p, f))
      BY <2>2 DEF Adds, Removes
    <2> QED
      BY <1>1, <2>1, <2>2, <2>4, <2>5
  <1>7. CASE receiveGroupList
    BY <1>2, <1>7 DEF receiveGroupList, ChangesGroups
  <1>8. CASE manageNewMemberInGroup
    BY <1>2, <1>8 DEF manageNewMemberInGroup, ChangesGroups
  <1>9. CASE manageKickedMember
    BY <1>2, <1>9 DEF manageKickedMember, ChangesGroups
  <1>10. CASE manageLeftGroupMember
    BY <1>2, <1>10 DEF manageLeftGroupMember
  <1>11. CASE handleDepression
    BY <1>2, <1>11 DEF handleDepression
  <1>12. CASE SetNoChat
    <2>1. UNCHANGED <<inbox, online, me, userList>> /\ rx.pc = "kicked"
      BY <1>12 DEF SetNoChat, worldVars, serverVars
    <2> QED
      BY <2>1 DEF HeardInv, OnTheWay, Noted, OnlineFds
  <1> QED
    BY <1>3, <1>4, <1>5, <1>6, <1>7, <1>8, <1>9, <1>10, <1>11, <1>12
       DEF ReceiveThread

\* The main thread changes neither the list of users nor what the receive
\* thread gets.
LEMMA MainApart ==
    ASSUME MainThread
    PROVE  UNCHANGED <<serverVars, inbox, userList, rx>>
  BY DEF MainThread, Intro, Learn, AssignChat, Back, LineToUser, LineToGroup,
     KickNowhere, Quit, chatWithUser, kickMemberAndShareOnServer,
     chatWithinGroup, createGroup, leaveGroupAndInformServer, addMember, Enter,
     Types, worldVars, serverVars

LEMMA HeardStep ==
    ASSUME TypeInv, HeardInv, [Next]_vars
    PROVE  HeardInv'
  <1>1. ASSUME UNCHANGED <<serverVars, inbox, userList, rx>>
        PROVE  HeardInv'
    BY <1>1 DEF HeardInv, OnTheWay, Noted, OnlineFds, serverVars
  <1>2. CASE MainThread
    BY <1>1, <1>2, MainApart
  <1>3. UNCHANGED vars => UNCHANGED <<serverVars, inbox, userList, rx>>
    BY DEF vars, clientVars, worldVars
  <1> QED
    BY <1>1, <1>2, <1>3, HeardWorld, HeardReceive DEF Next, Stops

\* Once everything has arrived, everybody who is connected is in the list of
\* users: the list the server sends covers those who came before Me was told of
\* others, each who comes later is told of, and no removal takes off anybody
\* but the one who has left, though descriptors are used again.
THEOREM EveryoneKnown == Spec => []NobodyMissing
  <1>1. Init => HeardInv
    BY DEF Init, WorldInit, HeardInv
  <1>2. TypeInv /\ HeardInv /\ [Next]_vars => HeardInv'
    BY HeardStep
  <1>3. HeardInv /\ TypeInv => NobodyMissing
    <2> SUFFICES ASSUME HeardInv, Drained, NEW f \in OnlineFds
                 PROVE  f \in FdsOf(userList)
      BY DEF NobodyMissing
    <2>1. me = "listed" /\ Len(inbox) = 0 /\ rx.pc = "recv"
      BY DEF Drained
    <2>2. ~OnTheWay(f)
      BY <2>1 DEF OnTheWay
    <2> QED
      BY <2>1, <2>2 DEF HeardInv, Noted
  <1> QED
    BY <1>1, <1>2, <1>3, ClientTyped, PTL DEF Spec

----------------------------------------------------------------------------
(* Entries are true: everywhere, those in packets too. *)

\* TrueEntry, and nobody else is at the descriptor of Me, when who are connected
\* and past are those that have come.
Faithful(who, past, entry) ==
    /\ \/ entry.name \in {Me, Freed}
       \/ entry.name \in past /\ \A f \in Fds : who[f] # entry.name
       \/ entry.FD \in Fds /\ who[entry.FD] = entry.name
    /\ (entry.FD \in Fds /\ who[entry.FD] = Me) => entry.name \in {Me, Freed}

ListFaithful(who, past, list) ==
    \A i \in 1 .. list.size : Faithful(who, past, list.clients[i])

EntriesFaithful(who, past, entries) ==
    \A i \in 1 .. Len(entries) : Faithful(who, past, entries[i])

PacketFaithful(who, past, p) ==
    /\ p.type \in {"USER_JOINED_SERVER", "JOIN_ROOM"} =>
         Faithful(who, past, [name |-> p.name, FD |-> p.fd])
    /\ EntriesFaithful(who, past, p.list)

QueueFaithful(who, past, queue) ==
    \A k \in 1 .. Len(queue) : PacketFaithful(who, past, queue[k])

RoomsFaithful(who, past, list) ==
    \A g \in 1 .. Len(list) : EntriesFaithful(who, past, list[g].members)

GroupsFaithful(who, past, list) ==
    \A g \in 1 .. Len(list) : ListFaithful(who, past, list[g].members)

\* Nobody is connected twice, and who is has come.
EachOnce ==
    /\ \A f, h \in Fds : (online[f] = online[h] /\ online[f] # NoUser) => f = h
    /\ \A f \in Fds : online[f] # NoUser => online[f] \in been

WorldFaithful(who, past) ==
    /\ QueueFaithful(who, past, inbox) /\ QueueFaithful(who, past, outbox)
    /\ RoomsFaithful(who, past, rooms)

HeldFaithful(who, past) ==
    /\ ListFaithful(who, past, userList)
    /\ GroupsFaithful(who, past, groupList)
    /\ EntriesFaithful(who, past, rx.rest)

FaithfulInv ==
    /\ EachOnce
    /\ WorldFaithful(online, been) /\ HeldFaithful(online, been)

\* Entries of users stay faithful when the users connected change like this.
Keeps(who, past, who2, past2) ==
    \A entry : (entry.name \in Users \cup {Freed} /\ Faithful(who, past, entry))
                  => Faithful(who2, past2, entry)

LEMMA AllKept ==
    ASSUME TypeInv, NEW who, NEW past, NEW who2, NEW past2,
           Keeps(who, past, who2, past2),
           WorldFaithful(who, past), HeldFaithful(who, past)
    PROVE  WorldFaithful(who2, past2) /\ HeldFaithful(who2, past2)
  <1>1. \A list \in Seq(Listed) :
          EntriesFaithful(who, past, list) => EntriesFaithful(who2, past2, list)
    <2>1. ASSUME NEW list \in Seq(Listed), NEW i \in 1 .. Len(list)
          PROVE  list[i].name \in Users
      <3>1. list[i] \in Listed
        BY ElementOfSeq
      <3> QED
        BY <3>1 DEF Listed
    <2> QED
      BY <2>1 DEF EntriesFaithful, Keeps
  <1>2. \A list \in SizedList :
          ListFaithful(who, past, list) => ListFaithful(who2, past2, list)
    <2>1. ASSUME NEW list \in SizedList, NEW i \in 1 .. list.size
          PROVE  list.clients[i].name \in Users \cup {Freed}
      <3>1. /\ list.clients \in Seq(Member) /\ list.size \in Nat
            /\ Len(list.clients) \in Nat /\ list.size <= Len(list.clients)
        BY LenProperties DEF SizedList, ClientList, Member
      <3>2. i \in 1 .. Len(list.clients)
        BY <3>1
      <3>3. list.clients[i] \in Member
        BY <3>1, <3>2, ElementOfSeq
      <3> QED
        BY <3>3 DEF Member, Client
    <2> QED
      BY <2>1 DEF ListFaithful, Keeps
  <1>3. \A queue \in Seq(Whole) :
          QueueFaithful(who, past, queue) => QueueFaithful(who2, past2, queue)
    <2>1. ASSUME NEW p \in Whole, PacketFaithful(who, past, p)
          PROVE  PacketFaithful(who2, past2, p)
      <3>1. /\ p.list \in Seq(Listed)
            /\ p.type \in {"USER_JOINED_SERVER", "JOIN_ROOM"} => p.name \in Users
        BY DEF Whole, Letters
      <3>2. EntriesFaithful(who2, past2, p.list)
        BY <1>1, <2>1, <3>1 DEF PacketFaithful
      <3>3. ASSUME p.type \in {"USER_JOINED_SERVER", "JOIN_ROOM"}
            PROVE  Faithful(who2, past2, [name |-> p.name, FD |-> p.fd])
        <4> DEFINE entry == [name |-> p.name, FD |-> p.fd]
        <4>1. Faithful(who, past, entry)
          BY <2>1, <3>3 DEF PacketFaithful
        <4>2. entry.name \in Users \cup {Freed}
          BY <3>1, <3>3
        <4> HIDE DEF entry
        <4>3. Faithful(who2, past2, entry)
          BY <4>1, <4>2 DEF Keeps
        <4> QED
          BY <4>3 DEF entry
      <3> QED
        BY <3>2, <3>3 DEF PacketFaithful
    <2>2. \A queue \in Seq(Whole) : \A k \in 1 .. Len(queue) : queue[k] \in Whole
      BY ElementOfSeq
    <2> QED
      BY <2>1, <2>2 DEF QueueFaithful
  <1>4. RoomsFaithful(who2, past2, rooms)
    <2>1. ASSUME NEW g \in 1 .. Len(rooms)
          PROVE  rooms[g].members \in Seq(Listed)
      <3>1. rooms \in Seq(Room)
        BY DEF TypeInv, WorldTypeOK, Room
      <3>2. rooms[g] \in Room
        BY <3>1, ElementOfSeq
      <3> QED
        BY <3>2 DEF Room
    <2> QED
      BY <1>1, <2>1 DEF RoomsFaithful, WorldFaithful
  <1>5. GroupsFaithful(who2, past2, groupList)
    <2>1. \A g \in 1 .. Len(groupList) : groupList[g].members \in SizedList
      BY ElementOfSeq DEF TypeInv, SizedGroup
    <2> QED
      BY <1>2, <2>1 DEF GroupsFaithful, HeldFaithful
  <1>6. EntriesFaithful(who2, past2, rx.rest)
    <2>1. ASSUME NEW i \in 1 .. Len(rx.rest)
          PROVE  rx.rest[i].name \in Users \cup {Freed}
      <3>1. rx.rest \in Seq(Member)
        BY DEF TypeInv, ClientTypeOK
      <3>2. rx.rest[i] \in Member
        BY <3>1, ElementOfSeq
      <3> QED
        BY <3>2 DEF Member, Client
    <2> QED
      BY <2>1 DEF EntriesFaithful, HeldFaithful, Keeps
  <1> QED
    BY <1>2, <1>3, <1>4, <1>5, <1>6
       DEF WorldFaithful, HeldFaithful, TypeInv, WorldTypeOK

LEMMA AppendFaithful ==
    ASSUME NEW who, NEW past, NEW queue \in Seq(Whole), NEW p \in Whole,
           QueueFaithful(who, past, queue), PacketFaithful(who, past, p)
    PROVE  QueueFaithful(who, past, Append(queue, p))
  <1>1. /\ Len(queue) \in Nat /\ Len(Append(queue, p)) = Len(queue) + 1
        /\ \A i \in 1 .. Len(queue) : Append(queue, p)[i] = queue[i]
        /\ Append(queue, p)[Len(queue) + 1] = p
    BY AppendProperties
  <1> QED
    BY <1>1 DEF QueueFaithful

LEMMA TailFaithful ==
    ASSUME NEW who, NEW past, NEW queue \in Seq(Whole), queue # <<>>,
           QueueFaithful(who, past, queue)
    PROVE  /\ QueueFaithful(who, past, Tail(queue))
           /\ PacketFaithful(who, past, Head(queue))
  BY FirstTaken DEF QueueFaithful

LEMMA BlankFaithful ==
    ASSUME NEW who, NEW past, NEW type, NEW fd, NEW name, NEW room,
           type \notin {"USER_JOINED_SERVER", "JOIN_ROOM"}
    PROVE  PacketFaithful(who, past, Packet(type, fd, name, room))
  <1>1. Len(<<>>) = 0
    BY EmptySeq
  <1> QED
    BY <1>1 DEF Packet, PacketFaithful, EntriesFaithful

LEMMA FaithfulCome ==
    ASSUME TypeInv, FaithfulInv, NEW u \in Users \ {Me}, NewUser(u)
    PROVE  UNCHANGED clientVars => FaithfulInv'
  <1> USE ClientWorldAssumption
  <1> DEFINE f == Lowest(Fds \ OnlineFds)
             p == Packet("USER_JOINED_SERVER", f, u, NoRoom)
  <1>1. f \in Fds /\ online[f] = NoUser
    <2>1. Fds \ OnlineFds # {} /\ Fds \ OnlineFds \subseteq Nat
      BY DEF NewUser, OnlineFds
    <2>2. f \in Fds \ OnlineFds
      BY <2>1, LowestHolds
    <2> QED
      BY <2>2 DEF OnlineFds
  <1>2. /\ online' = [online EXCEPT ![f] = u] /\ been' = been \cup {u}
        /\ u \notin been /\ inbox' \in {inbox, Append(inbox, p)}
        /\ UNCHANGED <<rooms, outbox>>
    BY DEF NewUser, SendsMe
  <1>3. p \in Whole
    BY <1>1, EmptySeq DEF Packet, Whole, Letters, MyFds
  <1>4. p.type = "USER_JOINED_SERVER" /\ p.fd = f /\ p.name = u /\ p.list = <<>>
    BY DEF Packet
  <1> HIDE DEF f, p
  <1>5. /\ online \in [Fds -> Users \cup {NoUser}] /\ been \subseteq Users
        /\ inbox \in Seq(Whole)
    BY DEF TypeInv, WorldTypeOK
  <1>6. Keeps(online, been, online', been')
    <2> SUFFICES ASSUME NEW entry, entry.name \in Users \cup {Freed},
                        Faithful(online, been, entry)
                 PROVE  Faithful(online', been', entry)
      BY DEF Keeps
    <2>1. (entry.FD \in Fds /\ online'[entry.FD] = Me) =>
            entry.name \in {Me, Freed}
      BY <1>1, <1>2, <1>5 DEF Faithful
    <2>2. CASE entry.name \in {Me, Freed}
      BY <2>1, <2>2 DEF Faithful
    <2>3. CASE entry.name \in been /\ \A h \in Fds : online[h] # entry.name
      <3>1. \A h \in Fds : online'[h] # entry.name
        BY <1>1, <1>2, <1>5, <2>3
      <3> QED
        BY <1>2, <2>1, <2>3, <3>1 DEF Faithful
    <2>4. CASE entry.FD \in Fds /\ online[entry.FD] = entry.name
      <3>1. entry.name \in Users => entry.FD # f
        BY <1>1, <2>4
      <3>2. entry.name \in Users => online'[entry.FD] = entry.name
        BY <1>1, <1>2, <1>5, <2>4, <3>1
      <3> QED
        BY <2>1, <2>2, <2>4, <3>2 DEF Faithful
    <2> QED
      BY <2>2, <2>3, <2>4 DEF Faithful
  <1>7. /\ WorldFaithful(online', been') /\ HeldFaithful(online', been')
    BY <1>6, AllKept DEF FaithfulInv
  <1>8. PacketFaithful(online', been', p)
    <2> DEFINE entry == [name |-> u, FD |-> f]
    <2>1. entry.name = u /\ entry.FD = f /\ online'[f] = u /\ u # Me
      BY <1>1, <1>2, <1>5
    <2> HIDE DEF entry
    <2>2. Faithful(online', been', entry)
      BY <1>1, <2>1 DEF Faithful
    <2>3. Len(<<>>) = 0
      BY EmptySeq
    <2> QED
      BY <1>4, <2>2, <2>3 DEF PacketFaithful, EntriesFaithful, entry
  <1>9. QueueFaithful(online', been', inbox')
    <2>1. QueueFaithful(online', been', inbox)
      BY <1>7 DEF WorldFaithful
    <2>2. QueueFaithful(online', been', Append(inbox, p))
      BY <1>3, <1>5, <1>8, <2>1, AppendFaithful
    <2> QED
      BY <1>2, <2>1, <2>2
  <1>10. EachOnce'
    <2>1. ASSUME NEW g \in Fds, online'[g] # NoUser
          PROVE  online'[g] \in been'
      BY <1>1, <1>2, <1>5, <2>1 DEF FaithfulInv, EachOnce
    <2>2. ASSUME NEW g \in Fds, NEW h \in Fds, online'[g] = online'[h],
                 online'[g] # NoUser
          PROVE  g = h
      <3>1. \A x \in Fds : online[x] # u
        BY <1>2 DEF FaithfulInv, EachOnce
      <3> QED
        BY <1>1, <1>2, <1>5, <2>2, <3>1 DEF FaithfulInv, EachOnce
    <2> QED
      BY <2>1, <2>2 DEF EachOnce
  <1> QED
    BY <1>2, <1>7, <1>9, <1>10
       DEF FaithfulInv, WorldFaithful, HeldFaithful, clientVars

LEMMA FaithfulGo ==
    ASSUME TypeInv, FaithfulInv, NEW u \in Users \ {Me}, LeftUser(u)
    PROVE  UNCHANGED clientVars => FaithfulInv'
  <1> USE ClientWorldAssumption
  <1> DEFINE f == FdOf(u)
             p == Packet("USER_LEFT", f, NoUser, NoRoom)
  <1>1. f \in Fds /\ online[f] = u
    BY FdOfHolds DEF LeftUser
  <1>2. /\ online' = [online EXCEPT ![f] = NoUser]
        /\ inbox' \in {inbox, Append(inbox, p)}
        /\ UNCHANGED <<been, rooms, outbox>>
    BY DEF LeftUser, SendsMe
  <1>3. p \in Whole /\ \A who, past : PacketFaithful(who, past, p)
    BY <1>1, BlankFaithful, EmptySeq DEF Packet, Whole, Letters, MyFds
  <1> HIDE DEF f, p
  <1>4. /\ online \in [Fds -> Users \cup {NoUser}] /\ been \subseteq Users
        /\ inbox \in Seq(Whole)
    BY DEF TypeInv, WorldTypeOK
  <1>5. u \in been /\ \A h \in Fds : online'[h] # u
    BY <1>1, <1>2, <1>4 DEF FaithfulInv, EachOnce
  <1>6. Keeps(online, been, online', been')
    <2> SUFFICES ASSUME NEW entry, entry.name \in Users \cup {Freed},
                        Faithful(online, been, entry)
                 PROVE  Faithful(online', been', entry)
      BY DEF Keeps
    <2>1. (entry.FD \in Fds /\ online'[entry.FD] = Me) =>
            entry.name \in {Me, Freed}
      BY <1>1, <1>2, <1>4 DEF Faithful
    <2>2. CASE entry.name \in {Me, Freed}
      BY <2>1, <2>2 DEF Faithful
    <2>3. CASE entry.name \in Users /\ entry.name \in been
               /\ \A h \in Fds : online[h] # entry.name
      <3>1. \A h \in Fds : online'[h] # entry.name
        BY <1>1, <1>2, <1>4, <2>3
      <3> QED
        BY <1>2, <2>1, <2>3, <3>1 DEF Faithful
    <2>4. CASE entry.FD \in Fds /\ online[entry.FD] = entry.name
      <3>1. CASE entry.FD = f
        BY <1>1, <1>2, <1>5, <2>1, <2>4, <3>1 DEF Faithful
      <3>2. CASE entry.FD # f
        <4>1. online'[entry.FD] = entry.name
          BY <1>1, <1>2, <1>4, <2>4, <3>2
        <4> QED
          BY <2>1, <2>4, <4>1 DEF Faithful
      <3> QED
        BY <3>1, <3>2
    <2> QED
      BY <2>2, <2>3, <2>4 DEF Faithful
  <1>7. /\ WorldFaithful(online', been') /\ HeldFaithful(online', been')
    BY <1>6, AllKept DEF FaithfulInv
  <1>8. QueueFaithful(online', been', inbox')
    <2>1. QueueFaithful(online', been', inbox)
      BY <1>7 DEF WorldFaithful
    <2>2. QueueFaithful(online', been', Append(inbox, p))
      BY <1>3, <1>4, <2>1, AppendFaithful
    <2> QED
      BY <1>2, <2>1, <2>2
  <1>9. EachOnce'
    BY <1>1, <1>2, <1>4 DEF FaithfulInv, EachOnce
  <1> QED
    BY <1>2, <1>7, <1>8, <1>9
       DEF FaithfulInv, WorldFaithful, HeldFaithful, clientVars

\* The members of a room, with another one or without one.
LEMMA MembersFaithful ==
    ASSUME TypeInv, FaithfulInv, NEW g \in DOMAIN rooms
    PROVE  /\ \A entry \in Listed :
                Faithful(online, been, entry) =>
                  RoomsFaithful(online, been, WithMember(g, entry))
           /\ \A fd : RoomsFaithful(online, been, WithoutMember(g, fd))
  <1>1. /\ g \in 1 .. Len(rooms)
        /\ \A h \in 1 .. Len(rooms) : EntriesFaithful(online, been, rooms[h].members)
    BY DEF FaithfulInv, WorldFaithful, RoomsFaithful, TypeInv, WorldTypeOK
  <1>2. rooms[g].members \in Seq(Listed)
    BY RoomTyped DEF Room
  <1>3. ASSUME NEW entry \in Listed, Faithful(online, been, entry)
        PROVE  RoomsFaithful(online, been, WithMember(g, entry))
    <2> DEFINE new == WithMember(g, entry)
    <2>1. /\ Len(new) = Len(rooms)
          /\ \A h \in 1 .. Len(rooms) : h # g => new[h] = rooms[h]
          /\ new[g].members = Append(rooms[g].members, entry)
      BY MemberAdded
    <2> HIDE DEF new
    <2>2. EntriesFaithful(online, been, new[g].members)
      BY <1>1, <1>2, <1>3, <2>1 DEF EntriesFaithful
    <2>3. RoomsFaithful(online, been, new)
      BY <1>1, <2>1, <2>2 DEF RoomsFaithful
    <2> QED
      BY <2>3 DEF new
  <1>4. ASSUME NEW fd
        PROVE  RoomsFaithful(online, been, WithoutMember(g, fd))
    <2> DEFINE new == WithoutMember(g, fd)
    <2>1. /\ new \in Seq(Room) /\ Len(new) = Len(rooms)
          /\ \A h \in 1 .. Len(rooms) : h # g => new[h] = rooms[h]
          /\ \A i \in DOMAIN new[g].members :
               \E j \in DOMAIN rooms[g].members :
                 new[g].members[i] = rooms[g].members[j]
      BY MemberRemoved
    <2> HIDE DEF new
    <2>2. new[g].members \in Seq(Listed)
      <3>1. new[g] \in Room
        BY <1>1, <2>1, ElementOfSeq
      <3> QED
        BY <3>1 DEF Room
    <2>3. EntriesFaithful(online, been, new[g].members)
      <3>1. /\ DOMAIN new[g].members = 1 .. Len(new[g].members)
            /\ DOMAIN rooms[g].members = 1 .. Len(rooms[g].members)
        BY <1>2, <2>2, LenProperties
      <3> QED
        BY <1>1, <2>1, <3>1 DEF EntriesFaithful
    <2>4. RoomsFaithful(online, been, new)
      BY <1>1, <2>1, <2>3 DEF RoomsFaithful
    <2> QED
      BY <2>4 DEF new
  <1> QED
    BY <1>3, <1>4

LEMMA NewMemberFaithful ==
    ASSUME TypeInv, FaithfulInv, NEW g \in DOMAIN rooms, NEW u \in Users,
           NEW fd \in MyFds, NewMember(g, u, fd),
           Faithful(online, been, [name |-> u, FD |-> fd])
    PROVE  /\ RoomsFaithful(online, been, rooms')
           /\ QueueFaithful(online, been, inbox')
  <1> DEFINE entry == [name |-> u, FD |-> fd]
             gl == Packet("GROUP_LIST", NoFd, rooms[g].admin, rooms[g].name)
             list == [gl EXCEPT !.list = rooms'[g].members]
             joined == Packet("JOIN_ROOM", fd, u, rooms[g].name)
  <1>1. rooms' = WithMember(g, entry) /\ entry \in Listed
    BY DEF NewMember, Listed
  <1>2. /\ rooms' \in Seq(Room) /\ Len(rooms') = Len(rooms)
        /\ rooms'[g].members = Append(rooms[g].members, entry)
    BY <1>1, MemberAdded
  <1>3. RoomsFaithful(online, been, rooms')
    BY <1>1, MembersFaithful
  <1>4. EntriesFaithful(online, been, rooms'[g].members)
    <2>1. g \in 1 .. Len(rooms')
      BY <1>2 DEF TypeInv, WorldTypeOK
    <2> QED
      BY <1>3, <2>1 DEF RoomsFaithful
  <1>5. /\ rooms[g] \in Room /\ rooms'[g].members \in Seq(Listed)
    <2>1. rooms[g] \in Room /\ g \in 1 .. Len(rooms)
      BY RoomTyped DEF TypeInv, WorldTypeOK
    <2>2. rooms'[g] \in Room
      BY <1>2, <2>1, ElementOfSeq
    <2> QED
      BY <2>1, <2>2 DEF Room
  <1>6. list \in Whole /\ joined \in Whole
    BY <1>5, EmptySeq DEF Packet, Whole, Letters, MyFds, Room
  <1>7. list.type = "GROUP_LIST" /\ list.list = rooms'[g].members
    BY DEF Packet
  <1>8. PacketFaithful(online, been, list)
    <2> HIDE DEF list
    <2> QED
      BY <1>4, <1>7 DEF PacketFaithful
  <1>9. PacketFaithful(online, been, joined)
    <2>1. Len(<<>>) = 0
      BY EmptySeq
    <2> QED
      BY <2>1 DEF PacketFaithful, Packet, EntriesFaithful
  <1>10. inbox' \in {inbox, Append(inbox, list), Append(inbox, joined)}
    BY DEF NewMember, TellsMe, SendsMe
  <1>11. inbox \in Seq(Whole) /\ QueueFaithful(online, been, inbox)
    BY DEF TypeInv, WorldTypeOK, FaithfulInv, WorldFaithful
  <1> HIDE DEF list, joined, entry, gl
  <1>12. /\ QueueFaithful(online, been, Append(inbox, list))
         /\ QueueFaithful(online, been, Append(inbox, joined))
    BY <1>6, <1>8, <1>9, <1>11, AppendFaithful
  <1> QED
    BY <1>3, <1>10, <1>11, <1>12

LEMMA LeftMemberFaithful ==
    ASSUME TypeInv, FaithfulInv, NEW g \in DOMAIN rooms, NEW u \in Users,
           NEW fd \in MyFds, LeftMember(g, u, fd)
    PROVE  /\ RoomsFaithful(online, been, rooms')
           /\ QueueFaithful(online, been, inbox')
  <1> DEFINE p == Packet("LEAVE_ROOM", fd, u, rooms[g].name)
  <1>1. rooms[g].name \in Rooms
    BY RoomTyped DEF Room
  <1>2. p \in Whole /\ PacketFaithful(online, been, p)
    BY <1>1, BlankFaithful, EmptySeq DEF Packet, Whole, Letters
  <1>3. /\ rooms' = WithoutMember(g, fd) /\ inbox' \in {inbox, Append(inbox, p)}
    BY DEF LeftMember, TellsMe
  <1>4. inbox \in Seq(Whole) /\ QueueFaithful(online, been, inbox)
    BY DEF TypeInv, WorldTypeOK, FaithfulInv, WorldFaithful
  <1> HIDE DEF p
  <1>5. QueueFaithful(online, been, Append(inbox, p))
    BY <1>2, <1>4, AppendFaithful
  <1> QED
    BY <1>3, <1>4, <1>5, MembersFaithful

LEMMA KickedMemberFaithful ==
    ASSUME TypeInv, FaithfulInv, NEW g \in DOMAIN rooms, NEW u \in Users,
           NEW fd \in MyFds, NEW by, KickedMember(g, u, fd, by)
    PROVE  /\ RoomsFaithful(online, been, rooms')
           /\ QueueFaithful(online, been, inbox')
  <1> DEFINE p == Packet("KICK_GROUP_MEMBER", fd, u, rooms[g].name)
             kicked == Packet("KICKED", NoFd, NoUser, rooms[g].name)
             n == Cardinality(Holding(g, fd))
             told == [i \in 1 .. n |-> kicked]
  <1>1. rooms[g].name \in Rooms
    BY RoomTyped DEF Room
  <1>2. /\ p \in Whole /\ PacketFaithful(online, been, p)
        /\ kicked \in Whole /\ PacketFaithful(online, been, kicked)
    BY <1>1, BlankFaithful, EmptySeq DEF Packet, Whole, Letters, MyFds
  <1>3. /\ rooms' \in {rooms, WithoutMember(g, fd)}
        /\ inbox' \in {inbox, Append(inbox, p), inbox \o told}
    BY DEF KickedMember
  <1>4. /\ inbox \in Seq(Whole) /\ Len(inbox) \in Nat
        /\ QueueFaithful(online, been, inbox) /\ RoomsFaithful(online, been, rooms)
    BY DEF TypeInv, WorldTypeOK, FaithfulInv, WorldFaithful
  <1>5. n \in Nat
    BY HoldingFinite
  <1> HIDE DEF p, kicked, n
  <1>6. told \in Seq(Whole) /\ Len(told) = n /\ \A i \in 1 .. n : told[i] = kicked
    BY <1>2, <1>5
  <1> HIDE DEF told
  <1>7. QueueFaithful(online, been, inbox \o told)
    <2>1. /\ Len(inbox \o told) = Len(inbox) + n
          /\ \A i \in 1 .. Len(inbox) + n :
               (inbox \o told)[i] = IF i <= Len(inbox) THEN inbox[i]
                                                       ELSE told[i - Len(inbox)]
      BY <1>4, <1>6, ConcatProperties
    <2>2. ASSUME NEW i \in 1 .. Len(inbox) + n
          PROVE  PacketFaithful(online, been, (inbox \o told)[i])
      <3>1. CASE i <= Len(inbox)
        BY <1>4, <2>1, <3>1 DEF QueueFaithful
      <3>2. CASE ~(i <= Len(inbox))
        <4>1. i - Len(inbox) \in 1 .. n
          BY <1>4, <1>5, <3>2
        <4>2. (inbox \o told)[i] = kicked
          BY <1>6, <2>1, <3>2, <4>1
        <4> QED
          BY <1>2, <4>2
      <3> QED
        BY <3>1, <3>2
    <2> QED
      BY <2>1, <2>2 DEF QueueFaithful
  <1>8. QueueFaithful(online, been, Append(inbox, p))
    BY <1>2, <1>4, AppendFaithful
  <1>9. RoomsFaithful(online, been, WithoutMember(g, fd))
    BY MembersFaithful
  <1> QED
    BY <1>3, <1>4, <1>7, <1>8, <1>9

\* Entries of who is connected now, and of Me, are faithful.
LEMMA OnlineFaithful ==
    ASSUME TypeInv, FaithfulInv
    PROVE  /\ \A f \in Fds : online[f] # NoUser =>
                Faithful(online, been, [name |-> online[f], FD |-> f])
           /\ \A f : Faithful(online, been, [name |-> Me, FD |-> f])
  BY DEF Faithful

LEMMA FaithfulWorld ==
    ASSUME TypeInv, FaithfulInv, WorldStep
    PROVE  FaithfulInv'
  <1> USE ClientWorldAssumption
  <1>1. /\ UNCHANGED clientVars
        /\ inbox \in Seq(Whole) /\ outbox \in Seq(Whole)
        /\ QueueFaithful(online, been, inbox) /\ QueueFaithful(online, been, outbox)
        /\ RoomsFaithful(online, been, rooms) /\ EachOnce
    BY DEF WorldStep, TypeInv, WorldTypeOK, FaithfulInv, WorldFaithful
  <1>2. ASSUME UNCHANGED <<online, been>>,
               RoomsFaithful(online, been, rooms'),
               QueueFaithful(online, been, inbox'),
               QueueFaithful(online, been, outbox')
        PROVE  FaithfulInv'
    BY <1>1, <1>2 DEF FaithfulInv, WorldFaithful, HeldFaithful, clientVars, EachOnce
  <1>3. ASSUME NEW u \in Users, IsOnline(u)
        PROVE  /\ FdOf(u) \in MyFds
               /\ Faithful(online, been, [name |-> u, FD |-> FdOf(u)])
    <2>1. FdOf(u) \in Fds /\ online[FdOf(u)] = u
      BY <1>3, FdOfHolds
    <2> QED
      BY <2>1, OnlineFaithful DEF MyFds
  <1>4. CASE OthersAct
    <2>1. ASSUME NEW u \in Users \ {Me}, NewUser(u) \/ LeftUser(u)
          PROVE  FaithfulInv'
      BY <1>1, <2>1, FaithfulCome, FaithfulGo
    <2>2. ASSUME NEW g \in DOMAIN rooms, UNCHANGED <<online, been, me, outbox>>,
                 InvitesMe(g)
          PROVE  FaithfulInv'
      <3>1. NewMember(g, Me, FdOf(Me)) /\ IsOnline(Me)
        BY <2>2 DEF InvitesMe, TypeInv, WorldTypeOK
      <3>2. RoomsFaithful(online, been, rooms') /\ QueueFaithful(online, been, inbox')
        BY <1>3, <3>1, NewMemberFaithful
      <3> QED
        BY <1>1, <1>2, <2>2, <3>2
    <2>3. ASSUME NEW g \in DOMAIN rooms, UNCHANGED <<online, been, me, outbox>>,
                 NEW u \in Users, Invites(g, u) \/ Leaves(g, u) \/ Kicks(g, u)
          PROVE  FaithfulInv'
      <3>1. IsOnline(u)
        BY <2>3 DEF Invites, Leaves, Kicks
      <3>2. RoomsFaithful(online, been, rooms') /\ QueueFaithful(online, been, inbox')
        BY <1>3, <2>3, <3>1, NewMemberFaithful, LeftMemberFaithful,
           KickedMemberFaithful DEF Invites, Leaves, Kicks
      <3> QED
        BY <1>1, <1>2, <2>3, <3>2
    <2> QED
      BY <1>4, <2>1, <2>2, <2>3 DEF OthersAct
  <1>5. CASE IntroduceMe
    <2>1. QueueFaithful(online, been, outbox')
      BY <1>1, <1>5, TailFaithful DEF IntroduceMe
    <2> QED
      BY <1>1, <1>2, <1>5, <2>1 DEF IntroduceMe
  <1>6. CASE SendListToMe
    <2> DEFINE fds == SetToSeq(OnlineFds)
               list == [i \in DOMAIN fds |-> Entry(fds[i])]
               blank == Packet("CLIENT_LIST", NoFd, Me, NoRoom)
               p == [blank EXCEPT !.list = list]
    <2>1. inbox' = Append(inbox, p)
      BY <1>6 DEF SendListToMe, SendsMe
    <2>2. p.type = "CLIENT_LIST" /\ p.list = list
      BY DEF Packet
    <2>3. IsFiniteSet(OnlineFds)
      BY FS_Subset DEF OnlineFds
    <2>4. fds \in Seq(OnlineFds) /\ Len(fds) \in Nat /\ DOMAIN fds = 1 .. Len(fds)
      BY <2>3, EveryoneListed, LenProperties
    <2> HIDE DEF fds
    <2>5. ASSUME NEW i \in 1 .. Len(fds)
          PROVE  Entry(fds[i]) \in Listed /\ Faithful(online, been, Entry(fds[i]))
      <3>1. fds[i] \in Fds /\ online[fds[i]] # NoUser
        BY <2>4, ElementOfSeq DEF OnlineFds
      <3>2. online[fds[i]] \in Users
        BY <3>1 DEF TypeInv, WorldTypeOK
      <3>3. Entry(fds[i]) \in Listed
        BY <3>1, <3>2 DEF Entry, Listed, MyFds
      <3>4. Faithful(online, been, [name |-> online[fds[i]], FD |-> fds[i]])
        BY <3>1, OnlineFaithful
      <3> QED
        BY <3>3, <3>4 DEF Entry
    <2>6. list \in Seq(Listed) /\ Len(list) = Len(fds)
          /\ \A i \in 1 .. Len(fds) : list[i] = Entry(fds[i])
      BY <2>4, <2>5
    <2>7. \E i \in 1 .. Len(fds) : TRUE
      <3>1. FdOf(Me) \in OnlineFds
        BY MyDescriptor DEF OnlineFds
      <3> QED
        BY <2>3, <3>1, EveryoneListed DEF fds
    <2> HIDE DEF list
    <2>8. EntriesFaithful(online, been, list)
      BY <2>5, <2>6 DEF EntriesFaithful
    <2>9. p \in Whole
      <3>1. list # <<>>
        BY <2>6, <2>7, EmptySeq
      <3> QED
        BY <2>6, <3>1 DEF Packet, Whole, Letters, MyFds
    <2> HIDE DEF p, blank
    <2>10. PacketFaithful(online, been, p)
      BY <2>2, <2>8 DEF PacketFaithful
    <2>11. QueueFaithful(online, been, Append(inbox, p))
      BY <1>1, <2>9, <2>10, AppendFaithful
    <2> QED
      BY <1>1, <1>2, <1>6, <2>1, <2>11 DEF SendListToMe
  <1>7. ASSUME NEW type, ServeNext(type)
        PROVE  /\ UNCHANGED <<online, been>> /\ Head(outbox).type = type
               /\ QueueFaithful(online, been, outbox')
               /\ PacketFaithful(online, been, Head(outbox))
               /\ Head(outbox) \in Whole /\ Head(outbox).fd \in MyFds
    BY <1>1, <1>7, TailFaithful, FirstTaken DEF ServeNext, Whole, Letters
  <1>8. CASE ServeCreateRoom
    <2> DEFINE entry == [name |-> Me, FD |-> FdOf(Me)]
               room == [name |-> Head(outbox).room, admin |-> Me,
                        members |-> <<entry>>]
    <2>1. rooms' = Append(rooms, room) /\ inbox' = inbox
      BY <1>8 DEF ServeCreateRoom
    <2>2. Faithful(online, been, entry)
      BY OnlineFaithful
    <2>3. EntriesFaithful(online, been, room.members)
      <3>1. Len(<<entry>>) = 1 /\ <<entry>>[1] = entry
        OBVIOUS
      <3> QED
        BY <2>2, <3>1 DEF EntriesFaithful
    <2> HIDE DEF room
    <2>4. rooms \in Seq(Room)
      BY DEF TypeInv, WorldTypeOK, Room
    <2>5. /\ Len(rooms') = Len(rooms) + 1 /\ Len(rooms) \in Nat
          /\ \A g \in 1 .. Len(rooms) : rooms'[g] = rooms[g]
          /\ rooms'[Len(rooms) + 1] = room
      BY <2>1, <2>4
    <2>6. RoomsFaithful(online, been, rooms')
      BY <1>1, <2>3, <2>5 DEF RoomsFaithful
    <2> QED
      BY <1>1, <1>2, <1>7, <1>8, <2>1, <2>6 DEF ServeCreateRoom
  <1>9. CASE ServeJoinRoom
    <2>1. PICK g \in DOMAIN rooms : NewMember(g, Head(outbox).name, Head(outbox).fd)
      BY <1>9 DEF ServeJoinRoom, Numbers
    <2>2. ServeNext("JOIN_ROOM")
      BY <1>9 DEF ServeJoinRoom
    <2>3. Head(outbox).name \in Users
      BY <1>7, <2>2 DEF Whole
    <2>4. Faithful(online, been, [name |-> Head(outbox).name, FD |-> Head(outbox).fd])
      BY <1>7, <2>2 DEF PacketFaithful
    <2>5. RoomsFaithful(online, been, rooms') /\ QueueFaithful(online, been, inbox')
      BY <1>7, <2>1, <2>2, <2>3, <2>4, NewMemberFaithful
    <2> QED
      BY <1>2, <1>7, <2>2, <2>5
  <1>10. CASE ServeKick
    <2>1. PICK g \in DOMAIN rooms :
            KickedMember(g, Head(outbox).name, Head(outbox).fd, Me)
      BY <1>10 DEF ServeKick, Numbers
    <2>2. ServeNext("KICK_GROUP_MEMBER")
      BY <1>10 DEF ServeKick
    <2>3. Head(outbox).name \in Users
      BY <1>7, <2>2 DEF Whole
    <2>4. RoomsFaithful(online, been, rooms') /\ QueueFaithful(online, been, inbox')
      BY <1>7, <2>1, <2>2, <2>3, KickedMemberFaithful
    <2> QED
      BY <1>2, <1>7, <2>2, <2>4
  <1>11. CASE ServeLeaveRoom
    <2>1. PICK g \in DOMAIN rooms : LeftMember(g, Me, Head(outbox).fd)
      BY <1>11 DEF ServeLeaveRoom, Numbers
    <2>2. ServeNext("LEAVE_ROOM")
      BY <1>11 DEF ServeLeaveRoom
    <2>3. RoomsFaithful(online, been, rooms') /\ QueueFaithful(online, been, inbox')
      BY <1>7, <2>1, <2>2, LeftMemberFaithful
    <2> QED
      BY <1>2, <1>7, <2>2, <2>3
  <1>12. CASE ServeOther
    BY <1>1, <1>2, <1>7, <1>12 DEF ServeOther
  <1> QED
    BY <1>4, <1>5, <1>6, <1>8, <1>9, <1>10, <1>11, <1>12 DEF WorldStep, Serves

\* What is kept in lists is faithful after each of the three changes to one.
LEMMA ChangedFaithful ==
    ASSUME NEW who, NEW past, NEW list \in SizedList,
           ListFaithful(who, past, list)
    PROVE  /\ \A client \in Member :
                Faithful(who, past, client) =>
                  ListFaithful(who, past, addClientInClientList(list, client))
           /\ \A fd : ListFaithful(who, past, removeClientFromClientList(list, fd))
  <1>1. list \in ClientList(Users, MyFds) /\ list.size <= Len(list.clients)
        /\ list.size \in Nat
    BY DEF SizedList, ClientList
  <1>2. ASSUME NEW client \in Member, Faithful(who, past, client)
        PROVE  ListFaithful(who, past, addClientInClientList(list, client))
    <2> DEFINE new == addClientInClientList(list, client)
    <2>1. /\ new.size = list.size + 1
          /\ \A i \in 1 .. list.size : new.clients[i] = list.clients[i]
          /\ new.clients[new.size] = client
      BY <1>1, Addition DEF Member
    <2> HIDE DEF new
    <2>2. ListFaithful(who, past, new)
      BY <1>1, <1>2, <2>1 DEF ListFaithful
    <2> QED
      BY <2>2 DEF new
  <1>3. ASSUME NEW fd
        PROVE  ListFaithful(who, past, removeClientFromClientList(list, fd))
    <2> DEFINE new == removeClientFromClientList(list, fd)
    <2>1. \A i \in Live(new) : \E j \in Live(list) :
            /\ new.clients[i].FD = list.clients[j].FD
            /\ new.clients[i].name \in {list.clients[j].name, Freed}
      BY <1>1, Removal
    <2> HIDE DEF new
    <2>2. ASSUME NEW i \in 1 .. new.size
          PROVE  Faithful(who, past, new.clients[i])
      <3>1. PICK j \in 1 .. list.size :
              /\ new.clients[i].FD = list.clients[j].FD
              /\ new.clients[i].name \in {list.clients[j].name, Freed}
        BY <2>1 DEF Live
      <3>2. Faithful(who, past, list.clients[j])
        BY DEF ListFaithful
      <3> QED
        BY <3>1, <3>2 DEF Faithful
    <2>3. ListFaithful(who, past, new)
      BY <2>2 DEF ListFaithful
    <2> QED
      BY <2>3 DEF new
  <1> QED
    BY <1>2, <1>3

LEMMA GroupsHeld ==
    ASSUME TypeInv, FaithfulInv
    PROVE  /\ groupList \in Seq(SizedGroup)
           /\ \A name : Called(groupList, name) # {} =>
                /\ MembersOf(groupList, name) \in SizedList
                /\ ListFaithful(online, been, MembersOf(groupList, name))
  <1>1. groupList \in Seq(SizedGroup)
    BY DEF TypeInv
  <1>2. ASSUME NEW name, Called(groupList, name) # {}
        PROVE  /\ MembersOf(groupList, name) \in SizedList
               /\ ListFaithful(online, been, MembersOf(groupList, name))
    <2>1. /\ First(Called(groupList, name)) \in 1 .. Len(groupList)
          /\ MembersOf(groupList, name) \in SizedList
      BY <1>1, <1>2, FirstHolds
    <2> QED
      BY <2>1 DEF MembersOf, FaithfulInv, HeldFaithful, GroupsFaithful
  <1> QED
    BY <1>1, <1>2

LEMMA MembersChangedFaithful ==
    ASSUME TypeInv, FaithfulInv, NEW name, NEW members,
           Called(groupList, name) # {} =>
             members \in SizedList /\ ListFaithful(online, been, members)
    PROVE  GroupsFaithful(online, been, WithMembers(groupList, name, members))
  <1> DEFINE new == WithMembers(groupList, name, members)
  <1>1. /\ Len(new) = Len(groupList)
        /\ \A g \in 1 .. Len(groupList) :
             \/ new[g].members = groupList[g].members
             \/ Called(groupList, name) # {} /\ new[g].members = members
    BY GroupsHeld, MembersChange
  <1> HIDE DEF new
  <1>2. GroupsFaithful(online, been, new)
    BY <1>1 DEF GroupsFaithful, FaithfulInv, HeldFaithful
  <1> QED
    BY <1>2 DEF new

LEMMA GroupAddedFaithful ==
    ASSUME TypeInv, FaithfulInv, NEW group \in SizedGroup,
           ListFaithful(online, been, group.members)
    PROVE  GroupsFaithful(online, been, addGroupInGroupList(groupList, group))
  <1> DEFINE new == addGroupInGroupList(groupList, group)
  <1>1. groupList \in Seq(SizedGroup) /\ Len(groupList) \in Nat
    BY GroupsHeld, LenProperties
  <1>2. PICK copy \in SizedGroup :
          /\ new = Append(groupList, copy)
          /\ copy.members.size = group.members.size
          /\ \A i \in 1 .. group.members.size :
               copy.members.clients[i] = group.members.clients[i]
    BY GroupCopied
  <1> HIDE DEF new
  <1>3. ListFaithful(online, been, copy.members)
    BY <1>2 DEF ListFaithful
  <1>4. /\ Len(new) = Len(groupList) + 1 /\ new[Len(groupList) + 1] = copy
        /\ \A g \in 1 .. Len(groupList) : new[g] = groupList[g]
    BY <1>1, <1>2
  <1>5. GroupsFaithful(online, been, new)
    BY <1>1, <1>3, <1>4 DEF GroupsFaithful, FaithfulInv, HeldFaithful
  <1> QED
    BY <1>5 DEF new

LEMMA GroupRemovedFaithful ==
    ASSUME TypeInv, FaithfulInv, NEW name
    PROVE  GroupsFaithful(online, been, removeGroupFromGroupList(groupList, name))
  <1> DEFINE new == removeGroupFromGroupList(groupList, name)
  <1>1. \A g \in 1 .. Len(new) : \E h \in 1 .. Len(groupList) : new[g] = groupList[h]
    BY GroupsHeld, GroupRemoved
  <1> HIDE DEF new
  <1>2. GroupsFaithful(online, been, new)
    BY <1>1 DEF GroupsFaithful, FaithfulInv, HeldFaithful
  <1> QED
    BY <1>2 DEF new

\* What the threads of the client leave of FaithfulInv.
LEMMA FaithfulClient ==
    ASSUME TypeInv, FaithfulInv, UNCHANGED serverVars,
           ListFaithful(online, been, userList'),
           GroupsFaithful(online, been, groupList'),
           EntriesFaithful(online, been, rx'.rest),
           QueueFaithful(online, been, inbox'),
           QueueFaithful(online, been, outbox')
    PROVE  FaithfulInv'
  BY DEF FaithfulInv, EachOnce, WorldFaithful, HeldFaithful, serverVars

LEMMA FaithfulReceive ==
    ASSUME TypeInv, FaithfulInv, ReceiveThread
    PROVE  FaithfulInv'
  <1>1. /\ userList \in SizedList /\ inbox \in Seq(Whole)
        /\ rx \in [pc : {"recv", "userList", "kicked"}, rest : Seq(Member)]
        /\ ListFaithful(online, been, userList)
        /\ GroupsFaithful(online, been, groupList)
        /\ EntriesFaithful(online, been, rx.rest)
        /\ QueueFaithful(online, been, inbox) /\ QueueFaithful(online, been, outbox)
    BY DEF TypeInv, ClientTypeOK, WorldTypeOK, FaithfulInv, HeldFaithful, WorldFaithful
  <1>2. ASSUME NEW type, NEW p \in Arrived(type), Take
        PROVE  /\ UNCHANGED serverVars
               /\ QueueFaithful(online, been, inbox')
               /\ QueueFaithful(online, been, outbox')
               /\ PacketFaithful(online, been, p)
               /\ p \in Whole /\ p \in Letters /\ p.type = type
    <2>1. inbox # <<>> /\ p = Head(inbox) /\ p \in Whole /\ p \in Letters /\ p.type = type
      BY ArrivedPacket
    <2>2. QueueFaithful(online, been, Tail(inbox)) /\ PacketFaithful(online, been, p)
      BY <1>1, <2>1, TailFaithful
    <2> QED
      BY <1>1, <1>2, <2>1, <2>2 DEF Take
  <1>3. ASSUME NEW user \in Member, Faithful(online, been, user), AddUser(user)
        PROVE  ListFaithful(online, been, userList')
    BY <1>1, <1>3, ChangedFaithful DEF AddUser
  <1>4. CASE addJoinedUserInUserList
    <2>1. PICK p \in Arrived("USER_JOINED_SERVER") :
            /\ AddUser([name |-> p.name, FD |-> p.fd]) /\ Take
            /\ UNCHANGED <<groupList, rx>>
      BY <1>4 DEF addJoinedUserInUserList
    <2> DEFINE entry == [name |-> p.name, FD |-> p.fd]
    <2>2. entry \in Member
      BY <1>2, <2>1 DEF Whole, Letters, Member, Client
    <2>3. Faithful(online, been, entry)
      BY <1>2, <2>1 DEF PacketFaithful
    <2> HIDE DEF entry
    <2>4. ListFaithful(online, been, userList')
      BY <1>3, <2>1, <2>2, <2>3 DEF entry
    <2> QED
      BY <1>1, <1>2, <2>1, <2>4, FaithfulClient
  <1>5. CASE receiveUserList
    <2>1. PICK p \in Arrived("CLIENT_LIST") :
            /\ rx' = [pc |-> "userList", rest |-> p.list] /\ Take
            /\ UNCHANGED <<userList, groupList>>
      BY <1>5 DEF receiveUserList
    <2>2. EntriesFaithful(online, been, rx'.rest)
      BY <1>2, <2>1 DEF PacketFaithful
    <2> QED
      BY <1>1, <1>2, <2>1, <2>2, FaithfulClient
  <1>6. CASE AddListedUser
    <2>1. /\ rx.pc = "userList" /\ AddUser(Head(rx.rest)) /\ rx'.rest = Tail(rx.rest)
          /\ UNCHANGED <<worldVars, groupList>>
      BY <1>6 DEF AddListedUser
    <2>2. rx.rest \in Seq(Member) /\ rx.rest # <<>>
      BY <1>1, <2>1 DEF TypeInv
    <2>3. /\ Head(rx.rest) \in Member /\ Head(rx.rest) = rx.rest[1]
          /\ Len(Tail(rx.rest)) = Len(rx.rest) - 1
          /\ Len(rx.rest) \in Nat \ {0}
          /\ \A i \in 1 .. Len(Tail(rx.rest)) : Tail(rx.rest)[i] = rx.rest[i + 1]
      BY <2>2, HeadTailProperties, EmptySeq
    <2>4. Faithful(online, been, Head(rx.rest))
      BY <1>1, <2>3 DEF EntriesFaithful
    <2>5. EntriesFaithful(online, been, rx'.rest)
      <3>1. \A i \in 1 .. Len(rx.rest) - 1 : i + 1 \in 1 .. Len(rx.rest)
        BY <2>3
      <3> QED
        BY <1>1, <2>1, <2>3, <3>1 DEF EntriesFaithful
    <2>6. ListFaithful(online, been, userList')
      BY <1>3, <2>1, <2>3, <2>4
    <2> QED
      BY <1>1, <2>1, <2>5, <2>6, FaithfulClient DEF worldVars
  <1>7. CASE handleLeftUser
    <2>1. PICK p \in Arrived("USER_LEFT") :
            /\ userList' = removeClientFromClientList(userList, p.fd) /\ Take
            /\ UNCHANGED <<groupList, rx>>
      BY <1>7 DEF handleLeftUser
    <2>2. ListFaithful(online, been, userList')
      BY <1>1, <2>1, ChangedFaithful
    <2> QED
      BY <1>1, <1>2, <2>1, <2>2, FaithfulClient
  <1>8. ASSUME NEW type, NEW p \in Arrived(type), Take,
               UNCHANGED userList, rx'.rest = rx.rest,
               GroupsFaithful(online, been, groupList')
        PROVE  FaithfulInv'
    BY <1>1, <1>2, <1>8, FaithfulClient
  <1>9. CASE receiveGroupList
    <2>1. PICK p \in Arrived("GROUP_LIST") :
            ChangesGroups(addGroupInGroupList(groupList,
                            NewGroup(p.room, p.name, MembersFrom(p.list))))
      BY <1>9 DEF receiveGroupList
    <2> DEFINE group == NewGroup(p.room, p.name, MembersFrom(p.list))
    <2>2. /\ PacketFaithful(online, been, p)
          /\ p \in Whole /\ p \in Letters /\ p.type = "GROUP_LIST"
      BY <1>2, <2>1 DEF ChangesGroups
    <2>3. MembersFrom(p.list) \in SizedList
      BY <2>2, ListedMembers, CopiedMembers DEF Letters
    <2>4. group \in SizedGroup /\ group.members = MembersFrom(p.list)
      BY <2>2, <2>3 DEF Whole, Letters, NewGroup, SizedGroup, Group, SizedList
    <2>5. ListFaithful(online, been, group.members)
      BY <2>2, <2>4 DEF MembersFrom, ListFaithful, EntriesFaithful, PacketFaithful
    <2> HIDE DEF group
    <2>6. GroupsFaithful(online, been, groupList')
      BY <2>1, <2>4, <2>5, GroupAddedFaithful DEF ChangesGroups, group
    <2> QED
      BY <1>8, <2>1, <2>6 DEF ChangesGroups
  <1>10. CASE manageNewMemberInGroup
    <2>1. PICK p \in Arrived("JOIN_ROOM") :
            ChangesGroups(WithMembers(groupList, p.room,
              addClientInClientList(MembersOf(groupList, p.room),
                                    [name |-> p.name, FD |-> p.fd])))
      BY <1>10 DEF manageNewMemberInGroup
    <2> DEFINE entry == [name |-> p.name, FD |-> p.fd]
               members == addClientInClientList(MembersOf(groupList, p.room), entry)
    <2>2. /\ PacketFaithful(online, been, p) /\ p.type = "JOIN_ROOM"
          /\ p \in Whole /\ p \in Letters
      BY <1>2, <2>1 DEF ChangesGroups
    <2>3. entry \in Member
      BY <2>2 DEF Whole, Letters, Member, Client
    <2>4. Faithful(online, been, entry)
      BY <2>2 DEF PacketFaithful
    <2> HIDE DEF entry
    <2>5. Called(groupList, p.room) # {} =>
            members \in SizedList /\ ListFaithful(online, been, members)
      <3> SUFFICES ASSUME Called(groupList, p.room) # {}
                   PROVE  members \in SizedList /\ ListFaithful(online, been, members)
        OBVIOUS
      <3>1. /\ MembersOf(groupList, p.room) \in SizedList
            /\ ListFaithful(online, been, MembersOf(groupList, p.room))
        BY GroupsHeld
      <3>2. /\ MembersOf(groupList, p.room) \in ClientList(Users, MyFds)
            /\ MembersOf(groupList, p.room).size <= Len(MembersOf(groupList, p.room).clients)
        BY <3>1 DEF SizedList
      <3>3. members \in SizedList
        BY <2>3, <3>2, Addition DEF SizedList, Member
      <3> QED
        BY <2>3, <2>4, <3>1, <3>3, ChangedFaithful
    <2>6. GroupsFaithful(online, been, groupList')
      BY <2>1, <2>5, MembersChangedFaithful DEF ChangesGroups, entry
    <2> QED
      BY <1>8, <2>1, <2>6 DEF ChangesGroups
  <1>11. ASSUME NEW name, NEW fd
         PROVE  GroupsFaithful(online, been, WithMembers(groupList, name,
                  removeClientFromClientList(MembersOf(groupList, name), fd)))
    <2> DEFINE members == removeClientFromClientList(MembersOf(groupList, name), fd)
    <2>1. Called(groupList, name) # {} =>
            members \in SizedList /\ ListFaithful(online, been, members)
      <3> SUFFICES ASSUME Called(groupList, name) # {}
                   PROVE  members \in SizedList /\ ListFaithful(online, been, members)
        OBVIOUS
      <3>1. /\ MembersOf(groupList, name) \in SizedList
            /\ ListFaithful(online, been, MembersOf(groupList, name))
        BY GroupsHeld
      <3>2. /\ MembersOf(groupList, name) \in ClientList(Users, MyFds)
            /\ MembersOf(groupList, name).size <= Len(MembersOf(groupList, name).clients)
        BY <3>1 DEF SizedList
      <3>3. members \in SizedList
        BY <3>2, Removal DEF SizedList
      <3> QED
        BY <3>1, <3>3, ChangedFaithful
    <2> QED
      BY <2>1, MembersChangedFaithful
  <1>12. CASE manageKickedMember
    <2>1. PICK p \in Arrived("KICK_GROUP_MEMBER") :
            ChangesGroups(WithMembers(groupList, p.room,
              removeClientFromClientList(MembersOf(groupList, p.room), p.fd)))
      BY <1>12 DEF manageKickedMember
    <2> QED
      BY <1>8, <1>11, <2>1 DEF ChangesGroups
  <1>13. CASE manageLeftGroupMember
    <2>1. PICK p \in Arrived("LEAVE_ROOM") :
            /\ groupList' = WithMembers(groupList, p.room,
                 removeClientFromClientList(MembersOf(groupList, p.room), p.fd))
            /\ Take /\ UNCHANGED <<userList, rx>>
      BY <1>13 DEF manageLeftGroupMember
    <2> QED
      BY <1>8, <1>11, <2>1
  <1>14. CASE handleDepression
    <2>1. PICK p \in Arrived("KICKED") :
            /\ groupList' = removeGroupFromGroupList(groupList, p.room)
            /\ rx' = [rx EXCEPT !.pc = "kicked"]
            /\ Take /\ UNCHANGED userList
      BY <1>14 DEF handleDepression
    <2>2. rx'.rest = rx.rest
      BY <1>1, <2>1
    <2> QED
      BY <1>8, <2>1, <2>2, GroupRemovedFaithful
  <1>15. CASE SetNoChat
    <2>1. /\ UNCHANGED <<worldVars, userList, groupList>>
          /\ rx' = [rx EXCEPT !.pc = "recv"]
      BY <1>15 DEF SetNoChat
    <2>2. rx'.rest = rx.rest
      BY <1>1, <2>1
    <2> QED
      BY <1>1, <2>1, <2>2, FaithfulClient DEF worldVars
  <1> QED
    BY <1>4, <1>5, <1>6, <1>7, <1>9, <1>10, <1>12, <1>13, <1>14, <1>15
       DEF ReceiveThread

LEMMA FaithfulMain ==
    ASSUME TypeInv, FaithfulInv, MainThread
    PROVE  FaithfulInv'
  <1> USE ClientWorldAssumption
  <1>1. /\ userList \in SizedList /\ outbox \in Seq(Whole)
        /\ ListFaithful(online, been, userList)
        /\ GroupsFaithful(online, been, groupList)
        /\ EntriesFaithful(online, been, rx.rest)
        /\ QueueFaithful(online, been, inbox) /\ QueueFaithful(online, been, outbox)
        /\ mySocketFD \in MyFds
    BY DEF TypeInv, ClientTypeOK, WorldTypeOK, FaithfulInv, HeldFaithful, WorldFaithful
  <1>2. UNCHANGED <<serverVars, inbox, userList, rx>>
    BY MainApart
  <1>3. ASSUME GroupsFaithful(online, been, groupList'),
               QueueFaithful(online, been, outbox')
        PROVE  FaithfulInv'
    BY <1>1, <1>2, <1>3, FaithfulClient
  <1>4. ASSUME NEW type \in {"INTRO", "USER_LEFT", "CHAT", "GROUP_CHAT", "CREATE_ROOM",
                             "KICK_GROUP_MEMBER", "LEAVE_ROOM"},
               NEW f, NEW name, NEW room,
               outbox' = Append(outbox, Packet(type, f, name, room))
        PROVE  QueueFaithful(online, been, outbox')
    <2> DEFINE p == Packet(type, f, name, room)
    <2>1. PacketFaithful(online, been, p)
      BY BlankFaithful
    <2> HIDE DEF p
    <2>2. /\ Len(outbox) \in Nat /\ Len(Append(outbox, p)) = Len(outbox) + 1
          /\ \A i \in 1 .. Len(outbox) : Append(outbox, p)[i] = outbox[i]
          /\ Append(outbox, p)[Len(outbox) + 1] = p
      BY <1>1
    <2> QED
      BY <1>1, <1>4, <2>1, <2>2 DEF QueueFaithful, p
  <1>5. CASE Intro
    <2>1. outbox' = Append(outbox, Packet("INTRO", NoFd, Me, NoRoom))
          /\ groupList' = groupList
      BY <1>5 DEF Intro
    <2> QED
      BY <1>1, <1>3, <1>4, <2>1
  <1>6. CASE Quit
    <2>1. outbox' = Append(outbox, Packet("USER_LEFT", NoFd, Me, NoRoom))
          /\ groupList' = groupList
      BY <1>6 DEF Quit
    <2> QED
      BY <1>1, <1>3, <1>4, <2>1
  <1>7. CASE UNCHANGED <<outbox, groupList>>
    BY <1>1, <1>3, <1>7
  <1>8. CASE Learn \/ AssignChat \/ Back \/ KickNowhere
    BY <1>7, <1>8 DEF Learn, AssignChat, Back, KickNowhere, worldVars
  <1>9. CASE LineToUser
    <2>1. PICK f : Types(Packet("CHAT", f, Me, NoRoom))
      BY <1>9 DEF LineToUser
    <2>2. groupList' = groupList /\ outbox' = Append(outbox, Packet("CHAT", f, Me, NoRoom))
      BY <1>9, <2>1 DEF LineToUser, Types
    <2> QED
      BY <1>1, <1>3, <1>4, <2>2
  <1>10. CASE LineToGroup
    <2>1. /\ groupList' = groupList
          /\ outbox' = Append(outbox, Packet("GROUP_CHAT", NoFd, Me, Last(chats).name))
      BY <1>10 DEF LineToGroup, Types
    <2> QED
      BY <1>1, <1>3, <1>4, <2>1
  <1>11. ASSUME NEW u, NEW g, chatWithUser(u) \/ chatWithinGroup(g)
         PROVE  FaithfulInv'
    BY <1>7, <1>11 DEF chatWithUser, chatWithinGroup, Enter, worldVars
  <1>12. ASSUME NEW g \in Rooms, createGroup(g)
         PROVE  FaithfulInv'
    <2> DEFINE admin == [name |-> Me, FD |-> mySocketFD]
               members == addClientInClientList(EmptyList, admin)
               group == NewGroup(g, Me, members)
    <2>1. admin \in Member
      BY <1>1 DEF Member, Client
    <2>2. Faithful(online, been, admin)
      BY OnlineFaithful
    <2>3. /\ EmptyList \in ClientList(Users, MyFds)
          /\ EmptyList.size <= Len(EmptyList.clients) /\ EmptyList.size = 0
      BY EmptySeq DEF EmptyList, ClientList
    <2>4. EmptyList \in SizedList /\ ListFaithful(online, been, EmptyList)
      BY <2>3 DEF SizedList, ListFaithful
    <2> HIDE DEF admin
    <2>5. members \in SizedList
      BY <2>1, <2>3, Addition DEF SizedList, Member
    <2>6. ListFaithful(online, been, members)
      BY <2>1, <2>2, <2>4, ChangedFaithful
    <2> HIDE DEF members
    <2>7. group \in SizedGroup /\ group.members = members
      BY <2>5 DEF NewGroup, SizedGroup, Group, SizedList
    <2> HIDE DEF group
    <2>8. groupList' = addGroupInGroupList(groupList, group)
      BY <1>12 DEF createGroup, group, members, admin
    <2>9. GroupsFaithful(online, been, groupList')
      BY <2>6, <2>7, <2>8, GroupAddedFaithful
    <2>10. outbox' = Append(outbox, Packet("CREATE_ROOM", mySocketFD, Me, g))
      BY <1>12 DEF createGroup, Types
    <2> QED
      BY <1>3, <1>4, <2>9, <2>10
  <1>13. ASSUME NEW u \in Users, NEW g \in Rooms, addMember(u, g)
         PROVE  FaithfulInv'
    <2>1. PICK i \in Found(userList, u) :
            /\ userList.clients[i].name # Freed
            /\ groupList' = WithMembers(groupList, g,
                 addClientInClientList(MembersOf(groupList, g), userList.clients[i]))
            /\ Types(Packet("JOIN_ROOM", userList.clients[i].FD, u, g))
      BY <1>13 DEF addMember
    <2> DEFINE entry == userList.clients[i]
               members == addClientInClientList(MembersOf(groupList, g), entry)
               p == Packet("JOIN_ROOM", entry.FD, u, g)
    <2>2. entry \in Member /\ entry.name = u /\ entry.FD \in MyFds
          /\ i \in 1 .. userList.size
      BY <1>1, <2>1, FoundEntry DEF Member, Client
    <2>3. Faithful(online, been, entry)
      BY <1>1, <2>2 DEF ListFaithful
    <2>4. /\ Called(groupList, g) # {}
          /\ MembersOf(groupList, g) \in SizedList
          /\ ListFaithful(online, been, MembersOf(groupList, g))
      BY <1>13, GroupsHeld DEF addMember
    <2>5. /\ MembersOf(groupList, g) \in ClientList(Users, MyFds)
          /\ MembersOf(groupList, g).size <= Len(MembersOf(groupList, g).clients)
      BY <2>4 DEF SizedList
    <2> HIDE DEF entry
    <2>6. members \in SizedList
      BY <2>2, <2>5, Addition DEF SizedList, Member
    <2>7. ListFaithful(online, been, members)
      BY <2>2, <2>3, <2>4, ChangedFaithful
    <2> HIDE DEF members
    <2>8. groupList' = WithMembers(groupList, g, members)
      BY <2>1 DEF members, entry
    <2>9. GroupsFaithful(online, been, groupList')
      BY <2>6, <2>7, <2>8, MembersChangedFaithful
    <2>10. p \in Whole
      BY <2>2, EmptySeq DEF Packet, Whole, Letters
    <2>11. PacketFaithful(online, been, p)
      <3>1. p.name = u /\ p.fd = entry.FD /\ p.list = <<>>
        BY DEF Packet
      <3> HIDE DEF p
      <3> DEFINE sent == [name |-> p.name, FD |-> p.fd]
      <3>2. sent.name = entry.name /\ sent.FD = entry.FD
        BY <2>2, <3>1
      <3> HIDE DEF sent
      <3>3. Faithful(online, been, sent)
        BY <2>3, <3>2 DEF Faithful
      <3>4. Len(<<>>) = 0
        BY EmptySeq
      <3> QED
        BY <3>1, <3>3, <3>4 DEF PacketFaithful, EntriesFaithful, sent
    <2>12. outbox' = Append(outbox, p)
      BY <2>1 DEF Types, entry
    <2> HIDE DEF p
    <2>13. QueueFaithful(online, been, outbox')
      BY <1>1, <2>10, <2>11, <2>12, AppendFaithful
    <2> QED
      BY <1>3, <2>9, <2>13
  <1>14. ASSUME NEW g \in Rooms, leaveGroupAndInformServer(g)
         PROVE  FaithfulInv'
    <2>1. PICK f : Types(Packet("LEAVE_ROOM", f, Me, g))
      BY <1>14 DEF leaveGroupAndInformServer
    <2>2. /\ groupList' = removeGroupFromGroupList(groupList, g)
          /\ outbox' = Append(outbox, Packet("LEAVE_ROOM", f, Me, g))
      BY <1>14, <2>1 DEF leaveGroupAndInformServer, Types
    <2>3. GroupsFaithful(online, been, groupList')
      BY <2>2, GroupRemovedFaithful
    <2> QED
      BY <1>3, <1>4, <2>2, <2>3
  <1>15. ASSUME NEW u \in Users, kickMemberAndShareOnServer(u)
         PROVE  FaithfulInv'
    <2>1. PICK g \in Rooms, f \in Targets(u) :
            /\ Called(groupList, g) # {}
            /\ groupList' = WithMembers(groupList, g,
                 removeClientFromClientList(MembersOf(groupList, g), f))
            /\ Types(Packet("KICK_GROUP_MEMBER", f, u, g))
      BY <1>15 DEF kickMemberAndShareOnServer
    <2> DEFINE members == removeClientFromClientList(MembersOf(groupList, g), f)
    <2>2. /\ MembersOf(groupList, g) \in SizedList
          /\ ListFaithful(online, been, MembersOf(groupList, g))
      BY <2>1, GroupsHeld
    <2>3. /\ MembersOf(groupList, g) \in ClientList(Users, MyFds)
          /\ MembersOf(groupList, g).size <= Len(MembersOf(groupList, g).clients)
      BY <2>2 DEF SizedList
    <2>4. members \in SizedList
      BY <2>3, Removal DEF SizedList
    <2>5. ListFaithful(online, been, members)
      BY <2>2, ChangedFaithful
    <2>6. GroupsFaithful(online, been, groupList')
      BY <2>1, <2>4, <2>5, MembersChangedFaithful
    <2>7. outbox' = Append(outbox, Packet("KICK_GROUP_MEMBER", f, u, g))
      BY <2>1 DEF Types
    <2> QED
      BY <1>3, <1>4, <2>6, <2>7
  <1> QED
    BY <1>5, <1>6, <1>8, <1>9, <1>10, <1>11, <1>12, <1>13, <1>14, <1>15
       DEF MainThread

LEMMA FaithfulInit ==
    ASSUME Init
    PROVE  FaithfulInv
  <1> USE ClientWorldAssumption
  <1>0. PICK u \in Users \ {Me}, f \in Fds, h \in Fds : Start(u, f, h)
    BY DEF Init, WorldInit, Start
  <1> DEFINE made == {[name |-> r, admin |-> u,
                       members |-> <<[name |-> u, FD |-> f]>>] : r \in Foreign}
  <1>1. /\ f # h
        /\ online = [x \in Fds |-> IF x = f THEN u ELSE IF x = h THEN Me ELSE NoUser]
        /\ been = {u, Me} /\ inbox = <<>> /\ outbox = <<>>
        /\ rooms = SetToSeq(made)
    BY <1>0 DEF Start
  <1>2. EachOnce
    BY <1>1 DEF EachOnce
  <1>3. Len(<<>>) = 0
    BY EmptySeq
  <1>4. RoomsFaithful(online, been, rooms)
    <2> DEFINE entry == [name |-> u, FD |-> f]
    <2>1. Faithful(online, been, entry)
      BY <1>1 DEF Faithful
    <2> HIDE DEF entry
    <2>2. EntriesFaithful(online, been, <<entry>>)
      BY <2>1 DEF EntriesFaithful
    <2>3. IsFiniteSet(made)
      <3> DEFINE make == [r \in Foreign |->
                           [name |-> r, admin |-> u,
                            members |-> <<[name |-> u, FD |-> f]>>]]
      <3>1. make \in Surjection(Foreign, made)
        BY DEF Surjection
      <3> QED
        BY <3>1, FS_Surjection
    <2>4. \A room \in made : room.members = <<entry>>
      BY DEF entry
    <2> HIDE DEF made
    <2>5. rooms \in Seq(made)
      BY <1>1, <2>3, EveryoneListed
    <2>6. \A g \in 1 .. Len(rooms) : rooms[g] \in made
      BY <2>5, ElementOfSeq
    <2> QED
      BY <2>2, <2>4, <2>6 DEF RoomsFaithful
  <1>5. /\ userList = EmptyList /\ groupList = <<>>
        /\ rx = [pc |-> "recv", rest |-> <<>>]
    BY DEF Init, NewClient, Silent
  <1>6. HeldFaithful(online, been)
    BY <1>3, <1>5 DEF HeldFaithful, ListFaithful, GroupsFaithful, EntriesFaithful,
                      EmptyList
  <1>7. WorldFaithful(online, been)
    BY <1>1, <1>3, <1>4 DEF WorldFaithful, QueueFaithful
  <1> QED
    BY <1>2, <1>6, <1>7 DEF FaithfulInv

LEMMA FaithfulStep ==
    ASSUME TypeInv, FaithfulInv, [Next]_vars
    PROVE  FaithfulInv'
  <1>1. CASE UNCHANGED vars
    BY <1>1 DEF vars, clientVars, worldVars, serverVars, FaithfulInv, EachOnce,
                WorldFaithful, HeldFaithful
  <1> QED
    BY <1>1, FaithfulWorld, FaithfulReceive, FaithfulMain DEF Next, Stops

\* No list, of users or of members, ever puts the name of a user who is
\* connected to the descriptor of another, though removals copy entries over one
\* another, free names, and descriptors are used again: every entry anywhere, in
\* packets too, is of somebody connected there or of somebody who has gone.
THEOREM EntriesTrue == Spec => []NoFalseIdentity
  <1>1. Init => FaithfulInv
    BY FaithfulInit
  <1>2. TypeInv /\ FaithfulInv /\ [Next]_vars => FaithfulInv'
    BY FaithfulStep
  <1>3. TypeInv /\ FaithfulInv => NoFalseIdentity
    <2> SUFFICES ASSUME TypeInv, FaithfulInv
                 PROVE  NoFalseIdentity
      OBVIOUS
    <2>1. \A entry : Faithful(online, been, entry) => TrueEntry(entry)
      BY DEF Faithful, TrueEntry, Gone, IsOnline
    <2>2. DOMAIN groupList = 1 .. Len(groupList)
      BY DEF TypeInv
    <2> QED
      BY <2>1, <2>2 DEF NoFalseIdentity, FaithfulInv, HeldFaithful, ListFaithful,
         GroupsFaithful, Live
  <1> QED
    BY <1>1, <1>2, <1>3, ClientTyped, PTL DEF Spec

----------------------------------------------------------------------------
(* The rooms that the server has this client in. *)

\* Names of rooms are apart.
RoomsApart ==
    \A g, h \in DOMAIN rooms : rooms[g].name = rooms[h].name => g = h

\* No room has this client twice.
InOnce ==
    \A g \in DOMAIN rooms : \A i, j \in Holding(g, FdOf(Me)) : i = j

\* Who is thrown out was in a room that there is.
KicksOfRooms ==
    \A k \in DOMAIN inbox : inbox[k].type = "KICKED" => Made(inbox[k].room)

Leaving(name, k) ==
    \E l \in DOMAIN outbox :
      l > k /\ outbox[l].type = "LEAVE_ROOM" /\ outbox[l].room = name

\* What is on its way to the server: rooms that are new, others who are added,
\* and leaves of this client itself, unless it has strayed.
SentInv ==
    \A k \in DOMAIN outbox :
      /\ outbox[k].type = "CREATE_ROOM" =>
           /\ ~Made(outbox[k].room)
           /\ \A l \in DOMAIN outbox :
                outbox[l].type = "CREATE_ROOM" /\ outbox[l].room = outbox[k].room
                  => l = k
           /\ \/ strayed
              \/ Called(groupList, outbox[k].room) # {}
              \/ Leaving(outbox[k].room, k)
      /\ outbox[k].type = "JOIN_ROOM" => outbox[k].name # Me
      /\ outbox[k].type = "LEAVE_ROOM" => strayed \/ outbox[k].fd = FdOf(Me)

\* No KICKED of the name from the k-th packet to this client on.
NotKicked(name, k) ==
    \A l \in DOMAIN inbox :
      l > k => ~(inbox[l].type = "KICKED" /\ inbox[l].room = name)

Announced(name) ==
    \E k \in DOMAIN inbox :
      /\ inbox[k].type = "GROUP_LIST" /\ inbox[k].room = name
      /\ NotKicked(name, k)

\* A room the server has this client in is in its list for good, or will be, or
\* the client is about to leave it.
KnownOf(name) ==
    \/ Leaving(name, 0)
    \/ Announced(name)
    \/ Called(groupList, name) # {} /\ NotKicked(name, 0)

KnownInv ==
    /\ RoomsApart
    /\ InOnce
    /\ KicksOfRooms
    /\ SentInv
    /\ \A g \in DOMAIN rooms : In(g, Me) => strayed \/ KnownOf(rooms[g].name)

LEMMA SameDescriptor ==
    ASSUME TypeInv, FaithfulInv, [Next]_vars
    PROVE  FdOf(Me)' = FdOf(Me)
  <1>1. EachOnce' /\ TypeInv'
    BY FaithfulStep, NextTypes DEF FaithfulInv
  <1>2. FdOf(Me) \in Fds /\ online[FdOf(Me)] = Me
    BY MyDescriptor
  <1>3. FdOf(Me)' \in Fds /\ online'[FdOf(Me)'] = Me
    <2>1. \E f \in Fds : online'[f] = Me
      BY <1>1 DEF TypeInv, WorldTypeOK, IsOnline
    <2> QED
      BY <2>1 DEF FdOf
  <1>4. Me # NoUser
    BY ClientWorldAssumption
  <1>5. online'[FdOf(Me)] = Me
    <2>1. CASE online' = online
      BY <1>2, <2>1
    <2>2. ASSUME NEW u \in Users \ {Me}, NewUser(u)
          PROVE  online'[FdOf(Me)] = Me
      <3>1. online' = [online EXCEPT ![Lowest(Fds \ OnlineFds)] = u]
        BY <2>2 DEF NewUser
      <3>2. Lowest(Fds \ OnlineFds) \in Fds \ OnlineFds
        <4>1. Fds \ OnlineFds # {} /\ Fds \ OnlineFds \subseteq Nat
          BY <2>2, ClientWorldAssumption DEF NewUser, OnlineFds
        <4> QED
          BY <4>1, LowestHolds
      <3>3. FdOf(Me) \in OnlineFds
        BY <1>2, <1>4 DEF OnlineFds
      <3>4. online \in [Fds -> Users \cup {NoUser}]
        BY DEF TypeInv, WorldTypeOK
      <3> QED
        BY <1>2, <3>1, <3>2, <3>3, <3>4
    <2>3. ASSUME NEW u \in Users \ {Me}, LeftUser(u)
          PROVE  online'[FdOf(Me)] = Me
      <3>1. online' = [online EXCEPT ![FdOf(u)] = NoUser]
        BY <2>3 DEF LeftUser
      <3>2. FdOf(u) \in Fds /\ online[FdOf(u)] = u
        BY <2>3, FdOfHolds DEF LeftUser
      <3>3. online \in [Fds -> Users \cup {NoUser}]
        BY DEF TypeInv, WorldTypeOK
      <3> QED
        BY <1>2, <3>1, <3>2, <3>3
    <2>4. CASE WorldStep
      <3>1. CASE OthersAct
        BY <2>1, <2>2, <2>3, <3>1, OthersAboutRooms DEF RoomsOnly
      <3>2. CASE Serves
        <4>1. CASE IntroduceMe \/ SendListToMe
          BY <2>1, <4>1 DEF IntroduceMe, SendListToMe
        <4> QED
          BY <2>1, <3>2, <4>1, ServesRooms DEF RoomsOnly
      <3> QED
        BY <2>4, <3>1, <3>2 DEF WorldStep
    <2>5. CASE ReceiveThread \/ MainThread \/ Stops \/ UNCHANGED vars
      <3>1. ReceiveThread => UNCHANGED online
        BY DEF ReceiveThread, addJoinedUserInUserList, receiveUserList,
           AddListedUser, handleLeftUser, receiveGroupList,
           manageNewMemberInGroup, manageKickedMember, manageLeftGroupMember,
           handleDepression, SetNoChat, ChangesGroups, Take, worldVars, serverVars
      <3>2. MainThread => UNCHANGED online
        BY MainApart DEF serverVars
      <3> QED
        BY <2>1, <2>5, <3>1, <3>2 DEF Stops, vars, worldVars, serverVars
    <2> QED
      BY <2>4, <2>5 DEF Next
  <1> QED
    BY <1>1, <1>2, <1>3, <1>4, <1>5 DEF EachOnce

\* In a room, and holding a place of it, is the same for Me.
LEMMA InHolds ==
    ASSUME TypeInv, FaithfulInv, NEW g \in DOMAIN rooms
    PROVE  In(g, Me) <=> Holding(g, FdOf(Me)) # {}
  <1>1. /\ FdOf(Me) \in Fds /\ online[FdOf(Me)] = Me
        /\ Me \in Users /\ Freed \notin Users
    BY MyDescriptor, ClientWorldAssumption
  <1>2. /\ DOMAIN rooms[g].members = 1 .. Len(rooms[g].members)
        /\ \A i \in 1 .. Len(rooms[g].members) : rooms[g].members[i] \in Listed
    BY RoomTyped
  <1>3. g \in 1 .. Len(rooms)
    BY DEF TypeInv, WorldTypeOK
  <1>4. \A i \in 1 .. Len(rooms[g].members) :
          Faithful(online, been, rooms[g].members[i])
    BY <1>3 DEF FaithfulInv, WorldFaithful, RoomsFaithful, EntriesFaithful
  <1>5. ASSUME NEW i \in Holding(g, FdOf(Me))
        PROVE  rooms[g].members[i] = [name |-> Me, FD |-> FdOf(Me)]
    <2>1. /\ i \in 1 .. Len(rooms[g].members)
          /\ rooms[g].members[i].FD = FdOf(Me)
      BY <1>2, <1>5 DEF Holding
    <2>2. rooms[g].members[i].name = Me
      BY <1>1, <1>2, <1>4, <2>1 DEF Faithful, Listed
    <2> QED
      BY <1>2, <2>1, <2>2 DEF Listed
  <1> QED
    BY <1>2, <1>5 DEF In, ToSet, Holding

\* The queues grow behind what is in them, and lose what is in front.
LEMMA LeavingKept ==
    ASSUME TypeInv, NEW name, NEW k \in Nat, NEW p \in Whole
    PROVE  /\ outbox' = Append(outbox, p) =>
                /\ Leaving(name, k) => Leaving(name, k)'
                /\ (p.type = "LEAVE_ROOM" /\ p.room = name /\ k <= Len(outbox))
                      => Leaving(name, k)'
           /\ (outbox # <<>> /\ outbox' = Tail(outbox)) =>
                /\ Leaving(name, k + 1) => Leaving(name, k)'
                /\ Leaving(name, 0) => \/ Leaving(name, 0)'
                                       \/ Head(outbox).type = "LEAVE_ROOM"
                                            /\ Head(outbox).room = name
  <1>1. outbox \in Seq(Whole) /\ Len(outbox) \in Nat /\ DOMAIN outbox = 1 .. Len(outbox)
    BY LenProperties DEF TypeInv, WorldTypeOK
  <1>2. ASSUME outbox' = Append(outbox, p)
        PROVE  /\ Leaving(name, k) => Leaving(name, k)'
               /\ (p.type = "LEAVE_ROOM" /\ p.room = name /\ k <= Len(outbox))
                     => Leaving(name, k)'
    <2>1. /\ DOMAIN outbox' = 1 .. Len(outbox) + 1
          /\ outbox'[Len(outbox) + 1] = p
          /\ \A i \in 1 .. Len(outbox) : outbox'[i] = outbox[i]
      BY <1>1, <1>2
    <2>2. \A i \in 1 .. Len(outbox) : i \in 1 .. Len(outbox) + 1
      BY <1>1
    <2>3. Leaving(name, k) => Leaving(name, k)'
      BY <1>1, <2>1, <2>2 DEF Leaving
    <2>4. /\ Len(outbox) + 1 \in DOMAIN outbox'
          /\ k <= Len(outbox) => Len(outbox) + 1 > k
      BY <1>1, <2>1
    <2> QED
      BY <2>1, <2>3, <2>4 DEF Leaving
  <1>3. ASSUME outbox # <<>>, outbox' = Tail(outbox)
        PROVE  /\ Leaving(name, k + 1) => Leaving(name, k)'
               /\ Leaving(name, 0) => \/ Leaving(name, 0)'
                                      \/ Head(outbox).type = "LEAVE_ROOM"
                                           /\ Head(outbox).room = name
    <2>1. /\ DOMAIN outbox' = 1 .. Len(outbox) - 1 /\ Head(outbox) = outbox[1]
          /\ \A i \in 1 .. Len(outbox) - 1 : outbox'[i] = outbox[i + 1]
      <3>1. /\ Tail(outbox) \in Seq(Whole) /\ Len(Tail(outbox)) = Len(outbox) - 1
            /\ Head(outbox) = outbox[1]
            /\ \A i \in 1 .. Len(outbox) - 1 : Tail(outbox)[i] = outbox[i + 1]
        BY <1>1, <1>3, FirstTaken
      <3>2. DOMAIN Tail(outbox) = 1 .. Len(outbox) - 1
        BY <3>1
      <3> QED
        BY <1>3, <3>1, <3>2
    <2>2. ASSUME NEW l \in 2 .. Len(outbox), outbox[l].type = "LEAVE_ROOM",
                 outbox[l].room = name
          PROVE  /\ l - 1 \in DOMAIN outbox' /\ l - 1 > 0
                 /\ l > k + 1 => l - 1 > k
                 /\ outbox'[l - 1].type = "LEAVE_ROOM" /\ outbox'[l - 1].room = name
      <3>1. l - 1 \in 1 .. Len(outbox) - 1 /\ (l - 1) + 1 = l
        BY <1>1, <2>2
      <3>2. outbox'[l - 1] = outbox[l]
        BY <2>1, <3>1
      <3> QED
        BY <2>1, <2>2, <3>1, <3>2
    <2>3. Leaving(name, k + 1) => Leaving(name, k)'
      <3>1. \A l \in 1 .. Len(outbox) : l > k + 1 => l \in 2 .. Len(outbox)
        BY <1>1
      <3> QED
        BY <1>1, <2>2, <3>1 DEF Leaving
    <2>4. Leaving(name, 0) => \/ Leaving(name, 0)'
                              \/ Head(outbox).type = "LEAVE_ROOM"
                                   /\ Head(outbox).room = name
      <3>1. \A l \in 1 .. Len(outbox) : l = 1 \/ l \in 2 .. Len(outbox)
        BY <1>1
      <3> QED
        BY <1>1, <2>1, <2>2, <3>1 DEF Leaving
    <2> QED
      BY <2>3, <2>4
  <1> QED
    BY <1>2, <1>3

LEMMA AnnouncedKept ==
    ASSUME TypeInv, NEW name
    PROVE  /\ (/\ Extended(inbox, inbox')
               /\ DOMAIN inbox' = 1 .. Len(inbox')
               /\ \A i \in Len(inbox) + 1 .. Len(inbox') :
                    ~(inbox'[i].type = "KICKED" /\ inbox'[i].room = name)) =>
                /\ NotKicked(name, 0) => NotKicked(name, 0)'
                /\ Announced(name) => Announced(name)'
           /\ (inbox # <<>> /\ inbox' = Tail(inbox)) =>
                /\ NotKicked(name, 0) => NotKicked(name, 0)'
                /\ Announced(name) =>
                     \/ Announced(name)'
                     \/ /\ inbox[1].type = "GROUP_LIST" /\ inbox[1].room = name
                        /\ NotKicked(name, 0)'
  <1>1. inbox \in Seq(Whole) /\ Len(inbox) \in Nat /\ DOMAIN inbox = 1 .. Len(inbox)
    BY LenProperties DEF TypeInv, WorldTypeOK
  <1>2. ASSUME Extended(inbox, inbox'), DOMAIN inbox' = 1 .. Len(inbox'),
               \A i \in Len(inbox) + 1 .. Len(inbox') :
                 ~(inbox'[i].type = "KICKED" /\ inbox'[i].room = name)
        PROVE  /\ NotKicked(name, 0) => NotKicked(name, 0)'
               /\ Announced(name) => Announced(name)'
    <2>1. ASSUME NEW k \in Nat, NotKicked(name, k)
          PROVE  NotKicked(name, k)'
      <3>1. ASSUME NEW l \in 1 .. Len(inbox'), l > k
            PROVE  ~(inbox'[l].type = "KICKED" /\ inbox'[l].room = name)
        <4>1. l \in 1 .. Len(inbox) \/ l \in Len(inbox) + 1 .. Len(inbox')
          BY <1>1, <1>2 DEF Extended
        <4> QED
          BY <1>1, <1>2, <2>1, <3>1, <4>1 DEF Extended, NotKicked
      <3> QED
        BY <1>2, <3>1 DEF NotKicked
    <2>2. \A k \in 1 .. Len(inbox) :
            k \in Nat /\ k \in 1 .. Len(inbox') /\ inbox'[k] = inbox[k]
      BY <1>1, <1>2 DEF Extended
    <2> QED
      BY <1>1, <1>2, <2>1, <2>2 DEF Announced
  <1>3. ASSUME inbox # <<>>, inbox' = Tail(inbox)
        PROVE  /\ NotKicked(name, 0) => NotKicked(name, 0)'
               /\ Announced(name) =>
                    \/ Announced(name)'
                    \/ /\ inbox[1].type = "GROUP_LIST" /\ inbox[1].room = name
                       /\ NotKicked(name, 0)'
    <2>1. /\ DOMAIN inbox' = 1 .. Len(inbox) - 1
          /\ \A i \in 1 .. Len(inbox) - 1 : inbox'[i] = inbox[i + 1]
      <3>1. /\ Tail(inbox) \in Seq(Whole) /\ Len(Tail(inbox)) = Len(inbox) - 1
            /\ \A i \in 1 .. Len(inbox) - 1 : Tail(inbox)[i] = inbox[i + 1]
        BY <1>1, <1>3, FirstTaken
      <3>2. DOMAIN Tail(inbox) = 1 .. Len(inbox) - 1
        BY <3>1
      <3> QED
        BY <1>3, <3>1, <3>2
    <2>2. ASSUME NEW k \in Nat, NotKicked(name, k + 1)
          PROVE  NotKicked(name, k)'
      <3>1. \A l \in 1 .. Len(inbox) - 1 :
              /\ l + 1 \in 1 .. Len(inbox)
              /\ l > k => l + 1 > k + 1
        BY <1>1
      <3> QED
        BY <1>1, <2>1, <2>2, <3>1 DEF NotKicked
    <2>3. NotKicked(name, 0) => NotKicked(name, 1)
      BY <1>1 DEF NotKicked
    <2>4. NotKicked(name, 1) => NotKicked(name, 0)'
      BY <2>2
    <2>5. ASSUME NEW k \in 2 .. Len(inbox), inbox[k].type = "GROUP_LIST",
                 inbox[k].room = name, NotKicked(name, k)
          PROVE  Announced(name)'
      <3>1. k - 1 \in 1 .. Len(inbox) - 1 /\ (k - 1) + 1 = k /\ k - 1 \in Nat
        BY <1>1, <2>5
      <3>2. inbox'[k - 1] = inbox[k] /\ NotKicked(name, k - 1)'
        BY <2>1, <2>2, <2>5, <3>1
      <3> QED
        BY <2>1, <2>5, <3>1, <3>2 DEF Announced
    <2>6. \A k \in 1 .. Len(inbox) : k = 1 \/ k \in 2 .. Len(inbox)
      BY <1>1
    <2> QED
      BY <1>1, <2>3, <2>4, <2>5, <2>6 DEF Announced
  <1> QED
    BY <1>2, <1>3

\* What the server does, as far as rooms go: names stay, nobody gets into a room
\* twice, only who is out is told so, and who gets in is told so.
RoomsMove ==
    /\ Len(rooms') = Len(rooms) /\ DOMAIN rooms' = DOMAIN rooms
    /\ \A h \in DOMAIN rooms : rooms'[h].name = rooms[h].name
    /\ InOnce'
    /\ Extended(inbox, inbox') /\ DOMAIN inbox' = 1 .. Len(inbox')
    /\ \A i \in Len(inbox) + 1 .. Len(inbox') :
         inbox'[i].type = "KICKED" =>
           \E h \in DOMAIN rooms :
             inbox'[i].room = rooms[h].name /\ ~In(h, Me)'
    /\ \A h \in DOMAIN rooms :
         In(h, Me)' =>
           \/ In(h, Me)
           \/ /\ Len(inbox') = Len(inbox) + 1
              /\ inbox'[Len(inbox')].type = "GROUP_LIST"
              /\ inbox'[Len(inbox')].room = rooms[h].name

LEMMA SameFd ==
    ASSUME UNCHANGED online
    PROVE  FdOf(Me)' = FdOf(Me)
  BY DEF FdOf

\* An entry that is added; Me is added by nobody who sees it there.
LEMMA RoomsGrow ==
    ASSUME TypeInv, FaithfulInv, InOnce, UNCHANGED online,
           NEW g \in DOMAIN rooms, NEW u \in Users, NEW fd \in MyFds,
           NewMember(g, u, fd), fd = FdOf(Me) => ~In(g, Me)
    PROVE  RoomsMove
  <1> DEFINE entry == [name |-> u, FD |-> fd]
             mine == FdOf(Me)
             own == [name |-> Me, FD |-> mine]
             gl == Packet("GROUP_LIST", NoFd, rooms[g].admin, rooms[g].name)
             list == [gl EXCEPT !.list = rooms'[g].members]
             joined == Packet("JOIN_ROOM", fd, u, rooms[g].name)
             n == Len(rooms[g].members)
  <1>1. /\ entry \in Listed /\ rooms' = WithMember(g, entry)
        /\ FdOf(Me)' = mine /\ mine' = mine
    BY SameFd DEF NewMember, Listed
  <1>2. /\ rooms' \in Seq(Room) /\ Len(rooms') = Len(rooms)
        /\ \A h \in 1 .. Len(rooms) : h # g => rooms'[h] = rooms[h]
        /\ rooms'[g].name = rooms[g].name
        /\ rooms'[g].members = Append(rooms[g].members, entry)
    BY <1>1, MemberAdded
  <1>3. DOMAIN rooms = 1 .. Len(rooms) /\ DOMAIN rooms' = 1 .. Len(rooms)
    BY <1>2 DEF TypeInv, WorldTypeOK
  <1>4. /\ n \in Nat /\ DOMAIN rooms[g].members = 1 .. n
        /\ DOMAIN rooms'[g].members = 1 .. n + 1
        /\ \A i \in 1 .. n : rooms'[g].members[i] = rooms[g].members[i]
        /\ rooms'[g].members[n + 1] = entry
    <2>1. rooms[g].members \in Seq(Listed)
      BY RoomTyped DEF Room
    <2> HIDE DEF entry
    <2> QED
      BY <1>1, <1>2, <2>1
  <1>5. fd = mine => Holding(g, mine) = {}
    BY InHolds
  <1> HIDE DEF mine
  <1>6. \A h \in DOMAIN rooms : h # g => Holding(h, mine)' = Holding(h, mine)
                                       /\ (In(h, Me)' <=> In(h, Me))
    BY <1>1, <1>2, <1>3 DEF Holding, In, mine
  <1>7. \A i, j \in Holding(g, mine)' : i = j
    <2>1. \A i \in Holding(g, mine)' :
            \/ i \in Holding(g, mine)
            \/ i = n + 1 /\ fd = mine
      BY <1>1, <1>4 DEF Holding
    <2>2. \A i, j \in Holding(g, mine) : i = j
      BY DEF InOnce, mine
    <2> QED
      BY <1>5, <2>1, <2>2
  <1>8. InOnce'
    BY <1>1, <1>3, <1>6, <1>7 DEF InOnce, mine
  <1>9. In(g, Me)' => In(g, Me) \/ fd = mine
    <2>1. ASSUME NEW i \in 1 .. n + 1, rooms'[g].members[i] = own
          PROVE  (\E j \in 1 .. n : rooms[g].members[j] = own) \/ fd = mine
      <3>1. i \in 1 .. n \/ i = n + 1
        BY <1>4
      <3> QED
        BY <1>4, <2>1, <3>1
    <2> HIDE DEF n, own
    <2> QED
      BY <1>1, <1>4, <2>1 DEF In, ToSet, own, mine
  <1>10. rooms[g] \in Room /\ rooms'[g].members \in Seq(Listed)
    <2>1. rooms[g] \in Room /\ rooms'[g] \in Room
      BY <1>2, <1>3, RoomTyped, ElementOfSeq
    <2> QED
      BY <2>1 DEF Room
  <1>11. /\ list \in Whole /\ list.type = "GROUP_LIST" /\ list.room = rooms[g].name
         /\ joined \in Whole /\ joined.type = "JOIN_ROOM"
    BY <1>10, EmptySeq DEF Packet, Whole, Letters, MyFds, Room
  <1>12. /\ inbox' \in {inbox, Append(inbox, list), Append(inbox, joined)}
         /\ fd = mine => inbox' = Append(inbox, list)
    BY DEF NewMember, TellsMe, SendsMe, mine
  <1> HIDE DEF list, joined, entry, gl
  <1>13. inbox \in Seq(Whole) /\ Len(inbox) \in Nat /\ DOMAIN inbox = 1 .. Len(inbox)
    BY LenProperties DEF TypeInv, WorldTypeOK
  <1>14. ASSUME NEW p \in Whole, inbox' = Append(inbox, p)
         PROVE  /\ Extended(inbox, inbox') /\ DOMAIN inbox' = 1 .. Len(inbox')
                /\ Len(inbox') = Len(inbox) + 1 /\ inbox'[Len(inbox')] = p
                /\ \A i \in Len(inbox) + 1 .. Len(inbox') : inbox'[i] = p
    BY <1>13, <1>14 DEF Extended
  <1>15. /\ Extended(inbox, inbox') /\ DOMAIN inbox' = 1 .. Len(inbox')
         /\ \A i \in Len(inbox) + 1 .. Len(inbox') : inbox'[i].type # "KICKED"
    <2>1. CASE inbox' = inbox
      BY <1>13, <2>1 DEF Extended
    <2> QED
      BY <1>11, <1>12, <1>14, <2>1
  <1>16. fd = mine => /\ Len(inbox') = Len(inbox) + 1
                      /\ inbox'[Len(inbox')] = list
    BY <1>11, <1>12, <1>14
  <1>17. \A h \in DOMAIN rooms :
           In(h, Me)' =>
             \/ In(h, Me)
             \/ /\ Len(inbox') = Len(inbox) + 1
                /\ inbox'[Len(inbox')].type = "GROUP_LIST"
                /\ inbox'[Len(inbox')].room = rooms[h].name
    BY <1>6, <1>9, <1>11, <1>16
  <1> QED
    BY <1>2, <1>3, <1>8, <1>15, <1>17 DEF RoomsMove

\* An entry that goes: the descriptor of Me is then in the room no more.
LEMMA RoomsShrink ==
    ASSUME TypeInv, FaithfulInv, InOnce, UNCHANGED online,
           NEW g \in DOMAIN rooms, NEW fd, rooms' = WithoutMember(g, fd)
    PROVE  /\ Len(rooms') = Len(rooms) /\ DOMAIN rooms' = DOMAIN rooms
           /\ \A h \in DOMAIN rooms : rooms'[h].name = rooms[h].name
           /\ InOnce'
           /\ \A h \in DOMAIN rooms : In(h, Me)' => In(h, Me)
           /\ fd = FdOf(Me) => ~In(g, Me)'
  <1> DEFINE mine == FdOf(Me)
             own == [name |-> Me, FD |-> mine]
             n == Len(rooms[g].members)
             out == Lowest(Holding(g, fd))
  <1>1. FdOf(Me)' = mine /\ mine' = mine
    BY SameFd
  <1>2. /\ rooms' \in Seq(Room) /\ Len(rooms') = Len(rooms)
        /\ \A h \in 1 .. Len(rooms) : h # g => rooms'[h] = rooms[h]
        /\ rooms'[g].name = rooms[g].name
        /\ Holding(g, fd) = {} => rooms' = rooms
        /\ Holding(g, fd) # {} =>
             /\ out \in 1 .. n
             /\ DOMAIN rooms'[g].members = 1 .. n - 1
             /\ \A k \in 1 .. n - 1 :
                  rooms'[g].members[k] = rooms[g].members[IF k < out THEN k ELSE k + 1]
    BY MemberRemoved
  <1>3. DOMAIN rooms = 1 .. Len(rooms) /\ DOMAIN rooms' = 1 .. Len(rooms)
    BY <1>2 DEF TypeInv, WorldTypeOK
  <1>4. /\ n \in Nat /\ DOMAIN rooms[g].members = 1 .. n
    BY RoomTyped
  <1>5. Holding(g, fd) # {} => out \in Holding(g, fd)
    <2>1. Holding(g, fd) \subseteq Nat
      BY <1>4 DEF Holding
    <2> QED
      BY <2>1, LowestHolds
  <1>6. In(g, Me) <=> Holding(g, mine) # {}
    BY InHolds
  <1> HIDE DEF mine, out, n
  <1>7. \A h \in DOMAIN rooms : h # g => Holding(h, mine)' = Holding(h, mine)
                                       /\ (In(h, Me)' <=> In(h, Me))
    BY <1>1, <1>2, <1>3 DEF Holding, In, mine
  <1>8. CASE Holding(g, fd) = {}
    <2>1. rooms' = rooms /\ (In(g, Me)' <=> In(g, Me)) /\ Holding(g, mine)' = Holding(g, mine)
      BY <1>1, <1>2, <1>8 DEF In, Holding, mine
    <2> QED
      BY <1>1, <1>6, <1>7, <1>8, <2>1 DEF InOnce, mine
  <1>9. CASE Holding(g, fd) # {}
    <2>1. \A k \in 1 .. n - 1 :
            /\ (IF k < out THEN k ELSE k + 1) \in 1 .. n
            /\ (IF k < out THEN k ELSE k + 1) # out
            /\ rooms'[g].members[k] = rooms[g].members[IF k < out THEN k ELSE k + 1]
      BY <1>2, <1>4, <1>9
    <2>2. \A k \in Holding(g, mine)' :
            /\ k \in 1 .. n - 1
            /\ (IF k < out THEN k ELSE k + 1) \in Holding(g, mine) \ {out}
      BY <1>1, <1>2, <1>4, <1>9, <2>1 DEF Holding
    <2>3. \A i, j \in Holding(g, mine) : i = j
      BY DEF InOnce, mine
    <2>4. ASSUME NEW i \in Holding(g, mine)', NEW j \in Holding(g, mine)'
          PROVE  i = j
      <3>1. (IF i < out THEN i ELSE i + 1) = (IF j < out THEN j ELSE j + 1)
        BY <2>2, <2>3
      <3>2. i \in 1 .. n - 1 /\ j \in 1 .. n - 1 /\ out \in 1 .. n
        BY <1>2, <1>9, <2>2
      <3> QED
        BY <1>4, <3>1, <3>2
    <2>5. In(g, Me)' => Holding(g, mine)' # {}
      BY <1>1 DEF In, ToSet, Holding, mine
    <2>6. In(g, Me)' => In(g, Me) /\ fd # mine
      BY <1>5, <1>6, <1>9, <2>2, <2>3, <2>5
    <2>7. InOnce'
      BY <1>1, <1>3, <1>7, <2>4 DEF InOnce, mine
    <2> QED
      BY <1>2, <1>3, <1>7, <2>6, <2>7 DEF mine
  <1> QED
    BY <1>8, <1>9

LEMMA RoomsLeft ==
    ASSUME TypeInv, FaithfulInv, InOnce, UNCHANGED online,
           NEW g \in DOMAIN rooms, NEW u \in Users, NEW fd \in MyFds,
           LeftMember(g, u, fd)
    PROVE  RoomsMove /\ (fd = FdOf(Me) => ~In(g, Me)')
  <1> DEFINE p == Packet("LEAVE_ROOM", fd, u, rooms[g].name)
  <1>1. rooms' = WithoutMember(g, fd) /\ inbox' \in {inbox, Append(inbox, p)}
    BY DEF LeftMember, TellsMe
  <1>2. p \in Whole /\ p.type = "LEAVE_ROOM"
    <2>1. rooms[g].name \in Rooms
      BY RoomTyped DEF Room
    <2> QED
      BY <2>1, EmptySeq DEF Packet, Whole, Letters
  <1> HIDE DEF p
  <1>3. inbox \in Seq(Whole) /\ Len(inbox) \in Nat /\ DOMAIN inbox = 1 .. Len(inbox)
    BY LenProperties DEF TypeInv, WorldTypeOK
  <1>4. /\ Extended(inbox, inbox') /\ DOMAIN inbox' = 1 .. Len(inbox')
        /\ \A i \in Len(inbox) + 1 .. Len(inbox') : inbox'[i].type # "KICKED"
    <2>1. CASE inbox' = inbox
      BY <1>3, <2>1 DEF Extended
    <2>2. CASE inbox' = Append(inbox, p)
      BY <1>2, <1>3, <2>2 DEF Extended
    <2> QED
      BY <1>1, <2>1, <2>2
  <1> QED
    BY <1>1, <1>4, RoomsShrink DEF RoomsMove

LEMMA RoomsKick ==
    ASSUME TypeInv, FaithfulInv, InOnce, UNCHANGED online,
           NEW g \in DOMAIN rooms, NEW u \in Users, NEW fd \in MyFds,
           NEW by, KickedMember(g, u, fd, by)
    PROVE  RoomsMove
  <1> DEFINE p == Packet("KICK_GROUP_MEMBER", fd, u, rooms[g].name)
             kicked == Packet("KICKED", NoFd, NoUser, rooms[g].name)
             n == Cardinality(Holding(g, fd))
             told == [i \in 1 .. n |-> kicked]
  <1>1. /\ rooms' = IF g = 1 THEN WithoutMember(g, fd) ELSE rooms
        /\ \/ inbox' \in {inbox, Append(inbox, p)}
           \/ g = 1 /\ fd = FdOf(Me) /\ inbox' = inbox \o told
    BY DEF KickedMember
  <1>2. /\ p \in Whole /\ p.type = "KICK_GROUP_MEMBER"
        /\ kicked \in Whole /\ kicked.room = rooms[g].name
    <2>1. rooms[g].name \in Rooms
      BY RoomTyped DEF Room
    <2> QED
      BY <2>1, EmptySeq DEF Packet, Whole, Letters, MyFds
  <1>3. n \in Nat
    BY HoldingFinite
  <1> HIDE DEF p, kicked, n
  <1>4. told \in Seq(Whole) /\ Len(told) = n /\ \A i \in 1 .. n : told[i] = kicked
    BY <1>2, <1>3
  <1> HIDE DEF told
  <1>5. inbox \in Seq(Whole) /\ Len(inbox) \in Nat /\ DOMAIN inbox = 1 .. Len(inbox)
    BY LenProperties DEF TypeInv, WorldTypeOK
  <1>6. /\ Extended(inbox, inbox') /\ DOMAIN inbox' = 1 .. Len(inbox')
        /\ \A i \in Len(inbox) + 1 .. Len(inbox') :
             \/ inbox'[i].type # "KICKED"
             \/ g = 1 /\ fd = FdOf(Me) /\ inbox'[i] = kicked
    <2>1. CASE inbox' = inbox
      BY <1>5, <2>1 DEF Extended
    <2>2. CASE inbox' = Append(inbox, p)
      BY <1>2, <1>5, <2>2 DEF Extended
    <2>3. CASE g = 1 /\ fd = FdOf(Me) /\ inbox' = inbox \o told
      <3>1. /\ inbox \o told \in Seq(Whole)
            /\ Len(inbox \o told) = Len(inbox) + n
            /\ \A i \in 1 .. Len(inbox) + n :
                 (inbox \o told)[i] = IF i <= Len(inbox) THEN inbox[i]
                                                         ELSE told[i - Len(inbox)]
        BY <1>4, <1>5, ConcatProperties
      <3>2. inbox' \in Seq(Whole) /\ Len(inbox') = Len(inbox) + n
        BY <2>3, <3>1
      <3>3. \A i \in 1 .. Len(inbox) : inbox'[i] = inbox[i]
        BY <1>3, <1>5, <2>3, <3>1
      <3>4. ASSUME NEW i \in Len(inbox) + 1 .. Len(inbox')
            PROVE  inbox'[i] = kicked
        <4>1. /\ i \in 1 .. Len(inbox) + n /\ ~(i <= Len(inbox))
              /\ i - Len(inbox) \in 1 .. n
          BY <1>3, <1>5, <3>2
        <4> QED
          BY <1>4, <2>3, <3>1, <4>1
      <3> QED
        BY <1>3, <1>5, <2>3, <3>2, <3>3, <3>4 DEF Extended
    <2> QED
      BY <1>1, <2>1, <2>2, <2>3
  <1>7. CASE g = 1
    <2>1. /\ Len(rooms') = Len(rooms) /\ DOMAIN rooms' = DOMAIN rooms
          /\ \A h \in DOMAIN rooms : rooms'[h].name = rooms[h].name
          /\ InOnce'
          /\ \A h \in DOMAIN rooms : In(h, Me)' => In(h, Me)
          /\ fd = FdOf(Me) => ~In(g, Me)'
      BY <1>1, <1>7, RoomsShrink
    <2> QED
      BY <1>2, <1>6, <2>1 DEF RoomsMove
  <1>8. CASE g # 1
    <2>1. rooms' = rooms /\ FdOf(Me)' = FdOf(Me)
      BY <1>1, <1>8, SameFd
    <2>2. InOnce' /\ \A h \in DOMAIN rooms : In(h, Me)' => In(h, Me)
      BY <2>1 DEF InOnce, In, Holding
    <2> QED
      BY <1>6, <1>8, <2>1, <2>2 DEF RoomsMove
  <1> QED
    BY <1>7, <1>8

\* The server takes a packet, and makes no room but that of the packet.
LEMMA SentTaken ==
    ASSUME TypeInv, SentInv, outbox # <<>>, outbox' = Tail(outbox),
           UNCHANGED <<strayed, groupList>>, FdOf(Me)' = FdOf(Me),
           \A name : Made(name)' =>
                       \/ Made(name)
                       \/ Head(outbox).type = "CREATE_ROOM" /\ Head(outbox).room = name
    PROVE  SentInv'
  <1>1. /\ outbox \in Seq(Whole) /\ Len(outbox) \in Nat
        /\ DOMAIN outbox = 1 .. Len(outbox)
    BY LenProperties DEF TypeInv, WorldTypeOK
  <1>2. /\ DOMAIN outbox' = 1 .. Len(outbox) - 1
        /\ 1 \in DOMAIN outbox /\ Head(outbox) = outbox[1] /\ Head(outbox) \in Whole
        /\ \A i \in 1 .. Len(outbox) - 1 :
             /\ i + 1 \in 1 .. Len(outbox) /\ i + 1 # 1 /\ i \in Nat
             /\ outbox'[i] = outbox[i + 1]
    <2>1. /\ Tail(outbox) \in Seq(Whole) /\ Len(Tail(outbox)) = Len(outbox) - 1
          /\ 1 \in DOMAIN outbox /\ Head(outbox) = outbox[1] /\ Head(outbox) \in Whole
          /\ \A i \in 1 .. Len(outbox) - 1 : Tail(outbox)[i] = outbox[i + 1]
      BY <1>1, FirstTaken
    <2>2. DOMAIN Tail(outbox) = 1 .. Len(outbox) - 1
      BY <2>1
    <2>3. \A i \in 1 .. Len(outbox) - 1 :
            i + 1 \in 1 .. Len(outbox) /\ i + 1 # 1 /\ i \in Nat
      BY <1>1
    <2> QED
      BY <2>1, <2>2, <2>3
  <1>3. \A k \in 1 .. Len(outbox) - 1 :
          \A name : Leaving(name, k + 1) => Leaving(name, k)'
    BY <1>2, LeavingKept
  <1>4. ASSUME NEW k \in 1 .. Len(outbox) - 1,
               NEW l \in 1 .. Len(outbox) - 1, k + 1 = l + 1
        PROVE  k = l
    BY <1>1, <1>4
  <1>5. \A name : Called(groupList, name)' = Called(groupList, name)
    BY DEF Called
  <1>6. ASSUME NEW k \in 1 .. Len(outbox) - 1, NEW p, p = outbox[k + 1]
        PROVE  /\ p.type = "CREATE_ROOM" =>
                    /\ ~Made(p.room)'
                    /\ \A l \in 1 .. Len(outbox) - 1 :
                         outbox'[l].type = "CREATE_ROOM"
                         /\ outbox'[l].room = p.room => l = k
                    /\ \/ strayed
                       \/ Called(groupList, p.room) # {}
                       \/ Leaving(p.room, k)'
               /\ p.type = "JOIN_ROOM" => p.name # Me
               /\ p.type = "LEAVE_ROOM" => strayed \/ p.fd = FdOf(Me)
    <2>1. k + 1 \in DOMAIN outbox /\ k + 1 # 1
      BY <1>1, <1>2
    <2>2. \A l \in 1 .. Len(outbox) - 1 :
            /\ l + 1 \in DOMAIN outbox /\ outbox'[l] = outbox[l + 1]
            /\ l + 1 = k + 1 => l = k
      BY <1>1, <1>2, <1>4
    <2>3. CASE p.type = "CREATE_ROOM"
      <3>1. /\ ~Made(p.room)
            /\ \A l \in DOMAIN outbox :
                 outbox[l].type = "CREATE_ROOM" /\ outbox[l].room = p.room => l = k + 1
            /\ strayed \/ Called(groupList, p.room) # {} \/ Leaving(p.room, k + 1)
        BY <1>6, <2>1, <2>3 DEF SentInv
      <3>2. ~(Head(outbox).type = "CREATE_ROOM" /\ Head(outbox).room = p.room)
        BY <1>2, <2>1, <3>1
      <3>3. ~Made(p.room)'
        BY <3>1, <3>2
      <3>4. \A l \in 1 .. Len(outbox) - 1 :
              outbox'[l].type = "CREATE_ROOM" /\ outbox'[l].room = p.room => l = k
        BY <2>2, <3>1
      <3>5. strayed \/ Called(groupList, p.room) # {} \/ Leaving(p.room, k)'
        BY <1>3, <3>1
      <3> QED
        BY <2>3, <3>3, <3>4, <3>5
    <2>4. /\ p.type = "JOIN_ROOM" => p.name # Me
          /\ p.type = "LEAVE_ROOM" => strayed \/ p.fd = FdOf(Me)
      BY <1>6, <2>1 DEF SentInv
    <2> QED
      BY <2>3, <2>4
  <1>7. ASSUME NEW k \in DOMAIN outbox'
        PROVE  /\ outbox'[k].type = "CREATE_ROOM" =>
                    /\ ~\E g \in DOMAIN rooms' : rooms'[g].name = outbox'[k].room
                    /\ \A l \in DOMAIN outbox' :
                         outbox'[l].type = "CREATE_ROOM"
                         /\ outbox'[l].room = outbox'[k].room => l = k
                    /\ \/ strayed
                       \/ Called(groupList, outbox'[k].room) # {}
                       \/ \E l \in DOMAIN outbox' :
                            /\ l > k /\ outbox'[l].type = "LEAVE_ROOM"
                            /\ outbox'[l].room = outbox'[k].room
               /\ outbox'[k].type = "JOIN_ROOM" => outbox'[k].name # Me
               /\ outbox'[k].type = "LEAVE_ROOM" =>
                    strayed \/ outbox'[k].fd = FdOf(Me)
    <2>1. PICK p : p = outbox[k + 1]
      OBVIOUS
    <2>2. k \in 1 .. Len(outbox) - 1 /\ outbox'[k] = p
      BY <1>2, <2>1
    <2>3. /\ p.type = "CREATE_ROOM" =>
               /\ ~Made(p.room)'
               /\ \A l \in 1 .. Len(outbox) - 1 :
                    outbox'[l].type = "CREATE_ROOM"
                    /\ outbox'[l].room = p.room => l = k
               /\ \/ strayed
                  \/ Called(groupList, p.room) # {}
                  \/ Leaving(p.room, k)'
          /\ p.type = "JOIN_ROOM" => p.name # Me
          /\ p.type = "LEAVE_ROOM" => strayed \/ p.fd = FdOf(Me)
      BY <1>6, <2>1, <2>2
    <2> QED
      BY <1>2, <2>2, <2>3 DEF Made, Leaving
  <1> QED
    BY <1>7 DEF SentInv, Made, Leaving, Called

\* What is known survives what the server does, with the packet it took.
LEMMA KnownMoves ==
    ASSUME TypeInv, FaithfulInv, KnownInv, RoomsMove, UNCHANGED clientVars,
           FdOf(Me)' = FdOf(Me),
           \/ outbox' = outbox
           \/ /\ outbox # <<>> /\ outbox' = Tail(outbox)
              /\ Head(outbox).type # "CREATE_ROOM"
              /\ Head(outbox).type = "LEAVE_ROOM" =>
                   \/ strayed
                   \/ \A h \in DOMAIN rooms :
                        rooms[h].name = Head(outbox).room => ~In(h, Me)'
    PROVE  KnownInv'
  <1> DEFINE Took ==
               /\ outbox # <<>> /\ outbox' = Tail(outbox)
               /\ Head(outbox).type # "CREATE_ROOM"
               /\ Head(outbox).type = "LEAVE_ROOM" =>
                    \/ strayed
                    \/ \A h \in DOMAIN rooms :
                         rooms[h].name = Head(outbox).room => ~In(h, Me)'
  <1>0. outbox' = outbox \/ Took
    OBVIOUS
  <1> HIDE DEF Took
  <1>1. /\ outbox \in Seq(Whole) /\ Len(outbox) \in Nat
        /\ DOMAIN outbox = 1 .. Len(outbox)
        /\ Len(inbox) \in Nat /\ DOMAIN inbox = 1 .. Len(inbox)
        /\ Len(inbox') \in Nat /\ Len(inbox) <= Len(inbox')
        /\ DOMAIN inbox' = 1 .. Len(inbox')
        /\ \A i \in 1 .. Len(inbox) : inbox'[i] = inbox[i]
    BY LenProperties DEF TypeInv, WorldTypeOK, RoomsMove, Extended
  <1>2. /\ DOMAIN rooms' = DOMAIN rooms
        /\ \A h \in DOMAIN rooms : rooms'[h].name = rooms[h].name
        /\ \A name : Made(name)' <=> Made(name)
    BY DEF RoomsMove, Made
  <1>3. RoomsApart' /\ InOnce'
    BY <1>2 DEF RoomsMove, RoomsApart, KnownInv
  <1>4. KicksOfRooms'
    <2>1. ASSUME NEW k \in 1 .. Len(inbox'), inbox'[k].type = "KICKED"
          PROVE  Made(inbox'[k].room)
      <3>1. CASE k \in 1 .. Len(inbox)
        BY <1>1, <2>1, <3>1 DEF KnownInv, KicksOfRooms
      <3>2. CASE k \notin 1 .. Len(inbox)
        <4>1. k \in Len(inbox) + 1 .. Len(inbox')
          BY <1>1, <3>2
        <4> QED
          BY <2>1, <4>1 DEF RoomsMove, Made
      <3> QED
        BY <3>1, <3>2
    <2> QED
      BY <1>2, <2>1 DEF KicksOfRooms, RoomsMove
  <1>5. SentInv'
    <2>0. UNCHANGED <<strayed, groupList>>
      BY DEF clientVars
    <2>1. CASE outbox' = outbox
      BY <1>2, <2>0, <2>1 DEF SentInv, KnownInv, Leaving, Called
    <2>2. CASE Took
      <3>1. outbox # <<>> /\ outbox' = Tail(outbox)
        BY <2>2 DEF Took
      <3> QED
        BY <1>2, <2>0, <3>1, SentTaken DEF KnownInv
    <2> QED
      BY <1>0, <2>1, <2>2
  <1>6. ASSUME NEW g \in DOMAIN rooms, In(g, Me)', ~strayed,
               NEW name, name = rooms[g].name
        PROVE  KnownOf(name)'
    <2>1. \A i \in Len(inbox) + 1 .. Len(inbox') :
            ~(inbox'[i].type = "KICKED" /\ inbox'[i].room = name)
      <3> SUFFICES ASSUME NEW i \in Len(inbox) + 1 .. Len(inbox'),
                          inbox'[i].type = "KICKED", inbox'[i].room = name
                   PROVE  FALSE
        OBVIOUS
      <3>1. PICK h \in DOMAIN rooms : inbox'[i].room = rooms[h].name /\ ~In(h, Me)'
        BY DEF RoomsMove
      <3>2. h = g
        BY <1>6, <3>1 DEF KnownInv, RoomsApart
      <3> QED
        BY <1>6, <3>1, <3>2
    <2>2. CASE ~In(g, Me)
      <3>1. /\ Len(inbox') = Len(inbox) + 1
            /\ inbox'[Len(inbox')].type = "GROUP_LIST"
            /\ inbox'[Len(inbox')].room = name
        BY <1>6, <2>2 DEF RoomsMove
      <3>2. /\ Len(inbox') \in DOMAIN inbox'
            /\ \A l \in DOMAIN inbox' : ~(l > Len(inbox'))
        BY <1>1, <3>1
      <3>3. Announced(name)'
        BY <3>1, <3>2 DEF Announced, NotKicked
      <3> QED
        BY <3>3 DEF KnownOf
    <2>3. CASE In(g, Me)
      <3>1. KnownOf(name)
        BY <1>6, <2>3 DEF KnownInv
      <3>2. CASE Leaving(name, 0)
        <4>1. CASE outbox' = outbox
          <5>1. Leaving(name, 0)'
            BY <3>2, <4>1 DEF Leaving
          <5> QED
            BY <5>1 DEF KnownOf
        <4>2. CASE Took
          <5>0. outbox # <<>> /\ outbox' = Tail(outbox)
            BY <4>2 DEF Took
          <5>1. ~(Head(outbox).type = "LEAVE_ROOM" /\ Head(outbox).room = name)
            BY <1>6, <4>2 DEF Took
          <5>2. Head(outbox) \in Whole /\ 0 \in Nat
            BY <1>1, <5>0, FirstTaken
          <5>3. Leaving(name, 0)'
            BY <3>2, <5>0, <5>1, <5>2, LeavingKept
          <5> QED
            BY <5>3 DEF KnownOf
        <4> QED
          BY <1>0, <4>1, <4>2
      <3>3. CASE Announced(name) \/ (Called(groupList, name) # {} /\ NotKicked(name, 0))
        <4>1. /\ NotKicked(name, 0) => NotKicked(name, 0)'
              /\ Announced(name) => Announced(name)'
          BY <2>1, AnnouncedKept DEF RoomsMove
        <4>2. Called(groupList, name)' = Called(groupList, name)
          BY <1>2 DEF clientVars, Called
        <4> QED
          BY <3>3, <4>1, <4>2 DEF KnownOf, clientVars
      <3> QED
        BY <3>1, <3>2, <3>3 DEF KnownOf
    <2> QED
      BY <2>2, <2>3
  <1>7. \A g \in DOMAIN rooms' : In(g, Me)' => strayed \/ KnownOf(rooms[g].name)'
    BY <1>2, <1>6 DEF KnownOf, Leaving, Announced, NotKicked, Called
  <1> QED
    BY <1>2, <1>3, <1>4, <1>5, <1>7 DEF KnownInv, clientVars

\* Who is connected changes, or the queues do, and no room.
LEMMA RoomsQuiet ==
    ASSUME TypeInv, TypeInv', InOnce, rooms' = rooms, FdOf(Me)' = FdOf(Me),
           \/ inbox' = inbox
           \/ \E p : p.type # "KICKED" /\ inbox' = Append(inbox, p)
    PROVE  RoomsMove
  <1>1. inbox \in Seq(Whole) /\ Len(inbox) \in Nat /\ DOMAIN inbox = 1 .. Len(inbox)
    BY LenProperties DEF TypeInv, WorldTypeOK
  <1>2. /\ Extended(inbox, inbox') /\ DOMAIN inbox' = 1 .. Len(inbox')
        /\ \A i \in Len(inbox) + 1 .. Len(inbox') : inbox'[i].type # "KICKED"
    <2>1. CASE inbox' = inbox
      BY <1>1, <2>1 DEF Extended
    <2>2. ASSUME NEW p, p.type # "KICKED", inbox' = Append(inbox, p)
          PROVE  /\ Extended(inbox, inbox') /\ DOMAIN inbox' = 1 .. Len(inbox')
                 /\ \A i \in Len(inbox) + 1 .. Len(inbox') : inbox'[i].type # "KICKED"
      <3>0. p \in Whole
        <4>1. inbox \in Seq(Whole \cup {p}) /\ p \in Whole \cup {p}
          BY <1>1
        <4>2. /\ Len(Append(inbox, p)) = Len(inbox) + 1
              /\ Append(inbox, p)[Len(inbox) + 1] = p
          BY <4>1, AppendProperties
        <4>3. inbox' \in Seq(Whole) /\ Len(inbox) + 1 \in 1 .. Len(inbox')
          <5>1. Len(inbox') = Len(inbox) + 1
            BY <2>2, <4>2
          <5>2. inbox' \in Seq(Whole)
            BY DEF TypeInv, WorldTypeOK
          <5> QED
            BY <1>1, <5>1, <5>2
        <4>4. inbox'[Len(inbox) + 1] \in Whole
          BY <4>3, ElementOfSeq
        <4> QED
          BY <2>2, <4>2, <4>4
      <3>1. /\ Extended(inbox, inbox') /\ Len(inbox') = Len(inbox) + 1
            /\ inbox'[Len(inbox) + 1] = p
        BY <1>1, <2>2, <3>0, AppendExtends
      <3>2. inbox' \in Seq(Whole)
        BY <1>1, <2>2, <3>0, AppendProperties
      <3>3. \A i \in Len(inbox) + 1 .. Len(inbox') : i = Len(inbox) + 1
        BY <1>1, <3>1
      <3> QED
        BY <2>2, <3>1, <3>2, <3>3
    <2> QED
      BY <2>1, <2>2
  <1>3. InOnce' /\ \A h \in DOMAIN rooms : In(h, Me)' <=> In(h, Me)
    BY DEF InOnce, In, Holding
  <1> QED
    BY <1>2, <1>3 DEF RoomsMove

\* A room that is made: nobody has been thrown out of it, and Me is in it until
\* it leaves.
LEMMA KnownCreated ==
    ASSUME TypeInv, FaithfulInv, KnownInv, ServeCreateRoom, UNCHANGED clientVars
    PROVE  KnownInv'
  <1> DEFINE p == Head(outbox)
             entry == [name |-> Me, FD |-> FdOf(Me)]
             room == [name |-> p.room, admin |-> Me, members |-> <<entry>>]
  <1>0. PICK n \in Nat, mine \in Fds : n = Len(rooms) + 1 /\ mine = FdOf(Me)
    <2>1. Len(rooms) \in Nat /\ FdOf(Me) \in Fds
      BY MyDescriptor DEF TypeInv, WorldTypeOK
    <2> QED
      BY <2>1
  <1>1. /\ outbox # <<>> /\ p.type = "CREATE_ROOM" /\ outbox' = Tail(outbox)
        /\ UNCHANGED <<online, inbox, groupList, strayed>>
        /\ rooms' = Append(rooms, room)
    BY DEF ServeCreateRoom, ServeNext, clientVars
  <1>2. /\ outbox \in Seq(Whole) /\ Len(outbox) \in Nat
        /\ DOMAIN outbox = 1 .. Len(outbox) /\ rooms \in Seq(Room)
        /\ Len(rooms) \in Nat /\ DOMAIN rooms = 1 .. Len(rooms)
    BY LenProperties DEF TypeInv, WorldTypeOK, Room
  <1>3. /\ 1 \in DOMAIN outbox /\ p = outbox[1] /\ p \in Whole
        /\ DOMAIN outbox' = 1 .. Len(outbox) - 1
        /\ \A i \in 1 .. Len(outbox) - 1 : outbox'[i] = outbox[i + 1]
    <2>1. /\ 1 \in DOMAIN outbox /\ p = outbox[1] /\ p \in Whole
          /\ Tail(outbox) \in Seq(Whole) /\ Len(Tail(outbox)) = Len(outbox) - 1
          /\ \A i \in 1 .. Len(outbox) - 1 : Tail(outbox)[i] = outbox[i + 1]
      BY <1>1, <1>2, FirstTaken
    <2>2. DOMAIN Tail(outbox) = 1 .. Len(outbox) - 1
      BY <2>1
    <2> HIDE DEF p
    <2> QED
      BY <1>1, <2>1, <2>2
  <1>4. room.name = p.room /\ room.members = <<entry>>
    OBVIOUS
  <1> HIDE DEF room
  <1>5. /\ DOMAIN rooms' = 1 .. n
        /\ \A g \in 1 .. Len(rooms) : rooms'[g] = rooms[g]
        /\ rooms'[n] = room
        /\ \A g \in 1 .. n : g = n \/ g \in 1 .. Len(rooms)
    <2> HIDE DEF p
    <2> QED
      BY <1>0, <1>1, <1>2
  <1>6. FdOf(Me)' = mine
    BY <1>0, <1>1, SameFd
  <1>7. /\ ~Made(p.room)
        /\ \A l \in DOMAIN outbox :
             outbox[l].type = "CREATE_ROOM" /\ outbox[l].room = p.room => l = 1
        /\ strayed \/ Called(groupList, p.room) # {} \/ Leaving(p.room, 1)
    BY <1>1, <1>3 DEF KnownInv, SentInv
  <1> HIDE DEF p, entry
  <1>8. \A g \in 1 .. Len(rooms) : rooms[g].name # p.room
    BY <1>2, <1>7 DEF Made
  <1>9. \A name : Made(name)' <=> Made(name) \/ name = p.room
    BY <1>0, <1>2, <1>4, <1>5 DEF Made
  <1>10. RoomsApart'
    BY <1>0, <1>2, <1>4, <1>5, <1>8 DEF RoomsApart, KnownInv
  <1>12. InOnce'
    <2>1. ASSUME NEW g \in 1 .. n, NEW i \in Holding(g, mine)',
                 NEW j \in Holding(g, mine)'
          PROVE  i = j
      <3>1. CASE g = n
        <4>1. rooms'[g].members = <<entry>>
          BY <1>4, <1>5, <3>1
        <4>2. DOMAIN <<entry>> = {1}
          OBVIOUS
        <4> QED
          BY <2>1, <4>1, <4>2 DEF Holding
      <3>2. CASE g \in 1 .. Len(rooms)
        <4>1. Holding(g, mine)' = Holding(g, mine)
          BY <1>5, <3>2 DEF Holding
        <4>2. \A k, l \in Holding(g, mine) : k = l
          BY <1>0, <1>2, <3>2 DEF InOnce, KnownInv
        <4> QED
          BY <2>1, <4>1, <4>2
      <3> QED
        BY <1>5, <3>1, <3>2
    <2> QED
      BY <1>5, <1>6, <2>1 DEF InOnce, Holding
  <1>13. KicksOfRooms'
    BY <1>1, <1>9 DEF KicksOfRooms, KnownInv
  <1>14. SentInv'
    BY <1>0, <1>1, <1>6, <1>9, SentTaken DEF KnownInv, p
  <1>15. ASSUME NEW g \in 1 .. n, NEW name, name = rooms'[g].name,
                In(g, Me)', ~strayed
         PROVE  KnownOf(name)'
    <2>1. Announced(name) => Announced(name)'
      BY <1>1 DEF Announced, NotKicked
    <2>2. NotKicked(name, 0) => NotKicked(name, 0)'
      BY <1>1 DEF NotKicked
    <2>3. Called(groupList, name)' = Called(groupList, name)
      BY <1>1 DEF Called
    <2>4. CASE g = n
      <3>1. name = p.room
        BY <1>4, <1>5, <1>15, <2>4
      <3>2. NotKicked(name, 0)
        BY <1>7, <3>1 DEF NotKicked, KicksOfRooms, KnownInv
      <3>3. Leaving(name, 1) => Leaving(name, 0)'
        <4>1. 0 \in Nat /\ 0 + 1 = 1
          OBVIOUS
        <4> QED
          BY <1>1, <1>3, <4>1, LeavingKept
      <3> QED
        BY <1>7, <1>15, <2>2, <2>3, <3>1, <3>2, <3>3 DEF KnownOf
    <2>5. CASE g \in 1 .. Len(rooms)
      <3>1. name = rooms[g].name /\ In(g, Me)
        <4>1. rooms'[g] = rooms[g] /\ (In(g, Me)' <=> In(g, Me))
          BY <1>0, <1>5, <1>6, <2>5 DEF In
        <4> QED
          BY <1>15, <4>1
      <3>2. KnownOf(name)
        BY <1>2, <1>15, <2>5, <3>1 DEF KnownInv
      <3>3. Leaving(name, 0) => Leaving(name, 0)'
        <4>1. 0 \in Nat
          OBVIOUS
        <4>2. ~(Head(outbox).type = "LEAVE_ROOM" /\ Head(outbox).room = name)
          BY <1>1 DEF p
        <4> QED
          BY <1>1, <1>3, <4>1, <4>2, LeavingKept
      <3> QED
        BY <2>1, <2>2, <2>3, <3>2, <3>3 DEF KnownOf
    <2> QED
      BY <1>5, <2>4, <2>5
  <1>16. \A g \in DOMAIN rooms' : In(g, Me)' => strayed \/ KnownOf(rooms[g].name)'
    BY <1>5, <1>15 DEF KnownOf, Leaving, Announced, NotKicked, Called
  <1> QED
    BY <1>1, <1>10, <1>12, <1>13, <1>14, <1>16 DEF KnownInv

LEMMA KnownOthers ==
    ASSUME TypeInv, FaithfulInv, KnownInv, OthersAct, TypeInv',
           UNCHANGED clientVars, FdOf(Me)' = FdOf(Me)
    PROVE  KnownInv'
  <1> USE ClientWorldAssumption
  <1>1. /\ InOnce /\ FdOf(Me) \in MyFds /\ online[FdOf(Me)] = Me
        /\ IsOnline(Me)
    BY MyDescriptor DEF KnownInv, MyFds, TypeInv, WorldTypeOK
  <1>2. RoomsMove /\ outbox' = outbox => KnownInv'
    BY KnownMoves
  <1>3. ASSUME NEW u \in Users \ {Me}, NewUser(u)
        PROVE  KnownInv'
    <2> DEFINE p == Packet("USER_JOINED_SERVER", Lowest(Fds \ OnlineFds), u, NoRoom)
    <2>1. /\ rooms' = rooms /\ outbox' = outbox
          /\ inbox' = inbox \/ inbox' = Append(inbox, p)
      BY <1>3 DEF NewUser, SendsMe
    <2>2. p.type # "KICKED"
      BY DEF Packet
    <2>3. RoomsMove
      BY <1>1, <2>1, <2>2, RoomsQuiet
    <2> QED
      BY <1>2, <2>1, <2>3
  <1>4. ASSUME NEW u \in Users \ {Me}, LeftUser(u)
        PROVE  KnownInv'
    <2> DEFINE p == Packet("USER_LEFT", FdOf(u), NoUser, NoRoom)
    <2>1. /\ rooms' = rooms /\ outbox' = outbox
          /\ inbox' = inbox \/ inbox' = Append(inbox, p)
      BY <1>4 DEF LeftUser, SendsMe
    <2>2. p.type # "KICKED"
      BY DEF Packet
    <2>3. RoomsMove
      BY <1>1, <2>1, <2>2, RoomsQuiet
    <2> QED
      BY <1>2, <2>1, <2>3
  <1>5. ASSUME NEW g \in DOMAIN rooms, UNCHANGED <<online, been, me, outbox>>,
               \/ InvitesMe(g)
               \/ \E u \in Users \ {Me} : Invites(g, u) \/ Leaves(g, u)
               \/ \E u \in Users : Kicks(g, u)
        PROVE  KnownInv'
    <2>1. ASSUME NEW u \in Users, IsOnline(u)
          PROVE  /\ FdOf(u) \in MyFds
                 /\ FdOf(u) = FdOf(Me) => u = Me
      BY <1>1, <2>1, FdOfHolds DEF MyFds
    <2>2. CASE InvitesMe(g)
      <3>1. NewMember(g, Me, FdOf(Me)) /\ ~In(g, Me)
        BY <2>2 DEF InvitesMe
      <3>2. RoomsMove
        BY <1>1, <1>5, <3>1, RoomsGrow
      <3> QED
        BY <1>2, <1>5, <3>2
    <2>3. ASSUME NEW u \in Users \ {Me}, Invites(g, u)
          PROVE  KnownInv'
      <3>1. NewMember(g, u, FdOf(u)) /\ FdOf(u) \in MyFds /\ FdOf(u) # FdOf(Me)
        BY <2>1, <2>3 DEF Invites
      <3>2. RoomsMove
        BY <1>1, <1>5, <3>1, RoomsGrow
      <3> QED
        BY <1>2, <1>5, <3>2
    <2>4. ASSUME NEW u \in Users, Leaves(g, u)
          PROVE  KnownInv'
      <3>1. LeftMember(g, u, FdOf(u)) /\ FdOf(u) \in MyFds
        BY <2>1, <2>4 DEF Leaves
      <3>2. RoomsMove
        BY <1>1, <1>5, <3>1, RoomsLeft
      <3> QED
        BY <1>2, <1>5, <3>2
    <2>5. ASSUME NEW u \in Users, Kicks(g, u)
          PROVE  KnownInv'
      <3>1. KickedMember(g, u, FdOf(u), rooms[g].admin) /\ FdOf(u) \in MyFds
        BY <2>1, <2>5 DEF Kicks
      <3>2. RoomsMove
        BY <1>1, <1>5, <3>1, RoomsKick
      <3> QED
        BY <1>2, <1>5, <3>2
    <2> QED
      BY <1>5, <2>2, <2>3, <2>4, <2>5
  <1> QED
    BY <1>3, <1>4, <1>5 DEF OthersAct

LEMMA KnownServed ==
    ASSUME TypeInv, FaithfulInv, KnownInv, Serves, TypeInv',
           UNCHANGED clientVars, FdOf(Me)' = FdOf(Me)
    PROVE  KnownInv'
  <1> USE ClientWorldAssumption
  <1>1. /\ InOnce /\ RoomsApart /\ SentInv
        /\ FdOf(Me) \in Fds /\ online[FdOf(Me)] = Me
        /\ outbox \in Seq(Whole) /\ QueueFaithful(online, been, outbox)
    BY MyDescriptor DEF KnownInv, TypeInv, WorldTypeOK, FaithfulInv, WorldFaithful
  <1>2. CASE IntroduceMe
    <2>1. /\ outbox # <<>> /\ outbox' = Tail(outbox) /\ Head(outbox).type = "INTRO"
          /\ rooms' = rooms /\ inbox' = inbox
      BY <1>2 DEF IntroduceMe
    <2>2. RoomsMove
      BY <1>1, <2>1, RoomsQuiet
    <2> QED
      BY <2>1, <2>2, KnownMoves
  <1>3. CASE SendListToMe
    <2> DEFINE fds == SetToSeq(OnlineFds)
               list == [i \in DOMAIN fds |-> Entry(fds[i])]
               blank == Packet("CLIENT_LIST", NoFd, Me, NoRoom)
               p == [blank EXCEPT !.list = list]
    <2>1. inbox' = Append(inbox, p) /\ rooms' = rooms /\ outbox' = outbox
      BY <1>3 DEF SendListToMe, SendsMe
    <2> HIDE DEF list
    <2>2. p.type # "KICKED"
      BY DEF Packet
    <2> HIDE DEF p
    <2>3. RoomsMove
      BY <1>1, <2>1, <2>2, RoomsQuiet
    <2> QED
      BY <2>1, <2>3, KnownMoves
  <1>4. ASSUME NEW type, ServeNext(type)
        PROVE  /\ outbox # <<>> /\ outbox' = Tail(outbox) /\ online' = online
               /\ Head(outbox).type = type
               /\ 1 \in DOMAIN outbox /\ Head(outbox) = outbox[1]
               /\ Head(outbox) \in Whole /\ Head(outbox).fd \in MyFds
               /\ PacketFaithful(online, been, Head(outbox))
    BY <1>1, <1>4, FirstTaken, TailFaithful DEF ServeNext, Whole, Letters
  <1>5. CASE ServeJoinRoom
    <2>1. PICK g \in DOMAIN rooms : NewMember(g, Head(outbox).name, Head(outbox).fd)
      BY <1>5 DEF ServeJoinRoom, Numbers
    <2>2. ServeNext("JOIN_ROOM")
      BY <1>5 DEF ServeJoinRoom
    <2>3. Head(outbox).name \in Users /\ Head(outbox).name # Me
      BY <1>1, <1>4, <2>2 DEF Whole, SentInv
    <2>4. Head(outbox).fd # FdOf(Me)
      <3>1. Faithful(online, been, [name |-> Head(outbox).name, FD |-> Head(outbox).fd])
        BY <1>4, <2>2 DEF PacketFaithful
      <3> QED
        BY <1>1, <2>3, <3>1 DEF Faithful
    <2>5. RoomsMove
      BY <1>1, <1>4, <2>1, <2>2, <2>3, <2>4, RoomsGrow
    <2> QED
      BY <1>4, <2>2, <2>5, KnownMoves
  <1>6. CASE ServeKick
    <2>1. PICK g \in DOMAIN rooms :
            KickedMember(g, Head(outbox).name, Head(outbox).fd, Me)
      BY <1>6 DEF ServeKick, Numbers
    <2>2. ServeNext("KICK_GROUP_MEMBER")
      BY <1>6 DEF ServeKick
    <2>3. Head(outbox).name \in Users
      BY <1>4, <2>2 DEF Whole
    <2>4. RoomsMove
      BY <1>1, <1>4, <2>1, <2>2, <2>3, RoomsKick
    <2> QED
      BY <1>4, <2>2, <2>4, KnownMoves
  <1>7. CASE ServeLeaveRoom
    <2>1. PICK g \in DOMAIN rooms : /\ rooms[g].name = Head(outbox).room
                                    /\ LeftMember(g, Me, Head(outbox).fd)
      BY <1>7 DEF ServeLeaveRoom, Numbers
    <2>2. ServeNext("LEAVE_ROOM")
      BY <1>7 DEF ServeLeaveRoom
    <2>3. RoomsMove /\ (Head(outbox).fd = FdOf(Me) => ~In(g, Me)')
      BY <1>1, <1>4, <2>1, <2>2, RoomsLeft
    <2>4. strayed \/ Head(outbox).fd = FdOf(Me)
      BY <1>1, <1>4, <2>2 DEF SentInv
    <2>5. \A h \in DOMAIN rooms : rooms[h].name = Head(outbox).room => h = g
      BY <1>1, <2>1 DEF RoomsApart
    <2>6. \/ strayed
          \/ \A h \in DOMAIN rooms : rooms[h].name = Head(outbox).room => ~In(h, Me)'
      BY <2>3, <2>4, <2>5
    <2> QED
      BY <1>4, <2>2, <2>3, <2>6, KnownMoves
  <1>8. CASE ServeOther
    <2>1. PICK type \in {"CHAT", "GROUP_CHAT", "USER_LEFT"} : ServeNext(type)
      BY <1>8 DEF ServeOther
    <2>2. rooms' = rooms /\ inbox' = inbox
      BY <1>8 DEF ServeOther
    <2>3. RoomsMove
      BY <1>1, <2>2, RoomsQuiet
    <2> QED
      BY <1>4, <2>1, <2>3, KnownMoves
  <1> QED
    BY <1>2, <1>3, <1>5, <1>6, <1>7, <1>8, KnownCreated DEF Serves

LEMMA KnownWorld ==
    ASSUME TypeInv, FaithfulInv, KnownInv, WorldStep
    PROVE  KnownInv'
  <1>1. Next /\ UNCHANGED clientVars
    BY DEF Next, WorldStep
  <1>2. FdOf(Me)' = FdOf(Me) /\ TypeInv'
    BY <1>1, SameDescriptor, NextTypes
  <1> QED
    BY <1>1, <1>2, KnownOthers, KnownServed DEF WorldStep

\* Which names there are groups of, after each change to a list of groups.
LEMMA NamesKept ==
    ASSUME NEW list \in Seq(SizedGroup), NEW name, NEW members,
           Called(list, name) # {} => members \in SizedList
    PROVE  \A n : Called(WithMembers(list, name, members), n) = Called(list, n)
  <1> DEFINE new == WithMembers(list, name, members)
  <1>1. /\ new \in Seq(SizedGroup) /\ Len(new) = Len(list)
        /\ \A g \in 1 .. Len(list) : new[g].name = list[g].name
    BY MembersChange
  <1> HIDE DEF new
  <1>2. DOMAIN new = 1 .. Len(list) /\ DOMAIN list = 1 .. Len(list)
    BY <1>1
  <1>3. \A n : Called(new, n) = Called(list, n)
    BY <1>1, <1>2 DEF Called
  <1> QED
    BY <1>3 DEF new

LEMMA NameAdded ==
    ASSUME NEW list \in Seq(SizedGroup), NEW group \in SizedGroup
    PROVE  LET new == addGroupInGroupList(list, group)
           IN  /\ \A n : Called(list, n) # {} => Called(new, n) # {}
               /\ Called(new, group.name) # {}
  <1>1. PICK copy \in SizedGroup :
          /\ addGroupInGroupList(list, group) = Append(list, copy)
          /\ copy.name = group.name
    BY GroupCopied
  <1>2. Len(list) \in Nat /\ DOMAIN list = 1 .. Len(list)
    BY LenProperties
  <1>3. /\ DOMAIN Append(list, copy) = 1 .. Len(list) + 1
        /\ Append(list, copy)[Len(list) + 1] = copy
        /\ \A g \in 1 .. Len(list) : /\ g \in 1 .. Len(list) + 1
                                     /\ Append(list, copy)[g] = list[g]
        /\ Len(list) + 1 \in 1 .. Len(list) + 1
    <2>1. /\ Append(list, copy) \in Seq(SizedGroup)
          /\ Len(Append(list, copy)) = Len(list) + 1
          /\ Append(list, copy)[Len(list) + 1] = copy
          /\ \A g \in 1 .. Len(list) : Append(list, copy)[g] = list[g]
      BY <1>2, AppendProperties
    <2>2. DOMAIN Append(list, copy) = 1 .. Len(list) + 1
      BY <2>1, LenProperties
    <2> QED
      BY <1>2, <2>1, <2>2
  <1> QED
    BY <1>1, <1>2, <1>3 DEF Called

LEMMA NameRemoved ==
    ASSUME NEW list \in Seq(SizedGroup), NEW name, NEW n, n # name,
           Called(list, n) # {}
    PROVE  Called(removeGroupFromGroupList(list, name), n) # {}
  <1> DEFINE new == removeGroupFromGroupList(list, name)
  <1>1. CASE Called(list, name) = {}
    BY <1>1 DEF removeGroupFromGroupList
  <1>2. CASE Called(list, name) # {}
    <2> DEFINE first == First(Called(list, name))
               m == Len(list)
               filled == [list EXCEPT ![first] = list[m]]
    <2>1. first \in 1 .. m /\ list[first].name = name
      BY <1>2, FirstHolds
    <2>2. m \in Nat /\ m \in 1 .. m /\ DOMAIN list = 1 .. m
      BY <2>1
    <2>3. list[m] \in SizedGroup
      BY <2>2, ElementOfSeq
    <2>4. /\ filled \in Seq(SizedGroup) /\ Len(filled) = m
          /\ \A g \in 1 .. m : filled[g] = IF g = first THEN list[m] ELSE list[g]
      BY <2>1, <2>3, ExceptSeq
    <2>5. new = SubSeq(filled, 1, m - 1)
      BY <1>2, <2>4 DEF removeGroupFromGroupList, Front, Last
    <2> HIDE DEF filled, first, m, new
    <2>6. \A g \in 1 .. m - 1 : filled[g] \in SizedGroup
      BY <2>2, <2>4, ElementOfSeq
    <2>7. /\ new \in Seq(SizedGroup) /\ Len(new) = m - 1
          /\ \A g \in 1 .. m - 1 : new[g] = filled[g]
      BY <2>2, <2>5, <2>6, SubSeqProperties
    <2>8. DOMAIN new = 1 .. m - 1
      BY <2>7
    <2>9. PICK g \in 1 .. m : list[g].name = n
      BY <2>2 DEF Called
    <2>10. \E h \in 1 .. m - 1 : new[h].name = n
      <3>1. CASE g = m
        <4>1. first \in 1 .. m - 1
          BY <2>1, <2>2, <2>9, <3>1
        <4>2. new[first] = list[m]
          BY <2>1, <2>4, <2>7, <4>1
        <4> QED
          BY <2>9, <3>1, <4>1, <4>2
      <3>2. CASE g # m
        <4>1. g \in 1 .. m - 1 /\ g # first
          BY <2>1, <2>2, <2>9, <3>2
        <4>2. new[g] = list[g]
          BY <2>4, <2>7, <2>9, <4>1
        <4> QED
          BY <2>9, <4>1, <4>2
      <3> QED
        BY <3>1, <3>2
    <2> QED
      BY <2>8, <2>10 DEF Called, new
  <1> QED
    BY <1>1, <1>2

\* A packet is taken: a group goes only by its KICKED, and a GROUP_LIST makes one.
LEMMA KnownTaken ==
    ASSUME TypeInv, KnownInv, inbox # <<>>, Take, strayed' = strayed,
           \A name : Called(groupList, name) # {} =>
                       \/ Called(groupList', name) # {}
                       \/ inbox[1].type = "KICKED" /\ inbox[1].room = name,
           inbox[1].type = "GROUP_LIST" => Called(groupList', inbox[1].room) # {}
    PROVE  KnownInv'
  <1>1. /\ UNCHANGED <<online, rooms, outbox>> /\ inbox' = Tail(inbox)
        /\ FdOf(Me)' = FdOf(Me)
    BY SameFd DEF Take, serverVars
  <1>2. /\ inbox \in Seq(Whole) /\ Len(inbox) \in Nat /\ DOMAIN inbox = 1 .. Len(inbox)
        /\ outbox \in Seq(Whole)
    BY LenProperties DEF TypeInv, WorldTypeOK
  <1>3. /\ 1 \in DOMAIN inbox /\ DOMAIN inbox' = 1 .. Len(inbox) - 1
        /\ \A i \in 1 .. Len(inbox) - 1 : i + 1 \in DOMAIN inbox
                                          /\ inbox'[i] = inbox[i + 1]
    <2>1. /\ 1 \in DOMAIN inbox
          /\ Tail(inbox) \in Seq(Whole) /\ Len(Tail(inbox)) = Len(inbox) - 1
          /\ \A i \in 1 .. Len(inbox) - 1 : Tail(inbox)[i] = inbox[i + 1]
      BY <1>2, FirstTaken
    <2>2. DOMAIN Tail(inbox) = 1 .. Len(inbox) - 1
      BY <2>1
    <2>3. \A i \in 1 .. Len(inbox) - 1 : i + 1 \in DOMAIN inbox
      BY <1>2
    <2> QED
      BY <1>1, <2>1, <2>2, <2>3
  <1>4. RoomsApart' /\ InOnce'
    BY <1>1 DEF KnownInv, RoomsApart, InOnce, Holding
  <1>5. KicksOfRooms'
    <2>1. \A k \in DOMAIN inbox' :
            inbox'[k].type = "KICKED" => Made(inbox'[k].room)
      BY <1>3 DEF KnownInv, KicksOfRooms
    <2> QED
      BY <1>1, <2>1 DEF KicksOfRooms, Made
  <1>6. inbox[1].type = "KICKED" => Made(inbox[1].room)
    BY <1>3 DEF KnownInv, KicksOfRooms
  <1>7. SentInv'
    <2>1. ASSUME NEW k \in DOMAIN outbox, outbox[k].type = "CREATE_ROOM",
                 Called(groupList, outbox[k].room) # {}
          PROVE  Called(groupList', outbox[k].room) # {}
      <3>1. ~Made(outbox[k].room)
        BY <2>1 DEF KnownInv, SentInv
      <3> QED
        BY <1>6, <2>1, <3>1
    <2>2. SentInv
      BY DEF KnownInv
    <2> QED
      BY <1>1, <2>1, <2>2 DEF SentInv, Made, Leaving, Called
  <1>8. ASSUME NEW g \in DOMAIN rooms, NEW name, name = rooms[g].name,
               In(g, Me), ~strayed
        PROVE  KnownOf(name)'
    <2>1. KnownOf(name)
      BY <1>8 DEF KnownInv
    <2>2. CASE Leaving(name, 0)
      <3>1. Leaving(name, 0)'
        BY <1>1, <2>2 DEF Leaving
      <3> QED
        BY <3>1 DEF KnownOf
    <2>3. CASE Announced(name)
      <3>1. \/ Announced(name)'
            \/ /\ inbox[1].type = "GROUP_LIST" /\ inbox[1].room = name
               /\ NotKicked(name, 0)'
        BY <1>1, <2>3, AnnouncedKept
      <3>2. inbox[1].type = "GROUP_LIST" /\ inbox[1].room = name =>
              (Called(groupList, name) # {})'
        BY DEF Called
      <3> QED
        BY <3>1, <3>2 DEF KnownOf
    <2>4. CASE Called(groupList, name) # {} /\ NotKicked(name, 0)
      <3>1. NotKicked(name, 0)'
        BY <1>1, <2>4, AnnouncedKept
      <3>2. ~(inbox[1].type = "KICKED" /\ inbox[1].room = name)
        <4>1. 1 > 0
          OBVIOUS
        <4> QED
          BY <1>3, <2>4, <4>1 DEF NotKicked
      <3>3. Called(groupList', name) # {}
        BY <2>4, <3>2
      <3> QED
        BY <3>1, <3>3 DEF KnownOf, Called
    <2> QED
      BY <2>1, <2>2, <2>3, <2>4 DEF KnownOf
  <1>9. \A g \in DOMAIN rooms' : In(g, Me)' => strayed' \/ KnownOf(rooms[g].name)'
    <2>1. ASSUME NEW g \in DOMAIN rooms, In(g, Me)', ~strayed
          PROVE  KnownOf(rooms[g].name)'
      <3>1. PICK name : name = rooms[g].name
        OBVIOUS
      <3>2. In(g, Me)
        BY <1>1, <2>1 DEF In
      <3>3. KnownOf(name)'
        BY <1>8, <2>1, <3>1, <3>2
      <3>4. name = rooms'[g].name
        BY <1>1, <3>1
      <3> QED
        BY <3>3, <3>4 DEF KnownOf, Leaving, Announced, NotKicked, Called
    <2> QED
      BY <1>1, <2>1
  <1> QED
    BY <1>4, <1>5, <1>7, <1>9 DEF KnownInv

LEMMA KnownReceive ==
    ASSUME TypeInv, KnownInv, ReceiveThread
    PROVE  KnownInv'
  <1>1. groupList \in Seq(SizedGroup)
    BY DEF TypeInv
  <1>2. ASSUME UNCHANGED <<worldVars, groupList, strayed>>
        PROVE  KnownInv'
    BY <1>2 DEF KnownInv, RoomsApart, InOnce, KicksOfRooms, SentInv, KnownOf, Holding,
       In, FdOf, Made, Leaving, Announced, NotKicked, Called, worldVars, serverVars
  <1>3. ASSUME NEW type, NEW p \in Arrived(type), Take, strayed' = strayed,
               \A name : Called(groupList, name) # {} =>
                           \/ Called(groupList', name) # {}
                           \/ type = "KICKED" /\ p.room = name,
               type = "GROUP_LIST" => Called(groupList', p.room) # {}
        PROVE  KnownInv'
    <2>1. inbox # <<>> /\ p = inbox[1] /\ p.type = type
      BY ArrivedPacket
    <2> QED
      BY <1>3, <2>1, KnownTaken
  <1>4. ASSUME NEW type, NEW p \in Arrived(type), type # "GROUP_LIST", Take,
               UNCHANGED <<groupList, strayed>>
        PROVE  KnownInv'
    BY <1>3, <1>4
  <1>5. CASE addJoinedUserInUserList \/ receiveUserList \/ handleLeftUser
    BY <1>4, <1>5 DEF addJoinedUserInUserList, receiveUserList, handleLeftUser
  <1>6. CASE AddListedUser \/ SetNoChat
    BY <1>2, <1>6 DEF AddListedUser, SetNoChat
  <1>7. CASE receiveGroupList
    <2>1. PICK p \in Arrived("GROUP_LIST") :
            ChangesGroups(addGroupInGroupList(groupList,
                            NewGroup(p.room, p.name, MembersFrom(p.list))))
      BY <1>7 DEF receiveGroupList
    <2> DEFINE group == NewGroup(p.room, p.name, MembersFrom(p.list))
    <2>2. p \in Whole /\ p \in Letters /\ p.type = "GROUP_LIST"
      BY ArrivedPacket
    <2>3. MembersFrom(p.list) \in SizedList
      BY <2>2, ListedMembers, CopiedMembers DEF Letters
    <2>4. group \in SizedGroup /\ group.name = p.room
      BY <2>2, <2>3 DEF Whole, Letters, NewGroup, SizedGroup, Group, SizedList
    <2> HIDE DEF group
    <2>5. /\ groupList' = addGroupInGroupList(groupList, group)
          /\ Take /\ strayed' = strayed
      BY <2>1 DEF ChangesGroups, group
    <2>6. /\ \A name : Called(groupList, name) # {} => Called(groupList', name) # {}
          /\ Called(groupList', p.room) # {}
      BY <1>1, <2>4, <2>5, NameAdded
    <2> QED
      BY <1>3, <2>1, <2>5, <2>6
  <1>8. ASSUME NEW type, NEW p \in Arrived(type), type # "GROUP_LIST",
               Take, strayed' = strayed, NEW members,
               Called(groupList, p.room) # {} => members \in SizedList,
               groupList' = WithMembers(groupList, p.room, members)
        PROVE  KnownInv'
    <2>1. \A name : Called(groupList', name) = Called(groupList, name)
      BY <1>1, <1>8, NamesKept
    <2> QED
      BY <1>3, <1>8, <2>1
  <1>9. ASSUME NEW name, Called(groupList, name) # {}
        PROVE  /\ MembersOf(groupList, name) \in ClientList(Users, MyFds)
               /\ MembersOf(groupList, name).size <= Len(MembersOf(groupList, name).clients)
    BY <1>1, <1>9, FirstHolds DEF SizedList
  <1>10. CASE manageNewMemberInGroup
    <2>1. PICK p \in Arrived("JOIN_ROOM") :
            ChangesGroups(WithMembers(groupList, p.room,
              addClientInClientList(MembersOf(groupList, p.room),
                                    [name |-> p.name, FD |-> p.fd])))
      BY <1>10 DEF manageNewMemberInGroup
    <2> DEFINE entry == [name |-> p.name, FD |-> p.fd]
               members == addClientInClientList(MembersOf(groupList, p.room), entry)
    <2>2. p \in Whole /\ p \in Letters /\ p.type = "JOIN_ROOM"
      BY ArrivedPacket
    <2>3. entry \in Member
      BY <2>2 DEF Whole, Letters, Member, Client
    <2> HIDE DEF entry
    <2>4. Called(groupList, p.room) # {} => members \in SizedList
      BY <1>9, <2>3, Addition DEF SizedList, Member
    <2>5. /\ groupList' = WithMembers(groupList, p.room, members)
          /\ Take /\ strayed' = strayed
      BY <2>1 DEF ChangesGroups, entry
    <2> HIDE DEF members
    <2> QED
      BY <1>8, <2>1, <2>4, <2>5
  <1>11. ASSUME NEW type, NEW p \in Arrived(type), type # "GROUP_LIST",
                Take, strayed' = strayed,
                groupList' = WithMembers(groupList, p.room,
                  removeClientFromClientList(MembersOf(groupList, p.room), p.fd))
         PROVE  KnownInv'
    <2> DEFINE members == removeClientFromClientList(MembersOf(groupList, p.room), p.fd)
    <2>1. Called(groupList, p.room) # {} => members \in SizedList
      BY <1>9, Removal DEF SizedList
    <2>2. groupList' = WithMembers(groupList, p.room, members)
      BY <1>11
    <2> HIDE DEF members
    <2> QED
      BY <1>8, <1>11, <2>1, <2>2
  <1>12. CASE manageKickedMember
    <2>1. PICK p \in Arrived("KICK_GROUP_MEMBER") :
            ChangesGroups(WithMembers(groupList, p.room,
              removeClientFromClientList(MembersOf(groupList, p.room), p.fd)))
      BY <1>12 DEF manageKickedMember
    <2> QED
      BY <1>11, <2>1 DEF ChangesGroups
  <1>13. CASE manageLeftGroupMember
    <2>1. PICK p \in Arrived("LEAVE_ROOM") :
            /\ groupList' = WithMembers(groupList, p.room,
                 removeClientFromClientList(MembersOf(groupList, p.room), p.fd))
            /\ Take /\ strayed' = strayed
      BY <1>13 DEF manageLeftGroupMember
    <2> QED
      BY <1>11, <2>1
  <1>14. CASE handleDepression
    <2>1. PICK p \in Arrived("KICKED") :
            /\ groupList' = removeGroupFromGroupList(groupList, p.room)
            /\ Take /\ strayed' = strayed
      BY <1>14 DEF handleDepression
    <2>2. \A name : (name # p.room /\ Called(groupList, name) # {})
                       => Called(groupList', name) # {}
      BY <1>1, <2>1, NameRemoved
    <2> QED
      BY <1>3, <2>1, <2>2
  <1> QED
    BY <1>5, <1>6, <1>7, <1>10, <1>12, <1>13, <1>14 DEF ReceiveThread

\* A line is sent: a group goes only with its LEAVE_ROOM, and a CREATE_ROOM is of
\* a new name.
LEMMA KnownSent ==
    ASSUME TypeInv, KnownInv, UNCHANGED <<serverVars, inbox>>, strayed => strayed',
           NEW p \in Whole, outbox' = Append(outbox, p),
           \A name : Called(groupList, name) # {} =>
                       \/ Called(groupList', name) # {}
                       \/ p.type = "LEAVE_ROOM" /\ p.room = name,
           p.type = "CREATE_ROOM" =>
             /\ ~Made(p.room) /\ Called(groupList', p.room) # {}
             /\ ~\E k \in DOMAIN outbox :
                   outbox[k].type = "CREATE_ROOM" /\ outbox[k].room = p.room,
           p.type = "JOIN_ROOM" => p.name # Me,
           p.type = "LEAVE_ROOM" => strayed' \/ p.fd = FdOf(Me)
    PROVE  KnownInv'
  <1>1. UNCHANGED <<online, rooms, inbox>> /\ FdOf(Me)' = FdOf(Me)
    BY SameFd DEF serverVars
  <1>2. /\ outbox \in Seq(Whole) /\ Len(outbox) \in Nat
        /\ DOMAIN outbox = 1 .. Len(outbox)
    BY LenProperties DEF TypeInv, WorldTypeOK
  <1>3. /\ DOMAIN outbox' = 1 .. Len(outbox) + 1
        /\ outbox'[Len(outbox) + 1] = p
        /\ \A k \in 1 .. Len(outbox) : outbox'[k] = outbox[k]
        /\ \A k \in 1 .. Len(outbox) + 1 :
             k \in 1 .. Len(outbox) \/ k = Len(outbox) + 1
    <2>1. /\ Append(outbox, p) \in Seq(Whole)
          /\ Len(Append(outbox, p)) = Len(outbox) + 1
          /\ Append(outbox, p)[Len(outbox) + 1] = p
          /\ \A k \in 1 .. Len(outbox) : Append(outbox, p)[k] = outbox[k]
      BY <1>2, AppendProperties
    <2>2. DOMAIN Append(outbox, p) = 1 .. Len(outbox) + 1
      BY <2>1, LenProperties
    <2>3. \A k \in 1 .. Len(outbox) + 1 :
            k \in 1 .. Len(outbox) \/ k = Len(outbox) + 1
      BY <1>2
    <2> QED
      BY <2>1, <2>2, <2>3
  <1>4. RoomsApart' /\ InOnce' /\ KicksOfRooms'
    BY <1>1 DEF KnownInv, RoomsApart, InOnce, Holding, KicksOfRooms, Made
  <1>5. ASSUME NEW name, NEW k \in Nat, k <= Len(outbox),
               Called(groupList, name) # {} \/ Leaving(name, k)
        PROVE  Called(groupList', name) # {} \/ Leaving(name, k)'
    BY <1>5, LeavingKept
  <1>6. ASSUME NEW k \in 1 .. Len(outbox), NEW q, q = outbox[k]
        PROVE  /\ q.type = "CREATE_ROOM" =>
                    /\ ~Made(q.room)'
                    /\ \A l \in 1 .. Len(outbox) + 1 :
                         outbox'[l].type = "CREATE_ROOM"
                         /\ outbox'[l].room = q.room => l = k
                    /\ strayed' \/ Called(groupList', q.room) # {} \/ Leaving(q.room, k)'
               /\ q.type = "JOIN_ROOM" => q.name # Me
               /\ q.type = "LEAVE_ROOM" => strayed' \/ q.fd = FdOf(Me)
    <2>1. k \in DOMAIN outbox /\ k \in Nat /\ k <= Len(outbox)
      BY <1>2
    <2>2. CASE q.type = "CREATE_ROOM"
      <3>1. /\ ~Made(q.room)
            /\ \A l \in DOMAIN outbox :
                 outbox[l].type = "CREATE_ROOM" /\ outbox[l].room = q.room => l = k
            /\ strayed \/ Called(groupList, q.room) # {} \/ Leaving(q.room, k)
        BY <1>6, <2>1, <2>2 DEF KnownInv, SentInv
      <3>2. ~Made(q.room)'
        BY <1>1, <3>1 DEF Made
      <3>3. \A l \in 1 .. Len(outbox) + 1 :
              outbox'[l].type = "CREATE_ROOM" /\ outbox'[l].room = q.room => l = k
        BY <1>2, <1>3, <1>6, <2>1, <2>2, <3>1
      <3>4. strayed' \/ Called(groupList', q.room) # {} \/ Leaving(q.room, k)'
        BY <1>5, <2>1, <3>1
      <3> QED
        BY <2>2, <3>2, <3>3, <3>4
    <2>3. /\ q.type = "JOIN_ROOM" => q.name # Me
          /\ q.type = "LEAVE_ROOM" => strayed' \/ q.fd = FdOf(Me)
      BY <1>6, <2>1 DEF KnownInv, SentInv
    <2> QED
      BY <2>2, <2>3
  <1>7. ASSUME NEW k \in DOMAIN outbox'
        PROVE  /\ outbox'[k].type = "CREATE_ROOM" =>
                    /\ ~\E g \in DOMAIN rooms' : rooms'[g].name = outbox'[k].room
                    /\ \A l \in DOMAIN outbox' :
                         outbox'[l].type = "CREATE_ROOM"
                         /\ outbox'[l].room = outbox'[k].room => l = k
                    /\ \/ strayed'
                       \/ Called(groupList', outbox'[k].room) # {}
                       \/ \E l \in DOMAIN outbox' :
                            /\ l > k /\ outbox'[l].type = "LEAVE_ROOM"
                            /\ outbox'[l].room = outbox'[k].room
               /\ outbox'[k].type = "JOIN_ROOM" => outbox'[k].name # Me
               /\ outbox'[k].type = "LEAVE_ROOM" =>
                    strayed' \/ outbox'[k].fd = FdOf(Me)
    <2>1. CASE k \in 1 .. Len(outbox)
      <3>1. PICK q : q = outbox[k]
        OBVIOUS
      <3>2. /\ q.type = "CREATE_ROOM" =>
                 /\ ~Made(q.room)'
                 /\ \A l \in 1 .. Len(outbox) + 1 :
                      outbox'[l].type = "CREATE_ROOM"
                      /\ outbox'[l].room = q.room => l = k
                 /\ strayed' \/ Called(groupList', q.room) # {} \/ Leaving(q.room, k)'
            /\ q.type = "JOIN_ROOM" => q.name # Me
            /\ q.type = "LEAVE_ROOM" => strayed' \/ q.fd = FdOf(Me)
        BY <1>6, <2>1, <3>1
      <3>3. outbox'[k] = q
        BY <1>3, <2>1, <3>1
      <3> QED
        BY <1>3, <3>2, <3>3 DEF Made, Leaving
    <2>2. CASE k = Len(outbox) + 1
      <3>1. outbox'[k] = p
        BY <1>3, <2>2
      <3>2. p.type = "CREATE_ROOM" =>
              \A l \in 1 .. Len(outbox) + 1 :
                outbox'[l].type = "CREATE_ROOM" /\ outbox'[l].room = p.room => l = k
        BY <1>2, <1>3, <2>2
      <3>3. p.type = "CREATE_ROOM" =>
              /\ ~\E g \in DOMAIN rooms' : rooms'[g].name = p.room
              /\ Called(groupList', p.room) # {}
        BY <1>1 DEF Made
      <3> QED
        BY <1>3, <3>1, <3>2, <3>3
    <2> QED
      BY <1>3, <2>1, <2>2
  <1>8. SentInv'
    BY <1>1, <1>7 DEF SentInv, Made, Leaving, Called
  <1>9. ASSUME NEW g \in DOMAIN rooms, NEW name, name = rooms[g].name,
               In(g, Me), ~strayed'
        PROVE  KnownOf(name)'
    <2>1. KnownOf(name)
      BY <1>9 DEF KnownInv
    <2>2. Announced(name) => Announced(name)'
      BY <1>1 DEF Announced, NotKicked
    <2>3. NotKicked(name, 0) => NotKicked(name, 0)'
      BY <1>1 DEF NotKicked
    <2>4. Leaving(name, 0) \/ Called(groupList, name) # {} =>
            Called(groupList', name) # {} \/ Leaving(name, 0)'
      <3>1. 0 \in Nat /\ 0 <= Len(outbox)
        BY <1>2
      <3> QED
        BY <1>5, <3>1
    <2>5. Leaving(name, 0) => Leaving(name, 0)'
      <3>1. 0 \in Nat
        OBVIOUS
      <3> QED
        BY <3>1, LeavingKept
    <2> QED
      BY <2>1, <2>2, <2>3, <2>4, <2>5 DEF KnownOf, Called
  <1>10. \A g \in DOMAIN rooms' : In(g, Me)' => strayed' \/ KnownOf(rooms[g].name)'
    <2>1. ASSUME NEW g \in DOMAIN rooms, In(g, Me)', ~strayed'
          PROVE  KnownOf(rooms[g].name)'
      <3>1. PICK name : name = rooms[g].name
        OBVIOUS
      <3>2. In(g, Me)
        BY <1>1, <2>1 DEF In
      <3>3. KnownOf(name)'
        BY <1>9, <2>1, <3>1, <3>2
      <3>4. name = rooms'[g].name
        BY <1>1, <3>1
      <3> QED
        BY <3>3, <3>4 DEF KnownOf, Leaving, Announced, NotKicked, Called
    <2> QED
      BY <1>1, <2>1
  <1> QED
    BY <1>4, <1>8, <1>10 DEF KnownInv

LEMMA KnownKept ==
    ASSUME TypeInv, KnownInv, UNCHANGED <<worldVars, groupList, strayed>>
    PROVE  KnownInv'
  BY DEF KnownInv, RoomsApart, InOnce, KicksOfRooms, SentInv, KnownOf, Holding,
     In, FdOf, Made, Leaving, Announced, NotKicked, Called, worldVars, serverVars

LEMMA KnownMain ==
    ASSUME TypeInv, KnownInv, MainThread
    PROVE  KnownInv'
  <1> USE ClientWorldAssumption
  <1>1. /\ groupList \in Seq(SizedGroup) /\ userList \in SizedList
        /\ mySocketFD \in MyFds /\ chats \in Seq(Chat)
        /\ NoFd \in MyFds /\ Me \in Users /\ NoRoom \in Rooms \cup {NoRoom}
    BY DEF TypeInv, ClientTypeOK, MyFds
  <1>2. UNCHANGED <<serverVars, inbox, userList, rx>>
    BY MainApart
  <1>3. ASSUME NEW type \in {"INTRO", "USER_LEFT", "CHAT", "GROUP_CHAT", "CREATE_ROOM",
                             "KICK_GROUP_MEMBER", "LEAVE_ROOM", "JOIN_ROOM"},
               NEW f \in MyFds, NEW name \in Users, NEW room \in Rooms \cup {NoRoom},
               type = "CREATE_ROOM" => room \in Rooms
        PROVE  LET p == Packet(type, f, name, room)
               IN  /\ p \in Whole
                   /\ p.type = type /\ p.fd = f /\ p.name = name /\ p.room = room
    BY <1>3, EmptySeq DEF Packet, Whole, Letters
  <1>4. ASSUME NEW type \in {"INTRO", "USER_LEFT", "CHAT", "GROUP_CHAT",
                             "KICK_GROUP_MEMBER"},
               NEW f \in MyFds, NEW name \in Users, NEW room \in Rooms \cup {NoRoom},
               outbox' = Append(outbox, Packet(type, f, name, room)),
               strayed' = strayed,
               \A n : Called(groupList, n) # {} => Called(groupList', n) # {}
        PROVE  KnownInv'
    <2> DEFINE p == Packet(type, f, name, room)
    <2>1. p \in Whole /\ p.type = type
      BY <1>3
    <2>2. outbox' = Append(outbox, p)
      BY <1>4
    <2> HIDE DEF p
    <2> QED
      BY <1>2, <1>4, <2>1, <2>2, KnownSent
  <1>5. CASE Intro
    BY <1>1, <1>4, <1>5 DEF Intro
  <1>6. CASE Quit
    BY <1>1, <1>4, <1>6 DEF Quit
  <1>7. CASE Learn \/ AssignChat \/ Back \/ KickNowhere
    BY <1>7, KnownKept DEF Learn, AssignChat, Back, KickNowhere
  <1>8. CASE LineToUser
    <2>1. /\ chats # <<>> /\ Last(chats).slot > 0 /\ groupList' = groupList
          /\ strayed' = strayed
      BY <1>8 DEF LineToUser
    <2>2. Last(chats) = chats[Len(chats)] /\ Len(chats) \in 1 .. Len(chats)
      BY <2>1, ChatTyped, EmptySeq DEF Last
    <2>3. Last(chats).slot \in 1 .. Len(userList.clients)
      BY <2>1, <2>2, ChatTyped DEF Chat
    <2>4. userList.clients[Last(chats).slot].FD \in MyFds
      BY <2>3, UserListTyped
    <2>5. PICK f \in IF Last(chats).stale THEN Fds \cup {NoFd}
                       ELSE {userList.clients[Last(chats).slot].FD} :
            Types(Packet("CHAT", f, Me, NoRoom))
      BY <1>8 DEF LineToUser
    <2>6. f \in MyFds /\ outbox' = Append(outbox, Packet("CHAT", f, Me, NoRoom))
      BY <2>4, <2>5 DEF Types, MyFds
    <2> QED
      BY <1>1, <1>4, <2>1, <2>6
  <1>9. CASE LineToGroup
    <2>1. /\ chats # <<>> /\ Last(chats).slot = 0 /\ groupList' = groupList
          /\ strayed' = strayed
          /\ outbox' = Append(outbox, Packet("GROUP_CHAT", NoFd, Me, Last(chats).name))
      BY <1>9 DEF LineToGroup, Types
    <2>2. Last(chats) = chats[Len(chats)] /\ Len(chats) \in 1 .. Len(chats)
      BY <2>1, ChatTyped, EmptySeq DEF Last
    <2>3. Last(chats).name \in Rooms
      BY <2>1, <2>2, ChatTyped
    <2> QED
      BY <1>1, <1>4, <2>1, <2>3
  <1>10. ASSUME NEW u, NEW g, chatWithUser(u) \/ chatWithinGroup(g)
         PROVE  KnownInv'
    <2>1. UNCHANGED <<worldVars, groupList, strayed>>
      BY <1>10 DEF chatWithUser, chatWithinGroup, Enter
    <2> QED
      BY <2>1, KnownKept
  <1>11. ASSUME NEW g \in Rooms, createGroup(g)
         PROVE  KnownInv'
    <2> DEFINE admin == [name |-> Me, FD |-> mySocketFD]
               members == addClientInClientList(EmptyList, admin)
               group == NewGroup(g, Me, members)
               p == Packet("CREATE_ROOM", mySocketFD, Me, g)
    <2>1. admin \in Member
      BY <1>1 DEF Member, Client
    <2>2. EmptyList \in ClientList(Users, MyFds) /\ EmptyList.size <= Len(EmptyList.clients)
      BY EmptySeq DEF EmptyList, ClientList
    <2> HIDE DEF admin
    <2>3. members \in SizedList
      BY <2>1, <2>2, Addition DEF SizedList, Member
    <2> HIDE DEF members
    <2>4. group \in SizedGroup /\ group.name = g
      BY <1>1, <2>3 DEF NewGroup, SizedGroup, Group, SizedList
    <2> HIDE DEF group
    <2>5. /\ groupList' = addGroupInGroupList(groupList, group)
          /\ outbox' = Append(outbox, p) /\ strayed' = strayed
          /\ ~Made(g)
          /\ ~\E k \in DOMAIN outbox :
                outbox[k].type = "CREATE_ROOM" /\ outbox[k].room = g
      <3>1. groupList' = addGroupInGroupList(groupList, group)
        BY <1>11 DEF createGroup, group, members, admin
      <3>2. outbox' = Append(outbox, p)
        BY <1>11 DEF createGroup, Types
      <3> HIDE DEF p
      <3>3. /\ strayed' = strayed /\ ~Made(g)
            /\ ~\E k \in DOMAIN outbox :
                  outbox[k].type = "CREATE_ROOM" /\ outbox[k].room = g
        BY <1>11 DEF createGroup
      <3> QED
        BY <3>1, <3>2, <3>3
    <2>6. /\ \A n : Called(groupList, n) # {} => Called(groupList', n) # {}
          /\ Called(groupList', g) # {}
      BY <1>1, <2>4, <2>5, NameAdded
    <2>7. p \in Whole /\ p.type = "CREATE_ROOM" /\ p.room = g
      BY <1>1, <1>3
    <2> HIDE DEF p
    <2> QED
      BY <1>2, <2>5, <2>6, <2>7, KnownSent
  <1>12. ASSUME NEW g, Called(groupList, g) # {}
         PROVE  /\ MembersOf(groupList, g) \in ClientList(Users, MyFds)
                /\ MembersOf(groupList, g).size <= Len(MembersOf(groupList, g).clients)
                /\ MembersOf(groupList, g) \in SizedList
    BY <1>1, <1>12, FirstHolds DEF SizedList
  <1>13. ASSUME NEW u \in Users \ {Me}, NEW g \in Rooms, addMember(u, g)
         PROVE  KnownInv'
    <2>1. PICK i \in Found(userList, u) :
            /\ userList.clients[i].name # Freed
            /\ groupList' = WithMembers(groupList, g,
                 addClientInClientList(MembersOf(groupList, g), userList.clients[i]))
            /\ Types(Packet("JOIN_ROOM", userList.clients[i].FD, u, g))
      BY <1>13 DEF addMember
    <2> DEFINE entry == userList.clients[i]
               members == addClientInClientList(MembersOf(groupList, g), entry)
               p == Packet("JOIN_ROOM", entry.FD, u, g)
    <2>2. entry \in Member /\ entry.FD \in MyFds
      BY <1>1, <2>1, FoundEntry DEF Member, Client
    <2>3. outbox' = Append(outbox, p)
      BY <2>1 DEF Types
    <2> HIDE DEF entry
    <2>4. members \in SizedList
      BY <1>12, <1>13, <2>2, Addition DEF SizedList, Member, addMember
    <2>5. groupList' = WithMembers(groupList, g, members)
      BY <2>1 DEF entry
    <2> HIDE DEF members
    <2>6. \A n : Called(groupList', n) = Called(groupList, n)
      BY <1>1, <2>4, <2>5, NamesKept
    <2>7. p \in Whole /\ p.type = "JOIN_ROOM" /\ p.name = u
      BY <1>3, <2>2
    <2>8. strayed' = strayed
      BY <1>13 DEF addMember
    <2> HIDE DEF p
    <2> QED
      BY <1>2, <2>3, <2>6, <2>7, <2>8, KnownSent
  <1>14. ASSUME NEW g \in Rooms, leaveGroupAndInformServer(g)
         PROVE  KnownInv'
    <2>1. PICK i \in Found(MembersOf(groupList, g), Me) :
            LET f == MembersOf(groupList, g).clients[i].FD
            IN  /\ Types(Packet("LEAVE_ROOM", f, Me, g))
                /\ strayed' = (strayed \/ f # FdOf(Me))
      BY <1>14 DEF leaveGroupAndInformServer
    <2>2. Called(groupList, g) # {} /\ groupList' = removeGroupFromGroupList(groupList, g)
      BY <1>14 DEF leaveGroupAndInformServer
    <2>3. PICK f : f = MembersOf(groupList, g).clients[i].FD
      OBVIOUS
    <2>4. f \in MyFds
      BY <1>12, <2>1, <2>2, <2>3, FoundEntry DEF Member, Client
    <2> DEFINE p == Packet("LEAVE_ROOM", f, Me, g)
    <2>5. /\ outbox' = Append(outbox, p)
          /\ strayed' \/ f = FdOf(Me)
          /\ strayed => strayed'
      BY <2>1, <2>3 DEF Types
    <2>6. p \in Whole /\ p.type = "LEAVE_ROOM" /\ p.room = g /\ p.fd = f
      BY <1>1, <1>3, <2>4
    <2>7. \A n : (n # g /\ Called(groupList, n) # {}) => Called(groupList', n) # {}
      BY <1>1, <2>2, NameRemoved
    <2> HIDE DEF p
    <2> QED
      BY <1>2, <2>5, <2>6, <2>7, KnownSent
  <1>15. ASSUME NEW u \in Users, kickMemberAndShareOnServer(u)
         PROVE  KnownInv'
    <2>1. PICK g \in Rooms, f \in Targets(u) :
            /\ Called(groupList, g) # {}
            /\ groupList' = WithMembers(groupList, g,
                 removeClientFromClientList(MembersOf(groupList, g), f))
            /\ Types(Packet("KICK_GROUP_MEMBER", f, u, g))
      BY <1>15 DEF kickMemberAndShareOnServer
    <2> DEFINE members == removeClientFromClientList(MembersOf(groupList, g), f)
    <2>2. members \in SizedList
      BY <1>12, <2>1, Removal DEF SizedList
    <2>3. groupList' = WithMembers(groupList, g, members)
      BY <2>1
    <2> HIDE DEF members
    <2>4. \A n : Called(groupList', n) = Called(groupList, n)
      BY <1>1, <2>2, <2>3, NamesKept
    <2>5. f \in MyFds
      <3>1. \A i \in Found(userList, u) : userList.clients[i].FD \in MyFds
        BY <1>1, FoundEntry DEF Member, Client
      <3> QED
        BY <2>1, <3>1 DEF Targets, MyFds
    <2>6. outbox' = Append(outbox, Packet("KICK_GROUP_MEMBER", f, u, g))
          /\ strayed' = strayed
      BY <1>15, <2>1 DEF Types, kickMemberAndShareOnServer
    <2> QED
      BY <1>4, <2>4, <2>5, <2>6
  <1> QED
    BY <1>5, <1>6, <1>7, <1>8, <1>9, <1>10, <1>11, <1>13, <1>14, <1>15
       DEF MainThread

\* Me is in none of the rooms that are there at the start.
LEMMA NobodyInside ==
    ASSUME Init
    PROVE  /\ RoomsApart /\ InOnce
           /\ \A g \in DOMAIN rooms : ~In(g, Me)
  <1> USE ClientWorldAssumption
  <1>0. PICK u \in Users \ {Me}, f \in Fds, h \in Fds : Start(u, f, h)
    BY DEF Init, WorldInit, Start
  <1> DEFINE entry == [name |-> u, FD |-> f]
             roomOf(r) == [name |-> r, admin |-> u, members |-> <<entry>>]
             made == {roomOf(r) : r \in Foreign}
  <1>1. rooms = SetToSeq(made)
    BY <1>0 DEF Start
  <1>2. IsFiniteSet(made)
    <2> DEFINE make == [r \in Foreign |-> roomOf(r)]
    <2>1. make \in Surjection(Foreign, made)
      BY DEF Surjection
    <2> QED
      BY <2>1, FS_Surjection
  <1>3. /\ \A x, y \in made : x.name = y.name => x = y
        /\ \A x \in made : x.members = <<entry>>
    OBVIOUS
  <1> HIDE DEF made
  <1>4. /\ DOMAIN rooms = 1 .. Len(rooms)
        /\ \A g \in 1 .. Len(rooms) : rooms[g] \in made
        /\ \A g, k \in 1 .. Len(rooms) : rooms[g] = rooms[k] => g = k
    <2>1. /\ rooms \in Seq(made)
          /\ \A g, k \in 1 .. Len(rooms) : rooms[g] = rooms[k] => g = k
      BY <1>1, <1>2, EveryoneListed, ZenonT(40)
    <2>2. \A g \in 1 .. Len(rooms) : rooms[g] \in made
      BY <2>1, ElementOfSeq
    <2>3. DOMAIN rooms = 1 .. Len(rooms)
      BY <2>1, LenProperties
    <2> QED
      BY <2>1, <2>2, <2>3
  <1>5. \A g \in DOMAIN rooms : rooms[g].members = <<entry>>
    BY <1>3, <1>4
  <1>6. DOMAIN <<entry>> = {1} /\ <<entry>>[1] = entry /\ entry.name # Me
    OBVIOUS
  <1> HIDE DEF entry
  <1>7. RoomsApart
    BY <1>3, <1>4 DEF RoomsApart
  <1>8. InOnce
    BY <1>5, <1>6 DEF InOnce, Holding
  <1>9. \A g \in DOMAIN rooms : ~In(g, Me)
    BY <1>5, <1>6 DEF In, ToSet
  <1> QED
    BY <1>7, <1>8, <1>9

LEMMA KnownInit ==
    ASSUME Init
    PROVE  KnownInv
  <1>1. PICK u \in Users \ {Me}, f \in Fds, h \in Fds : Start(u, f, h)
    BY DEF Init, WorldInit, Start
  <1>2. DOMAIN inbox = {} /\ DOMAIN outbox = {}
    BY <1>1, EmptySeq DEF Start
  <1>3. KicksOfRooms /\ SentInv
    BY <1>2 DEF KicksOfRooms, SentInv
  <1> QED
    BY <1>3, NobodyInside DEF KnownInv

LEMMA KnownStep ==
    ASSUME TypeInv, FaithfulInv, KnownInv, [Next]_vars
    PROVE  KnownInv'
  <1>1. CASE UNCHANGED vars
    BY <1>1, KnownKept DEF vars, clientVars
  <1> QED
    BY <1>1, KnownWorld, KnownReceive, KnownMain DEF Next, Stops

\* Once all packets have arrived, every room that the server has this client in
\* is in its list, however invitations, kicks and leaves crossed on the way, as
\* long as no LEAVE_ROOM bore a wrong descriptor: the GROUP_LIST is behind every
\* KICKED of that room, and the group that leaves goes with its LEAVE_ROOM.
THEOREM RoomsStayKnown == Spec => []RoomsKnown
  <1>1. Init => FaithfulInv /\ KnownInv
    BY FaithfulInit, KnownInit
  <1>2. TypeInv /\ FaithfulInv /\ KnownInv /\ [Next]_vars => FaithfulInv' /\ KnownInv'
    BY FaithfulStep, KnownStep
  <1>3. KnownInv => RoomsKnown
    <2> SUFFICES ASSUME KnownInv, Drained, ~strayed,
                        NEW g \in DOMAIN rooms, In(g, Me)
                 PROVE  Called(groupList, rooms[g].name) # {}
      BY DEF RoomsKnown
    <2>1. KnownOf(rooms[g].name)
      BY DEF KnownInv
    <2>2. DOMAIN inbox = {} /\ DOMAIN outbox = {}
      BY EmptySeq DEF Drained
    <2> QED
      BY <2>1, <2>2 DEF KnownOf, Leaving, Announced
  <1> QED
    BY <1>1, <1>2, <1>3, ClientTyped, PTL DEF Spec

----------------------------------------------------------------------------
(* Everybody the server has in a room is listed: members are counted, those  *)
(* that hold a descriptor on both sides and the packets between that add or   *)
(* take off one.                                                              *)

\* The packets of a kind that stand in a queue behind the m-th.
Behind(queue, m, kind) == {i \in DOMAIN queue : i > m /\ queue[i] \in kind}

Among(queue, m, kind) == Cardinality(Behind(queue, m, kind))

\* The packets about a room, among them those that make a list of its members,
\* add a member of a descriptor, or take one off; and the orders to kick it.
AboutRoom(name) ==
    {p \in Whole : /\ p.type \in {"GROUP_LIST", "JOIN_ROOM", "LEAVE_ROOM",
                                  "KICK_GROUP_MEMBER"}
                   /\ p.room = name}

ListsMembers(name) == {p \in AboutRoom(name) : p.type = "GROUP_LIST"}

AddsMember(name, f) == {p \in AboutRoom(name) : p.type = "JOIN_ROOM" /\ p.fd = f}

TakesMember(name, f) ==
    {p \in AboutRoom(name) :
       p.type \in {"LEAVE_ROOM", "KICK_GROUP_MEMBER"} /\ p.fd = f}

OrdersKick(name, f) ==
    {p \in AboutRoom(name) : p.type = "KICK_GROUP_MEMBER" /\ p.fd = f}

LEMMA FewerThan ==
    ASSUME NEW S, NEW T, IsFiniteSet(T), NEW image \in [S -> T],
           \A x, y \in S : image[x] = image[y] => x = y
    PROVE  IsFiniteSet(S) /\ Cardinality(S) <= Cardinality(T)
  <1>1. image \in Injection(S, T)
    BY DEF Injection, IsInjective
  <1> QED
    BY <1>1, FS_Injection

LEMMA AmongCounts ==
    ASSUME NEW queue \in Seq(Whole), NEW m \in Nat, NEW kind
    PROVE  /\ Among(queue, m, kind) \in Nat
           /\ IsFiniteSet(Behind(queue, m, kind))
           /\ m >= Len(queue) => Among(queue, m, kind) = 0
  <1> DEFINE S == Behind(queue, m, kind)
  <1>1. Len(queue) \in Nat /\ DOMAIN queue = 1 .. Len(queue)
    BY LenProperties
  <1>2. IsFiniteSet(1 .. Len(queue)) /\ S \in SUBSET (1 .. Len(queue))
    BY <1>1, FS_Interval DEF Behind
  <1>3. IsFiniteSet(S)
    BY <1>2, FS_Subset
  <1>4. m >= Len(queue) => S = {}
    BY <1>1 DEF Behind
  <1> QED
    BY <1>3, <1>4, FS_CardinalityType, FS_EmptySet DEF Among

\* Packets of other kinds behind a queue do not count.
LEMMA AmongExtended ==
    ASSUME NEW queue \in Seq(Whole), NEW longer, Extended(queue, longer),
           DOMAIN longer = 1 .. Len(longer), NEW m \in Nat, NEW kind,
           \A i \in Len(queue) + 1 .. Len(longer) : longer[i] \notin kind
    PROVE  Among(longer, m, kind) = Among(queue, m, kind)
  <1>1. DOMAIN queue = 1 .. Len(queue) /\ Len(queue) \in Nat /\ Len(longer) \in Nat
        /\ Len(queue) <= Len(longer)
        /\ \A i \in 1 .. Len(queue) : longer[i] = queue[i]
    BY LenProperties DEF Extended
  <1>2. \A i \in 1 .. Len(longer) :
          i \in 1 .. Len(queue) \/ i \in Len(queue) + 1 .. Len(longer)
    BY <1>1
  <1>3. \A i \in 1 .. Len(queue) : i \in 1 .. Len(longer)
    BY <1>1
  <1>4. Behind(longer, m, kind) = Behind(queue, m, kind)
    BY <1>1, <1>2, <1>3 DEF Behind
  <1> QED
    BY <1>4 DEF Among

\* One of the kind does.
LEMMA AmongAppended ==
    ASSUME NEW queue \in Seq(Whole), NEW p \in Whole, NEW m \in 0 .. Len(queue),
           NEW kind
    PROVE  /\ p \in kind =>
                Among(Append(queue, p), m, kind) = Among(queue, m, kind) + 1
           /\ p \notin kind =>
                Among(Append(queue, p), m, kind) = Among(queue, m, kind)
  <1> DEFINE S == Behind(queue, m, kind)
             longer == Append(queue, p)
             T == Behind(longer, m, kind)
             n == Len(queue) + 1
  <1>1. Len(queue) \in Nat /\ DOMAIN queue = 1 .. Len(queue) /\ m \in Nat
    BY LenProperties
  <1>2. /\ longer \in Seq(Whole) /\ Len(longer) = n /\ longer[n] = p
        /\ \A i \in 1 .. Len(queue) : longer[i] = queue[i]
    BY <1>1, AppendProperties
  <1>3. DOMAIN longer = 1 .. n
    BY <1>2, LenProperties
  <1> HIDE DEF longer
  <1>4. /\ n > m /\ n \in 1 .. n /\ n \notin 1 .. Len(queue)
        /\ \A i \in 1 .. n : i \in 1 .. Len(queue) \/ i = n
        /\ \A i \in 1 .. Len(queue) : i \in 1 .. n
    BY <1>1
  <1> HIDE DEF n
  <1>5. IsFiniteSet(S)
    BY <1>1, AmongCounts
  <1>6. p \in kind => T = S \cup {n} /\ n \notin S
    BY <1>1, <1>2, <1>3, <1>4 DEF Behind
  <1>7. p \notin kind => T = S
    BY <1>1, <1>2, <1>3, <1>4 DEF Behind
  <1> HIDE DEF S, T
  <1>8. p \in kind => Cardinality(T) = Cardinality(S) + 1
    BY <1>5, <1>6, FS_AddElement
  <1> QED
    BY <1>7, <1>8 DEF S, T, Among, longer

\* A queue is read from the front.
LEMMA AmongTail ==
    ASSUME NEW queue \in Seq(Whole), queue # <<>>, NEW m \in Nat, NEW kind
    PROVE  /\ Among(Tail(queue), m, kind) = Among(queue, m + 1, kind)
           /\ queue[1] \in kind =>
                Among(queue, 0, kind) = Among(Tail(queue), 0, kind) + 1
           /\ queue[1] \notin kind =>
                Among(queue, 0, kind) = Among(Tail(queue), 0, kind)
  <1> DEFINE rest == Tail(queue)
  <1>1. /\ Len(queue) \in Nat /\ DOMAIN queue = 1 .. Len(queue)
        /\ 1 \in 1 .. Len(queue) /\ Len(queue) - 1 \in Nat
    BY FirstTaken, LenProperties
  <1>2. /\ rest \in Seq(Whole) /\ Len(rest) = Len(queue) - 1
        /\ DOMAIN rest = 1 .. Len(queue) - 1
        /\ \A i \in 1 .. Len(queue) - 1 : rest[i] = queue[i + 1]
    <2>1. /\ rest \in Seq(Whole) /\ Len(rest) = Len(queue) - 1
          /\ \A i \in 1 .. Len(queue) - 1 : rest[i] = queue[i + 1]
      BY FirstTaken
    <2> QED
      BY <2>1, LenProperties
  <1> HIDE DEF rest
  <1>3. ASSUME NEW k \in Nat
        PROVE  /\ Cardinality(Behind(rest, k, kind)) = Cardinality(Behind(queue, k + 1, kind))
               /\ IsFiniteSet(Behind(queue, k, kind))
    <2>1. IsFiniteSet(Behind(rest, k, kind)) /\ IsFiniteSet(Behind(queue, k + 1, kind))
          /\ IsFiniteSet(Behind(queue, k, kind))
      BY <1>2, AmongCounts
    <2> DEFINE up == [i \in Behind(rest, k, kind) |-> i + 1]
               down == [i \in Behind(queue, k + 1, kind) |-> i - 1]
    <2>2. \A i \in Behind(rest, k, kind) : i \in Nat /\ i + 1 \in Behind(queue, k + 1, kind)
      BY <1>1, <1>2 DEF Behind
    <2>3. \A i \in Behind(queue, k + 1, kind) : i \in Nat /\ i - 1 \in Behind(rest, k, kind)
      <3>1. \A i \in 1 .. Len(queue) :
              i > k + 1 => /\ i - 1 \in 1 .. Len(queue) - 1 /\ i - 1 > k
                           /\ (i - 1) + 1 = i /\ i \in Nat
        BY <1>1
      <3> QED
        BY <1>1, <1>2, <3>1 DEF Behind
    <2>4. /\ up \in [Behind(rest, k, kind) -> Behind(queue, k + 1, kind)]
          /\ \A i, j \in Behind(rest, k, kind) : up[i] = up[j] => i = j
      BY <2>2
    <2>5. /\ down \in [Behind(queue, k + 1, kind) -> Behind(rest, k, kind)]
          /\ \A i, j \in Behind(queue, k + 1, kind) : down[i] = down[j] => i = j
      BY <2>3
    <2> HIDE DEF up, down
    <2>6. Cardinality(Behind(rest, k, kind)) <= Cardinality(Behind(queue, k + 1, kind))
      BY <2>1, <2>4, FewerThan
    <2>7. Cardinality(Behind(queue, k + 1, kind)) <= Cardinality(Behind(rest, k, kind))
      BY <2>1, <2>5, FewerThan
    <2>8. Cardinality(Behind(rest, k, kind)) \in Nat /\ Cardinality(Behind(queue, k + 1, kind)) \in Nat
      BY <2>1, FS_CardinalityType
    <2> QED
      BY <2>1, <2>6, <2>7, <2>8
  <1>4. Behind(queue, 0, kind) \ {1} = Behind(queue, 1, kind)
    <2>1. \A i \in 1 .. Len(queue) : (i > 0 /\ i # 1) <=> i > 1
      BY <1>1
    <2> QED
      BY <1>1, <2>1 DEF Behind
  <1>5. 1 \in Behind(queue, 0, kind) <=> queue[1] \in kind
    BY <1>1 DEF Behind
  <1>6. 0 \in Nat /\ 0 + 1 = 1 /\ IsFiniteSet(Behind(queue, 0, kind))
        /\ IsFiniteSet(Behind(queue, 1, kind))
    BY AmongCounts
  <1>7. Cardinality(Behind(rest, 0, kind)) = Cardinality(Behind(queue, 1, kind))
    BY <1>3, <1>6
  <1>8. /\ queue[1] \in kind => Cardinality(Behind(queue, 0, kind)) - 1
                                   = Cardinality(Behind(queue, 1, kind))
        /\ queue[1] \notin kind => Cardinality(Behind(queue, 0, kind))
                                   = Cardinality(Behind(queue, 1, kind))
    BY <1>4, <1>5, <1>6, FS_RemoveElement
  <1>9. Cardinality(Behind(queue, 0, kind)) \in Nat /\ Cardinality(Behind(queue, 1, kind)) \in Nat
    BY <1>6, FS_CardinalityType
  <1>10. Among(rest, m, kind) = Among(queue, m + 1, kind)
    BY <1>3 DEF Among
  <1>11. /\ queue[1] \in kind =>
              Among(queue, 0, kind) = Among(rest, 0, kind) + 1
         /\ queue[1] \notin kind => Among(queue, 0, kind) = Among(rest, 0, kind)
    BY <1>7, <1>8, <1>9 DEF Among
  <1> QED
    BY <1>10, <1>11 DEF rest

\* The members of a room that hold a descriptor, as members come and go.
LEMMA HoldingGrows ==
    ASSUME TypeInv, NEW g \in DOMAIN rooms, NEW entry \in Listed,
           rooms' = WithMember(g, entry), NEW f
    PROVE  /\ entry.FD = f =>
                Cardinality(Holding(g, f)') = Cardinality(Holding(g, f)) + 1
           /\ entry.FD # f =>
                Cardinality(Holding(g, f)') = Cardinality(Holding(g, f))
  <1> DEFINE S == Holding(g, f)
             n == Len(rooms[g].members)
  <1>1. rooms'[g].members = Append(rooms[g].members, entry)
    BY MemberAdded
  <1>2. rooms[g].members \in Seq(Listed)
    BY RoomTyped DEF Room
  <1>3. /\ n \in Nat /\ DOMAIN rooms[g].members = 1 .. n
        /\ DOMAIN rooms'[g].members = 1 .. n + 1
        /\ \A i \in 1 .. n : rooms'[g].members[i] = rooms[g].members[i]
        /\ rooms'[g].members[n + 1] = entry
    BY <1>1, <1>2
  <1>4. /\ n + 1 \in 1 .. n + 1 /\ n + 1 \notin 1 .. n
        /\ \A i \in 1 .. n + 1 : i \in 1 .. n \/ i = n + 1
        /\ \A i \in 1 .. n : i \in 1 .. n + 1
    BY <1>3
  <1> HIDE DEF n
  <1>5. /\ entry.FD = f => S' = S \cup {n + 1} /\ n + 1 \notin S
        /\ entry.FD # f => S' = S
    BY <1>3, <1>4 DEF Holding
  <1>6. IsFiniteSet(S)
    <2>1. IsFiniteSet(1 .. n)
      <3>1. n \in Int /\ 1 \in Int
        BY <1>3
      <3> QED
        BY <3>1, FS_Interval
    <2>2. S \in SUBSET (1 .. n)
      BY <1>3 DEF Holding
    <2> QED
      BY <2>1, <2>2, FS_Subset
  <1>7. entry.FD = f => Cardinality(S \cup {n + 1}) = Cardinality(S) + 1
    BY <1>5, <1>6, FS_AddElement
  <1> QED
    BY <1>5, <1>7

LEMMA HoldingShrinks ==
    ASSUME TypeInv, NEW g \in DOMAIN rooms, NEW fd, rooms' = WithoutMember(g, fd),
           NEW f
    PROVE  /\ Cardinality(Holding(g, f)') \in Nat
           /\ Cardinality(Holding(g, f)') <= Cardinality(Holding(g, f))
           /\ (fd = f /\ Holding(g, f) # {}) =>
                Cardinality(Holding(g, f)') + 1 <= Cardinality(Holding(g, f))
  <1> DEFINE S == Holding(g, f)
             n == Len(rooms[g].members)
             out == Lowest(Holding(g, fd))
  <1>1. /\ Holding(g, fd) = {} => rooms' = rooms
        /\ Holding(g, fd) # {} =>
             /\ out \in 1 .. n
             /\ DOMAIN rooms'[g].members = 1 .. n - 1
             /\ \A k \in 1 .. n - 1 :
                  rooms'[g].members[k] = rooms[g].members[IF k < out THEN k ELSE k + 1]
    BY MemberRemoved
  <1>2. n \in Nat /\ DOMAIN rooms[g].members = 1 .. n
    BY RoomTyped
  <1>3. IsFiniteSet(S) /\ Cardinality(S) \in Nat
    <2>1. IsFiniteSet(1 .. n) /\ S \in SUBSET (1 .. n)
      BY <1>2, FS_Interval DEF Holding
    <2> QED
      BY <2>1, FS_Subset, FS_CardinalityType
  <1>4. CASE Holding(g, fd) = {}
    <2>1. S' = S
      BY <1>1, <1>4 DEF Holding
    <2> QED
      BY <1>3, <1>4, <2>1
  <1>5. CASE Holding(g, fd) # {}
    <2> DEFINE place == [k \in S' |-> IF k < out THEN k ELSE k + 1]
    <2>1. out \in Holding(g, fd)
      <3>1. Holding(g, fd) \subseteq Nat
        BY <1>2 DEF Holding
      <3> QED
        BY <1>5, <3>1, LowestHolds
    <2> HIDE DEF out, n
    <2>2. ASSUME NEW k \in S'
          PROVE  /\ k \in Nat
                 /\ (IF k < out THEN k ELSE k + 1) \in S \ {out}
      <3>1. k \in 1 .. n - 1 /\ rooms'[g].members[k].FD = f
        BY <1>1, <1>5 DEF Holding
      <3>2. /\ (IF k < out THEN k ELSE k + 1) \in 1 .. n
            /\ (IF k < out THEN k ELSE k + 1) # out /\ k \in Nat
        BY <1>1, <1>2, <1>5, <3>1
      <3> QED
        BY <1>1, <1>2, <1>5, <3>1, <3>2 DEF Holding
    <2>3. /\ IsFiniteSet(S \ {out})
          /\ out \in S => Cardinality(S \ {out}) = Cardinality(S) - 1
          /\ out \notin S => Cardinality(S \ {out}) = Cardinality(S)
      BY <1>3, FS_RemoveElement
    <2>4. fd = f => out \in S
      BY <2>1
    <2>5. out \in Nat
      BY <1>1, <1>2, <1>5
    <2> HIDE DEF S
    <2>6. place \in [S' -> S \ {out}]
      BY <2>2
    <2>7. \A j, k \in S' : place[j] = place[k] => j = k
      BY <2>2, <2>5
    <2> HIDE DEF place
    <2>8. IsFiniteSet(S') /\ Cardinality(S') <= Cardinality(S \ {out})
      BY <2>3, <2>6, <2>7, FewerThan
    <2>9. Cardinality(S') \in Nat
      BY <2>8, FS_CardinalityType
    <2>10. /\ Cardinality(S') <= Cardinality(S)
           /\ fd = f => Cardinality(S') + 1 <= Cardinality(S)
      BY <1>3, <2>3, <2>4, <2>8, <2>9
    <2> QED
      BY <2>9, <2>10 DEF S
  <1> QED
    BY <1>4, <1>5

\* The slots of a list that hold a descriptor.
LEMMA SlotsFinite ==
    ASSUME NEW list \in SizedList, NEW f
    PROVE  IsFiniteSet(SlotsOf(list, f)) /\ Cardinality(SlotsOf(list, f)) \in Nat
  <1>1. list.size \in Nat
    BY DEF SizedList, ClientList
  <1>2. IsFiniteSet(1 .. list.size) /\ SlotsOf(list, f) \in SUBSET (1 .. list.size)
    BY <1>1, FS_Interval DEF SlotsOf, Live
  <1> QED
    BY <1>2, FS_Subset, FS_CardinalityType

LEMMA SlotsAfterAddition ==
    ASSUME NEW list \in SizedList, NEW client \in Member, NEW f,
           NEW new, new = addClientInClientList(list, client)
    PROVE  /\ Cardinality(SlotsOf(list, f)) <= Cardinality(SlotsOf(new, f))
           /\ client.FD = f =>
                Cardinality(SlotsOf(list, f)) + 1 <= Cardinality(SlotsOf(new, f))
  <1> DEFINE S == SlotsOf(list, f)
             T == SlotsOf(new, f)
             n == list.size + 1
  <1>1. list.size \in Nat
    BY DEF SizedList, ClientList
  <1>2. /\ new \in SizedList /\ new.size = n
        /\ \A i \in 1 .. list.size : new.clients[i] = list.clients[i]
        /\ new.clients[n] = client
    BY Addition DEF SizedList, Member
  <1>3. S \subseteq T /\ n \notin S /\ (client.FD = f => S \cup {n} \subseteq T)
    <2>1. /\ n \in 1 .. n /\ n \notin 1 .. list.size
          /\ \A i \in 1 .. list.size : i \in 1 .. n
      BY <1>1
    <2> QED
      BY <1>2, <2>1 DEF SlotsOf, Live
  <1>4. IsFiniteSet(S) /\ IsFiniteSet(T)
    BY <1>2, SlotsFinite
  <1> HIDE DEF S, T, n
  <1>5. Cardinality(S) <= Cardinality(T)
    BY <1>3, <1>4, FS_Subset
  <1>6. client.FD = f => Cardinality(S \cup {n}) <= Cardinality(T)
    BY <1>3, <1>4, FS_Subset
  <1>7. Cardinality(S \cup {n}) = Cardinality(S) + 1
    BY <1>3, <1>4, FS_AddElement
  <1> QED
    BY <1>5, <1>6, <1>7 DEF S, T

LEMMA SlotsAfterRemoval ==
    ASSUME NEW list \in SizedList, NEW fd, NEW f,
           NEW new, new = removeClientFromClientList(list, fd)
    PROVE  /\ fd # f => Cardinality(SlotsOf(list, f)) <= Cardinality(SlotsOf(new, f))
           /\ Cardinality(SlotsOf(list, f)) <= Cardinality(SlotsOf(new, f)) + 1
  <1> DEFINE S == SlotsOf(list, f)
             T == SlotsOf(new, f)
             first == FirstSlot(list, fd)
             place == [i \in S \ {first} |-> IF i = list.size THEN first ELSE i]
  <1>1. /\ list.clients \in Seq(Member) /\ list.size \in Nat
        /\ list.size <= Len(list.clients) /\ Len(list.clients) \in Nat
    BY LenProperties DEF SizedList, ClientList, Member
  <1>2. new \in SizedList
    BY Removal DEF SizedList
  <1>3. /\ IsFiniteSet(S) /\ IsFiniteSet(T)
        /\ Cardinality(S) \in Nat /\ Cardinality(T) \in Nat
    BY <1>2, SlotsFinite
  <1>4. CASE SlotsOf(list, fd) = {}
    <2>1. new = list
      BY <1>4 DEF removeClientFromClientList
    <2> QED
      BY <1>3, <2>1
  <1>5. CASE SlotsOf(list, fd) # {}
    <2> DEFINE last == [list.clients[list.size] EXCEPT !.name = Freed]
               one  == [list.clients EXCEPT ![first] = last]
               both == [one EXCEPT ![list.size] = last]
    <2>1. /\ first \in 1 .. list.size /\ list.clients[first].FD = fd
          /\ first \in SlotsOf(list, fd)
      BY <1>1, <1>5, FirstSlotHolds DEF SlotsOf, Live
    <2>2. list.size \in 1 .. Len(list.clients) /\ first \in 1 .. Len(list.clients)
      BY <1>1, <2>1
    <2>3. last \in Member /\ last.FD = list.clients[list.size].FD
      <3>1. list.clients[list.size] \in Member
        BY <1>1, <2>2, ElementOfSeq
      <3> QED
        BY <3>1 DEF Member, Client
    <2>4. new = [clients |-> both, size |-> list.size - 1]
      BY <1>5 DEF removeClientFromClientList
    <2>5. /\ one \in Seq(Member) /\ Len(one) = Len(list.clients)
          /\ \A i \in 1 .. Len(list.clients) :
               one[i] = IF i = first THEN last ELSE list.clients[i]
      BY <1>1, <2>2, <2>3, ExceptSeq
    <2>6. \A i \in 1 .. Len(list.clients) :
            both[i] = IF i = list.size THEN last ELSE one[i]
      BY <2>2, <2>3, <2>5, ExceptSeq
    <2> HIDE DEF first, last, one, both
    <2>7. ASSUME NEW i \in S \ {first}
          PROVE  (IF i = list.size THEN first ELSE i) \in T
      <3>1. i \in 1 .. list.size /\ list.clients[i].FD = f /\ i # first
        BY <2>7 DEF SlotsOf, Live
      <3>2. CASE i = list.size
        <4>1. first \in 1 .. list.size - 1 /\ first # list.size
          BY <1>1, <2>1, <3>1, <3>2
        <4>2. new.clients[first] = last
          BY <2>2, <2>4, <2>5, <2>6, <4>1
        <4> QED
          BY <2>3, <2>4, <3>1, <3>2, <4>1, <4>2 DEF SlotsOf, Live
      <3>3. CASE i # list.size
        <4>1. i \in 1 .. list.size - 1 /\ i \in 1 .. Len(list.clients)
          BY <1>1, <3>1, <3>3
        <4>2. new.clients[i] = list.clients[i]
          BY <2>4, <2>5, <2>6, <3>1, <3>3, <4>1
        <4> QED
          BY <2>4, <3>1, <3>3, <4>1, <4>2 DEF SlotsOf, Live
      <3> QED
        BY <3>2, <3>3
    <2>8. /\ IsFiniteSet(S \ {first})
          /\ first \in S => Cardinality(S \ {first}) = Cardinality(S) - 1
          /\ first \notin S => Cardinality(S \ {first}) = Cardinality(S)
      BY <1>3, FS_RemoveElement
    <2>9. fd # f => first \notin S
      BY <2>1 DEF SlotsOf
    <2> HIDE DEF S, T
    <2>10. place \in [S \ {first} -> T]
      BY <2>7
    <2>11. \A i, j \in S \ {first} : place[i] = place[j] => i = j
      OBVIOUS
    <2> HIDE DEF place
    <2>12. Cardinality(S \ {first}) <= Cardinality(T)
      BY <1>3, <2>10, <2>11, FewerThan
    <2>13. /\ fd # f => Cardinality(S) <= Cardinality(T)
           /\ Cardinality(S) <= Cardinality(T) + 1
      BY <1>3, <2>8, <2>9, <2>12
    <2> QED
      BY <2>13 DEF S, T
  <1> QED
    BY <1>4, <1>5

\* A group that is in the list once has at least b members of a descriptor.
Held(list, name, f, b) ==
    \A h \in DOMAIN list :
      Called(list, name) = {h} => b <= Cardinality(SlotsOf(list[h].members, f))

LEMMA HeldNone ==
    ASSUME NEW list \in Seq(SizedGroup), NEW name, NEW f
    PROVE  Held(list, name, f, 0)
  <1>1. ASSUME NEW h \in DOMAIN list
        PROVE  0 <= Cardinality(SlotsOf(list[h].members, f))
    <2>1. list[h].members \in SizedList
      BY DEF SizedGroup
    <2>2. Cardinality(SlotsOf(list[h].members, f)) \in Nat
      BY <2>1, SlotsFinite
    <2> QED
      BY <2>2
  <1> QED
    BY <1>1 DEF Held

\* Members change in the first group of a name.
LEMMA HeldChanged ==
    ASSUME NEW list \in Seq(SizedGroup), NEW name, NEW members,
           Called(list, name) # {} => members \in SizedList,
           NEW new, new = WithMembers(list, name, members),
           NEW n, NEW f, NEW b, NEW c, Held(list, n, f, b),
           n # name => c = b,
           (/\ n = name /\ Called(list, name) # {}
            /\ b <= Cardinality(SlotsOf(MembersOf(list, name), f))) =>
               c <= Cardinality(SlotsOf(members, f))
    PROVE  Held(new, n, f, c)
  <1>1. DOMAIN new = DOMAIN list /\ Called(new, n) = Called(list, n)
    <2>1. new \in Seq(SizedGroup) /\ Len(new) = Len(list)
      BY MembersChange
    <2>2. DOMAIN new = 1 .. Len(new) /\ DOMAIN list = 1 .. Len(list)
      BY <2>1, LenProperties
    <2> QED
      BY <2>1, <2>2, NamesKept
  <1>2. ASSUME NEW h \in DOMAIN list, Called(list, n) = {h}
        PROVE  c <= Cardinality(SlotsOf(new[h].members, f))
    <2>1. b <= Cardinality(SlotsOf(list[h].members, f))
      BY <1>2 DEF Held
    <2>2. CASE n = name
      <3>1. First({h}) = h
        <4>1. h \in Nat
          OBVIOUS
        <4> QED
          BY <4>1 DEF First
      <3>2. Called(list, name) # {} /\ First(Called(list, name)) = h
        BY <1>2, <2>2, <3>1
      <3>3. MembersOf(list, name) = list[h].members
        BY <3>2 DEF MembersOf
      <3>4. new[h].members = members
        <4>1. new = [list EXCEPT ![h] = [list[h] EXCEPT !.members = members]]
          BY <3>2 DEF WithMembers
        <4>2. list[h] \in Group
          BY DEF SizedGroup
        <4>3. [list[h] EXCEPT !.members = members].members = members
          BY <4>2 DEF Group
        <4> QED
          BY <4>1, <4>3
      <3> QED
        BY <2>1, <2>2, <3>2, <3>3, <3>4
    <2>3. CASE n # name
      <3>1. list[h].name = n
        BY <1>2 DEF Called
      <3>2. new[h].members = list[h].members
        <4>1. CASE Called(list, name) = {}
          BY <4>1 DEF WithMembers
        <4>2. CASE Called(list, name) # {}
          <5>1. First(Called(list, name)) # h
            BY <2>3, <3>1, <4>2, FirstHolds
          <5>2. new = [list EXCEPT ![First(Called(list, name))].members = members]
            BY <4>2 DEF WithMembers
          <5> QED
            BY <5>1, <5>2
        <4> QED
          BY <4>1, <4>2
      <3> QED
        BY <2>1, <2>3, <3>2
    <2> QED
      BY <2>2, <2>3
  <1> QED
    BY <1>1, <1>2 DEF Held

\* A group that is added has the members that come with it; others keep theirs.
LEMMA HeldAdded ==
    ASSUME NEW list \in Seq(SizedGroup), NEW group \in SizedGroup,
           NEW new, new = addGroupInGroupList(list, group), NEW f
    PROVE  /\ Held(new, group.name, f, Cardinality(SlotsOf(group.members, f)))
           /\ \A n, b : (n # group.name /\ Held(list, n, f, b)) => Held(new, n, f, b)
  <1> DEFINE m == Len(list) + 1
  <1>1. PICK copy \in SizedGroup :
          /\ new = Append(list, copy)
          /\ copy.name = group.name
          /\ copy.members.size = group.members.size
          /\ \A i \in 1 .. group.members.size :
               copy.members.clients[i] = group.members.clients[i]
    BY GroupCopied
  <1>2. /\ Len(list) \in Nat /\ DOMAIN list = 1 .. Len(list)
        /\ DOMAIN new = 1 .. m /\ new[m] = copy
        /\ \A g \in 1 .. Len(list) : new[g] = list[g]
    <2>1. /\ new \in Seq(SizedGroup) /\ Len(new) = m /\ new[m] = copy
          /\ \A g \in 1 .. Len(list) : new[g] = list[g]
      BY <1>1, AppendProperties
    <2> QED
      BY <2>1, LenProperties
  <1>3. /\ m \in 1 .. m /\ m \notin 1 .. Len(list)
        /\ \A g \in 1 .. Len(list) : g \in 1 .. m
        /\ \A g \in 1 .. m : g \in 1 .. Len(list) \/ g = m
    BY <1>2
  <1> HIDE DEF m
  <1>4. SlotsOf(copy.members, f) = SlotsOf(group.members, f)
    BY <1>1 DEF SlotsOf, Live
  <1>5. m \in Called(new, group.name)
    BY <1>1, <1>2, <1>3 DEF Called
  <1>6. Held(new, group.name, f, Cardinality(SlotsOf(group.members, f)))
    <2> SUFFICES ASSUME NEW h \in DOMAIN new, Called(new, group.name) = {h}
                 PROVE  Cardinality(SlotsOf(group.members, f))
                          <= Cardinality(SlotsOf(new[h].members, f))
      BY DEF Held
    <2>1. SlotsOf(new[h].members, f) = SlotsOf(group.members, f)
      BY <1>2, <1>4, <1>5
    <2>2. Cardinality(SlotsOf(group.members, f)) \in Nat
      BY SlotsFinite DEF SizedGroup
    <2> QED
      BY <2>1, <2>2
  <1>7. ASSUME NEW n, NEW b, n # group.name, Held(list, n, f, b)
        PROVE  Held(new, n, f, b)
    <2>1. Called(new, n) = Called(list, n)
      BY <1>1, <1>2, <1>3, <1>7 DEF Called
    <2>2. ASSUME NEW h, Called(new, n) = {h}
          PROVE  h \in DOMAIN list /\ new[h] = list[h]
      <3>1. h \in Called(list, n)
        BY <2>1, <2>2
      <3> QED
        BY <1>2, <3>1 DEF Called
    <2> QED
      BY <1>7, <2>1, <2>2 DEF Held
  <1> QED
    BY <1>6, <1>7

\* The groups of other names lose nobody when one is removed.
LEMMA HeldRemoved ==
    ASSUME NEW list \in Seq(SizedGroup), NEW name, NEW n, n # name,
           NEW new, new = removeGroupFromGroupList(list, name),
           NEW f, NEW b, Held(list, n, f, b)
    PROVE  Held(new, n, f, b)
  <1>1. CASE Called(list, name) = {}
    BY <1>1 DEF removeGroupFromGroupList
  <1>2. CASE Called(list, name) # {}
    <2> DEFINE first == First(Called(list, name))
               m == Len(list)
               filled == [list EXCEPT ![first] = list[m]]
    <2>1. first \in 1 .. m /\ list[first].name = name
      BY <1>2, FirstHolds
    <2>2. m \in Nat /\ m \in 1 .. m /\ DOMAIN list = 1 .. m
      BY <2>1
    <2>3. list[m] \in SizedGroup
      BY <2>2, ElementOfSeq
    <2>4. /\ filled \in Seq(SizedGroup) /\ Len(filled) = m
          /\ \A g \in 1 .. m : filled[g] = IF g = first THEN list[m] ELSE list[g]
      BY <2>1, <2>3, ExceptSeq
    <2>5. new = SubSeq(filled, 1, m - 1)
      BY <1>2, <2>4 DEF removeGroupFromGroupList, Front, Last
    <2> HIDE DEF filled, first, m
    <2>6. \A g \in 1 .. m - 1 : filled[g] \in SizedGroup
      BY <2>2, <2>4, ElementOfSeq
    <2>7. /\ new \in Seq(SizedGroup) /\ Len(new) = m - 1
          /\ \A g \in 1 .. m - 1 : new[g] = filled[g]
      BY <2>2, <2>5, <2>6, SubSeqProperties
    <2>8. DOMAIN new = 1 .. m - 1
      BY <2>7
    <2>9. \A g \in 1 .. m - 1 : new[g] = IF g = first THEN list[m] ELSE list[g]
      BY <2>2, <2>4, <2>7
    <2>10. ASSUME NEW j \in Called(list, n)
           PROVE  /\ j \in 1 .. m /\ j # first
                  /\ IF j = m THEN first \in Called(new, n) ELSE j \in Called(new, n)
      <3>1. j \in 1 .. m /\ list[j].name = n /\ j # first
        BY <2>1, <2>2 DEF Called
      <3>2. CASE j = m
        <4>1. first \in 1 .. m - 1
          BY <2>1, <2>2, <3>1, <3>2
        <4>2. new[first] = list[m]
          BY <2>9, <4>1
        <4> QED
          BY <2>8, <3>1, <3>2, <4>1, <4>2 DEF Called
      <3>3. CASE j # m
        <4>1. j \in 1 .. m - 1
          BY <2>2, <3>1, <3>3
        <4>2. new[j] = list[j]
          BY <2>9, <3>1, <4>1
        <4> QED
          BY <2>8, <3>1, <3>3, <4>1, <4>2 DEF Called
      <3> QED
        BY <3>2, <3>3
    <2>11. ASSUME NEW h \in DOMAIN new, Called(new, n) = {h}
           PROVE  b <= Cardinality(SlotsOf(new[h].members, f))
      <3> DEFINE k == IF h = first THEN m ELSE h
      <3>1. h \in 1 .. m - 1 /\ new[h] = list[k] /\ new[h].name = n
        BY <2>8, <2>9, <2>11 DEF Called
      <3>2. k \in DOMAIN list
        BY <2>2, <3>1
      <3>3. k \in Called(list, n)
        BY <3>1, <3>2 DEF Called
      <3>4. ASSUME NEW j \in Called(list, n)
            PROVE  j = k
        <4>1. CASE j = m
          BY <2>10, <2>11, <4>1
        <4>2. CASE j # m
          BY <2>10, <2>11, <4>2
        <4> QED
          BY <4>1, <4>2
      <3> HIDE DEF k
      <3>5. Called(list, n) = {k}
        BY <3>3, <3>4
      <3> QED
        BY <3>1, <3>2, <3>5 DEF Held
    <2> QED
      BY <2>11 DEF Held
  <1> QED
    BY <1>1, <1>2

\* What this client has, or will have got when the m-th packet on its way has
\* been read, is at least b members of a descriptor.
Base(name, f, m, b) ==
    \/ b = 0
    \/ /\ m > 0 /\ inbox[m] \in ListsMembers(name)
       /\ b <= Cardinality({i \in DOMAIN inbox[m].list : inbox[m].list[i].FD = f})
    \/ m = 0 /\ Held(groupList, name, f, b)

\* With what stands behind that packet, and with the kicks that this client has
\* carried out and the server has not, that is as many as n.
Reaches(name, f, n, m, b) ==
    /\ Behind(inbox, m, ListsMembers(name)) = {}
    /\ Base(name, f, m, b)
    /\ n + Among(inbox, m, TakesMember(name, f))
         <= b + Among(inbox, m, AddsMember(name, f))
              + Among(outbox, 0, OrdersKick(name, f))

Covered(g, f) ==
    \E m \in 0 .. Len(inbox), b \in Nat :
      Reaches(rooms[g].name, f, Cardinality(Holding(g, f)), m, b)

\* A group whose admin is this client is one of its own rooms, and it kicks only
\* from those.
AdminInv ==
    \A g \in DOMAIN rooms :
      /\ \A h \in DOMAIN groupList :
           (groupList[h].name = rooms[g].name /\ groupList[h].admin = Me) =>
             rooms[g].admin = Me
      /\ \A k \in DOMAIN inbox :
           (inbox[k] \in ListsMembers(rooms[g].name) /\ inbox[k].name = Me) =>
             rooms[g].admin = Me
      /\ \A k \in DOMAIN outbox :
           (outbox[k].type = "KICK_GROUP_MEMBER" /\ outbox[k].room = rooms[g].name) =>
             rooms[g].admin = Me

\* The rooms whose members this client is told of.
Followed(g) ==
    /\ g = 1 \/ rooms[g].admin # Me
    /\ In(g, Me) /\ ~Leaving(rooms[g].name, 0)

CoveredInv ==
    ~strayed =>
      \A g \in DOMAIN rooms, f \in MyFds \ {FdOf(Me)} :
        Followed(g) => Covered(g, f)

LEMMA QueuesTyped ==
    ASSUME TypeInv
    PROVE  /\ inbox \in Seq(Whole) /\ Len(inbox) \in Nat
           /\ DOMAIN inbox = 1 .. Len(inbox)
           /\ outbox \in Seq(Whole) /\ Len(outbox) \in Nat
           /\ DOMAIN outbox = 1 .. Len(outbox)
  BY LenProperties DEF TypeInv, WorldTypeOK

LEMMA HoldingFiniteThen ==
    ASSUME TypeInv', NEW g \in DOMAIN rooms', NEW fd
    PROVE  Cardinality(Holding(g, fd)') \in Nat
  <1>1. rooms' \in Seq(Room)
    BY DEF TypeInv, WorldTypeOK, Room
  <1>2. rooms'[g].members \in Seq(Listed)
    <2>1. rooms'[g] \in Room
      BY <1>1
    <2> QED
      BY <2>1 DEF Room
  <1>3. /\ Len(rooms'[g].members) \in Nat
        /\ DOMAIN rooms'[g].members = 1 .. Len(rooms'[g].members)
    BY <1>2, LenProperties
  <1>4. IsFiniteSet(1 .. Len(rooms'[g].members))
    BY <1>3, FS_Interval
  <1>5. Holding(g, fd)' \in SUBSET (1 .. Len(rooms'[g].members))
    BY <1>3 DEF Holding
  <1> QED
    BY <1>4, <1>5, FS_Subset, FS_CardinalityType

\* The server acts: as many more are added for this client as come in, as many
\* taken off as go.
LEMMA CoveredMoves ==
    ASSUME TypeInv, TypeInv', NEW g \in DOMAIN rooms, g \in DOMAIN rooms',
           rooms'[g].name = rooms[g].name, groupList' = groupList,
           Extended(inbox, inbox'), NEW f, Covered(g, f),
           \A i \in Len(inbox) + 1 .. Len(inbox') :
             inbox'[i] \notin ListsMembers(rooms[g].name),
           \A m \in 0 .. Len(inbox) :
             Cardinality(Holding(g, f)') + Among(inbox', m, TakesMember(rooms[g].name, f))
               + Among(inbox, m, AddsMember(rooms[g].name, f))
               + Among(outbox, 0, OrdersKick(rooms[g].name, f))
             <= Cardinality(Holding(g, f)) + Among(inbox, m, TakesMember(rooms[g].name, f))
               + Among(inbox', m, AddsMember(rooms[g].name, f))
               + Among(outbox', 0, OrdersKick(rooms[g].name, f))
    PROVE  Covered(g, f)'
  <1>1. /\ inbox \in Seq(Whole) /\ Len(inbox) \in Nat
        /\ DOMAIN inbox = 1 .. Len(inbox)
        /\ outbox \in Seq(Whole) /\ outbox' \in Seq(Whole)
        /\ inbox' \in Seq(Whole) /\ Len(inbox') \in Nat
        /\ DOMAIN inbox' = 1 .. Len(inbox')
    BY LenProperties DEF TypeInv, WorldTypeOK
  <1>2. PICK name : name = rooms[g].name
    OBVIOUS
  <1>3. PICK m \in 0 .. Len(inbox), b \in Nat :
          Reaches(name, f, Cardinality(Holding(g, f)), m, b)
    BY <1>2 DEF Covered
  <1>4. /\ m \in 0 .. Len(inbox') /\ m \in Nat
        /\ m > 0 => m \in 1 .. Len(inbox) /\ inbox'[m] = inbox[m]
    BY <1>1 DEF Extended
  <1>5. Behind(inbox', m, ListsMembers(name)) = {}
    <2>1. ASSUME NEW i \in 1 .. Len(inbox'), i > m
          PROVE  inbox'[i] \notin ListsMembers(name)
      <3>1. i \in 1 .. Len(inbox) \/ i \in Len(inbox) + 1 .. Len(inbox')
        BY <1>1
      <3>2. i \in 1 .. Len(inbox) => inbox'[i] = inbox[i]
        BY DEF Extended
      <3> QED
        BY <1>1, <1>2, <1>3, <2>1, <3>1, <3>2 DEF Reaches, Behind
    <2> QED
      BY <1>1, <2>1 DEF Behind
  <1>6. Base(name, f, m, b)'
    <2>1. CASE m > 0
      BY <1>3, <1>4, <2>1 DEF Reaches, Base
    <2>2. CASE ~(m > 0)
      BY <1>3, <2>2 DEF Reaches, Base
    <2> QED
      BY <2>1, <2>2
  <1>7. /\ \A kind : Among(inbox, m, kind) \in Nat
        /\ \A kind : Among(inbox', m, kind) \in Nat
        /\ \A kind : Among(outbox, 0, kind) \in Nat
        /\ \A kind : Among(outbox', 0, kind) \in Nat
    BY <1>1, <1>4, AmongCounts
  <1>8. Cardinality(Holding(g, f)) \in Nat /\ Cardinality(Holding(g, f)') \in Nat
    BY HoldingFinite, HoldingFiniteThen
  <1>9. PICK s \in Nat, s1 \in Nat :
          s = Cardinality(Holding(g, f)) /\ s1 = Cardinality(Holding(g, f)')
    BY <1>8
  <1>10. PICK t \in Nat, t1 \in Nat, a \in Nat, a1 \in Nat, k \in Nat, k1 \in Nat :
           /\ t = Among(inbox, m, TakesMember(name, f))
           /\ t1 = Among(inbox', m, TakesMember(name, f))
           /\ a = Among(inbox, m, AddsMember(name, f))
           /\ a1 = Among(inbox', m, AddsMember(name, f))
           /\ k = Among(outbox, 0, OrdersKick(name, f))
           /\ k1 = Among(outbox', 0, OrdersKick(name, f))
    BY <1>7
  <1>11. s1 + t1 + a + k <= s + t + a1 + k1
    BY <1>2, <1>9, <1>10
  <1>12. s + t <= b + a + k
    BY <1>3, <1>9, <1>10 DEF Reaches
  <1>13. s1 + t1 <= b + a1 + k1
    BY <1>11, <1>12
  <1>14. Reaches(name, f, Cardinality(Holding(g, f)), m, b)'
    BY <1>5, <1>6, <1>9, <1>10, <1>13 DEF Reaches
  <1>15. rooms'[g].name = name
    BY <1>2
  <1> QED
    BY <1>4, <1>14, <1>15 DEF Covered

\* Nobody holds the descriptor in the room.
LEMMA CoveredNobody ==
    ASSUME TypeInv', NEW g \in DOMAIN rooms', NEW f, Holding(g, f)' = {}
    PROVE  Covered(g, f)'
  <1>1. /\ inbox' \in Seq(Whole) /\ Len(inbox') \in Nat
        /\ DOMAIN inbox' = 1 .. Len(inbox') /\ outbox' \in Seq(Whole)
    BY LenProperties DEF TypeInv, WorldTypeOK
  <1>2. PICK m, name : m \in Nat /\ m = Len(inbox') /\ name = rooms'[g].name
    BY <1>1
  <1>3. /\ m \in 0 .. Len(inbox') /\ m >= Len(inbox') /\ 0 \in Nat
    BY <1>2
  <1>4. /\ \A kind : Among(inbox', m, kind) = 0
        /\ \A kind : Among(outbox', 0, kind) \in Nat
    BY <1>1, <1>3, AmongCounts
  <1>5. Behind(inbox', m, ListsMembers(name)) = {}
    BY <1>1, <1>2 DEF Behind
  <1>6. Cardinality(Holding(g, f)') = 0
    BY FS_EmptySet
  <1>7. 0 + Among(inbox', m, TakesMember(name, f))
          <= 0 + Among(inbox', m, AddsMember(name, f))
               + Among(outbox', 0, OrdersKick(name, f))
    <2>1. PICK k \in Nat : k = Among(outbox', 0, OrdersKick(name, f))
      BY <1>4
    <2> QED
      BY <1>4, <2>1
  <1>8. Reaches(name, f, Cardinality(Holding(g, f)), m, 0)'
    BY <1>5, <1>6, <1>7 DEF Reaches, Base
  <1> QED
    BY <1>2, <1>3, <1>8 DEF Covered

\* The list of the members has just been sent.
LEMMA CoveredListed ==
    ASSUME TypeInv', NEW g \in DOMAIN rooms', NEW f, NEW p \in Whole,
           inbox' = Append(inbox, p), inbox \in Seq(Whole),
           p \in ListsMembers(rooms'[g].name), p.list = rooms'[g].members
    PROVE  Covered(g, f)'
  <1>1. /\ inbox' \in Seq(Whole) /\ Len(inbox') \in Nat /\ DOMAIN inbox' = 1 .. Len(inbox')
        /\ outbox' \in Seq(Whole)
    BY LenProperties DEF TypeInv, WorldTypeOK
  <1>2. PICK m, b, name :
          /\ m \in Nat /\ b \in Nat
          /\ m = Len(inbox') /\ b = Cardinality(Holding(g, f)') /\ name = rooms'[g].name
    BY <1>1, HoldingFiniteThen
  <1>3. inbox'[m] = p /\ m > 0 /\ m \in 0 .. Len(inbox')
    BY <1>2, AppendProperties
  <1>4. /\ \A kind : Among(inbox', m, kind) = 0
        /\ \A kind : Among(outbox', 0, kind) \in Nat
    <2>1. m >= Len(inbox') /\ 0 \in Nat
      BY <1>1, <1>2
    <2>2. m \in Nat /\ inbox' \in Seq(Whole) /\ outbox' \in Seq(Whole)
      BY <1>1, <1>2
    <2> QED
      BY <2>1, <2>2, AmongCounts
  <1>5. Behind(inbox', m, ListsMembers(name)) = {}
    BY <1>1, <1>2 DEF Behind
  <1>6. b = Cardinality({i \in DOMAIN p.list : p.list[i].FD = f})
    <2>1. Holding(g, f)' = {i \in DOMAIN p.list : p.list[i].FD = f}
      BY DEF Holding
    <2> QED
      BY <1>2, <2>1
  <1>7. Base(name, f, m, b)'
    <2>1. inbox'[m] \in ListsMembers(name)
      BY <1>2, <1>3
    <2>2. b <= Cardinality({i \in DOMAIN inbox'[m].list : inbox'[m].list[i].FD = f})
      <3>1. b <= b
        BY <1>2
      <3> QED
        BY <1>3, <1>6, <3>1
    <2> QED
      BY <1>3, <2>1, <2>2 DEF Base
  <1>8. b + Among(inbox', m, TakesMember(name, f))
          <= b + Among(inbox', m, AddsMember(name, f))
               + Among(outbox', 0, OrdersKick(name, f))
    <2>1. PICK k \in Nat : k = Among(outbox', 0, OrdersKick(name, f))
      BY <1>4
    <2> QED
      BY <1>2, <1>4, <2>1
  <1>9. Reaches(name, f, Cardinality(Holding(g, f)), m, b)'
    BY <1>2, <1>5, <1>7, <1>8 DEF Reaches
  <1> QED
    BY <1>2, <1>3, <1>9 DEF Covered

\* The server may have taken a packet that is not of a kind.
LEMMA KindTaken ==
    ASSUME TypeInv, NEW kind,
           \/ outbox' = outbox
           \/ outbox # <<>> /\ outbox' = Tail(outbox) /\ Head(outbox) \notin kind
    PROVE  Among(outbox', 0, kind) = Among(outbox, 0, kind)
  <1>1. CASE outbox' = outbox
    BY <1>1
  <1>2. CASE outbox # <<>> /\ outbox' = Tail(outbox) /\ Head(outbox) \notin kind
    <2>1. outbox \in Seq(Whole)
      BY QueuesTyped
    <2>2. Head(outbox) = outbox[1]
      BY <1>2, <2>1, FirstTaken
    <2>3. outbox[1] \notin kind /\ 0 \in Nat
      BY <1>2, <2>2
    <2> QED
      BY <1>2, <2>1, <2>3, AmongTail
  <1> QED
    BY <1>1, <1>2

\* Nothing happens that is about the room.
LEMMA CoveredQuiet ==
    ASSUME TypeInv, TypeInv', NEW g \in DOMAIN rooms, g \in DOMAIN rooms',
           rooms'[g] = rooms[g], groupList' = groupList,
           Extended(inbox, inbox'), NEW f, Covered(g, f),
           \A i \in Len(inbox) + 1 .. Len(inbox') :
             inbox'[i] \notin AboutRoom(rooms[g].name),
           \/ outbox' = outbox
           \/ /\ outbox # <<>> /\ outbox' = Tail(outbox)
              /\ Head(outbox) \notin OrdersKick(rooms[g].name, f)
    PROVE  Covered(g, f)'
  <1>1. PICK name : name = rooms[g].name
    OBVIOUS
  <1>2. /\ inbox \in Seq(Whole) /\ outbox \in Seq(Whole) /\ outbox' \in Seq(Whole)
        /\ Len(inbox) \in Nat /\ DOMAIN inbox' = 1 .. Len(inbox')
    BY LenProperties DEF TypeInv, WorldTypeOK
  <1>3. \A i \in Len(inbox) + 1 .. Len(inbox') :
          /\ inbox'[i] \notin ListsMembers(name)
          /\ inbox'[i] \notin TakesMember(name, f)
          /\ inbox'[i] \notin AddsMember(name, f)
    BY <1>1 DEF ListsMembers, TakesMember, AddsMember
  <1>4. Among(outbox', 0, OrdersKick(name, f)) = Among(outbox, 0, OrdersKick(name, f))
    BY <1>1, KindTaken
  <1>5. ASSUME NEW m \in 0 .. Len(inbox)
        PROVE  /\ Among(inbox', m, TakesMember(name, f))
                    = Among(inbox, m, TakesMember(name, f))
               /\ Among(inbox', m, AddsMember(name, f))
                    = Among(inbox, m, AddsMember(name, f))
               /\ Among(inbox, m, TakesMember(name, f)) \in Nat
               /\ Among(inbox, m, AddsMember(name, f)) \in Nat
               /\ Among(outbox, 0, OrdersKick(name, f)) \in Nat
    BY <1>2, <1>3, <1>5, AmongExtended, AmongCounts
  <1>6. Cardinality(Holding(g, f)') = Cardinality(Holding(g, f))
    BY DEF Holding
  <1>7. Cardinality(Holding(g, f)) \in Nat
    BY HoldingFinite
  <1>8. \A m \in 0 .. Len(inbox) :
          Cardinality(Holding(g, f)') + Among(inbox', m, TakesMember(name, f))
            + Among(inbox, m, AddsMember(name, f)) + Among(outbox, 0, OrdersKick(name, f))
          <= Cardinality(Holding(g, f)) + Among(inbox, m, TakesMember(name, f))
            + Among(inbox', m, AddsMember(name, f)) + Among(outbox', 0, OrdersKick(name, f))
    BY <1>4, <1>5, <1>6, <1>7
  <1> QED
    BY <1>1, <1>3, <1>8, CoveredMoves

LEMMA RoomPlaces ==
    ASSUME TypeInv, NEW later, Len(later) = Len(rooms), NEW S, later \in Seq(S)
    PROVE  DOMAIN rooms = 1 .. Len(rooms) /\ DOMAIN later = DOMAIN rooms
  BY LenProperties DEF TypeInv, WorldTypeOK

\* What a step of the server keeps: the rooms that this client stays in, or gets
\* into, are covered.
CoverKept ==
    \A h \in DOMAIN rooms, f \in MyFds \ {FdOf(Me)} :
      (/\ h = 1 \/ rooms[h].admin # Me
       /\ In(h, Me)'
       /\ In(h, Me) => Covered(h, f)) => Covered(h, f)'

\* What is sent says who the admin of the room is.
ListsSent ==
    \A i \in Len(inbox) + 1 .. Len(inbox') :
      inbox'[i].type = "GROUP_LIST" =>
        \E h \in DOMAIN rooms :
          inbox'[i].room = rooms[h].name /\ inbox'[i].name = rooms[h].admin

\* A packet about another room is not about this one.
LEMMA CoveredElsewhere ==
    ASSUME TypeInv, TypeInv', RoomsApart, RoomsMove, groupList' = groupList,
           NEW g \in DOMAIN rooms, NEW h \in DOMAIN rooms, h # g,
           rooms'[h] = rooms[h], NEW f, Covered(h, f),
           \A i \in Len(inbox) + 1 .. Len(inbox') : inbox'[i].room = rooms[g].name,
           \/ outbox' = outbox
           \/ /\ outbox # <<>> /\ outbox' = Tail(outbox)
              /\ \/ Head(outbox).type # "KICK_GROUP_MEMBER"
                 \/ Head(outbox).room = rooms[g].name
    PROVE  Covered(h, f)'
  <1>1. rooms[g].name # rooms[h].name
    BY DEF RoomsApart
  <1>2. Extended(inbox, inbox') /\ h \in DOMAIN rooms'
    BY DEF RoomsMove
  <1>3. \A i \in Len(inbox) + 1 .. Len(inbox') :
          inbox'[i] \notin AboutRoom(rooms[h].name)
    BY <1>1 DEF AboutRoom
  <1>4. (\/ Head(outbox).type # "KICK_GROUP_MEMBER"
         \/ Head(outbox).room = rooms[g].name) =>
           Head(outbox) \notin OrdersKick(rooms[h].name, f)
    BY <1>1 DEF OrdersKick, AboutRoom
  <1> QED
    BY <1>2, <1>3, <1>4, CoveredQuiet

LEMMA CoveredGrow ==
    ASSUME TypeInv, TypeInv', RoomsApart, RoomsMove, UNCHANGED <<online, groupList>>,
           NEW g \in DOMAIN rooms, NEW u \in Users, NEW fd \in MyFds,
           NewMember(g, u, fd),
           \/ outbox' = outbox
           \/ /\ outbox # <<>> /\ outbox' = Tail(outbox)
              /\ Head(outbox).type = "JOIN_ROOM"
    PROVE  CoverKept /\ ListsSent
  <1> DEFINE entry == [name |-> u, FD |-> fd]
             gl == Packet("GROUP_LIST", NoFd, rooms[g].admin, rooms[g].name)
             list == [gl EXCEPT !.list = rooms'[g].members]
             joined == Packet("JOIN_ROOM", fd, u, rooms[g].name)
  <1>0. PICK mine \in MyFds : mine = FdOf(Me)
    BY MyDescriptor DEF MyFds
  <1>1. entry \in Listed /\ rooms' = WithMember(g, entry) /\ entry.FD = fd
    BY DEF NewMember, Listed
  <1>2. /\ rooms' \in Seq(Room) /\ DOMAIN rooms' = DOMAIN rooms
        /\ \A h \in DOMAIN rooms : h # g => rooms'[h] = rooms[h]
        /\ rooms'[g].name = rooms[g].name
    <2>1. /\ rooms' \in Seq(Room) /\ Len(rooms') = Len(rooms)
          /\ \A h \in 1 .. Len(rooms) : h # g => rooms'[h] = rooms[h]
          /\ rooms'[g].name = rooms[g].name
      BY <1>1, MemberAdded
    <2>2. DOMAIN rooms = 1 .. Len(rooms) /\ DOMAIN rooms' = DOMAIN rooms
      BY <2>1, RoomPlaces
    <2> QED
      BY <2>1, <2>2
  <1>3. rooms[g] \in Room /\ rooms'[g].members \in Seq(Listed)
    <2>1. rooms[g] \in Room /\ rooms'[g] \in Room
      BY <1>2, RoomTyped, ElementOfSeq
    <2> QED
      BY <2>1 DEF Room
  <1>4. /\ list \in Whole /\ list.type = "GROUP_LIST" /\ list.room = rooms[g].name
        /\ list.list = rooms'[g].members /\ list.name = rooms[g].admin
        /\ joined \in Whole /\ joined.type = "JOIN_ROOM" /\ joined.fd = fd
        /\ joined.room = rooms[g].name
    BY <1>3, EmptySeq DEF Packet, Whole, Letters, MyFds, Room
  <1>5. /\ fd = mine => inbox' = Append(inbox, list)
        /\ fd # mine => inbox' = IF In(g, Me) THEN Append(inbox, joined) ELSE inbox
    BY <1>0 DEF NewMember, TellsMe, SendsMe
  <1> HIDE DEF list, joined, entry, gl
  <1>6. /\ inbox \in Seq(Whole) /\ Len(inbox) \in Nat
        /\ outbox \in Seq(Whole) /\ outbox' \in Seq(Whole)
    BY QueuesTyped DEF TypeInv, WorldTypeOK
  <1>7. \A i \in Len(inbox) + 1 .. Len(inbox') : inbox'[i].room = rooms[g].name
    <2>1. ASSUME NEW p \in Whole, inbox' = Append(inbox, p), p.room = rooms[g].name
          PROVE  \A i \in Len(inbox) + 1 .. Len(inbox') : inbox'[i].room = rooms[g].name
      BY <1>6, <2>1
    <2>2. CASE inbox' = inbox
      BY <1>6, <2>2
    <2> QED
      BY <1>4, <1>5, <2>1, <2>2
  <1>10. ListsSent
    <2>1. CASE inbox' = inbox
      BY <1>6, <2>1 DEF ListsSent
    <2>2. CASE inbox' = Append(inbox, list)
      BY <1>4, <1>6, <2>2 DEF ListsSent
    <2>3. CASE inbox' = Append(inbox, joined)
      BY <1>4, <1>6, <2>3 DEF ListsSent
    <2> QED
      BY <1>5, <2>1, <2>2, <2>3
  <1>8. ASSUME NEW f, Covered(g, f), In(g, Me), fd # mine
        PROVE  Covered(g, f)'
    <2>1. PICK name : name = rooms[g].name
      OBVIOUS
    <2>2. inbox' = Append(inbox, joined)
      BY <1>5, <1>8
    <2>3. /\ joined \notin ListsMembers(name) /\ joined \notin TakesMember(name, f)
          /\ joined \in AddsMember(name, f) <=> fd = f
      BY <1>4, <2>1 DEF ListsMembers, TakesMember, AddsMember, AboutRoom
    <2>4. ASSUME NEW m \in 0 .. Len(inbox)
          PROVE  /\ Among(inbox', m, TakesMember(name, f))
                      = Among(inbox, m, TakesMember(name, f))
                 /\ Among(inbox', m, AddsMember(name, f))
                      = Among(inbox, m, AddsMember(name, f)) + (IF fd = f THEN 1 ELSE 0)
                 /\ Among(inbox, m, TakesMember(name, f)) \in Nat
                 /\ Among(inbox, m, AddsMember(name, f)) \in Nat
      BY <1>4, <1>6, <2>2, <2>3, AmongAppended, AmongCounts
    <2>5. Cardinality(Holding(g, f)') = Cardinality(Holding(g, f))
                                          + (IF fd = f THEN 1 ELSE 0)
          /\ Cardinality(Holding(g, f)) \in Nat
      <3>1. Cardinality(Holding(g, f)) \in Nat
        BY HoldingFinite
      <3> QED
        BY <1>1, <3>1, HoldingGrows
    <2>6. /\ Among(outbox', 0, OrdersKick(name, f)) = Among(outbox, 0, OrdersKick(name, f))
          /\ Among(outbox, 0, OrdersKick(name, f)) \in Nat
      <3>1. Head(outbox).type = "JOIN_ROOM" => Head(outbox) \notin OrdersKick(name, f)
        BY DEF OrdersKick
      <3> QED
        BY <1>6, <3>1, KindTaken, AmongCounts
    <2>7. \A m \in 0 .. Len(inbox) :
            Cardinality(Holding(g, f)') + Among(inbox', m, TakesMember(name, f))
              + Among(inbox, m, AddsMember(name, f))
              + Among(outbox, 0, OrdersKick(name, f))
            <= Cardinality(Holding(g, f)) + Among(inbox, m, TakesMember(name, f))
              + Among(inbox', m, AddsMember(name, f))
              + Among(outbox', 0, OrdersKick(name, f))
      BY <2>4, <2>5, <2>6
    <2>8. \A i \in Len(inbox) + 1 .. Len(inbox') : inbox'[i] \notin ListsMembers(name)
      BY <1>4, <1>6, <2>2, <2>3
    <2> QED
      BY <1>2, <1>8, <2>1, <2>7, <2>8, CoveredMoves DEF RoomsMove
  <1>9. ASSUME NEW h \in DOMAIN rooms, NEW f, f # mine, In(h, Me)',
               In(h, Me) => Covered(h, f)
        PROVE  Covered(h, f)'
    <2>1. CASE h # g
      <3>1. In(h, Me)
        BY <1>0, <1>2, <1>9, <2>1, SameFd DEF In
      <3> QED
        BY <1>2, <1>7, <1>9, <2>1, <3>1, CoveredElsewhere
    <2>2. CASE h = g /\ fd = mine
      <3>1. list \in ListsMembers(rooms'[g].name)
        BY <1>2, <1>4 DEF ListsMembers, AboutRoom
      <3> QED
        BY <1>2, <1>4, <1>5, <1>6, <2>2, <3>1, CoveredListed
    <2>3. CASE h = g /\ fd # mine
      <3>1. In(g, Me)
        <4>1. SUFFICES ASSUME ~In(g, Me)
                       PROVE  FALSE
          OBVIOUS
        <4>2. inbox' = inbox
          BY <1>5, <2>3, <4>1
        <4>3. Len(inbox') # Len(inbox) + 1
          BY <1>6, <4>2
        <4> QED
          BY <1>9, <2>3, <4>1, <4>3 DEF RoomsMove
      <3> QED
        BY <1>8, <1>9, <2>3, <3>1
    <2> QED
      BY <2>1, <2>2, <2>3
  <1> QED
    BY <1>0, <1>9, <1>10 DEF CoverKept

\* A member is taken off, and this client told so.
LEMMA CoveredTold ==
    ASSUME TypeInv, TypeInv', RoomsMove, groupList' = groupList,
           NEW g \in DOMAIN rooms, NEW fd, rooms' = WithoutMember(g, fd),
           Holding(g, fd) # {}, NEW p \in Whole, inbox' = Append(inbox, p),
           p \in TakesMember(rooms[g].name, fd), NEW f, Covered(g, f),
           \/ outbox' = outbox
           \/ /\ outbox # <<>> /\ outbox' = Tail(outbox)
              /\ Head(outbox).type # "KICK_GROUP_MEMBER"
    PROVE  Covered(g, f)'
  <1>1. PICK name : name = rooms[g].name
    OBVIOUS
  <1>2. /\ inbox \in Seq(Whole) /\ Len(inbox) \in Nat
        /\ outbox \in Seq(Whole) /\ outbox' \in Seq(Whole)
    BY QueuesTyped DEF TypeInv, WorldTypeOK
  <1>3. /\ p \notin ListsMembers(name) /\ p \notin AddsMember(name, f)
        /\ p \in TakesMember(name, f) <=> fd = f
    BY <1>1 DEF ListsMembers, TakesMember, AddsMember, AboutRoom
  <1>4. ASSUME NEW m \in 0 .. Len(inbox)
        PROVE  /\ Among(inbox', m, TakesMember(name, f))
                    = Among(inbox, m, TakesMember(name, f)) + (IF fd = f THEN 1 ELSE 0)
               /\ Among(inbox', m, AddsMember(name, f))
                    = Among(inbox, m, AddsMember(name, f))
               /\ Among(inbox, m, TakesMember(name, f)) \in Nat
               /\ Among(inbox, m, AddsMember(name, f)) \in Nat
    BY <1>2, <1>3, AmongAppended, AmongCounts
  <1>5. /\ Cardinality(Holding(g, f)) \in Nat /\ Cardinality(Holding(g, f)') \in Nat
        /\ Cardinality(Holding(g, f)') + (IF fd = f THEN 1 ELSE 0)
             <= Cardinality(Holding(g, f))
    <2>1. Cardinality(Holding(g, f)) \in Nat
      BY HoldingFinite
    <2> QED
      BY <2>1, HoldingShrinks
  <1>6. /\ Among(outbox', 0, OrdersKick(name, f)) = Among(outbox, 0, OrdersKick(name, f))
        /\ Among(outbox, 0, OrdersKick(name, f)) \in Nat
    <2>1. Head(outbox).type # "KICK_GROUP_MEMBER" => Head(outbox) \notin OrdersKick(name, f)
      BY DEF OrdersKick
    <2> QED
      BY <1>2, <2>1, KindTaken, AmongCounts
  <1>7. \A m \in 0 .. Len(inbox) :
          Cardinality(Holding(g, f)') + Among(inbox', m, TakesMember(name, f))
            + Among(inbox, m, AddsMember(name, f)) + Among(outbox, 0, OrdersKick(name, f))
          <= Cardinality(Holding(g, f)) + Among(inbox, m, TakesMember(name, f))
            + Among(inbox', m, AddsMember(name, f)) + Among(outbox', 0, OrdersKick(name, f))
    BY <1>4, <1>5, <1>6
  <1>8. \A i \in Len(inbox) + 1 .. Len(inbox') : inbox'[i] \notin ListsMembers(name)
    BY <1>2, <1>3
  <1> QED
    BY <1>1, <1>7, <1>8, CoveredMoves DEF RoomsMove

\* A member is taken off by order of this client.
LEMMA CoveredOrdered ==
    ASSUME TypeInv, TypeInv', RoomsMove, groupList' = groupList,
           NEW g \in DOMAIN rooms, NEW fd, rooms' = WithoutMember(g, fd),
           inbox' = inbox, outbox # <<>>, outbox' = Tail(outbox),
           Head(outbox) \in OrdersKick(rooms[g].name, fd), NEW f, Covered(g, f)
    PROVE  Covered(g, f)'
  <1>1. PICK name : name = rooms[g].name
    OBVIOUS
  <1>2. /\ inbox \in Seq(Whole) /\ Len(inbox) \in Nat
        /\ outbox \in Seq(Whole) /\ outbox' \in Seq(Whole)
        /\ Head(outbox) = outbox[1] /\ 0 \in Nat
    BY QueuesTyped, FirstTaken DEF TypeInv, WorldTypeOK
  <1>3. outbox[1] \in OrdersKick(name, f) <=> fd = f
    BY <1>1, <1>2 DEF OrdersKick
  <1>4. /\ Among(outbox, 0, OrdersKick(name, f))
             = Among(outbox', 0, OrdersKick(name, f)) + (IF fd = f THEN 1 ELSE 0)
        /\ Among(outbox', 0, OrdersKick(name, f)) \in Nat
    <2>1. Among(outbox', 0, OrdersKick(name, f)) \in Nat
      BY <1>2, AmongCounts
    <2> QED
      BY <1>2, <1>3, <2>1, AmongTail
  <1>5. \A m \in 0 .. Len(inbox) :
          /\ Among(inbox, m, TakesMember(name, f)) \in Nat
          /\ Among(inbox, m, AddsMember(name, f)) \in Nat
    BY <1>2, AmongCounts
  <1>6. CASE fd = f /\ Holding(g, f) = {}
    <2>1. rooms' = rooms
      BY <1>6 DEF WithoutMember
    <2>2. Holding(g, f)' = {}
      BY <1>6, <2>1 DEF Holding
    <2> QED
      BY <2>1, <2>2, CoveredNobody
  <1>7. CASE ~(fd = f /\ Holding(g, f) = {})
    <2>1. /\ Cardinality(Holding(g, f)) \in Nat /\ Cardinality(Holding(g, f)') \in Nat
          /\ Cardinality(Holding(g, f)') + (IF fd = f THEN 1 ELSE 0)
               <= Cardinality(Holding(g, f))
      <3>1. Cardinality(Holding(g, f)) \in Nat
        BY HoldingFinite
      <3> QED
        BY <1>7, <3>1, HoldingShrinks
    <2>2. \A m \in 0 .. Len(inbox) :
            Cardinality(Holding(g, f)') + Among(inbox', m, TakesMember(name, f))
              + Among(inbox, m, AddsMember(name, f))
              + Among(outbox, 0, OrdersKick(name, f))
            <= Cardinality(Holding(g, f)) + Among(inbox, m, TakesMember(name, f))
              + Among(inbox', m, AddsMember(name, f))
              + Among(outbox', 0, OrdersKick(name, f))
      BY <1>4, <1>5, <2>1
    <2>3. \A i \in Len(inbox) + 1 .. Len(inbox') : inbox'[i] \notin ListsMembers(name)
      BY <1>2
    <2> QED
      BY <1>1, <2>2, <2>3, CoveredMoves DEF RoomsMove
  <1> QED
    BY <1>6, <1>7

LEMMA CoveredLeft ==
    ASSUME TypeInv, TypeInv', FaithfulInv, InOnce, RoomsApart, RoomsMove,
           UNCHANGED <<online, groupList>>,
           NEW g \in DOMAIN rooms, NEW u \in Users, NEW fd \in MyFds,
           LeftMember(g, u, fd),
           fd = FdOf(Me) \/ (u # Me /\ Holding(g, fd) # {}),
           \/ outbox' = outbox
           \/ /\ outbox # <<>> /\ outbox' = Tail(outbox)
              /\ Head(outbox).type # "KICK_GROUP_MEMBER"
    PROVE  CoverKept /\ ListsSent
  <1> DEFINE p == Packet("LEAVE_ROOM", fd, u, rooms[g].name)
  <1>1. /\ rooms' = WithoutMember(g, fd)
        /\ inbox' = IF In(g, Me) /\ u # Me THEN Append(inbox, p) ELSE inbox
    BY DEF LeftMember, TellsMe
  <1>2. /\ p \in TakesMember(rooms[g].name, fd) /\ p \in Whole
        /\ p.room = rooms[g].name /\ p.type # "GROUP_LIST"
    <2>1. rooms[g].name \in Rooms
      BY RoomTyped DEF Room
    <2> QED
      BY <2>1, EmptySeq DEF Packet, Whole, Letters, TakesMember, AboutRoom
  <1> HIDE DEF p
  <1>3. /\ \A h \in DOMAIN rooms : In(h, Me)' => In(h, Me)
        /\ fd = FdOf(Me) => ~In(g, Me)'
    BY <1>1, RoomsShrink
  <1>4. \A h \in DOMAIN rooms : h # g => rooms'[h] = rooms[h]
    <2>1. \A h \in 1 .. Len(rooms) : h # g => rooms'[h] = rooms[h]
      BY <1>1, MemberRemoved
    <2>2. DOMAIN rooms = 1 .. Len(rooms)
      BY LenProperties DEF TypeInv, WorldTypeOK
    <2> QED
      BY <2>1, <2>2
  <1>5. \A i \in Len(inbox) + 1 .. Len(inbox') :
          inbox'[i].room = rooms[g].name /\ inbox'[i].type # "GROUP_LIST"
    <2>1. inbox \in Seq(Whole) /\ Len(inbox) \in Nat
      BY QueuesTyped
    <2>2. CASE inbox' = inbox
      BY <2>1, <2>2
    <2>3. CASE inbox' = Append(inbox, p)
      BY <1>2, <2>1, <2>3
    <2> QED
      BY <1>1, <2>2, <2>3
  <1>6. ASSUME NEW h \in DOMAIN rooms, NEW f, In(h, Me)',
               In(h, Me) => Covered(h, f)
        PROVE  Covered(h, f)'
    <2>1. Covered(h, f)
      BY <1>3, <1>6
    <2>2. CASE h # g
      BY <1>4, <1>5, <2>1, <2>2, CoveredElsewhere
    <2>3. CASE h = g
      <3>1. In(g, Me) /\ fd # FdOf(Me)
        BY <1>3, <1>6, <2>3
      <3> QED
        BY <1>1, <1>2, <2>1, <2>3, <3>1, CoveredTold
    <2> QED
      BY <2>2, <2>3
  <1> QED
    BY <1>5, <1>6 DEF CoverKept, ListsSent

\* Who kicks is the admin, and only the first room is looked at: kicks from the
\* other rooms of this client are not carried out.
LEMMA CoveredKick ==
    ASSUME TypeInv, TypeInv', FaithfulInv, InOnce, RoomsApart, RoomsMove,
           UNCHANGED <<online, groupList>>,
           NEW g \in DOMAIN rooms, NEW u \in Users, NEW fd \in MyFds, NEW by,
           KickedMember(g, u, fd, by),
           \/ by # Me /\ Holding(g, fd) # {} /\ outbox' = outbox
           \/ /\ by = Me /\ rooms[g].admin = Me
              /\ outbox # <<>> /\ outbox' = Tail(outbox)
              /\ Head(outbox) \in OrdersKick(rooms[g].name, fd)
    PROVE  CoverKept /\ ListsSent
  <1> DEFINE p == Packet("KICK_GROUP_MEMBER", fd, u, rooms[g].name)
             kicked == Packet("KICKED", NoFd, NoUser, rooms[g].name)
             n == Cardinality(Holding(g, fd))
             told == [i \in 1 .. n |-> kicked]
  <1>0. PICK mine \in MyFds : mine = FdOf(Me)
    BY MyDescriptor DEF MyFds
  <1>1. /\ rooms' = IF g = 1 THEN WithoutMember(g, fd) ELSE rooms
        /\ g # 1 => inbox' = inbox
        /\ g = 1 /\ fd = mine => inbox' = inbox \o told
        /\ g = 1 /\ fd # mine =>
             inbox' = IF by # Me /\ In(g, Me) THEN Append(inbox, p) ELSE inbox
    BY <1>0 DEF KickedMember
  <1>2. /\ p \in TakesMember(rooms[g].name, fd) /\ p \in Whole /\ p.room = rooms[g].name
        /\ kicked \in Whole /\ kicked.room = rooms[g].name
        /\ p.type # "GROUP_LIST" /\ kicked.type # "GROUP_LIST"
    <2>1. rooms[g].name \in Rooms
      BY RoomTyped DEF Room
    <2> QED
      BY <2>1, EmptySeq DEF Packet, Whole, Letters, MyFds, TakesMember, AboutRoom
  <1>3. n \in Nat
    BY HoldingFinite
  <1> HIDE DEF p, kicked, n
  <1>4. told \in Seq(Whole) /\ Len(told) = n /\ \A i \in 1 .. n : told[i] = kicked
    BY <1>2, <1>3
  <1> HIDE DEF told
  <1>5. inbox \in Seq(Whole) /\ Len(inbox) \in Nat
    BY QueuesTyped
  <1>6. \A i \in Len(inbox) + 1 .. Len(inbox') :
          inbox'[i].room = rooms[g].name /\ inbox'[i].type # "GROUP_LIST"
    <2>1. CASE inbox' = inbox
      BY <1>5, <2>1
    <2>2. CASE inbox' = Append(inbox, p)
      BY <1>2, <1>5, <2>2
    <2>3. CASE inbox' = inbox \o told
      <3>1. /\ Len(inbox \o told) = Len(inbox) + n
            /\ \A i \in 1 .. Len(inbox) + n :
                 (inbox \o told)[i] = IF i <= Len(inbox) THEN inbox[i]
                                                         ELSE told[i - Len(inbox)]
        BY <1>4, <1>5, ConcatProperties
      <3>2. ASSUME NEW i \in Len(inbox) + 1 .. Len(inbox')
            PROVE  inbox'[i] = kicked
        <4>1. /\ i \in 1 .. Len(inbox) + n /\ ~(i <= Len(inbox))
              /\ i - Len(inbox) \in 1 .. n
          BY <1>3, <1>5, <2>3, <3>1
        <4> QED
          BY <1>4, <2>3, <3>1, <4>1
      <3> QED
        BY <1>2, <3>2
    <2> QED
      BY <1>1, <2>1, <2>2, <2>3
  <1>7. \A h \in DOMAIN rooms : h # g => rooms'[h] = rooms[h]
    <2>1. g = 1 => \A h \in 1 .. Len(rooms) : h # g => rooms'[h] = rooms[h]
      BY <1>1, MemberRemoved
    <2>2. DOMAIN rooms = 1 .. Len(rooms)
      BY LenProperties DEF TypeInv, WorldTypeOK
    <2> QED
      BY <1>1, <2>1, <2>2
  <1>8. /\ \A h \in DOMAIN rooms : In(h, Me)' => In(h, Me)
        /\ g = 1 /\ fd = mine => ~In(g, Me)'
    <2>1. CASE g = 1
      BY <1>0, <1>1, <2>1, RoomsShrink
    <2>2. CASE g # 1
      BY <1>1, <2>2, SameFd DEF In
    <2> QED
      BY <2>1, <2>2
  <1>9. ASSUME NEW h \in DOMAIN rooms, NEW f, In(h, Me)', h = 1 \/ rooms[h].admin # Me,
               Covered(h, f)
        PROVE  Covered(h, f)'
    <2>1. CASE h # g
      <3>1. Head(outbox) \in OrdersKick(rooms[g].name, fd) =>
              Head(outbox).room = rooms[g].name
        BY DEF OrdersKick, AboutRoom
      <3> QED
        BY <1>6, <1>7, <1>9, <2>1, <3>1, CoveredElsewhere
    <2>2. CASE h = g /\ g # 1
      <3>1. rooms' = rooms /\ inbox' = inbox /\ outbox' = outbox
        BY <1>1, <1>9, <2>2
      <3>2. \A i \in Len(inbox) + 1 .. Len(inbox') :
              inbox'[i] \notin AboutRoom(rooms[h].name)
        BY <1>5, <3>1
      <3> QED
        BY <1>9, <3>1, <3>2, CoveredQuiet DEF RoomsMove
    <2>3. CASE h = g /\ g = 1
      <3>1. rooms' = WithoutMember(g, fd) /\ fd # mine /\ In(g, Me)
        BY <1>1, <1>8, <1>9, <2>3
      <3>2. CASE by # Me
        BY <1>1, <1>2, <1>9, <2>3, <3>1, <3>2, CoveredTold
      <3>3. CASE by = Me
        BY <1>1, <1>9, <2>3, <3>1, <3>3, CoveredOrdered
      <3> QED
        BY <3>2, <3>3
    <2> QED
      BY <2>1, <2>2, <2>3
  <1> QED
    BY <1>6, <1>8, <1>9 DEF CoverKept, ListsSent

\* No room changes, and no packet is about one.
LEMMA CoveredIdle ==
    ASSUME TypeInv, TypeInv', RoomsMove, UNCHANGED <<rooms, groupList>>,
           FdOf(Me)' = FdOf(Me),
           \/ inbox' = inbox
           \/ \E p : /\ p.type \in {"USER_JOINED_SERVER", "USER_LEFT", "CLIENT_LIST"}
                     /\ inbox' = Append(inbox, p),
           \/ outbox' = outbox
           \/ /\ outbox # <<>> /\ outbox' = Tail(outbox)
              /\ Head(outbox).type # "KICK_GROUP_MEMBER"
    PROVE  CoverKept /\ ListsSent
  <1>1. inbox \in Seq(Whole) /\ Len(inbox) \in Nat
    BY QueuesTyped
  <1>2. \A i \in Len(inbox) + 1 .. Len(inbox') :
          inbox'[i].type \in {"USER_JOINED_SERVER", "USER_LEFT", "CLIENT_LIST"}
    <2>1. CASE inbox' = inbox
      BY <1>1, <2>1
    <2>2. ASSUME NEW p, inbox' = Append(inbox, p),
                 p.type \in {"USER_JOINED_SERVER", "USER_LEFT", "CLIENT_LIST"}
          PROVE  \A i \in Len(inbox) + 1 .. Len(inbox') :
                   inbox'[i].type \in {"USER_JOINED_SERVER", "USER_LEFT", "CLIENT_LIST"}
      <3>1. inbox \in Seq(Whole \cup {p}) /\ p \in Whole \cup {p}
        BY <1>1
      <3>2. /\ Len(Append(inbox, p)) = Len(inbox) + 1
            /\ Append(inbox, p)[Len(inbox) + 1] = p
        BY <3>1, AppendProperties
      <3>3. \A i \in Len(inbox) + 1 .. Len(inbox') : i = Len(inbox) + 1
        BY <1>1, <2>2, <3>2
      <3> QED
        BY <2>2, <3>2, <3>3
    <2> QED
      BY <2>1, <2>2
  <1>3. ASSUME NEW h \in DOMAIN rooms, NEW f, In(h, Me)', In(h, Me) => Covered(h, f)
        PROVE  Covered(h, f)'
    <2>1. In(h, Me)
      BY <1>3 DEF In
    <2>2. \A i \in Len(inbox) + 1 .. Len(inbox') :
            inbox'[i] \notin AboutRoom(rooms[h].name)
      BY <1>2 DEF AboutRoom
    <2>3. Head(outbox).type # "KICK_GROUP_MEMBER" =>
            Head(outbox) \notin OrdersKick(rooms[h].name, f)
      BY DEF OrdersKick
    <2> QED
      BY <1>3, <2>1, <2>2, <2>3, CoveredQuiet DEF RoomsMove
  <1> QED
    BY <1>2, <1>3 DEF CoverKept, ListsSent

AdminsStay == \A h \in DOMAIN rooms : rooms'[h].admin = rooms[h].admin

LEMMA AdminsKept ==
    ASSUME TypeInv, NEW g \in DOMAIN rooms, NEW u \in Users, NEW fd \in MyFds,
           \/ NewMember(g, u, fd)
           \/ LeftMember(g, u, fd)
           \/ \E by : KickedMember(g, u, fd, by)
    PROVE  AdminsStay
  <1> DEFINE entry == [name |-> u, FD |-> fd]
  <1>1. DOMAIN rooms = 1 .. Len(rooms)
    BY LenProperties DEF TypeInv, WorldTypeOK
  <1>2. CASE rooms' = WithMember(g, entry)
    <2>1. entry \in Listed
      BY DEF Listed
    <2> HIDE DEF entry
    <2>2. /\ \A h \in 1 .. Len(rooms) : h # g => rooms'[h] = rooms[h]
          /\ rooms'[g].admin = rooms[g].admin
      BY <1>2, <2>1, MemberAdded
    <2> QED
      BY <1>1, <2>2 DEF AdminsStay
  <1>3. CASE rooms' = WithoutMember(g, fd)
    <2>1. /\ \A h \in 1 .. Len(rooms) : h # g => rooms'[h] = rooms[h]
          /\ rooms'[g].admin = rooms[g].admin
      BY <1>3, MemberRemoved
    <2> QED
      BY <1>1, <2>1 DEF AdminsStay
  <1>4. CASE rooms' = rooms
    BY <1>4 DEF AdminsStay
  <1> QED
    BY <1>2, <1>3, <1>4 DEF NewMember, LeftMember, KickedMember

\* What the server does keeps what is followed covered.
LEMMA CoveredStep ==
    ASSUME TypeInv, TypeInv', KnownInv, CoveredInv, RoomsMove, AdminsStay, CoverKept,
           UNCHANGED clientVars, FdOf(Me)' = FdOf(Me),
           \/ outbox' = outbox
           \/ /\ outbox # <<>> /\ outbox' = Tail(outbox)
              /\ Head(outbox).type = "LEAVE_ROOM" =>
                   \/ strayed
                   \/ \A h \in DOMAIN rooms :
                        rooms[h].name = Head(outbox).room => ~In(h, Me)'
    PROVE  CoveredInv'
  <1>1. /\ DOMAIN rooms' = DOMAIN rooms
        /\ \A h \in DOMAIN rooms : rooms'[h].name = rooms[h].name
                                   /\ rooms'[h].admin = rooms[h].admin
        /\ strayed' = strayed
    BY DEF RoomsMove, AdminsStay, clientVars
  <1>2. ASSUME NEW h \in DOMAIN rooms, NEW f \in MyFds \ {FdOf(Me)}, ~strayed,
               h = 1 \/ rooms[h].admin # Me, In(h, Me)',
               NEW name, name = rooms[h].name, ~Leaving(name, 0)'
        PROVE  Covered(h, f)'
    <2>1. ~Leaving(name, 0)
      <3>1. CASE outbox' = outbox
        BY <1>2, <3>1 DEF Leaving
      <3>2. CASE outbox # <<>> /\ outbox' = Tail(outbox)
        <4>1. Head(outbox) \in Whole /\ 0 \in Nat
          BY <3>2, QueuesTyped, FirstTaken
        <4>2. ~(Head(outbox).type = "LEAVE_ROOM" /\ Head(outbox).room = name)
              \/ outbox' = outbox
          BY <1>2
        <4> QED
          BY <1>2, <3>1, <3>2, <4>1, <4>2, LeavingKept
      <3> QED
        BY <3>1, <3>2
    <2>2. In(h, Me) => Covered(h, f)
      BY <1>2, <2>1 DEF CoveredInv, Followed
    <2> QED
      BY <1>2, <2>2 DEF CoverKept
  <1>3. ASSUME ~strayed, NEW h \in DOMAIN rooms', NEW f \in MyFds \ {FdOf(Me)},
               Followed(h)'
        PROVE  Covered(h, f)'
    <2>1. PICK name : name = rooms[h].name
      OBVIOUS
    <2>2. rooms'[h].name = name /\ h \in DOMAIN rooms /\ rooms'[h].admin = rooms[h].admin
      BY <1>1, <1>3, <2>1
    <2>3. ~Leaving(name, 0)'
      BY <1>3, <2>2 DEF Followed, Leaving
    <2> QED
      BY <1>2, <1>3, <2>1, <2>2, <2>3 DEF Followed
  <1> QED
    BY <1>1, <1>3 DEF CoveredInv, Followed, Covered

LEMMA AdminStep ==
    ASSUME TypeInv, RoomsApart, AdminInv, RoomsMove, AdminsStay, ListsSent,
           groupList' = groupList,
           outbox' = outbox \/ (outbox # <<>> /\ outbox' = Tail(outbox))
    PROVE  AdminInv'
  <1>1. /\ DOMAIN rooms' = DOMAIN rooms
        /\ \A h \in DOMAIN rooms : rooms'[h].name = rooms[h].name
                                   /\ rooms'[h].admin = rooms[h].admin
        /\ DOMAIN inbox' = 1 .. Len(inbox')
        /\ \A i \in 1 .. Len(inbox) : inbox'[i] = inbox[i]
    BY DEF RoomsMove, AdminsStay, Extended
  <1>2. \A k \in DOMAIN inbox' :
          k \in DOMAIN inbox \/ k \in Len(inbox) + 1 .. Len(inbox')
    <2>1. Len(inbox') \in Nat /\ Len(inbox) \in Nat /\ DOMAIN inbox = 1 .. Len(inbox)
      BY QueuesTyped DEF RoomsMove, Extended
    <2> QED
      BY <1>1, <2>1
  <1>3. \A k \in DOMAIN outbox' : \E l \in DOMAIN outbox : outbox'[k] = outbox[l]
    <2>1. CASE outbox # <<>> /\ outbox' = Tail(outbox)
      <3>1. /\ Tail(outbox) \in Seq(Whole) /\ Len(Tail(outbox)) = Len(outbox) - 1
            /\ \A i \in 1 .. Len(outbox) - 1 : Tail(outbox)[i] = outbox[i + 1]
            /\ Len(outbox) \in Nat /\ DOMAIN outbox = 1 .. Len(outbox)
        BY <2>1, QueuesTyped, FirstTaken
      <3>2. /\ DOMAIN Tail(outbox) = 1 .. Len(outbox) - 1
            /\ \A i \in 1 .. Len(outbox) - 1 : i + 1 \in 1 .. Len(outbox)
        BY <3>1, LenProperties
      <3> QED
        BY <2>1, <3>1, <3>2
    <2> QED
      BY <2>1
  <1>4. ASSUME NEW g \in DOMAIN rooms, NEW k \in DOMAIN inbox',
               inbox'[k] \in ListsMembers(rooms[g].name), inbox'[k].name = Me
        PROVE  rooms[g].admin = Me
    <2>1. CASE k \in DOMAIN inbox
      <3>1. inbox'[k] = inbox[k]
        BY <1>1, <2>1, QueuesTyped
      <3> QED
        BY <1>4, <2>1, <3>1 DEF AdminInv
    <2>2. CASE k \in Len(inbox) + 1 .. Len(inbox')
      <3>1. inbox'[k].type = "GROUP_LIST" /\ inbox'[k].room = rooms[g].name
        BY <1>4 DEF ListsMembers, AboutRoom
      <3>2. PICK h \in DOMAIN rooms : /\ inbox'[k].room = rooms[h].name
                                      /\ inbox'[k].name = rooms[h].admin
        BY <2>2, <3>1 DEF ListsSent
      <3> QED
        BY <1>4, <3>1, <3>2 DEF RoomsApart
    <2> QED
      BY <1>2, <2>1, <2>2
  <1> QED
    BY <1>1, <1>3, <1>4 DEF AdminInv

\* A room that is made has this client alone.
LEMMA CoveredCreated ==
    ASSUME TypeInv, TypeInv', FaithfulInv, AdminInv, CoveredInv, ServeCreateRoom,
           UNCHANGED clientVars, FdOf(Me)' = FdOf(Me)
    PROVE  CoveredInv' /\ AdminInv'
  <1> DEFINE p == Head(outbox)
             entry == [name |-> Me, FD |-> FdOf(Me)]
             room == [name |-> p.room, admin |-> Me, members |-> <<entry>>]
  <1>0. PICK n \in Nat, mine \in Fds : n = Len(rooms) + 1 /\ mine = FdOf(Me)
    <2>1. Len(rooms) \in Nat /\ FdOf(Me) \in Fds
      BY MyDescriptor DEF TypeInv, WorldTypeOK
    <2> QED
      BY <2>1
  <1>1. /\ outbox # <<>> /\ p.type = "CREATE_ROOM" /\ outbox' = Tail(outbox)
        /\ UNCHANGED <<online, inbox, groupList, strayed>>
        /\ rooms' = Append(rooms, room)
    BY DEF ServeCreateRoom, ServeNext, clientVars
  <1>2. /\ outbox \in Seq(Whole) /\ rooms \in Seq(Room)
        /\ Len(rooms) \in Nat /\ DOMAIN rooms = 1 .. Len(rooms)
        /\ inbox \in Seq(Whole) /\ Len(inbox) \in Nat /\ DOMAIN inbox = 1 .. Len(inbox)
    BY QueuesTyped, LenProperties DEF TypeInv, WorldTypeOK, Room
  <1>3. /\ p \in Whole
        /\ \A k \in DOMAIN outbox' : \E l \in DOMAIN outbox : outbox'[k] = outbox[l]
    <2>1. /\ p \in Whole /\ Len(outbox) \in Nat /\ DOMAIN outbox = 1 .. Len(outbox)
          /\ Tail(outbox) \in Seq(Whole) /\ Len(Tail(outbox)) = Len(outbox) - 1
          /\ \A i \in 1 .. Len(outbox) - 1 : Tail(outbox)[i] = outbox[i + 1]
      BY <1>1, <1>2, FirstTaken, LenProperties
    <2>2. /\ DOMAIN Tail(outbox) = 1 .. Len(outbox) - 1
          /\ \A i \in 1 .. Len(outbox) - 1 : i + 1 \in 1 .. Len(outbox)
      BY <2>1, LenProperties
    <2> HIDE DEF p
    <2> QED
      BY <1>1, <2>1, <2>2
  <1>4. room.name = p.room /\ room.members = <<entry>> /\ room.admin = Me
    OBVIOUS
  <1> HIDE DEF room
  <1>5. /\ DOMAIN rooms' = 1 .. n
        /\ \A g \in 1 .. Len(rooms) : rooms'[g] = rooms[g]
        /\ rooms'[n] = room
        /\ \A g \in 1 .. n : g = n \/ g \in 1 .. Len(rooms)
    <2> HIDE DEF p
    <2> QED
      BY <1>0, <1>1, <1>2
  <1>6. DOMAIN <<entry>> = {1} /\ <<entry>>[1] = entry /\ entry.FD = mine
    BY <1>0
  <1> HIDE DEF p, entry
  <1>7. AdminInv'
    <2>1. ASSUME NEW g \in DOMAIN rooms'
          PROVE  rooms'[g].admin = Me \/ (g \in DOMAIN rooms /\ rooms'[g] = rooms[g])
      BY <1>2, <1>4, <1>5
    <2> QED
      BY <1>1, <1>3, <2>1 DEF AdminInv
  <1>8. ASSUME ~strayed, NEW g \in DOMAIN rooms', NEW f \in MyFds \ {mine},
               Followed(g)'
        PROVE  Covered(g, f)'
    <2>1. CASE g = n
      <3>1. Holding(g, f)' = {}
        BY <1>4, <1>5, <1>6, <1>8, <2>1 DEF Holding
      <3> QED
        BY <1>8, <3>1, CoveredNobody
    <2>2. CASE g \in 1 .. Len(rooms)
      <3>1. g \in DOMAIN rooms /\ rooms'[g] = rooms[g]
        BY <1>2, <1>5, <2>2
      <3>2. In(g, Me)
        BY <1>8, <3>1 DEF Followed, In
      <3>3. ~Leaving(rooms[g].name, 0)
        <4>1. PICK name : name = rooms[g].name
          OBVIOUS
        <4>2. ~Leaving(name, 0)'
          BY <1>8, <3>1, <4>1 DEF Followed, Leaving
        <4>3. 0 \in Nat /\ ~(Head(outbox).type = "LEAVE_ROOM" /\ Head(outbox).room = name)
          BY <1>1 DEF p
        <4> QED
          BY <1>1, <1>3, <4>1, <4>2, <4>3, LeavingKept
      <3>4. Covered(g, f)
        BY <1>0, <1>8, <3>1, <3>2, <3>3 DEF CoveredInv, Followed
      <3>5. Extended(inbox, inbox')
            /\ \A i \in Len(inbox) + 1 .. Len(inbox') :
                 inbox'[i] \notin AboutRoom(rooms[g].name)
        BY <1>1, <1>2 DEF Extended
      <3>6. Head(outbox) \notin OrdersKick(rooms[g].name, f)
        BY <1>1 DEF OrdersKick, p
      <3> QED
        BY <1>1, <1>8, <3>1, <3>4, <3>5, <3>6, CoveredQuiet
    <2> QED
      BY <1>5, <2>1, <2>2
  <1>9. CoveredInv'
    BY <1>0, <1>1, <1>8 DEF CoveredInv, Followed, Covered
  <1> QED
    BY <1>7, <1>9

LEMMA CoveredOthers ==
    ASSUME TypeInv, FaithfulInv, KnownInv, AdminInv, CoveredInv, OthersAct, TypeInv',
           UNCHANGED clientVars, FdOf(Me)' = FdOf(Me)
    PROVE  CoveredInv' /\ AdminInv'
  <1> USE ClientWorldAssumption
  <1>1. /\ InOnce /\ RoomsApart /\ FdOf(Me) \in MyFds /\ online[FdOf(Me)] = Me
        /\ IsOnline(Me) /\ groupList' = groupList
    BY MyDescriptor DEF KnownInv, MyFds, TypeInv, WorldTypeOK, clientVars
  <1>2. (RoomsMove /\ AdminsStay /\ CoverKept /\ ListsSent /\ outbox' = outbox)
          => CoveredInv' /\ AdminInv'
    BY <1>1, CoveredStep, AdminStep
  <1>3. ASSUME NEW p, p.type \in {"USER_JOINED_SERVER", "USER_LEFT"},
               inbox' = inbox \/ inbox' = Append(inbox, p),
               rooms' = rooms, outbox' = outbox
        PROVE  CoveredInv' /\ AdminInv'
    <2>1. RoomsMove
      BY <1>1, <1>3, RoomsQuiet
    <2>2. CoverKept /\ ListsSent
      BY <1>1, <1>3, <2>1, CoveredIdle
    <2>3. AdminsStay
      BY <1>3 DEF AdminsStay
    <2> QED
      BY <1>2, <1>3, <2>1, <2>2, <2>3
  <1>4. ASSUME NEW u \in Users \ {Me}, NewUser(u) \/ LeftUser(u)
        PROVE  CoveredInv' /\ AdminInv'
    <2>1. CASE NewUser(u)
      <3> DEFINE p == Packet("USER_JOINED_SERVER", Lowest(Fds \ OnlineFds), u, NoRoom)
      <3>1. /\ rooms' = rooms /\ outbox' = outbox
            /\ inbox' = inbox \/ inbox' = Append(inbox, p)
        BY <2>1 DEF NewUser, SendsMe
      <3>2. p.type = "USER_JOINED_SERVER"
        BY DEF Packet
      <3> HIDE DEF p
      <3> QED
        BY <1>3, <3>1, <3>2
    <2>2. CASE LeftUser(u)
      <3> DEFINE p == Packet("USER_LEFT", FdOf(u), NoUser, NoRoom)
      <3>1. /\ rooms' = rooms /\ outbox' = outbox
            /\ inbox' = inbox \/ inbox' = Append(inbox, p)
        BY <2>2 DEF LeftUser, SendsMe
      <3>2. p.type = "USER_LEFT"
        BY DEF Packet
      <3> HIDE DEF p
      <3> QED
        BY <1>3, <3>1, <3>2
    <2> QED
      BY <1>4, <2>1, <2>2
  <1>5. ASSUME NEW g \in DOMAIN rooms, UNCHANGED <<online, been, me, outbox>>,
               \/ InvitesMe(g)
               \/ \E u \in Users \ {Me} : Invites(g, u) \/ Leaves(g, u)
               \/ \E u \in Users : Kicks(g, u)
        PROVE  CoveredInv' /\ AdminInv'
    <2>1. ASSUME NEW u \in Users, IsOnline(u)
          PROVE  /\ FdOf(u) \in MyFds
                 /\ FdOf(u) = FdOf(Me) => u = Me
                 /\ In(g, u) => Holding(g, FdOf(u)) # {}
      <3>1. FdOf(u) \in MyFds /\ (FdOf(u) = FdOf(Me) => u = Me)
        BY <1>1, <2>1, FdOfHolds DEF MyFds
      <3>2. In(g, u) => Holding(g, FdOf(u)) # {}
        BY DEF In, ToSet, Holding
      <3> QED
        BY <3>1, <3>2
    <2>2. CASE InvitesMe(g)
      <3>1. NewMember(g, Me, FdOf(Me)) /\ ~In(g, Me)
        BY <2>2 DEF InvitesMe
      <3>2. RoomsMove /\ AdminsStay
        BY <1>1, <1>5, <3>1, RoomsGrow, AdminsKept
      <3>3. CoverKept /\ ListsSent
        BY <1>1, <1>5, <3>1, <3>2, CoveredGrow
      <3> QED
        BY <1>2, <1>5, <3>2, <3>3
    <2>3. ASSUME NEW u \in Users \ {Me}, Invites(g, u)
          PROVE  CoveredInv' /\ AdminInv'
      <3>1. NewMember(g, u, FdOf(u)) /\ FdOf(u) \in MyFds /\ FdOf(u) # FdOf(Me)
        BY <2>1, <2>3 DEF Invites
      <3>2. RoomsMove /\ AdminsStay
        BY <1>1, <1>5, <3>1, RoomsGrow, AdminsKept
      <3>3. CoverKept /\ ListsSent
        BY <1>1, <1>5, <3>1, <3>2, CoveredGrow
      <3> QED
        BY <1>2, <1>5, <3>2, <3>3
    <2>4. ASSUME NEW u \in Users \ {Me}, Leaves(g, u)
          PROVE  CoveredInv' /\ AdminInv'
      <3>1. /\ LeftMember(g, u, FdOf(u)) /\ FdOf(u) \in MyFds
            /\ Holding(g, FdOf(u)) # {} /\ u # Me
        BY <2>1, <2>4 DEF Leaves
      <3>2. RoomsMove /\ AdminsStay
        BY <1>1, <1>5, <3>1, RoomsLeft, AdminsKept
      <3>3. CoverKept /\ ListsSent
        BY <1>1, <1>5, <3>1, <3>2, CoveredLeft
      <3> QED
        BY <1>2, <1>5, <3>2, <3>3
    <2>5. ASSUME NEW u \in Users, Kicks(g, u)
          PROVE  CoveredInv' /\ AdminInv'
      <3>1. PICK by : by = rooms[g].admin
        OBVIOUS
      <3>2. /\ KickedMember(g, u, FdOf(u), by) /\ FdOf(u) \in MyFds
            /\ by # Me /\ Holding(g, FdOf(u)) # {}
        BY <2>1, <2>5, <3>1 DEF Kicks
      <3>3. RoomsMove /\ AdminsStay
        BY <1>1, <1>5, <3>2, RoomsKick, AdminsKept
      <3>4. CoverKept /\ ListsSent
        BY <1>1, <1>5, <3>2, <3>3, CoveredKick
      <3> QED
        BY <1>2, <1>5, <3>3, <3>4
    <2> QED
      BY <1>5, <2>2, <2>3, <2>4, <2>5
  <1> QED
    BY <1>4, <1>5 DEF OthersAct

LEMMA CoveredServed ==
    ASSUME TypeInv, FaithfulInv, KnownInv, AdminInv, CoveredInv, Serves, TypeInv',
           UNCHANGED clientVars, FdOf(Me)' = FdOf(Me)
    PROVE  CoveredInv' /\ AdminInv'
  <1> USE ClientWorldAssumption
  <1>1. /\ InOnce /\ RoomsApart /\ SentInv /\ groupList' = groupList
        /\ FdOf(Me) \in Fds /\ online[FdOf(Me)] = Me
        /\ outbox \in Seq(Whole) /\ QueueFaithful(online, been, outbox)
    BY MyDescriptor DEF KnownInv, TypeInv, WorldTypeOK, FaithfulInv, WorldFaithful,
       clientVars
  <1>2. CASE IntroduceMe
    <2>1. /\ outbox # <<>> /\ outbox' = Tail(outbox) /\ Head(outbox).type = "INTRO"
          /\ rooms' = rooms /\ inbox' = inbox
      BY <1>2 DEF IntroduceMe
    <2>2. RoomsMove
      BY <1>1, <2>1, RoomsQuiet
    <2>3. CoverKept /\ ListsSent /\ AdminsStay
      BY <1>1, <2>1, <2>2, CoveredIdle DEF AdminsStay
    <2> QED
      BY <1>1, <2>1, <2>2, <2>3, CoveredStep, AdminStep
  <1>3. CASE SendListToMe
    <2> DEFINE fds == SetToSeq(OnlineFds)
               list == [i \in DOMAIN fds |-> Entry(fds[i])]
               blank == Packet("CLIENT_LIST", NoFd, Me, NoRoom)
               p == [blank EXCEPT !.list = list]
    <2>1. inbox' = Append(inbox, p) /\ rooms' = rooms /\ outbox' = outbox
      BY <1>3 DEF SendListToMe, SendsMe
    <2> HIDE DEF list
    <2>2. p.type = "CLIENT_LIST"
      BY DEF Packet
    <2> HIDE DEF p
    <2>3. RoomsMove
      BY <1>1, <2>1, <2>2, RoomsQuiet
    <2>4. CoverKept /\ ListsSent /\ AdminsStay
      BY <1>1, <2>1, <2>2, <2>3, CoveredIdle DEF AdminsStay
    <2> QED
      BY <1>1, <2>1, <2>3, <2>4, CoveredStep, AdminStep
  <1>4. ASSUME NEW type, ServeNext(type)
        PROVE  /\ outbox # <<>> /\ outbox' = Tail(outbox) /\ online' = online
               /\ Head(outbox).type = type
               /\ 1 \in DOMAIN outbox /\ Head(outbox) = outbox[1]
               /\ Head(outbox) \in Whole /\ Head(outbox).fd \in MyFds
               /\ PacketFaithful(online, been, Head(outbox))
    BY <1>1, <1>4, FirstTaken, TailFaithful DEF ServeNext, Whole, Letters
  <1>5. CASE ServeJoinRoom
    <2>1. PICK g \in DOMAIN rooms : NewMember(g, Head(outbox).name, Head(outbox).fd)
      BY <1>5 DEF ServeJoinRoom, Numbers
    <2>2. ServeNext("JOIN_ROOM")
      BY <1>5 DEF ServeJoinRoom
    <2>3. Head(outbox).name \in Users /\ Head(outbox).name # Me
      BY <1>1, <1>4, <2>2 DEF Whole, SentInv
    <2>4. Head(outbox).fd # FdOf(Me)
      <3>1. Faithful(online, been, [name |-> Head(outbox).name, FD |-> Head(outbox).fd])
        BY <1>4, <2>2 DEF PacketFaithful
      <3> QED
        BY <1>1, <2>3, <3>1 DEF Faithful
    <2>5. RoomsMove /\ AdminsStay
      BY <1>1, <1>4, <2>1, <2>2, <2>3, <2>4, RoomsGrow, AdminsKept
    <2>6. CoverKept /\ ListsSent
      BY <1>1, <1>4, <2>1, <2>2, <2>3, <2>5, CoveredGrow
    <2> QED
      BY <1>1, <1>4, <2>2, <2>5, <2>6, CoveredStep, AdminStep
  <1>6. CASE ServeKick
    <2>1. PICK g \in DOMAIN rooms :
            /\ rooms[g].name = Head(outbox).room
            /\ KickedMember(g, Head(outbox).name, Head(outbox).fd, Me)
      BY <1>6 DEF ServeKick, Numbers
    <2>2. ServeNext("KICK_GROUP_MEMBER")
      BY <1>6 DEF ServeKick
    <2>3. Head(outbox).name \in Users
      BY <1>4, <2>2 DEF Whole
    <2>4. RoomsMove /\ AdminsStay
      BY <1>1, <1>4, <2>1, <2>2, <2>3, RoomsKick, AdminsKept
    <2>5. rooms[g].admin = Me
      BY <1>4, <2>1, <2>2 DEF AdminInv
    <2>6. Head(outbox) \in OrdersKick(rooms[g].name, Head(outbox).fd)
      BY <1>4, <2>1, <2>2 DEF OrdersKick, AboutRoom
    <2>7. CoverKept /\ ListsSent
      BY <1>1, <1>4, <2>1, <2>2, <2>3, <2>4, <2>5, <2>6, CoveredKick
    <2> QED
      BY <1>1, <1>4, <2>2, <2>4, <2>7, CoveredStep, AdminStep
  <1>7. CASE ServeLeaveRoom
    <2>1. PICK g \in DOMAIN rooms : /\ rooms[g].name = Head(outbox).room
                                    /\ LeftMember(g, Me, Head(outbox).fd)
      BY <1>7 DEF ServeLeaveRoom, Numbers
    <2>2. ServeNext("LEAVE_ROOM")
      BY <1>7 DEF ServeLeaveRoom
    <2>3. /\ RoomsMove /\ (Head(outbox).fd = FdOf(Me) => ~In(g, Me)')
          /\ AdminsStay
      BY <1>1, <1>4, <2>1, <2>2, RoomsLeft, AdminsKept
    <2>4. strayed \/ Head(outbox).fd = FdOf(Me)
      BY <1>1, <1>4, <2>2 DEF SentInv
    <2>5. \A h \in DOMAIN rooms : rooms[h].name = Head(outbox).room => h = g
      BY <1>1, <2>1 DEF RoomsApart
    <2>6. ListsSent
      <3> DEFINE p == Packet("LEAVE_ROOM", Head(outbox).fd, Me, rooms[g].name)
      <3>1. inbox' = inbox
        BY <2>1 DEF LeftMember, TellsMe
      <3>2. Len(inbox) \in Nat
        BY QueuesTyped
      <3> QED
        BY <3>1, <3>2 DEF ListsSent
    <2>7. AdminInv'
      BY <1>1, <1>4, <2>2, <2>3, <2>6, AdminStep
    <2>8. CASE strayed
      BY <2>7, <2>8 DEF CoveredInv, clientVars
    <2>9. CASE ~strayed
      <3>1. CoverKept
        BY <1>1, <1>4, <2>1, <2>2, <2>3, <2>4, <2>9, CoveredLeft
      <3>2. \A h \in DOMAIN rooms : rooms[h].name = Head(outbox).room => ~In(h, Me)'
        BY <2>3, <2>4, <2>5, <2>9
      <3> QED
        BY <1>4, <2>2, <2>3, <2>7, <3>1, <3>2, CoveredStep
    <2> QED
      BY <2>8, <2>9
  <1>8. CASE ServeOther
    <2>1. PICK type \in {"CHAT", "GROUP_CHAT", "USER_LEFT"} : ServeNext(type)
      BY <1>8 DEF ServeOther
    <2>2. rooms' = rooms /\ inbox' = inbox
      BY <1>8 DEF ServeOther
    <2>3. RoomsMove
      BY <1>1, <2>2, RoomsQuiet
    <2>4. CoverKept /\ ListsSent /\ AdminsStay
      BY <1>1, <1>4, <2>1, <2>2, <2>3, CoveredIdle DEF AdminsStay
    <2> QED
      BY <1>1, <1>4, <2>1, <2>3, <2>4, CoveredStep, AdminStep
  <1> QED
    BY <1>2, <1>3, <1>5, <1>6, <1>7, <1>8, CoveredCreated DEF Serves

LEMMA CoveredWorld ==
    ASSUME TypeInv, FaithfulInv, KnownInv, AdminInv, CoveredInv, WorldStep
    PROVE  CoveredInv' /\ AdminInv'
  <1>1. Next /\ UNCHANGED clientVars
    BY DEF Next, WorldStep
  <1>2. FdOf(Me)' = FdOf(Me) /\ TypeInv'
    BY <1>1, SameDescriptor, NextTypes
  <1> QED
    BY <1>1, <1>2, CoveredOthers, CoveredServed DEF WorldStep

\* What is read makes the list of groups follow.
Follows(n, f, b) ==
    /\ (/\ inbox[1] \in ListsMembers(n)
        /\ b <= Cardinality({i \in DOMAIN inbox[1].list : inbox[1].list[i].FD = f}))
         => Held(groupList', n, f, b)
    /\ Held(groupList, n, f, b) =>
         /\ inbox[1] \in AddsMember(n, f) => Held(groupList', n, f, b + 1)
         /\ inbox[1] \in TakesMember(n, f) /\ b # 0 => Held(groupList', n, f, b - 1)
         /\ (/\ inbox[1] \notin ListsMembers(n) \cup AddsMember(n, f) \cup TakesMember(n, f)
             /\ ~(inbox[1].type = "KICKED" /\ inbox[1].room = n))
              => Held(groupList', n, f, b)

\* One room and one descriptor, with its first packet read.
LEMMA ReachesTaken ==
    ASSUME TypeInv, inbox # <<>>, inbox' = Tail(inbox), outbox' = outbox,
           NEW name, NEW f, NEW n \in Nat, \A b \in Nat : Follows(name, f, b),
           NEW m \in 0 .. Len(inbox), NEW b \in Nat, Reaches(name, f, n, m, b),
           m = 0 => ~(inbox[1].type = "KICKED" /\ inbox[1].room = name)
    PROVE  \E l \in 0 .. Len(inbox'), c \in Nat : Reaches(name, f, n, l, c)'
  <1>1. /\ inbox \in Seq(Whole) /\ Len(inbox) \in Nat /\ DOMAIN inbox = 1 .. Len(inbox)
        /\ outbox \in Seq(Whole) /\ 1 \in DOMAIN inbox
        /\ inbox' \in Seq(Whole) /\ Len(inbox') = Len(inbox) - 1
        /\ DOMAIN inbox' = 1 .. Len(inbox) - 1
        /\ \A i \in 1 .. Len(inbox) - 1 : inbox'[i] = inbox[i + 1]
    <2>1. /\ inbox \in Seq(Whole) /\ Len(inbox) \in Nat /\ DOMAIN inbox = 1 .. Len(inbox)
          /\ outbox \in Seq(Whole)
      BY QueuesTyped
    <2>2. /\ 1 \in DOMAIN inbox /\ Tail(inbox) \in Seq(Whole)
          /\ Len(Tail(inbox)) = Len(inbox) - 1
          /\ \A i \in 1 .. Len(inbox) - 1 : Tail(inbox)[i] = inbox[i + 1]
      BY <2>1, FirstTaken
    <2>3. DOMAIN Tail(inbox) = 1 .. Len(inbox) - 1
      BY <2>2, LenProperties
    <2> QED
      BY <2>1, <2>2, <2>3
  <1>2. PICK t \in Nat, a \in Nat, k \in Nat :
          /\ t = Among(inbox, m, TakesMember(name, f))
          /\ a = Among(inbox, m, AddsMember(name, f))
          /\ k = Among(outbox, 0, OrdersKick(name, f))
    <2>1. m \in Nat /\ 0 \in Nat
      BY <1>1
    <2> QED
      BY <1>1, <2>1, AmongCounts
  <1>3. n + t <= b + a + k /\ Behind(inbox, m, ListsMembers(name)) = {}
        /\ Base(name, f, m, b)
    BY <1>2 DEF Reaches
  <1>4. \A i \in 1 .. Len(inbox) - 1 : i + 1 > m => inbox'[i] \notin ListsMembers(name)
    <2>1. \A i \in 1 .. Len(inbox) - 1 : i + 1 \in DOMAIN inbox
      BY <1>1
    <2> QED
      BY <1>1, <1>3, <2>1 DEF Behind
  <1>5. CASE m > 0
    <2>1. PICK l \in 0 .. Len(inbox') : l + 1 = m /\ l \in Nat
      <3>1. m - 1 \in 0 .. Len(inbox') /\ (m - 1) + 1 = m /\ m - 1 \in Nat
        BY <1>1, <1>5
      <3> QED
        BY <3>1
    <2>2. \A kind : Among(inbox', l, kind) = Among(inbox, m, kind)
      BY <1>1, <2>1, AmongTail
    <2>3. Behind(inbox', l, ListsMembers(name)) = {}
      <3>1. \A i \in 1 .. Len(inbox) - 1 : i > l => i + 1 > m
        BY <2>1
      <3> QED
        BY <1>1, <1>4, <3>1 DEF Behind
    <2>4. Base(name, f, l, b)'
      <3>1. CASE l > 0
        <4>1. l \in 1 .. Len(inbox) - 1
          BY <1>1, <2>1, <3>1
        <4>2. inbox'[l] = inbox[m] /\ m # 0
          BY <1>1, <1>5, <2>1, <4>1
        <4>3. \/ b = 0
              \/ /\ inbox[m] \in ListsMembers(name)
                 /\ b <= Cardinality({i \in DOMAIN inbox[m].list :
                                        inbox[m].list[i].FD = f})
          BY <1>3, <4>2 DEF Base
        <4> QED
          BY <3>1, <4>2, <4>3, Zenon DEF Base
      <3>2. CASE l = 0
        <4>1. m = 1
          BY <2>1, <3>2
        <4> QED
          BY <1>3, <3>2, <4>1 DEF Base, Follows
      <3> QED
        BY <2>1, <3>1, <3>2
    <2>5. Reaches(name, f, n, l, b)'
      BY <1>2, <1>3, <2>2, <2>3, <2>4 DEF Reaches
    <2> QED
      BY <2>1, <2>5
  <1>6. CASE m = 0
    <2>0. 0 \in 0 .. Len(inbox') /\ 0 \in Nat /\ 1 > 0
      BY <1>1
    <2>1. Held(groupList, name, f, b)
      <3>1. groupList \in Seq(SizedGroup)
        BY DEF TypeInv
      <3> QED
        BY <1>3, <1>6, <3>1, HeldNone DEF Base
    <2>2. inbox[1] \notin ListsMembers(name)
      BY <1>1, <1>3, <1>6, <2>0 DEF Behind
    <2>3. Behind(inbox', 0, ListsMembers(name)) = {}
      <3>1. \A i \in 1 .. Len(inbox) - 1 : i + 1 > m
        BY <1>6
      <3> QED
        BY <1>1, <1>4, <3>1 DEF Behind
    <2>4. /\ t = Among(inbox', 0, TakesMember(name, f))
                   + (IF inbox[1] \in TakesMember(name, f) THEN 1 ELSE 0)
          /\ a = Among(inbox', 0, AddsMember(name, f))
                   + (IF inbox[1] \in AddsMember(name, f) THEN 1 ELSE 0)
      <3>1. ASSUME NEW kind
            PROVE  Among(inbox, 0, kind)
                     = Among(inbox', 0, kind) + (IF inbox[1] \in kind THEN 1 ELSE 0)
        <4>1. Among(inbox', 0, kind) \in Nat
          BY <1>1, <2>0, AmongCounts
        <4>2. /\ inbox[1] \in kind => Among(inbox, 0, kind) = Among(inbox', 0, kind) + 1
              /\ inbox[1] \notin kind => Among(inbox, 0, kind) = Among(inbox', 0, kind)
          BY <1>1, <2>0, AmongTail
        <4> QED
          BY <4>1, <4>2
      <3> QED
        BY <1>2, <1>6, <3>1
    <2>5. PICK t1 \in Nat, a1 \in Nat :
            /\ t1 = Among(inbox', 0, TakesMember(name, f))
            /\ a1 = Among(inbox', 0, AddsMember(name, f))
      BY <1>1, <2>0, AmongCounts
    <2>6. ASSUME NEW c \in Nat, Held(groupList', name, f, c),
                 n + t1 <= c + a1 + k
          PROVE  Reaches(name, f, n, 0, c)'
      <3>1. Base(name, f, 0, c)'
        BY <2>6 DEF Base, Held, Called
      <3> QED
        BY <1>2, <2>3, <2>5, <2>6, <3>1 DEF Reaches
    <2>7. inbox[1] \in AddsMember(name, f) => inbox[1] \notin TakesMember(name, f)
      BY DEF AddsMember, TakesMember
    <2>8. Follows(name, f, b) /\ n + t <= b + a + k
      BY <1>3
    <2>9. CASE inbox[1] \in AddsMember(name, f)
      <3>1. Held(groupList', name, f, b + 1)
        BY <2>1, <2>8, <2>9 DEF Follows
      <3>2. t = t1 /\ a = a1 + 1
        <4>1. t = t1 + 0
          BY <2>4, <2>5, <2>7, <2>9
        <4>2. a = a1 + 1
          BY <2>4, <2>5, <2>9
        <4> QED
          BY <2>5, <4>1, <4>2
      <3>3. b + 1 \in Nat /\ n + t1 <= (b + 1) + a1 + k
        BY <2>8, <3>2
      <3> QED
        BY <2>0, <2>6, <3>1, <3>3
    <2>10. CASE inbox[1] \in TakesMember(name, f)
      <3>0. t = t1 + 1 /\ a = a1
        <4>1. t = t1 + 1
          BY <2>4, <2>5, <2>10
        <4>2. a = a1 + 0
          BY <2>4, <2>5, <2>7, <2>10
        <4> QED
          BY <2>5, <4>1, <4>2
      <3>1. CASE b # 0
        <4>1. Held(groupList', name, f, b - 1)
          BY <2>1, <2>8, <2>10, <3>1 DEF Follows
        <4>2. b - 1 \in Nat /\ n + t1 <= (b - 1) + a1 + k
          BY <2>8, <3>0, <3>1
        <4> QED
          BY <2>0, <2>6, <4>1, <4>2
      <3>2. CASE b = 0
        <4>1. n + t1 <= 0 + a1 + k
          BY <2>8, <3>0, <3>2
        <4>2. Reaches(name, f, n, 0, 0)'
          <5>1. Base(name, f, 0, 0)'
            BY DEF Base
          <5> QED
            BY <1>2, <2>3, <2>5, <4>1, <5>1 DEF Reaches
        <4> QED
          BY <2>0, <4>2
      <3> QED
        BY <3>1, <3>2
    <2>11. CASE inbox[1] \notin AddsMember(name, f) \cup TakesMember(name, f)
      <3>1. Held(groupList', name, f, b)
        BY <1>6, <2>1, <2>2, <2>8, <2>11 DEF Follows
      <3>2. t = t1 /\ a = a1
        <4>1. t = t1 + 0 /\ a = a1 + 0
          BY <2>4, <2>5, <2>11
        <4> QED
          BY <2>5, <4>1
      <3>3. n + t1 <= b + a1 + k
        BY <2>8, <3>2
      <3> QED
        BY <2>0, <2>6, <3>1, <3>3
    <2> QED
      BY <2>9, <2>10, <2>11
  <1> QED
    BY <1>1, <1>5, <1>6

\* A KICKED of a room that is followed has a GROUP_LIST behind it.
LEMMA CoveredTaken ==
    ASSUME TypeInv, KnownInv, CoveredInv, inbox # <<>>, Take, strayed' = strayed,
           \A n, f : \A b \in Nat : Follows(n, f, b)
    PROVE  CoveredInv'
  <1>1. /\ UNCHANGED <<online, rooms, outbox>> /\ inbox' = Tail(inbox)
        /\ FdOf(Me)' = FdOf(Me)
    BY SameFd DEF Take, serverVars
  <1>2. ASSUME ~strayed, NEW g \in DOMAIN rooms, NEW f \in MyFds \ {FdOf(Me)},
               Followed(g)
        PROVE  Covered(g, f)'
    <2>0. Cardinality(Holding(g, f)) \in Nat
      BY HoldingFinite
    <2>1. PICK name, n : name = rooms[g].name /\ n = Cardinality(Holding(g, f))
      OBVIOUS
    <2>2. PICK m \in 0 .. Len(inbox), b \in Nat : Reaches(name, f, n, m, b) /\ n \in Nat
      BY <1>2, <2>0, <2>1 DEF CoveredInv, Covered
    <2>3. m = 0 => ~(inbox[1].type = "KICKED" /\ inbox[1].room = name)
      <3>1. CASE m = 0
        <4>1. /\ inbox \in Seq(Whole) /\ DOMAIN inbox = 1 .. Len(inbox)
              /\ 1 \in DOMAIN inbox /\ 1 > 0 /\ \A k \in DOMAIN inbox : k > 0
          BY QueuesTyped, FirstTaken
        <4>2. \A k \in DOMAIN inbox : inbox[k] \notin ListsMembers(name)
          BY <2>2, <3>1, <4>1 DEF Reaches, Behind
        <4>3. ~Announced(name)
          BY <4>1, <4>2, ElementOfSeq DEF Announced, ListsMembers, AboutRoom
        <4>4. KnownOf(name)
          BY <1>2, <2>1 DEF KnownInv, Followed
        <4>5. NotKicked(name, 0)
          BY <1>2, <2>1, <4>3, <4>4 DEF KnownOf, Followed
        <4> QED
          BY <4>1, <4>5 DEF NotKicked
      <3> QED
        BY <3>1
    <2>4. \E l \in 0 .. Len(inbox'), c \in Nat : Reaches(name, f, n, l, c)'
      BY <1>1, <2>2, <2>3, ReachesTaken
    <2>5. rooms'[g].name = name /\ Cardinality(Holding(g, f)') = n
      BY <1>1, <2>1 DEF Holding
    <2> QED
      BY <2>4, <2>5 DEF Covered, Reaches, Base
  <1> QED
    BY <1>1, <1>2 DEF CoveredInv, Followed, In, Leaving, Covered

LEMMA CoveredKept ==
    ASSUME TypeInv, CoveredInv, UNCHANGED <<worldVars, groupList, strayed>>
    PROVE  CoveredInv'
  <1>1. UNCHANGED <<online, rooms, inbox, outbox, groupList, strayed>>
        /\ FdOf(Me)' = FdOf(Me)
    BY SameFd DEF worldVars, serverVars
  <1>2. ASSUME NEW g \in DOMAIN rooms, NEW f
        PROVE  /\ Followed(g)' <=> Followed(g)
               /\ Covered(g, f) => Covered(g, f)'
    <2>1. Followed(g)' <=> Followed(g)
      BY <1>1 DEF Followed, In, Leaving
    <2>2. ASSUME NEW m, NEW b, NEW n, NEW name, Reaches(name, f, n, m, b)
          PROVE  Reaches(name, f, n, m, b)'
      <3>1. Base(name, f, m, b)'
        BY <1>1, <2>2 DEF Base, Reaches, Held, Called
      <3> QED
        BY <1>1, <2>2, <3>1 DEF Reaches
    <2>3. rooms'[g].name = rooms[g].name /\ Holding(g, f)' = Holding(g, f)
      BY <1>1 DEF Holding
    <2>4. ASSUME NEW m \in 0 .. Len(inbox), NEW b \in Nat,
                 Reaches(rooms[g].name, f, Cardinality(Holding(g, f)), m, b)
          PROVE  Covered(g, f)'
      <3>1. Reaches(rooms[g].name, f, Cardinality(Holding(g, f)), m, b)'
        BY <1>1, <2>2, <2>3, <2>4
      <3> QED
        BY <1>1, <2>4, <3>1 DEF Covered
    <2> QED
      BY <2>1, <2>4 DEF Covered
  <1> QED
    BY <1>1, <1>2 DEF CoveredInv, Followed, Covered

LEMMA CoveredReceive ==
    ASSUME TypeInv, TypeInv', KnownInv, CoveredInv, ReceiveThread
    PROVE  CoveredInv'
  <1>1. groupList \in Seq(SizedGroup) /\ groupList' \in Seq(SizedGroup)
    BY DEF TypeInv
  <1>2. ASSUME UNCHANGED <<worldVars, groupList, strayed>>
        PROVE  CoveredInv'
    BY <1>2, CoveredKept
  <1>3. ASSUME NEW type, NEW p \in Arrived(type), Take, strayed' = strayed,
               \A n, f : \A b \in Nat : Follows(n, f, b)
        PROVE  CoveredInv'
    BY <1>3, ArrivedPacket, CoveredTaken
  <1>4. ASSUME NEW type, NEW p \in Arrived(type), Take,
               type \in {"USER_JOINED_SERVER", "CLIENT_LIST", "USER_LEFT"},
               UNCHANGED <<groupList, strayed>>
        PROVE  CoveredInv'
    <2>1. p = inbox[1] /\ p.type = type
      BY ArrivedPacket
    <2>2. \A n, f : /\ inbox[1] \notin ListsMembers(n) /\ inbox[1] \notin AddsMember(n, f)
                    /\ inbox[1] \notin TakesMember(n, f)
      BY <1>4, <2>1 DEF ListsMembers, AddsMember, TakesMember
    <2>3. \A n, f : \A b \in Nat : Follows(n, f, b)
      BY <1>4, <2>2 DEF Follows
    <2> QED
      BY <1>3, <1>4, <2>3
  <1>5. CASE addJoinedUserInUserList \/ receiveUserList \/ handleLeftUser
    BY <1>4, <1>5 DEF addJoinedUserInUserList, receiveUserList, handleLeftUser
  <1>6. CASE AddListedUser \/ SetNoChat
    BY <1>2, <1>6 DEF AddListedUser, SetNoChat
  <1>7. CASE receiveGroupList
    <2>1. PICK p \in Arrived("GROUP_LIST") :
            ChangesGroups(addGroupInGroupList(groupList,
                            NewGroup(p.room, p.name, MembersFrom(p.list))))
      BY <1>7 DEF receiveGroupList
    <2> DEFINE members == MembersFrom(p.list)
               group == NewGroup(p.room, p.name, members)
    <2>2. p \in Whole /\ p \in Letters /\ p.type = "GROUP_LIST" /\ p = inbox[1]
      BY ArrivedPacket
    <2>3. members \in SizedList
      BY <2>2, ListedMembers, CopiedMembers DEF Letters
    <2>4. \A f : SlotsOf(members, f) = {i \in DOMAIN p.list : p.list[i].FD = f}
      <3>1. p.list \in Seq(Listed)
        BY <2>2 DEF Letters
      <3>2. DOMAIN p.list = 1 .. Len(p.list)
        BY <3>1, LenProperties
      <3> QED
        BY <3>2 DEF SlotsOf, Live, MembersFrom
    <2> HIDE DEF members
    <2>5. group \in SizedGroup /\ group.name = p.room /\ group.members = members
      BY <2>2, <2>3 DEF Whole, Letters, NewGroup, SizedGroup, Group, SizedList
    <2> HIDE DEF group
    <2>6. /\ groupList' = addGroupInGroupList(groupList, group)
          /\ Take /\ strayed' = strayed
      BY <2>1 DEF ChangesGroups, group, members
    <2>7. ASSUME NEW n, NEW f, NEW b \in Nat
          PROVE  Follows(n, f, b)
      <3>1. /\ inbox[1] \in ListsMembers(n) <=> p.room = n
            /\ inbox[1] \notin AddsMember(n, f) /\ inbox[1] \notin TakesMember(n, f)
        BY <2>2 DEF ListsMembers, AddsMember, TakesMember, AboutRoom
      <3>2. Held(groupList', p.room, f, Cardinality(SlotsOf(members, f)))
        BY <1>1, <2>5, <2>6, HeldAdded
      <3>3. n # p.room /\ Held(groupList, n, f, b) => Held(groupList', n, f, b)
        BY <1>1, <2>5, <2>6, HeldAdded
      <3>4. ASSUME n = p.room, b <= Cardinality(SlotsOf(members, f))
            PROVE  Held(groupList', n, f, b)
        <4>1. Cardinality(SlotsOf(members, f)) \in Nat
          BY <2>3, SlotsFinite
        <4>2. \A h \in DOMAIN groupList' :
                Cardinality(SlotsOf(groupList'[h].members, f)) \in Nat
          BY <1>1, SlotsFinite DEF SizedGroup
        <4> QED
          BY <3>2, <3>4, <4>1, <4>2 DEF Held
      <3>5. SlotsOf(members, f) = {i \in DOMAIN inbox[1].list : inbox[1].list[i].FD = f}
        BY <2>2, <2>4
      <3> QED
        BY <3>1, <3>3, <3>4, <3>5 DEF Follows
    <2> QED
      BY <1>3, <2>1, <2>6, <2>7
  <1>8. ASSUME NEW name, Called(groupList, name) # {}
        PROVE  /\ MembersOf(groupList, name) \in ClientList(Users, MyFds)
               /\ MembersOf(groupList, name).size <= Len(MembersOf(groupList, name).clients)
               /\ MembersOf(groupList, name) \in SizedList
    BY <1>1, <1>8, FirstHolds DEF SizedList
  <1>9. CASE manageNewMemberInGroup
    <2>1. PICK p \in Arrived("JOIN_ROOM") :
            ChangesGroups(WithMembers(groupList, p.room,
              addClientInClientList(MembersOf(groupList, p.room),
                                    [name |-> p.name, FD |-> p.fd])))
      BY <1>9 DEF manageNewMemberInGroup
    <2> DEFINE entry == [name |-> p.name, FD |-> p.fd]
               members == addClientInClientList(MembersOf(groupList, p.room), entry)
    <2>2. p \in Whole /\ p \in Letters /\ p.type = "JOIN_ROOM" /\ p = inbox[1]
      BY ArrivedPacket
    <2>3. entry \in Member /\ entry.FD = p.fd
      BY <2>2 DEF Whole, Letters, Member, Client
    <2> HIDE DEF entry
    <2>4. Called(groupList, p.room) # {} => members \in SizedList
      BY <1>8, <2>3, Addition DEF SizedList, Member
    <2>5. /\ groupList' = WithMembers(groupList, p.room, members)
          /\ Take /\ strayed' = strayed
      BY <2>1 DEF ChangesGroups, entry
    <2>6. ASSUME NEW f, Called(groupList, p.room) # {}
          PROVE  LET old == Cardinality(SlotsOf(MembersOf(groupList, p.room), f))
                     new == Cardinality(SlotsOf(members, f))
                 IN  /\ old \in Nat /\ new \in Nat /\ old <= new
                     /\ p.fd = f => old + 1 <= new
      <3>1. /\ Cardinality(SlotsOf(MembersOf(groupList, p.room), f)) \in Nat
            /\ Cardinality(SlotsOf(members, f)) \in Nat
        BY <1>8, <2>4, <2>6, SlotsFinite
      <3> QED
        BY <1>8, <2>3, <2>6, <3>1, SlotsAfterAddition
    <2> HIDE DEF members
    <2>7. ASSUME NEW n, NEW f, NEW b \in Nat
          PROVE  Follows(n, f, b)
      <3>1. /\ inbox[1] \notin ListsMembers(n) /\ inbox[1] \notin TakesMember(n, f)
            /\ inbox[1] \in AddsMember(n, f) <=> p.room = n /\ p.fd = f
        BY <2>2 DEF ListsMembers, AddsMember, TakesMember, AboutRoom
      <3>2. ASSUME NEW c \in Nat, Held(groupList, n, f, b),
                   c = IF p.room = n /\ p.fd = f THEN b + 1 ELSE b
            PROVE  Held(groupList', n, f, c)
        <4>1. n # p.room => c = b
          BY <3>2
        <4>2. (/\ n = p.room /\ Called(groupList, p.room) # {}
               /\ b <= Cardinality(SlotsOf(MembersOf(groupList, p.room), f))) =>
                 c <= Cardinality(SlotsOf(members, f))
          BY <2>6, <3>2
        <4> QED
          BY <1>1, <2>4, <2>5, <3>2, <4>1, <4>2, HeldChanged
      <3>3. /\ Held(groupList, n, f, b) /\ p.room = n /\ p.fd = f
                 => Held(groupList', n, f, b + 1)
            /\ Held(groupList, n, f, b) /\ ~(p.room = n /\ p.fd = f)
                 => Held(groupList', n, f, b)
        <4>1. b + 1 \in Nat
          OBVIOUS
        <4> QED
          BY <3>2, <4>1
      <3> QED
        BY <3>1, <3>3 DEF Follows
    <2> QED
      BY <1>3, <2>1, <2>5, <2>7
  <1>10. ASSUME NEW type \in {"LEAVE_ROOM", "KICK_GROUP_MEMBER"},
                NEW p \in Arrived(type), Take, strayed' = strayed,
                groupList' = WithMembers(groupList, p.room,
                  removeClientFromClientList(MembersOf(groupList, p.room), p.fd))
         PROVE  CoveredInv'
    <2> DEFINE members == removeClientFromClientList(MembersOf(groupList, p.room), p.fd)
    <2>1. Called(groupList, p.room) # {} => members \in SizedList
      BY <1>8, Removal DEF SizedList
    <2>2. groupList' = WithMembers(groupList, p.room, members)
      BY <1>10
    <2>3. p \in Whole /\ p.type = type /\ p = inbox[1]
      BY ArrivedPacket
    <2>4. ASSUME NEW f, Called(groupList, p.room) # {}
          PROVE  LET old == Cardinality(SlotsOf(MembersOf(groupList, p.room), f))
                     new == Cardinality(SlotsOf(members, f))
                 IN  /\ old \in Nat /\ new \in Nat /\ old <= new + 1
                     /\ p.fd # f => old <= new
      <3>1. /\ Cardinality(SlotsOf(MembersOf(groupList, p.room), f)) \in Nat
            /\ Cardinality(SlotsOf(members, f)) \in Nat
        BY <1>8, <2>1, <2>4, SlotsFinite
      <3> QED
        BY <1>8, <2>4, <3>1, SlotsAfterRemoval
    <2> HIDE DEF members
    <2>5. ASSUME NEW n, NEW f, NEW b \in Nat
          PROVE  Follows(n, f, b)
      <3>1. /\ inbox[1] \notin ListsMembers(n) /\ inbox[1] \notin AddsMember(n, f)
            /\ inbox[1] \in TakesMember(n, f) <=> p.room = n /\ p.fd = f
        BY <2>3 DEF ListsMembers, AddsMember, TakesMember, AboutRoom
      <3>2. ASSUME NEW c \in Nat, Held(groupList, n, f, b),
                   IF p.room = n /\ p.fd = f THEN c + 1 = b ELSE c = b
            PROVE  Held(groupList', n, f, c)
        <4>1. n # p.room => c = b
          BY <3>2
        <4>2. (/\ n = p.room /\ Called(groupList, p.room) # {}
               /\ b <= Cardinality(SlotsOf(MembersOf(groupList, p.room), f))) =>
                 c <= Cardinality(SlotsOf(members, f))
          BY <2>4, <3>2
        <4> QED
          BY <1>1, <2>1, <2>2, <3>2, <4>1, <4>2, HeldChanged
      <3>3. /\ Held(groupList, n, f, b) /\ p.room = n /\ p.fd = f /\ b # 0
                 => Held(groupList', n, f, b - 1)
            /\ Held(groupList, n, f, b) /\ ~(p.room = n /\ p.fd = f)
                 => Held(groupList', n, f, b)
        <4>1. b # 0 => b - 1 \in Nat /\ (b - 1) + 1 = b
          OBVIOUS
        <4> QED
          BY <3>2, <4>1
      <3> QED
        BY <3>1, <3>3 DEF Follows
    <2> QED
      BY <1>3, <1>10, <2>5
  <1>11. CASE manageKickedMember
    <2>1. PICK p \in Arrived("KICK_GROUP_MEMBER") :
            ChangesGroups(WithMembers(groupList, p.room,
              removeClientFromClientList(MembersOf(groupList, p.room), p.fd)))
      BY <1>11 DEF manageKickedMember
    <2> QED
      BY <1>10, <2>1 DEF ChangesGroups
  <1>12. CASE manageLeftGroupMember
    <2>1. PICK p \in Arrived("LEAVE_ROOM") :
            /\ groupList' = WithMembers(groupList, p.room,
                 removeClientFromClientList(MembersOf(groupList, p.room), p.fd))
            /\ Take /\ strayed' = strayed
      BY <1>12 DEF manageLeftGroupMember
    <2> QED
      BY <1>10, <2>1
  <1>13. CASE handleDepression
    <2>1. PICK p \in Arrived("KICKED") :
            /\ groupList' = removeGroupFromGroupList(groupList, p.room)
            /\ Take /\ strayed' = strayed
      BY <1>13 DEF handleDepression
    <2>2. p.type = "KICKED" /\ p = inbox[1]
      BY ArrivedPacket
    <2>3. ASSUME NEW n, NEW f, NEW b \in Nat
          PROVE  Follows(n, f, b)
      <3>1. /\ inbox[1] \notin ListsMembers(n) /\ inbox[1] \notin AddsMember(n, f)
            /\ inbox[1] \notin TakesMember(n, f)
            /\ inbox[1].type = "KICKED" /\ inbox[1].room = p.room
        BY <2>2 DEF ListsMembers, AddsMember, TakesMember
      <3>2. n # p.room /\ Held(groupList, n, f, b) => Held(groupList', n, f, b)
        BY <1>1, <2>1, HeldRemoved
      <3> QED
        BY <3>1, <3>2 DEF Follows
    <2> QED
      BY <1>3, <2>1, <2>3
  <1> QED
    BY <1>5, <1>6, <1>7, <1>9, <1>11, <1>12, <1>13 DEF ReceiveThread

\* A line is sent: a kick takes one, a group that goes goes with its LEAVE_ROOM,
\* and the room of a CREATE_ROOM is not there yet.
LEMMA CoveredSent ==
    ASSUME TypeInv, CoveredInv, UNCHANGED <<serverVars, inbox>>, strayed => strayed',
           NEW p \in Whole, outbox' = Append(outbox, p),
           \A n, f : \A b \in Nat :
             Held(groupList, n, f, b) =>
               \/ Held(groupList', n, f, b)
               \/ /\ p \in OrdersKick(n, f)
                  /\ b # 0 => Held(groupList', n, f, b - 1)
               \/ p.type = "LEAVE_ROOM" /\ p.room = n
               \/ p.room = n /\ ~Made(n)
    PROVE  CoveredInv'
  <1>1. UNCHANGED <<online, rooms, inbox>> /\ FdOf(Me)' = FdOf(Me)
    BY SameFd DEF serverVars
  <1>2. /\ outbox \in Seq(Whole) /\ Len(outbox) \in Nat
        /\ inbox \in Seq(Whole) /\ 0 \in 0 .. Len(outbox) /\ 0 \in Nat
        /\ 0 <= Len(outbox)
    BY QueuesTyped
  <1>3. ASSUME ~strayed', NEW g \in DOMAIN rooms, NEW f \in MyFds \ {FdOf(Me)},
               Followed(g)'
        PROVE  Covered(g, f)'
    <2>1. PICK name, n : name = rooms[g].name /\ n = Cardinality(Holding(g, f))
      OBVIOUS
    <2>2. ~Leaving(name, 0)'
      BY <1>1, <1>3, <2>1 DEF Followed, Leaving
    <2>3. ~Leaving(name, 0) /\ ~(p.type = "LEAVE_ROOM" /\ p.room = name)
      BY <1>2, <2>2, LeavingKept
    <2>4. Followed(g)
      BY <1>1, <1>3, <2>1, <2>3 DEF Followed, In
    <2>5. PICK m \in 0 .. Len(inbox), b \in Nat : Reaches(name, f, n, m, b)
      BY <1>3, <2>1, <2>4 DEF CoveredInv, Covered
    <2>6. m \in Nat /\ n \in Nat
      BY <1>2, <2>1, HoldingFinite
    <2>7. PICK t \in Nat, a \in Nat, k \in Nat :
            /\ t = Among(inbox, m, TakesMember(name, f))
            /\ a = Among(inbox, m, AddsMember(name, f))
            /\ k = Among(outbox, 0, OrdersKick(name, f))
      BY <1>2, <2>6, AmongCounts
    <2>8. n + t <= b + a + k
      BY <2>5, <2>7 DEF Reaches
    <2>9. /\ p \in OrdersKick(name, f) => Among(outbox', 0, OrdersKick(name, f)) = k + 1
          /\ p \notin OrdersKick(name, f) => Among(outbox', 0, OrdersKick(name, f)) = k
      BY <1>2, <2>7, AmongAppended
    <2>10. ASSUME NEW c \in Nat, Base(name, f, m, c)',
                  n + t <= c + a + Among(outbox', 0, OrdersKick(name, f))
           PROVE  Covered(g, f)'
      <3>1. Reaches(name, f, n, m, c)'
        BY <1>1, <2>5, <2>7, <2>10 DEF Reaches
      <3>2. rooms'[g].name = name /\ Cardinality(Holding(g, f)') = n
        BY <1>1, <2>1 DEF Holding
      <3> QED
        BY <1>1, <2>10, <3>1, <3>2 DEF Covered, Reaches, Base
    <2>11. ASSUME Base(name, f, m, b)'
           PROVE  Covered(g, f)'
      <3>1. /\ n + t <= b + a + k
            /\ n \in Nat /\ t \in Nat /\ b \in Nat /\ a \in Nat /\ k \in Nat
        BY <2>6, <2>8
      <3>0. n + t <= b + a + (k + 1)
        BY ONLY <3>1
      <3>2. n + t <= b + a + Among(outbox', 0, OrdersKick(name, f))
        BY <2>9, <3>0, <3>1
      <3> QED
        BY <2>10, <2>11, <3>2
    <2>12. CASE Base(name, f, m, b) /\ ~(m = 0 /\ Held(groupList, name, f, b))
      BY <1>1, <2>11, <2>12 DEF Base
    <2>13. CASE m = 0 /\ Held(groupList, name, f, b)
      <3>1. Made(name)
        BY <2>1 DEF Made
      <3>2. CASE Held(groupList', name, f, b)
        BY <2>11, <2>13, <3>2 DEF Base, Held
      <3>3. CASE /\ p \in OrdersKick(name, f)
                 /\ b # 0 => Held(groupList', name, f, b - 1)
        <4>1. CASE b = 0
          BY <2>11, <4>1 DEF Base
        <4>2. CASE b # 0
          <5>1. PICK c \in Nat : c = b - 1
            BY <4>2
          <5>2. n + t <= c + a + (k + 1)
            BY <2>6, <2>7, <2>8, <5>1
          <5>3. Base(name, f, m, c)'
            BY <2>13, <3>3, <4>2, <5>1 DEF Base, Held
          <5> QED
            BY <2>9, <2>10, <3>3, <5>2, <5>3
        <4> QED
          BY <4>1, <4>2
      <3> QED
        BY <2>3, <2>13, <3>1, <3>2, <3>3
    <2> QED
      BY <2>5, <2>12, <2>13 DEF Reaches
  <1> QED
    BY <1>1, <1>3 DEF CoveredInv, Followed, In, Leaving, Covered

\* Members that change in one group, as a line does it.
LEMMA HeldSent ==
    ASSUME NEW list \in Seq(SizedGroup), NEW g, Called(list, g) # {},
           NEW members \in SizedList, NEW new, new = WithMembers(list, g, members),
           NEW n, NEW f, NEW b \in Nat, NEW c \in Nat, Held(list, n, f, b),
           n # g => c = b,
           n = g => c + Cardinality(SlotsOf(MembersOf(list, g), f))
                      <= b + Cardinality(SlotsOf(members, f))
    PROVE  Held(new, n, f, c)
  <1>1. MembersOf(list, g) \in SizedList
    BY FirstHolds
  <1>2. /\ Cardinality(SlotsOf(MembersOf(list, g), f)) \in Nat
        /\ Cardinality(SlotsOf(members, f)) \in Nat
    BY <1>1, SlotsFinite
  <1>3. (/\ n = g /\ Called(list, g) # {}
         /\ b <= Cardinality(SlotsOf(MembersOf(list, g), f))) =>
            c <= Cardinality(SlotsOf(members, f))
    BY <1>2
  <1> QED
    BY <1>3, HeldChanged

\* What three of the lines send.
LEMMA LineToUserSends ==
    ASSUME TypeInv, LineToUser
    PROVE  \E f \in MyFds : outbox' = Append(outbox, Packet("CHAT", f, Me, NoRoom))
  <1>1. chats # <<>> /\ Last(chats).slot > 0
    BY DEF LineToUser
  <1>2. Last(chats) = chats[Len(chats)] /\ Len(chats) \in 1 .. Len(chats)
    BY <1>1, ChatTyped, EmptySeq DEF Last
  <1>3. Last(chats).slot \in 1 .. Len(userList.clients)
    BY <1>1, <1>2, ChatTyped DEF Chat
  <1>4. userList.clients[Last(chats).slot].FD \in MyFds
    BY <1>3, UserListTyped
  <1>5. PICK f \in IF Last(chats).stale THEN Fds \cup {NoFd}
                     ELSE {userList.clients[Last(chats).slot].FD} :
          Types(Packet("CHAT", f, Me, NoRoom))
    BY DEF LineToUser
  <1>6. f \in MyFds /\ outbox' = Append(outbox, Packet("CHAT", f, Me, NoRoom))
    BY <1>4, <1>5 DEF Types, MyFds
  <1> QED
    BY <1>6

LEMMA GroupMade ==
    ASSUME TypeInv, NEW g \in Rooms, createGroup(g)
    PROVE  \E group \in SizedGroup :
             /\ groupList' = addGroupInGroupList(groupList, group)
             /\ group.name = g /\ group.admin = Me
  <1> USE ClientWorldAssumption
  <1> DEFINE admin == [name |-> Me, FD |-> mySocketFD]
             members == addClientInClientList(EmptyList, admin)
             group == NewGroup(g, Me, members)
  <1>1. mySocketFD \in MyFds /\ Me \in Users
    BY DEF TypeInv, ClientTypeOK
  <1>2. admin \in Member
    BY <1>1 DEF Member, Client
  <1>3. EmptyList \in ClientList(Users, MyFds) /\ EmptyList.size <= Len(EmptyList.clients)
    BY EmptySeq DEF EmptyList, ClientList
  <1>4. groupList' = addGroupInGroupList(groupList, group)
    BY DEF createGroup
  <1> HIDE DEF admin
  <1>5. members \in SizedList
    BY <1>2, <1>3, Addition DEF SizedList, Member
  <1> HIDE DEF members
  <1>6. group \in SizedGroup /\ group.name = g /\ group.admin = Me
    BY <1>1, <1>5 DEF NewGroup, SizedGroup, Group, SizedList
  <1> QED
    BY <1>4, <1>6

LEMMA TargetsTyped ==
    ASSUME userList \in SizedList, NEW u, NEW f \in Targets(u)
    PROVE  f \in MyFds
  <1>1. \A i \in Found(userList, u) : userList.clients[i].FD \in MyFds
    BY FoundEntry DEF Member, Client
  <1> QED
    BY <1>1 DEF Targets, MyFds

LEMMA CoveredMain ==
    ASSUME TypeInv, CoveredInv, MainThread
    PROVE  CoveredInv'
  <1> USE ClientWorldAssumption
  <1>1. /\ groupList \in Seq(SizedGroup) /\ userList \in SizedList
        /\ mySocketFD \in MyFds /\ chats \in Seq(Chat)
        /\ NoFd \in MyFds /\ Me \in Users /\ NoRoom \in Rooms \cup {NoRoom}
    BY DEF TypeInv, ClientTypeOK, MyFds
  <1>2. UNCHANGED <<serverVars, inbox, userList, rx>>
    BY MainApart
  <1>3. ASSUME NEW type \in {"INTRO", "USER_LEFT", "CHAT", "GROUP_CHAT", "CREATE_ROOM",
                             "KICK_GROUP_MEMBER", "LEAVE_ROOM", "JOIN_ROOM"},
               NEW f \in MyFds, NEW name \in Users, NEW room \in Rooms \cup {NoRoom},
               type = "CREATE_ROOM" => room \in Rooms
        PROVE  LET p == Packet(type, f, name, room)
               IN  /\ p \in Whole
                   /\ p.type = type /\ p.fd = f /\ p.name = name /\ p.room = room
    BY <1>3, EmptySeq DEF Packet, Whole, Letters
  <1>4. ASSUME NEW type \in {"INTRO", "USER_LEFT", "CHAT", "GROUP_CHAT"},
               NEW f \in MyFds, NEW room \in Rooms \cup {NoRoom},
               outbox' = Append(outbox, Packet(type, f, Me, room)),
               strayed' = strayed, groupList' = groupList
        PROVE  CoveredInv'
    <2> DEFINE p == Packet(type, f, Me, room)
    <2>1. p \in Whole /\ p.type = type
      BY <1>3
    <2>2. outbox' = Append(outbox, p)
      BY <1>4
    <2> HIDE DEF p
    <2> QED
      BY <1>2, <1>4, <2>1, <2>2, CoveredSent
  <1>5. CASE Intro
    BY <1>1, <1>4, <1>5 DEF Intro
  <1>6. CASE Quit
    BY <1>1, <1>4, <1>6 DEF Quit
  <1>7. CASE Learn \/ AssignChat \/ Back \/ KickNowhere
    BY <1>7, CoveredKept DEF Learn, AssignChat, Back, KickNowhere
  <1>8. CASE LineToUser
    <2>1. groupList' = groupList /\ strayed' = strayed
      BY <1>8 DEF LineToUser
    <2>2. PICK f : f \in MyFds /\ outbox' = Append(outbox, Packet("CHAT", f, Me, NoRoom))
      BY <1>8, LineToUserSends
    <2> QED
      BY <1>1, <1>4, <2>1, <2>2
  <1>9. CASE LineToGroup
    <2>1. /\ chats # <<>> /\ Last(chats).slot = 0 /\ groupList' = groupList
          /\ strayed' = strayed
          /\ outbox' = Append(outbox, Packet("GROUP_CHAT", NoFd, Me, Last(chats).name))
      BY <1>9 DEF LineToGroup, Types
    <2>2. Last(chats) = chats[Len(chats)] /\ Len(chats) \in 1 .. Len(chats)
      BY <2>1, ChatTyped, EmptySeq DEF Last
    <2>3. Last(chats).name \in Rooms
      BY <2>1, <2>2, ChatTyped
    <2> QED
      BY <1>1, <1>4, <2>1, <2>3
  <1>10. ASSUME NEW u, NEW g, chatWithUser(u) \/ chatWithinGroup(g)
         PROVE  CoveredInv'
    <2>1. UNCHANGED <<worldVars, groupList, strayed>>
      BY <1>10 DEF chatWithUser, chatWithinGroup, Enter
    <2> QED
      BY <2>1, CoveredKept
  <1>11. ASSUME NEW g \in Rooms, createGroup(g)
         PROVE  CoveredInv'
    <2>1. PICK group \in SizedGroup :
            /\ groupList' = addGroupInGroupList(groupList, group)
            /\ group.name = g
      BY <1>11, GroupMade
    <2> DEFINE p == Packet("CREATE_ROOM", mySocketFD, Me, g)
    <2>2. outbox' = Append(outbox, p) /\ strayed' = strayed /\ ~Made(g)
      BY <1>11 DEF createGroup, Types
    <2>3. p \in Whole /\ p.type = "CREATE_ROOM" /\ p.room = g
      BY <1>1, <1>3
    <2> HIDE DEF p
    <2>4. ASSUME NEW n, NEW f, NEW b \in Nat, Held(groupList, n, f, b)
          PROVE  Held(groupList', n, f, b) \/ (p.room = n /\ ~Made(n))
      <3>1. n # g => Held(groupList', n, f, b)
        BY <1>1, <2>1, <2>4, HeldAdded
      <3> QED
        BY <2>2, <2>3, <3>1
    <2> QED
      BY <1>2, <2>2, <2>3, <2>4, CoveredSent
  <1>12. ASSUME NEW g, Called(groupList, g) # {}
         PROVE  /\ MembersOf(groupList, g) \in ClientList(Users, MyFds)
                /\ MembersOf(groupList, g).size <= Len(MembersOf(groupList, g).clients)
                /\ MembersOf(groupList, g) \in SizedList
    BY <1>1, <1>12, FirstHolds DEF SizedList
  <1>13. ASSUME NEW u \in Users \ {Me}, NEW g \in Rooms, addMember(u, g)
         PROVE  CoveredInv'
    <2>1. PICK i \in Found(userList, u) :
            /\ userList.clients[i].name # Freed
            /\ groupList' = WithMembers(groupList, g,
                 addClientInClientList(MembersOf(groupList, g), userList.clients[i]))
            /\ Types(Packet("JOIN_ROOM", userList.clients[i].FD, u, g))
      BY <1>13 DEF addMember
    <2> DEFINE entry == userList.clients[i]
               members == addClientInClientList(MembersOf(groupList, g), entry)
               p == Packet("JOIN_ROOM", entry.FD, u, g)
    <2>2. entry \in Member /\ entry.FD \in MyFds
      BY <1>1, <2>1, FoundEntry DEF Member, Client
    <2>3. outbox' = Append(outbox, p)
      BY <2>1 DEF Types
    <2> HIDE DEF entry
    <2>4. Called(groupList, g) # {} /\ strayed' = strayed
      BY <1>13 DEF addMember
    <2>5. members \in SizedList
      BY <1>12, <2>2, <2>4, Addition DEF SizedList, Member
    <2>6. groupList' = WithMembers(groupList, g, members)
      BY <2>1 DEF entry
    <2>7. \A f : /\ Cardinality(SlotsOf(MembersOf(groupList, g), f))
                      <= Cardinality(SlotsOf(members, f))
                 /\ Cardinality(SlotsOf(MembersOf(groupList, g), f)) \in Nat
                 /\ Cardinality(SlotsOf(members, f)) \in Nat
      BY <1>12, <2>2, <2>4, <2>5, SlotsAfterAddition, SlotsFinite
    <2> HIDE DEF members
    <2>8. p \in Whole
      BY <1>3, <2>2
    <2> HIDE DEF p
    <2>9. ASSUME NEW n, NEW f, NEW b \in Nat, Held(groupList, n, f, b)
          PROVE  Held(groupList', n, f, b)
      <3>1. b + Cardinality(SlotsOf(MembersOf(groupList, g), f))
              <= b + Cardinality(SlotsOf(members, f))
        BY <2>7
      <3> QED
        BY <1>1, <2>4, <2>5, <2>6, <2>9, <3>1, HeldSent
    <2> QED
      BY <1>2, <2>3, <2>4, <2>8, <2>9, CoveredSent
  <1>14. ASSUME NEW g \in Rooms, leaveGroupAndInformServer(g)
         PROVE  CoveredInv'
    <2>1. PICK i \in Found(MembersOf(groupList, g), Me) :
            LET f == MembersOf(groupList, g).clients[i].FD
            IN  /\ Types(Packet("LEAVE_ROOM", f, Me, g))
                /\ strayed' = (strayed \/ f # FdOf(Me))
      BY <1>14 DEF leaveGroupAndInformServer
    <2>2. Called(groupList, g) # {} /\ groupList' = removeGroupFromGroupList(groupList, g)
      BY <1>14 DEF leaveGroupAndInformServer
    <2>3. PICK f : f = MembersOf(groupList, g).clients[i].FD
      OBVIOUS
    <2>4. f \in MyFds
      BY <1>12, <2>1, <2>2, <2>3, FoundEntry DEF Member, Client
    <2> DEFINE p == Packet("LEAVE_ROOM", f, Me, g)
    <2>5. /\ outbox' = Append(outbox, p)
          /\ strayed => strayed'
      BY <2>1, <2>3 DEF Types
    <2>6. p \in Whole /\ p.type = "LEAVE_ROOM" /\ p.room = g
      BY <1>1, <1>3, <2>4
    <2> HIDE DEF p
    <2>7. ASSUME NEW n, NEW e, NEW b \in Nat, Held(groupList, n, e, b)
          PROVE  \/ Held(groupList', n, e, b)
                 \/ p.type = "LEAVE_ROOM" /\ p.room = n
      <3>1. n # g => Held(groupList', n, e, b)
        BY <1>1, <2>2, <2>7, HeldRemoved
      <3> QED
        BY <2>6, <3>1
    <2> QED
      BY <1>2, <2>5, <2>6, <2>7, CoveredSent
  <1>15. ASSUME NEW u \in Users, kickMemberAndShareOnServer(u)
         PROVE  CoveredInv'
    <2>1. PICK g \in Rooms, f \in Targets(u) :
            /\ Called(groupList, g) # {}
            /\ groupList' = WithMembers(groupList, g,
                 removeClientFromClientList(MembersOf(groupList, g), f))
            /\ Types(Packet("KICK_GROUP_MEMBER", f, u, g))
      BY <1>15 DEF kickMemberAndShareOnServer
    <2> DEFINE members == removeClientFromClientList(MembersOf(groupList, g), f)
               p == Packet("KICK_GROUP_MEMBER", f, u, g)
    <2>2. members \in SizedList
      BY <1>12, <2>1, Removal DEF SizedList
    <2>3. groupList' = WithMembers(groupList, g, members)
      BY <2>1
    <2>4. \A e : LET old == Cardinality(SlotsOf(MembersOf(groupList, g), e))
                     new == Cardinality(SlotsOf(members, e))
                 IN  /\ old \in Nat /\ new \in Nat /\ old <= new + 1
                     /\ f # e => old <= new
      BY <1>12, <2>1, <2>2, SlotsAfterRemoval, SlotsFinite
    <2> HIDE DEF members
    <2>5. f \in MyFds
      BY <1>1, <2>1, TargetsTyped
    <2>6. outbox' = Append(outbox, p) /\ strayed' = strayed
      BY <1>15, <2>1 DEF Types, kickMemberAndShareOnServer
    <2>7. /\ p \in Whole /\ p.type = "KICK_GROUP_MEMBER" /\ p.fd = f /\ p.room = g
      BY <1>3, <2>5
    <2> HIDE DEF p
    <2>8. ASSUME NEW n, NEW e, NEW b \in Nat, Held(groupList, n, e, b)
          PROVE  \/ Held(groupList', n, e, b)
                 \/ /\ p \in OrdersKick(n, e)
                    /\ b # 0 => Held(groupList', n, e, b - 1)
      <3>1. CASE n = g /\ e = f
        <4>1. p \in OrdersKick(n, e)
          BY <2>7, <3>1 DEF OrdersKick, AboutRoom
        <4>2. ASSUME b # 0
              PROVE  Held(groupList', n, e, b - 1)
          <5>1. b - 1 \in Nat
            BY <4>2
          <5>2. (b - 1) + Cardinality(SlotsOf(MembersOf(groupList, g), e))
                  <= b + Cardinality(SlotsOf(members, e))
            BY <2>4
          <5> QED
            BY <1>1, <2>1, <2>2, <2>3, <2>8, <3>1, <5>1, <5>2, HeldSent
        <4> QED
          BY <4>1, <4>2
      <3>2. CASE n # g \/ e # f
        <4>1. n = g => b + Cardinality(SlotsOf(MembersOf(groupList, g), e))
                         <= b + Cardinality(SlotsOf(members, e))
          BY <2>4, <3>2
        <4> QED
          BY <1>1, <2>1, <2>2, <2>3, <2>8, <4>1, HeldSent
      <3> QED
        BY <3>1, <3>2
    <2> QED
      BY <1>2, <2>6, <2>7, <2>8, CoveredSent
  <1> QED
    BY <1>5, <1>6, <1>7, <1>8, <1>9, <1>10, <1>11, <1>13, <1>14, <1>15
       DEF MainThread

\* Groups keep their names and admins, or are gone; one that comes is p's.
FromGroups(new, list, name, admin) ==
    \A h \in DOMAIN new :
      \/ \E k \in DOMAIN list :
           new[h].name = list[k].name /\ new[h].admin = list[k].admin
      \/ new[h].name = name /\ new[h].admin = admin

LEMMA AdminsChange ==
    ASSUME NEW list \in Seq(SizedGroup), NEW name, NEW admin
    PROVE  /\ \A members :
                (Called(list, name) # {} => members \in SizedList) =>
                  FromGroups(WithMembers(list, name, members), list, name, admin)
           /\ \A group \in SizedGroup :
                (group.name = name /\ group.admin = admin) =>
                  FromGroups(addGroupInGroupList(list, group), list, name, admin)
           /\ FromGroups(removeGroupFromGroupList(list, name), list, name, admin)
  <1>1. DOMAIN list = 1 .. Len(list) /\ Len(list) \in Nat
    BY LenProperties
  <1>2. ASSUME NEW members, Called(list, name) # {} => members \in SizedList
        PROVE  FromGroups(WithMembers(list, name, members), list, name, admin)
    <2> DEFINE new == WithMembers(list, name, members)
               first == First(Called(list, name))
    <2>1. CASE Called(list, name) = {}
      BY <2>1 DEF WithMembers, FromGroups
    <2>2. CASE Called(list, name) # {}
      <3>1. first \in DOMAIN list /\ list[first] \in Group
        BY <1>1, <2>2, FirstHolds DEF SizedGroup
      <3>2. new = [list EXCEPT ![first] = [list[first] EXCEPT !.members = members]]
        BY <2>2 DEF WithMembers
      <3>3. /\ [list[first] EXCEPT !.members = members].name = list[first].name
            /\ [list[first] EXCEPT !.members = members].admin = list[first].admin
        BY <3>1 DEF Group
      <3> HIDE DEF first
      <3>4. /\ DOMAIN new = DOMAIN list
            /\ \A h \in DOMAIN list : new[h].name = list[h].name
                                      /\ new[h].admin = list[h].admin
        BY <3>1, <3>2, <3>3
      <3> QED
        BY <3>4 DEF FromGroups
    <2> QED
      BY <2>1, <2>2
  <1>3. ASSUME NEW group \in SizedGroup, group.name = name, group.admin = admin
        PROVE  FromGroups(addGroupInGroupList(list, group), list, name, admin)
    <2> DEFINE members == group.members
               copied == MembersFrom(SubSeq(members.clients, 1, members.size))
               copy == [group EXCEPT !.members = copied]
               new == addGroupInGroupList(list, group)
    <2>1. copy.name = name /\ copy.admin = admin
      BY <1>3 DEF SizedGroup, Group
    <2>2. new = Append(list, copy)
      BY DEF addGroupInGroupList
    <2> HIDE DEF copy
    <2>3. \A h \in DOMAIN new :
            \/ h \in DOMAIN list /\ new[h] = list[h]
            \/ new[h] = copy
      BY <1>1, <2>2
    <2> QED
      BY <2>1, <2>3 DEF FromGroups
  <1>4. FromGroups(removeGroupFromGroupList(list, name), list, name, admin)
    <2> DEFINE new == removeGroupFromGroupList(list, name)
    <2>1. /\ new \in Seq(SizedGroup)
          /\ \A g \in 1 .. Len(new) : \E h \in 1 .. Len(list) : new[g] = list[h]
      BY GroupRemoved
    <2> HIDE DEF new
    <2>2. DOMAIN new = 1 .. Len(new)
      BY <2>1, LenProperties
    <2>3. FromGroups(new, list, name, admin)
      BY <1>1, <2>1, <2>2 DEF FromGroups
    <2> QED
      BY <2>3 DEF new
  <1> QED
    BY <1>2, <1>3, <1>4

LEMMA AdminClient ==
    ASSUME AdminInv, rooms' = rooms,
           NEW name, NEW admin, FromGroups(groupList', groupList, name, admin),
           admin = Me => \A g \in DOMAIN rooms :
                           rooms[g].name = name => rooms[g].admin = Me,
           \A k \in DOMAIN inbox' : \E l \in DOMAIN inbox : inbox'[k] = inbox[l],
           \A k \in DOMAIN outbox' :
             \/ \E l \in DOMAIN outbox : outbox'[k] = outbox[l]
             \/ outbox'[k].type = "KICK_GROUP_MEMBER" =>
                  \A g \in DOMAIN rooms :
                    rooms[g].name = outbox'[k].room => rooms[g].admin = Me
    PROVE  AdminInv'
  <1> SUFFICES ASSUME NEW g \in DOMAIN rooms
               PROVE  /\ \A h \in DOMAIN groupList' :
                           (groupList'[h].name = rooms[g].name
                            /\ groupList'[h].admin = Me) => rooms[g].admin = Me
                      /\ \A k \in DOMAIN inbox' :
                           (inbox'[k] \in ListsMembers(rooms[g].name)
                            /\ inbox'[k].name = Me) => rooms[g].admin = Me
                      /\ \A k \in DOMAIN outbox' :
                           (outbox'[k].type = "KICK_GROUP_MEMBER"
                            /\ outbox'[k].room = rooms[g].name) => rooms[g].admin = Me
    BY DEF AdminInv
  <1>1. /\ \A h \in DOMAIN groupList :
             (groupList[h].name = rooms[g].name /\ groupList[h].admin = Me) =>
               rooms[g].admin = Me
        /\ \A k \in DOMAIN inbox :
             (inbox[k] \in ListsMembers(rooms[g].name) /\ inbox[k].name = Me) =>
               rooms[g].admin = Me
        /\ \A k \in DOMAIN outbox :
             (outbox[k].type = "KICK_GROUP_MEMBER" /\ outbox[k].room = rooms[g].name) =>
               rooms[g].admin = Me
    BY DEF AdminInv
  <1>2. ASSUME NEW h \in DOMAIN groupList', groupList'[h].name = rooms[g].name,
               groupList'[h].admin = Me
        PROVE  rooms[g].admin = Me
    BY <1>1, <1>2 DEF FromGroups
  <1>3. ASSUME NEW k \in DOMAIN inbox', inbox'[k] \in ListsMembers(rooms[g].name),
               inbox'[k].name = Me
        PROVE  rooms[g].admin = Me
    BY <1>1, <1>3
  <1>4. ASSUME NEW k \in DOMAIN outbox', outbox'[k].type = "KICK_GROUP_MEMBER",
               outbox'[k].room = rooms[g].name
        PROVE  rooms[g].admin = Me
    BY <1>1, <1>4
  <1> QED
    BY <1>2, <1>3, <1>4

LEMMA FromSame ==
    ASSUME NEW list, NEW name, NEW admin
    PROVE  FromGroups(list, list, name, admin)
  BY DEF FromGroups

LEMMA AdminKept ==
    ASSUME AdminInv, UNCHANGED <<worldVars, groupList>>
    PROVE  AdminInv'
  BY DEF AdminInv, worldVars, serverVars

LEMMA AdminReceive ==
    ASSUME TypeInv, AdminInv, ReceiveThread
    PROVE  AdminInv'
  <1>1. groupList \in Seq(SizedGroup)
    BY DEF TypeInv
  <1>2. ASSUME NEW type, NEW p \in Arrived(type), Take,
               NEW name, NEW admin, FromGroups(groupList', groupList, name, admin),
               admin = Me => p \in ListsMembers(name) /\ p.name = Me
        PROVE  AdminInv'
    <2>1. rooms' = rooms /\ outbox' = outbox /\ inbox' = Tail(inbox)
      BY <1>2 DEF Take, serverVars
    <2>2. inbox # <<>> /\ p = inbox[1]
      BY ArrivedPacket
    <2>3. /\ Tail(inbox) \in Seq(Whole) /\ Len(Tail(inbox)) = Len(inbox) - 1
          /\ \A i \in 1 .. Len(inbox) - 1 : Tail(inbox)[i] = inbox[i + 1]
          /\ Len(inbox) \in Nat /\ DOMAIN inbox = 1 .. Len(inbox)
          /\ 1 \in DOMAIN inbox
      BY <2>2, QueuesTyped, FirstTaken
    <2>4. /\ DOMAIN Tail(inbox) = 1 .. Len(inbox) - 1
          /\ \A i \in 1 .. Len(inbox) - 1 : i + 1 \in 1 .. Len(inbox)
      BY <2>3, LenProperties
    <2>5. \A k \in DOMAIN inbox' : \E l \in DOMAIN inbox : inbox'[k] = inbox[l]
      BY <2>1, <2>3, <2>4
    <2>6. admin = Me => \A g \in DOMAIN rooms :
                          rooms[g].name = name => rooms[g].admin = Me
      BY <1>2, <2>2, <2>3 DEF AdminInv
    <2> QED
      BY <1>2, <2>1, <2>5, <2>6, AdminClient
  <1>3. NoUser # Me
    BY ClientWorldAssumption
  <1>4. ASSUME NEW type, NEW p \in Arrived(type), Take, NEW name,
               FromGroups(groupList', groupList, name, NoUser)
        PROVE  AdminInv'
    BY <1>2, <1>3, <1>4
  <1>5. CASE addJoinedUserInUserList \/ receiveUserList \/ handleLeftUser
    <2>1. PICK type : \E p \in Arrived(type) : Take /\ groupList' = groupList
      BY <1>5 DEF addJoinedUserInUserList, receiveUserList, handleLeftUser
    <2>2. FromGroups(groupList', groupList, NoRoom, NoUser)
      BY <2>1, FromSame
    <2> QED
      BY <1>4, <2>1, <2>2
  <1>6. CASE AddListedUser \/ SetNoChat
    BY <1>6, AdminKept DEF AddListedUser, SetNoChat
  <1>7. CASE receiveGroupList
    <2>1. PICK p \in Arrived("GROUP_LIST") :
            ChangesGroups(addGroupInGroupList(groupList,
                            NewGroup(p.room, p.name, MembersFrom(p.list))))
      BY <1>7 DEF receiveGroupList
    <2> DEFINE members == MembersFrom(p.list)
               group == NewGroup(p.room, p.name, members)
    <2>2. p \in Whole /\ p \in Letters /\ p.type = "GROUP_LIST"
      BY ArrivedPacket
    <2>3. members \in SizedList
      BY <2>2, ListedMembers, CopiedMembers DEF Letters
    <2> HIDE DEF members
    <2>4. group \in SizedGroup /\ group.name = p.room /\ group.admin = p.name
      BY <2>2, <2>3 DEF Whole, Letters, NewGroup, SizedGroup, Group, SizedList
    <2> HIDE DEF group
    <2>5. groupList' = addGroupInGroupList(groupList, group) /\ Take
      BY <2>1 DEF ChangesGroups, group, members
    <2>6. FromGroups(groupList', groupList, p.room, p.name)
      BY <1>1, <2>4, <2>5, AdminsChange
    <2>7. p \in ListsMembers(p.room)
      BY <2>2 DEF ListsMembers, AboutRoom
    <2> QED
      BY <1>2, <2>1, <2>5, <2>6, <2>7
  <1>8. ASSUME NEW name, Called(groupList, name) # {}
        PROVE  /\ MembersOf(groupList, name) \in ClientList(Users, MyFds)
               /\ MembersOf(groupList, name).size <= Len(MembersOf(groupList, name).clients)
    BY <1>1, <1>8, FirstHolds DEF SizedList
  <1>9. CASE manageNewMemberInGroup
    <2>1. PICK p \in Arrived("JOIN_ROOM") :
            ChangesGroups(WithMembers(groupList, p.room,
              addClientInClientList(MembersOf(groupList, p.room),
                                    [name |-> p.name, FD |-> p.fd])))
      BY <1>9 DEF manageNewMemberInGroup
    <2> DEFINE entry == [name |-> p.name, FD |-> p.fd]
               members == addClientInClientList(MembersOf(groupList, p.room), entry)
    <2>2. p \in Whole /\ p \in Letters /\ p.type = "JOIN_ROOM"
      BY ArrivedPacket
    <2>3. entry \in Member
      BY <2>2 DEF Whole, Letters, Member, Client
    <2> HIDE DEF entry
    <2>4. Called(groupList, p.room) # {} => members \in SizedList
      BY <1>8, <2>3, Addition DEF SizedList, Member
    <2>5. groupList' = WithMembers(groupList, p.room, members) /\ Take
      BY <2>1 DEF ChangesGroups, entry
    <2> HIDE DEF members
    <2>6. FromGroups(groupList', groupList, p.room, NoUser)
      BY <1>1, <2>4, <2>5, AdminsChange
    <2> QED
      BY <1>4, <2>1, <2>5, <2>6
  <1>10. ASSUME NEW type, NEW p \in Arrived(type), Take,
                groupList' = WithMembers(groupList, p.room,
                  removeClientFromClientList(MembersOf(groupList, p.room), p.fd))
         PROVE  AdminInv'
    <2> DEFINE members == removeClientFromClientList(MembersOf(groupList, p.room), p.fd)
    <2>1. Called(groupList, p.room) # {} => members \in SizedList
      BY <1>8, Removal DEF SizedList
    <2>2. groupList' = WithMembers(groupList, p.room, members)
      BY <1>10
    <2> HIDE DEF members
    <2>3. FromGroups(groupList', groupList, p.room, NoUser)
      BY <1>1, <2>1, <2>2, AdminsChange
    <2> QED
      BY <1>4, <1>10, <2>3
  <1>11. CASE manageKickedMember
    <2>1. PICK p \in Arrived("KICK_GROUP_MEMBER") :
            ChangesGroups(WithMembers(groupList, p.room,
              removeClientFromClientList(MembersOf(groupList, p.room), p.fd)))
      BY <1>11 DEF manageKickedMember
    <2> QED
      BY <1>10, <2>1 DEF ChangesGroups
  <1>12. CASE manageLeftGroupMember
    <2>1. PICK p \in Arrived("LEAVE_ROOM") :
            /\ groupList' = WithMembers(groupList, p.room,
                 removeClientFromClientList(MembersOf(groupList, p.room), p.fd))
            /\ Take
      BY <1>12 DEF manageLeftGroupMember
    <2> QED
      BY <1>10, <2>1
  <1>13. CASE handleDepression
    <2>1. PICK p \in Arrived("KICKED") :
            /\ groupList' = removeGroupFromGroupList(groupList, p.room)
            /\ Take
      BY <1>13 DEF handleDepression
    <2>2. FromGroups(groupList', groupList, p.room, NoUser)
      BY <1>1, <2>1, AdminsChange
    <2> QED
      BY <1>4, <2>1, <2>2
  <1> QED
    BY <1>5, <1>6, <1>7, <1>9, <1>11, <1>12, <1>13 DEF ReceiveThread

\* This client kicks from a group whose admin it is.
LEMMA AdminMain ==
    ASSUME TypeInv, AdminInv, MainThread
    PROVE  AdminInv'
  <1> USE ClientWorldAssumption
  <1>1. /\ groupList \in Seq(SizedGroup) /\ userList \in SizedList
        /\ outbox \in Seq(Whole) /\ DOMAIN outbox = 1 .. Len(outbox)
        /\ Len(outbox) \in Nat
    BY QueuesTyped DEF TypeInv
  <1>2. /\ rooms' = rooms
        /\ \A k \in DOMAIN inbox' : \E l \in DOMAIN inbox : inbox'[k] = inbox[l]
    BY MainApart DEF serverVars
  <1>3. ASSUME NEW type, NEW f, NEW u, NEW room,
               outbox' = Append(outbox, Packet(type, f, u, room)),
               NEW name, NEW admin, FromGroups(groupList', groupList, name, admin),
               admin = Me => ~Made(name),
               type = "KICK_GROUP_MEMBER" =>
                 \A g \in DOMAIN rooms : rooms[g].name = room => rooms[g].admin = Me
        PROVE  AdminInv'
    <2> DEFINE p == Packet(type, f, u, room)
    <2>1. p.type = type /\ p.room = room
      BY DEF Packet
    <2>2. outbox' = Append(outbox, p)
      BY <1>3
    <2> HIDE DEF p
    <2>3. \A k \in DOMAIN outbox' :
            \/ k \in DOMAIN outbox /\ outbox'[k] = outbox[k]
            \/ outbox'[k] = p
      BY <1>1, <2>2
    <2>4. admin = Me => \A g \in DOMAIN rooms :
                          rooms[g].name = name => rooms[g].admin = Me
      BY <1>3 DEF Made
    <2>5. \A k \in DOMAIN outbox' :
            \/ \E l \in DOMAIN outbox : outbox'[k] = outbox[l]
            \/ outbox'[k].type = "KICK_GROUP_MEMBER" =>
                 \A g \in DOMAIN rooms :
                   rooms[g].name = outbox'[k].room => rooms[g].admin = Me
      BY <1>3, <2>1, <2>3
    <2> QED
      BY <1>2, <1>3, <2>4, <2>5, AdminClient
  <1>4. NoUser # Me
    BY ClientWorldAssumption
  <1>5. ASSUME NEW type, NEW f, NEW u, NEW room, type # "KICK_GROUP_MEMBER",
               outbox' = Append(outbox, Packet(type, f, u, room)),
               NEW name, FromGroups(groupList', groupList, name, NoUser)
        PROVE  AdminInv'
    BY <1>3, <1>4, <1>5
  <1>6. CASE Intro \/ Quit
    <2>1. groupList' = groupList
      BY <1>6 DEF Intro, Quit
    <2>2. FromGroups(groupList', groupList, NoRoom, NoUser)
      BY <2>1, FromSame
    <2> QED
      BY <1>5, <1>6, <2>2 DEF Intro, Quit
  <1>7. CASE Learn \/ AssignChat \/ Back \/ KickNowhere
    BY <1>7, AdminKept DEF Learn, AssignChat, Back, KickNowhere
  <1>8. CASE LineToUser \/ LineToGroup
    BY <1>5, <1>8, FromSame DEF LineToUser, LineToGroup, Types
  <1>9. ASSUME NEW u, NEW g, chatWithUser(u) \/ chatWithinGroup(g)
        PROVE  AdminInv'
    <2>1. UNCHANGED <<worldVars, groupList>>
      BY <1>9 DEF chatWithUser, chatWithinGroup, Enter
    <2> QED
      BY <2>1, AdminKept
  <1>10. ASSUME NEW g \in Rooms, createGroup(g)
         PROVE  AdminInv'
    <2>1. PICK group \in SizedGroup :
            /\ groupList' = addGroupInGroupList(groupList, group)
            /\ group.name = g /\ group.admin = Me
      BY <1>10, GroupMade
    <2>2. /\ outbox' = Append(outbox, Packet("CREATE_ROOM", mySocketFD, Me, g))
          /\ ~Made(g)
      BY <1>10 DEF createGroup, Types
    <2>3. FromGroups(groupList', groupList, g, Me)
      BY <1>1, <2>1, AdminsChange
    <2> QED
      BY <1>3, <2>2, <2>3
  <1>11. ASSUME NEW g, Called(groupList, g) # {}
         PROVE  /\ MembersOf(groupList, g) \in ClientList(Users, MyFds)
                /\ MembersOf(groupList, g).size <= Len(MembersOf(groupList, g).clients)
                /\ First(Called(groupList, g)) \in DOMAIN groupList
                /\ groupList[First(Called(groupList, g))].name = g
    BY <1>1, <1>11, FirstHolds DEF SizedList
  <1>12. ASSUME NEW u \in Users \ {Me}, NEW g \in Rooms, addMember(u, g)
         PROVE  AdminInv'
    <2>1. PICK i \in Found(userList, u) :
            /\ groupList' = WithMembers(groupList, g,
                 addClientInClientList(MembersOf(groupList, g), userList.clients[i]))
            /\ outbox' = Append(outbox, Packet("JOIN_ROOM", userList.clients[i].FD, u, g))
      BY <1>12 DEF addMember, Types
    <2> DEFINE members ==
                 addClientInClientList(MembersOf(groupList, g), userList.clients[i])
    <2>2. userList.clients[i] \in Member
      BY <1>1, <2>1, FoundEntry
    <2>3. members \in SizedList
      BY <1>11, <1>12, <2>2, Addition DEF SizedList, Member, addMember
    <2>4. groupList' = WithMembers(groupList, g, members)
      BY <2>1
    <2> HIDE DEF members
    <2>5. FromGroups(groupList', groupList, g, NoUser)
      BY <1>1, <2>3, <2>4, AdminsChange
    <2> QED
      BY <1>5, <2>1, <2>5
  <1>13. ASSUME NEW g \in Rooms, leaveGroupAndInformServer(g)
         PROVE  AdminInv'
    <2>1. PICK f : /\ outbox' = Append(outbox, Packet("LEAVE_ROOM", f, Me, g))
                   /\ groupList' = removeGroupFromGroupList(groupList, g)
      BY <1>13 DEF leaveGroupAndInformServer, Types
    <2>2. FromGroups(groupList', groupList, g, NoUser)
      BY <1>1, <2>1, AdminsChange
    <2> QED
      BY <1>5, <2>1, <2>2
  <1>14. ASSUME NEW u \in Users, kickMemberAndShareOnServer(u)
         PROVE  AdminInv'
    <2>1. PICK g \in Rooms, f \in Targets(u) :
            /\ Called(groupList, g) # {}
            /\ groupList[First(Called(groupList, g))].admin = Me
            /\ groupList' = WithMembers(groupList, g,
                 removeClientFromClientList(MembersOf(groupList, g), f))
            /\ outbox' = Append(outbox, Packet("KICK_GROUP_MEMBER", f, u, g))
      BY <1>14 DEF kickMemberAndShareOnServer, Types
    <2> DEFINE members == removeClientFromClientList(MembersOf(groupList, g), f)
    <2>2. members \in SizedList
      BY <1>11, <2>1, Removal DEF SizedList
    <2>3. groupList' = WithMembers(groupList, g, members)
      BY <2>1
    <2> HIDE DEF members
    <2>4. FromGroups(groupList', groupList, g, NoUser)
      BY <1>1, <2>2, <2>3, AdminsChange
    <2>5. \A h \in DOMAIN rooms : rooms[h].name = g => rooms[h].admin = Me
      BY <1>11, <2>1 DEF AdminInv
    <2> QED
      BY <1>3, <1>4, <2>1, <2>4, <2>5
  <1> QED
    BY <1>6, <1>7, <1>8, <1>9, <1>10, <1>12, <1>13, <1>14 DEF MainThread

\* Nothing is on its way at the start, and this client is in no room.
LEMMA CoverInit ==
    ASSUME Init
    PROVE  CoveredInv /\ AdminInv
  <1>1. PICK u \in Users \ {Me}, f \in Fds, h \in Fds : Start(u, f, h)
    BY DEF Init, WorldInit, Start
  <1>2. inbox = <<>> /\ outbox = <<>> /\ groupList = <<>>
    BY <1>1 DEF Start, Init, NewClient
  <1>3. DOMAIN inbox = {} /\ DOMAIN outbox = {} /\ DOMAIN groupList = {}
    BY <1>2, EmptySeq
  <1>4. \A g \in DOMAIN rooms : ~In(g, Me)
    BY NobodyInside
  <1> QED
    BY <1>3, <1>4 DEF CoveredInv, Followed, AdminInv

LEMMA CoverStep ==
    ASSUME TypeInv, FaithfulInv, KnownInv, AdminInv, CoveredInv, [Next]_vars
    PROVE  CoveredInv' /\ AdminInv'
  <1>1. TypeInv'
    BY NextTypes
  <1>2. CASE UNCHANGED vars
    <2>1. UNCHANGED <<worldVars, groupList, strayed>>
      BY <1>2 DEF vars, clientVars
    <2> QED
      BY <2>1, CoveredKept, AdminKept
  <1> QED
    BY <1>1, <1>2, CoveredWorld, CoveredReceive, CoveredMain, AdminReceive, AdminMain
       DEF Next, Stops

\* Once all packets have arrived, everybody the server has in a room with this
\* client is in the group it has of it, whatever additions, kicks and leaves
\* crossed on the way: each addition that the server makes is in the GROUP_LIST
\* or in a JOIN_ROOM behind it, and no more are taken off than the server takes
\* off, those that this client has kicked itself included.
THEOREM NobodyLeftOut == Spec => []NoMemberMissing
  <1>1. Init => FaithfulInv /\ KnownInv /\ AdminInv /\ CoveredInv
    BY FaithfulInit, KnownInit, CoverInit
  <1>2. TypeInv /\ FaithfulInv /\ KnownInv /\ AdminInv /\ CoveredInv /\ [Next]_vars =>
          FaithfulInv' /\ KnownInv' /\ AdminInv' /\ CoveredInv'
    BY FaithfulStep, KnownStep, CoverStep
  <1>3. TypeInv /\ CoveredInv => NoMemberMissing
    <2> SUFFICES ASSUME TypeInv, CoveredInv, Drained, ~strayed,
                        NEW g \in DOMAIN rooms, NEW h \in DOMAIN groupList,
                        g = 1 \/ rooms[g].admin # Me, In(g, Me),
                        Called(groupList, rooms[g].name) = {h},
                        NEW i \in DOMAIN rooms[g].members, NEW f,
                        f = rooms[g].members[i].FD, f # FdOf(Me)
                 PROVE  f \in FdsOf(groupList[h].members)
      BY DEF NoMemberMissing
    <2>1. PICK name, n : name = rooms[g].name /\ n = Cardinality(Holding(g, f))
      OBVIOUS
    <2>2. /\ inbox \in Seq(Whole) /\ outbox \in Seq(Whole)
          /\ Len(inbox) = 0 /\ Len(outbox) = 0 /\ DOMAIN outbox = {}
      BY QueuesTyped, EmptySeq DEF Drained
    <2>3. Followed(g)
      BY <2>2 DEF Followed, Leaving
    <2>4. f \in MyFds
      BY RoomTyped, ElementOfSeq DEF Listed, Client
    <2>5. n \in Nat /\ n # 0
      <3>1. IsFiniteSet(1 .. Len(rooms[g].members))
        BY RoomTyped, FS_Interval
      <3>2. i \in Holding(g, f) /\ Holding(g, f) \subseteq 1 .. Len(rooms[g].members)
        BY RoomTyped DEF Holding
      <3>3. IsFiniteSet(Holding(g, f))
        BY <3>1, <3>2, FS_Subset
      <3> QED
        BY <2>1, <3>2, <3>3, FS_EmptySet, FS_CardinalityType
    <2>6. PICK m \in 0 .. Len(inbox), b \in Nat : Reaches(name, f, n, m, b)
      BY <2>1, <2>3, <2>4 DEF CoveredInv, Covered
    <2>7. m = 0 /\ 0 \in Nat /\ 0 >= 0
      BY <2>2, <2>6
    <2>8. /\ Among(inbox, m, TakesMember(name, f)) = 0
          /\ Among(inbox, m, AddsMember(name, f)) = 0
          /\ Among(outbox, 0, OrdersKick(name, f)) = 0
      BY <2>2, <2>7, AmongCounts
    <2>9. n <= b
      <3>1. n + 0 <= b + 0 + 0
        BY <2>6, <2>8 DEF Reaches
      <3> QED
        BY <2>5, <2>6, <3>1
    <2>10. b # 0 /\ Held(groupList, name, f, b)
      BY <2>5, <2>6, <2>7, <2>9 DEF Reaches, Base
    <2>11. b <= Cardinality(SlotsOf(groupList[h].members, f))
      BY <2>1, <2>10 DEF Held
    <2>12. SlotsOf(groupList[h].members, f) # {}
      <3>1. ~(b <= 0)
        BY <2>6, <2>10
      <3> QED
        BY <2>11, <3>1, FS_EmptySet
    <2> QED
      BY <2>12 DEF SlotsOf, FdsOf, Live
  <1> QED
    BY <1>1, <1>2, <1>3, ClientTyped, PTL DEF Spec
=============================================================================
