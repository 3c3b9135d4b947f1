----------------------------- MODULE ChatClient -----------------------------
(***************************************************************************)
(* One client program: its main thread (client.c, the commands) and its    *)
(* receive thread (manageClientProtocol), which share userList, groupList  *)
(* and currentCommunication without a lock.                                *)
(*                                                                         *)
(* One step is one line of the terminal, one packet, or one entry of a     *)
(* list; currentCommunication, which both threads free and assign, takes   *)
(* two steps.                                                              *)
(*                                                                         *)
(* The server and the other users are ClientWorld: the packets they send   *)
(* and what they make of ours.                                             *)
(***************************************************************************)
EXTENDS ClientWorld

CONSTANTS
    NULL,          \* currentCommunication before the first conversation
    NoChat,        \* the string "NULL", which it is set to afterwards
    NotLearnt,     \* 69, what getMySocketFD gives when it finds nobody
    MaxCommands,   \* bound: lines typed, /back and /quit apart
    MaxDepth,      \* bound: conversations opened inside one another
    ReallocMoves   \* whether realloc may return another address

ASSUME ChatClientAssumption ==
    /\ NULL \notin Users \cup Rooms \cup {NoChat, Freed}
    /\ NoChat \notin Users \cup Rooms \cup {Freed}
    /\ NotLearnt \notin Fds
    /\ MaxCommands \in Nat
    /\ MaxDepth \in Nat
    /\ ReallocMoves \in BOOLEAN

VARIABLES
    userList,              \* who is connected, as far as this client knows
    groupList,             \* the groups it is in
    currentCommunication,  \* the text it is at, NULL or a dangling pointer
    rx,                    \* the receive thread: where it is, what is left
    main,                  \* the main thread: where it is, what it assigns
    chats,                 \* the nested loops of chatWithUser/WithinGroup
    mySocketFD,            \* local of main()
    typed,                 \* lines typed, for the bound
    line,                  \* history: the last chat line to a user
    strayed                \* history: left a group by a wrong descriptor

clientVars == <<userList, groupList, currentCommunication, rx, main, chats,
                mySocketFD, typed, line, strayed>>

vars == <<clientVars, worldVars>>

Texts == Users \cup Rooms \cup {NoChat}

MyFds == Fds \cup {NoFd, NotLearnt}

Member == Client(Users, MyFds)

Group == [name : Rooms, admin : Users, members : ClientList(Users, MyFds)]

\* A loop of chatWithUser holds a pointer into userList.clients: a slot, and
\* whether the array has been moved since; of chatWithinGroup, a name.  The
\* rest is history: the descriptor in the slot and whether it had the name that
\* was asked for, whether a user has left since, and whether the peer has or
\* the slot may have been filled again.
Chat == [name : Users \cup Rooms, slot : Nat, stale : BOOLEAN,
         peer : MyFds, named : BOOLEAN, hole : BOOLEAN, spoilt : BOOLEAN]

NoLine == [name |-> Me, FD |-> NoFd, owner |-> NoUser, peer |-> NoFd,
           spoilt |-> TRUE, told |-> FALSE]

ClientTypeOK ==
    /\ userList \in ClientList(Users, MyFds)
    /\ groupList \in Seq(Group)
    /\ currentCommunication \in Texts \cup {NULL, Freed}
    /\ rx \in [pc : {"recv", "userList", "kicked"}, rest : Seq(Member)]
    /\ main \in [pc : {"intro", "learn", "command", "assign", "aborted", "quit"},
                 text : Texts]
    /\ chats \in Seq(Chat)
    /\ mySocketFD \in MyFds
    /\ line \in [name : Users, FD : MyFds, owner : Users \cup {NoUser},
                 peer : MyFds, spoilt : BOOLEAN, told : BOOLEAN]
    /\ strayed \in BOOLEAN

\* Nobody has typed a command, no handler runs.
Silent ==
    /\ currentCommunication = NULL
    /\ rx = [pc |-> "recv", rest |-> <<>>]
    /\ chats = <<>>
    /\ line = NoLine
    /\ strayed = FALSE

NewClient ==
    /\ Silent
    /\ userList = EmptyList
    /\ groupList = <<>>
    /\ main = [pc |-> "intro", text |-> NoChat]
    /\ mySocketFD = NoFd

Runs == main.pc \notin {"aborted", "quit"}

----------------------------------------------------------------------------
(* Lists of groups: shared/group/group.c.  Groups are found by name each    *)
(* time, so the array needs no slots past its size.                         *)

NewGroup(name, admin, members) ==
    [name |-> name, admin |-> admin, members |-> members]

\* The list that additions to an empty one make, one by one.
MembersFrom(entries) == [clients |-> entries, size |-> Len(entries)]

addGroupInGroupList(list, group) ==
    Append(list, [group EXCEPT !.members =
                    MembersFrom(SubSeq(group.members.clients, 1,
                                       group.members.size))])

Called(list, name) == {g \in DOMAIN list : list[g].name = name}

First(S) == CHOOSE g \in S : \A h \in S : g <= h

\* Mutant of removeGroupFromGroupList: the hole is not filled.
RemoveLastGroup(list, name) ==
    IF Called(list, name) = {} THEN list ELSE Front(list)

\* The last group is copied over the first one of that name.
removeGroupFromGroupList(list, name) ==
    IF Called(list, name) = {} THEN list
    ELSE Front([list EXCEPT ![First(Called(list, name))] = Last(list)])

\* The members of the first group of a name, if there is one.
MembersOf(list, name) == list[First(Called(list, name))].members

WithMembers(list, name, members) ==
    IF Called(list, name) = {} THEN list
    ELSE [list EXCEPT ![First(Called(list, name))].members = members]

----------------------------------------------------------------------------
(* The list of users and the pointers into it. *)

\* Slots that a search by name may stop at: the first of that name, or one
\* before it whose text has been freed and may read as anything.
Found(list, name) ==
    {i \in Live(list) :
       /\ list.clients[i].name \in {name, Freed}
       /\ \A j \in 1 .. i - 1 : list.clients[j].name # name}

MayMiss(list, name) == \A i \in Live(list) : list.clients[i].name # name

\* One more user: an array that is full may move from under the chats.
AddUser(user) ==
    /\ userList' = addClientInClientList(userList, user)
    /\ \E moves \in {FALSE, ReallocMoves /\ Grows(userList)} :
         chats' = [k \in DOMAIN chats |->
                     [chats[k] EXCEPT !.stale = @ \/ (moves /\ chats[k].slot > 0),
                                      !.spoilt = @ \/ chats[k].hole]]

----------------------------------------------------------------------------
(* The receive thread. *)

\* The packet recvAll() gives the receive thread next, if it is of a type.
Arrived(type) ==
    {p \in {inbox[k] : k \in DOMAIN inbox \cap {1}} :
       Runs /\ rx.pc = "recv" /\ p.type = type}

Take == inbox' = Tail(inbox) /\ UNCHANGED <<serverVars, outbox>>

addJoinedUserInUserList ==
    \E p \in Arrived("USER_JOINED_SERVER") :
      /\ AddUser([name |-> p.name, FD |-> p.fd])
      /\ Take
      /\ UNCHANGED <<groupList, currentCommunication, rx, main, mySocketFD,
                     typed, line, strayed>>

\* The users in the packet are added to the list as it is, one by one.
receiveUserList ==
    \E p \in Arrived("CLIENT_LIST") :
      /\ rx' = [pc |-> "userList", rest |-> p.list]
      /\ Take
      /\ UNCHANGED <<userList, groupList, currentCommunication, main, chats,
                     mySocketFD, typed, line, strayed>>

AddListedUser ==
    /\ Runs
    /\ rx.pc = "userList"
    /\ AddUser(Head(rx.rest))
    /\ rx' = [pc   |-> IF Len(rx.rest) = 1 THEN "recv" ELSE "userList",
              rest |-> Tail(rx.rest)]
    /\ UNCHANGED <<worldVars, groupList, currentCommunication, main,
                   mySocketFD, typed, line, strayed>>

handleLeftUser ==
    \E p \in Arrived("USER_LEFT") :
      /\ userList' = removeClientFromClientList(userList, p.fd)
      /\ chats' = [k \in DOMAIN chats |->
                    [chats[k] EXCEPT !.hole = TRUE,
                                     !.spoilt = @ \/ chats[k].peer = p.fd]]
      /\ Take
      /\ UNCHANGED <<groupList, currentCommunication, rx, main, mySocketFD,
                     typed, line, strayed>>

\* A handler that only changes groupList.
ChangesGroups(list) ==
    /\ groupList' = list
    /\ Take
    /\ UNCHANGED <<userList, currentCommunication, rx, main, chats,
                   mySocketFD, typed, line, strayed>>

receiveGroupList ==
    \E p \in Arrived("GROUP_LIST") :
      ChangesGroups(addGroupInGroupList(groupList,
                      NewGroup(p.room, p.name, MembersFrom(p.list))))

\* Mutant of manageNewMemberInGroup: name and descriptor read in the wrong
\* order.
NewMemberSwapped ==
    \E p \in Arrived("JOIN_ROOM") :
      ChangesGroups(WithMembers(groupList, p.room,
        addClientInClientList(MembersOf(groupList, p.room),
                              [name |-> p.fd, FD |-> p.name])))

manageNewMemberInGroup ==
    \E p \in Arrived("JOIN_ROOM") :
      ChangesGroups(WithMembers(groupList, p.room,
        addClientInClientList(MembersOf(groupList, p.room),
                              [name |-> p.name, FD |-> p.fd])))

manageKickedMember ==
    \E p \in Arrived("KICK_GROUP_MEMBER") :
      ChangesGroups(WithMembers(groupList, p.room,
        removeClientFromClientList(MembersOf(groupList, p.room), p.fd)))

\* strcmp() with currentCommunication, when the group is there: NULL ends the
\* program.
manageLeftGroupMember ==
    \E p \in Arrived("LEAVE_ROOM") :
      /\ groupList' = WithMembers(groupList, p.room,
           removeClientFromClientList(MembersOf(groupList, p.room), p.fd))
      /\ main' = IF /\ Called(groupList, p.room) # {}
                    /\ currentCommunication = NULL
                   THEN [main EXCEPT !.pc = "aborted"]
                   ELSE main
      /\ Take
      /\ UNCHANGED <<userList, currentCommunication, rx, chats,
                     mySocketFD, typed, line, strayed>>

\* free(currentCommunication): a second free may abort or pass.
Frees(program) ==
    /\ currentCommunication' = Freed
    /\ main' \in {program} \cup
                 (IF currentCommunication = Freed
                    THEN {[program EXCEPT !.pc = "aborted"]} ELSE {})

\* KICKED: the group goes, currentCommunication is freed ...
handleDepression ==
    \E p \in Arrived("KICKED") :
      /\ groupList' = removeGroupFromGroupList(groupList, p.room)
      /\ rx' = [rx EXCEPT !.pc = "kicked"]
      /\ Frees(main)
      /\ Take
      /\ UNCHANGED <<userList, chats, mySocketFD, typed, line, strayed>>

\* Mutant of SetNoChat: the new string is not assigned.
SetNothing ==
    /\ Runs
    /\ rx.pc = "kicked"
    /\ rx' = [rx EXCEPT !.pc = "recv"]
    /\ UNCHANGED <<worldVars, userList, groupList, currentCommunication, main,
                   chats, mySocketFD, typed, line, strayed>>

\* ... and set to "NULL", whatever the user was at.
SetNoChat ==
    /\ Runs
    /\ rx.pc = "kicked"
    /\ rx' = [rx EXCEPT !.pc = "recv"]
    /\ currentCommunication' = NoChat
    /\ UNCHANGED <<worldVars, userList, groupList, main, chats, mySocketFD,
                   typed, line, strayed>>

ReceiveThread ==
    \/ addJoinedUserInUserList \/ receiveUserList \/ AddListedUser
    \/ handleLeftUser \/ receiveGroupList \/ manageNewMemberInGroup
    \/ manageKickedMember \/ manageLeftGroupMember \/ handleDepression
    \/ SetNoChat

----------------------------------------------------------------------------
(* The main thread. *)

Types(p) ==
    /\ typed < MaxCommands
    /\ main.pc = "command"
    /\ typed' = typed + 1
    /\ outbox' = Append(outbox, p)
    /\ UNCHANGED <<serverVars, inbox, mySocketFD>>

\* The first thing main() writes.
Intro ==
    /\ main.pc = "intro"
    /\ main' = [main EXCEPT !.pc = "learn"]
    /\ outbox' = Append(outbox, Packet("INTRO", NoFd, Me, NoRoom))
    /\ UNCHANGED <<serverVars, inbox, userList, groupList,
                   currentCommunication, rx, chats, mySocketFD, typed, line, strayed>>

\* getMySocketFD, right after the INTRO.
Learn ==
    /\ main.pc = "learn"
    /\ main' = [main EXCEPT !.pc = "command"]
    /\ \/ /\ MayMiss(userList, Me)
          /\ mySocketFD' = NotLearnt
       \/ \E i \in Found(userList, Me) :
            mySocketFD' = userList.clients[i].FD
    /\ UNCHANGED <<worldVars, userList, groupList, currentCommunication, rx,
                   chats, typed, line, strayed>>

\* Assigning currentCommunication takes two statements.
AssignChat ==
    /\ main.pc = "assign"
    /\ currentCommunication' = main.text
    /\ main' = [main EXCEPT !.pc = "command"]
    /\ UNCHANGED <<worldVars, userList, groupList, rx, chats, mySocketFD,
                   typed, line, strayed>>

Enter(chat) ==
    /\ Len(chats) < MaxDepth
    /\ typed < MaxCommands
    /\ typed' = typed + 1
    /\ chats' = Append(chats, chat)
    /\ UNCHANGED <<worldVars, userList, groupList, rx, mySocketFD, line, strayed>>

\* /chat name: the loop keeps a pointer to the slot it has found.  A freed name
\* is copied as anything; that of a third user makes no difference.
chatWithUser(u) ==
    /\ main.pc = "command"
    /\ \E i \in Found(userList, u), text \in {u, NoChat} \cup Rooms :
         LET user == userList.clients[i]
         IN  /\ user.name # Freed => text = user.name
             /\ Enter([name |-> u, slot |-> i, stale |-> FALSE,
                       peer |-> user.FD, named |-> user.name = u,
                       hole |-> FALSE, spoilt |-> FALSE])
             /\ Frees([pc |-> "assign", text |-> text])

\* /open name
chatWithinGroup(g) ==
    /\ main.pc = "command"
    /\ Called(groupList, g) # {}
    /\ Enter([name |-> g, slot |-> 0, stale |-> FALSE, peer |-> NoFd,
              named |-> TRUE, hole |-> FALSE, spoilt |-> FALSE])
    /\ Frees([pc |-> "assign", text |-> g])

Back ==
    /\ main.pc = "command"
    /\ chats # <<>>
    /\ chats' = Front(chats)
    /\ UNCHANGED <<worldVars, userList, groupList, currentCommunication, rx,
                   main, mySocketFD, typed, line, strayed>>

\* A line typed to a user: the descriptor is read from the slot now.
LineToUser ==
    /\ chats # <<>>
    /\ Last(chats).slot > 0
    /\ \E f \in IF Last(chats).stale THEN Fds \cup {NoFd}
                  ELSE {userList.clients[Last(chats).slot].FD} :
         /\ Types(Packet("CHAT", f, Me, NoRoom))
         /\ line' = [name |-> Last(chats).name, FD |-> f,
                     owner |-> IF f \in Fds THEN online[f] ELSE NoUser,
                     peer |-> Last(chats).peer,
                     spoilt |-> Last(chats).spoilt \/ Last(chats).stale,
                     told |-> Last(chats).named /\ inbox = <<>>]
    /\ UNCHANGED <<userList, groupList, currentCommunication, rx, main, chats,
                   strayed>>

\* A line typed to a group, in it or not.
LineToGroup ==
    /\ chats # <<>>
    /\ Last(chats).slot = 0
    /\ Types(Packet("GROUP_CHAT", NoFd, Me, Last(chats).name))
    /\ UNCHANGED <<userList, groupList, currentCommunication, rx, main, chats,
                   line, strayed>>

\* /create_group, with the descriptor that was learnt at the start.  Names are
\* fresh: no room has this one, and none is on its way to the server with it.
createGroup(g) ==
    /\ g \notin Foreign
    /\ ~Made(g)
    /\ ~\E k \in DOMAIN outbox :
          outbox[k].type = "CREATE_ROOM" /\ outbox[k].room = g
    /\ LET admin == [name |-> Me, FD |-> mySocketFD]
       IN  groupList' = addGroupInGroupList(groupList,
                          NewGroup(g, Me, addClientInClientList(EmptyList, admin)))
    /\ Types(Packet("CREATE_ROOM", mySocketFD, Me, g))
    /\ UNCHANGED <<userList, currentCommunication, rx, main, chats, line, strayed>>

\* /add_member: added here, and again when the server's copy comes back.
addMember(u, g) ==
    /\ Called(groupList, g) # {}
    /\ \E i \in Found(userList, u) :
         /\ userList.clients[i].name # Freed
         /\ groupList' = WithMembers(groupList, g,
              addClientInClientList(MembersOf(groupList, g), userList.clients[i]))
         /\ Types(Packet("JOIN_ROOM", userList.clients[i].FD, u, g))
    /\ UNCHANGED <<userList, currentCommunication, rx, main, chats, line, strayed>>

\* /leave_group, by the descriptor this client is in the group with.
leaveGroupAndInformServer(g) ==
    /\ Called(groupList, g) # {}
    /\ LET members == MembersOf(groupList, g)
       IN  \E i \in Found(members, Me) :
             /\ Types(Packet("LEAVE_ROOM", members.clients[i].FD, Me, g))
             /\ strayed' = (strayed \/ members.clients[i].FD # FdOf(Me))
    /\ groupList' = removeGroupFromGroupList(groupList, g)
    /\ Frees([pc |-> "assign", text |-> NoChat])
    /\ UNCHANGED <<userList, rx, chats, line>>

\* The descriptors that targetFD may have: unset when the user is not found.
Targets(u) ==
    {userList.clients[i].FD : i \in Found(userList, u)}
    \cup (IF MayMiss(userList, u) THEN Fds \cup {NoFd} ELSE {})

\* /kick, in the group that currentCommunication names.
kickMemberAndShareOnServer(u) ==
    \E g \in Rooms, f \in Targets(u) :
      /\ currentCommunication \in {g, Freed}
      /\ Called(groupList, g) # {}
      /\ groupList[First(Called(groupList, g))].admin = Me
      /\ groupList' = WithMembers(groupList, g,
           removeClientFromClientList(MembersOf(groupList, g), f))
      /\ Types(Packet("KICK_GROUP_MEMBER", f, u, g))
      /\ UNCHANGED <<userList, currentCommunication, rx, main, chats, line, strayed>>

\* /kick before the first conversation: strcmp() with NULL.
KickNowhere ==
    /\ main.pc = "command"
    /\ currentCommunication = NULL
    /\ main' = [main EXCEPT !.pc = "aborted"]
    /\ UNCHANGED <<worldVars, userList, groupList, currentCommunication, rx,
                   chats, mySocketFD, typed, line, strayed>>

\* /quit is understood by the main loop only.
Quit ==
    /\ main.pc = "command"
    /\ chats = <<>>
    /\ main' = [main EXCEPT !.pc = "quit"]
    /\ outbox' = Append(outbox, Packet("USER_LEFT", NoFd, Me, NoRoom))
    /\ UNCHANGED <<serverVars, inbox, userList, groupList,
                   currentCommunication, rx, chats, mySocketFD, typed, line, strayed>>

MainThread ==
    \/ Intro \/ Learn \/ AssignChat \/ Back \/ LineToUser \/ LineToGroup
    \/ KickNowhere \/ Quit
    \/ \E u \in Users \ {Me} : chatWithUser(u) \/ kickMemberAndShareOnServer(u)
    \/ \E g \in Rooms : chatWithinGroup(g) \/ createGroup(g)
                        \/ leaveGroupAndInformServer(g)
    \/ \E u \in Users \ {Me}, g \in Rooms : addMember(u, g)

----------------------------------------------------------------------------
Init == WorldInit /\ NewClient /\ typed = 0

\* The program has ended, or both threads and the server wait for somebody.
Stops ==
    /\ \/ ~Runs
       \/ inbox = <<>> /\ outbox = <<>> /\ main.pc = "command"
    /\ UNCHANGED vars

WorldStep == Runs /\ (OthersAct \/ Serves) /\ UNCHANGED clientVars

Next ==
    \/ Stops
    \/ WorldStep
    \/ ReceiveThread
    \/ MainThread

Spec == Init /\ [][Next]_vars

----------------------------------------------------------------------------
(* Properties *)

\* Nothing is on its way, and the receive thread waits.
Drained ==
    /\ Runs /\ me = "listed"
    /\ inbox = <<>> /\ outbox = <<>> /\ rx.pc = "recv"

\* Once everything has arrived, everybody who is connected is in the list of
\* users, whatever came and went before, with descriptors used again.
NobodyMissing == Drained => OnlineFds \subseteq FdsOf(userList)

Gone(u) == u \in been /\ ~IsOnline(u)

TrueEntry(entry) ==
    \/ entry.name \in {Me, Freed} \/ Gone(entry.name)
    \/ entry.FD \in Fds /\ online[entry.FD] = entry.name

\* No list, of users or of members, ever puts the name of a user who is
\* connected to the descriptor of another: moved entries move as a whole.
NoFalseIdentity ==
    /\ \A i \in Live(userList) : TrueEntry(userList.clients[i])
    /\ \A g \in DOMAIN groupList :
         \A i \in Live(groupList[g].members) :
           TrueEntry(groupList[g].members.clients[i])

\* What is typed to a user goes to the descriptor the conversation was opened
\* on, while that user has not left, nobody has come after somebody left, and
\* no array has moved: a removal leaves the slot of the last entry as it was.
LineToOpened == ~line.spoilt => line.FD = line.peer

\* Once everything has arrived, every group that the server has this client in
\* is in the list, whatever invitations, kicks and leaves have crossed, unless a
\* LEAVE_ROOM bore a wrong descriptor: one learnt too early, or one found by a
\* freed name.
RoomsKnown ==
    (Drained /\ ~strayed) =>
      \A g \in DOMAIN rooms :
        In(g, Me) => Called(groupList, rooms[g].name) # {}

\* ... and of each such group everybody the server has in it is listed, unless
\* the group is in the list twice, where a leave has crossed a kick and another
\* invitation.  Kicks from the groups of this client but the server's first are
\* not carried out there.
NoMemberMissing ==
    (Drained /\ ~strayed) =>
      \A g \in DOMAIN rooms, h \in DOMAIN groupList :
        (/\ g = 1 \/ rooms[g].admin # Me
         /\ In(g, Me) /\ Called(groupList, rooms[g].name) = {h}) =>
          {rooms[g].members[i].FD : i \in DOMAIN rooms[g].members} \ {FdOf(Me)}
            \subseteq FdsOf(groupList[h].members)

\* currentCommunication dangles only between a free and its assignment.
NoDanglingChat ==
    currentCommunication = Freed => main.pc \in {"assign", "aborted"} \/ rx.pc = "kicked"

\* help.c: "/chat <username> - Start a 1-on-1 chat with a user": what is typed
\* there reaches that user or, when it has gone, nobody, if this client found
\* the user by its name and has been told of everything that has happened.
LineToNamed == line.told => line.owner \in {line.name, NoUser}
=============================================================================
