------------------------------ MODULE Registry ------------------------------
(***************************************************************************)
(* The server's list of users: manageNewClient, manageLeftClient and       *)
(* managePeerChat of server/protocol/protocol.c with introduceNewClient    *)
(* and sendClientListToClient of shared/client_manager/client_manager.c.   *)
(*                                                                         *)
(* introduceNewClient and sendClientListToClient get the list by value:    *)
(* they keep the size of the call but share the array, so they see every   *)
(* later change of its slots; and once an addition has had to move the     *)
(* array (realloc) they read freed memory.  manageLeftClient loops on the  *)
(* list itself.                                                            *)
(***************************************************************************)
EXTENDS Transport

CONSTANT ReallocMoves  \* whether realloc may return another address

ASSUME RegistryAssumption == ReallocMoves \in BOOLEAN

VARIABLE clientList

registryVars == <<netVars, clientList>>

RegistryTypeOK == clientList \in ClientList(Names, AnyFd)

RegistryInit == clientList = EmptyList

\* Threads that hold the array of clientList through a by-value copy.
HoldsCopy(d) ==
    th[d].pc \in {"introduce", "introducePayload", "listPayload"}

\* The descriptor in slot i of the copy that c holds.
Slot(c, i) ==
    IF th[c].stale THEN AnyFd ELSE {clientList.clients[i].FD}

----------------------------------------------------------------------------
(* manageNewClient *)

\* Mutant of Joined: name and descriptor written in the wrong order.
JoinedSwapped(c) ==
    [Blank EXCEPT !.type = "USER_JOINED_SERVER", !.fd = Incoming(c).name,
                  !.name = th[c].fd]

\* introduceNewClient's packet.
Joined(c) ==
    [Blank EXCEPT !.type = "USER_JOINED_SERVER", !.fd = th[c].fd,
                  !.name = Incoming(c).name]

\* Mutant of NewClient: the length of the name is compared off by one.
NewClientDropped(c) ==
    /\ Receives(c, "INTRO")
    /\ ReceiveAndReturn(c)
    /\ UNCHANGED <<fdTable, sent, out, peer, up, clientList>>

\* getClientName returns no name when the payload falls short, and the
\* handler returns; otherwise introduceNewClient is called with the list.
NewClient(c) ==
    /\ Receives(c, "INTRO")
    /\ IF Incoming(c).whole
         THEN th' = [th EXCEPT ![c] = [th[c] EXCEPT !.pc = "introduce",
                                                    !.got = @ + 1,
                                                    !.pkt = Joined(c), !.i = 1,
                                                    !.n = clientList.size]]
         ELSE ReceiveAndReturn(c)
    /\ UNCHANGED <<fdTable, sent, out, peer, up, clientList>>

\* Mutant of IntroduceHeader: to the new client's own descriptor.
IntroduceToItself(c) ==
    /\ At(c, "introduce")
    /\ th[c].i <= th[c].n
    /\ SendHeader(c, th[c].fd, th[c].pkt)
    /\ th' = [th EXCEPT ![c].pc = "introducePayload"]
    /\ UNCHANGED <<fdTable, sent, clientList>>

IntroduceHeader(c) ==
    /\ At(c, "introduce")
    /\ th[c].i <= th[c].n
    /\ \E f \in Slot(c, th[c].i) : SendHeader(c, f, th[c].pkt)
    /\ th' = [th EXCEPT ![c].pc = "introducePayload"]
    /\ UNCHANGED <<fdTable, sent, clientList>>

\* Mutant of IntroducePayload: without the increment.
IntroduceAgain(c) ==
    /\ At(c, "introducePayload")
    /\ \E f \in Slot(c, th[c].i) : SendPayload(c, f, th[c].pkt)
    /\ th' = [th EXCEPT ![c] = [th[c] EXCEPT !.pc = "introduce"]]
    /\ UNCHANGED <<fdTable, sent, clientList>>

\* The descriptor is read from the slot again.
IntroducePayload(c) ==
    /\ At(c, "introducePayload")
    /\ \E f \in Slot(c, th[c].i) : SendPayload(c, f, th[c].pkt)
    /\ th' = [th EXCEPT ![c] = [th[c] EXCEPT !.pc = "introduce", !.i = @ + 1]]
    /\ UNCHANGED <<fdTable, sent, clientList>>

\* addClientInClientList.
Register(c) ==
    /\ At(c, "introduce")
    /\ th[c].i > th[c].n
    /\ clientList' = addClientInClientList(clientList,
                        [name |-> th[c].pkt.name, FD |-> th[c].fd])
    /\ \E moves \in {FALSE, ReallocMoves /\ Grows(clientList)} :
         th' = [d \in Conns |->
                 IF d = c
                   THEN [th[c] EXCEPT !.pc = "list", !.stale = FALSE]
                   ELSE [th[d] EXCEPT !.stale =
                           th[d].stale \/ (moves /\ HoldsCopy(d))]]
    /\ UNCHANGED <<fdTable, sent, out, peer, up>>

\* Mutant of ListHeader: the size of the list from before the addition.
ListHeaderOld(c) ==
    /\ At(c, "list")
    /\ LET p == [Blank EXCEPT !.type = "CLIENT_LIST",
                   !.list = SubSeq(clientList.clients, 1, th[c].n)]
       IN  /\ SendHeader(c, th[c].fd, p)
           /\ th' = [th EXCEPT ![c] = [th[c] EXCEPT !.pc = "listPayload",
                                                    !.pkt = p]]
    /\ UNCHANGED <<fdTable, sent, clientList>>

\* sendClientListToClient copies size, sums up the lengths of the names and
\* writes a header with that sum ...
ListHeader(c) ==
    /\ At(c, "list")
    /\ LET p == [Blank EXCEPT !.type = "CLIENT_LIST",
                   !.list = SubSeq(clientList.clients, 1, clientList.size)]
       IN  /\ SendHeader(c, th[c].fd, p)
           /\ th' = [th EXCEPT ![c] = [th[c] EXCEPT !.pc = "listPayload",
                                                    !.pkt = p,
                                                    !.n = clientList.size]]
    /\ UNCHANGED <<fdTable, sent, clientList>>

\* ... and then builds the payload from what the slots hold by now.
ListPayload(c) ==
    /\ At(c, "listPayload")
    /\ \E entries \in IF th[c].stale
                        THEN [1 .. th[c].n -> Client({}, AnyFd)]
                        ELSE {SubSeq(clientList.clients, 1, th[c].n)} :
         SendPayload(c, th[c].fd, [th[c].pkt EXCEPT !.list = entries])
    /\ Return(c)
    /\ UNCHANGED <<fdTable, sent, clientList>>

\* strlen of a name pointer found in freed memory.
FollowsFreedPointer(c) ==
    /\ At(c, "listPayload")
    /\ th[c].stale
    /\ up' = FALSE
    /\ UNCHANGED <<fdTable, th, sent, out, peer, clientList>>

----------------------------------------------------------------------------
(* manageLeftClient *)

Left(c) == [Blank EXCEPT !.type = "USER_LEFT", !.fd = th[c].fd]

\* Mutant of LeftClient: the descriptor is closed before the news is sent.
LeftClientCloses(c) ==
    /\ Receives(c, "USER_LEFT")
    /\ clientList' = removeClientFromClientList(clientList, th[c].fd)
    /\ fdTable' = [fdTable EXCEPT ![th[c].fd] = NoConn]
    /\ th' = [th EXCEPT ![c] = [th[c] EXCEPT !.pc = "left",
                                             !.got = @ + 1, !.i = 1,
                                             !.pkt = Left(c)]]
    /\ UNCHANGED <<sent, out, peer, up>>

\* free() of a name that was freed before may abort the process or pass.
LeftClient(c) ==
    /\ Receives(c, "USER_LEFT")
    /\ clientList' = removeClientFromClientList(clientList, th[c].fd)
    /\ up' \in {TRUE, ~FreesTwice(clientList, th[c].fd)}
    /\ th' = [th EXCEPT ![c] = [th[c] EXCEPT !.pc = "left",
                                             !.got = @ + 1, !.i = 1,
                                             !.pkt = Left(c)]]
    /\ UNCHANGED <<fdTable, sent, out, peer>>

LeftHeader(c) ==
    /\ At(c, "left")
    /\ th[c].i <= clientList.size
    /\ SendHeader(c, clientList.clients[th[c].i].FD, th[c].pkt)
    /\ th' = [th EXCEPT ![c].pc = "leftPayload"]
    /\ UNCHANGED <<fdTable, sent, clientList>>

\* The slot is read again: size may have dropped below i by now.
LeftPayload(c) ==
    /\ At(c, "leftPayload")
    /\ SendPayload(c, clientList.clients[th[c].i].FD, th[c].pkt)
    /\ th' = [th EXCEPT ![c] = [th[c] EXCEPT !.pc = "left", !.i = @ + 1]]
    /\ UNCHANGED <<fdTable, sent, clientList>>

\* Mutants of LeftDone: the loop ends one slot early; the case has no break.
LeftDoneEarly(c) ==
    /\ At(c, "left")
    /\ th[c].i >= clientList.size
    /\ Return(c)
    /\ UNCHANGED <<fdTable, sent, out, peer, up, clientList>>

LeftFallsThrough(c) ==
    /\ At(c, "left")
    /\ th[c].i > clientList.size
    /\ th' = [th EXCEPT ![c] = [th[c] EXCEPT !.pc = "introduce",
                                             !.i = 1,
                                             !.n = clientList.size,
                                             !.pkt.type = "USER_JOINED_SERVER"]]
    /\ UNCHANGED <<fdTable, sent, out, peer, up, clientList>>

LeftDone(c) ==
    /\ At(c, "left")
    /\ th[c].i > clientList.size
    /\ Return(c)
    /\ UNCHANGED <<fdTable, sent, out, peer, up, clientList>>

----------------------------------------------------------------------------
(* managePeerChat: relayed to the descriptor in the packet, listed or not. *)

PeerChat(c) ==
    /\ Receives(c, "CHAT")
    /\ Incoming(c).whole
    /\ SendHeader(c, Incoming(c).fd, Incoming(c))
    /\ th' = [th EXCEPT ![c] = [th[c] EXCEPT !.pc = "chatPayload",
                                             !.got = @ + 1,
                                             !.pkt = Incoming(c)]]
    /\ UNCHANGED <<fdTable, sent, clientList>>

PeerChatPayload(c) ==
    /\ At(c, "chatPayload")
    /\ SendPayload(c, th[c].pkt.fd, th[c].pkt)
    /\ Return(c)
    /\ UNCHANGED <<fdTable, sent, clientList>>

\* chatWithUser writes to the descriptor of a user it has been told of.
SendChat(c) ==
    /\ CanWrite(c)
    /\ \E f \in KnownFds(c) :
         Write(c, [Blank EXCEPT !.type = "CHAT", !.fd = f, !.name = c])
    /\ UNCHANGED <<fdTable, th, out, up, clientList>>

----------------------------------------------------------------------------
(* The list of users alone: INTRO, CHAT and USER_LEFT. *)

\* The steps of the thread of c in the handlers of this module.
RegistryHandler(c) ==
    \/ NewClient(c) \/ IntroduceHeader(c) \/ IntroducePayload(c)
    \/ Register(c) \/ ListHeader(c) \/ ListPayload(c)
    \/ FollowsFreedPointer(c)
    \/ LeftClient(c) \/ LeftHeader(c) \/ LeftPayload(c) \/ LeftDone(c)
    \/ PeerChat(c) \/ PeerChatPayload(c)

\* What the operating system schedules: accept() and the thread of c.
ServerStep(c) ==
    \/ (Accept(c) \/ Close(c) \/ ReadsNull(c)) /\ UNCHANGED clientList
    \/ RegistryHandler(c)

\* What the user of c does.
UserStep(c) ==
    \/ (SendIntro(c) \/ Quit(c) \/ Crash(c)) /\ UNCHANGED clientList
    \/ SendChat(c)

\* The process has ended, or accept() and every recvAll() wait for users who
\* need not do anything.
Stops ==
    /\ ~up \/ \A c \in Conns :
                 \/ th[c].pc \in {"new", "closed"}
                 \/ /\ th[c].pc = "recv" /\ peer[c] = "open"
                    /\ th[c].got = Len(sent[c])
    /\ UNCHANGED registryVars

Init == NetInit /\ RegistryInit

Next == Stops \/ \E c \in Conns : ServerStep(c) \/ UserStep(c)

Spec == Init /\ [][Next]_registryVars

\* Runnable threads run, and the accept loop is one of them.  Nothing makes
\* a user act.
FairSpec == Spec /\ \A c \in Conns : WF_registryVars(ServerStep(c))

----------------------------------------------------------------------------
(* Properties *)

\* Types: every packet, list and local has the shape the structs of model.h
\* give it.
TypeOK == NetTypeOK /\ RegistryTypeOK

\* The INTRO of c has been handled up to its addition to the list and its
\* USER_LEFT has not come in; a client that crashed stays so for ever.
Registered(c) ==
    /\ th[c].got >= 1
    /\ sent[c][1].whole
    /\ th[c].pc \notin {"introduce", "introducePayload"}
    /\ sent[c][th[c].got].type # "USER_LEFT"

Payloads(c) ==
    {out[c][k].pkt : k \in {j \in DOMAIN out[c] : out[c][j].part = "payload"}}

\* c has been told that d is there, by name or in the list of users.
Told(c, d) ==
    \E p \in Payloads(c) :
      \/ p.type = "USER_JOINED_SERVER" /\ p.name = d
      \/ p.type = "CLIENT_LIST" /\ \E j \in DOMAIN p.list :
                                     p.list[j].FD = th[d].fd

\* x has been told that the user of c's descriptor has left.
HeardLeft(x, c) ==
    \E p \in Payloads(x) : p.type = "USER_LEFT" /\ p.fd = th[c].fd

\* How often x has been told by the thread of c that c has come.
Introductions(c, x) ==
    {k \in DOMAIN out[x] :
       /\ out[x][k].by = c /\ out[x][k].part = "payload"
       /\ out[x][k].pkt.type = "USER_JOINED_SERVER"}

\* The last packet the thread of c has received is its USER_LEFT.
SaidGoodbye(c) == th[c].got >= 1 /\ sent[c][th[c].got].type = "USER_LEFT"

\* Who has left, or has gone without a word.
Departed == {d \in Conns : th[d].pc = "closed" \/ SaidGoodbye(d)}

News == {"USER_JOINED_SERVER", "USER_LEFT"}

\* A descriptor is in use by the one thread that reads from it, from accept()
\* to close(): no thread ever works on a descriptor the kernel has given to
\* another connection.
OneThreadPerFd ==
    \A f \in Fds, c \in Conns :
      fdTable[f] = c <=> (th[c].fd = f /\ th[c].pc \notin {"new", "closed"})

\* The list holds each descriptor as often as there are clients registered
\* on it: no removal takes the entry of another user, and only a client that
\* crashed leaves one behind (removeClientFromClientList, manageLeftClient).
RegistryCounts ==
    \A f \in Fds :
      Cardinality(SlotsOf(clientList, f))
        = Cardinality({c \in Conns : Registered(c) /\ th[c].fd = f})

\* Every slot a thread is about to read lies in the array, also when size has
\* dropped since its loop condition was evaluated.
NoWildRead ==
    \A c \in Conns :
      /\ th[c].pc \in {"introduce", "introducePayload", "listPayload"}
           => th[c].n <= Len(clientList.clients)
      /\ th[c].pc = "introducePayload" => th[c].i \in 1 .. th[c].n
      /\ th[c].pc = "leftPayload" => th[c].i \in DOMAIN clientList.clients

\* Of two users who are registered and have their lists at least one has been
\* told of the other, however their INTROs and other users' departures
\* interleave (as long as no array moves).
NoMutualStrangers ==
    \A c, d \in Conns :
      (/\ c # d
       /\ \A e \in {c, d} : /\ Registered(e) /\ peer[e] = "open"
                            /\ th[e].pc \notin {"list", "listPayload"})
      => Told(c, d) \/ Told(d, c)

\* A user is told at most once that another has come, and once more at most for
\* every client that has gone.  Two reasons: a removal leaves the last entry in
\* its slot too, where the loop of introduceNewClient, which runs on the old
\* size, meets it again; and a client that crashed leaves its entry behind, for
\* the descriptor that the next one gets.
ToldOncePerDeparture ==
    \A c, x \in Conns :
      Cardinality(Introductions(c, x)) <= 1 + Cardinality(Departed)

\* The list of users sent to a client has the client itself in it: the client
\* looks there for its own descriptor (getMySocketFD).  True while no array
\* moves between the two sends of sendClientListToClient.
ListNamesItsReader ==
    \A c \in Conns : \A p \in Payloads(c) :
      p.type = "CLIENT_LIST" =>
        \E j \in DOMAIN p.list : p.list[j].FD = th[c].fd

\* Who is said to have left is off the list for good, and whatever the server
\* thread of the leaver wrote before comes before the news of its departure.
LeftIsTruthful ==
    \A x \in Conns : \A j \in DOMAIN out[x] :
      LET left == out[x][j]
      IN  left.pkt.type = "USER_LEFT" =>
            /\ ~Registered(left.by)
            /\ \A k \in j .. Len(out[x]) :
                 out[x][k].by = left.by => out[x][k].pkt = left.pkt

\* Whoever has been told of a user that has left has also been told that it
\* left, if no other user has left, no array moves and until its descriptor is
\* given to another: the loop of manageLeftClient runs on the list itself, so
\* it reaches those who register meanwhile.
LeaverAnnounced ==
    \A c, x \in Conns :
      (/\ c # x /\ peer[x] = "open" /\ Told(x, c)
       /\ SaidGoodbye(c) /\ th[c].pc \notin {"left", "leftPayload"}
       /\ \A d \in Conns \ {c} : ~SaidGoodbye(d) /\ th[d].fd # th[c].fd)
      => HeardLeft(x, c)

\* Descriptors are reused.  News of one user of a descriptor never comes after
\* news of its next user, in any client's stream: the thread closes the
\* descriptor only after its last write.
NewsInOrder ==
    \A x \in Conns : \A j, k \in DOMAIN out[x] :
      LET a == out[x][j]
          b == out[x][k]
      IN  (/\ j < k /\ a.by # b.by
           /\ a.pkt.type \in News /\ b.pkt.type \in News
           /\ a.pkt.fd = b.pkt.fd)
          => th[a.by].pc = "closed"

\* No user gets news of itself, which its client would list as another user.
NoSelfNews ==
    \A c \in Conns : \A j \in DOMAIN out[c] :
      out[c][j].pkt.type \in News => out[c][j].by # c

\* The server answers every whole INTRO with the list of users.
IntroAnswered ==
    \A c \in Conns :
      (sent[c] # <<>> /\ sent[c][1].whole) ~>
        (~up \/ peer[c] # "open" \/ \E p \in Payloads(c) : p.type = "CLIENT_LIST")

\* A client that goes, in whatever way, gives its descriptor back.
FdReleased ==
    \A c \in Conns :
      peer[c] \in {"shut", "reset"} ~> (~up \/ th[c].pc = "closed")

----------------------------------------------------------------------------
(* The inductive invariant of the proofs. *)

\* Threads and descriptors: OneThreadPerFd, and a live thread has a descriptor.
FdInv ==
    /\ OneThreadPerFd
    /\ \A c \in Conns : th[c].pc \notin {"new", "closed"} => th[c].fd \in Fds

\* Loops and arrays: NoWildRead, from what holds at the loop conditions.
SlotInv ==
    /\ clientList.size <= Len(clientList.clients)
    /\ \A c \in Conns :
         /\ HoldsCopy(c) => th[c].n <= Len(clientList.clients)
         /\ th[c].pc \in {"introduce", "left"} => th[c].i >= 1
         /\ th[c].pc = "introducePayload" => th[c].i \in 1 .. th[c].n
         /\ th[c].pc = "leftPayload" => th[c].i \in DOMAIN clientList.clients

\* News is about the descriptor of the thread that writes it.
NewsInv ==
    /\ \A c \in Conns :
         th[c].pc \in {"introduce", "introducePayload", "left", "leftPayload"}
           => th[c].pkt.fd = th[c].fd
    /\ \A c \in Conns :
         th[c].pc \in {"listPayload", "chatPayload"} => th[c].pkt.type \notin News
    /\ \A c \in Conns : th[c].got <= Len(sent[c])
    /\ \A x \in Conns : \A j \in DOMAIN out[x] :
         LET chunk == out[x][j]
         IN  chunk.pkt.type \in News =>
               /\ th[chunk.by].fd = chunk.pkt.fd
               /\ th[chunk.by].pc # "new"

\* The whole: what any step of any thread or user keeps.
IndInv == TypeOK /\ FdInv /\ SlotInv /\ NewsInv /\ NewsInOrder

----------------------------------------------------------------------------
(* What the documentation says and the code does not do. *)

\* README: the main loop "continuously accepts new socket connections".
StaysUp == up

\* README: the server "sends a client list update to the new user": the names
\* in it are names of users.
ListedNamesLive ==
    \A c \in Conns : \A p \in Payloads(c) :
      p.type = "CLIENT_LIST" => \A j \in DOMAIN p.list : p.list[j].name # Freed

\* README: "message boundaries are defined using a packet header": the chunk
\* after a header is its payload.
StreamsFramed ==
    \A c \in Conns : \A k \in DOMAIN out[c] :
      (out[c][k].part = "header" /\ k < Len(out[c])) =>
          out[c][k + 1].part = "payload" /\ out[c][k + 1].by = out[c][k].by
=============================================================================
