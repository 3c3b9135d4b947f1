----------------------------- MODULE Transport -----------------------------
(***************************************************************************)
(* What every handler of the server stands on: the accepted connections,   *)
(* the descriptor table, one detached thread per connection                *)
(* (serverNetwork.c) and the two byte streams of each connection.          *)
(*                                                                         *)
(* The streams are kept whole, as histories.  sent[c] is every packet that *)
(* client c has written (header and payload, one writer, so never torn     *)
(* except by a crash) and th[c].got says how many of them its thread has   *)
(* received.  out[c] is every chunk the server has written to c: a packet  *)
(* leaves the server in two send() calls, one chunk each, and any thread   *)
(* may write to any descriptor, so two packets can interleave in out[c].   *)
(*                                                                         *)
(* One step is one system call or one call of a list helper.  Nothing in   *)
(* the server takes a lock.                                                *)
(***************************************************************************)
EXTENDS Naturals, Sequences, FiniteSets, ClientLists

CONSTANTS
    Conns,       \* connections, one per run of the client program
    Fds,         \* descriptors accept() can return
    Rooms,       \* names of rooms
    MaxPackets,  \* bound: packets written, less INTRO and USER_LEFT
    MaxGone,     \* bound: how many clients end, by /quit or otherwise
    CanCrash,    \* whether client processes may die without /quit
    NoConn, NoFd, NoRoom

ASSUME TransportAssumption ==
    /\ Fds \subseteq Nat
    /\ NoFd \notin Fds
    /\ NoConn \notin Conns
    /\ NoRoom \notin Rooms
    /\ Freed \notin Conns \cup {NoConn}
    /\ MaxPackets \in Nat
    /\ MaxGone \in Nat
    /\ CanCrash \in BOOLEAN

VARIABLES
    fdTable,     \* descriptor -> connection it is open on, or NoConn
    th,          \* connection -> the locals of its server thread
    sent,        \* connection -> packets its client has written
    out,         \* connection -> chunks the server has written to it
    peer,        \* connection -> state of the client's end of the socket
    up           \* the server process is alive

netVars == <<fdTable, th, sent, out, peer, up>>

----------------------------------------------------------------------------
(* enum packetType, less the types no code sends. *)
Types == {"NONE", "INTRO", "USER_JOINED_SERVER", "CLIENT_LIST", "USER_LEFT",
          "CHAT", "CREATE_ROOM", "JOIN_ROOM", "GROUP_LIST", "GROUP_CHAT",
          "KICK_GROUP_MEMBER", "KICKED", "LEAVE_ROOM"}

\* A user's name is the connection it comes in on; its text never matters.
Names == Conns \cup {NoConn}

AnyFd == Fds \cup {NoFd}

Entries == Client(Names, AnyFd)

\* whole: the client lived to write the payload after the header.
Packet == [type : Types, fd : AnyFd, name : Names, room : Rooms \cup {NoRoom},
           list : Seq(Entries), whole : BOOLEAN]

Blank == [type |-> "NONE", fd |-> NoFd, name |-> NoConn, room |-> NoRoom,
          list |-> <<>>, whole |-> TRUE]

Chunk == [part : {"header", "payload"}, by : Conns, pkt : Packet]

Pcs == {"new", "recv", "closed",
        "introduce", "introducePayload", "list", "listPayload",
        "left", "leftPayload", "chatPayload",
        "details", "detailsPayload", "room", "roomPayload", "kickedPayload"}

\* The locals of receiveDataFromClient and of the handler it is in:
\* i and n are the loop index and bound, room the index of the room in
\* roomList, msg the packet a handler builds besides the one it relays, and
\* stale says that the array a by-value clientList points to has been moved.
Thread == [pc : Pcs, fd : AnyFd, got : Nat, pkt : Packet, msg : Packet,
           i : Nat, n : Nat, room : Nat, stale : BOOLEAN]

NewThread == [pc |-> "new", fd |-> NoFd, got |-> 0, pkt |-> Blank,
              msg |-> Blank, i |-> 0, n |-> 0, room |-> 0, stale |-> FALSE]

\* "reset": the client's kernel has answered a write with RST.
PeerStates == {"none", "open", "shut", "reset"}

NetTypeOK ==
    /\ fdTable \in [Fds -> Conns \cup {NoConn}]
    /\ th \in [Conns -> Thread]
    /\ sent \in [Conns -> Seq(Packet)]
    /\ out \in [Conns -> Seq(Chunk)]
    /\ peer \in [Conns -> PeerStates]
    /\ up \in BOOLEAN

NetInit ==
    /\ fdTable = [f \in Fds |-> NoConn]
    /\ th = [c \in Conns |-> NewThread]
    /\ sent = [c \in Conns |-> <<>>]
    /\ out = [c \in Conns |-> <<>>]
    /\ peer = [c \in Conns |-> "none"]
    /\ up = TRUE

----------------------------------------------------------------------------
(* The server's side of a socket. *)

\* send(): lost on a descriptor that is not open; answered by RST, sooner or
\* later, once the client's end is shut; and SIGPIPE, which nothing handles,
\* ends the process when the RST has arrived.
Send(c, f, part, p) ==
    LET d == IF f \in Fds THEN fdTable[f] ELSE NoConn
        s == IF d \in Conns THEN peer[d] ELSE "none"
    IN  /\ out' = IF s = "open"
                    THEN [out EXCEPT ![d] =
                            Append(@, [part |-> part, by |-> c, pkt |-> p])]
                    ELSE out
        /\ IF s = "shut" THEN \/ peer' = [peer EXCEPT ![d] = "reset"]
                              \/ peer' = peer
                         ELSE peer' = peer
        /\ up' = (s # "reset")

SendHeader(c, f, p) == Send(c, f, "header", p)

SendPayload(c, f, p) == Send(c, f, "payload", p)

\* The packet that recvAll() gives the thread next.
Incoming(c) == sent[c][th[c].got + 1]

\* The thread of c is in recvAll() and a packet of the given type is there.
Receives(c, type) ==
    /\ up
    /\ th[c].pc = "recv"
    /\ th[c].got < Len(sent[c])
    /\ Incoming(c).type = type

At(c, pc) == up /\ th[c].pc = pc

\* The locals of a thread back in recvAll(), k packets further on.
Idle(t, k) == [NewThread EXCEPT !.pc = "recv", !.fd = t.fd, !.got = t.got + k]

\* The handler of the packet being handled returns.
Return(c) == th' = [th EXCEPT ![c] = Idle(th[c], 0)]

\* The handler of the next packet has returned, in the same step.
ReceiveAndReturn(c) == th' = [th EXCEPT ![c] = Idle(th[c], 1)]

\* accept() takes the lowest free descriptor and a thread starts on it.
Accept(c) ==
    /\ up
    /\ th[c].pc = "new"
    /\ \E f \in Fds :
         /\ fdTable[f] = NoConn
         /\ \A g \in Fds : fdTable[g] = NoConn => f <= g
         /\ fdTable' = [fdTable EXCEPT ![f] = c]
         /\ th' = [th EXCEPT ![c] = [th[c] EXCEPT !.pc = "recv", !.fd = f]]
    /\ peer' = [peer EXCEPT ![c] = "open"]
    /\ UNCHANGED <<sent, out, up>>

\* Mutant of Close: recv() returning -1 does not end the loop, only 0 does.
CloseOnZeroOnly(c) ==
    /\ At(c, "recv")
    /\ th[c].got = Len(sent[c])
    /\ \/ /\ peer[c] = "shut"
          /\ fdTable' = [fdTable EXCEPT ![th[c].fd] = NoConn]
          /\ th' = [th EXCEPT ![c] = [Idle(th[c], 0) EXCEPT !.pc = "closed"]]
       \/ peer[c] = "reset" /\ UNCHANGED <<fdTable, th>>
    /\ UNCHANGED <<sent, out, peer, up>>

\* recvAll() falls short at the end of the stream: the loop breaks, the
\* descriptor is closed and the thread ends.  No list is touched.
Close(c) ==
    /\ At(c, "recv")
    /\ th[c].got = Len(sent[c])
    /\ peer[c] # "open"
    /\ fdTable' = [fdTable EXCEPT ![th[c].fd] = NoConn]
    /\ th' = [th EXCEPT ![c] = [Idle(th[c], 0) EXCEPT !.pc = "closed"]]
    /\ UNCHANGED <<sent, out, peer, up>>

\* The header of a packet arrived but its client died before the payload:
\* packetReaderInIt leaves buffer NULL and the handler reads from it.
\* getClientName, which does check, is in NewClient.
ReadsNull(c) ==
    /\ up
    /\ th[c].pc = "recv"
    /\ th[c].got < Len(sent[c])
    /\ ~Incoming(c).whole
    /\ Incoming(c).type # "INTRO"
    /\ up' = FALSE
    /\ UNCHANGED <<fdTable, th, sent, out, peer>>

----------------------------------------------------------------------------
(* The client's side of a socket, whatever the packet. *)

\* The bound on clients that end.
MayEnd == Cardinality({d \in Conns : peer[d] \in {"shut", "reset"}}) < MaxGone

\* The bound on packets besides the first and the last of a client.
Written ==
    UNION {{c} \X {k \in DOMAIN sent[c] :
                     sent[c][k].type \notin {"INTRO", "USER_LEFT"}} : c \in Conns}

\* An introduced client is connected and has not ended.
CanWrite(c) ==
    /\ up
    /\ peer[c] = "open"
    /\ sent[c] # <<>>
    /\ Cardinality(Written) < MaxPackets

\* The client writes packet p, or dies between its header and its payload.
Write(c, p) ==
    \/ /\ sent' = [sent EXCEPT ![c] = Append(@, p)]
       /\ peer' = peer
    \/ /\ CanCrash
       /\ MayEnd
       /\ sent' = [sent EXCEPT ![c] = Append(@, [p EXCEPT !.whole = FALSE])]
       /\ peer' = [peer EXCEPT ![c] = "shut"]

\* The first thing main() writes.
SendIntro(c) ==
    /\ up
    /\ peer[c] = "open"
    /\ sent[c] = <<>>
    /\ Write(c, [Blank EXCEPT !.type = "INTRO", !.name = c])
    /\ UNCHANGED <<fdTable, th, out, up>>

\* /quit: a header without payload, then shutdown().
Quit(c) ==
    /\ up
    /\ peer[c] = "open"
    /\ sent[c] # <<>>
    /\ MayEnd
    /\ sent' = [sent EXCEPT ![c] =
                  Append(@, [Blank EXCEPT !.type = "USER_LEFT"])]
    /\ peer' = [peer EXCEPT ![c] = "shut"]
    /\ UNCHANGED <<fdTable, th, out, up>>

\* The client process dies: a signal, exit() after a failed getline().
Crash(c) ==
    /\ CanCrash
    /\ up
    /\ peer[c] = "open"
    /\ MayEnd
    /\ peer' = [peer EXCEPT ![c] = "shut"]
    /\ UNCHANGED <<fdTable, th, sent, out, up>>

\* Entries of user lists that the client has been sent: the descriptors it
\* can name.  It may go on using one after the user has left.
KnownFds(c) ==
    LET payloads == {out[c][k].pkt : k \in {j \in DOMAIN out[c] :
                                              out[c][j].part = "payload"}}
    IN  {p.fd : p \in {q \in payloads : q.type = "USER_JOINED_SERVER"}}
        \cup UNION {{p.list[j].FD : j \in DOMAIN p.list} :
                      p \in {q \in payloads : q.type = "CLIENT_LIST"}}
=============================================================================
