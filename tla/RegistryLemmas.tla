--------------------------- MODULE RegistryLemmas ---------------------------
(***************************************************************************)
(* What the proofs of RegistryProofs rest on: the list helpers, send(),    *)
(* and for each part of IndInv what a step of one server thread must do to *)
(* keep it (FdStep, SlotStep, NewsStep, together StepInv).                 *)
(***************************************************************************)
EXTENDS Registry, SequenceTheorems, TLAPS

----------------------------------------------------------------------------
(* The list helpers. *)

\* addClientInClientList keeps the type and what the array holds, and its
\* array has the new size at least.
LEMMA AddProperties ==
    ASSUME NEW list \in ClientList(Names, AnyFd),
           NEW client \in Entries,
           list.size <= Len(list.clients)
    PROVE  LET new == addClientInClientList(list, client)
           IN  /\ new \in ClientList(Names, AnyFd)
               /\ new.size <= Len(new.clients)
               /\ Len(list.clients) <= Len(new.clients)
  <1>1. list.clients \in Seq(Entries) /\ list.size \in Nat
    BY DEF ClientList, Entries
  <1>2. CASE list.size = Len(list.clients)
    <2>1. /\ Append(list.clients, client) \in Seq(Entries)
          /\ Len(Append(list.clients, client)) = Len(list.clients) + 1
      BY <1>1, AppendProperties
    <2> QED
      BY <1>1, <1>2, <2>1 DEF addClientInClientList, ClientList, Entries
  <1>3. CASE list.size # Len(list.clients)
    <2>1. list.size + 1 \in 1 .. Len(list.clients)
      BY <1>1, <1>3
    <2> DEFINE new == [list.clients EXCEPT ![list.size + 1] = client]
    <2>2. new \in Seq(Entries) /\ Len(new) = Len(list.clients)
      BY <1>1, <2>1, ExceptSeq
    <2> QED
      BY <1>1, <1>3, <2>1, <2>2 DEF addClientInClientList, ClientList, Entries
  <1> QED
    BY <1>2, <1>3

\* removeClientFromClientList keeps the type and the length of the array.
LEMMA RemoveProperties ==
    ASSUME NEW list \in ClientList(Names, AnyFd), NEW fd,
           list.size <= Len(list.clients)
    PROVE  LET new == removeClientFromClientList(list, fd)
           IN  /\ new \in ClientList(Names, AnyFd)
               /\ new.size <= Len(new.clients)
               /\ Len(list.clients) = Len(new.clients)
  <1>1. list.clients \in Seq(Entries) /\ list.size \in Nat
    BY DEF ClientList, Entries
  <1>2. CASE SlotsOf(list, fd) = {}
    BY <1>2 DEF removeClientFromClientList
  <1>3. CASE SlotsOf(list, fd) # {}
    <2>1. list.size \in 1 .. Len(list.clients)
      BY <1>1, <1>3 DEF SlotsOf, Live
    <2> DEFINE last  == [list.clients[list.size] EXCEPT !.name = Freed]
               first == FirstSlot(list, fd)
               one   == [list.clients EXCEPT ![first] = last]
               new   == [one EXCEPT ![list.size] = last]
    <2>2. last \in Entries
      <3>1. list.clients[list.size] \in Entries
        BY <1>1, <2>1, ElementOfSeq
      <3> QED
        BY <3>1 DEF Entries, Client
    <2>3. one \in Seq(Entries) /\ Len(one) = Len(list.clients)
      <3>1. CASE first \in 1 .. Len(list.clients)
        BY <1>1, <2>2, <3>1, ExceptSeq
      <3>2. CASE first \notin 1 .. Len(list.clients)
        <4>1. one = list.clients
          BY <1>1, <3>2
        <4> QED
          BY <1>1, <4>1
      <3> QED
        BY <3>1, <3>2
    <2>4. new \in Seq(Entries) /\ Len(new) = Len(list.clients)
      BY <2>1, <2>2, <2>3, ExceptSeq
    <2>5. removeClientFromClientList(list, fd)
            = [clients |-> new, size |-> list.size - 1]
      BY <1>3 DEF removeClientFromClientList
    <2> HIDE DEF new
    <2> QED
      BY <1>1, <2>1, <2>4, <2>5 DEF ClientList, Entries
  <1> QED
    BY <1>2, <1>3

----------------------------------------------------------------------------
(* What the steps have in common. *)

\* The step leaves every thread but that of c where it is.
Frame(c) ==
    \A d \in Conns \ {c} :
      /\ th'[d].pc = th[d].pc /\ th'[d].fd = th[d].fd
      /\ th'[d].i = th[d].i /\ th'[d].n = th[d].n
      /\ th'[d].pkt = th[d].pkt /\ th'[d].got = th[d].got

\* The thread of c is neither before accept() nor after close().
Alive(c) == th[c].pc \notin {"new", "closed"}

\* The step appends to one stream at most, and a chunk of c's at that, which
\* is about the descriptor of c if it is news.
Appends(c) ==
    \/ out' = out
    \/ \E x \in Conns, chunk \in Chunk :
         /\ out' = [out EXCEPT ![x] = Append(@, chunk)]
         /\ chunk.by = c
         /\ chunk.pkt.type \in News => chunk.pkt.fd = th[c].fd

\* Blank, with whatever fields set, is a packet.
LEMMA BlankType == Blank \in Packet /\ NewThread \in Thread
  <1>1. <<>> \in Seq(Entries)
    OBVIOUS
  <1>2. Blank \in Packet
    BY <1>1 DEF Blank, Packet, Types, AnyFd, Names
  <1> QED
    BY <1>2 DEF NewThread, Thread, Pcs, AnyFd

\* send() keeps the types and appends at most its own chunk.
LEMMA SendProperties ==
    ASSUME NetTypeOK, NEW c \in Conns, NEW f \in AnyFd,
           NEW part \in {"header", "payload"}, NEW p \in Packet,
           Send(c, f, part, p),
           p.type \in News => p.fd = th[c].fd
    PROVE  /\ out' \in [Conns -> Seq(Chunk)]
           /\ peer' \in [Conns -> PeerStates]
           /\ up' \in BOOLEAN
           /\ Appends(c)
  <1> DEFINE d == IF f \in Fds THEN fdTable[f] ELSE NoConn
             s == IF d \in Conns THEN peer[d] ELSE "none"
             chunk == [part |-> part, by |-> c, pkt |-> p]
  <1>1. chunk \in Chunk
    BY DEF Chunk
  <1>2. /\ out \in [Conns -> Seq(Chunk)]
        /\ peer \in [Conns -> PeerStates]
    BY DEF NetTypeOK
  <1>3. up' \in BOOLEAN
    BY DEF Send
  <1>4. peer' \in [Conns -> PeerStates]
    <2>1. peer' = peer \/ peer' = [peer EXCEPT ![d] = "reset"]
      BY DEF Send
    <2> QED
      BY <1>2, <2>1 DEF PeerStates
  <1>5. CASE s = "open"
    <2>1. d \in Conns
      BY <1>5
    <2>2. out' = [out EXCEPT ![d] = Append(@, chunk)]
      BY <1>5 DEF Send
    <2>3. Append(out[d], chunk) \in Seq(Chunk)
      BY <1>1, <1>2, <2>1, AppendProperties
    <2> QED
      BY <1>1, <1>2, <1>3, <1>4, <2>1, <2>2, <2>3 DEF Appends
  <1>6. CASE s # "open"
    <2>1. out' = out
      BY <1>6 DEF Send
    <2> QED
      BY <1>2, <1>3, <1>4, <2>1 DEF Appends
  <1> QED
    BY <1>5, <1>6

\* A step of one live thread that opens and closes no descriptor.
LEMMA FdStep ==
    ASSUME TypeOK, FdInv, NEW c \in Conns, Alive(c), Frame(c),
           fdTable' = fdTable,
           th'[c].fd = th[c].fd, th'[c].pc \notin {"new", "closed"}
    PROVE  FdInv'
  <1>1. \A d \in Conns : /\ th'[d].fd = th[d].fd
                         /\ th'[d].pc \in {"new", "closed"}
                              <=> th[d].pc \in {"new", "closed"}
    BY DEF Frame, Alive
  <1>2. OneThreadPerFd'
    BY <1>1 DEF FdInv, OneThreadPerFd
  <1> QED
    BY <1>1, <1>2 DEF FdInv

\* A step of one thread under which the array of the list does not shrink.
LEMMA SlotStep ==
    ASSUME TypeOK, SlotInv, NEW c \in Conns, Frame(c), TypeOK',
           clientList'.size <= Len(clientList'.clients),
           Len(clientList.clients) <= Len(clientList'.clients),
           HoldsCopy(c)' => th'[c].n <= Len(clientList'.clients),
           th'[c].pc \in {"introduce", "left"} => th'[c].i >= 1,
           th'[c].pc = "introducePayload" => th'[c].i \in 1 .. th'[c].n,
           th'[c].pc = "leftPayload" => th'[c].i \in 1 .. Len(clientList'.clients)
    PROVE  SlotInv'
  <1>1. /\ clientList.clients \in Seq(Entries)
        /\ clientList'.clients \in Seq(Entries)
        /\ clientList.size \in Nat /\ clientList'.size \in Nat
    BY DEF TypeOK, RegistryTypeOK, ClientList, Entries
  <1>2. /\ Len(clientList.clients) \in Nat /\ Len(clientList'.clients) \in Nat
        /\ DOMAIN clientList.clients = 1 .. Len(clientList.clients)
        /\ DOMAIN clientList'.clients = 1 .. Len(clientList'.clients)
    BY <1>1, LenProperties
  <1>3. \A d \in Conns : th[d].i \in Nat /\ th[d].n \in Nat
    BY DEF TypeOK, NetTypeOK, Thread
  <1> SUFFICES ASSUME NEW d \in Conns
               PROVE  /\ HoldsCopy(d)' => th'[d].n <= Len(clientList'.clients)
                      /\ th'[d].pc \in {"introduce", "left"} => th'[d].i >= 1
                      /\ th'[d].pc = "introducePayload"
                           => th'[d].i \in 1 .. th'[d].n
                      /\ th'[d].pc = "leftPayload"
                           => th'[d].i \in DOMAIN clientList'.clients
    BY DEF SlotInv
  <1>4. CASE d = c
    BY <1>2, <1>4
  <1>5. CASE d # c
    <2>1. th'[d].pc = th[d].pc /\ th'[d].i = th[d].i /\ th'[d].n = th[d].n
      BY <1>5 DEF Frame
    <2>2. /\ HoldsCopy(d) => th[d].n <= Len(clientList.clients)
          /\ th[d].pc \in {"introduce", "left"} => th[d].i >= 1
          /\ th[d].pc = "introducePayload" => th[d].i \in 1 .. th[d].n
          /\ th[d].pc = "leftPayload" => th[d].i \in DOMAIN clientList.clients
      BY DEF SlotInv
    <2>3. HoldsCopy(d)' <=> HoldsCopy(d)
      BY <2>1 DEF HoldsCopy
    <2> QED
      BY <1>2, <1>3, <2>1, <2>2, <2>3
  <1> QED
    BY <1>4, <1>5

\* Every chunk of every stream has its writer.
LEMMA ChunkType ==
    ASSUME NetTypeOK, NEW x \in Conns, NEW j \in DOMAIN out[x]
    PROVE  out[x][j] \in Chunk /\ out[x][j].by \in Conns
  <1>1. out[x] \in Seq(Chunk)
    BY DEF NetTypeOK
  <1>2. DOMAIN out[x] = 1 .. Len(out[x])
    BY <1>1, LenProperties
  <1>3. out[x][j] \in Chunk
    BY <1>1, <1>2, ElementOfSeq
  <1> QED
    BY <1>3 DEF Chunk

\* A step of one live thread that appends at most news of its own: it comes
\* after all the news there is about its descriptor, and who has written that
\* has closed the descriptor, or it could not be open on c.
LEMMA NewsStep ==
    ASSUME TypeOK, FdInv, NewsInv, NewsInOrder, TypeOK',
           NEW c \in Conns, Alive(c), Frame(c), Appends(c), sent' = sent,
           th'[c].fd = th[c].fd, th'[c].pc \notin {"new", "closed"},
           th'[c].pc \in {"introduce", "introducePayload", "left", "leftPayload"}
             => th'[c].pkt.fd = th'[c].fd,
           th'[c].pc \in {"listPayload", "chatPayload"}
             => th'[c].pkt.type \notin News,
           th'[c].got <= Len(sent[c])
    PROVE  NewsInv' /\ NewsInOrder'
  <1>1. \A d \in Conns : /\ th'[d].fd = th[d].fd
                         /\ th'[d].pc = "new" <=> th[d].pc = "new"
                         /\ th'[d].pc = "closed" <=> th[d].pc = "closed"
    BY DEF Frame, Alive
  <1>2. out \in [Conns -> Seq(Chunk)]
    BY DEF TypeOK, NetTypeOK
  <1>3. \A x \in Conns : \A j \in DOMAIN out[x] :
          out[x][j] \in Chunk /\ out[x][j].by \in Conns
    BY ChunkType DEF TypeOK
  \* A chunk that was there, or one more, of c.
  <1> DEFINE OldOrNew(x, j) ==
               /\ j \in Nat
               /\ \/ j \in DOMAIN out[x] /\ out'[x][j] = out[x][j]
                  \/ /\ j = Len(out[x]) + 1
                     /\ out'[x][j].by = c
                     /\ out'[x][j].pkt.type \in News
                          => out'[x][j].pkt.fd = th[c].fd
  <1>4. \A x \in Conns :
          DOMAIN out[x] = 1 .. Len(out[x]) /\ \A j \in DOMAIN out'[x] : OldOrNew(x, j)
    <2> SUFFICES ASSUME NEW x \in Conns
                 PROVE  /\ DOMAIN out[x] = 1 .. Len(out[x])
                        /\ \A j \in DOMAIN out'[x] : OldOrNew(x, j)
      OBVIOUS
    <2>1. /\ out[x] \in Seq(Chunk) /\ Len(out[x]) \in Nat
          /\ DOMAIN out[x] = 1 .. Len(out[x])
      BY <1>2, LenProperties
    <2>2. CASE out'[x] = out[x]
      BY <2>1, <2>2
    <2>3. ASSUME NEW chunk \in Chunk, out'[x] = Append(out[x], chunk),
                 chunk.by = c, chunk.pkt.type \in News => chunk.pkt.fd = th[c].fd
          PROVE  \A j \in DOMAIN out'[x] : OldOrNew(x, j)
      <3>1. /\ out'[x] \in Seq(Chunk) /\ Len(out'[x]) = Len(out[x]) + 1
            /\ \A j \in 1 .. Len(out[x]) : out'[x][j] = out[x][j]
            /\ out'[x][Len(out[x]) + 1] = chunk
        BY <2>1, <2>3, AppendProperties
      <3>2. DOMAIN out'[x] = 1 .. Len(out[x]) + 1
        BY <3>1, LenProperties
      <3> QED
        BY <2>1, <2>3, <3>1, <3>2
    <2>4. out'[x] = out[x] \/ \E chunk \in Chunk :
            /\ out'[x] = Append(out[x], chunk)
            /\ chunk.by = c
            /\ chunk.pkt.type \in News => chunk.pkt.fd = th[c].fd
      BY <1>2 DEF Appends
    <2> HIDE DEF OldOrNew
    <2> QED
      BY <2>1, <2>2, <2>3, <2>4, Zenon
  <1>5. NewsInv'
    <2>1. \A x \in Conns : \A j \in DOMAIN out'[x] :
            out'[x][j].pkt.type \in News =>
              /\ th'[out'[x][j].by].fd = out'[x][j].pkt.fd
              /\ th'[out'[x][j].by].pc # "new"
      <3> SUFFICES ASSUME NEW x \in Conns, NEW j \in DOMAIN out'[x],
                          out'[x][j].pkt.type \in News
                   PROVE  /\ th'[out'[x][j].by].fd = out'[x][j].pkt.fd
                          /\ th'[out'[x][j].by].pc # "new"
        OBVIOUS
      <3>1. CASE j \in DOMAIN out[x] /\ out'[x][j] = out[x][j]
        BY <1>1, <1>3, <3>1 DEF NewsInv
      <3>2. CASE out'[x][j].by = c /\ out'[x][j].pkt.fd = th[c].fd
        BY <3>2
      <3> QED
        BY <1>4, <3>1, <3>2
    <2>2. \A d \in Conns :
            /\ th'[d].pc \in {"introduce", "introducePayload", "left", "leftPayload"}
                 => th'[d].pkt.fd = th'[d].fd
            /\ th'[d].pc \in {"listPayload", "chatPayload"}
                 => th'[d].pkt.type \notin News
            /\ th'[d].got <= Len(sent'[d])
      BY DEF NewsInv, Frame
    <2> QED
      BY <2>1, <2>2 DEF NewsInv
  <1>6. NewsInOrder'
    <2> SUFFICES ASSUME NEW x \in Conns,
                        NEW j \in DOMAIN out'[x], NEW k \in DOMAIN out'[x],
                        j < k, out'[x][j].by # out'[x][k].by,
                        out'[x][j].pkt.type \in News,
                        out'[x][k].pkt.type \in News,
                        out'[x][j].pkt.fd = out'[x][k].pkt.fd
                 PROVE  th'[out'[x][j].by].pc = "closed"
      BY DEF NewsInOrder
    <2>1. Len(out[x]) \in Nat
      BY <1>2, LenProperties
    <2>2. CASE k \in DOMAIN out[x] /\ out'[x][k] = out[x][k]
      <3>1. j \in DOMAIN out[x] /\ out'[x][j] = out[x][j]
        BY <1>4, <2>1, <2>2
      <3> QED
        BY <1>1, <1>3, <2>2, <3>1 DEF NewsInOrder
    <2>3. CASE k = Len(out[x]) + 1 /\ out'[x][k].by = c
               /\ out'[x][k].pkt.fd = th[c].fd
      <3>1. j \in DOMAIN out[x] /\ out'[x][j] = out[x][j]
        BY <1>4, <2>1, <2>3
      <3> DEFINE a == out[x][j].by
      <3>2. a \in Conns /\ a # c /\ th[a].fd = th[c].fd /\ th[a].pc # "new"
        BY <1>3, <2>3, <3>1 DEF NewsInv
      <3>3. th[c].fd \in Fds /\ fdTable[th[c].fd] = c
        BY DEF FdInv, OneThreadPerFd, Alive
      <3>4. th[a].pc = "closed"
        BY <3>2, <3>3 DEF FdInv, OneThreadPerFd
      <3> QED
        BY <1>1, <3>1, <3>2, <3>4
    <2> QED
      BY <1>4, <2>2, <2>3
  <1> QED
    BY <1>5, <1>6

\* What the thread of c may leave in its locals.
LocalsOK(c, t) ==
    /\ t \in Thread
    /\ t.fd = th[c].fd
    /\ t.pc \notin {"new", "closed"}
    /\ t.got <= Len(sent[c])
    /\ t.pc \in {"introduce", "introducePayload", "listPayload"}
         => t.n <= Len(clientList.clients)
    /\ t.pc \in {"introduce", "left"} => t.i >= 1
    /\ t.pc = "introducePayload" => t.i \in 1 .. t.n
    /\ t.pc = "leftPayload" => t.i \in 1 .. Len(clientList.clients)
    /\ t.pc \in {"introduce", "introducePayload", "left", "leftPayload"}
         => t.pkt.fd = t.fd
    /\ t.pc \in {"listPayload", "chatPayload"} => t.pkt.type \notin News

\* What the thread of c may do to the list.
ListOK ==
    /\ clientList' \in ClientList(Names, AnyFd)
    /\ clientList'.size <= Len(clientList'.clients)
    /\ Len(clientList.clients) <= Len(clientList'.clients)

\* What the thread of c may do to the sockets.
SocketsOK(c) ==
    /\ fdTable' = fdTable
    /\ sent' = sent
    /\ out' \in [Conns -> Seq(Chunk)]
    /\ peer' \in [Conns -> PeerStates]
    /\ up' \in BOOLEAN
    /\ Appends(c)

\* The three together: a handler's step of the thread of c keeps IndInv.
LEMMA StepInv ==
    ASSUME IndInv, NEW c \in Conns, Alive(c), Frame(c),
           th' \in [Conns -> Thread], LocalsOK(c, th'[c]),
           ListOK, SocketsOK(c)
    PROVE  IndInv'
  <1>1. TypeOK'
    BY DEF IndInv, TypeOK, NetTypeOK, RegistryTypeOK, ListOK, SocketsOK
  <1>2. FdInv'
    BY FdStep DEF IndInv, LocalsOK, SocketsOK
  <1>3. SlotInv'
    <2>1. Len(clientList.clients) \in Nat /\ Len(clientList'.clients) \in Nat
      BY <1>1 DEF IndInv, TypeOK, RegistryTypeOK, ClientList
    <2>2. th'[c].n \in Nat /\ th'[c].i \in Nat
      BY DEF Thread
    <2>3. /\ HoldsCopy(c)' => th'[c].n <= Len(clientList'.clients)
          /\ th'[c].pc \in {"introduce", "left"} => th'[c].i >= 1
          /\ th'[c].pc = "introducePayload" => th'[c].i \in 1 .. th'[c].n
          /\ th'[c].pc = "leftPayload"
               => th'[c].i \in 1 .. Len(clientList'.clients)
      BY <2>1, <2>2 DEF HoldsCopy, LocalsOK, ListOK
    <2> QED
      BY <1>1, <2>3, SlotStep DEF IndInv, ListOK
  <1>4. NewsInv' /\ NewsInOrder'
    BY <1>1, NewsStep DEF IndInv, LocalsOK, SocketsOK
  <1> QED
    BY <1>1, <1>2, <1>3, <1>4 DEF IndInv

\* Most steps only replace the locals of the one thread.
LEMMA OneThread ==
    ASSUME th \in [Conns -> Thread], NEW c \in Conns, NEW t \in Thread,
           th' = [th EXCEPT ![c] = t]
    PROVE  /\ th' \in [Conns -> Thread]
           /\ th'[c] = t
           /\ Frame(c)
  BY DEF Frame

\* The packet a thread receives is one its client wrote.
LEMMA IncomingType ==
    ASSUME NetTypeOK, NEW c \in Conns,
           th[c].pc = "recv", th[c].got < Len(sent[c])
    PROVE  /\ Incoming(c) \in Packet
           /\ Alive(c)
           /\ th[c].got + 1 <= Len(sent[c])
  <1>1. sent[c] \in Seq(Packet) /\ th[c].got \in Nat
    BY DEF NetTypeOK, Thread
  <1>2. th[c].got + 1 \in 1 .. Len(sent[c])
    BY <1>1
  <1>3. sent[c][th[c].got + 1] \in Packet
    BY <1>1, <1>2, ElementOfSeq
  <1> QED
    BY <1>2, <1>3 DEF Incoming, Alive

\* A thread is back in recvAll() with blank locals and its own descriptor.
LEMMA IdleType ==
    ASSUME NEW t \in Thread, NEW k \in Nat
    PROVE  /\ Idle(t, k) \in Thread
           /\ Idle(t, k).pc = "recv"
           /\ Idle(t, k).fd = t.fd
           /\ Idle(t, k).got = t.got + k
  <1> DEFINE idle == [NewThread EXCEPT !.pc = "recv", !.fd = t.fd,
                                       !.got = t.got + k]
  <1>1. NewThread \in Thread
    BY BlankType
  <1>2. t.fd \in AnyFd /\ t.got + k \in Nat /\ "recv" \in Pcs
    BY DEF Thread, Pcs
  <1>3. idle \in Thread
    BY <1>1, <1>2 DEF Thread
  <1>4. idle.pc = "recv" /\ idle.fd = t.fd /\ idle.got = t.got + k
    BY <1>1 DEF Thread
  <1>5. Idle(t, k) = idle
    BY DEF Idle
  <1> HIDE DEF idle
  <1> QED
    BY <1>3, <1>4, <1>5

\* A live slot of the list holds a descriptor, and so does one of the array.
LEMMA SlotType ==
    ASSUME TypeOK, NEW i \in 1 .. Len(clientList.clients)
    PROVE  clientList.clients[i].FD \in AnyFd
  <1>1. clientList.clients \in Seq(Entries)
    BY DEF TypeOK, RegistryTypeOK, ClientList, Entries
  <1>2. clientList.clients[i] \in Entries
    BY <1>1, ElementOfSeq
  <1> QED
    BY <1>2 DEF Entries, Client

\* What the lemmas below need of IndInv.
LEMMA KnownTypes ==
    ASSUME IndInv, NEW c \in Conns
    PROVE  /\ TypeOK /\ NetTypeOK /\ SlotInv /\ NewsInv
           /\ th \in [Conns -> Thread] /\ th[c] \in Thread
           /\ clientList \in ClientList(Names, AnyFd)
           /\ clientList.clients \in Seq(Entries)
           /\ Len(clientList.clients) \in Nat
           /\ clientList.size \in Nat
           /\ clientList.size <= Len(clientList.clients)
  <1>1. TypeOK /\ NetTypeOK /\ RegistryTypeOK /\ SlotInv /\ NewsInv
    BY DEF IndInv, TypeOK
  <1>2. clientList \in ClientList(Names, AnyFd)
    BY <1>1 DEF RegistryTypeOK
  <1>3. clientList.clients \in Seq(Entries) /\ clientList.size \in Nat
    BY <1>2 DEF ClientList, Entries
  <1> QED
    BY <1>1, <1>2, <1>3, LenProperties DEF NetTypeOK, SlotInv

\* A thread may always go back to recvAll(), with packets left or not.
LEMMA IdleOK ==
    ASSUME IndInv, NEW c \in Conns
    PROVE  /\ LocalsOK(c, Idle(th[c], 0))
           /\ th[c].got + 1 <= Len(sent[c]) => LocalsOK(c, Idle(th[c], 1))
  <1>1. th[c] \in Thread /\ th[c].got \in Nat /\ th[c].got <= Len(sent[c])
    BY KnownTypes DEF Thread, NewsInv
  <1>2. ASSUME NEW k \in Nat, th[c].got + k <= Len(sent[c])
        PROVE  LocalsOK(c, Idle(th[c], k))
    <2>1. /\ Idle(th[c], k) \in Thread /\ Idle(th[c], k).pc = "recv"
          /\ Idle(th[c], k).fd = th[c].fd
          /\ Idle(th[c], k).got = th[c].got + k
      BY <1>1, IdleType
    <2> QED
      BY <1>2, <2>1 DEF LocalsOK
  <1>3. th[c].got + 0 <= Len(sent[c])
    BY <1>1
  <1> QED
    BY <1>2, <1>3

\* A step that changes nothing but the locals of one thread.
LEMMA QuietStep ==
    ASSUME IndInv, NEW c \in Conns, Alive(c), NEW t, LocalsOK(c, t),
           th' = [th EXCEPT ![c] = t],
           UNCHANGED <<fdTable, sent, out, peer, clientList>>,
           up' \in BOOLEAN
    PROVE  IndInv'
  <1>1. th' \in [Conns -> Thread] /\ th'[c] = t /\ Frame(c)
    BY KnownTypes, OneThread DEF LocalsOK
  <1>2. ListOK
    BY KnownTypes DEF ListOK
  <1>3. SocketsOK(c)
    BY KnownTypes DEF SocketsOK, NetTypeOK, Appends
  <1> QED
    BY <1>1, <1>2, <1>3, StepInv

\* A step that sends one chunk: about the sender's descriptor if it is news.
LEMMA SendStep ==
    ASSUME IndInv, NEW c \in Conns, Alive(c), NEW t, LocalsOK(c, t),
           th' = [th EXCEPT ![c] = t],
           NEW f \in AnyFd, NEW part \in {"header", "payload"},
           NEW p \in Packet, Send(c, f, part, p),
           p.type \in News => p.fd = th[c].fd,
           UNCHANGED <<fdTable, sent, clientList>>
    PROVE  IndInv'
  <1>1. th' \in [Conns -> Thread] /\ th'[c] = t /\ Frame(c)
    BY KnownTypes, OneThread DEF LocalsOK
  <1>2. ListOK
    BY KnownTypes DEF ListOK
  <1>3. SocketsOK(c)
    BY KnownTypes, SendProperties DEF SocketsOK
  <1> QED
    BY <1>1, <1>2, <1>3, StepInv

=============================================================================
