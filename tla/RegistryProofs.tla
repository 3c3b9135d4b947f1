--------------------------- MODULE RegistryProofs ---------------------------
(***************************************************************************)
(* Proofs about Registry: that IndInv is an invariant of Spec for any      *)
(* number of connections and descriptors, with crashes and moving arrays,  *)
(* and what follows from it; then that every handler runs on the packet it *)
(* is for (HandlerInv).  The handlers are taken one by one; what they have *)
(* in common is in RegistryLemmas.                                         *)
(***************************************************************************)
EXTENDS RegistryDirectory, RegistryLemmas

----------------------------------------------------------------------------
(* The packets the server makes up. *)

\* The packet of introduceNewClient, about the descriptor of its thread.
LEMMA JoinedType ==
    ASSUME NetTypeOK, NEW c \in Conns, Incoming(c) \in Packet
    PROVE  Joined(c) \in Packet /\ Joined(c).fd = th[c].fd
  <1>1. th[c].fd \in AnyFd /\ Incoming(c).name \in Names
    BY DEF NetTypeOK, Thread, Packet
  <1> QED
    BY <1>1, BlankType DEF Joined, Packet, Types

\* The packet of sendClientListToClient holds entries of the array.
LEMMA ListType ==
    ASSUME TypeOK, NEW n \in Nat, n <= Len(clientList.clients),
           NEW p \in Packet
    PROVE  LET entries == SubSeq(clientList.clients, 1, n)
           IN  /\ entries \in Seq(Entries)
               /\ [p EXCEPT !.list = entries] \in Packet
               /\ [p EXCEPT !.list = entries].type = p.type
  <1>1. clientList.clients \in Seq(Entries)
    BY DEF TypeOK, RegistryTypeOK, ClientList, Entries
  <1>2. \A i \in 1 .. n : clientList.clients[i] \in Entries
    BY <1>1, LenProperties, ElementOfSeq
  <1>3. SubSeq(clientList.clients, 1, n) \in Seq(Entries)
    BY <1>2, SubSeqProperties
  <1> HIDE DEF Entries
  <1> QED
    BY <1>3 DEF Packet

\* What a thread takes for slot i of its copy is a descriptor.
LEMMA CopyType ==
    ASSUME TypeOK, NEW c \in Conns, NEW i \in 1 .. Len(clientList.clients)
    PROVE  Slot(c, i) \subseteq AnyFd
  BY SlotType DEF Slot

----------------------------------------------------------------------------
(* manageNewClient *)

\* The name is read and the list copied.
LEMMA NewClientInv ==
    ASSUME IndInv, NEW c \in Conns, NewClient(c)
    PROVE  IndInv'
  <1>1. Incoming(c) \in Packet /\ Alive(c) /\ th[c].got + 1 <= Len(sent[c])
    BY KnownTypes, IncomingType DEF NewClient, Receives
  <1>2. UNCHANGED <<fdTable, sent, out, peer, clientList>> /\ up' \in BOOLEAN
    BY KnownTypes DEF NewClient, NetTypeOK
  <1>3. CASE Incoming(c).whole
    <2> DEFINE t == [th[c] EXCEPT !.pc = "introduce", !.got = @ + 1,
                                  !.pkt = Joined(c), !.i = 1,
                                  !.n = clientList.size]
    <2>1. th' = [th EXCEPT ![c] = t]
      BY <1>3 DEF NewClient
    <2>2. Joined(c) \in Packet /\ Joined(c).fd = th[c].fd
      BY <1>1, KnownTypes, JoinedType
    <2>3. /\ t \in Thread /\ t.pc = "introduce" /\ t.fd = th[c].fd
          /\ t.pkt = Joined(c) /\ t.i = 1 /\ t.n = clientList.size
          /\ t.got = th[c].got + 1
      <3>1. /\ th[c] \in Thread /\ "introduce" \in Pcs
            /\ th[c].got + 1 \in Nat /\ clientList.size \in Nat
        BY KnownTypes DEF Thread, Pcs
      <3>2. t \in Thread
        BY <2>2, <3>1 DEF Thread
      <3>3. /\ t.pc = "introduce" /\ t.fd = th[c].fd
            /\ t.pkt = Joined(c) /\ t.i = 1 /\ t.n = clientList.size
            /\ t.got = th[c].got + 1
        BY <3>1 DEF Thread
      <3> QED
        BY <3>2, <3>3
    <2> HIDE DEF t
    <2>4. LocalsOK(c, t)
      BY <1>1, <2>2, <2>3, KnownTypes DEF LocalsOK
    <2> QED
      BY <1>1, <1>2, <2>1, <2>4, QuietStep
  <1>4. CASE ~Incoming(c).whole
    <2>1. th' = [th EXCEPT ![c] = Idle(th[c], 1)]
      BY <1>4 DEF NewClient, ReceiveAndReturn
    <2>2. LocalsOK(c, Idle(th[c], 1))
      BY <1>1, IdleOK
    <2> QED
      BY <1>1, <1>2, <2>1, <2>2, QuietStep
  <1> QED
    BY <1>3, <1>4

\* The header of the news goes to the descriptor in a slot of the copy.
LEMMA IntroduceHeaderInv ==
    ASSUME IndInv, NEW c \in Conns, IntroduceHeader(c)
    PROVE  IndInv'
  <1> DEFINE t == [th[c] EXCEPT !.pc = "introducePayload"]
  <1>1. th[c].pc = "introduce" /\ th[c].i <= th[c].n
    BY DEF IntroduceHeader, At
  <1>2. /\ th[c].i \in 1 .. th[c].n
        /\ th[c].i \in 1 .. Len(clientList.clients)
        /\ th[c].pkt.fd = th[c].fd /\ th[c].got <= Len(sent[c])
        /\ th[c].n <= Len(clientList.clients)
    BY <1>1, KnownTypes DEF SlotInv, NewsInv, HoldsCopy, Thread
  <1>3. LocalsOK(c, t)
    BY <1>1, <1>2, KnownTypes DEF LocalsOK, Thread, Pcs
  <1>4. PICK f \in Slot(c, th[c].i) : SendHeader(c, f, th[c].pkt)
    BY DEF IntroduceHeader
  <1>5. f \in AnyFd /\ th[c].pkt \in Packet
    BY <1>2, KnownTypes, CopyType DEF Thread
  <1>6. /\ th' = [th EXCEPT ![c] = t]
        /\ UNCHANGED <<fdTable, sent, clientList>>
    BY DEF IntroduceHeader
  <1>7. Send(c, f, "header", th[c].pkt) /\ Alive(c)
    BY <1>1, <1>4 DEF SendHeader, Alive
  <1> HIDE DEF t
  <1> QED
    BY <1>2, <1>3, <1>5, <1>6, <1>7, SendStep

\* Its payload goes to the descriptor the slot holds by then.
LEMMA IntroducePayloadInv ==
    ASSUME IndInv, NEW c \in Conns, IntroducePayload(c)
    PROVE  IndInv'
  <1> DEFINE i == th[c].i + 1
             t == [th[c] EXCEPT !.pc = "introduce", !.i = i]
  <1>1. th[c].pc = "introducePayload"
    BY DEF IntroducePayload, At
  <1>2. /\ th[c].i \in 1 .. th[c].n
        /\ th[c].i \in 1 .. Len(clientList.clients)
        /\ th[c].pkt.fd = th[c].fd /\ th[c].got <= Len(sent[c])
        /\ th[c].n <= Len(clientList.clients)
    BY <1>1, KnownTypes DEF SlotInv, NewsInv, HoldsCopy, Thread
  <1>3. LocalsOK(c, t)
    <2>1. i \in Nat /\ i >= 1
      BY <1>2, KnownTypes DEF Thread
    <2>2. /\ t \in Thread /\ t.pc = "introduce" /\ t.fd = th[c].fd
          /\ t.pkt = th[c].pkt /\ t.i = i /\ t.n = th[c].n
          /\ t.got = th[c].got
      BY <2>1, KnownTypes DEF Thread, Pcs
    <2> HIDE DEF t, i
    <2> QED
      BY <1>2, <2>1, <2>2 DEF LocalsOK
  <1>4. PICK f \in Slot(c, th[c].i) : SendPayload(c, f, th[c].pkt)
    BY DEF IntroducePayload
  <1>5. f \in AnyFd /\ th[c].pkt \in Packet
    BY <1>2, KnownTypes, CopyType DEF Thread
  <1>6. /\ th' = [th EXCEPT ![c] = t]
        /\ UNCHANGED <<fdTable, sent, clientList>>
    BY DEF IntroducePayload
  <1>7. Send(c, f, "payload", th[c].pkt) /\ Alive(c)
    BY <1>1, <1>4 DEF SendPayload, Alive
  <1> HIDE DEF t
  <1> QED
    BY <1>2, <1>3, <1>5, <1>6, <1>7, SendStep

\* The addition: the array gets no shorter, so other threads' slots stay in
\* it, and they only learn that it has moved.
LEMMA RegisterInv ==
    ASSUME IndInv, NEW c \in Conns, Register(c)
    PROVE  IndInv'
  <1> DEFINE client == [name |-> th[c].pkt.name, FD |-> th[c].fd]
  <1>1. th[c].pc = "introduce"
    BY DEF Register, At
  <1>2. client \in Entries
    <2>1. th[c].fd \in AnyFd /\ th[c].pkt \in Packet
      BY KnownTypes DEF Thread
    <2>2. th[c].pkt.name \in Names
      BY <2>1 DEF Packet
    <2> QED
      BY <2>1, <2>2 DEF Entries, Client
  <1>3. clientList' = addClientInClientList(clientList, client)
    BY DEF Register
  <1>4. ListOK
    <2> HIDE DEF client
    <2> QED
      BY <1>2, <1>3, KnownTypes, AddProperties DEF ListOK
  <1>5. PICK moves \in {FALSE, ReallocMoves /\ Grows(clientList)} :
          th' = [d \in Conns |->
                  IF d = c
                    THEN [th[c] EXCEPT !.pc = "list", !.stale = FALSE]
                    ELSE [th[d] EXCEPT !.stale =
                            th[d].stale \/ (moves /\ HoldsCopy(d))]]
    BY DEF Register
  <1>6. ASSUME NEW d \in Conns, d # c
        PROVE  /\ th'[d] \in Thread
               /\ th'[d].pc = th[d].pc /\ th'[d].fd = th[d].fd
               /\ th'[d].i = th[d].i /\ th'[d].n = th[d].n
               /\ th'[d].pkt = th[d].pkt /\ th'[d].got = th[d].got
    <2>1. PICK stale : th'[d] = [th[d] EXCEPT !.stale = stale]
                       /\ stale \in BOOLEAN
      <3> DEFINE stale == th[d].stale \/ (moves /\ HoldsCopy(d))
      <3>1. th'[d] = [th[d] EXCEPT !.stale = stale]
        BY <1>5, <1>6
      <3>2. stale \in BOOLEAN
        OBVIOUS
      <3> HIDE DEF stale
      <3> QED
        BY <3>1, <3>2
    <2>2. th[d] \in Thread
      BY KnownTypes
    <2> QED
      BY <2>1, <2>2 DEF Thread
  <1>7. /\ th'[c] = [th[c] EXCEPT !.pc = "list", !.stale = FALSE]
        /\ th' = [d \in Conns |-> th'[d]]
    BY <1>5
  <1>8. LocalsOK(c, th'[c])
    <2>1. th[c] \in Thread /\ th[c].got <= Len(sent[c])
      BY KnownTypes DEF NewsInv
    <2> QED
      BY <1>7, <2>1 DEF LocalsOK, Thread, Pcs
  <1>9. th' \in [Conns -> Thread] /\ Frame(c)
    BY <1>6, <1>7, <1>8 DEF LocalsOK, Frame
  <1>10. SocketsOK(c)
    <2>1. UNCHANGED <<fdTable, sent, out, peer, up>>
      BY DEF Register
    <2> QED
      BY <2>1, KnownTypes DEF SocketsOK, NetTypeOK, Appends
  <1> QED
    BY <1>1, <1>4, <1>8, <1>9, <1>10, StepInv DEF Alive

\* The header of the list of users.
LEMMA ListHeaderInv ==
    ASSUME IndInv, NEW c \in Conns, ListHeader(c)
    PROVE  IndInv'
  <1> DEFINE p == [Blank EXCEPT !.type = "CLIENT_LIST",
                     !.list = SubSeq(clientList.clients, 1, clientList.size)]
             q == [Blank EXCEPT !.type = "CLIENT_LIST"]
             t == [th[c] EXCEPT !.pc = "listPayload", !.pkt = p,
                                !.n = clientList.size]
  <1>1. /\ th[c].pc = "list"
        /\ SendHeader(c, th[c].fd, p)
        /\ th' = [th EXCEPT ![c] = t]
        /\ UNCHANGED <<fdTable, sent, clientList>>
    BY DEF ListHeader, At
  <1>2. p \in Packet /\ p.type = "CLIENT_LIST"
    <2>1. q \in Packet /\ q.type = "CLIENT_LIST"
      BY BlankType DEF Packet, Types
    <2>2. p = [q EXCEPT !.list = SubSeq(clientList.clients, 1, clientList.size)]
      BY DEF Blank
    <2> HIDE DEF p, q
    <2>3. p \in Packet /\ p.type = q.type
      BY <2>1, <2>2, KnownTypes, ListType
    <2> QED
      BY <2>1, <2>3
  <1> HIDE DEF p
  <1>3. LocalsOK(c, t)
    <2>1. th[c] \in Thread /\ "listPayload" \in Pcs /\ th[c].got <= Len(sent[c])
      BY KnownTypes DEF NewsInv, Pcs
    <2>2. /\ t \in Thread /\ t.pc = "listPayload" /\ t.fd = th[c].fd
          /\ t.pkt = p /\ t.n = clientList.size /\ t.got = th[c].got
      BY <1>2, <2>1, KnownTypes DEF Thread
    <2> HIDE DEF t
    <2> QED
      BY <1>2, <2>1, <2>2, KnownTypes DEF LocalsOK, News
  <1>4. th[c].fd \in AnyFd /\ p.type \notin News /\ Alive(c)
    BY <1>1, <1>2, KnownTypes DEF Thread, News, Alive
  <1> HIDE DEF t
  <1> QED
    BY <1>1, <1>2, <1>3, <1>4, SendStep DEF SendHeader

\* Its payload, from the slots of the array or from freed memory.
LEMMA ListPayloadInv ==
    ASSUME IndInv, NEW c \in Conns, ListPayload(c)
    PROVE  IndInv'
  <1>1. PICK entries \in IF th[c].stale
                           THEN [1 .. th[c].n -> Client({}, AnyFd)]
                           ELSE {SubSeq(clientList.clients, 1, th[c].n)} :
          SendPayload(c, th[c].fd, [th[c].pkt EXCEPT !.list = entries])
    BY DEF ListPayload
  <1> DEFINE p == [th[c].pkt EXCEPT !.list = entries]
             t == Idle(th[c], 0)
  <1>2. /\ th[c].pc = "listPayload"
        /\ th' = [th EXCEPT ![c] = t]
        /\ UNCHANGED <<fdTable, sent, clientList>>
    BY DEF ListPayload, At, Return
  <1>3. /\ th[c] \in Thread /\ th[c].n \in Nat /\ th[c].pkt \in Packet
        /\ th[c].n <= Len(clientList.clients) /\ th[c].fd \in AnyFd
        /\ th[c].pkt.type \notin News /\ th[c].got <= Len(sent[c])
        /\ th[c].got \in Nat
    BY <1>2, KnownTypes DEF Thread, SlotInv, NewsInv, HoldsCopy
  <1>4. entries \in Seq(Entries)
    <2>1. CASE th[c].stale
      <3>1. Client({}, AnyFd) \subseteq Entries
        BY DEF Client, Entries
      <3>2. entries \in [1 .. th[c].n -> Entries]
        BY <2>1, <3>1
      <3> QED
        BY <1>3, <3>2
    <2>2. CASE ~th[c].stale
      <3>1. entries = SubSeq(clientList.clients, 1, th[c].n)
        BY <2>2
      <3> QED
        BY <1>3, <3>1, KnownTypes, ListType
    <2> QED
      BY <2>1, <2>2
  <1>5. p \in Packet /\ p.type = th[c].pkt.type
    <2> HIDE DEF Entries
    <2> QED
      BY <1>3, <1>4 DEF Packet
  <1>6. LocalsOK(c, t)
    BY IdleOK
  <1>7. Send(c, th[c].fd, "payload", p) /\ Alive(c)
    BY <1>1, <1>2 DEF SendPayload, Alive
  <1> HIDE DEF p, t
  <1> QED
    BY <1>2, <1>3, <1>5, <1>6, <1>7, SendStep

\* The crash of the process on a pointer out of freed memory.
LEMMA FollowsFreedPointerInv ==
    ASSUME IndInv, NEW c \in Conns, FollowsFreedPointer(c)
    PROVE  IndInv'
  <1>1. /\ th[c].pc = "listPayload"
        /\ UNCHANGED <<fdTable, sent, out, peer, clientList>>
        /\ up' \in BOOLEAN /\ th' = th
    BY DEF FollowsFreedPointer, At
  <1>2. th' = [th EXCEPT ![c] = th[c]]
    BY <1>1, KnownTypes
  <1>3. LocalsOK(c, th[c])
    BY <1>1, KnownTypes DEF LocalsOK, SlotInv, NewsInv, HoldsCopy
  <1> QED
    BY <1>1, <1>2, <1>3, QuietStep DEF Alive

----------------------------------------------------------------------------
(* manageLeftClient *)

\* The removal: the array keeps its length, so no thread's slot leaves it.
LEMMA LeftClientInv ==
    ASSUME IndInv, NEW c \in Conns, LeftClient(c)
    PROVE  IndInv'
  <1> DEFINE t == [th[c] EXCEPT !.pc = "left", !.got = @ + 1, !.i = 1,
                                !.pkt = Left(c)]
  <1>1. Alive(c) /\ th[c].got + 1 <= Len(sent[c])
    BY KnownTypes, IncomingType DEF LeftClient, Receives
  <1>2. /\ clientList' = removeClientFromClientList(clientList, th[c].fd)
        /\ up' \in BOOLEAN
        /\ th' = [th EXCEPT ![c] = t]
        /\ UNCHANGED <<fdTable, sent, out, peer>>
    BY DEF LeftClient
  <1>3. Left(c) \in Packet /\ Left(c).fd = th[c].fd
    <2>1. th[c].fd \in AnyFd
      BY KnownTypes DEF Thread
    <2> QED
      BY <2>1, BlankType DEF Left, Packet, Types
  <1>4. LocalsOK(c, t)
    <2>1. /\ th[c] \in Thread /\ "left" \in Pcs /\ th[c].got + 1 \in Nat
      BY KnownTypes DEF Thread, Pcs
    <2>2. t \in Thread
      BY <1>3, <2>1 DEF Thread
    <2>3. /\ t.pc = "left" /\ t.fd = th[c].fd /\ t.pkt = Left(c) /\ t.i = 1
          /\ t.got = th[c].got + 1
      BY <2>1 DEF Thread
    <2> HIDE DEF t
    <2> QED
      BY <1>1, <1>3, <2>2, <2>3 DEF LocalsOK
  <1> HIDE DEF t
  <1>5. th' \in [Conns -> Thread] /\ th'[c] = t /\ Frame(c)
    BY <1>2, <1>4, KnownTypes, OneThread DEF LocalsOK
  <1>6. ListOK
    BY <1>2, KnownTypes, RemoveProperties DEF ListOK
  <1>7. SocketsOK(c)
    BY <1>2, KnownTypes DEF SocketsOK, NetTypeOK, Appends
  <1> QED
    BY <1>1, <1>4, <1>5, <1>6, <1>7, StepInv

\* The header of the news, to a live slot.
LEMMA LeftHeaderInv ==
    ASSUME IndInv, NEW c \in Conns, LeftHeader(c)
    PROVE  IndInv'
  <1> DEFINE f == clientList.clients[th[c].i].FD
             t == [th[c] EXCEPT !.pc = "leftPayload"]
  <1>1. /\ th[c].pc = "left" /\ th[c].i <= clientList.size
        /\ SendHeader(c, f, th[c].pkt)
        /\ th' = [th EXCEPT ![c] = t]
        /\ UNCHANGED <<fdTable, sent, clientList>>
    BY DEF LeftHeader, At
  <1>2. /\ th[c] \in Thread /\ th[c].pkt \in Packet
        /\ th[c].i \in 1 .. Len(clientList.clients)
        /\ th[c].pkt.fd = th[c].fd /\ th[c].got <= Len(sent[c])
    BY <1>1, KnownTypes DEF SlotInv, NewsInv, Thread
  <1>3. f \in AnyFd
    BY <1>2, KnownTypes, SlotType
  <1>4. LocalsOK(c, t)
    BY <1>2 DEF LocalsOK, Thread, Pcs
  <1>5. Send(c, f, "header", th[c].pkt) /\ Alive(c)
    BY <1>1 DEF SendHeader, Alive
  <1> HIDE DEF f, t
  <1> QED
    BY <1>1, <1>2, <1>3, <1>4, <1>5, SendStep

\* Its payload, to a slot that may be live no longer.
LEMMA LeftPayloadInv ==
    ASSUME IndInv, NEW c \in Conns, LeftPayload(c)
    PROVE  IndInv'
  <1> DEFINE f == clientList.clients[th[c].i].FD
             i == th[c].i + 1
             t == [th[c] EXCEPT !.pc = "left", !.i = i]
  <1>1. /\ th[c].pc = "leftPayload"
        /\ SendPayload(c, f, th[c].pkt)
        /\ th' = [th EXCEPT ![c] = t]
        /\ UNCHANGED <<fdTable, sent, clientList>>
    BY DEF LeftPayload, At
  <1>2. /\ th[c] \in Thread /\ th[c].pkt \in Packet
        /\ th[c].i \in 1 .. Len(clientList.clients)
        /\ th[c].pkt.fd = th[c].fd /\ th[c].got <= Len(sent[c])
    BY <1>1, KnownTypes DEF SlotInv, NewsInv, Thread
  <1>3. f \in AnyFd
    BY <1>2, KnownTypes, SlotType
  <1>4. LocalsOK(c, t)
    <2>1. i \in Nat /\ i >= 1
      BY <1>2 DEF Thread
    <2>2. /\ t \in Thread /\ t.pc = "left" /\ t.fd = th[c].fd
          /\ t.pkt = th[c].pkt /\ t.i = i /\ t.got = th[c].got
      BY <1>2, <2>1 DEF Thread, Pcs
    <2> HIDE DEF t, i
    <2> QED
      BY <1>2, <2>1, <2>2 DEF LocalsOK
  <1>5. Send(c, f, "payload", th[c].pkt) /\ Alive(c)
    BY <1>1 DEF SendPayload, Alive
  <1> HIDE DEF f, t
  <1> QED
    BY <1>1, <1>2, <1>3, <1>4, <1>5, SendStep

\* The end of the loop.
LEMMA LeftDoneInv ==
    ASSUME IndInv, NEW c \in Conns, LeftDone(c)
    PROVE  IndInv'
  <1>1. /\ Alive(c)
        /\ th' = [th EXCEPT ![c] = Idle(th[c], 0)]
        /\ UNCHANGED <<fdTable, sent, out, peer, clientList>>
        /\ up' \in BOOLEAN
    BY KnownTypes DEF LeftDone, At, Alive, Return, NetTypeOK
  <1>2. LocalsOK(c, Idle(th[c], 0))
    BY IdleOK
  <1> QED
    BY <1>1, <1>2, QuietStep

----------------------------------------------------------------------------
(* managePeerChat *)

\* A relayed packet is never news.
LEMMA PeerChatInv ==
    ASSUME IndInv, NEW c \in Conns, PeerChat(c)
    PROVE  IndInv'
  <1> DEFINE p == Incoming(c)
             t == [th[c] EXCEPT !.pc = "chatPayload", !.got = @ + 1, !.pkt = p]
  <1>1. p \in Packet /\ Alive(c) /\ th[c].got + 1 <= Len(sent[c])
    BY KnownTypes, IncomingType DEF PeerChat, Receives
  <1>2. /\ SendHeader(c, p.fd, p)
        /\ p.type = "CHAT"
        /\ th' = [th EXCEPT ![c] = t]
        /\ UNCHANGED <<fdTable, sent, clientList>>
    BY DEF PeerChat, Receives
  <1> HIDE DEF p
  <1>3. p.fd \in AnyFd /\ p.type \notin News
    BY <1>1, <1>2 DEF Packet, News
  <1>4. LocalsOK(c, t)
    <2>1. th[c] \in Thread /\ "chatPayload" \in Pcs /\ th[c].got + 1 \in Nat
      BY KnownTypes DEF Thread, Pcs
    <2>2. /\ t \in Thread /\ t.pc = "chatPayload" /\ t.fd = th[c].fd
          /\ t.pkt = p /\ t.got = th[c].got + 1
      BY <1>1, <2>1 DEF Thread
    <2> HIDE DEF t
    <2> QED
      BY <1>1, <1>3, <2>2 DEF LocalsOK
  <1> HIDE DEF t
  <1> QED
    BY <1>1, <1>2, <1>3, <1>4, SendStep DEF SendHeader

\* The same, for the second send().
LEMMA PeerChatPayloadInv ==
    ASSUME IndInv, NEW c \in Conns, PeerChatPayload(c)
    PROVE  IndInv'
  <1>1. /\ th[c].pc = "chatPayload"
        /\ SendPayload(c, th[c].pkt.fd, th[c].pkt)
        /\ th' = [th EXCEPT ![c] = Idle(th[c], 0)]
        /\ UNCHANGED <<fdTable, sent, clientList>>
    BY DEF PeerChatPayload, At, Return
  <1>2. th[c].pkt \in Packet /\ th[c].pkt.type \notin News
    BY <1>1, KnownTypes DEF Thread, NewsInv
  <1>3. th[c].pkt.fd \in AnyFd
    BY <1>2 DEF Packet
  <1>4. LocalsOK(c, Idle(th[c], 0))
    BY IdleOK
  <1>5. Send(c, th[c].pkt.fd, "payload", th[c].pkt) /\ Alive(c)
    BY <1>1 DEF SendPayload, Alive
  <1> QED
    BY <1>1, <1>2, <1>3, <1>4, <1>5, SendStep

----------------------------------------------------------------------------
(* The steps of a thread outside the handlers. *)

\* accept(): the descriptor is free, so no other live thread has it, and the
\* new thread has written nothing.
LEMMA AcceptInv ==
    ASSUME IndInv, NEW c \in Conns, Accept(c), UNCHANGED clientList
    PROVE  IndInv'
  <1>1. PICK f \in Fds :
          /\ fdTable[f] = NoConn
          /\ fdTable' = [fdTable EXCEPT ![f] = c]
          /\ th' = [th EXCEPT ![c] = [th[c] EXCEPT !.pc = "recv", !.fd = f]]
    BY DEF Accept
  <1>2. /\ th[c].pc = "new" /\ sent' = sent /\ out' = out /\ up' = up
        /\ peer' = [peer EXCEPT ![c] = "open"]
    BY DEF Accept
  <1> DEFINE t == [th[c] EXCEPT !.pc = "recv", !.fd = f]
  <1>3. /\ t \in Thread /\ t.pc = "recv" /\ t.fd = f
        /\ t.got = th[c].got
    BY KnownTypes DEF Thread, Pcs, AnyFd
  <1> HIDE DEF t
  <1>4. /\ th' \in [Conns -> Thread] /\ th'[c] = t
        /\ \A d \in Conns \ {c} : th'[d] = th[d]
    BY <1>1, <1>3, KnownTypes DEF t
  <1>5. TypeOK'
    BY <1>1, <1>2, <1>4, KnownTypes
       DEF TypeOK, NetTypeOK, RegistryTypeOK, PeerStates
  <1>6. FdInv'
    <2>1. /\ OneThreadPerFd /\ NoConn \notin Conns
          /\ fdTable \in [Fds -> Conns \cup {NoConn}]
      BY KnownTypes, TransportAssumption DEF IndInv, FdInv, NetTypeOK
    <2>2. \A g \in Fds : fdTable'[g] = IF g = f THEN c ELSE fdTable[g]
      BY <1>1, <2>1
    <2>3. \A g \in Fds, d \in Conns :
            fdTable'[g] = d <=> (th'[d].fd = g /\ th'[d].pc \notin {"new", "closed"})
      BY <1>1, <1>2, <1>3, <1>4, <2>1, <2>2 DEF OneThreadPerFd
    <2>4. \A d \in Conns : th'[d].pc \notin {"new", "closed"} => th'[d].fd \in Fds
      BY <1>3, <1>4 DEF IndInv, FdInv
    <2> QED
      BY <2>3, <2>4 DEF FdInv, OneThreadPerFd
  <1>7. SlotInv'
    BY <1>3, <1>4, KnownTypes DEF SlotInv, HoldsCopy
  <1>8. \A x \in Conns : \A j \in DOMAIN out[x] :
          out[x][j].pkt.type \in News =>
            out[x][j].by # c /\ out[x][j].by \in Conns
    BY <1>2, ChunkType, KnownTypes DEF NewsInv
  <1>9. NewsInv'
    <2>1. \A d \in Conns :
            /\ th'[d].pc \in {"introduce", "introducePayload", "left", "leftPayload"}
                 => th'[d].pkt.fd = th'[d].fd
            /\ th'[d].pc \in {"listPayload", "chatPayload"}
                 => th'[d].pkt.type \notin News
            /\ th'[d].got <= Len(sent'[d])
      BY <1>2, <1>3, <1>4, KnownTypes DEF NewsInv
    <2>2. \A x \in Conns : \A j \in DOMAIN out'[x] :
            out'[x][j].pkt.type \in News =>
              /\ th'[out'[x][j].by].fd = out'[x][j].pkt.fd
              /\ th'[out'[x][j].by].pc # "new"
      BY <1>2, <1>4, <1>8, KnownTypes DEF NewsInv
    <2> QED
      BY <2>1, <2>2 DEF NewsInv
  <1>10. NewsInOrder'
    BY <1>2, <1>4, <1>8 DEF IndInv, NewsInOrder
  <1> QED
    BY <1>5, <1>6, <1>7, <1>9, <1>10 DEF IndInv

\* close(): the descriptor was the thread's own, and what it wrote stays.
LEMMA CloseInv ==
    ASSUME IndInv, NEW c \in Conns, Close(c), UNCHANGED clientList
    PROVE  IndInv'
  <1> DEFINE t == [Idle(th[c], 0) EXCEPT !.pc = "closed"]
  <1>1. /\ th[c].pc = "recv" /\ sent' = sent /\ out' = out /\ up' = up
        /\ peer' = peer
        /\ fdTable' = [fdTable EXCEPT ![th[c].fd] = NoConn]
        /\ th' = [th EXCEPT ![c] = t]
    BY DEF Close, At
  <1>2. /\ t \in Thread /\ t.pc = "closed" /\ t.fd = th[c].fd
        /\ t.got = th[c].got
    <2>1. /\ Idle(th[c], 0) \in Thread /\ Idle(th[c], 0).fd = th[c].fd
          /\ Idle(th[c], 0).got = th[c].got + 0 /\ th[c].got \in Nat
      <3>1. th[c] \in Thread /\ th[c].got \in Nat /\ 0 \in Nat
        BY KnownTypes DEF Thread
      <3> QED
        BY <3>1, IdleType
    <2> QED
      BY <2>1 DEF Thread, Pcs
  <1> HIDE DEF t
  <1>3. /\ th' \in [Conns -> Thread] /\ th'[c] = t
        /\ \A d \in Conns \ {c} : th'[d] = th[d]
    BY <1>1, <1>2, KnownTypes
  <1>4. th[c].fd \in Fds /\ fdTable[th[c].fd] = c
    BY <1>1 DEF IndInv, FdInv, OneThreadPerFd
  <1>5. TypeOK'
    BY <1>1, <1>3, KnownTypes DEF TypeOK, NetTypeOK, RegistryTypeOK
  <1>6. FdInv'
    <2>1. /\ OneThreadPerFd /\ NoConn \notin Conns
          /\ fdTable \in [Fds -> Conns \cup {NoConn}]
      BY KnownTypes, TransportAssumption DEF IndInv, FdInv, NetTypeOK
    <2>2. \A g \in Fds : fdTable'[g] = IF g = th[c].fd THEN NoConn ELSE fdTable[g]
      BY <1>1, <2>1
    <2>3. \A g \in Fds, d \in Conns :
            fdTable'[g] = d <=> (th'[d].fd = g /\ th'[d].pc \notin {"new", "closed"})
      BY <1>1, <1>2, <1>3, <1>4, <2>1, <2>2 DEF OneThreadPerFd
    <2>4. \A d \in Conns : th'[d].pc \notin {"new", "closed"} => th'[d].fd \in Fds
      BY <1>2, <1>3 DEF IndInv, FdInv
    <2> QED
      BY <2>3, <2>4 DEF FdInv, OneThreadPerFd
  <1>7. SlotInv'
    BY <1>2, <1>3, KnownTypes DEF SlotInv, HoldsCopy
  <1>8. \A d \in Conns : /\ th'[d].fd = th[d].fd
                         /\ th'[d].pc = "new" <=> th[d].pc = "new"
                         /\ th[d].pc = "closed" => th'[d].pc = "closed"
    BY <1>1, <1>2, <1>3
  <1>9. \A x \in Conns : \A j \in DOMAIN out[x] : out[x][j].by \in Conns
    BY ChunkType, KnownTypes
  <1>10. NewsInv'
    <2>1. \A d \in Conns :
            /\ th'[d].pc \in {"introduce", "introducePayload", "left", "leftPayload"}
                 => th'[d].pkt.fd = th'[d].fd
            /\ th'[d].pc \in {"listPayload", "chatPayload"}
                 => th'[d].pkt.type \notin News
            /\ th'[d].got <= Len(sent'[d])
      BY <1>1, <1>2, <1>3, KnownTypes DEF NewsInv
    <2>2. \A x \in Conns : \A j \in DOMAIN out'[x] :
            out'[x][j].pkt.type \in News =>
              /\ th'[out'[x][j].by].fd = out'[x][j].pkt.fd
              /\ th'[out'[x][j].by].pc # "new"
      BY <1>1, <1>8, <1>9, KnownTypes DEF NewsInv
    <2> QED
      BY <2>1, <2>2 DEF NewsInv
  <1>11. NewsInOrder'
    BY <1>1, <1>8, <1>9 DEF IndInv, NewsInOrder
  <1> QED
    BY <1>5, <1>6, <1>7, <1>10, <1>11 DEF IndInv

\* The crash of the process on a NULL buffer.
LEMMA ReadsNullInv ==
    ASSUME IndInv, NEW c \in Conns, ReadsNull(c), UNCHANGED clientList
    PROVE  IndInv'
  <1>1. /\ th[c].pc = "recv" /\ th' = th
        /\ UNCHANGED <<fdTable, sent, out, peer, clientList>>
        /\ up' \in BOOLEAN
    BY DEF ReadsNull
  <1>2. th' = [th EXCEPT ![c] = th[c]]
    BY <1>1, KnownTypes
  <1>3. LocalsOK(c, th[c])
    BY <1>1, KnownTypes DEF LocalsOK, NewsInv
  <1> QED
    BY <1>1, <1>2, <1>3, QuietStep DEF Alive

----------------------------------------------------------------------------
(* The users. *)

\* The descriptors a client can name are descriptors.
LEMMA KnownFdsType ==
    ASSUME NetTypeOK, NEW c \in Conns
    PROVE  KnownFds(c) \subseteq AnyFd
  <1> DEFINE payloads == {out[c][k].pkt : k \in {j \in DOMAIN out[c] :
                                                   out[c][j].part = "payload"}}
  <1>1. ASSUME NEW p \in payloads
        PROVE  p.fd \in AnyFd /\ \A j \in DOMAIN p.list : p.list[j].FD \in AnyFd
    <2>1. PICK k \in DOMAIN out[c] : p = out[c][k].pkt
      OBVIOUS
    <2>2. p \in Packet
      BY <2>1, ChunkType DEF Chunk
    <2>3. p.fd \in AnyFd /\ p.list \in Seq(Entries)
      BY <2>2 DEF Packet
    <2>4. \A j \in DOMAIN p.list : p.list[j] \in Entries
      BY <2>3, LenProperties, ElementOfSeq
    <2> QED
      BY <2>3, <2>4 DEF Entries, Client
  <1> HIDE DEF payloads
  <1>2. KnownFds(c) =
          {p.fd : p \in {q \in payloads : q.type = "USER_JOINED_SERVER"}}
          \cup UNION {{p.list[j].FD : j \in DOMAIN p.list} :
                        p \in {q \in payloads : q.type = "CLIENT_LIST"}}
    BY DEF KnownFds, payloads
  <1> QED
    BY <1>1, <1>2

\* Whatever a user does, only its stream to the server grows and its end of
\* the socket closes.
LEMMA UserInv ==
    ASSUME IndInv, NEW c \in Conns, NEW p \in Packet,
           sent' = sent \/ sent' = [sent EXCEPT ![c] = Append(@, p)],
           peer' = peer \/ peer' = [peer EXCEPT ![c] = "shut"],
           UNCHANGED <<fdTable, th, out, up, clientList>>
    PROVE  IndInv'
  <1>1. /\ sent' \in [Conns -> Seq(Packet)]
        /\ \A d \in Conns : Len(sent[d]) <= Len(sent'[d])
    <2>1. sent \in [Conns -> Seq(Packet)]
      BY KnownTypes DEF NetTypeOK
    <2>2. \A d \in Conns : Len(sent[d]) \in Nat
      BY <2>1, LenProperties
    <2>3. CASE sent' = sent
      BY <2>1, <2>2, <2>3
    <2>4. CASE sent' = [sent EXCEPT ![c] = Append(@, p)]
      <3>1. /\ Append(sent[c], p) \in Seq(Packet)
            /\ Len(Append(sent[c], p)) = Len(sent[c]) + 1
        BY <2>1, AppendProperties
      <3> QED
        BY <2>1, <2>2, <2>4, <3>1
    <2> QED
      BY <2>3, <2>4
  <1>2. TypeOK'
    BY <1>1, KnownTypes DEF TypeOK, NetTypeOK, RegistryTypeOK, PeerStates
  <1>3. FdInv' /\ SlotInv' /\ NewsInOrder'
    BY DEF IndInv, FdInv, OneThreadPerFd, SlotInv, HoldsCopy, NewsInOrder
  <1>4. NewsInv'
    <2>1. \A d \in Conns : th[d].got \in Nat /\ th[d].got <= Len(sent[d])
      BY KnownTypes DEF NewsInv, Thread
    <2>2. \A d \in Conns : Len(sent[d]) \in Nat /\ Len(sent'[d]) \in Nat
      BY <1>1, KnownTypes, LenProperties DEF NetTypeOK
    <2>3. \A d \in Conns : th'[d].got <= Len(sent'[d])
      BY <1>1, <2>1, <2>2
    <2> QED
      BY <2>3, KnownTypes DEF NewsInv
  <1> QED
    BY <1>2, <1>3, <1>4 DEF IndInv

\* Write() is such a step.
LEMMA WriteInv ==
    ASSUME IndInv, NEW c \in Conns, NEW p \in Packet, Write(c, p),
           UNCHANGED <<fdTable, th, out, up, clientList>>
    PROVE  IndInv'
  <1>1. CASE /\ sent' = [sent EXCEPT ![c] = Append(@, p)] /\ peer' = peer
    BY <1>1, UserInv
  <1>2. CASE /\ sent' = [sent EXCEPT ![c] = Append(@, [p EXCEPT !.whole = FALSE])]
             /\ peer' = [peer EXCEPT ![c] = "shut"]
    <2>1. [p EXCEPT !.whole = FALSE] \in Packet
      BY DEF Packet
    <2> QED
      BY <1>2, <2>1, UserInv
  <1> QED
    BY <1>1, <1>2 DEF Write

\* The steps of a user.
LEMMA UserStepInv ==
    ASSUME IndInv, NEW c \in Conns, UserStep(c)
    PROVE  IndInv'
  <1>1. /\ Blank \in Packet /\ c \in Names
        /\ {"INTRO", "USER_LEFT", "CHAT"} \subseteq Types
    BY BlankType DEF Names, Types
  <1>2. CASE SendIntro(c) /\ UNCHANGED clientList
    <2>1. [Blank EXCEPT !.type = "INTRO", !.name = c] \in Packet
      BY <1>1 DEF Packet
    <2> QED
      BY <1>2, <2>1, WriteInv DEF SendIntro
  <1>3. CASE Quit(c) /\ UNCHANGED clientList
    <2>1. [Blank EXCEPT !.type = "USER_LEFT"] \in Packet
      BY <1>1 DEF Packet
    <2> QED
      BY <1>3, <2>1, UserInv DEF Quit
  <1>4. CASE Crash(c) /\ UNCHANGED clientList
    BY <1>1, <1>4, UserInv DEF Crash
  <1>5. CASE SendChat(c)
    <2>1. PICK f \in KnownFds(c) :
            Write(c, [Blank EXCEPT !.type = "CHAT", !.fd = f, !.name = c])
      BY <1>5 DEF SendChat
    <2>2. [Blank EXCEPT !.type = "CHAT", !.fd = f, !.name = c] \in Packet
      <3>1. f \in AnyFd
        BY KnownTypes, KnownFdsType
      <3> QED
        BY <1>1, <3>1 DEF Packet
    <2> QED
      BY <1>5, <2>1, <2>2, WriteInv DEF SendChat
  <1> QED
    BY <1>2, <1>3, <1>4, <1>5 DEF UserStep

----------------------------------------------------------------------------
(* The invariant. *)

\* The server as main() starts it: nobody connected, the list empty.
LEMMA InitInv == Init => IndInv
  <1> SUFFICES ASSUME Init PROVE IndInv
    OBVIOUS
  <1>1. TypeOK
    <2>1. clientList \in ClientList(Names, AnyFd)
      BY EmptySeq DEF Init, RegistryInit, EmptyList, ClientList
    <2>2. th \in [Conns -> Thread]
      BY BlankType DEF Init, NetInit
    <2>3. /\ fdTable \in [Fds -> Conns \cup {NoConn}]
          /\ sent \in [Conns -> Seq(Packet)]
          /\ out \in [Conns -> Seq(Chunk)]
          /\ peer \in [Conns -> PeerStates]
          /\ up \in BOOLEAN
      BY EmptySeq DEF Init, NetInit, PeerStates
    <2> QED
      BY <2>1, <2>2, <2>3 DEF TypeOK, NetTypeOK, RegistryTypeOK
  <1>2. \A c \in Conns : /\ th[c].pc = "new" /\ th[c].got = 0
                         /\ sent[c] = <<>> /\ out[c] = <<>>
    BY DEF Init, NetInit, NewThread
  <1>3. FdInv
    BY <1>2, TransportAssumption DEF Init, NetInit, FdInv, OneThreadPerFd
  <1>4. SlotInv
    BY <1>2 DEF Init, RegistryInit, EmptyList, SlotInv, HoldsCopy
  <1>5. NewsInv /\ NewsInOrder
    BY <1>2 DEF NewsInv, NewsInOrder
  <1> QED
    BY <1>1, <1>3, <1>4, <1>5 DEF IndInv

\* Every step keeps it.
LEMMA NextInv == IndInv /\ [Next]_registryVars => IndInv'
  <1> SUFFICES ASSUME IndInv, [Next]_registryVars PROVE IndInv'
    OBVIOUS
  <1>1. CASE UNCHANGED registryVars
    BY <1>1 DEF registryVars, netVars, IndInv, TypeOK, NetTypeOK, RegistryTypeOK,
                FdInv, OneThreadPerFd, SlotInv, HoldsCopy, NewsInv, NewsInOrder
  <1>2. CASE Stops
    BY <1>1, <1>2 DEF Stops
  <1>3. ASSUME NEW c \in Conns, ServerStep(c)
        PROVE  IndInv'
    <2>1. CASE Accept(c) /\ UNCHANGED clientList
      BY <2>1, AcceptInv
    <2>2. CASE Close(c) /\ UNCHANGED clientList
      BY <2>2, CloseInv
    <2>3. CASE ReadsNull(c) /\ UNCHANGED clientList
      BY <2>3, ReadsNullInv
    <2>4. CASE RegistryHandler(c)
      BY <2>4, NewClientInv, IntroduceHeaderInv, IntroducePayloadInv,
         RegisterInv, ListHeaderInv, ListPayloadInv, FollowsFreedPointerInv,
         LeftClientInv, LeftHeaderInv, LeftPayloadInv, LeftDoneInv,
         PeerChatInv, PeerChatPayloadInv
         DEF RegistryHandler
    <2> QED
      BY <1>3, <2>1, <2>2, <2>3, <2>4 DEF ServerStep
  <1>4. ASSUME NEW c \in Conns, UserStep(c)
        PROVE  IndInv'
    BY <1>4, UserStepInv
  <1> QED
    BY <1>1, <1>2, <1>3, <1>4 DEF Next

\* IndInv holds in every reachable state.
THEOREM Invariance == Spec => []IndInv
  BY InitInv, NextInv, PTL DEF Spec

\* The variables keep their types, whatever interleaves: in particular every
\* list of users that sendClientListToClient sends is made of entries, though
\* the array changes, and may move, between its header and its payload.
THEOREM TypeCorrect == Spec => []TypeOK
  <1>1. IndInv => TypeOK
    BY DEF IndInv
  <1> QED
    BY <1>1, Invariance, PTL

\* No thread works on a descriptor that the kernel has given to another
\* connection: receiveDataFromClient closes it after its last handler.
THEOREM DescriptorsOwned == Spec => []OneThreadPerFd
  <1>1. IndInv => OneThreadPerFd
    BY DEF IndInv, FdInv
  <1> QED
    BY <1>1, Invariance, PTL

\* No loop of introduceNewClient, sendClientListToClient or manageLeftClient
\* runs off the array, however many others add and remove meanwhile.
THEOREM NoReadPastArray == Spec => []NoWildRead
  <1>1. IndInv => NoWildRead
    BY DEF IndInv, SlotInv, NoWildRead, HoldsCopy
  <1> QED
    BY <1>1, Invariance, PTL

\* News of the next user of a descriptor comes after all news of the last one.
THEOREM NewsOrdered == Spec => []NewsInOrder
  <1>1. IndInv => NewsInOrder
    BY DEF IndInv
  <1> QED
    BY <1>1, Invariance, PTL

----------------------------------------------------------------------------
(* What the steps of a server thread have in common. *)

\* The step may learn that a client's end is closed, nothing more.
LeavesPeers ==
    \A x \in Conns : \/ peer'[x] = peer[x]
                     \/ peer[x] = "shut" /\ peer'[x] = "reset"

\* The step appends a chunk of c's with packet p to the stream of the owner of
\* descriptor f, or nothing.
Emits(c, f, part, p) ==
    \/ out' = out
    \/ /\ f \in Fds /\ fdTable[f] \in Conns
       /\ out' = [out EXCEPT ![fdTable[f]] =
                    Append(@, [part |-> part, by |-> c, pkt |-> p])]

\* send() in these terms.
LEMMA SendEffect ==
    ASSUME NetTypeOK, NEW c \in Conns, NEW f, NEW part, NEW p,
           Send(c, f, part, p)
    PROVE  LeavesPeers /\ Emits(c, f, part, p)
  <1> DEFINE d == IF f \in Fds THEN fdTable[f] ELSE NoConn
             s == IF d \in Conns THEN peer[d] ELSE "none"
             chunk == [part |-> part, by |-> c, pkt |-> p]
  <1>1. peer \in [Conns -> PeerStates] /\ NoConn \notin Conns
    BY TransportAssumption DEF NetTypeOK
  <1>2. /\ out' = IF s = "open" THEN [out EXCEPT ![d] = Append(@, chunk)] ELSE out
        /\ \/ peer' = peer
           \/ s = "shut" /\ peer' = [peer EXCEPT ![d] = "reset"]
    BY DEF Send
  <1>3. LeavesPeers
    BY <1>1, <1>2 DEF LeavesPeers
  <1>4. Emits(c, f, part, p)
    <2>1. CASE s = "open"
      <3>1. d \in Conns
        BY <2>1
      <3>2. f \in Fds /\ d = fdTable[f]
        BY <1>1, <3>1
      <3> HIDE DEF chunk
      <3>3. out' = [out EXCEPT ![fdTable[f]] = Append(@, chunk)]
        BY <1>2, <2>1, <3>2
      <3> QED
        BY <3>1, <3>2, <3>3 DEF Emits, chunk
    <2>2. CASE s # "open"
      BY <1>2, <2>2 DEF Emits
    <2> QED
      BY <2>1, <2>2
  <1> QED
    BY <1>3, <1>4

\* What is left alone keeps its part of HandlerInv: the locals of d, ...
LEMMA SameHandler ==
    ASSUME NEW d, InHandler(d), sent' = sent,
           th'[d].pc = th[d].pc, th'[d].fd = th[d].fd,
           th'[d].pkt = th[d].pkt, th'[d].got = th[d].got
    PROVE  InHandler(d)'
  <1>1. Left(d)' = Left(d) /\ (SaidGoodbye(d)' <=> SaidGoodbye(d))
    BY DEF Left, SaidGoodbye
  <1> QED
    BY <1>1 DEF InHandler

\* ... and its stream, whoever learns that d has gone.
LEMMA SameStream ==
    ASSUME NEW d, InStream(d), sent'[d] = sent[d],
           th'[d].pc = "new" => th[d].pc = "new",
           peer'[d] = peer[d] \/ (peer[d] # "none" /\ peer'[d] # "open")
    PROVE  InStream(d)'
  BY DEF InStream

\* A step of one live thread keeps HandlerInv if its new locals are right.
LEMMA HandlerStep ==
    ASSUME IndInv, HandlerInv, NEW c \in Conns, Alive(c), Frame(c),
           sent' = sent, LeavesPeers,
           th'[c].pc # "new", InHandler(c)'
    PROVE  HandlerInv'
  <1>1. ASSUME NEW d \in Conns
        PROVE  InStream(d)'
    <2>1. th'[d].pc = "new" => th[d].pc = "new"
      BY DEF Frame
    <2>2. peer'[d] = peer[d] \/ (peer[d] # "none" /\ peer'[d] # "open")
      BY DEF LeavesPeers
    <2> QED
      BY <2>1, <2>2, SameStream DEF HandlerInv
  <1>2. ASSUME NEW d \in Conns, d # c
        PROVE  InHandler(d)'
    BY <1>2, SameHandler DEF HandlerInv, Frame
  <1> QED
    BY <1>1, <1>2 DEF HandlerInv

\* The new locals of c are right when it has gone back to recvAll().
LEMMA HandlerReturns ==
    ASSUME IndInv, HandlerInv, NEW c \in Conns, Alive(c), NEW t,
           th' = [th EXCEPT ![c] = t], t.pc \in {"recv", "closed"},
           sent' = sent, LeavesPeers
    PROVE  HandlerInv'
  <1>1. th'[c] = t /\ Frame(c)
    BY KnownTypes DEF Frame
  <1>2. InHandler(c)'
    BY <1>1 DEF InHandler
  <1> QED
    BY <1>1, <1>2, HandlerStep

\* ... or when it is still in the same handler, with the same packet.
LEMMA HandlerGoesOn ==
    ASSUME IndInv, HandlerInv, NEW c \in Conns, Alive(c), NEW t,
           th' = [th EXCEPT ![c] = t],
           t.got = th[c].got, t.fd = th[c].fd, t.pkt = th[c].pkt,
           \/ {t.pc, th[c].pc} \subseteq {"introduce", "introducePayload"}
           \/ {t.pc, th[c].pc} \subseteq {"left", "leftPayload"},
           sent' = sent, LeavesPeers
    PROVE  HandlerInv'
  <1>1. th'[c] = t /\ Frame(c)
    BY KnownTypes DEF Frame
  <1>2. Left(c)' = Left(c) /\ (SaidGoodbye(c)' <=> SaidGoodbye(c))
    BY <1>1 DEF Left, SaidGoodbye
  <1>3. InHandler(c)
    BY DEF HandlerInv
  <1>4. InHandler(c)' /\ t.pc # "new"
    BY <1>1, <1>2, <1>3 DEF InHandler
  <1> QED
    BY <1>1, <1>4, HandlerStep

\* What a thread receives is in the stream of its client.
LEMMA IncomingPlace ==
    ASSUME IndInv, HandlerInv, NEW c \in Conns, NEW type, Receives(c, type)
    PROVE  /\ Alive(c) /\ th[c].got \in Nat
           /\ th[c].got + 1 \in DOMAIN sent[c]
           /\ sent[c][th[c].got + 1] = Incoming(c)
           /\ Incoming(c).type = type
           /\ type = "INTRO" <=> th[c].got = 0
           /\ th[c].got = 0 \/ th[c].got \in DOMAIN sent[c]
  <1>1. /\ th[c].pc = "recv" /\ th[c].got < Len(sent[c])
        /\ Incoming(c).type = type
    BY DEF Receives
  <1>2. /\ th[c].got \in Nat /\ sent[c] \in Seq(Packet)
    BY KnownTypes DEF Thread, NetTypeOK
  <1>3. /\ th[c].got + 1 \in DOMAIN sent[c]
        /\ th[c].got = 0 \/ th[c].got \in DOMAIN sent[c]
    BY <1>1, <1>2, LenProperties
  <1>4. Incoming(c).type = "INTRO" <=> th[c].got + 1 = 1
    BY <1>3 DEF HandlerInv, InStream, Incoming
  <1> QED
    BY <1>1, <1>2, <1>3, <1>4 DEF Incoming, Alive

----------------------------------------------------------------------------
(* The handlers. *)

\* The INTRO is the first packet, and the only one.
LEMMA NewClientHandler ==
    ASSUME IndInv, HandlerInv, NEW c \in Conns, NewClient(c)
    PROVE  HandlerInv'
  <1>1. /\ Alive(c) /\ th[c].got = 0 /\ sent[c][1] = Incoming(c)
        /\ th[c] \in Thread
    BY IncomingPlace, KnownTypes DEF NewClient
  <1>2. sent' = sent /\ LeavesPeers
    BY DEF NewClient, LeavesPeers
  <1>3. CASE Incoming(c).whole
    <2> DEFINE t == [th[c] EXCEPT !.pc = "introduce", !.got = @ + 1,
                                  !.pkt = Joined(c), !.i = 1,
                                  !.n = clientList.size]
    <2>1. th' = [th EXCEPT ![c] = t]
      BY <1>3 DEF NewClient
    <2>2. t.pc = "introduce" /\ t.got = 1 /\ t.pkt = Joined(c)
      BY <1>1 DEF Thread
    <2> HIDE DEF t
    <2>3. th'[c] = t /\ Frame(c)
      BY <2>1, KnownTypes DEF Frame
    <2>4. Joined(c).type = "USER_JOINED_SERVER"
      BY DEF Joined, Blank
    <2>5. InHandler(c)' /\ t.pc # "new"
      BY <1>1, <1>2, <1>3, <2>2, <2>3, <2>4 DEF InHandler
    <2> QED
      BY <1>1, <1>2, <2>3, <2>5, HandlerStep
  <1>4. CASE ~Incoming(c).whole
    <2>1. th' = [th EXCEPT ![c] = Idle(th[c], 1)]
      BY <1>4 DEF NewClient, ReceiveAndReturn
    <2>2. Idle(th[c], 1).pc = "recv"
      BY <1>1, IdleType
    <2> QED
      BY <1>1, <1>2, <2>1, <2>2, HandlerReturns
  <1> QED
    BY <1>3, <1>4

\* The two steps of the loop of introduceNewClient.
LEMMA IntroduceHandler ==
    ASSUME IndInv, HandlerInv, NEW c \in Conns,
           IntroduceHeader(c) \/ IntroducePayload(c)
    PROVE  HandlerInv'
  <1>1. th[c] \in Thread /\ NetTypeOK
    BY KnownTypes
  <1>2. CASE IntroduceHeader(c)
    <2> DEFINE t == [th[c] EXCEPT !.pc = "introducePayload"]
    <2>1. th[c].pc = "introduce" /\ th' = [th EXCEPT ![c] = t] /\ sent' = sent
      BY <1>2 DEF IntroduceHeader, At
    <2>2. /\ t.pc = "introducePayload" /\ t.got = th[c].got
          /\ t.fd = th[c].fd /\ t.pkt = th[c].pkt
      BY <1>1 DEF Thread
    <2> HIDE DEF t
    <2>3. LeavesPeers
      BY <1>1, <1>2, SendEffect DEF IntroduceHeader, SendHeader
    <2> QED
      BY <2>1, <2>2, <2>3, HandlerGoesOn DEF Alive
  <1>3. CASE IntroducePayload(c)
    <2> DEFINE t == [th[c] EXCEPT !.pc = "introduce", !.i = @ + 1]
    <2>1. /\ th[c].pc = "introducePayload" /\ th' = [th EXCEPT ![c] = t]
          /\ sent' = sent
      BY <1>3 DEF IntroducePayload, At
    <2>2. /\ t.pc = "introduce" /\ t.got = th[c].got
          /\ t.fd = th[c].fd /\ t.pkt = th[c].pkt
      BY <1>1 DEF Thread
    <2> HIDE DEF t
    <2>3. LeavesPeers
      BY <1>1, <1>3, SendEffect DEF IntroducePayload, SendPayload
    <2> QED
      BY <2>1, <2>2, <2>3, HandlerGoesOn DEF Alive
  <1> QED
    BY <1>2, <1>3

\* What the addition does to the threads.
LEMMA RegisterFrame ==
    ASSUME IndInv, NEW c \in Conns, Register(c)
    PROVE  /\ Frame(c)
           /\ th[c].pc = "introduce" /\ th'[c].pc = "list"
           /\ th'[c].fd = th[c].fd /\ th'[c].got = th[c].got
  <1>1. PICK moves \in {FALSE, ReallocMoves /\ Grows(clientList)} :
          th' = [d \in Conns |->
                  IF d = c
                    THEN [th[c] EXCEPT !.pc = "list", !.stale = FALSE]
                    ELSE [th[d] EXCEPT !.stale =
                            th[d].stale \/ (moves /\ HoldsCopy(d))]]
    BY DEF Register
  <1>2. \A d \in Conns : th[d] \in Thread
    BY KnownTypes
  <1>3. ASSUME NEW d \in Conns, d # c
        PROVE  /\ th'[d].pc = th[d].pc /\ th'[d].fd = th[d].fd
               /\ th'[d].i = th[d].i /\ th'[d].n = th[d].n
               /\ th'[d].pkt = th[d].pkt /\ th'[d].got = th[d].got
    <2> DEFINE stale == th[d].stale \/ (moves /\ HoldsCopy(d))
    <2>1. th'[d] = [th[d] EXCEPT !.stale = stale]
      BY <1>1, <1>3
    <2> HIDE DEF stale
    <2> QED
      BY <1>2, <2>1 DEF Thread
  <1>4. th'[c] = [th[c] EXCEPT !.pc = "list", !.stale = FALSE]
    BY <1>1
  <1>5. /\ th'[c].pc = "list" /\ th'[c].fd = th[c].fd
        /\ th'[c].got = th[c].got
    BY <1>2, <1>4 DEF Thread
  <1> QED
    BY <1>3, <1>5 DEF Frame, Register, At

\* The addition.
LEMMA RegisterHandler ==
    ASSUME IndInv, HandlerInv, NEW c \in Conns, Register(c)
    PROVE  HandlerInv'
  <1>1. /\ Frame(c) /\ th[c].pc = "introduce" /\ th'[c].pc = "list"
        /\ th'[c].got = th[c].got
    BY RegisterFrame
  <1>2. sent' = sent /\ LeavesPeers
    BY DEF Register, LeavesPeers
  <1>3. th[c].got = 1 /\ sent[c][1].whole
    BY <1>1 DEF HandlerInv, InHandler
  <1>4. InHandler(c)'
    BY <1>1, <1>2, <1>3 DEF InHandler
  <1> QED
    BY <1>1, <1>2, <1>4, HandlerStep DEF Alive

\* The list of users goes out in the handler of the INTRO too.
LEMMA ListHandler ==
    ASSUME IndInv, HandlerInv, NEW c \in Conns, ListHeader(c) \/ ListPayload(c)
    PROVE  HandlerInv'
  <1>1. th[c] \in Thread /\ NetTypeOK
    BY KnownTypes
  <1>2. CASE ListHeader(c)
    <2> DEFINE p == [Blank EXCEPT !.type = "CLIENT_LIST",
                       !.list = SubSeq(clientList.clients, 1, clientList.size)]
               t == [th[c] EXCEPT !.pc = "listPayload", !.pkt = p,
                                  !.n = clientList.size]
    <2>1. /\ th[c].pc = "list" /\ th' = [th EXCEPT ![c] = t] /\ sent' = sent
          /\ Send(c, th[c].fd, "header", p)
      BY <1>2 DEF ListHeader, At, SendHeader
    <2>2. p.type = "CLIENT_LIST"
      BY DEF Blank
    <2> HIDE DEF p
    <2>3. t.pc = "listPayload" /\ t.got = th[c].got /\ t.pkt = p
      BY <1>1 DEF Thread
    <2> HIDE DEF t
    <2>4. th'[c] = t /\ Frame(c)
      BY <2>1, KnownTypes DEF Frame
    <2>5. LeavesPeers
      BY <1>1, <2>1, SendEffect
    <2>6. th[c].got = 1 /\ sent[c][1].whole
      BY <2>1 DEF HandlerInv, InHandler
    <2>7. InHandler(c)' /\ t.pc # "new"
      BY <2>1, <2>2, <2>3, <2>4, <2>6 DEF InHandler
    <2> QED
      BY <2>1, <2>4, <2>5, <2>7, HandlerStep DEF Alive
  <1>3. CASE ListPayload(c)
    <2>1. /\ th[c].pc = "listPayload" /\ sent' = sent
          /\ th' = [th EXCEPT ![c] = Idle(th[c], 0)]
      BY <1>3 DEF ListPayload, At, Return
    <2>2. LeavesPeers
      BY <1>1, <1>3, SendEffect DEF ListPayload, SendPayload
    <2>3. Idle(th[c], 0).pc = "recv"
      BY <1>1, IdleType
    <2> QED
      BY <2>1, <2>2, <2>3, HandlerReturns DEF Alive
  <1> QED
    BY <1>2, <1>3

\* USER_LEFT is the last packet, and the news of it is about its sender.
LEMMA LeftClientHandler ==
    ASSUME IndInv, HandlerInv, NEW c \in Conns, LeftClient(c)
    PROVE  HandlerInv'
  <1>1. /\ Alive(c) /\ th[c].got \in Nat /\ th[c] \in Thread
        /\ sent[c][th[c].got + 1].type = "USER_LEFT"
    BY IncomingPlace, KnownTypes DEF LeftClient
  <1> DEFINE t == [th[c] EXCEPT !.pc = "left", !.got = @ + 1, !.i = 1,
                                !.pkt = Left(c)]
  <1>2. th' = [th EXCEPT ![c] = t] /\ sent' = sent /\ LeavesPeers
    BY DEF LeftClient, LeavesPeers
  <1>3. /\ t.pc = "left" /\ t.got = th[c].got + 1 /\ t.pkt = Left(c)
        /\ t.fd = th[c].fd
    BY <1>1 DEF Thread
  <1> HIDE DEF t
  <1>4. th'[c] = t /\ Frame(c)
    BY <1>2, KnownTypes DEF Frame
  <1>5. Left(c)' = Left(c) /\ SaidGoodbye(c)'
    <2>1. t.got >= 1 /\ sent'[c][t.got].type = "USER_LEFT"
      BY <1>1, <1>2, <1>3
    <2> QED
      BY <1>3, <1>4, <2>1 DEF Left, SaidGoodbye
  <1>6. InHandler(c)' /\ t.pc # "new"
    BY <1>3, <1>4, <1>5 DEF InHandler
  <1> QED
    BY <1>1, <1>2, <1>4, <1>6, HandlerStep

\* The loop of manageLeftClient.
LEMMA LeftHandler ==
    ASSUME IndInv, HandlerInv, NEW c \in Conns,
           LeftHeader(c) \/ LeftPayload(c) \/ LeftDone(c)
    PROVE  HandlerInv'
  <1>1. th[c] \in Thread /\ NetTypeOK
    BY KnownTypes
  <1>2. CASE LeftHeader(c)
    <2> DEFINE t == [th[c] EXCEPT !.pc = "leftPayload"]
    <2>1. th[c].pc = "left" /\ th' = [th EXCEPT ![c] = t] /\ sent' = sent
      BY <1>2 DEF LeftHeader, At
    <2>2. /\ t.pc = "leftPayload" /\ t.got = th[c].got
          /\ t.fd = th[c].fd /\ t.pkt = th[c].pkt
      BY <1>1 DEF Thread
    <2> HIDE DEF t
    <2>3. LeavesPeers
      BY <1>1, <1>2, SendEffect DEF LeftHeader, SendHeader
    <2> QED
      BY <2>1, <2>2, <2>3, HandlerGoesOn DEF Alive
  <1>3. CASE LeftPayload(c)
    <2> DEFINE t == [th[c] EXCEPT !.pc = "left", !.i = @ + 1]
    <2>1. /\ th[c].pc = "leftPayload" /\ th' = [th EXCEPT ![c] = t]
          /\ sent' = sent
      BY <1>3 DEF LeftPayload, At
    <2>2. /\ t.pc = "left" /\ t.got = th[c].got
          /\ t.fd = th[c].fd /\ t.pkt = th[c].pkt
      BY <1>1 DEF Thread
    <2> HIDE DEF t
    <2>3. LeavesPeers
      BY <1>1, <1>3, SendEffect DEF LeftPayload, SendPayload
    <2> QED
      BY <2>1, <2>2, <2>3, HandlerGoesOn DEF Alive
  <1>4. CASE LeftDone(c)
    <2>1. /\ th[c].pc = "left" /\ sent' = sent /\ LeavesPeers
          /\ th' = [th EXCEPT ![c] = Idle(th[c], 0)]
      BY <1>4 DEF LeftDone, At, Return, LeavesPeers
    <2>2. Idle(th[c], 0).pc = "recv"
      BY <1>1, IdleType
    <2> QED
      BY <2>1, <2>2, HandlerReturns DEF Alive
  <1> QED
    BY <1>2, <1>3, <1>4

\* managePeerChat relays a CHAT as it is.
LEMMA PeerChatHandler ==
    ASSUME IndInv, HandlerInv, NEW c \in Conns,
           PeerChat(c) \/ PeerChatPayload(c)
    PROVE  HandlerInv'
  <1>1. th[c] \in Thread /\ NetTypeOK
    BY KnownTypes
  <1>2. CASE PeerChat(c)
    <2>1. /\ Alive(c) /\ th[c].got \in Nat
          /\ sent[c][th[c].got + 1] = Incoming(c) /\ Incoming(c).type = "CHAT"
      BY <1>2, IncomingPlace DEF PeerChat
    <2> DEFINE t == [th[c] EXCEPT !.pc = "chatPayload", !.got = @ + 1,
                                  !.pkt = Incoming(c)]
    <2>2. th' = [th EXCEPT ![c] = t] /\ sent' = sent
      BY <1>2 DEF PeerChat
    <2>3. t.pc = "chatPayload" /\ t.got = th[c].got + 1 /\ t.pkt = Incoming(c)
      BY <1>1 DEF Thread
    <2> HIDE DEF t
    <2>4. th'[c] = t /\ Frame(c)
      BY <2>2, KnownTypes DEF Frame
    <2>5. LeavesPeers
      BY <1>1, <1>2, SendEffect DEF PeerChat, SendHeader
    <2>6. InHandler(c)' /\ t.pc # "new"
      BY <2>1, <2>2, <2>3, <2>4 DEF InHandler
    <2> QED
      BY <2>1, <2>2, <2>4, <2>5, <2>6, HandlerStep
  <1>3. CASE PeerChatPayload(c)
    <2>1. /\ th[c].pc = "chatPayload" /\ sent' = sent
          /\ th' = [th EXCEPT ![c] = Idle(th[c], 0)]
      BY <1>3 DEF PeerChatPayload, At, Return
    <2>2. LeavesPeers
      BY <1>1, <1>3, SendEffect DEF PeerChatPayload, SendPayload
    <2>3. Idle(th[c], 0).pc = "recv"
      BY <1>1, IdleType
    <2> QED
      BY <2>1, <2>2, <2>3, HandlerReturns DEF Alive
  <1> QED
    BY <1>2, <1>3

----------------------------------------------------------------------------
(* The other steps of a thread, and the users. *)

\* accept(), the end of the stream and the two crashes of the process.
LEMMA OtherHandler ==
    ASSUME IndInv, HandlerInv, NEW c \in Conns,
           Accept(c) \/ Close(c) \/ ReadsNull(c) \/ FollowsFreedPointer(c)
    PROVE  HandlerInv'
  <1>1. th[c] \in Thread /\ NetTypeOK
    BY KnownTypes
  <1>2. CASE Accept(c)
    <2>1. PICK f \in Fds :
            th' = [th EXCEPT ![c] = [th[c] EXCEPT !.pc = "recv", !.fd = f]]
      BY <1>2 DEF Accept
    <2>2. /\ th[c].pc = "new" /\ sent' = sent
          /\ peer' = [peer EXCEPT ![c] = "open"]
      BY <1>2 DEF Accept
    <2> DEFINE t == [th[c] EXCEPT !.pc = "recv", !.fd = f]
    <2>3. t.pc = "recv"
      BY <1>1 DEF Thread
    <2> HIDE DEF t
    <2>4. th'[c].pc = "recv" /\ \A d \in Conns \ {c} : th'[d] = th[d]
      BY <2>1, <2>3, KnownTypes DEF t
    <2>5. sent[c] = <<>>
      BY <2>2 DEF HandlerInv, InStream
    <2>6. ASSUME NEW d \in Conns
          PROVE  InStream(d)' /\ InHandler(d)'
      <3>1. CASE d = c
        BY <2>2, <2>4, <2>5, <3>1 DEF InStream, InHandler
      <3>2. CASE d # c
        <4>1. th'[d] = th[d] /\ peer'[d] = peer[d]
          BY <1>1, <2>2, <2>4, <3>2 DEF NetTypeOK
        <4> QED
          BY <2>2, <4>1, SameHandler, SameStream DEF HandlerInv
      <3> QED
        BY <3>1, <3>2
    <2> QED
      BY <2>6 DEF HandlerInv
  <1>3. CASE Close(c)
    <2> DEFINE t == [Idle(th[c], 0) EXCEPT !.pc = "closed"]
    <2>1. /\ th[c].pc = "recv" /\ th' = [th EXCEPT ![c] = t] /\ sent' = sent
          /\ LeavesPeers
      BY <1>3 DEF Close, At, LeavesPeers
    <2>2. t.pc = "closed"
      BY <1>1, IdleType DEF Thread
    <2> HIDE DEF t
    <2> QED
      BY <2>1, <2>2, HandlerReturns DEF Alive
  <1>4. CASE ReadsNull(c) \/ FollowsFreedPointer(c)
    <2>1. UNCHANGED <<th, sent, peer>>
      BY <1>4 DEF ReadsNull, FollowsFreedPointer
    <2> QED
      BY <2>1, SameHandler, SameStream DEF HandlerInv
  <1> QED
    BY <1>2, <1>3, <1>4

\* A client that is still there writes one more packet: an INTRO if it is the
\* first, and its last word only when it goes.
LEMMA UserHandler ==
    ASSUME IndInv, HandlerInv, NEW c \in Conns, NEW p,
           peer[c] = "open", th' = th,
           p.type = "INTRO" <=> sent[c] = <<>>,
           sent' = [sent EXCEPT ![c] = Append(@, p)],
           \/ peer' = peer /\ p.type # "USER_LEFT" /\ p.whole
           \/ peer' = [peer EXCEPT ![c] = "shut"]
    PROVE  HandlerInv'
  <1>1. /\ sent \in [Conns -> Seq(Packet)] /\ peer \in [Conns -> PeerStates]
        /\ sent[c] \in Seq(Packet) /\ Len(sent[c]) \in Nat
    BY KnownTypes DEF NetTypeOK
  <1>2. /\ sent'[c] = Append(sent[c], p) /\ \A d \in Conns \ {c} : sent'[d] = sent[d]
        /\ Len(sent'[c]) = Len(sent[c]) + 1
        /\ DOMAIN sent[c] = 1 .. Len(sent[c])
        /\ DOMAIN sent'[c] = 1 .. Len(sent[c]) + 1
        /\ \A k \in 1 .. Len(sent[c]) : sent'[c][k] = sent[c][k]
        /\ sent'[c][Len(sent[c]) + 1] = p
        /\ sent[c] = <<>> <=> Len(sent[c]) = 0
    BY <1>1
  <1>3. /\ th[c].pc # "new"
        /\ \A k \in 1 .. Len(sent[c]) :
             /\ sent[c][k].type = "INTRO" <=> k = 1
             /\ sent[c][k].type # "USER_LEFT" /\ sent[c][k].whole
    BY <1>2 DEF HandlerInv, InStream
  <1>4. \A k \in DOMAIN sent'[c] :
          /\ sent'[c][k].type = "INTRO" <=> k = 1
          /\ sent'[c][k].type = "USER_LEFT" \/ ~sent'[c][k].whole
               => k = Len(sent'[c]) /\ peer'[c] # "open"
    BY <1>1, <1>2, <1>3
  <1>5. ASSUME NEW d \in Conns
        PROVE  InStream(d)'
    <2>1. CASE d = c
      BY <1>3, <1>4, <2>1 DEF InStream
    <2>2. CASE d # c
      <3>1. sent'[d] = sent[d] /\ peer'[d] = peer[d]
        BY <1>1, <1>2, <2>2
      <3> QED
        BY <3>1, SameStream DEF HandlerInv
    <2> QED
      BY <2>1, <2>2
  <1>6. ASSUME NEW d \in Conns
        PROVE  InHandler(d)'
    <2>1. th[d].got \in Nat /\ th[d].got <= Len(sent[d])
      BY KnownTypes DEF NewsInv, Thread
    <2>2. \A k \in 1 .. th[d].got : sent'[d][k] = sent[d][k]
      BY <1>1, <1>2, <2>1
    <2>3. InHandler(d)
      BY DEF HandlerInv
    <2>4. th[d].got >= 1 => /\ sent'[d][1] = sent[d][1]
                            /\ sent'[d][th[d].got] = sent[d][th[d].got]
      BY <2>1, <2>2
    <2>5. SaidGoodbye(d)' <=> SaidGoodbye(d)
      BY <2>1, <2>4 DEF SaidGoodbye
    <2>6. Left(d)' = Left(d)
      BY DEF Left
    <2> QED
      BY <2>1, <2>3, <2>4, <2>5, <2>6 DEF InHandler
  <1> QED
    BY <1>5, <1>6 DEF HandlerInv

\* Whatever a client does, it does it so.
LEMMA UserStepHandler ==
    ASSUME IndInv, HandlerInv, NEW c \in Conns, UserStep(c)
    PROVE  HandlerInv'
  <1>1. /\ sent \in [Conns -> Seq(Packet)] /\ peer \in [Conns -> PeerStates]
    BY KnownTypes DEF NetTypeOK
  \* A packet that is not the last one, whole or torn.
  <1>2. ASSUME NEW p \in Packet, Write(c, p), th' = th, peer[c] = "open",
               p.type # "USER_LEFT", p.whole,
               p.type = "INTRO" <=> sent[c] = <<>>
        PROVE  HandlerInv'
    <2> DEFINE torn == [p EXCEPT !.whole = FALSE]
    <2>1. torn.type = p.type
      BY DEF Packet
    <2>2. \/ sent' = [sent EXCEPT ![c] = Append(@, p)] /\ peer' = peer
          \/ /\ sent' = [sent EXCEPT ![c] = Append(@, torn)]
             /\ peer' = [peer EXCEPT ![c] = "shut"]
      BY <1>2 DEF Write
    <2> HIDE DEF torn
    <2> QED
      BY <1>2, <2>1, <2>2, UserHandler
  <1>3. CASE SendIntro(c)
    <2> DEFINE p == [Blank EXCEPT !.type = "INTRO", !.name = c]
    <2>1. p \in Packet
      BY BlankType DEF Packet, Types, Names
    <2>2. p.type = "INTRO" /\ p.whole
      BY DEF Blank
    <2>3. Write(c, p) /\ th' = th /\ peer[c] = "open" /\ sent[c] = <<>>
      BY <1>3 DEF SendIntro
    <2> HIDE DEF p
    <2> QED
      BY <1>2, <2>1, <2>2, <2>3
  <1>4. CASE SendChat(c)
    <2>1. PICK f \in KnownFds(c) :
            Write(c, [Blank EXCEPT !.type = "CHAT", !.fd = f, !.name = c])
      BY <1>4 DEF SendChat
    <2> DEFINE p == [Blank EXCEPT !.type = "CHAT", !.fd = f, !.name = c]
    <2>2. f \in AnyFd
      BY KnownTypes, KnownFdsType
    <2>3. p \in Packet
      BY <2>2, BlankType DEF Packet, Types, Names
    <2>4. p.type = "CHAT" /\ p.whole
      BY DEF Blank
    <2>5. Write(c, p) /\ th' = th /\ peer[c] = "open" /\ sent[c] # <<>>
      BY <1>4, <2>1 DEF SendChat, CanWrite
    <2> HIDE DEF p
    <2> QED
      BY <1>2, <2>3, <2>4, <2>5
  <1>5. CASE Quit(c)
    <2> DEFINE p == [Blank EXCEPT !.type = "USER_LEFT"]
    <2>1. p.type = "USER_LEFT"
      BY DEF Blank
    <2>2. /\ sent' = [sent EXCEPT ![c] = Append(@, p)] /\ th' = th
          /\ peer[c] = "open" /\ sent[c] # <<>>
          /\ peer' = [peer EXCEPT ![c] = "shut"]
      BY <1>5 DEF Quit
    <2> HIDE DEF p
    <2> QED
      BY <2>1, <2>2, UserHandler
  <1>6. CASE Crash(c)
    <2>1. /\ UNCHANGED <<th, sent>> /\ peer[c] = "open"
          /\ peer' = [peer EXCEPT ![c] = "shut"]
      BY <1>6 DEF Crash
    <2>2. \A d \in Conns : peer'[d] = peer[d]
                            \/ (peer[d] # "none" /\ peer'[d] # "open")
      BY <1>1, <2>1
    <2> QED
      BY <2>1, <2>2, SameHandler, SameStream DEF HandlerInv
  <1> QED
    BY <1>3, <1>4, <1>5, <1>6 DEF UserStep

----------------------------------------------------------------------------
LEMMA InitHandler == Init => HandlerInv
  BY DEF Init, NetInit, NewThread, HandlerInv, InStream, InHandler

\* Every step keeps HandlerInv.
LEMMA NextHandler == IndInv /\ HandlerInv /\ [Next]_registryVars => HandlerInv'
  <1> SUFFICES ASSUME IndInv, HandlerInv, [Next]_registryVars
               PROVE  HandlerInv'
    OBVIOUS
  <1>1. CASE UNCHANGED registryVars
    BY <1>1, SameHandler, SameStream DEF registryVars, netVars, HandlerInv
  <1>2. CASE Stops
    BY <1>1, <1>2 DEF Stops
  <1>3. ASSUME NEW c \in Conns, ServerStep(c)
        PROVE  HandlerInv'
    BY <1>3, NewClientHandler, IntroduceHandler, RegisterHandler, ListHandler,
       LeftClientHandler, LeftHandler, PeerChatHandler, OtherHandler
       DEF ServerStep, RegistryHandler
  <1>4. ASSUME NEW c \in Conns, UserStep(c)
        PROVE  HandlerInv'
    BY <1>4, UserStepHandler
  <1> QED
    BY <1>1, <1>2, <1>3, <1>4 DEF Next

\* Every handler runs on the packet it is for, whatever the clients do: the
\* INTRO is the first packet of a stream and is introduced once, and nothing
\* follows a USER_LEFT or a torn packet.
THEOREM HandlersMatch == Spec => []HandlerInv
  BY InitInv, NextInv, InitHandler, NextHandler, PTL DEF Spec
=============================================================================
