---------------------------- MODULE MeetingProofs ----------------------------
(***************************************************************************)
(* What users are told of each other while no array moves: of two that are *)
(* registered at least one hears of the other (NoMutualStrangers); none is *)
(* told of another too often (ToldOncePerDeparture); who has been told of  *)
(* a user is told when it leaves (LeaverAnnounced); all of that also with  *)
(* crashes.  None hears of itself (NoSelfNews), without.  Proofs for any   *)
(* finite number of connections and any number of descriptors.             *)
(***************************************************************************)
EXTENDS CountProofs

\* c has been told of d, or its list of users is still to come and will name
\* d: the payload is made of the slots up to n, whatever they hold by then.
WillKnow(c, d) ==
    \/ Told(c, d)
    \/ th[c].pc = "list"
    \/ /\ th[c].pc = "listPayload"
       /\ \E s \in 1 .. clientList.size :
            clientList.clients[s].FD = th[d].fd /\ s <= th[c].n

\* A registered user whose connection is open.
Present(c) == Registered(c) /\ peer[c] = "open"

MeetInv ==
    /\ \A c \in Conns : peer[c] = "open" => th[c].pc # "closed"
    /\ \A c, d \in Conns :
         (c # d /\ Present(c) /\ Present(d)) => WillKnow(c, d) \/ WillKnow(d, c)

----------------------------------------------------------------------------
(* What every step leaves. *)

StreamsGrow ==
    \A x \in Conns : \A k \in DOMAIN out[x] :
      k \in DOMAIN out'[x] /\ out'[x][k] = out[x][k]

LEMMA EmitsGrows ==
    ASSUME NetTypeOK, NEW c \in Conns, NEW f, NEW part, NEW p,
           Emits(c, f, part, p)
    PROVE  StreamsGrow
  <1> SUFFICES ASSUME NEW x \in Conns, NEW k \in DOMAIN out[x]
               PROVE  k \in DOMAIN out'[x] /\ out'[x][k] = out[x][k]
    BY DEF StreamsGrow
  <1> DEFINE chunk == [part |-> part, by |-> c, pkt |-> p]
  <1>1. /\ out \in [Conns -> Seq(Chunk)] /\ out[x] \in Seq(Chunk)
        /\ Len(out[x]) \in Nat /\ DOMAIN out[x] = 1 .. Len(out[x])
    BY LenProperties DEF NetTypeOK
  <1>2. out'[x] = out[x] \/ out'[x] = Append(out[x], chunk)
    BY <1>1 DEF Emits
  <1> HIDE DEF chunk
  <1> QED
    BY <1>1, <1>2

LEMMA ServerGrows ==
    ASSUME IndInv, NEW c \in Conns, ServerStep(c)
    PROVE  /\ StreamsGrow
           /\ \A x \in Conns : peer'[x] = "open" => peer[x] = "open" \/ Accept(x)
  <1>1. NetTypeOK /\ peer \in [Conns -> PeerStates]
    BY KnownTypes DEF NetTypeOK
  <1>2. ASSUME NEW f, NEW part, NEW p, Send(c, f, part, p)
        PROVE  /\ StreamsGrow
               /\ \A x \in Conns : peer'[x] = "open" => peer[x] = "open"
    BY <1>1, <1>2, SendEffect, EmitsGrows DEF LeavesPeers
  <1>3. CASE \/ IntroduceHeader(c) \/ IntroducePayload(c) \/ ListHeader(c)
             \/ ListPayload(c) \/ LeftHeader(c) \/ LeftPayload(c)
             \/ PeerChat(c) \/ PeerChatPayload(c)
    <2>1. \E f, part, p : Send(c, f, part, p)
      BY <1>3 DEF IntroduceHeader, IntroducePayload, ListHeader, ListPayload,
         LeftHeader, LeftPayload, PeerChat, PeerChatPayload, SendHeader,
         SendPayload
    <2> QED
      BY <1>2, <2>1
  <1>4. CASE out' = out /\ peer' = peer
    BY <1>4 DEF StreamsGrow
  <1>5. CASE Accept(c)
    BY <1>1, <1>5 DEF StreamsGrow, Accept
  <1> QED
    BY <1>3, <1>4, <1>5 DEF ServerStep, RegistryHandler, Close, ReadsNull,
       NewClient, Register, FollowsFreedPointer, LeftClient, LeftDone

\* Who has been told stays told, as long as the other has its descriptor.
LEMMA ToldStays ==
    ASSUME StreamsGrow, NEW c \in Conns, NEW d \in Conns, Told(c, d),
           th'[d].fd = th[d].fd
    PROVE  Told(c, d)'
  <1>1. PICK k \in DOMAIN out[c] :
          /\ out[c][k].part = "payload"
          /\ \/ out[c][k].pkt.type = "USER_JOINED_SERVER" /\ out[c][k].pkt.name = d
             \/ /\ out[c][k].pkt.type = "CLIENT_LIST"
                /\ \E j \in DOMAIN out[c][k].pkt.list :
                     out[c][k].pkt.list[j].FD = th[d].fd
    BY DEF Told, Payloads
  <1>2. k \in DOMAIN out'[c] /\ out'[c][k] = out[c][k]
    BY DEF StreamsGrow
  <1>3. out'[c][k].pkt \in Payloads(c)'
    BY <1>1, <1>2 DEF Payloads
  <1> QED
    BY <1>1, <1>2, <1>3 DEF Told

----------------------------------------------------------------------------
(* The steps that concern the list. *)

\* A user that is present has a slot, and a thread.
LEMMA PresentSlot ==
    ASSUME IndInv, HandlerInv, RegistryCounts, MeetInv,
           IsFiniteSet(Conns), NEW d \in Conns, Present(d)
    PROVE  /\ Alive(d) /\ th[d].fd \in Fds /\ fdTable[th[d].fd] = d
           /\ \E s \in 1 .. clientList.size :
                clientList.clients[s].FD = th[d].fd
  <1>1. Alive(d)
    BY DEF Present, MeetInv, HandlerInv, InStream, Alive
  <1>2. th[d].fd \in Fds /\ fdTable[th[d].fd] = d
    BY <1>1 DEF Alive, IndInv, FdInv, OneThreadPerFd
  <1>3. SlotsOf(clientList, th[d].fd) # {}
    <2>1. d \in RegisteredOn(th[d].fd)
      BY DEF Present, RegisteredOn
    <2>2. IsFiniteSet(RegisteredOn(th[d].fd))
      BY RegisteredFinite
    <2>3. Cardinality(SlotsOf(clientList, th[d].fd)) # 0
      BY <1>2, <2>1, <2>2, FS_EmptySet DEF RegistryCounts, RegisteredOn
    <2> QED
      BY <2>3, FS_EmptySet
  <1> QED
    BY <1>1, <1>2, <1>3 DEF SlotsOf, Live

\* The payload of the list tells its reader of d.
LEMMA ListTells ==
    ASSUME IndInv, HandlerInv, ReaderInv, NEW c \in Conns, NEW d \in Conns,
           ListPayload(c), peer[c] = "open", fdTable[th[c].fd] = c,
           th[c].fd \in Fds,
           NEW s \in 1 .. clientList.size,
           clientList.clients[s].FD = th[d].fd, s <= th[c].n,
           th'[d].fd = th[d].fd
    PROVE  Told(c, d)'
  <1> DEFINE entries == SubSeq(clientList.clients, 1, th[c].n)
             p == [th[c].pkt EXCEPT !.list = entries]
             chunk == [part |-> "payload", by |-> c, pkt |-> p]
  <1>1. /\ th[c] \in Thread /\ th[c].pc = "listPayload" /\ ~th[c].stale
        /\ th[c].pkt.type = "CLIENT_LIST"
        /\ th[c].n <= Len(clientList.clients)
        /\ out \in [Conns -> Seq(Chunk)]
    BY KnownTypes DEF ListPayload, At, ReaderInv, HandlerInv, InHandler,
       SlotInv, HoldsCopy, NetTypeOK
  <1>2. Send(c, th[c].fd, "payload", p)
    BY <1>1 DEF ListPayload, SendPayload
  <1>3. p.list = entries /\ p.type = "CLIENT_LIST"
    BY <1>1 DEF Thread, Packet
  <1>4. s \in DOMAIN entries /\ entries[s] = clientList.clients[s]
    <2>1. /\ th[c].n \in Nat /\ clientList.clients \in Seq(Entries)
          /\ s \in 1 .. th[c].n
      BY <1>1, KnownTypes DEF Thread
    <2> HIDE DEF Entries
    <2> QED
      BY <1>1, <2>1
  <1>5. out' = [out EXCEPT ![c] = Append(@, chunk)]
    BY <1>2 DEF Send
  <1>6. chunk.part = "payload" /\ chunk.pkt = p
    OBVIOUS
  <1> HIDE DEF entries, p, chunk
  <1>7. /\ out[c] \in Seq(Chunk) /\ Len(out[c]) \in Nat
        /\ out'[c] = Append(out[c], chunk)
    BY <1>1, <1>5
  <1>8. Len(out[c]) + 1 \in DOMAIN out'[c] /\ out'[c][Len(out[c]) + 1] = chunk
    BY <1>7
  <1>9. p \in Payloads(c)'
    BY <1>6, <1>8 DEF Payloads
  <1> QED
    BY <1>3, <1>4, <1>9 DEF Told

\* A step of any thread keeps what c knows or will know of d, both present.
LEMMA KnowsStep ==
    ASSUME IsFiniteSet(Conns), IndInv, HandlerInv, ReaderInv, RegistryCounts,
           MeetInv, NEW e \in Conns, ServerStep(e),
           NEW c \in Conns, NEW d \in Conns, c # d, Present(c), Present(d),
           Registered(c)', Registered(d)', WillKnow(c, d)
    PROVE  WillKnow(c, d)'
  <1>1. /\ clientList \in ClientList(Names, AnyFd) /\ clientList.size \in Nat
        /\ clientList.size <= Len(clientList.clients)
        /\ th \in [Conns -> Thread]
        /\ \A x \in Conns : th[x] \in Thread /\ th[x].n \in Nat
    BY KnownTypes DEF Thread
  <1>2. /\ Alive(c) /\ Alive(d)
        /\ th[c].fd \in Fds /\ fdTable[th[c].fd] = c
        /\ th[d].fd \in Fds /\ fdTable[th[d].fd] = d
    BY PresentSlot
  <1>3. PICK s \in 1 .. clientList.size : clientList.clients[s].FD = th[d].fd
    BY PresentSlot
  <1>4. th'[d].fd = th[d].fd
    BY <1>2, ServerKeeps DEF DescriptorsKept, Alive
  <1>5. Frame(e) /\ sent' = sent /\ StreamsGrow
    BY ServerFrame, ServerGrows
  <1>6. CASE Told(c, d)
    BY <1>4, <1>5, <1>6, ToldStays DEF WillKnow
  \* What is left is that c waits for its list.
  <1>7. CASE th[c].pc = "list" /\ e = c
    <2>1. CASE ListHeader(c)
      <3>1. PICK p : th' = [th EXCEPT ![c] = [th[c] EXCEPT
                       !.pc = "listPayload", !.pkt = p,
                       !.n = clientList.size]]
        BY <2>1 DEF ListHeader
      <3> DEFINE t == [th[c] EXCEPT !.pc = "listPayload", !.pkt = p,
                                    !.n = clientList.size]
      <3>2. t.pc = "listPayload" /\ t.n = clientList.size
        BY <1>1 DEF Thread
      <3>3. th'[c] = t /\ clientList' = clientList
        BY <1>1, <2>1, <3>1 DEF ListHeader
      <3> HIDE DEF t
      <3>4. s <= clientList.size
        BY <1>1
      <3> QED
        BY <1>3, <1>4, <3>2, <3>3, <3>4 DEF WillKnow
    <2>2. CASE ~ListHeader(c)
      BY <1>7, <2>2 DEF ServerStep, RegistryHandler, Accept, Close, ReadsNull,
         NewClient, IntroduceHeader, IntroducePayload, Register, ListPayload,
         FollowsFreedPointer, LeftClient, LeftHeader, LeftPayload, LeftDone,
         PeerChat, PeerChatPayload, Receives, At
    <2> QED
      BY <2>1, <2>2
  <1>8. CASE th[c].pc = "list" /\ e # c
    BY <1>5, <1>8 DEF Frame, WillKnow
  <1>9. ASSUME th[c].pc = "listPayload",
               NEW r \in 1 .. clientList.size,
               clientList.clients[r].FD = th[d].fd, r <= th[c].n
        PROVE  WillKnow(c, d)'
    <2>1. CASE e = c
      <3>1. CASE ListPayload(c)
        BY <1>2, <1>4, <1>9, <3>1, ListTells DEF WillKnow, Present
      <3>2. CASE FollowsFreedPointer(c)
        BY <1>9, <3>2 DEF FollowsFreedPointer, WillKnow
      <3>3. CASE ~ListPayload(c) /\ ~FollowsFreedPointer(c)
        BY <1>9, <2>1, <3>3 DEF ServerStep, RegistryHandler, Accept, Close,
           ReadsNull, NewClient, IntroduceHeader, IntroducePayload, Register,
           ListHeader, LeftClient, LeftHeader, LeftPayload, LeftDone,
           PeerChat, PeerChatPayload, Receives, At
      <3> QED
        BY <3>1, <3>2, <3>3
    <2>2. CASE e # c
      <3>1. th'[c].pc = "listPayload" /\ th'[c].n = th[c].n
        BY <1>5, <1>9, <2>2 DEF Frame
      <3>2. CASE Register(e)
        <4> DEFINE client == [name |-> th[e].pkt.name, FD |-> th[e].fd]
        <4>1. clientList' = addClientInClientList(clientList, client)
          BY <3>2 DEF Register
        <4> HIDE DEF client
        <4>2. r \in 1 .. clientList'.size /\ clientList'.clients[r] = clientList.clients[r]
          BY <1>1, <4>1, AdditionKeeps
        <4> QED
          BY <1>4, <1>9, <3>1, <4>2 DEF WillKnow
      <3>3. CASE LeftClient(e)
        <4>1. clientList' = removeClientFromClientList(clientList, th[e].fd)
          BY <3>3 DEF LeftClient
        <4>2. th[d].fd # th[e].fd
          <5>1. th[e].pc = "recv"
            BY <3>3 DEF LeftClient, Receives
          <5>2. th[e].fd \in Fds /\ fdTable[th[e].fd] = e
            BY <5>1 DEF IndInv, FdInv, OneThreadPerFd
          <5>3. ~Registered(e)'
            BY <3>3, LeftEntry
          <5> QED
            BY <1>2, <5>2, <5>3
        <4>3. PICK q \in 1 .. clientList'.size :
                q <= r /\ clientList'.clients[q].FD = clientList.clients[r].FD
          BY <1>1, <1>9, <4>1, <4>2, RemovalKeeps
        <4>4. q <= th[c].n
          BY <1>1, <1>9, <4>3
        <4> QED
          BY <1>4, <1>9, <3>1, <4>3, <4>4 DEF WillKnow
      <3>4. CASE ~Register(e) /\ ~LeftClient(e)
        <4>1. clientList' = clientList
          BY <3>4, OwnEntry
        <4> QED
          BY <1>4, <1>9, <3>1, <4>1 DEF WillKnow
      <3> QED
        BY <3>2, <3>3, <3>4
    <2> QED
      BY <2>1, <2>2
  <1> QED
    BY <1>6, <1>7, <1>8, <1>9 DEF WillKnow

\* Only close() ends a thread.
LEMMA OnlyCloseCloses ==
    ASSUME IndInv, HandlerInv, NEW c \in Conns, ServerStep(c), ~Close(c),
           th[c].pc # "closed"
    PROVE  th'[c].pc # "closed"
  <1>1. th[c] \in Thread /\ th \in [Conns -> Thread] /\ th[c].got \in Nat
    BY KnownTypes DEF Thread
  <1>2. CASE ListPayload(c) \/ LeftDone(c) \/ PeerChatPayload(c)
    BY <1>2, ReturnFrame DEF ListPayload, LeftDone, PeerChatPayload
  <1>3. CASE Register(c)
    BY <1>3, RegisterFrame
  <1>4. ASSUME NEW t, th' = [th EXCEPT ![c] = t], t.pc # "closed"
        PROVE  th'[c].pc # "closed"
    BY <1>1, <1>4
  <1>5. CASE NewClient(c)
    <2>1. Idle(th[c], 1).pc = "recv"
      BY <1>1, IdleType
    <2> DEFINE t == [th[c] EXCEPT !.pc = "introduce", !.got = @ + 1,
                                  !.pkt = Joined(c), !.i = 1,
                                  !.n = clientList.size]
    <2>2. t.pc = "introduce"
      BY <1>1 DEF Thread
    <2>3. \/ th' = [th EXCEPT ![c] = t]
          \/ th' = [th EXCEPT ![c] = Idle(th[c], 1)]
      BY <1>5 DEF NewClient, ReceiveAndReturn
    <2> HIDE DEF t
    <2> QED
      BY <1>4, <2>1, <2>2, <2>3
  <1>6. CASE \/ IntroduceHeader(c) \/ IntroducePayload(c) \/ ListHeader(c)
             \/ LeftClient(c) \/ LeftHeader(c) \/ LeftPayload(c)
             \/ PeerChat(c) \/ Accept(c)
    <2>1. CASE IntroduceHeader(c)
      BY <1>1, <2>1 DEF Thread, IntroduceHeader
    <2>2. CASE IntroducePayload(c)
      BY <1>1, <2>2 DEF Thread, IntroducePayload
    <2>3. CASE ListHeader(c)
      BY <1>1, <2>3 DEF Thread, ListHeader
    <2>4. CASE LeftClient(c)
      BY <1>1, <2>4 DEF Thread, LeftClient
    <2>5. CASE LeftHeader(c)
      BY <1>1, <2>5 DEF Thread, LeftHeader
    <2>6. CASE LeftPayload(c)
      BY <1>1, <2>6 DEF Thread, LeftPayload
    <2>7. CASE PeerChat(c)
      BY <1>1, <2>7 DEF Thread, PeerChat
    <2>8. CASE Accept(c)
      BY <1>1, <2>8 DEF Thread, Accept
    <2> QED
      BY <1>6, <2>1, <2>2, <2>3, <2>4, <2>5, <2>6, <2>7, <2>8
  <1>7. CASE ReadsNull(c) \/ FollowsFreedPointer(c)
    BY <1>7 DEF ReadsNull, FollowsFreedPointer
  <1> QED
    BY <1>2, <1>3, <1>5, <1>6, <1>7 DEF ServerStep, RegistryHandler

\* Who is present was present before, or has just been added.
LEMMA WasPresent ==
    ASSUME IndInv, HandlerInv, NEW e \in Conns, ServerStep(e),
           NEW c \in Conns, Present(c)'
    PROVE  /\ peer[c] = "open"
           /\ Present(c) \/ th'[c].pc = "list"
  <1>1. th[c].got \in Nat /\ InHandler(c)
    BY KnownTypes DEF Thread, HandlerInv
  <1>2. Registered(c) \/ (c = e /\ Register(e))
    <2>1. CASE c # e
      BY <1>1, <2>1, ServerFrame, FrameStays, StaysEntry DEF Present, SameEntry
    <2>2. CASE c = e /\ ~Register(e) /\ ~LeftClient(e)
      BY <2>2, OwnEntry DEF Present, SameEntry
    <2>3. CASE c = e /\ LeftClient(e)
      BY <2>3, LeftEntry
    <2> QED
      BY <2>1, <2>2, <2>3
  <1>3. ~Accept(c)
    <2>1. CASE Accept(c)
      <3>1. th[c].pc = "new" /\ ~Registered(c)
        BY <1>1, <2>1 DEF Accept, InHandler, Registered
      <3> QED
        BY <1>2, <3>1 DEF Register, At
    <2> QED
      BY <2>1
  <1>4. peer[c] = "open"
    BY <1>3, ServerGrows DEF Present
  <1> QED
    BY <1>2, <1>4, RegisterFrame DEF Present

\* Every step keeps MeetInv.
LEMMA ServerMeets ==
    ASSUME IsFiniteSet(Conns), IndInv, HandlerInv, ReaderInv, RegistryCounts,
           MeetInv, NEW e \in Conns, ServerStep(e)
    PROVE  MeetInv'
  <1>1. ASSUME NEW c \in Conns, peer'[c] = "open"
        PROVE  th'[c].pc # "closed"
    <2>1. CASE peer[c] = "open"
      <3>1. th[c].pc # "closed"
        BY <2>1 DEF MeetInv
      <3>2. CASE c # e
        BY <3>1, <3>2, ServerFrame DEF Frame
      <3>3. CASE c = e
        <4>1. ~Close(c)
          BY <2>1 DEF Close
        <4> QED
          BY <3>1, <3>3, <4>1, OnlyCloseCloses
      <3> QED
        BY <3>2, <3>3
    <2>2. CASE peer[c] # "open"
      <3>1. Accept(c)
        BY <1>1, <2>2, ServerGrows
      <3>2. PICK f \in Fds :
              th' = [th EXCEPT ![c] = [th[c] EXCEPT !.pc = "recv", !.fd = f]]
        BY <3>1 DEF Accept
      <3>3. th'[c].pc = "recv"
        BY <3>2, KnownTypes DEF Thread
      <3> QED
        BY <3>3
    <2> QED
      BY <2>1, <2>2
  <1>2. ASSUME NEW c \in Conns, NEW d \in Conns, c # d,
               Present(c)', Present(d)'
        PROVE  WillKnow(c, d)' \/ WillKnow(d, c)'
    <2>1. CASE Present(c) /\ Present(d)
      <3>1. WillKnow(c, d) \/ WillKnow(d, c)
        BY <1>2, <2>1 DEF MeetInv
      <3>2. WillKnow(c, d) => WillKnow(c, d)'
        BY <1>2, <2>1, KnowsStep DEF Present
      <3>3. WillKnow(d, c) => WillKnow(d, c)'
        BY <1>2, <2>1, KnowsStep DEF Present
      <3> QED
        BY <3>1, <3>2, <3>3
    <2>2. CASE th'[c].pc = "list" \/ th'[d].pc = "list"
      BY <2>2 DEF WillKnow
    <2> QED
      BY <1>2, <2>1, <2>2, WasPresent
  <1> QED
    BY <1>1, <1>2 DEF MeetInv

\* A user may go, and write, without anyone being forgotten.
LEMMA UserMeets ==
    ASSUME IndInv, MeetInv, NEW e \in Conns, UserStep(e)
    PROVE  MeetInv'
  <1>1. out' = out /\ \A d \in Conns : Stays(d)
    BY UserStays
  <1>2. th' = th /\ clientList' = clientList
    BY DEF UserStep, SendIntro, Quit, Crash, SendChat
  <1>3. \A c \in Conns : peer'[c] = "open" => peer[c] = "open"
    <2>1. peer \in [Conns -> PeerStates]
      BY KnownTypes DEF NetTypeOK
    <2> QED
      BY <2>1 DEF UserStep, SendIntro, Quit, Crash, SendChat, Write
  <1>4. \A c \in Conns : Present(c)' => Present(c)
    <2>1. \A c \in Conns : th[c].got \in Nat
      BY KnownTypes DEF Thread
    <2> QED
      BY <1>1, <1>3, <2>1, StaysEntry DEF Present, SameEntry
  <1>5. \A c, d \in Conns : WillKnow(c, d)' <=> WillKnow(c, d)
    BY <1>1, <1>2 DEF WillKnow, Told, Payloads
  <1> QED
    BY <1>2, <1>3, <1>4, <1>5 DEF MeetInv

LEMMA NextMeets ==
    ASSUME IsFiniteSet(Conns)
    PROVE  IndInv /\ HandlerInv /\ ReaderInv /\ RegistryCounts /\ MeetInv
             /\ [Next]_registryVars => MeetInv'
  <1> SUFFICES ASSUME IndInv, HandlerInv, ReaderInv, RegistryCounts, MeetInv,
                      [Next]_registryVars
               PROVE  MeetInv'
    OBVIOUS
  <1>1. CASE UNCHANGED registryVars
    BY <1>1 DEF registryVars, netVars, MeetInv, Present, Registered, WillKnow,
       Told, Payloads
  <1>2. CASE Stops
    BY <1>1, <1>2 DEF Stops
  <1> QED
    BY <1>1, <1>2, ServerMeets, UserMeets DEF Next

LEMMA MetIsNoStranger == MeetInv => NoMutualStrangers
  BY DEF MeetInv, Present, WillKnow, NoMutualStrangers

\* Whatever the interleaving of INTROs, departures and crashes, of two users
\* who are registered and have their lists at least one knows of the other,
\* while no array moves.
THEOREM NobodyStaysAlone ==
    ASSUME ~ReallocMoves, IsFiniteSet(Conns)
    PROVE  Spec => []NoMutualStrangers
  <1>1. Init => ReaderInv /\ MeetInv
    BY DEF Init, NetInit, NewThread, ReaderInv, OnList, SawItself, MeetInv,
       Present
  <1> QED
    BY <1>1, InitInv, NextInv, InitHandler, NextHandler, NextReader,
       InitCounts, NextCounts, NextMeets, MetIsNoStranger, PTL DEF Spec

----------------------------------------------------------------------------
(* Nobody hears of itself, while no client crashes. *)

\* A client that is gone has said goodbye, and its thread read that.
QuitInv ==
    \A c \in Conns :
      /\ th[c].pc # "new" => peer[c] # "none"
      /\ peer[c] \in {"shut", "reset"} =>
           /\ sent[c] # <<>>
           /\ sent[c][Len(sent[c])].type = "USER_LEFT"
      /\ th[c].pc = "closed" =>
           peer[c] \in {"shut", "reset"} /\ th[c].got = Len(sent[c])

\* What the thread of c is going to read from the array is not its own
\* descriptor, in whatever order the slots are filled and moved meanwhile.
Away(c) ==
    /\ th[c].pc \in {"introduce", "introducePayload"} =>
         \A s \in 1 .. th[c].n : clientList.clients[s].FD # th[c].fd
    /\ th[c].pc = "leftPayload" => clientList.clients[th[c].i].FD # th[c].fd

SelfInv == QuitInv /\ NoSelfNews /\ \A c \in Conns : Away(c)

\* The list has no entry for a thread whose client is not registered.
LEMMA Unlisted ==
    ASSUME IsFiniteSet(Conns), IndInv, HandlerInv, RegistryCounts, QuitInv,
           NEW c \in Conns, Alive(c), ~Registered(c)
    PROVE  \A s \in 1 .. clientList.size :
             clientList.clients[s].FD # th[c].fd
  <1>1. th[c].fd \in Fds /\ fdTable[th[c].fd] = c
    BY DEF Alive, IndInv, FdInv, OneThreadPerFd
  <1>2. ASSUME NEW e \in Conns, Registered(e), th[e].fd = th[c].fd
        PROVE  FALSE
    <2>1. ~Alive(e)
      BY <1>1, <1>2 DEF Alive, IndInv, FdInv, OneThreadPerFd
    <2>2. th[e].got >= 1 /\ sent[e][th[e].got].type # "USER_LEFT"
      BY <1>2 DEF Registered
    <2>3. th[e].pc # "new"
      BY <2>2 DEF HandlerInv, InHandler
    <2>4. th[e].pc = "closed"
      BY <2>1, <2>3 DEF Alive
    <2> QED
      BY <2>2, <2>4 DEF QuitInv
  <1>3. RegisteredOn(th[c].fd) = {}
    BY <1>2 DEF RegisteredOn
  <1>4. Cardinality(SlotsOf(clientList, th[c].fd)) = 0
    BY <1>1, <1>3, FS_EmptySet DEF RegistryCounts, RegisteredOn
  <1>5. SlotsOf(clientList, th[c].fd) = {}
    <2>1. IsFiniteSet(SlotsOf(clientList, th[c].fd))
      BY KnownTypes, SlotsFinite
    <2> QED
      BY <1>4, <2>1, FS_EmptySet
  <1> QED
    BY <1>5 DEF SlotsOf, Live

\* Who introduces itself or leaves is not registered.
LEMMA NotRegistered ==
    ASSUME HandlerInv, NEW c \in Conns,
           th[c].pc \in {"introduce", "introducePayload", "left", "leftPayload"}
    PROVE  ~Registered(c) /\ Alive(c)
  BY DEF HandlerInv, InHandler, SaidGoodbye, Registered, Alive

\* What is in a slot, in use or not, was there before, is the new entry, or
\* was the last of those in use.
LEMMA SlotsMove ==
    ASSUME IndInv, NEW e \in Conns, Register(e) \/ LeftClient(e),
           NEW s \in 1 .. Len(clientList.clients)
    PROVE  \/ clientList'.clients[s].FD = clientList.clients[s].FD
           \/ Register(e) /\ clientList'.clients[s].FD = th[e].fd
           \/ /\ clientList.size \in 1 .. clientList.size
              /\ clientList'.clients[s].FD
                   = clientList.clients[clientList.size].FD
  <1>1. /\ clientList.clients \in Seq(Entries) /\ clientList.size \in Nat
        /\ Len(clientList.clients) \in Nat
        /\ clientList.size <= Len(clientList.clients)
        /\ DOMAIN clientList.clients = 1 .. Len(clientList.clients)
    BY KnownTypes, LenProperties
  <1>2. CASE Register(e)
    <2> DEFINE client == [name |-> th[e].pkt.name, FD |-> th[e].fd]
    <2>1. clientList' = addClientInClientList(clientList, client)
      BY <1>2 DEF Register
    <2>2. client.FD = th[e].fd
      OBVIOUS
    <2> HIDE DEF client
    <2>3. CASE clientList.size = Len(clientList.clients)
      <3>1. clientList'.clients = Append(clientList.clients, client)
        BY <2>1, <2>3 DEF addClientInClientList
      <3>2. clientList'.clients[s] = clientList.clients[s]
        BY <1>1, <3>1
      <3> QED
        BY <3>2
    <2>4. CASE clientList.size # Len(clientList.clients)
      <3>1. clientList'.clients
              = [clientList.clients EXCEPT ![clientList.size + 1] = client]
        BY <2>1, <2>4 DEF addClientInClientList
      <3>2. clientList'.clients[s] \in {clientList.clients[s], client}
        BY <1>1, <3>1
      <3> QED
        BY <1>2, <2>2, <3>2
    <2> QED
      BY <2>3, <2>4
  <1>3. CASE LeftClient(e)
    <2> DEFINE first == FirstSlot(clientList, th[e].fd)
               last == [clientList.clients[clientList.size] EXCEPT !.name = Freed]
    <2>1. clientList' = removeClientFromClientList(clientList, th[e].fd)
      BY <1>3 DEF LeftClient
    <2>2. CASE SlotsOf(clientList, th[e].fd) = {}
      BY <2>1, <2>2 DEF removeClientFromClientList
    <2>3. CASE SlotsOf(clientList, th[e].fd) # {}
      <3>1. clientList.size \in 1 .. clientList.size
        BY <1>1, <2>3 DEF SlotsOf, Live
      <3>2. last.FD = clientList.clients[clientList.size].FD
        <4>1. clientList.clients[clientList.size] \in Entries
          BY <1>1, <3>1, ElementOfSeq
        <4> QED
          BY <4>1 DEF Entries, Client
      <3>3. clientList'.clients = [clientList.clients EXCEPT ![first] = last,
                                              ![clientList.size] = last]
        BY <2>1, <2>3 DEF removeClientFromClientList
      <3> HIDE DEF first, last
      <3>4. clientList'.clients[s] \in {clientList.clients[s], last}
        BY <1>1, <3>3
      <3> QED
        BY <3>1, <3>2, <3>4
    <2> QED
      BY <2>2, <2>3
  <1> QED
    BY <1>2, <1>3

\* A step of another thread keeps d away from its own descriptor.
LEMMA OthersKeepAway ==
    ASSUME IsFiniteSet(Conns), IndInv, HandlerInv, RegistryCounts, QuitInv,
           NEW e \in Conns, ServerStep(e),
           NEW d \in Conns, d # e, Away(d)
    PROVE  Away(d)'
  <1>1. /\ th'[d].pc = th[d].pc /\ th'[d].fd = th[d].fd
        /\ th'[d].i = th[d].i /\ th'[d].n = th[d].n
    BY ServerFrame DEF Frame
  <1>2. CASE clientList' = clientList
    BY <1>1, <1>2 DEF Away
  <1>3. CASE /\ Register(e) \/ LeftClient(e)
             /\ th[d].pc \in {"introduce", "introducePayload", "leftPayload"}
    <2>1. ~Registered(d) /\ Alive(d)
      BY <1>3, NotRegistered
    <2>2. \A s \in 1 .. clientList.size : clientList.clients[s].FD # th[d].fd
      BY <2>1, Unlisted
    <2>3. Register(e) => th[e].fd # th[d].fd
      BY <2>1 DEF Alive, Register, At, IndInv, FdInv, OneThreadPerFd
    <2>4. \A s \in 1 .. Len(clientList.clients) :
            clientList.clients[s].FD # th[d].fd
              => clientList'.clients[s].FD # th[d].fd
      BY <1>3, <2>2, <2>3, SlotsMove
    <2>5. CASE th[d].pc \in {"introduce", "introducePayload"}
      <3>1. th[d].n <= Len(clientList.clients)
        BY <2>5, KnownTypes DEF SlotInv, HoldsCopy
      <3>2. th[d].n \in Nat /\ Len(clientList.clients) \in Nat
        BY KnownTypes DEF Thread
      <3> QED
        BY <1>1, <2>4, <2>5, <3>1, <3>2 DEF Away
    <2>6. CASE th[d].pc = "leftPayload"
      <3>1. th[d].i \in 1 .. Len(clientList.clients)
        BY <2>6, KnownTypes, LenProperties DEF SlotInv
      <3> QED
        BY <1>1, <2>4, <2>6, <3>1 DEF Away
    <2> QED
      BY <1>3, <2>5, <2>6
  <1>4. CASE th[d].pc \notin {"introduce", "introducePayload", "leftPayload"}
    BY <1>1, <1>4 DEF Away
  <1>5. clientList' = clientList \/ Register(e) \/ LeftClient(e)
    BY DEF ServerStep, RegistryHandler, NewClient,
       IntroduceHeader, IntroducePayload, ListHeader, ListPayload,
       FollowsFreedPointer, LeftHeader, LeftPayload, LeftDone, PeerChat,
       PeerChatPayload
  <1> QED
    BY <1>2, <1>3, <1>4, <1>5

\* ... and so does its own: it reads size, or loops up to a size it has read,
\* while it is not on the list.
LEMMA KeepsAway ==
    ASSUME IsFiniteSet(Conns), IndInv, HandlerInv, RegistryCounts, QuitInv,
           NEW c \in Conns, ServerStep(c), Away(c)
    PROVE  Away(c)'
  <1>1. /\ th[c] \in Thread /\ th \in [Conns -> Thread]
        /\ th[c].i \in Nat /\ clientList.size \in Nat
    BY KnownTypes DEF Thread
  <1>2. ASSUME th'[c].pc \notin {"introduce", "introducePayload", "leftPayload"}
        PROVE  Away(c)'
    BY <1>2 DEF Away
  <1>3. CASE NewClient(c)
    <2>1. CASE ReceiveAndReturn(c)
      <3>1. th'[c].pc = "recv"
        BY <1>1, <2>1, IdleType DEF ReceiveAndReturn
      <3> QED
        BY <1>2, <3>1
    <2>2. CASE ~ReceiveAndReturn(c)
      <3> DEFINE t == [th[c] EXCEPT !.pc = "introduce", !.got = @ + 1,
                                    !.pkt = Joined(c), !.i = 1,
                                    !.n = clientList.size]
      <3>1. th' = [th EXCEPT ![c] = t] /\ clientList' = clientList
        BY <1>3, <2>2 DEF NewClient
      <3>2. t.pc = "introduce" /\ t.n = clientList.size /\ t.fd = th[c].fd
        BY <1>1 DEF Thread
      <3> HIDE DEF t
      <3>3. th'[c] = t
        BY <1>1, <3>1
      <3>4. Alive(c) /\ ~Registered(c)
        <4>1. Alive(c) /\ th[c].got = 0
          BY <1>3, IncomingPlace DEF NewClient
        <4> QED
          BY <4>1 DEF Registered
      <3>5. \A s \in 1 .. clientList.size : clientList.clients[s].FD # th[c].fd
        BY <3>4, Unlisted
      <3> QED
        BY <3>1, <3>2, <3>3, <3>5 DEF Away
    <2> QED
      BY <2>1, <2>2
  <1>4. CASE IntroduceHeader(c) \/ IntroducePayload(c)
    <2>1. /\ th'[c].n = th[c].n /\ th'[c].fd = th[c].fd
          /\ th'[c].pc \in {"introduce", "introducePayload"}
      <3>1. CASE IntroduceHeader(c)
        <4>1. th'[c] = [th[c] EXCEPT !.pc = "introducePayload"]
          BY <1>1, <3>1 DEF IntroduceHeader
        <4> QED
          BY <1>1, <4>1 DEF Thread
      <3>2. CASE IntroducePayload(c)
        <4>1. th'[c] = [th[c] EXCEPT !.pc = "introduce", !.i = th[c].i + 1]
          BY <1>1, <3>2 DEF IntroducePayload
        <4> QED
          BY <1>1, <4>1 DEF Thread
      <3> QED
        BY <1>4, <3>1, <3>2
    <2>2. /\ th[c].pc \in {"introduce", "introducePayload"}
          /\ clientList' = clientList
      BY <1>4 DEF IntroduceHeader, IntroducePayload, At
    <2> QED
      BY <2>1, <2>2 DEF Away
  <1>5. CASE LeftHeader(c)
    <2>1. th'[c] = [th[c] EXCEPT !.pc = "leftPayload"] /\ clientList' = clientList
      BY <1>1, <1>5 DEF LeftHeader
    <2>2. /\ th'[c].pc = "leftPayload" /\ th'[c].i = th[c].i
          /\ th'[c].fd = th[c].fd
      BY <1>1, <2>1 DEF Thread
    <2>3. th[c].pc = "left" /\ th[c].i \in 1 .. clientList.size
      <3>1. th[c].pc = "left" /\ th[c].i <= clientList.size
        BY <1>5 DEF LeftHeader, At
      <3>2. th[c].i >= 1
        BY <3>1, KnownTypes DEF SlotInv
      <3> QED
        BY <1>1, <3>1, <3>2
    <2>4. clientList.clients[th[c].i].FD # th[c].fd
      BY <2>3, NotRegistered, Unlisted
    <2> QED
      BY <2>1, <2>2, <2>4 DEF Away
  <1>6. CASE Register(c)
    BY <1>2, <1>6, RegisterFrame
  <1>7. CASE ListPayload(c) \/ LeftDone(c) \/ PeerChatPayload(c)
    BY <1>2, <1>7, ReturnFrame DEF ListPayload, LeftDone, PeerChatPayload
  <1>8. ASSUME NEW t, th' = [th EXCEPT ![c] = t],
               t.pc \notin {"introduce", "introducePayload", "leftPayload"}
        PROVE  Away(c)'
    BY <1>1, <1>2, <1>8
  <1>9. CASE \/ ListHeader(c) \/ LeftClient(c) \/ LeftPayload(c)
             \/ PeerChat(c) \/ Accept(c)
    <2>1. CASE ListHeader(c)
      BY <1>1, <1>8, <2>1 DEF Thread, ListHeader
    <2>2. CASE LeftClient(c)
      BY <1>1, <1>8, <2>2 DEF Thread, LeftClient
    <2>3. CASE LeftPayload(c)
      BY <1>1, <1>8, <2>3 DEF Thread, LeftPayload
    <2>4. CASE PeerChat(c)
      BY <1>1, <1>8, <2>4 DEF Thread, PeerChat
    <2>5. CASE Accept(c)
      BY <1>1, <1>8, <2>5 DEF Thread, Accept
    <2> QED
      BY <1>9, <2>1, <2>2, <2>3, <2>4, <2>5
  <1>10. CASE Close(c)
    <2>1. Idle(th[c], 0) \in Thread
      BY <1>1, IdleType
    <2> DEFINE t == [Idle(th[c], 0) EXCEPT !.pc = "closed"]
    <2>2. t.pc = "closed"
      BY <2>1 DEF Thread
    <2>3. th' = [th EXCEPT ![c] = t]
      BY <1>10 DEF Close
    <2> HIDE DEF t
    <2> QED
      BY <1>8, <2>2, <2>3
  <1>11. CASE ReadsNull(c) \/ FollowsFreedPointer(c)
    BY <1>11 DEF ReadsNull, FollowsFreedPointer, Away
  <1> QED
    BY <1>3, <1>4, <1>5, <1>6, <1>7, <1>9, <1>10, <1>11
       DEF ServerStep, RegistryHandler

\* What the thread of c sends to another descriptor, or is no news, is no news
\* of c for c.
LEMMA NoNewsForItself ==
    ASSUME IndInv, NoSelfNews, NEW c \in Conns, Alive(c),
           NEW f, NEW part, NEW p, Send(c, f, part, p),
           p.type \in News => f # th[c].fd
    PROVE  NoSelfNews'
  <1> DEFINE chunk == [part |-> part, by |-> c, pkt |-> p]
  <1>1. out \in [Conns -> Seq(Chunk)] /\ Emits(c, f, part, p)
    BY KnownTypes, SendEffect DEF NetTypeOK
  <1>2. CASE out' = out
    BY <1>2 DEF NoSelfNews
  <1>3. CASE /\ f \in Fds /\ fdTable[f] \in Conns
             /\ out' = [out EXCEPT ![fdTable[f]] = Append(@, chunk)]
    <2>1. p.type \in News => fdTable[f] # c
      BY <1>3 DEF IndInv, FdInv, OneThreadPerFd
    <2>2. chunk.pkt = p /\ chunk.by = c
      OBVIOUS
    <2> HIDE DEF chunk
    <2> SUFFICES ASSUME NEW x \in Conns, NEW j \in DOMAIN out'[x],
                        out'[x][j].pkt.type \in News
                 PROVE  out'[x][j].by # x
      BY DEF NoSelfNews
    <2>3. /\ out[x] \in Seq(Chunk) /\ Len(out[x]) \in Nat
          /\ DOMAIN out[x] = 1 .. Len(out[x])
      BY <1>1, LenProperties
    <2>4. CASE x # fdTable[f]
      <3>1. out'[x] = out[x]
        BY <1>1, <1>3, <2>4
      <3> QED
        BY <3>1 DEF NoSelfNews
    <2>5. CASE x = fdTable[f]
      <3>1. out'[x] = Append(out[x], chunk)
        BY <1>1, <1>3, <2>5
      <3>2. \/ j \in DOMAIN out[x] /\ out'[x][j] = out[x][j]
            \/ out'[x][j] = chunk
        BY <2>3, <3>1
      <3> QED
        BY <2>1, <2>2, <2>5, <3>2 DEF NoSelfNews
    <2> QED
      BY <2>4, <2>5
  <1> QED
    BY <1>1, <1>2, <1>3 DEF Emits

\* The loops of introduceNewClient and manageLeftClient write to others.
LEMMA ServerTellsOthers ==
    ASSUME IsFiniteSet(Conns), IndInv, HandlerInv, ReaderInv, RegistryCounts,
           SelfInv, NEW c \in Conns, ServerStep(c)
    PROVE  NoSelfNews'
  <1>1. NoSelfNews /\ QuitInv /\ Away(c) /\ InHandler(c) /\ ~th[c].stale
    BY DEF SelfInv, HandlerInv, ReaderInv
  <1>2. th[c] \in Thread /\ th[c].i \in Nat /\ th[c].n \in Nat
        /\ clientList.size \in Nat
    BY KnownTypes DEF Thread
  <1>3. CASE IntroduceHeader(c) \/ IntroducePayload(c)
    <2>1. th[c].pc \in {"introduce", "introducePayload"} /\ Alive(c)
      BY <1>3 DEF IntroduceHeader, IntroducePayload, At, Alive
    <2>2. th[c].i \in 1 .. th[c].n
      <3>1. SlotInv
        BY KnownTypes
      <3> QED
        BY <1>2, <1>3, <3>1 DEF IntroduceHeader, IntroducePayload, At, SlotInv
    <2>3. clientList.clients[th[c].i].FD # th[c].fd
      BY <1>1, <2>1, <2>2 DEF Away
    <2>4. \E part : Send(c, clientList.clients[th[c].i].FD, part, th[c].pkt)
      BY <1>1, <1>3 DEF IntroduceHeader, IntroducePayload, Slot, SendHeader,
         SendPayload
    <2> QED
      BY <1>1, <2>1, <2>3, <2>4, NoNewsForItself
  <1>4. CASE LeftHeader(c)
    <2>1. th[c].pc = "left" /\ th[c].i \in 1 .. clientList.size
      <3>1. th[c].pc = "left" /\ th[c].i <= clientList.size /\ SlotInv
        BY <1>4, KnownTypes DEF LeftHeader, At
      <3> QED
        BY <1>2, <3>1 DEF SlotInv
    <2>2. Alive(c) /\ clientList.clients[th[c].i].FD # th[c].fd
      BY <1>1, <2>1, NotRegistered, Unlisted
    <2>3. Send(c, clientList.clients[th[c].i].FD, "header", th[c].pkt)
      BY <1>4 DEF LeftHeader, SendHeader
    <2> QED
      BY <1>1, <2>2, <2>3, NoNewsForItself
  <1>5. CASE LeftPayload(c)
    <2>1. Alive(c) /\ clientList.clients[th[c].i].FD # th[c].fd
      BY <1>1, <1>5 DEF LeftPayload, At, Alive, Away
    <2>2. Send(c, clientList.clients[th[c].i].FD, "payload", th[c].pkt)
      BY <1>5 DEF LeftPayload, SendPayload
    <2> QED
      BY <1>1, <2>1, <2>2, NoNewsForItself
  <1>6. CASE ListHeader(c)
    <2> DEFINE p == [Blank EXCEPT !.type = "CLIENT_LIST",
                       !.list = SubSeq(clientList.clients, 1, clientList.size)]
    <2>1. Send(c, th[c].fd, "header", p) /\ Alive(c)
      BY <1>6 DEF ListHeader, SendHeader, At, Alive
    <2>2. p.type \notin News
      BY DEF Blank, News
    <2> HIDE DEF p
    <2> QED
      BY <1>1, <2>1, <2>2, NoNewsForItself
  <1>7. CASE ListPayload(c)
    <2>1. PICK entries :
            Send(c, th[c].fd, "payload", [th[c].pkt EXCEPT !.list = entries])
      BY <1>7 DEF ListPayload, SendPayload
    <2> DEFINE p == [th[c].pkt EXCEPT !.list = entries]
    <2>2. p.type \notin News /\ Alive(c)
      BY <1>1, <1>2, <1>7 DEF ListPayload, At, Alive, InHandler, Thread, Packet,
         News
    <2>3. Send(c, th[c].fd, "payload", p)
      BY <2>1
    <2> HIDE DEF p
    <2> QED
      BY <1>1, <2>2, <2>3, NoNewsForItself
  <1>8. CASE PeerChat(c)
    <2>1. Incoming(c).type \notin News /\ Alive(c)
      BY <1>8 DEF PeerChat, Receives, Alive, News
    <2> QED
      BY <1>1, <1>8, <2>1, NoNewsForItself DEF PeerChat, SendHeader
  <1>9. CASE PeerChatPayload(c)
    <2>1. th[c].pkt.type \notin News /\ Alive(c)
      BY <1>1, <1>9 DEF PeerChatPayload, At, InHandler, Alive, News
    <2> QED
      BY <1>1, <1>9, <2>1, NoNewsForItself DEF PeerChatPayload, SendPayload
  <1>10. CASE out' = out
    BY <1>1, <1>10 DEF NoSelfNews
  <1> QED
    BY <1>3, <1>4, <1>5, <1>6, <1>7, <1>8, <1>9, <1>10
       DEF ServerStep, RegistryHandler, Accept, Close, ReadsNull, NewClient,
           Register, FollowsFreedPointer, LeftClient, LeftDone

\* The end of a connection, on the server's side ...
LEMMA ServerQuits ==
    ASSUME IndInv, HandlerInv, QuitInv, NEW e \in Conns, ServerStep(e)
    PROVE  QuitInv'
  <1>1. Frame(e) /\ sent' = sent /\ th[e] \in Thread /\ th \in [Conns -> Thread]
        /\ peer \in [Conns -> PeerStates]
    BY ServerFrame, KnownTypes DEF NetTypeOK
  <1>2. CASE Accept(e)
    <2>1. PICK f \in Fds :
            th' = [th EXCEPT ![e] = [th[e] EXCEPT !.pc = "recv", !.fd = f]]
      BY <1>2 DEF Accept
    <2>2. th'[e].pc = "recv" /\ peer' = [peer EXCEPT ![e] = "open"]
      BY <1>1, <1>2, <2>1 DEF Thread, Accept
    <2> QED
      BY <1>1, <2>2 DEF QuitInv, Frame
  <1>3. CASE ~Accept(e)
    <2>1. Alive(e)
      BY <1>3 DEF ServerStep, RegistryHandler, Close, ReadsNull, NewClient,
         IntroduceHeader, IntroducePayload, Register, ListHeader, ListPayload,
         FollowsFreedPointer, LeftClient, LeftHeader, LeftPayload, LeftDone,
         PeerChat, PeerChatPayload, Receives, At, Alive
    <2>2. LeavesPeers
      <3>1. (\E f, part, p : Send(e, f, part, p)) \/ peer' = peer
        BY <1>3 DEF ServerStep, RegistryHandler, Close, ReadsNull, NewClient,
           IntroduceHeader, IntroducePayload, Register, ListHeader, ListPayload,
           FollowsFreedPointer, LeftClient, LeftHeader, LeftPayload, LeftDone,
           PeerChat, PeerChatPayload, SendHeader, SendPayload
      <3>2. NetTypeOK
        BY KnownTypes
      <3> QED
        BY <3>1, <3>2, SendEffect DEF LeavesPeers
    <2>3. ASSUME NEW c \in Conns
          PROVE  /\ peer[c] # "none" => peer'[c] # "none"
                 /\ peer'[c] \in {"shut", "reset"}
                      <=> peer[c] \in {"shut", "reset"}
      BY <2>2 DEF LeavesPeers
    <2>4. CASE Close(e)
      <3>1. Idle(th[e], 0) \in Thread /\ Idle(th[e], 0).got = th[e].got + 0
            /\ th[e].got \in Nat
        BY <1>1, IdleType DEF Thread
      <3>2. th'[e] = [Idle(th[e], 0) EXCEPT !.pc = "closed"]
        BY <1>1, <2>4 DEF Close
      <3>3. th'[e].pc = "closed" /\ th'[e].got = th[e].got
        BY <3>1, <3>2 DEF Thread
      <3>4. peer[e] \in {"shut", "reset"} /\ th[e].got = Len(sent[e])
        BY <1>1, <2>1, <2>4 DEF Close, QuitInv, Alive, PeerStates
      <3> QED
        BY <1>1, <2>1, <2>3, <3>3, <3>4 DEF QuitInv, Frame, Alive
    <2>5. CASE ~Close(e)
      <3>1. th'[e].pc # "closed"
        BY <2>1, <2>5, OnlyCloseCloses DEF Alive
      <3> QED
        BY <1>1, <2>1, <2>3, <3>1 DEF QuitInv, Frame, Alive
    <2> QED
      BY <2>4, <2>5
  <1> QED
    BY <1>2, <1>3

\* ... and on the user's, who quits with a USER_LEFT or not at all.
LEMMA UserQuits ==
    ASSUME ~CanCrash, IndInv, QuitInv, NEW e \in Conns, UserStep(e)
    PROVE  QuitInv'
  <1>1. th' = th /\ sent \in [Conns -> Seq(Packet)]
        /\ peer \in [Conns -> PeerStates]
    BY KnownTypes DEF NetTypeOK, UserStep, SendIntro, Quit, Crash, SendChat
  <1>2. peer[e] = "open"
    BY DEF UserStep, SendIntro, Quit, Crash, SendChat, CanWrite
  <1>3. \A c \in Conns \ {e} : sent'[c] = sent[c] /\ peer'[c] = peer[c]
    BY <1>1 DEF UserStep, SendIntro, Quit, Crash, SendChat, Write
  <1>4. th[e].pc # "closed"
    BY <1>2 DEF QuitInv
  <1>5. CASE Quit(e)
    <2> DEFINE p == [Blank EXCEPT !.type = "USER_LEFT"]
    <2>1. p \in Packet /\ p.type = "USER_LEFT"
      BY BlankType DEF Packet, Types, Blank
    <2>2. sent' = [sent EXCEPT ![e] = Append(@, p)]
          /\ peer' = [peer EXCEPT ![e] = "shut"]
      BY <1>5 DEF Quit
    <2> HIDE DEF p
    <2>3. sent'[e] = Append(sent[e], p) /\ peer'[e] = "shut"
      BY <1>1, <2>2
    <2>4. sent'[e] # <<>> /\ sent'[e][Len(sent'[e])] = p
      BY <1>1, <2>1, <2>3, AppendProperties
    <2> QED
      BY <1>1, <1>3, <1>4, <2>1, <2>3, <2>4 DEF QuitInv
  <1>6. CASE ~Quit(e)
    <2>1. peer' = peer
      BY <1>6 DEF UserStep, SendIntro, Crash, SendChat, Write
    <2> QED
      BY <1>1, <1>2, <1>3, <1>4, <2>1 DEF QuitInv
  <1> QED
    BY <1>5, <1>6

LEMMA NextSelf ==
    ASSUME ~CanCrash, IsFiniteSet(Conns)
    PROVE  IndInv /\ HandlerInv /\ ReaderInv /\ RegistryCounts /\ SelfInv
             /\ [Next]_registryVars => SelfInv'
  <1> SUFFICES ASSUME IndInv, HandlerInv, ReaderInv, RegistryCounts, SelfInv,
                      [Next]_registryVars
               PROVE  SelfInv'
    OBVIOUS
  <1>1. CASE UNCHANGED registryVars
    BY <1>1 DEF registryVars, netVars, SelfInv, QuitInv, NoSelfNews, Away
  <1>2. CASE Stops
    BY <1>1, <1>2 DEF Stops
  <1>3. ASSUME NEW c \in Conns, ServerStep(c)
        PROVE  SelfInv'
    <2>1. QuitInv'
      BY <1>3, ServerQuits DEF SelfInv
    <2>2. NoSelfNews'
      BY <1>3, ServerTellsOthers
    <2>3. ASSUME NEW d \in Conns
          PROVE  Away(d)'
      BY <1>3, KeepsAway, OthersKeepAway DEF SelfInv
    <2> QED
      BY <2>1, <2>2, <2>3 DEF SelfInv
  <1>4. ASSUME NEW c \in Conns, UserStep(c)
        PROVE  SelfInv'
    <2>1. th' = th /\ out' = out /\ clientList' = clientList
      BY <1>4 DEF UserStep, SendIntro, Quit, Crash, SendChat
    <2> QED
      BY <1>4, <2>1, UserQuits DEF SelfInv, NoSelfNews, Away
  <1> QED
    BY <1>1, <1>2, <1>3, <1>4 DEF Next

\* No user is told that it has come or gone itself, however slots move under
\* the loops of introduceNewClient and manageLeftClient, while no client
\* crashes and no array moves.  With a crash it may be: the entry left behind
\* has the descriptor that the next user gets.
THEOREM NobodyHearsOfItself ==
    ASSUME ~CanCrash, ~ReallocMoves, IsFiniteSet(Conns)
    PROVE  Spec => []NoSelfNews
  <1>1. Init => ReaderInv /\ SelfInv
    BY DEF Init, NetInit, NewThread, ReaderInv, OnList, SawItself, SelfInv,
       QuitInv, NoSelfNews, Away
  <1>2. SelfInv => NoSelfNews
    BY DEF SelfInv
  <1> QED
    BY <1>1, <1>2, InitInv, NextInv, InitHandler, NextHandler, NextReader,
       InitCounts, NextCounts, NextSelf, PTL DEF Spec

----------------------------------------------------------------------------
(* How far the clients are, and how large a set that grows may be. *)

LEMMA AtMostOneMore ==
    ASSUME NEW S, NEW T, NEW x, IsFiniteSet(S), T \subseteq S \cup {x}
    PROVE  IsFiniteSet(T) /\ Cardinality(T) <= Cardinality(S) + 1
  <1>1. /\ IsFiniteSet(S \cup {x})
        /\ Cardinality(S \cup {x}) <= Cardinality(S) + 1
        /\ Cardinality(S) \in Nat /\ Cardinality(S \cup {x}) \in Nat
    BY FS_AddElement, FS_CardinalityType
  <1>2. /\ IsFiniteSet(T) /\ Cardinality(T) <= Cardinality(S \cup {x})
        /\ Cardinality(T) \in Nat
    BY <1>1, FS_Subset, FS_CardinalityType
  <1> QED
    BY <1>1, <1>2

LEMMA AtLeastOneMore ==
    ASSUME NEW S, NEW T, NEW x, IsFiniteSet(T), S \subseteq T, x \in T \ S
    PROVE  Cardinality(S) + 1 <= Cardinality(T)
  <1>1. IsFiniteSet(S) /\ Cardinality(S) \in Nat /\ Cardinality(T) \in Nat
    BY FS_Subset, FS_CardinalityType
  <1>2. Cardinality(S \cup {x}) = Cardinality(S) + 1
    BY <1>1, FS_AddElement
  <1>3. S \cup {x} \subseteq T
    OBVIOUS
  <1>4. Cardinality(S \cup {x}) <= Cardinality(T)
    BY <1>3, FS_Subset
  <1> QED
    BY <1>2, <1>4

\* A thread has received one packet more only if it was in recvAll().
LEMMA GotMoves ==
    ASSUME IndInv, HandlerInv, NEW e \in Conns, ServerStep(e), ~LeftClient(e)
    PROVE  /\ th[e].got \in Nat
           /\ \/ th'[e].got = th[e].got
              \/ /\ th'[e].got = th[e].got + 1
                 /\ Receives(e, "INTRO") \/ Receives(e, "CHAT")
  <1>1. th[e] \in Thread /\ th \in [Conns -> Thread] /\ th[e].got \in Nat
    BY KnownTypes DEF Thread
  <1>2. CASE ListPayload(e) \/ LeftDone(e) \/ PeerChatPayload(e)
    BY <1>1, <1>2, ReturnFrame DEF ListPayload, LeftDone, PeerChatPayload
  <1>3. CASE Register(e)
    BY <1>1, <1>3, RegisterFrame
  <1>4. CASE NewClient(e)
    <2> DEFINE t == [th[e] EXCEPT !.pc = "introduce", !.got = @ + 1,
                                  !.pkt = Joined(e), !.i = 1,
                                  !.n = clientList.size]
    <2>1. t.got = th[e].got + 1 /\ Idle(th[e], 1).got = th[e].got + 1
      BY <1>1, IdleType DEF Thread
    <2>2. th' = [th EXCEPT ![e] = t] \/ th' = [th EXCEPT ![e] = Idle(th[e], 1)]
      BY <1>4 DEF NewClient, ReceiveAndReturn
    <2> HIDE DEF t
    <2>3. th'[e] = t \/ th'[e] = Idle(th[e], 1)
      BY <1>1, <2>2
    <2> QED
      BY <1>1, <1>4, <2>1, <2>3 DEF NewClient
  <1>5. CASE PeerChat(e)
    <2> DEFINE t == [th[e] EXCEPT !.pc = "chatPayload", !.got = @ + 1,
                                  !.pkt = Incoming(e)]
    <2>1. t.got = th[e].got + 1 /\ th' = [th EXCEPT ![e] = t]
      BY <1>1, <1>5 DEF Thread, PeerChat
    <2> HIDE DEF t
    <2>2. th'[e].got = th[e].got + 1
      BY <1>1, <2>1
    <2> QED
      BY <1>1, <1>5, <2>2 DEF PeerChat
  <1>6. CASE \/ IntroduceHeader(e) \/ IntroducePayload(e) \/ ListHeader(e)
             \/ LeftHeader(e) \/ LeftPayload(e)
    <2>1. CASE IntroduceHeader(e) \/ LeftHeader(e)
      <3>1. PICK pc : th' = [th EXCEPT ![e] = [th[e] EXCEPT !.pc = pc]]
        BY <2>1 DEF IntroduceHeader, LeftHeader
      <3> QED
        BY <1>1, <3>1, GoesOnFrame
    <2>2. CASE IntroducePayload(e) \/ LeftPayload(e)
      <3>1. PICK pc, i : th' = [th EXCEPT ![e] = [th[e] EXCEPT !.pc = pc, !.i = i]]
        BY <2>2 DEF IntroducePayload, LeftPayload
      <3> QED
        BY <1>1, <3>1, GoesOnFrame
    <2>3. CASE ListHeader(e)
      BY <1>1, <2>3 DEF Thread, ListHeader
    <2> QED
      BY <1>6, <2>1, <2>2, <2>3
  <1>7. CASE Accept(e)
    BY <1>1, <1>7 DEF Thread, Accept
  <1>8. CASE Close(e)
    <2> DEFINE t == [Idle(th[e], 0) EXCEPT !.pc = "closed"]
    <2>1. Idle(th[e], 0) \in Thread /\ Idle(th[e], 0).got = th[e].got
      BY <1>1, IdleType
    <2>2. t.got = th[e].got /\ th' = [th EXCEPT ![e] = t]
      BY <1>8, <2>1 DEF Thread, Close
    <2> HIDE DEF t
    <2> QED
      BY <1>1, <2>2
  <1>9. CASE ReadsNull(e) \/ FollowsFreedPointer(e)
    BY <1>1, <1>9 DEF ReadsNull, FollowsFreedPointer
  <1> QED
    BY <1>2, <1>3, <1>4, <1>5, <1>6, <1>7, <1>8, <1>9
       DEF ServerStep, RegistryHandler

\* Only the handler of a USER_LEFT makes somebody one who has said goodbye.
LEMMA GoodbyesMove ==
    ASSUME IndInv, HandlerInv, NEW e \in Conns, ServerStep(e), NEW d \in Conns
    PROVE  SaidGoodbye(d)' <=> SaidGoodbye(d) \/ (d = e /\ LeftClient(e))
  <1>1. Frame(e) /\ sent' = sent
    BY ServerFrame
  <1>2. CASE d # e
    BY <1>1, <1>2, FrameStays
  <1>3. CASE d = e /\ LeftClient(e)
    <2>1. HandlerInv'
      BY <1>3, LeftClientHandler
    <2>2. th'[e].pc = "left"
      BY <1>3, KnownTypes DEF LeftClient, Thread
    <2> QED
      BY <1>3, <2>1, <2>2 DEF HandlerInv, InHandler
  <1>4. CASE d = e /\ ~LeftClient(e)
    <2>1. CASE th'[e].got = th[e].got
      BY <1>1, <1>4, <2>1 DEF SaidGoodbye
    <2>2. ASSUME NEW type \in {"INTRO", "CHAT"}, Receives(e, type),
                 th'[e].got = th[e].got + 1
          PROVE  ~SaidGoodbye(e) /\ ~SaidGoodbye(e)'
      <3>1. /\ th[e].got \in Nat /\ Incoming(e).type = type
            /\ sent[e][th[e].got + 1] = Incoming(e) /\ th[e].got < Len(sent[e])
        BY <2>2, IncomingPlace DEF Receives
      <3>2. ~SaidGoodbye(e)'
        BY <1>1, <2>2, <3>1 DEF SaidGoodbye
      <3>3. ~SaidGoodbye(e)
        BY <3>1, GoodbyeIsLast
      <3> QED
        BY <3>2, <3>3
    <2> QED
      BY <1>4, <2>1, <2>2, GotMoves
  <1> QED
    BY <1>2, <1>3, <1>4

\* Who is gone stays gone, and who leaves, or ends registered, is one more.
LEMMA DepartedGrows ==
    ASSUME IsFiniteSet(Conns), IndInv, HandlerInv, NEW e \in Conns, ServerStep(e)
    PROVE  /\ Cardinality(Departed) \in Nat /\ Cardinality(Departed') \in Nat
           /\ Cardinality(Departed) <= Cardinality(Departed')
           /\ LeftClient(e) \/ (Close(e) /\ Registered(e)) =>
                Cardinality(Departed) + 1 <= Cardinality(Departed')
  <1>1. Frame(e) /\ sent' = sent
    BY ServerFrame
  <1>2. th[e].pc # "closed"
    BY DEF ServerStep, RegistryHandler, Accept, Close, ReadsNull, NewClient,
       IntroduceHeader, IntroducePayload, Register, ListHeader, ListPayload,
       FollowsFreedPointer, LeftClient, LeftHeader, LeftPayload, LeftDone,
       PeerChat, PeerChatPayload, Receives, At
  <1>3. Departed \subseteq Departed'
    <2> SUFFICES ASSUME NEW d \in Departed
                 PROVE  d \in Departed'
      OBVIOUS
    <2>1. d \in Conns /\ (th[d].pc = "closed" \/ SaidGoodbye(d))
      BY DEF Departed
    <2>2. CASE SaidGoodbye(d)
      BY <2>1, <2>2, GoodbyesMove DEF Departed
    <2>3. CASE th[d].pc = "closed"
      BY <1>1, <1>2, <2>1, <2>3 DEF Departed, Frame
    <2> QED
      BY <2>1, <2>2, <2>3
  <1>4. IsFiniteSet(Departed) /\ IsFiniteSet(Departed')
    <2>1. Departed \subseteq Conns /\ Departed' \subseteq Conns
      BY DEF Departed
    <2> QED
      BY <2>1, FS_Subset
  <1>5. /\ Cardinality(Departed) \in Nat /\ Cardinality(Departed') \in Nat
        /\ Cardinality(Departed) <= Cardinality(Departed')
    BY <1>3, <1>4, FS_CardinalityType, FS_Subset
  <1>6. CASE LeftClient(e)
    <2>1. e \in Departed'
      BY <1>6, GoodbyesMove DEF Departed
    <2>2. th[e].got < Len(sent[e]) /\ th[e].got \in Nat
      BY <1>6, KnownTypes DEF LeftClient, Receives, Thread
    <2>3. Len(sent[e]) \in Nat
      BY KnownTypes DEF NetTypeOK
    <2>4. e \notin Departed
      BY <1>2, <2>2, <2>3, GoodbyeIsLast DEF Departed
    <2> QED
      BY <1>3, <1>4, <1>5, <2>1, <2>4, AtLeastOneMore
  <1>7. CASE Close(e) /\ Registered(e)
    <2>1. e \notin Departed
      BY <1>2, <1>7 DEF Departed, Registered, SaidGoodbye
    <2>2. th'[e].pc = "closed"
      <3> DEFINE t == [Idle(th[e], 0) EXCEPT !.pc = "closed"]
      <3>1. Idle(th[e], 0) \in Thread
        BY KnownTypes, IdleType
      <3>2. t.pc = "closed" /\ th' = [th EXCEPT ![e] = t]
        BY <1>7, <3>1 DEF Thread, Close
      <3> HIDE DEF t
      <3> QED
        BY <3>2, KnownTypes
    <2>3. e \in Departed'
      BY <2>2 DEF Departed
    <2> QED
      BY <1>3, <1>4, <1>5, <2>1, <2>3, AtLeastOneMore
  <1> QED
    BY <1>5, <1>6, <1>7
----------------------------------------------------------------------------
(* How often a user is told that another has come (ToldOncePerDeparture). *)

Introduces(c) == th[c].pc \in {"introduce", "introducePayload"}

\* The slots that introduceNewClient, in the thread of c, has still to write to
\* and that hold descriptor f by now.
Due(c, f) == {k \in th[c].i .. th[c].n : clientList.clients[k].FD = f}

\* What x has been told of c and what it will be are within the bound; what a
\* descriptor that is free will be told is due to users who are gone.
Owes(c) ==
    /\ \A x \in Conns : Alive(x) =>
         Cardinality(Introductions(c, x)) + Cardinality(Due(c, th[x].fd))
           <= Cardinality(Departed) + (IF Registered(x) THEN 1 ELSE 0)
    /\ \A f \in Fds : fdTable[f] = NoConn =>
         Cardinality(Due(c, f)) <= Cardinality(Departed)

ToldInv ==
    /\ \A c, x \in Conns :
         th[c].got = 0 \/ th[x].pc = "new" => Introductions(c, x) = {}
    /\ ToldOncePerDeparture
    /\ \A c \in Conns : Introduces(c) => Owes(c)

LEMMA IntroductionsFinite ==
    ASSUME NetTypeOK, NEW c \in Conns, NEW x \in Conns
    PROVE  /\ IsFiniteSet(Introductions(c, x))
           /\ Cardinality(Introductions(c, x)) \in Nat
           /\ Introductions(c, x) \subseteq 1 .. Len(out[x])
  <1>1. Introductions(c, x) \subseteq 1 .. Len(out[x]) /\ Len(out[x]) \in Nat
    BY LenProperties DEF NetTypeOK, Introductions
  <1>2. IsFiniteSet(1 .. Len(out[x]))
    BY <1>1, FS_Interval
  <1> QED
    BY <1>1, <1>2, FS_Subset, FS_CardinalityType

LEMMA DueFinite ==
    ASSUME NEW c \in Conns, th[c] \in Thread, NEW f
    PROVE  /\ IsFiniteSet(Due(c, f))
           /\ Cardinality(Due(c, f)) \in Nat
  <1>1. Due(c, f) \subseteq th[c].i .. th[c].n
    BY DEF Due
  <1>2. IsFiniteSet(th[c].i .. th[c].n)
    BY FS_Interval DEF Thread
  <1> QED
    BY <1>1, <1>2, FS_Subset, FS_CardinalityType

\* One send() introduces c to the owner of the descriptor, or nobody.
LEMMA IntroductionsStep ==
    ASSUME NetTypeOK, NEW c \in Conns, NEW f, NEW part, NEW p,
           Emits(c, f, part, p), NEW d \in Conns, NEW x \in Conns
    PROVE  \/ Introductions(d, x)' = Introductions(d, x)
           \/ /\ d = c /\ part = "payload" /\ p.type = "USER_JOINED_SERVER"
              /\ f \in Fds /\ fdTable[f] = x
              /\ Introductions(d, x)' \subseteq
                   Introductions(d, x) \cup {Len(out[x]) + 1}
  <1> DEFINE chunk == [part |-> part, by |-> c, pkt |-> p]
             n == Len(out[x])
  <1>1. /\ out \in [Conns -> Seq(Chunk)] /\ out[x] \in Seq(Chunk) /\ n \in Nat
        /\ DOMAIN out[x] = 1 .. n
    BY LenProperties DEF NetTypeOK
  <1>2. chunk.part = part /\ chunk.by = c /\ chunk.pkt = p
    OBVIOUS
  <1>3. \/ out'[x] = out[x]
        \/ f \in Fds /\ fdTable[f] = x /\ out'[x] = Append(out[x], chunk)
    BY <1>1 DEF Emits
  <1>4. CASE out'[x] = out[x]
    BY <1>4 DEF Introductions
  <1>5. CASE f \in Fds /\ fdTable[f] = x /\ out'[x] = Append(out[x], chunk)
    <2> HIDE DEF chunk
    <2>1. /\ DOMAIN out'[x] = 1 .. n + 1 /\ out'[x][n + 1] = chunk
          /\ \A k \in 1 .. n : out'[x][k] = out[x][k]
      BY <1>1, <1>5
    <2>2. \A k \in 1 .. n + 1 : k \in 1 .. n \/ k = n + 1
      BY <1>1
    <2>3. 1 .. n \subseteq 1 .. n + 1
      BY <1>1
    <2> HIDE DEF n
    <2>4. Introductions(d, x)' \subseteq Introductions(d, x) \cup {n + 1}
      BY <1>1, <2>1, <2>2 DEF Introductions
    <2>5. CASE d = c /\ part = "payload" /\ p.type = "USER_JOINED_SERVER"
      BY <1>5, <2>4, <2>5 DEF n
    <2>6. CASE ~(d = c /\ part = "payload" /\ p.type = "USER_JOINED_SERVER")
      <3>1. n + 1 \notin Introductions(d, x)'
        BY <1>2, <2>1, <2>6 DEF Introductions
      <3>2. Introductions(d, x) \subseteq Introductions(d, x)'
        BY <1>1, <2>1, <2>3 DEF Introductions
      <3> QED
        BY <2>4, <3>1, <3>2
    <2> QED
      BY <2>5, <2>6
  <1> QED
    BY <1>3, <1>4, <1>5

\* Only the payload of introduceNewClient introduces, to the owner of the
\* descriptor in its slot.
LEMMA WhoIntroduces ==
    ASSUME IndInv, HandlerInv, ReaderInv, NEW e \in Conns, ServerStep(e),
           NEW d \in Conns, NEW x \in Conns
    PROVE  \/ Introductions(d, x)' = Introductions(d, x)
           \/ /\ d = e /\ IntroducePayload(e)
              /\ Alive(x) /\ th[x].fd \in Fds
              /\ clientList.clients[th[e].i].FD = th[x].fd
              /\ Introductions(d, x)' \subseteq
                   Introductions(d, x) \cup {Len(out[x]) + 1}
  <1>1. NetTypeOK /\ InHandler(e) /\ th[e] \in Thread
    BY KnownTypes DEF HandlerInv
  <1>2. ASSUME NEW f, NEW part, NEW p, Send(e, f, part, p),
               part # "payload" \/ p.type # "USER_JOINED_SERVER"
        PROVE  Introductions(d, x)' = Introductions(d, x)
    BY <1>1, <1>2, SendEffect, IntroductionsStep
  <1>3. CASE IntroduceHeader(e) \/ ListHeader(e) \/ LeftHeader(e) \/ PeerChat(e)
    <2>1. \E f, p : Send(e, f, "header", p)
      BY <1>3 DEF IntroduceHeader, ListHeader, LeftHeader, PeerChat, SendHeader
    <2> QED
      BY <1>2, <2>1
  <1>4. CASE LeftPayload(e) \/ PeerChatPayload(e)
    <2>1. th[e].pkt.type # "USER_JOINED_SERVER"
      BY <1>1, <1>4 DEF LeftPayload, PeerChatPayload, At, InHandler, Left, Blank
    <2>2. \E f : Send(e, f, "payload", th[e].pkt)
      BY <1>4 DEF LeftPayload, PeerChatPayload, SendPayload
    <2> QED
      BY <1>2, <2>1, <2>2
  <1>5. CASE ListPayload(e)
    <2>1. PICK entries :
            Send(e, th[e].fd, "payload", [th[e].pkt EXCEPT !.list = entries])
      BY <1>5 DEF ListPayload, SendPayload
    <2> DEFINE p == [th[e].pkt EXCEPT !.list = entries]
    <2>2. p.type = "CLIENT_LIST"
      BY <1>1, <1>5 DEF ListPayload, At, InHandler, Thread, Packet
    <2>3. Send(e, th[e].fd, "payload", p)
      BY <2>1
    <2> HIDE DEF p
    <2> QED
      BY <1>2, <2>2, <2>3
  <1>6. CASE IntroducePayload(e)
    <2> DEFINE f == clientList.clients[th[e].i].FD
    <2>1. Send(e, f, "payload", th[e].pkt)
      <3>1. ~th[e].stale
        BY DEF ReaderInv
      <3> QED
        BY <1>6, <3>1 DEF IntroducePayload, Slot, SendPayload
    <2> HIDE DEF f
    <2>2. \/ Introductions(d, x)' = Introductions(d, x)
          \/ /\ d = e /\ f \in Fds /\ fdTable[f] = x
             /\ Introductions(d, x)' \subseteq
                  Introductions(d, x) \cup {Len(out[x]) + 1}
      BY <1>1, <2>1, SendEffect, IntroductionsStep
    <2>3. f \in Fds /\ fdTable[f] = x => Alive(x) /\ th[x].fd = f
      BY DEF IndInv, FdInv, OneThreadPerFd, Alive
    <2> QED
      BY <1>6, <2>2, <2>3 DEF f
  <1>7. CASE out' = out
    BY <1>7 DEF Introductions
  <1> QED
    BY <1>3, <1>4, <1>5, <1>6, <1>7
       DEF ServerStep, RegistryHandler, Accept, Close, ReadsNull, NewClient,
           Register, FollowsFreedPointer, LeftClient, LeftDone

\* The slots that are due when a slot of the array changes.
LEMMA DueMoves ==
    ASSUME IndInv, HandlerInv, NEW e \in Conns, Register(e) \/ LeftClient(e),
           NEW c \in Conns, c # e, Introduces(c), NEW f
    PROVE  /\ Register(e) /\ f # th[e].fd =>
                Cardinality(Due(c, f)') <= Cardinality(Due(c, f))
           /\ LeftClient(e) /\ f = th[e].fd =>
                Cardinality(Due(c, f)') <= Cardinality(Due(c, f))
           /\ Cardinality(Due(c, f)') <= Cardinality(Due(c, f)) + 1
           /\ Cardinality(Due(c, f)') \in Nat
  <1>1. /\ clientList.clients \in Seq(Entries) /\ clientList.size \in Nat
        /\ Len(clientList.clients) \in Nat
        /\ clientList.size <= Len(clientList.clients)
        /\ DOMAIN clientList.clients = 1 .. Len(clientList.clients)
    BY KnownTypes, LenProperties
  <1>2. /\ th[c] \in Thread /\ th[c].i \in Nat /\ th[c].n \in Nat
        /\ th[c].i >= 1 /\ th[c].n <= Len(clientList.clients)
    <2>1. th[c] \in Thread /\ th[c].i \in Nat /\ th[c].n \in Nat /\ SlotInv
      BY KnownTypes DEF Thread
    <2> QED
      BY <2>1 DEF SlotInv, HoldsCopy, Introduces
  <1>3. th'[c].i = th[c].i /\ th'[c].n = th[c].n
    BY ServerFrame DEF Frame, ServerStep, RegistryHandler
  <1>4. Due(c, f)' = {k \in th[c].i .. th[c].n : clientList'.clients[k].FD = f}
    BY <1>3 DEF Due
  <1>5. IsFiniteSet(Due(c, f)) /\ Cardinality(Due(c, f)) \in Nat
    BY <1>2, DueFinite
  <1>6. th[c].i .. th[c].n \subseteq 1 .. Len(clientList.clients)
    BY <1>1, <1>2
  <1>7. ASSUME Due(c, f)' \subseteq Due(c, f)
        PROVE  /\ Cardinality(Due(c, f)') <= Cardinality(Due(c, f))
               /\ Cardinality(Due(c, f)') \in Nat
    BY <1>5, <1>7, FS_Subset, FS_CardinalityType
  <1>8. ASSUME NEW r, Due(c, f)' \subseteq Due(c, f) \cup {r}
        PROVE  /\ Cardinality(Due(c, f)') <= Cardinality(Due(c, f)) + 1
               /\ Cardinality(Due(c, f)') \in Nat
    BY <1>5, <1>8, AtMostOneMore, FS_CardinalityType
  <1>9. CASE Register(e)
    <2> DEFINE client == [name |-> th[e].pkt.name, FD |-> th[e].fd]
               s == clientList.size + 1
    <2>1. clientList' = addClientInClientList(clientList, client)
      BY <1>9 DEF Register
    <2>2. client.FD = th[e].fd
      OBVIOUS
    <2> HIDE DEF client
    <2>3. ASSUME NEW k \in 1 .. Len(clientList.clients)
          PROVE  /\ k # s => clientList'.clients[k] = clientList.clients[k]
                 /\ k = s => clientList'.clients[k] = client
      <3>1. CASE clientList.size = Len(clientList.clients)
        <4>1. clientList'.clients = Append(clientList.clients, client)
          BY <2>1, <3>1 DEF addClientInClientList
        <4> QED
          BY <1>1, <3>1, <4>1
      <3>2. CASE clientList.size # Len(clientList.clients)
        <4>1. clientList'.clients = [clientList.clients EXCEPT ![s] = client]
          BY <2>1, <3>2 DEF addClientInClientList
        <4> QED
          BY <1>1, <4>1
      <3> QED
        BY <3>1, <3>2
    <2> HIDE DEF s
    <2>4. Due(c, f)' \subseteq Due(c, f) \cup {s}
      BY <1>4, <1>6, <2>3 DEF Due
    <2>5. f # th[e].fd => Due(c, f)' \subseteq Due(c, f)
      BY <1>4, <1>6, <2>2, <2>3 DEF Due
    <2>6. ~LeftClient(e)
      BY <1>9 DEF Register, LeftClient, At, Receives
    <2> QED
      BY <1>7, <1>8, <2>4, <2>5, <2>6
  <1>10. CASE LeftClient(e)
    <2> DEFINE first == FirstSlot(clientList, th[e].fd)
               last == [clientList.clients[clientList.size] EXCEPT !.name = Freed]
    <2>1. clientList' = removeClientFromClientList(clientList, th[e].fd)
      BY <1>10 DEF LeftClient
    <2>2. CASE SlotsOf(clientList, th[e].fd) = {}
      <3>1. Due(c, f)' \subseteq Due(c, f)
        BY <1>4, <2>1, <2>2 DEF removeClientFromClientList, Due
      <3> QED
        BY <1>7, <1>8, <1>10, <3>1 DEF Register, LeftClient, At, Receives
    <2>3. CASE SlotsOf(clientList, th[e].fd) # {}
      <3>1. /\ clientList.size \in 1 .. Len(clientList.clients)
            /\ first \in 1 .. Len(clientList.clients)
            /\ clientList.clients[first].FD = th[e].fd
        <4>1. first \in SlotsOf(clientList, th[e].fd)
          BY <1>1, <2>3, FirstSlotExists
        <4>2. first \in 1 .. clientList.size /\ clientList.clients[first].FD = th[e].fd
          BY <4>1 DEF SlotsOf, Live
        <4> HIDE DEF first
        <4> QED
          BY <1>1, <4>2
      <3>2. last.FD = clientList.clients[clientList.size].FD
        <4>1. clientList.clients[clientList.size] \in Entries
          BY <1>1, <3>1, ElementOfSeq
        <4> QED
          BY <4>1 DEF Entries, Client
      <3>3. clientList'.clients = [clientList.clients EXCEPT ![first] = last,
                                              ![clientList.size] = last]
        BY <2>1, <2>3 DEF removeClientFromClientList
      <3> HIDE DEF first, last
      <3>4. ASSUME NEW k \in 1 .. Len(clientList.clients)
            PROVE  k # first =>
                     clientList'.clients[k].FD = clientList.clients[k].FD
        <4>1. k \notin {first, clientList.size} =>
                clientList'.clients[k] = clientList.clients[k]
          BY <1>1, <3>3
        <4>2. k = clientList.size => clientList'.clients[k] = last
          BY <1>1, <3>3
        <4> QED
          BY <3>2, <4>1, <4>2
      <3>5. Due(c, f)' \subseteq Due(c, f) \cup {first}
        BY <1>4, <1>6, <3>4 DEF Due
      <3>6. f = th[e].fd => Due(c, f)' \subseteq Due(c, f)
        <4> SUFFICES ASSUME f = th[e].fd, first \in Due(c, f)'
                     PROVE  first \in Due(c, f)
          BY <3>5
        <4> QED
          BY <1>4, <3>1 DEF Due
      <3>7. ~Register(e)
        BY <1>10 DEF Register, LeftClient, At, Receives
      <3> QED
        BY <1>7, <1>8, <3>5, <3>6, <3>7
    <2> QED
      BY <2>2, <2>3
  <1> QED
    BY <1>9, <1>10

\* Nobody is told by a thread that has received nothing, or before accept().
LEMMA FirstTold ==
    ASSUME IndInv, HandlerInv, ReaderInv, ToldInv, NEW e \in Conns,
           ServerStep(e), NEW c \in Conns, NEW x \in Conns,
           th'[c].got = 0 \/ th'[x].pc = "new"
    PROVE  Introductions(c, x)' = {}
  <1>1. th[c].got = 0 \/ th[x].pc = "new"
    <2>1. CASE th'[x].pc = "new"
      BY <2>1, ServerKeeps DEF DescriptorsKept
    <2>2. CASE th'[c].got = 0 /\ c # e
      BY <2>2, ServerFrame DEF Frame
    <2>3. CASE th'[c].got = 0 /\ c = e /\ LeftClient(e)
      <3>1. SaidGoodbye(e)'
        BY <2>3, GoodbyesMove
      <3> QED
        BY <2>3, <3>1 DEF SaidGoodbye
    <2>4. CASE th'[c].got = 0 /\ c = e /\ ~LeftClient(e)
      BY <2>4, GotMoves
    <2> QED
      BY <2>1, <2>2, <2>3, <2>4
  <1>2. Introductions(c, x) = {}
    BY <1>1 DEF ToldInv
  <1>3. IntroducePayload(c) => th[c].got = 1
    BY DEF HandlerInv, InHandler, IntroducePayload, At
  <1>4. Alive(x) => th[x].pc # "new"
    BY DEF Alive
  <1> QED
    BY <1>1, <1>2, <1>3, <1>4, WhoIntroduces

\* The payload that introduces c to x was due.
LEMMA PayloadWasDue ==
    ASSUME IndInv, NEW e \in Conns, IntroducePayload(e), NEW f,
           clientList.clients[th[e].i].FD = f
    PROVE  th[e].i \in Due(e, f) /\ 1 <= Cardinality(Due(e, f))
  <1>1. th[e] \in Thread /\ SlotInv /\ th[e].pc = "introducePayload"
    BY KnownTypes DEF IntroducePayload, At
  <1>2. th[e].i \in 1 .. th[e].n /\ th[e].n \in Nat
    BY <1>1 DEF SlotInv, Thread
  <1>3. th[e].i \in Due(e, f)
    BY <1>2 DEF Due
  <1>4. IsFiniteSet(Due(e, f)) /\ Cardinality(Due(e, f)) \in Nat
    BY <1>1, DueFinite
  <1>5. Cardinality(Due(e, f)) # 0
    BY <1>3, <1>4, FS_EmptySet
  <1> QED
    BY <1>3, <1>4, <1>5

\* The bound is kept.
LEMMA BoundKept ==
    ASSUME IsFiniteSet(Conns), IndInv, HandlerInv, ReaderInv, ToldInv,
           NEW e \in Conns, ServerStep(e)
    PROVE  ToldOncePerDeparture'
  <1> SUFFICES ASSUME NEW c \in Conns, NEW x \in Conns
               PROVE  Cardinality(Introductions(c, x)')
                        <= 1 + Cardinality(Departed')
    BY DEF ToldOncePerDeparture
  <1> DEFINE told == Cardinality(Introductions(c, x))
             gone == Cardinality(Departed)
  <1>1. /\ gone \in Nat /\ Cardinality(Departed') \in Nat
        /\ gone <= Cardinality(Departed')
    BY DepartedGrows
  <1>2. told \in Nat /\ IsFiniteSet(Introductions(c, x)) /\ told <= 1 + gone
    BY KnownTypes, IntroductionsFinite DEF ToldInv, ToldOncePerDeparture
  <1>3. CASE Introductions(c, x)' = Introductions(c, x)
    <2> HIDE DEF told, gone
    <2>1. Cardinality(Introductions(c, x)') = told
      BY <1>3 DEF told
    <2> QED
      BY <1>1, <1>2, <2>1
  <1>4. CASE /\ c = e /\ IntroducePayload(e) /\ Alive(x)
             /\ clientList.clients[th[e].i].FD = th[x].fd
             /\ Introductions(c, x)' \subseteq
                  Introductions(c, x) \cup {Len(out[x]) + 1}
    <2> DEFINE due == Cardinality(Due(c, th[x].fd))
    <2>1. /\ IsFiniteSet(Introductions(c, x)')
          /\ Cardinality(Introductions(c, x)') <= told + 1
          /\ Cardinality(Introductions(c, x)') \in Nat
      BY <1>2, <1>4, AtMostOneMore, FS_CardinalityType
    <2>2. 1 <= due /\ due \in Nat
      BY <1>4, PayloadWasDue, KnownTypes, DueFinite
    <2>3. told + due <= gone + (IF Registered(x) THEN 1 ELSE 0)
      BY <1>4 DEF ToldInv, Owes, Introduces, IntroducePayload, At
    <2> HIDE DEF told, gone, due
    <2>4. told <= gone
      BY <1>1, <1>2, <2>2, <2>3
    <2> QED
      BY <1>1, <1>2, <2>1, <2>4
  <1> QED
    BY <1>3, <1>4, WhoIntroduces

----------------------------------------------------------------------------
(* What the other threads do to what a thread owes. *)

\* accept() alone brings a thread to life, and close() alone frees.
LEMMA LivesMove ==
    ASSUME IndInv, HandlerInv, NEW e \in Conns, ServerStep(e), NEW x \in Conns,
           Alive(x)'
    PROVE  \/ Alive(x) /\ th'[x].fd = th[x].fd
           \/ /\ x = e /\ Accept(e) /\ th[x].pc = "new"
              /\ th'[x].fd \in Fds /\ fdTable[th'[x].fd] = NoConn
  <1>1. CASE Alive(x)
    BY <1>1, ServerKeeps DEF DescriptorsKept, Alive
  <1>2. CASE ~Alive(x)
    <2>1. x = e
      BY <1>2, ServerFrame DEF Frame, Alive
    <2>2. Accept(e)
      BY <1>2, <2>1 DEF Alive, ServerStep, RegistryHandler, Accept, Close,
         ReadsNull, NewClient, IntroduceHeader, IntroducePayload, Register,
         ListHeader, ListPayload, FollowsFreedPointer, LeftClient, LeftHeader,
         LeftPayload, LeftDone, PeerChat, PeerChatPayload, Receives, At
    <2>3. PICK f \in Fds :
            /\ fdTable[f] = NoConn
            /\ th' = [th EXCEPT ![e] = [th[e] EXCEPT !.pc = "recv", !.fd = f]]
      BY <2>2 DEF Accept
    <2>4. th'[e].fd = f
      BY <2>3, KnownTypes DEF Thread
    <2> QED
      BY <2>1, <2>2, <2>3, <2>4 DEF Accept
  <1> QED
    BY <1>1, <1>2

LEMMA FreesMove ==
    ASSUME IndInv, NEW e \in Conns, ServerStep(e), NEW f \in Fds,
           fdTable'[f] = NoConn
    PROVE  fdTable[f] = NoConn \/ (Close(e) /\ f = th[e].fd /\ Alive(e))
  <1>1. fdTable \in [Fds -> Conns \cup {NoConn}]
    BY KnownTypes DEF NetTypeOK
  <1>2. CASE Accept(e)
    BY <1>1, <1>2, TransportAssumption DEF Accept
  <1>3. CASE Close(e)
    BY <1>1, <1>3 DEF Close, At, Alive
  <1>4. CASE fdTable' = fdTable
    BY <1>4
  <1> QED
    BY <1>2, <1>3, <1>4 DEF ServerStep, RegistryHandler, ReadsNull, NewClient,
       IntroduceHeader, IntroducePayload, Register, ListHeader, ListPayload,
       FollowsFreedPointer, LeftClient, LeftHeader, LeftPayload, LeftDone,
       PeerChat, PeerChatPayload

\* Of the threads that are alive each has a descriptor of its own, that is not
\* free.
LEMMA OwnDescriptor ==
    ASSUME IndInv, NEW e \in Conns, Alive(e)
    PROVE  /\ th[e].fd \in Fds /\ fdTable[th[e].fd] = e
           /\ fdTable[th[e].fd] # NoConn
           /\ \A x \in Conns \ {e} : Alive(x) => th[x].fd # th[e].fd
  <1>1. th[e].fd \in Fds /\ fdTable[th[e].fd] = e
    BY DEF IndInv, FdInv, OneThreadPerFd, Alive
  <1>2. e # NoConn
    BY TransportAssumption
  <1>3. ASSUME NEW x \in Conns, Alive(x), th[x].fd = th[e].fd
        PROVE  x = e
    BY <1>1, <1>3 DEF IndInv, FdInv, OneThreadPerFd, Alive
  <1> QED
    BY <1>1, <1>2, <1>3

\* Only the handler of the thread itself introduces, so the other threads
\* change what it owes only through the list, the threads that live and the
\* users that are gone.
LEMMA OthersOwe ==
    ASSUME IsFiniteSet(Conns), IndInv, HandlerInv, ReaderInv, ToldInv,
           NEW e \in Conns, ServerStep(e),
           NEW c \in Conns, c # e, Introduces(c)'
    PROVE  Owes(c)'
  <1>1. /\ Introduces(c) /\ Owes(c) /\ th[c] \in Thread
        /\ th'[c].i = th[c].i /\ th'[c].n = th[c].n
    BY ServerFrame, KnownTypes DEF Frame, Introduces, ToldInv
  <1> DEFINE gone == Cardinality(Departed)
             gone1 == Cardinality(Departed')
  <1>2. /\ gone \in Nat /\ gone1 \in Nat /\ gone <= gone1
        /\ LeftClient(e) \/ (Close(e) /\ Registered(e)) => gone + 1 <= gone1
    BY DepartedGrows
  <1>3. \A x \in Conns :
          /\ Introductions(c, x)' = Introductions(c, x)
          /\ Cardinality(Introductions(c, x)) \in Nat
    BY WhoIntroduces, IntroductionsFinite, KnownTypes
  <1>4. \A f : Cardinality(Due(c, f)) \in Nat
    BY <1>1, DueFinite
  <1>5. \A x \in Conns \ {e} : SameEntry(x)
    BY ServerFrame, FrameStays, StaysEntry, KnownTypes DEF Thread
  \* It is enough to bound what is due by then.
  <1>6. ASSUME NEW x \in Conns, Alive(x)', NEW f, f = th'[x].fd, NEW due,
               Cardinality(Due(c, f)') = due,
               Cardinality(Introductions(c, x)) + due
                 <= gone1 + (IF Registered(x)' THEN 1 ELSE 0)
        PROVE  Cardinality(Introductions(c, x)') + Cardinality(Due(c, th[x].fd)')
                 <= gone1 + (IF Registered(x)' THEN 1 ELSE 0)
    <2>1. Due(c, th[x].fd)' = Due(c, f)'
      BY <1>6 DEF Due
    <2>2. Introductions(c, x)' = Introductions(c, x)
      BY <1>3
    <2> QED
      BY <1>6, <2>1, <2>2
  <1> HIDE DEF gone, gone1
  <1>7. CASE ~Register(e) /\ ~LeftClient(e)
    <2>1. clientList' = clientList /\ SameEntry(e)
      BY <1>7, OwnEntry
    <2>2. \A f : Due(c, f)' = Due(c, f)
      BY <1>1, <2>1 DEF Due
    <2>3. ASSUME NEW x \in Conns, Alive(x)'
          PROVE  Cardinality(Introductions(c, x)') + Cardinality(Due(c, th[x].fd)')
                   <= gone1 + (IF Registered(x)' THEN 1 ELSE 0)
      <3> PICK f : f = th'[x].fd
        OBVIOUS
      <3> DEFINE told == Cardinality(Introductions(c, x))
                 due == Cardinality(Due(c, f))
      <3>1. told \in Nat /\ due \in Nat
        BY <1>3, <1>4
      <3>2. told + due <= gone + (IF Registered(x)' THEN 1 ELSE 0)
        <4>1. CASE Alive(x) /\ th'[x].fd = th[x].fd
          <5>1. Registered(x)' <=> Registered(x)
            BY <1>5, <2>1 DEF SameEntry
          <5>2. told + Cardinality(Due(c, th[x].fd))
                  <= gone + (IF Registered(x) THEN 1 ELSE 0)
            BY <1>1, <4>1 DEF Owes, gone
          <5> QED
            BY <4>1, <5>1, <5>2
        <4>2. CASE /\ th[x].pc = "new" /\ th'[x].fd \in Fds
                   /\ fdTable[th'[x].fd] = NoConn
          <5>1. due <= gone
            BY <1>1, <4>2 DEF Owes, gone
          <5>2. Introductions(c, x) = {}
            BY <4>2 DEF ToldInv
          <5>3. told = 0
            BY <5>2, FS_EmptySet
          <5> HIDE DEF told, due
          <5> QED
            BY <1>2, <3>1, <5>1, <5>3
        <4> QED
          BY <2>3, <4>1, <4>2, LivesMove
      <3>3. Cardinality(Due(c, f)') = due
        BY <2>2
      <3> HIDE DEF told, due
      <3>4. told + due <= gone1 + (IF Registered(x)' THEN 1 ELSE 0)
        BY <1>2, <3>1, <3>2
      <3> QED
        BY <1>6, <2>3, <3>3, <3>4 DEF told
    <2>4. ASSUME NEW f \in Fds, fdTable'[f] = NoConn
          PROVE  Cardinality(Due(c, f)') <= gone1
      <3> DEFINE due == Cardinality(Due(c, f))
      <3>1. due \in Nat /\ Cardinality(Due(c, f)') = due
        BY <1>4, <2>2
      <3>2. CASE fdTable[f] = NoConn
        <4>1. due <= gone
          BY <1>1, <3>2 DEF Owes, gone
        <4> HIDE DEF due
        <4> QED
          BY <1>2, <3>1, <4>1
      <3>3. CASE Close(e) /\ f = th[e].fd /\ Alive(e)
        <4> DEFINE told == Cardinality(Introductions(c, e))
        <4>1. told + due <= gone + (IF Registered(e) THEN 1 ELSE 0)
          BY <1>1, <3>3 DEF Owes, gone
        <4>2. told \in Nat
          BY <1>3
        <4> HIDE DEF told, due
        <4> QED
          BY <1>2, <3>1, <3>3, <4>1, <4>2
      <3> QED
        BY <2>4, <3>2, <3>3, FreesMove
    <2> QED
      BY <2>3, <2>4 DEF Owes, gone1
  <1>8. CASE Register(e) \/ LeftClient(e)
    <2>1. /\ Alive(e) /\ fdTable' = fdTable
          /\ th[e].fd \in Fds /\ fdTable[th[e].fd] # NoConn
      <3>1. Alive(e) /\ fdTable' = fdTable
        BY <1>8 DEF Register, LeftClient, At, Receives, Alive
      <3> QED
        BY <3>1, OwnDescriptor
    <2>2. ASSUME NEW x \in Conns, Alive(x)'
          PROVE  Alive(x) /\ th'[x].fd = th[x].fd
      BY <1>8, <2>2, LivesMove DEF Register, LeftClient, Accept, At, Receives
    <2>3. ASSUME NEW f
          PROVE  /\ Register(e) /\ f # th[e].fd =>
                      Cardinality(Due(c, f)') <= Cardinality(Due(c, f))
                 /\ LeftClient(e) /\ f = th[e].fd =>
                      Cardinality(Due(c, f)') <= Cardinality(Due(c, f))
                 /\ Cardinality(Due(c, f)') <= Cardinality(Due(c, f)) + 1
                 /\ Cardinality(Due(c, f)') \in Nat
      BY <1>1, <1>8, DueMoves
    <2>4. ASSUME NEW x \in Conns, Alive(x)'
          PROVE  Cardinality(Introductions(c, x)') + Cardinality(Due(c, th[x].fd)')
                   <= gone1 + (IF Registered(x)' THEN 1 ELSE 0)
      <3> DEFINE told == Cardinality(Introductions(c, x))
      <3> PICK f : f = th[x].fd
        OBVIOUS
      <3> DEFINE due == Cardinality(Due(c, f))
                 due1 == Cardinality(Due(c, f)')
      <3>1. Alive(x) /\ th'[x].fd = f
        BY <2>2, <2>4
      <3>2. told + due <= gone + (IF Registered(x) THEN 1 ELSE 0)
        BY <1>1, <3>1 DEF Owes, gone
      <3>3. told \in Nat /\ due \in Nat /\ due1 \in Nat /\ due1 <= due + 1
        BY <1>3, <1>4, <2>3, <3>1
      <3>4. x # e => f # th[e].fd /\ (Registered(x)' <=> Registered(x))
        BY <1>5, <2>1, <3>1, OwnDescriptor DEF SameEntry
      <3>5. told + due1 <= gone1 + (IF Registered(x)' THEN 1 ELSE 0)
        <4>1. CASE Register(e) /\ x # e
          <5>1. due1 <= due /\ (Registered(x)' <=> Registered(x))
            BY <2>3, <3>1, <3>4, <4>1
          <5> HIDE DEF told, due, due1
          <5> QED
            BY <1>2, <3>2, <3>3, <5>1
        <4>2. CASE Register(e) /\ x = e
          <5>1. ~Registered(x) /\ Registered(x)'
            BY <4>2, RegisterEntry
          <5> HIDE DEF told, due, due1
          <5> QED
            BY <1>2, <3>2, <3>3, <5>1
        <4>3. CASE LeftClient(e) /\ x # e
          <5>1. gone + 1 <= gone1 /\ (Registered(x)' <=> Registered(x))
            BY <1>2, <3>4, <4>3
          <5> HIDE DEF told, due, due1
          <5> QED
            BY <1>2, <3>2, <3>3, <5>1
        <4>4. CASE LeftClient(e) /\ x = e
          <5>1. due1 <= due /\ gone + 1 <= gone1
            BY <1>2, <2>3, <3>1, <4>4
          <5> HIDE DEF told, due, due1
          <5> QED
            BY <1>2, <3>2, <3>3, <5>1
        <4> QED
          BY <1>8, <4>1, <4>2, <4>3, <4>4
      <3> HIDE DEF due1
      <3> QED
        BY <1>6, <2>4, <3>1, <3>5 DEF due1
    <2>5. ASSUME NEW f \in Fds, fdTable'[f] = NoConn
          PROVE  Cardinality(Due(c, f)') <= gone1
      <3> DEFINE due == Cardinality(Due(c, f))
                 due1 == Cardinality(Due(c, f)')
      <3>1. fdTable[f] = NoConn /\ f # th[e].fd
        BY <2>1, <2>5
      <3>2. due <= gone /\ due \in Nat /\ due1 \in Nat
        BY <1>1, <1>4, <2>3, <3>1 DEF Owes, gone
      <3>3. (Register(e) /\ due1 <= due) \/ (LeftClient(e) /\ due1 <= due + 1)
        BY <1>8, <2>3, <3>1
      <3>4. due1 <= due \/ (gone + 1 <= gone1 /\ due1 <= due + 1)
        BY <1>2, <3>3
      <3> HIDE DEF due, due1
      <3>5. due1 <= gone1
        BY <1>2, <3>2, <3>4
      <3> QED
        BY <3>5 DEF due1
    <2> QED
      BY <2>4, <2>5 DEF Owes, gone1
  <1> QED
    BY <1>7, <1>8

----------------------------------------------------------------------------
(* What a thread owes by its own steps. *)

\* What the list holds of a descriptor beyond its user was left by users that
\* are gone.
LEMMA Leftovers ==
    ASSUME IsFiniteSet(Conns), IndInv, HandlerInv, RegistryCounts, NEW f \in Fds
    PROVE  /\ Cardinality(SlotsOf(clientList, f)) \in Nat
           /\ fdTable[f] = NoConn =>
                Cardinality(SlotsOf(clientList, f)) <= Cardinality(Departed)
           /\ \A x \in Conns : fdTable[f] = x =>
                Cardinality(SlotsOf(clientList, f))
                  <= Cardinality(Departed) + (IF Registered(x) THEN 1 ELSE 0)
  <1>1. Cardinality(SlotsOf(clientList, f)) = Cardinality(RegisteredOn(f))
    BY DEF RegistryCounts, RegisteredOn
  <1>2. IsFiniteSet(Departed) /\ Cardinality(Departed) \in Nat
    <2>1. Departed \subseteq Conns
      BY DEF Departed
    <2> QED
      BY <2>1, FS_Subset, FS_CardinalityType
  <1>3. ASSUME NEW d \in RegisteredOn(f)
        PROVE  d \in Departed \/ fdTable[f] = d
    <2>1. d \in Conns /\ Registered(d) /\ th[d].fd = f
      BY DEF RegisteredOn
    <2>2. th[d].pc # "new"
      <3>1. th[d].pc = "new" => th[d].got = 0
        BY <2>1 DEF HandlerInv, InHandler
      <3> QED
        BY <2>1, <3>1 DEF Registered
    <2>3. CASE th[d].pc = "closed"
      BY <2>1, <2>3 DEF Departed
    <2>4. CASE th[d].pc # "closed"
      BY <2>1, <2>2, <2>4 DEF IndInv, FdInv, OneThreadPerFd
    <2> QED
      BY <2>3, <2>4
  <1>4. IsFiniteSet(RegisteredOn(f)) /\ Cardinality(RegisteredOn(f)) \in Nat
    BY RegisteredFinite, FS_CardinalityType
  <1>5. ASSUME RegisteredOn(f) \subseteq Departed
        PROVE  Cardinality(RegisteredOn(f)) <= Cardinality(Departed)
    BY <1>2, <1>5, FS_Subset
  <1>6. ASSUME NEW x \in Conns, fdTable[f] = x
        PROVE  Cardinality(RegisteredOn(f))
                 <= Cardinality(Departed) + (IF Registered(x) THEN 1 ELSE 0)
    <2>1. CASE Registered(x)
      <3>1. RegisteredOn(f) \subseteq Departed \cup {x}
        BY <1>3, <1>6
      <3>2. Cardinality(RegisteredOn(f)) <= Cardinality(Departed) + 1
        BY <1>2, <3>1, AtMostOneMore
      <3> QED
        BY <2>1, <3>2
    <2>2. CASE ~Registered(x)
      <3>1. RegisteredOn(f) \subseteq Departed
        BY <1>3, <1>6, <2>2 DEF RegisteredOn
      <3> QED
        BY <1>2, <1>5, <2>2, <3>1
    <2> QED
      BY <2>1, <2>2
  <1>7. fdTable[f] = NoConn => RegisteredOn(f) \subseteq Departed
    <2>1. NoConn \notin Conns
      BY TransportAssumption
    <2>2. RegisteredOn(f) \subseteq Conns
      BY DEF RegisteredOn
    <2> QED
      BY <1>3, <2>1, <2>2
  <1> QED
    BY <1>1, <1>4, <1>5, <1>6, <1>7

\* The steps after which a thread introduces.
LEMMA WhoWillIntroduce ==
    ASSUME IndInv, HandlerInv, NEW e \in Conns, ServerStep(e), Introduces(e)'
    PROVE  NewClient(e) \/ IntroduceHeader(e) \/ IntroducePayload(e)
  <1>1. th[e] \in Thread /\ th \in [Conns -> Thread]
    BY KnownTypes
  <1>2. th'[e].pc \in {"introduce", "introducePayload"}
    BY DEF Introduces
  <1>3. ASSUME NEW t, th' = [th EXCEPT ![e] = t],
               t.pc \notin {"introduce", "introducePayload"}
        PROVE  FALSE
    BY <1>1, <1>2, <1>3
  <1>4. CASE ListPayload(e) \/ LeftDone(e) \/ PeerChatPayload(e)
    BY <1>2, <1>4, ReturnFrame DEF ListPayload, LeftDone, PeerChatPayload
  <1>5. CASE Register(e)
    BY <1>2, <1>5, RegisterFrame
  <1>6. CASE Accept(e) \/ LeftHeader(e) \/ LeftPayload(e)
    <2>1. CASE Accept(e)
      BY <1>1, <1>2, <2>1 DEF Thread, Accept
    <2>2. CASE LeftHeader(e)
      BY <1>1, <1>2, <2>2 DEF Thread, LeftHeader
    <2>3. CASE LeftPayload(e)
      BY <1>1, <1>2, <2>3 DEF Thread, LeftPayload
    <2> QED
      BY <1>6, <2>1, <2>2, <2>3
  <1>7. CASE ListHeader(e)
    BY <1>1, <1>2, <1>7 DEF Thread, ListHeader
  <1>8. CASE LeftClient(e)
    BY <1>1, <1>2, <1>8 DEF Thread, LeftClient
  <1>9. CASE PeerChat(e)
    BY <1>1, <1>2, <1>9 DEF Thread, PeerChat
  <1>10. CASE Close(e)
    <2> DEFINE t == [Idle(th[e], 0) EXCEPT !.pc = "closed"]
    <2>1. Idle(th[e], 0) \in Thread
      BY <1>1, IdleType
    <2>2. t.pc = "closed" /\ th' = [th EXCEPT ![e] = t]
      BY <1>10, <2>1 DEF Thread, Close
    <2> HIDE DEF t
    <2> QED
      BY <1>3, <2>2
  <1>11. CASE ReadsNull(e) \/ FollowsFreedPointer(e)
    BY <1>2, <1>11 DEF ReadsNull, FollowsFreedPointer, At
  <1> QED
    BY <1>4, <1>5, <1>6, <1>7, <1>8, <1>9, <1>10, <1>11
       DEF ServerStep, RegistryHandler

\* At first, what the list holds.
LEMMA OwesAtFirst ==
    ASSUME IsFiniteSet(Conns), IndInv, HandlerInv, ReaderInv, RegistryCounts,
           ToldInv, NEW e \in Conns, NewClient(e), Introduces(e)'
    PROVE  Owes(e)'
  <1>1. /\ th[e] \in Thread /\ th \in [Conns -> Thread]
        /\ clientList.size \in Nat /\ th[e].got = 0
    BY KnownTypes, IncomingPlace DEF NewClient
  <1>2. ServerStep(e) /\ ~Register(e) /\ ~LeftClient(e) /\ ~Accept(e) /\ ~Close(e)
    BY <1>1 DEF ServerStep, RegistryHandler, NewClient, Register, LeftClient,
       Receives, At, Accept, Close
  <1>3. th'[e].i = 1 /\ th'[e].n = clientList.size
    <2> DEFINE t == [th[e] EXCEPT !.pc = "introduce", !.got = @ + 1,
                                  !.pkt = Joined(e), !.i = 1,
                                  !.n = clientList.size]
    <2>1. t.i = 1 /\ t.n = clientList.size
      BY <1>1 DEF Thread
    <2>2. Idle(th[e], 1).pc = "recv"
      BY <1>1, IdleType
    <2>3. \/ th' = [th EXCEPT ![e] = t]
          \/ th' = [th EXCEPT ![e] = Idle(th[e], 1)]
      BY DEF NewClient, ReceiveAndReturn
    <2> HIDE DEF t
    <2>4. th'[e] = t \/ th'[e] = Idle(th[e], 1)
      BY <1>1, <2>3
    <2> QED
      BY <2>1, <2>2, <2>4 DEF Introduces
  <1>4. clientList' = clientList /\ out' = out /\ fdTable' = fdTable
    BY DEF NewClient
  <1> DEFINE gone == Cardinality(Departed)
             gone1 == Cardinality(Departed')
  <1>5. gone \in Nat /\ gone1 \in Nat /\ gone <= gone1
    BY <1>2, DepartedGrows
  <1>6. \A f : Due(e, f)' = SlotsOf(clientList, f)
    BY <1>3, <1>4 DEF Due, SlotsOf, Live
  <1>7. ASSUME NEW x \in Conns, Alive(x)'
        PROVE  Cardinality(Introductions(e, x)') + Cardinality(Due(e, th[x].fd)')
                 <= gone1 + (IF Registered(x)' THEN 1 ELSE 0)
    <2> PICK f : f = th[x].fd
      OBVIOUS
    <2>1. Alive(x) /\ th'[x].fd = f
      BY <1>2, <1>7, LivesMove
    <2>2. f \in Fds /\ fdTable[f] = x
      BY <2>1, OwnDescriptor
    <2>3. Registered(x)' <=> Registered(x)
      <3>1. CASE x = e
        BY <1>2, <3>1, OwnEntry DEF SameEntry
      <3>2. CASE x # e
        BY <1>2, <3>2, ServerFrame, FrameStays, StaysEntry, KnownTypes
           DEF SameEntry, Thread
      <3> QED
        BY <3>1, <3>2
    <2>4. Introductions(e, x)' = {}
      BY <1>1, <1>4 DEF ToldInv, Introductions
    <2>5. Cardinality(Introductions(e, x)') = 0
      BY <2>4, FS_EmptySet
    <2>6. Due(e, th[x].fd)' = SlotsOf(clientList, f)
      BY <1>3, <1>4, <2>1 DEF Due, SlotsOf, Live
    <2> DEFINE due == Cardinality(SlotsOf(clientList, f))
    <2>7. due \in Nat /\ due <= gone + (IF Registered(x) THEN 1 ELSE 0)
      BY <2>2, Leftovers
    <2> HIDE DEF due, gone, gone1
    <2>8. 0 + due <= gone1 + (IF Registered(x)' THEN 1 ELSE 0)
      BY <1>5, <2>3, <2>7
    <2> QED
      BY <2>5, <2>6, <2>8 DEF due
  <1>8. ASSUME NEW f \in Fds, fdTable'[f] = NoConn
        PROVE  Cardinality(Due(e, f)') <= gone1
    <2> DEFINE due == Cardinality(SlotsOf(clientList, f))
    <2>1. due \in Nat /\ due <= gone
      BY <1>4, <1>8, Leftovers
    <2>2. Cardinality(Due(e, f)') = due
      BY <1>6
    <2> HIDE DEF due, gone, gone1
    <2> QED
      BY <1>5, <2>1, <2>2
  <1> QED
    BY <1>7, <1>8 DEF Owes

\* A header leaves what is due; a payload tells what was.
LEMMA OwesNext ==
    ASSUME IsFiniteSet(Conns), IndInv, HandlerInv, ReaderInv, ToldInv,
           NEW e \in Conns, IntroduceHeader(e) \/ IntroducePayload(e)
    PROVE  Owes(e)'
  <1>1. /\ th[e] \in Thread /\ th \in [Conns -> Thread]
        /\ th[e].i \in Nat /\ th[e].n \in Nat /\ NetTypeOK
    BY KnownTypes DEF Thread
  <1>2. ServerStep(e) /\ ~Register(e) /\ ~LeftClient(e) /\ ~Accept(e) /\ ~Close(e)
    <2>1. ServerStep(e)
      BY DEF ServerStep, RegistryHandler
    <2>2. CASE IntroducePayload(e)
      BY <2>1, <2>2 DEF IntroducePayload, Register, LeftClient, Receives, At,
         Accept, Close
    <2>3. CASE IntroduceHeader(e)
      <3>1. ~Register(e)
        BY <1>1, <2>3 DEF IntroduceHeader, Register
      <3> QED
        BY <2>1, <2>3, <3>1 DEF IntroduceHeader, LeftClient, Receives, At,
           Accept, Close
    <2> QED
      BY <2>2, <2>3
  <1>3. Owes(e) /\ clientList' = clientList /\ fdTable' = fdTable
    BY DEF ToldInv, Introduces, IntroduceHeader, IntroducePayload, At
  <1>4. \/ IntroduceHeader(e) /\ ~IntroducePayload(e) /\ th'[e].i = th[e].i
        \/ IntroducePayload(e) /\ th'[e].i = th[e].i + 1
    <2>1. CASE IntroduceHeader(e)
      BY <1>1, <2>1 DEF Thread, IntroduceHeader, IntroducePayload, At
    <2>2. CASE IntroducePayload(e)
      BY <1>1, <2>2 DEF Thread, IntroducePayload
    <2> QED
      BY <2>1, <2>2
  <1>5. th'[e].n = th[e].n
    <2>1. CASE IntroduceHeader(e)
      BY <1>1, <2>1 DEF Thread, IntroduceHeader
    <2>2. CASE IntroducePayload(e)
      BY <1>1, <2>2 DEF Thread, IntroducePayload
    <2> QED
      BY <2>1, <2>2
  <1> DEFINE gone == Cardinality(Departed)
             gone1 == Cardinality(Departed')
  <1>6. gone \in Nat /\ gone1 \in Nat /\ gone <= gone1
    BY <1>2, DepartedGrows
  <1>7. ASSUME NEW f
        PROVE  /\ Due(e, f)' \subseteq Due(e, f)
               /\ IntroducePayload(e) => th[e].i \notin Due(e, f)'
               /\ IsFiniteSet(Due(e, f))
               /\ Cardinality(Due(e, f)) \in Nat
               /\ Cardinality(Due(e, f)') \in Nat
               /\ Cardinality(Due(e, f)') <= Cardinality(Due(e, f))
    <2>1. /\ Due(e, f)' \subseteq Due(e, f)
          /\ th'[e].i = th[e].i + 1 => th[e].i \notin Due(e, f)'
      BY <1>1, <1>3, <1>4, <1>5 DEF Due
    <2>2. IsFiniteSet(Due(e, f)) /\ Cardinality(Due(e, f)) \in Nat
      BY <1>1, DueFinite
    <2>3. th[e].i # th[e].i + 1
      BY <1>1
    <2> QED
      BY <1>4, <2>1, <2>2, <2>3, FS_Subset, FS_CardinalityType
  <1>8. ASSUME NEW x \in Conns, Alive(x)'
        PROVE  Cardinality(Introductions(e, x)') + Cardinality(Due(e, th[x].fd)')
                 <= gone1 + (IF Registered(x)' THEN 1 ELSE 0)
    <2> PICK f : f = th[x].fd
      OBVIOUS
    <2> DEFINE told == Cardinality(Introductions(e, x))
               told1 == Cardinality(Introductions(e, x)')
               due == Cardinality(Due(e, f))
               due1 == Cardinality(Due(e, f)')
    <2>1. Alive(x) /\ th'[x].fd = f
      BY <1>2, <1>8, LivesMove
    <2>2. Registered(x)' <=> Registered(x)
      <3>1. CASE x = e
        BY <1>2, <3>1, OwnEntry DEF SameEntry
      <3>2. CASE x # e
        BY <1>2, <3>2, ServerFrame, FrameStays, StaysEntry, KnownTypes
           DEF SameEntry, Thread
      <3> QED
        BY <3>1, <3>2
    <2>3. Due(e, th[x].fd)' = Due(e, f)'
      BY <2>1 DEF Due
    <2>4. told + due <= gone + (IF Registered(x) THEN 1 ELSE 0)
      BY <1>3, <2>1 DEF Owes
    <2>5. /\ told \in Nat /\ IsFiniteSet(Introductions(e, x))
          /\ due \in Nat /\ due1 \in Nat /\ due1 <= due
      BY <1>1, <1>7, IntroductionsFinite
    <2>6. told1 \in Nat /\ told1 + due1 <= told + due
      <3>1. CASE Introductions(e, x)' = Introductions(e, x)
        <4>1. told1 = told
          BY <3>1
        <4> HIDE DEF told, told1, due, due1
        <4> QED
          BY <2>5, <4>1
      <3>2. CASE /\ IntroducePayload(e)
                 /\ clientList.clients[th[e].i].FD = th[x].fd
                 /\ Introductions(e, x)' \subseteq
                      Introductions(e, x) \cup {Len(out[x]) + 1}
        <4>1. told1 <= told + 1 /\ told1 \in Nat
          <5>1. /\ IsFiniteSet(Introductions(e, x)')
                /\ told1 <= told + 1
            BY <2>5, <3>2, AtMostOneMore
          <5> QED
            BY <5>1, FS_CardinalityType
        <4>2. th[e].i \in Due(e, f)
          BY <3>2, PayloadWasDue
        <4>3. due1 + 1 <= due
          BY <1>7, <3>2, <4>2, AtLeastOneMore
        <4> HIDE DEF told, told1, due, due1
        <4> QED
          BY <2>5, <4>1, <4>3
      <3> QED
        BY <1>2, <3>1, <3>2, WhoIntroduces
    <2> HIDE DEF told, told1, due, due1, gone, gone1
    <2>7. told1 + due1 <= gone1 + (IF Registered(x)' THEN 1 ELSE 0)
      BY <1>6, <2>2, <2>4, <2>5, <2>6
    <2> QED
      BY <2>3, <2>7 DEF told1, due1
  <1>9. ASSUME NEW f \in Fds, fdTable'[f] = NoConn
        PROVE  Cardinality(Due(e, f)') <= gone1
    <2> DEFINE due == Cardinality(Due(e, f))
               due1 == Cardinality(Due(e, f)')
    <2>1. due <= gone
      BY <1>3, <1>9 DEF Owes
    <2>2. due \in Nat /\ due1 \in Nat /\ due1 <= due
      BY <1>7
    <2> HIDE DEF due, due1, gone, gone1
    <2>3. due1 <= gone1
      BY <1>6, <2>1, <2>2
    <2> QED
      BY <2>3 DEF due1
  <1> QED
    BY <1>8, <1>9 DEF Owes

----------------------------------------------------------------------------
(* Every step keeps ToldInv. *)

LEMMA ServerTold ==
    ASSUME IsFiniteSet(Conns), IndInv, HandlerInv, ReaderInv, RegistryCounts,
           ToldInv, NEW e \in Conns, ServerStep(e)
    PROVE  ToldInv'
  <1>1. \A c, x \in Conns :
          (th'[c].got = 0 \/ th'[x].pc = "new") => Introductions(c, x)' = {}
    BY FirstTold
  <1>2. ToldOncePerDeparture'
    BY BoundKept
  <1>3. ASSUME NEW c \in Conns, Introduces(c)'
        PROVE  Owes(c)'
    <2>1. CASE c # e
      BY <1>3, <2>1, OthersOwe
    <2>2. CASE c = e
      BY <1>3, <2>2, WhoWillIntroduce, OwesAtFirst, OwesNext
    <2> QED
      BY <2>1, <2>2
  <1> QED
    BY <1>1, <1>2, <1>3 DEF ToldInv

LEMMA UserTold ==
    ASSUME IndInv, ToldInv, NEW e \in Conns, UserStep(e)
    PROVE  ToldInv'
  <1>1. /\ out' = out /\ th' = th /\ clientList' = clientList
        /\ fdTable' = fdTable
    BY UserStays DEF UserStep, SendIntro, Quit, Crash, SendChat
  <1>2. \A d \in Conns : Stays(d) /\ th[d].got \in Nat
    BY UserStays, KnownTypes DEF Thread
  <1>3. \A d \in Conns : Registered(d)' <=> Registered(d)
    BY <1>2, StaysEntry DEF SameEntry
  <1>4. Departed' = Departed
    <2>1. \A d \in Conns : SaidGoodbye(d)' <=> SaidGoodbye(d)
      BY <1>2, StaysPhase
    <2> QED
      BY <1>1, <2>1 DEF Departed
  <1>5. \A c, x \in Conns : Introductions(c, x)' = Introductions(c, x)
    BY <1>1 DEF Introductions
  <1>6. ToldOncePerDeparture'
    BY <1>4, <1>5 DEF ToldInv, ToldOncePerDeparture
  <1>7. ASSUME NEW c \in Conns, Introduces(c)'
        PROVE  Owes(c)'
    <2>1. Introduces(c)
      BY <1>1, <1>7 DEF Introduces
    <2>2. Owes(c)
      BY <2>1 DEF ToldInv
    <2>3. \A f : Due(c, f)' = Due(c, f)
      BY <1>1 DEF Due
    <2>4. ASSUME NEW x \in Conns, Alive(x)'
          PROVE  Cardinality(Introductions(c, x)') + Cardinality(Due(c, th[x].fd)')
                   <= Cardinality(Departed') + (IF Registered(x)' THEN 1 ELSE 0)
      <3>1. Alive(x) /\ Due(c, th[x].fd)' = Due(c, th[x].fd)
        BY <1>1, <2>4 DEF Alive, Due
      <3>2. Cardinality(Introductions(c, x)) + Cardinality(Due(c, th[x].fd))
              <= Cardinality(Departed) + (IF Registered(x) THEN 1 ELSE 0)
        BY <2>2, <3>1 DEF Owes
      <3> QED
        BY <1>3, <1>4, <1>5, <3>1, <3>2
    <2>5. \A f \in Fds : fdTable'[f] = NoConn =>
            Cardinality(Due(c, f)') <= Cardinality(Departed')
      BY <1>1, <1>4, <2>2, <2>3 DEF Owes
    <2> QED
      BY <2>4, <2>5 DEF Owes
  <1>8. \A c, x \in Conns :
          (th'[c].got = 0 \/ th'[x].pc = "new") => Introductions(c, x)' = {}
    BY <1>1, <1>5 DEF ToldInv
  <1> QED
    BY <1>6, <1>7, <1>8 DEF ToldInv

LEMMA NextTold ==
    ASSUME IsFiniteSet(Conns)
    PROVE  /\ IndInv /\ HandlerInv /\ ReaderInv /\ RegistryCounts /\ ToldInv
           /\ [Next]_registryVars
           => ToldInv'
  <1> SUFFICES ASSUME IndInv, HandlerInv, ReaderInv, RegistryCounts, ToldInv,
                      [Next]_registryVars
               PROVE  ToldInv'
    OBVIOUS
  <1>1. CASE UNCHANGED registryVars
    <2>1. UNCHANGED <<fdTable, th, sent, out, clientList>>
      BY <1>1 DEF registryVars, netVars
    <2>2. /\ \A c, x \in Conns : Introductions(c, x)' = Introductions(c, x)
          /\ Departed' = Departed
          /\ \A x \in Conns : Registered(x)' <=> Registered(x)
      BY <2>1 DEF Introductions, Departed, SaidGoodbye, Registered
    <2>3. ToldOncePerDeparture'
      BY <2>2 DEF ToldInv, ToldOncePerDeparture
    <2>4. ASSUME NEW c \in Conns, Introduces(c)'
          PROVE  Owes(c)'
      <3>1. Owes(c)
        BY <2>1, <2>4 DEF ToldInv, Introduces
      <3> QED
        BY <2>1, <2>2, <3>1 DEF Owes, Due, Alive
    <2> QED
      BY <2>1, <2>2, <2>3, <2>4 DEF ToldInv
  <1>2. CASE Stops
    BY <1>1, <1>2 DEF Stops
  <1> QED
    BY <1>1, <1>2, ServerTold, UserTold DEF Next

LEMMA InitTold == ASSUME IsFiniteSet(Conns) PROVE Init => ToldInv
  <1> SUFFICES ASSUME Init
               PROVE  ToldInv
    OBVIOUS
  <1>1. \A c, x \in Conns : Introductions(c, x) = {}
    BY DEF Init, NetInit, Introductions
  <1>2. Cardinality(Departed) \in Nat
    <2>1. Departed \subseteq Conns
      BY DEF Departed
    <2> QED
      BY <2>1, FS_Subset, FS_CardinalityType
  <1>3. ToldOncePerDeparture
    <2>1. \A c, x \in Conns : Cardinality(Introductions(c, x)) = 0
      BY <1>1, FS_EmptySet
    <2> QED
      BY <1>2, <2>1 DEF ToldOncePerDeparture
  <1>4. \A c \in Conns : ~Introduces(c)
    BY DEF Init, NetInit, NewThread, Introduces
  <1> QED
    BY <1>1, <1>3, <1>4 DEF ToldInv

\* However the INTROs and departures interleave, with crashes: no user is told
\* by the same thread of its client more than once, and once more for every
\* user that has gone, if no array moves.
THEOREM NobodyIsToldTwice ==
    ASSUME ~ReallocMoves, IsFiniteSet(Conns)
    PROVE  Spec => []ToldOncePerDeparture
  <1>1. Init => ReaderInv
    BY DEF Init, NetInit, NewThread, ReaderInv, OnList, SawItself
  <1>2. ToldInv => ToldOncePerDeparture
    BY DEF ToldInv
  <1> QED
    BY <1>1, <1>2, InitInv, NextInv, InitHandler, NextHandler, NextReader,
       InitCounts, NextCounts, InitTold, NextTold, PTL DEF Spec

----------------------------------------------------------------------------
(* Who has been told of a user is told that it left (LeaverAnnounced). *)

\* A client writes its own name in its INTRO, and is introduced by it.
NameInv ==
    \A c \in Conns :
      /\ sent[c] # <<>> => sent[c][1].name = c
      /\ Introduces(c) => th[c].pkt.name = c

LEMMA ServerNames ==
    ASSUME IndInv, HandlerInv, NameInv, NEW e \in Conns, ServerStep(e)
    PROVE  NameInv'
  <1>1. sent' = sent /\ Frame(e) /\ th[e] \in Thread /\ th \in [Conns -> Thread]
    BY ServerFrame, KnownTypes
  <1>2. ASSUME NEW c \in Conns, Introduces(c)', c # e
        PROVE  th'[c].pkt.name = c
    BY <1>1, <1>2 DEF Frame, NameInv, Introduces
  <1>3. ASSUME Introduces(e)', NewClient(e)
        PROVE  th'[e].pkt.name = e
    <2>1. /\ Incoming(e) = sent[e][1] /\ sent[e] # <<>>
          /\ sent[e] \in Seq(Packet)
      <3>1. /\ th[e].got = 0 /\ th[e].got + 1 \in DOMAIN sent[e]
            /\ sent[e][th[e].got + 1] = Incoming(e)
        BY <1>3, IncomingPlace DEF NewClient
      <3> QED
        BY <3>1, KnownTypes DEF NetTypeOK
    <2>2. Joined(e).name = e
      BY <2>1 DEF NameInv, Joined, Blank
    <2> DEFINE t == [th[e] EXCEPT !.pc = "introduce", !.got = @ + 1,
                                  !.pkt = Joined(e), !.i = 1,
                                  !.n = clientList.size]
    <2>3. t.pkt = Joined(e)
      BY <1>1 DEF Thread
    <2>4. Idle(th[e], 1).pc = "recv"
      BY <1>1, IdleType
    <2>5. \/ th' = [th EXCEPT ![e] = t]
          \/ th' = [th EXCEPT ![e] = Idle(th[e], 1)]
      BY <1>3 DEF NewClient, ReceiveAndReturn
    <2> HIDE DEF t
    <2>6. th'[e] = t \/ th'[e] = Idle(th[e], 1)
      BY <1>1, <2>5
    <2> QED
      BY <1>3, <2>2, <2>3, <2>4, <2>6 DEF Introduces
  <1>4. ASSUME IntroduceHeader(e) \/ IntroducePayload(e)
        PROVE  th'[e].pkt.name = e
    <2>1. th[e].pkt.name = e
      BY <1>4 DEF NameInv, Introduces, IntroduceHeader, IntroducePayload, At
    <2>2. CASE IntroduceHeader(e)
      BY <1>1, <2>1, <2>2 DEF Thread, IntroduceHeader
    <2>3. CASE IntroducePayload(e)
      BY <1>1, <2>1, <2>3 DEF Thread, IntroducePayload
    <2> QED
      BY <1>4, <2>2, <2>3
  <1>5. \A c \in Conns : Introduces(c)' => th'[c].pkt.name = c
    BY <1>2, <1>3, <1>4, WhoWillIntroduce
  <1> QED
    BY <1>1, <1>5 DEF NameInv

LEMMA UserNames ==
    ASSUME IndInv, NameInv, NEW e \in Conns, UserStep(e)
    PROVE  NameInv'
  <1>1. th' = th /\ sent \in [Conns -> Seq(Packet)] /\ sent[e] \in Seq(Packet)
    BY KnownTypes DEF NetTypeOK, UserStep, SendIntro, Quit, Crash, SendChat
  <1>2. ASSUME NEW p, sent' = [sent EXCEPT ![e] = Append(@, p)],
               sent[e] = <<>> => p.name = e
        PROVE  \A c \in Conns : sent'[c] # <<>> => sent'[c][1].name = c
    <2>1. sent'[e] = Append(sent[e], p)
          /\ \A c \in Conns \ {e} : sent'[c] = sent[c]
      BY <1>1, <1>2
    <2>2. CASE sent[e] = <<>>
      <3>1. sent'[e][1] = p
        BY <1>1, <2>1, <2>2
      <3> QED
        BY <1>2, <2>1, <2>2, <3>1 DEF NameInv
    <2>3. CASE sent[e] # <<>>
      <3>1. sent'[e][1] = sent[e][1]
        BY <1>1, <2>1, <2>3
      <3> QED
        BY <2>1, <2>3, <3>1 DEF NameInv
    <2> QED
      BY <2>2, <2>3
  <1>3. \A c \in Conns : sent'[c] # <<>> => sent'[c][1].name = c
    <2>1. CASE SendIntro(e)
      <3> DEFINE p == [Blank EXCEPT !.type = "INTRO", !.name = e]
                 torn == [p EXCEPT !.whole = FALSE]
      <3>1. p.name = e /\ torn.name = e
        BY DEF Blank
      <3>2. \/ sent' = [sent EXCEPT ![e] = Append(@, p)]
            \/ sent' = [sent EXCEPT ![e] = Append(@, torn)]
        BY <2>1 DEF SendIntro, Write
      <3> HIDE DEF p, torn
      <3> QED
        BY <1>2, <3>1, <3>2
    <2>2. CASE SendChat(e)
      <3>1. /\ sent[e] # <<>>
            /\ \E p : sent' = [sent EXCEPT ![e] = Append(@, p)]
        BY <2>2 DEF SendChat, CanWrite, Write
      <3> QED
        BY <1>2, <3>1
    <2>3. CASE Quit(e)
      <3>1. /\ sent[e] # <<>>
            /\ \E p : sent' = [sent EXCEPT ![e] = Append(@, p)]
        BY <2>3 DEF Quit
      <3> QED
        BY <1>2, <3>1
    <2>4. CASE Crash(e)
      BY <2>4 DEF Crash, NameInv
    <2> QED
      BY <2>1, <2>2, <2>3, <2>4 DEF UserStep
  <1> QED
    BY <1>1, <1>3 DEF NameInv, Introduces

LEMMA NextNames == IndInv /\ HandlerInv /\ NameInv /\ [Next]_registryVars => NameInv'
  <1> SUFFICES ASSUME IndInv, HandlerInv, NameInv, [Next]_registryVars
               PROVE  NameInv'
    OBVIOUS
  <1>1. CASE UNCHANGED registryVars
    BY <1>1 DEF registryVars, netVars, NameInv, Introduces
  <1>2. CASE Stops
    BY <1>1, <1>2 DEF Stops
  <1> QED
    BY <1>1, <1>2, ServerNames, UserNames DEF Next

----------------------------------------------------------------------------
(* What a step adds to what a user has been told. *)

LEMMA PayloadsStep ==
    ASSUME NetTypeOK, NEW c \in Conns, NEW f, NEW part, NEW p,
           Emits(c, f, part, p), NEW x \in Conns
    PROVE  \/ out'[x] = out[x]
           \/ /\ f \in Fds /\ fdTable[f] = x
              /\ \/ Payloads(x)' = Payloads(x)
                 \/ part = "payload" /\ Payloads(x)' = Payloads(x) \cup {p}
  <1> DEFINE chunk == [part |-> part, by |-> c, pkt |-> p]
             n == Len(out[x])
  <1>1. /\ out \in [Conns -> Seq(Chunk)] /\ out[x] \in Seq(Chunk) /\ n \in Nat
        /\ DOMAIN out[x] = 1 .. n
    BY LenProperties DEF NetTypeOK
  <1>2. chunk.part = part /\ chunk.pkt = p
    OBVIOUS
  <1>3. \/ out'[x] = out[x]
        \/ f \in Fds /\ fdTable[f] = x /\ out'[x] = Append(out[x], chunk)
    BY <1>1 DEF Emits
  <1>4. CASE f \in Fds /\ fdTable[f] = x /\ out'[x] = Append(out[x], chunk)
    <2> HIDE DEF chunk
    <2>1. /\ DOMAIN out'[x] = 1 .. n + 1 /\ out'[x][n + 1] = chunk
          /\ \A k \in 1 .. n : out'[x][k] = out[x][k]
      BY <1>1, <1>4
    <2>2. \A k : k \in 1 .. n + 1 <=> k \in 1 .. n \/ k = n + 1
      BY <1>1
    <2> HIDE DEF n
    <2>3. CASE part = "payload"
      <3>1. Payloads(x)' = Payloads(x) \cup {p}
        BY <1>1, <1>2, <2>1, <2>2, <2>3 DEF Payloads
      <3> QED
        BY <1>4, <2>3, <3>1
    <2>4. CASE part # "payload"
      <3>1. Payloads(x)' = Payloads(x)
        BY <1>1, <1>2, <2>1, <2>2, <2>4 DEF Payloads
      <3> QED
        BY <1>4, <3>1
    <2> QED
      BY <2>3, <2>4
  <1> QED
    BY <1>3, <1>4

Telling == {"USER_JOINED_SERVER", "CLIENT_LIST"}

\* The payload that ListPayload writes.
ListedBy(e) ==
    [th[e].pkt EXCEPT !.list = SubSeq(clientList.clients, 1, th[e].n)]

\* A user is written to while its thread is there, and is told of others by
\* introduceNewClient in its slot and by its own thread's list.
LEMMA WhoInforms ==
    ASSUME IndInv, HandlerInv, ReaderInv, NEW e \in Conns, ServerStep(e),
           NEW x \in Conns
    PROVE  /\ out'[x] = out[x] \/ Alive(x)
           /\ \A p \in Payloads(x)' \ Payloads(x) : p.type \in Telling =>
                \/ /\ IntroducePayload(e) /\ p = th[e].pkt
                   /\ clientList.clients[th[e].i].FD = th[x].fd
                \/ ListPayload(e) /\ x = e /\ p = ListedBy(e)
  <1>1. NetTypeOK /\ InHandler(e) /\ th[e] \in Thread /\ ~th[e].stale
    BY KnownTypes DEF HandlerInv, ReaderInv
  <1>2. ASSUME NEW f \in Fds, fdTable[f] = x
        PROVE  Alive(x) /\ th[x].fd = f
    BY <1>2 DEF IndInv, FdInv, OneThreadPerFd, Alive
  <1>3. ASSUME NEW f, NEW part, NEW p, Send(e, f, part, p)
        PROVE  \/ out'[x] = out[x]
               \/ /\ Alive(x) /\ th[x].fd = f
                  /\ \/ Payloads(x)' = Payloads(x)
                     \/ part = "payload" /\ Payloads(x)' = Payloads(x) \cup {p}
    <2>1. Emits(e, f, part, p)
      BY <1>1, <1>3, SendEffect
    <2> QED
      BY <1>1, <1>2, <2>1, PayloadsStep
  <1>4. ASSUME out'[x] = out[x]
        PROVE  Payloads(x)' = Payloads(x)
    BY <1>4 DEF Payloads
  <1>5. CASE IntroduceHeader(e) \/ ListHeader(e) \/ LeftHeader(e) \/ PeerChat(e)
    <2>1. \E f, p : Send(e, f, "header", p)
      BY <1>5 DEF IntroduceHeader, ListHeader, LeftHeader, PeerChat, SendHeader
    <2>2. (out'[x] = out[x] \/ Alive(x)) /\ Payloads(x)' = Payloads(x)
      BY <1>3, <1>4, <2>1
    <2> QED
      BY <2>2
  <1>6. CASE LeftPayload(e) \/ PeerChatPayload(e)
    <2>1. th[e].pkt.type \notin Telling
      BY <1>1, <1>6 DEF LeftPayload, PeerChatPayload, At, InHandler, Left,
         Blank, Telling
    <2>2. \E f : Send(e, f, "payload", th[e].pkt)
      BY <1>6 DEF LeftPayload, PeerChatPayload, SendPayload
    <2>3. /\ out'[x] = out[x] \/ Alive(x)
          /\ Payloads(x)' \subseteq Payloads(x) \cup {th[e].pkt}
      BY <1>3, <1>4, <2>2
    <2> QED
      BY <2>1, <2>3
  <1>7. CASE ListPayload(e)
    <2>1. Send(e, th[e].fd, "payload", ListedBy(e))
      BY <1>1, <1>7 DEF ListPayload, SendPayload, ListedBy
    <2>2. Alive(e)
      BY <1>7 DEF ListPayload, At, Alive
    <2>3. Alive(x) /\ th[x].fd = th[e].fd => x = e
      BY <2>2, OwnDescriptor
    <2>4. \/ out'[x] = out[x] /\ Payloads(x)' = Payloads(x)
          \/ x = e /\ Payloads(x)' \subseteq Payloads(x) \cup {ListedBy(e)}
      BY <1>3, <1>4, <2>1, <2>3
    <2> QED
      BY <1>7, <2>2, <2>4
  <1>8. CASE IntroducePayload(e)
    <2> DEFINE f == clientList.clients[th[e].i].FD
    <2>1. Send(e, f, "payload", th[e].pkt)
      BY <1>1, <1>8 DEF IntroducePayload, Slot, SendPayload
    <2> HIDE DEF f
    <2>2. \/ out'[x] = out[x] /\ Payloads(x)' = Payloads(x)
          \/ /\ Alive(x) /\ th[x].fd = f
             /\ Payloads(x)' \subseteq Payloads(x) \cup {th[e].pkt}
      BY <1>3, <1>4, <2>1
    <2> QED
      BY <1>8, <2>2 DEF f
  <1>9. CASE out' = out
    BY <1>4, <1>9
  <1> QED
    BY <1>5, <1>6, <1>7, <1>8, <1>9
       DEF ServerStep, RegistryHandler, Accept, Close, ReadsNull, NewClient,
           Register, FollowsFreedPointer, LeftClient, LeftDone

----------------------------------------------------------------------------
(* From being told of a user to being told that it left. *)

Informed(x) == \E p \in Payloads(x) : p.type \in Telling

\* c has left, no other user has, and its descriptor is still its own.
OnlyLeaver(c) ==
    /\ SaidGoodbye(c)
    /\ \A d \in Conns \ {c} :
         ~SaidGoodbye(d) /\ (th[d].pc # "new" => th[d].fd # th[c].fd)

\* The loop of manageLeftClient has the slot of x before it.
WillHear(c, x) ==
    /\ th[c].pc \in {"left", "leftPayload"}
    /\ \E k \in th[c].i .. clientList.size : clientList.clients[k].FD = th[x].fd

\* x has not been told of c, nor will its list of users tell it.
NeverTold(x, c) ==
    /\ ~Told(x, c)
    /\ th[x].pc = "listPayload" =>
         \A s \in 1 .. th[x].n : clientList.clients[s].FD # th[c].fd

\* Before anybody leaves, whoever has been told of anyone is on the list.
AllListed ==
    (\A d \in Conns : ~SaidGoodbye(d)) =>
      \A x \in Conns :
        /\ Introduces(x) => th[x].n <= clientList.size
        /\ (peer[x] = "open" /\ Informed(x)) => th[x].fd \in FdsOf(clientList)

AnnounceInv ==
    /\ \A x \in Conns : IF th[x].pc = "new" THEN out[x] = <<>>
                                           ELSE th[x].fd \in Fds
    /\ AllListed
    /\ \A c, x \in Conns :
         (OnlyLeaver(c) /\ c # x /\ peer[x] = "open") =>
           HeardLeft(x, c) \/ WillHear(c, x) \/ NeverTold(x, c)

LEMMA AnnouncedSays == AnnounceInv => LeaverAnnounced
  <1> SUFFICES ASSUME AnnounceInv, NEW c \in Conns, NEW x \in Conns,
                      c # x, peer[x] = "open", Told(x, c), SaidGoodbye(c),
                      th[c].pc \notin {"left", "leftPayload"},
                      \A d \in Conns \ {c} :
                        ~SaidGoodbye(d) /\ th[d].fd # th[c].fd
               PROVE  HeardLeft(x, c)
    BY DEF LeaverAnnounced
  <1>1. OnlyLeaver(c)
    BY DEF OnlyLeaver
  <1> QED
    BY <1>1 DEF AnnounceInv, WillHear, NeverTold

\* A live thread whose user can be written to, when it is.
LEMMA OpenIsAlive ==
    ASSUME HandlerInv, MeetInv, NEW x \in Conns, peer[x] = "open"
    PROVE  Alive(x)
  BY DEF HandlerInv, InStream, MeetInv, Alive

LEMMA WasOpen ==
    ASSUME IndInv, HandlerInv, MeetInv, AnnounceInv, NEW e \in Conns,
           ServerStep(e), NEW x \in Conns, peer'[x] = "open"
    PROVE  \/ /\ peer[x] = "open" /\ Alive(x)
              /\ th'[x].pc # "new" /\ th'[x].fd = th[x].fd
           \/ /\ x = e /\ Accept(e) /\ Payloads(x)' = {} /\ th'[x].pc = "recv"
  <1>1. CASE peer[x] = "open"
    BY <1>1, OpenIsAlive, ServerKeeps DEF DescriptorsKept, Alive
  <1>2. CASE Accept(x)
    <2>1. th[x].pc = "new" /\ out' = out /\ x = e
      <3>1. CASE x # e
        <4>1. th'[x].pc = "recv"
          BY <1>2, KnownTypes DEF Thread, Accept
        <4> QED
          BY <1>2, <3>1, <4>1, ServerFrame DEF Frame, Accept
      <3> QED
        BY <1>2, <3>1 DEF Accept
    <2>2. Payloads(x)' = {}
      BY <2>1 DEF AnnounceInv, Payloads
    <2>3. th'[x].pc = "recv"
      BY <1>2, KnownTypes DEF Thread, Accept
    <2> QED
      BY <1>2, <2>1, <2>2, <2>3
  <1> QED
    BY <1>1, <1>2, ServerGrows

\* The list only grows while nobody leaves.
LEMMA ListGrows ==
    ASSUME IndInv, HandlerInv, NEW e \in Conns, ServerStep(e), ~LeftClient(e)
    PROVE  /\ clientList.size \in Nat /\ clientList'.size \in Nat
           /\ clientList.size <= clientList'.size
           /\ \A s \in 1 .. clientList.size :
                /\ s \in 1 .. clientList'.size
                /\ clientList'.clients[s] = clientList.clients[s]
  <1>1. /\ clientList \in ClientList(Names, AnyFd) /\ clientList.size \in Nat
        /\ clientList.size <= Len(clientList.clients)
    BY KnownTypes
  <1>2. CASE Register(e)
    <2> DEFINE client == [name |-> th[e].pkt.name, FD |-> th[e].fd]
    <2>1. clientList' = addClientInClientList(clientList, client)
      BY <1>2 DEF Register
    <2> HIDE DEF client
    <2>2. /\ clientList'.size = clientList.size + 1
          /\ \A s \in 1 .. clientList.size :
               clientList'.clients[s] = clientList.clients[s]
      BY <1>1, <2>1, AdditionKeeps
    <2> QED
      BY <1>1, <2>2
  <1>3. CASE ~Register(e)
    BY <1>1, <1>3, OwnEntry
  <1> QED
    BY <1>2, <1>3

LEMMA FdsGrow ==
    ASSUME IndInv, HandlerInv, NEW e \in Conns, ServerStep(e), ~LeftClient(e)
    PROVE  FdsOf(clientList) \subseteq FdsOf(clientList')
  <1> SUFFICES ASSUME NEW s \in 1 .. clientList.size
               PROVE  clientList.clients[s].FD \in FdsOf(clientList')
    BY DEF FdsOf, Live
  <1>1. s \in 1 .. clientList'.size /\ clientList'.clients[s] = clientList.clients[s]
    BY ListGrows
  <1> QED
    BY <1>1 DEF FdsOf, Live

\* Who gets its list is on it.
LEMMA ReaderIsListed ==
    ASSUME IsFiniteSet(Conns), IndInv, HandlerInv, RegistryCounts, MeetInv,
           NEW x \in Conns, th[x].pc = "listPayload", peer[x] = "open"
    PROVE  th[x].fd \in FdsOf(clientList)
  <1>1. th[x].got = 1 /\ sent[x][1].whole /\ InStream(x)
    BY DEF HandlerInv, InHandler
  <1>2. sent[x] \in Seq(Packet) /\ th[x].got <= Len(sent[x])
    BY KnownTypes DEF NetTypeOK, NewsInv
  <1>3. sent[x][1].type = "INTRO"
    <2>1. 1 \in DOMAIN sent[x]
      BY <1>1, <1>2, LenProperties
    <2> QED
      BY <1>1, <2>1 DEF InStream
  <1>4. Present(x)
    BY <1>1, <1>3 DEF Present, Registered
  <1> QED
    BY <1>4, PresentSlot DEF FdsOf, Live

LEMMA AllListedKept ==
    ASSUME IsFiniteSet(Conns), IndInv, HandlerInv, ReaderInv, RegistryCounts,
           MeetInv, AnnounceInv, NEW e \in Conns, ServerStep(e)
    PROVE  AllListed'
  <1> SUFFICES ASSUME \A d \in Conns : ~SaidGoodbye(d)', NEW x \in Conns
               PROVE  /\ Introduces(x)' => th'[x].n <= clientList'.size
                      /\ (peer'[x] = "open" /\ Informed(x)') =>
                            th'[x].fd \in FdsOf(clientList')
    BY DEF AllListed
  <1>1. ~LeftClient(e) /\ \A d \in Conns : ~SaidGoodbye(d)
    BY GoodbyesMove
  <1>2. /\ clientList.size \in Nat /\ clientList'.size \in Nat
        /\ clientList.size <= clientList'.size
    BY <1>1, ListGrows
  <1>3. /\ th[x] \in Thread /\ th \in [Conns -> Thread] /\ th[x].n \in Nat
        /\ Introduces(x) => th[x].n <= clientList.size
        /\ (peer[x] = "open" /\ Informed(x)) => th[x].fd \in FdsOf(clientList)
    BY <1>1, KnownTypes DEF AnnounceInv, AllListed, Thread
  <1>4. ASSUME Introduces(x)'
        PROVE  th'[x].n <= clientList'.size
    <2>1. CASE x # e
      <3>1. Introduces(x) /\ th'[x].n = th[x].n
        BY <1>4, <2>1, ServerFrame DEF Frame, Introduces
      <3> QED
        BY <1>2, <1>3, <3>1
    <2>2. CASE x = e /\ NewClient(e)
      <3> DEFINE t == [th[e] EXCEPT !.pc = "introduce", !.got = @ + 1,
                                    !.pkt = Joined(e), !.i = 1,
                                    !.n = clientList.size]
      <3>1. t.n = clientList.size
        BY <1>3, <2>2 DEF Thread
      <3>2. Idle(th[e], 1).pc = "recv"
        BY <1>3, <2>2, IdleType
      <3>3. \/ th' = [th EXCEPT ![e] = t]
            \/ th' = [th EXCEPT ![e] = Idle(th[e], 1)]
        BY <2>2 DEF NewClient, ReceiveAndReturn
      <3> HIDE DEF t
      <3>4. th'[e] = t \/ th'[e] = Idle(th[e], 1)
        BY <1>3, <3>3
      <3> QED
        BY <1>2, <1>4, <2>2, <3>1, <3>2, <3>4 DEF Introduces
    <2>3. CASE x = e /\ (IntroduceHeader(e) \/ IntroducePayload(e))
      <3>1. Introduces(x)
        BY <2>3 DEF Introduces, IntroduceHeader, IntroducePayload, At
      <3>2. CASE IntroduceHeader(e)
        <4>1. th'[x].n = th[x].n
          BY <1>3, <2>3, <3>2 DEF Thread, IntroduceHeader
        <4> QED
          BY <1>2, <1>3, <3>1, <4>1
      <3>3. CASE IntroducePayload(e)
        <4>1. th'[x].n = th[x].n
          BY <1>3, <2>3, <3>3 DEF Thread, IntroducePayload
        <4> QED
          BY <1>2, <1>3, <3>1, <4>1
      <3> QED
        BY <2>3, <3>2, <3>3
    <2> QED
      BY <1>4, <2>1, <2>2, <2>3, WhoWillIntroduce
  <1>5. ASSUME peer'[x] = "open", Informed(x)'
        PROVE  th'[x].fd \in FdsOf(clientList')
    <2>1. peer[x] = "open" /\ th'[x].fd = th[x].fd
      BY <1>5, WasOpen DEF Informed
    <2>2. PICK p \in Payloads(x)' : p.type \in Telling
      BY <1>5 DEF Informed
    <2>3. th[x].fd \in FdsOf(clientList)
      <3>1. CASE p \in Payloads(x)
        BY <1>3, <2>1, <2>2, <3>1 DEF Informed
      <3>2. CASE IntroducePayload(e) /\ clientList.clients[th[e].i].FD = th[x].fd
        <4>1. /\ SlotInv /\ th[e] \in Thread /\ th[e].pc = "introducePayload"
              /\ th[e].n <= clientList.size
          BY <1>1, <3>2, KnownTypes
             DEF IntroducePayload, At, AnnounceInv, AllListed, Introduces
        <4>2. th[e].i \in 1 .. th[e].n /\ th[e].n \in Nat
          BY <4>1 DEF SlotInv, Thread
        <4>3. th[e].i \in 1 .. clientList.size
          BY <1>2, <4>1, <4>2
        <4> QED
          BY <3>2, <4>3 DEF FdsOf, Live
      <3>3. CASE ListPayload(e) /\ x = e
        <4>1. th[x].pc = "listPayload"
          BY <3>3 DEF ListPayload, At
        <4> QED
          BY <2>1, <4>1, ReaderIsListed
      <3> QED
        BY <2>2, <3>1, <3>2, <3>3, WhoInforms
    <2> QED
      BY <1>1, <2>1, <2>3, FdsGrow
  <1> QED
    BY <1>4, <1>5

\* Who is the only one to have left was so, or leaves as the first one.
LEMMA WasOnly ==
    ASSUME IndInv, HandlerInv, NEW e \in Conns, ServerStep(e), NEW c \in Conns,
           OnlyLeaver(c)'
    PROVE  /\ th'[c].fd = th[c].fd /\ th[c].pc # "new"
           /\ \A d \in Conns \ {c} :
                ~SaidGoodbye(d) /\ (th[d].pc # "new" => th[d].fd # th[c].fd)
           /\ \/ OnlyLeaver(c) /\ ~LeftClient(e)
              \/ c = e /\ LeftClient(c) /\ \A d \in Conns : ~SaidGoodbye(d)
  <1>1. SaidGoodbye(c) \/ (c = e /\ LeftClient(c))
    BY GoodbyesMove DEF OnlyLeaver
  <1>2. th[c].pc # "new"
    BY <1>1, GoodbyeIsLast DEF LeftClient, Receives
  <1>3. DescriptorsKept
    BY ServerKeeps
  <1>4. th'[c].fd = th[c].fd
    BY <1>2, <1>3 DEF DescriptorsKept
  <1>5. \A d \in Conns \ {c} :
          /\ ~SaidGoodbye(d) /\ ~(d = e /\ LeftClient(d))
          /\ th[d].pc # "new" => th[d].fd # th[c].fd
    <2> SUFFICES ASSUME NEW d \in Conns \ {c}
                 PROVE  /\ ~SaidGoodbye(d) /\ ~(d = e /\ LeftClient(d))
                        /\ th[d].pc # "new" => th[d].fd # th[c].fd
      OBVIOUS
    <2>1. ~SaidGoodbye(d)' /\ (th'[d].pc # "new" => th'[d].fd # th'[c].fd)
      BY DEF OnlyLeaver
    <2> QED
      BY <1>3, <1>4, <2>1, GoodbyesMove DEF DescriptorsKept
  <1>6. CASE SaidGoodbye(c)
    <2>1. ~LeftClient(c)
      <3>1. th[c].got = Len(sent[c])
        BY <1>6, GoodbyeIsLast
      <3> QED
        <4>1. th[c].got \in Nat
          BY KnownTypes DEF Thread
        <4>2. LeftClient(c) => th[c].got < Len(sent[c])
          BY DEF LeftClient, Receives
        <4>3. ~(th[c].got < th[c].got)
          BY <4>1
        <4> QED
          BY <3>1, <4>2, <4>3
    <2>2. ~LeftClient(e)
      BY <1>5, <2>1
    <2> QED
      BY <1>2, <1>4, <1>5, <1>6, <2>2 DEF OnlyLeaver
  <1>7. CASE ~SaidGoodbye(c)
    BY <1>1, <1>2, <1>4, <1>5, <1>7
  <1> QED
    BY <1>6, <1>7

\* When c leaves, whoever may have been told of it has a slot that the loop
\* will come to, wherever the removal puts it.
LEMMA LeavingAnnounces ==
    ASSUME IsFiniteSet(Conns), IndInv, HandlerInv, RegistryCounts, MeetInv,
           AnnounceInv, NEW c \in Conns, LeftClient(c),
           \A d \in Conns : ~SaidGoodbye(d),
           NEW x \in Conns, x # c, peer[x] = "open",
           th[x].pc # "new" => th[x].fd # th[c].fd
    PROVE  WillHear(c, x)' \/ NeverTold(x, c)'
  <1>1. /\ th[c] \in Thread /\ th \in [Conns -> Thread]
        /\ clientList \in ClientList(Names, AnyFd) /\ clientList.size \in Nat
        /\ clientList.size <= Len(clientList.clients)
    BY KnownTypes
  <1>2. ServerStep(c) /\ th[c].pc # "new"
    BY DEF ServerStep, RegistryHandler, LeftClient, Receives
  <1>3. Alive(x) /\ th[x].fd # th[c].fd
    BY OpenIsAlive DEF Alive
  <1>4. /\ th'[x].fd = th[x].fd /\ th'[c].fd = th[c].fd /\ th'[x].pc = th[x].pc
    BY <1>2, <1>3, ServerFrame, ServerKeeps DEF Frame, DescriptorsKept, Alive
  <1>5. th'[c].pc = "left" /\ th'[c].i = 1
    BY <1>1 DEF Thread, LeftClient
  <1>6. clientList' = removeClientFromClientList(clientList, th[c].fd)
    BY DEF LeftClient
  <1>7. CASE th[x].fd \in FdsOf(clientList)
    <2>1. PICK s \in 1 .. clientList.size : clientList.clients[s].FD = th[x].fd
      BY <1>7 DEF FdsOf, Live
    <2>2. PICK r \in 1 .. clientList'.size :
            clientList'.clients[r].FD = clientList.clients[s].FD
      BY <1>1, <1>3, <1>6, <2>1, RemovalKeeps
    <2> QED
      BY <1>4, <1>5, <2>1, <2>2 DEF WillHear
  <1>8. CASE th[x].fd \notin FdsOf(clientList)
    <2>1. ~Informed(x)
      BY <1>8 DEF AnnounceInv, AllListed
    <2>2. out' = out
      BY DEF LeftClient
    <2>3. ~Told(x, c)'
      BY <2>1, <2>2 DEF Informed, Told, Payloads, Telling
    <2>4. th[x].pc # "listPayload"
      BY <1>8, ReaderIsListed
    <2> QED
      BY <1>4, <2>3, <2>4 DEF NeverTold
  <1> QED
    BY <1>7, <1>8

\* Who has heard has heard.
LEMMA HeardStays ==
    ASSUME StreamsGrow, NEW c \in Conns, NEW x \in Conns, HeardLeft(x, c),
           th'[c].fd = th[c].fd
    PROVE  HeardLeft(x, c)'
  <1>1. PICK k \in DOMAIN out[x] :
          /\ out[x][k].part = "payload"
          /\ out[x][k].pkt.type = "USER_LEFT" /\ out[x][k].pkt.fd = th[c].fd
    BY DEF HeardLeft, Payloads
  <1>2. k \in DOMAIN out'[x] /\ out'[x][k] = out[x][k]
    BY DEF StreamsGrow
  <1>3. out'[x][k].pkt \in Payloads(x)'
    BY <1>1, <1>2 DEF Payloads
  <1> QED
    BY <1>1, <1>2, <1>3 DEF HeardLeft

\* The payload of manageLeftClient in the slot of x.
LEMMA GoodbyeArrives ==
    ASSUME IndInv, HandlerInv, NEW c \in Conns, LeftPayload(c),
           NEW x \in Conns, Alive(x), peer[x] = "open",
           clientList.clients[th[c].i].FD = th[x].fd,
           th'[c].fd = th[c].fd
    PROVE  HeardLeft(x, c)'
  <1> DEFINE p == th[c].pkt
             chunk == [part |-> "payload", by |-> c, pkt |-> p]
  <1>1. p.type = "USER_LEFT" /\ p.fd = th[c].fd
    BY DEF HandlerInv, InHandler, LeftPayload, At, Left, Blank
  <1>2. th[x].fd \in Fds /\ fdTable[th[x].fd] = x
    BY OwnDescriptor
  <1>3. Send(c, th[x].fd, "payload", p)
    BY DEF LeftPayload, SendPayload
  <1>4. out' = [out EXCEPT ![x] = Append(@, chunk)]
    BY <1>2, <1>3 DEF Send
  <1>5. out \in [Conns -> Seq(Chunk)]
    BY KnownTypes DEF NetTypeOK
  <1>6. chunk.part = "payload" /\ chunk.pkt = p
    OBVIOUS
  <1> HIDE DEF p, chunk
  <1>7. /\ out[x] \in Seq(Chunk) /\ Len(out[x]) \in Nat
        /\ out'[x] = Append(out[x], chunk)
    BY <1>4, <1>5
  <1>8. Len(out[x]) + 1 \in DOMAIN out'[x] /\ out'[x][Len(out[x]) + 1] = chunk
    BY <1>7
  <1>9. p \in Payloads(x)'
    BY <1>6, <1>8 DEF Payloads
  <1> QED
    BY <1>1, <1>9 DEF HeardLeft

\* The loop of manageLeftClient passes no slot by, and the list only grows
\* under it while nobody else leaves.
LEMMA HearsOrWill ==
    ASSUME IndInv, HandlerInv, NEW e \in Conns, ServerStep(e), ~LeftClient(e),
           NEW c \in Conns, NEW x \in Conns, c # x, WillHear(c, x),
           Alive(x), peer[x] = "open",
           th'[x].fd = th[x].fd, th'[c].fd = th[c].fd
    PROVE  HeardLeft(x, c)' \/ WillHear(c, x)'
  <1>1. /\ th[c] \in Thread /\ th \in [Conns -> Thread] /\ th[c].i \in Nat
        /\ clientList.size \in Nat /\ th[c].i >= 1
        /\ th[c].pc \in {"left", "leftPayload"}
    <2>1. th[c].pc = "leftPayload" => th[c].i \in 1 .. Len(clientList.clients)
      BY KnownTypes, LenProperties DEF SlotInv
    <2> QED
      BY <2>1, KnownTypes DEF Thread, SlotInv, WillHear
  <1>2. PICK k \in th[c].i .. clientList.size :
          clientList.clients[k].FD = th[x].fd
    BY DEF WillHear
  <1>3. k \in 1 .. clientList.size /\ k >= th[c].i /\ k \in Nat
    BY <1>1, <1>2
  <1>4. /\ k \in 1 .. clientList'.size /\ clientList'.clients[k] = clientList.clients[k]
        /\ clientList'.size \in Nat
    BY <1>3, ListGrows
  <1>5. ASSUME th'[c].pc \in {"left", "leftPayload"}, th'[c].i \in Nat,
               th'[c].i <= k
        PROVE  WillHear(c, x)'
    <2>1. k \in th'[c].i .. clientList'.size
      BY <1>3, <1>4, <1>5
    <2> QED
      BY <1>2, <1>4, <1>5, <2>1 DEF WillHear
  <1>6. CASE e # c
    <2>1. th'[c].pc = th[c].pc /\ th'[c].i = th[c].i
      BY <1>6, ServerFrame DEF Frame
    <2> QED
      BY <1>1, <1>3, <1>5, <2>1
  <1>7. CASE e = c /\ LeftHeader(c)
    <2>1. th'[c].pc = "leftPayload" /\ th'[c].i = th[c].i
      BY <1>1, <1>7 DEF Thread, LeftHeader
    <2> QED
      BY <1>1, <1>3, <1>5, <2>1
  <1>8. CASE e = c /\ LeftPayload(c)
    <2>1. th'[c].pc = "left" /\ th'[c].i = th[c].i + 1
      BY <1>1, <1>8 DEF Thread, LeftPayload
    <2>2. CASE k = th[c].i
      BY <1>2, <1>8, <2>2, GoodbyeArrives
    <2>3. CASE k # th[c].i
      <3>1. th[c].i + 1 \in Nat /\ th[c].i + 1 <= k
        BY <1>1, <1>3, <2>3
      <3> QED
        BY <1>5, <2>1, <3>1
    <2> QED
      BY <2>2, <2>3
  <1>9. CASE e = c /\ ~LeftHeader(c) /\ ~LeftPayload(c)
    <2>1. ~LeftDone(c)
      <3>1. ~(th[c].i > clientList.size)
        BY <1>1, <1>3
      <3> QED
        BY <3>1 DEF LeftDone
    <2> QED
      BY <1>1, <1>9, <2>1 DEF ServerStep, RegistryHandler, Accept, Close,
         ReadsNull, NewClient, IntroduceHeader, IntroducePayload, Register,
         ListHeader, ListPayload, FollowsFreedPointer, LeftClient, PeerChat,
         PeerChatPayload, Receives, At
  <1> QED
    BY <1>6, <1>7, <1>8, <1>9

\* What an addition writes into the array is its own descriptor.
LEMMA AdditionWrites ==
    ASSUME IndInv, NEW e \in Conns, Register(e),
           NEW s \in 1 .. Len(clientList.clients)
    PROVE  clientList'.clients[s].FD \in {clientList.clients[s].FD, th[e].fd}
  <1> DEFINE client == [name |-> th[e].pkt.name, FD |-> th[e].fd]
             n == clientList.size + 1
  <1>1. /\ clientList.clients \in Seq(Entries) /\ clientList.size \in Nat
        /\ DOMAIN clientList.clients = 1 .. Len(clientList.clients)
    BY KnownTypes, LenProperties
  <1>2. clientList' = addClientInClientList(clientList, client)
    BY DEF Register
  <1>3. client.FD = th[e].fd
    OBVIOUS
  <1> HIDE DEF client
  <1>4. CASE clientList.size = Len(clientList.clients)
    <2>1. clientList'.clients = Append(clientList.clients, client)
      BY <1>2, <1>4 DEF addClientInClientList
    <2> QED
      BY <1>1, <2>1
  <1>5. CASE clientList.size # Len(clientList.clients)
    <2>1. clientList'.clients = [clientList.clients EXCEPT ![n] = client]
      BY <1>2, <1>5 DEF addClientInClientList
    <2> HIDE DEF n
    <2>2. clientList'.clients[s] = IF s = n THEN client ELSE clientList.clients[s]
      BY <1>1, <2>1
    <2> QED
      BY <1>3, <2>2
  <1> QED
    BY <1>4, <1>5

\* Once c has left, the list has no slot of its descriptor.
LEMMA LeaverUnlisted ==
    ASSUME IsFiniteSet(Conns), IndInv, HandlerInv, RegistryCounts,
           NEW c \in Conns, OnlyLeaver(c), th[c].fd \in Fds
    PROVE  \A s \in 1 .. clientList.size :
             clientList.clients[s].FD # th[c].fd
  <1>1. RegisteredOn(th[c].fd) = {}
    <2> SUFFICES ASSUME NEW d \in Conns, Registered(d), th[d].fd = th[c].fd
                 PROVE  FALSE
      BY DEF RegisteredOn
    <2>1. d # c
      BY DEF OnlyLeaver, SaidGoodbye, Registered
    <2>2. th[d].pc # "new"
      <3>1. th[d].pc = "new" => th[d].got = 0
        BY DEF HandlerInv, InHandler
      <3> QED
        BY <3>1 DEF Registered
    <2> QED
      BY <2>1, <2>2 DEF OnlyLeaver
  <1>2. Cardinality(SlotsOf(clientList, th[c].fd)) = 0
    <2>1. Cardinality(SlotsOf(clientList, th[c].fd))
            = Cardinality(RegisteredOn(th[c].fd))
      BY DEF RegistryCounts, RegisteredOn
    <2> QED
      BY <1>1, <2>1, FS_EmptySet
  <1>3. IsFiniteSet(SlotsOf(clientList, th[c].fd))
    BY SlotsFinite, KnownTypes
  <1>4. SlotsOf(clientList, th[c].fd) = {}
    BY <1>2, <1>3, FS_EmptySet
  <1> QED
    BY <1>4 DEF SlotsOf, Live

\* After c has left nobody is told that it is there.
LEMMA StaysUntold ==
    ASSUME IndInv, HandlerInv, ReaderInv, NameInv, NEW e \in Conns,
           ServerStep(e), NEW c \in Conns, NEW x \in Conns,
           OnlyLeaver(c), NeverTold(x, c), th'[c].fd = th[c].fd
    PROVE  ~Told(x, c)'
  <1> SUFFICES ASSUME NEW p \in Payloads(x)',
                      \/ p.type = "USER_JOINED_SERVER" /\ p.name = c
                      \/ p.type = "CLIENT_LIST" /\ \E j \in DOMAIN p.list :
                                             p.list[j].FD = th[c].fd
               PROVE  FALSE
    BY DEF Told
  <1>1. p \notin Payloads(x)
    BY DEF NeverTold, Told
  <1>2. InHandler(e) /\ th[e] \in Thread /\ SlotInv
    BY KnownTypes DEF HandlerInv
  <1>3. CASE IntroducePayload(e) /\ p = th[e].pkt
    <2>1. p.name = e /\ p.type = "USER_JOINED_SERVER"
      BY <1>2, <1>3 DEF NameInv, Introduces, InHandler, IntroducePayload, At
    <2>2. e = c
      BY <2>1
    <2> QED
      BY <1>3, <2>2, GoodbyeIsLast DEF OnlyLeaver, IntroducePayload, At
  <1>4. CASE ListPayload(e) /\ x = e /\ p = ListedBy(e)
    <2> DEFINE entries == SubSeq(clientList.clients, 1, th[e].n)
    <2>1. th[e].pc = "listPayload" /\ th[e].pkt.type = "CLIENT_LIST"
      BY <1>2, <1>4 DEF ListPayload, At, InHandler
    <2>2. p.type = "CLIENT_LIST" /\ p.list = entries
      BY <1>2, <1>4, <2>1 DEF ListedBy, Thread, Packet
    <2> HIDE DEF entries
    <2>3. PICK j \in DOMAIN entries : entries[j].FD = th[c].fd
      BY <2>2
    <2>4. j \in 1 .. th[e].n /\ entries[j] = clientList.clients[j]
      <3>1. /\ th[e].n \in Nat /\ clientList.clients \in Seq(Entries)
            /\ th[e].n <= Len(clientList.clients)
        BY <1>2, <2>1, KnownTypes DEF Thread, SlotInv, HoldsCopy
      <3> HIDE DEF Entries
      <3> QED
        BY <2>3, <3>1 DEF entries
    <2> QED
      BY <1>4, <2>1, <2>3, <2>4 DEF NeverTold
  <1> QED
    BY <1>1, <1>3, <1>4, WhoInforms DEF Telling

LEMMA StaysUnlisted ==
    ASSUME IsFiniteSet(Conns), IndInv, HandlerInv, ReaderInv, RegistryCounts,
           NEW e \in Conns, ServerStep(e), ~LeftClient(e),
           NEW c \in Conns, NEW x \in Conns, OnlyLeaver(c), th[c].fd \in Fds,
           NeverTold(x, c), th'[x].pc = "listPayload",
           NEW s \in 1 .. th'[x].n
    PROVE  clientList'.clients[s].FD # th[c].fd
  <1>1. /\ th[x] \in Thread /\ th \in [Conns -> Thread] /\ th[x].n \in Nat
        /\ SlotInv /\ Len(clientList.clients) \in Nat
    BY KnownTypes DEF Thread
  <1>2. CASE e # x
    <2>1. th[x].pc = "listPayload" /\ th'[x].n = th[x].n
      BY <1>2, ServerFrame DEF Frame
    <2>2. s \in 1 .. Len(clientList.clients)
      <3>1. th[x].n <= Len(clientList.clients)
        BY <1>1, <2>1 DEF SlotInv, HoldsCopy
      <3> QED
        BY <1>1, <2>1, <3>1
    <2>3. clientList.clients[s].FD # th[c].fd
      BY <2>1 DEF NeverTold
    <2>4. CASE Register(e)
      <3>1. th[e].pc = "introduce"
        BY <2>4 DEF Register, At
      <3>2. e # c
        BY <3>1, GoodbyeIsLast DEF OnlyLeaver
      <3>3. th[e].fd # th[c].fd
        BY <3>1, <3>2 DEF OnlyLeaver
      <3> QED
        BY <2>2, <2>3, <2>4, <3>3, AdditionWrites
    <2>5. CASE ~Register(e)
      BY <2>3, <2>5, OwnEntry
    <2> QED
      BY <2>4, <2>5
  <1>3. CASE e = x
    <2>1. ~Register(x)
      BY <1>3, RegisterFrame
    <2>2. clientList' = clientList
      BY <1>3, <2>1, OwnEntry
    <2>3. PICK t : th' = [th EXCEPT ![x] = t] /\ Keeps(x, t)
      BY <1>3, <2>1, OwnLocals
    <2>4. th'[x] = t
      BY <1>1, <2>3
    <2>5. CASE t = th[x]
      BY <2>2, <2>4, <2>5 DEF NeverTold
    <2>6. CASE ListHeader(x)
      <3>1. th'[x].n = clientList.size
        BY <1>1, <2>6 DEF Thread, ListHeader
      <3> QED
        BY <2>2, <3>1, LeaverUnlisted
    <2> QED
      BY <2>3, <2>4, <2>5, <2>6 DEF Keeps
  <1> QED
    BY <1>2, <1>3

LEMMA ServerAnnounces ==
    ASSUME IsFiniteSet(Conns), IndInv, HandlerInv, ReaderInv, RegistryCounts,
           MeetInv, NameInv, AnnounceInv, NEW e \in Conns, ServerStep(e)
    PROVE  AnnounceInv'
  <1>1. ASSUME NEW x \in Conns
        PROVE  IF th'[x].pc = "new" THEN out'[x] = <<>> ELSE th'[x].fd \in Fds
    <2>1. CASE th'[x].pc = "new"
      <3>1. th[x].pc = "new"
        BY <2>1, ServerKeeps DEF DescriptorsKept
      <3>2. ~Alive(x) /\ out[x] = <<>>
        BY <3>1 DEF Alive, AnnounceInv
      <3> QED
        BY <2>1, <3>2, WhoInforms
    <2>2. CASE th'[x].pc # "new" /\ th[x].pc # "new"
      BY <2>2, ServerKeeps DEF DescriptorsKept, AnnounceInv
    <2>3. CASE th'[x].pc # "new" /\ th[x].pc = "new"
      <3>1. x = e /\ Accept(e)
        <4>1. x = e
          BY <2>3, ServerFrame DEF Frame
        <4> QED
          BY <2>3, <4>1 DEF ServerStep, RegistryHandler, Close, ReadsNull,
             NewClient, IntroduceHeader, IntroducePayload, Register,
             ListHeader, ListPayload, FollowsFreedPointer, LeftClient,
             LeftHeader, LeftPayload, LeftDone, PeerChat, PeerChatPayload,
             Receives, At
      <3>2. PICK f \in Fds :
              th' = [th EXCEPT ![e] = [th[e] EXCEPT !.pc = "recv", !.fd = f]]
        BY <3>1 DEF Accept
      <3>3. th'[e].fd = f
        BY <3>2, KnownTypes DEF Thread
      <3> QED
        BY <2>3, <3>1, <3>2, <3>3
    <2> QED
      BY <2>1, <2>2, <2>3
  <1>2. ASSUME NEW c \in Conns, NEW x \in Conns, OnlyLeaver(c)', c # x,
               peer'[x] = "open"
        PROVE  HeardLeft(x, c)' \/ WillHear(c, x)' \/ NeverTold(x, c)'
    <2>1. /\ th'[c].fd = th[c].fd /\ th[c].pc # "new" /\ th[c].fd \in Fds
          /\ \A d \in Conns \ {c} : th[d].pc # "new" => th[d].fd # th[c].fd
      BY <1>2, WasOnly DEF AnnounceInv
    <2>2. CASE x = e /\ Accept(e) /\ Payloads(x)' = {} /\ th'[x].pc = "recv"
      BY <2>2 DEF NeverTold, Told
    <2>3. CASE /\ peer[x] = "open" /\ Alive(x) /\ th'[x].fd = th[x].fd
               /\ c = e /\ LeftClient(c) /\ \A d \in Conns : ~SaidGoodbye(d)
      BY <1>2, <2>1, <2>3, LeavingAnnounces
    <2>4. CASE /\ peer[x] = "open" /\ Alive(x) /\ th'[x].fd = th[x].fd
               /\ OnlyLeaver(c) /\ ~LeftClient(e)
      <3>1. CASE HeardLeft(x, c)
        BY <2>1, <3>1, ServerGrows, HeardStays
      <3>2. CASE WillHear(c, x)
        BY <1>2, <2>1, <2>4, <3>2, HearsOrWill
      <3>3. CASE NeverTold(x, c)
        <4>1. ~Told(x, c)'
          BY <2>1, <2>4, <3>3, StaysUntold
        <4>2. th'[x].pc = "listPayload" => \A s \in 1 .. th'[x].n :
                clientList'.clients[s].FD # th[c].fd
          BY <2>1, <2>4, <3>3, StaysUnlisted
        <4> QED
          BY <2>1, <4>1, <4>2 DEF NeverTold
      <3> QED
        BY <1>2, <2>4, <3>1, <3>2, <3>3 DEF AnnounceInv
    <2> QED
      BY <1>2, <2>2, <2>3, <2>4, WasOnly, WasOpen
  <1>3. AllListed'
    BY AllListedKept
  <1> QED
    BY <1>1, <1>2, <1>3 DEF AnnounceInv

LEMMA UserAnnounces ==
    ASSUME IndInv, AnnounceInv, NEW e \in Conns, UserStep(e)
    PROVE  AnnounceInv'
  <1>1. out' = out /\ th' = th /\ clientList' = clientList
    BY UserStays DEF UserStep, SendIntro, Quit, Crash, SendChat
  <1>2. \A d \in Conns : SaidGoodbye(d)' <=> SaidGoodbye(d)
    BY UserStays, StaysPhase, KnownTypes DEF Thread
  <1>3. \A x \in Conns : peer'[x] = "open" => peer[x] = "open"
    <2>1. peer \in [Conns -> PeerStates]
      BY KnownTypes DEF NetTypeOK
    <2> QED
      BY <2>1 DEF UserStep, SendIntro, Quit, Crash, SendChat, Write
  <1>4. AllListed'
    BY <1>1, <1>2, <1>3
       DEF AnnounceInv, AllListed, Introduces, Informed, Payloads
  <1>5. \A c \in Conns : OnlyLeaver(c)' <=> OnlyLeaver(c)
    BY <1>1, <1>2 DEF OnlyLeaver
  <1>6. \A c, x \in Conns : /\ HeardLeft(x, c)' <=> HeardLeft(x, c)
                            /\ WillHear(c, x)' <=> WillHear(c, x)
                            /\ NeverTold(x, c)' <=> NeverTold(x, c)
    BY <1>1 DEF HeardLeft, WillHear, NeverTold, Told, Payloads
  <1> QED
    BY <1>1, <1>3, <1>4, <1>5, <1>6 DEF AnnounceInv

LEMMA NextAnnounces ==
    ASSUME IsFiniteSet(Conns)
    PROVE  /\ IndInv /\ HandlerInv /\ ReaderInv /\ RegistryCounts /\ MeetInv
           /\ NameInv /\ AnnounceInv /\ [Next]_registryVars
           => AnnounceInv'
  <1> SUFFICES ASSUME IndInv, HandlerInv, ReaderInv, RegistryCounts, MeetInv,
                      NameInv, AnnounceInv, [Next]_registryVars
               PROVE  AnnounceInv'
    OBVIOUS
  <1>1. CASE UNCHANGED registryVars
    <2>1. UNCHANGED <<th, sent, out, peer, clientList>>
      BY <1>1 DEF registryVars, netVars
    <2>2. \A d \in Conns : SaidGoodbye(d)' <=> SaidGoodbye(d)
      BY <2>1 DEF SaidGoodbye
    <2>3. AllListed'
      BY <2>1, <2>2
         DEF AnnounceInv, AllListed, Introduces, Informed, Payloads
    <2>4. \A c, x \in Conns : /\ OnlyLeaver(c)' <=> OnlyLeaver(c)
                              /\ HeardLeft(x, c)' <=> HeardLeft(x, c)
                              /\ WillHear(c, x)' <=> WillHear(c, x)
                              /\ NeverTold(x, c)' <=> NeverTold(x, c)
      BY <2>1, <2>2
         DEF OnlyLeaver, HeardLeft, WillHear, NeverTold, Told, Payloads
    <2> QED
      BY <2>1, <2>3, <2>4 DEF AnnounceInv
  <1>2. CASE Stops
    BY <1>1, <1>2 DEF Stops
  <1> QED
    BY <1>1, <1>2, ServerAnnounces, UserAnnounces DEF Next

\* Whoever has been told of a user that leaves is told so, whichever entries
\* are added, and wherever the removal puts the last one, while the news goes
\* round: until the next user leaves, for any number of users, with crashes,
\* if no array moves.
THEOREM DeparturesAnnounced ==
    ASSUME ~ReallocMoves, IsFiniteSet(Conns)
    PROVE  Spec => []LeaverAnnounced
  <1>1. Init => ReaderInv /\ MeetInv
    BY DEF Init, NetInit, NewThread, ReaderInv, OnList, SawItself, MeetInv,
       Present
  <1>2. Init => NameInv /\ AnnounceInv
    BY DEF Init, NetInit, NewThread, NameInv, Introduces, AnnounceInv,
       AllListed, OnlyLeaver, SaidGoodbye
  <1> QED
    BY <1>1, <1>2, InitInv, NextInv, InitHandler, NextHandler, NextReader,
       InitCounts, NextCounts, NextMeets, NextNames, NextAnnounces,
       AnnouncedSays, PTL DEF Spec
=============================================================================
