---------------------------- MODULE CountProofs ----------------------------
(***************************************************************************)
(* The list of users counts the users (RegistryCounts): proofs for any     *)
(* finite number of connections and any number of descriptors, with        *)
(* crashes and moving arrays.                                              *)
(***************************************************************************)
EXTENDS DirectoryProofs, FiniteSetTheorems

\* The clients registered on a descriptor.
RegisteredOn(f) == {c \in Conns : Registered(c) /\ th[c].fd = f}

----------------------------------------------------------------------------
(* The two helpers that change the list. *)

LEMMA SlotsFinite ==
    ASSUME NEW list, list.size \in Nat, NEW f
    PROVE  /\ SlotsOf(list, f) \subseteq 1 .. list.size
           /\ IsFiniteSet(SlotsOf(list, f))
  <1>1. SlotsOf(list, f) \subseteq 1 .. list.size
    BY DEF SlotsOf, Live
  <1>2. IsFiniteSet(1 .. list.size)
    BY FS_Interval
  <1> QED
    BY <1>1, <1>2, FS_Subset

\* One slot more, for the descriptor of the new entry.
LEMMA AdditionCounts ==
    ASSUME NEW list \in ClientList(Names, AnyFd), NEW client,
           list.size <= Len(list.clients), NEW new,
           new = addClientInClientList(list, client), NEW f
    PROVE  Cardinality(SlotsOf(new, f)) =
             IF f = client.FD THEN Cardinality(SlotsOf(list, f)) + 1
                              ELSE Cardinality(SlotsOf(list, f))
  <1>1. list.size \in Nat
    BY DEF ClientList
  <1>2. /\ new.size = list.size + 1
        /\ \A s \in 1 .. list.size : new.clients[s] = list.clients[s]
        /\ new.clients[new.size] = client
    BY AdditionKeeps
  <1>3. CASE f = client.FD
    <2>1. SlotsOf(new, f) = SlotsOf(list, f) \cup {new.size}
      BY <1>1, <1>2, <1>3 DEF SlotsOf, Live
    <2>2. new.size \notin SlotsOf(list, f)
      BY <1>1, <1>2 DEF SlotsOf, Live
    <2>3. IsFiniteSet(SlotsOf(list, f))
      BY <1>1, SlotsFinite
    <2>4. Cardinality(SlotsOf(new, f)) = Cardinality(SlotsOf(list, f)) + 1
      BY <2>1, <2>2, <2>3, FS_AddElement
    <2> QED
      BY <1>3, <2>4
  <1>4. CASE f # client.FD
    <2>1. SlotsOf(new, f) = SlotsOf(list, f)
      BY <1>1, <1>2, <1>4 DEF SlotsOf, Live
    <2> QED
      BY <1>4, <2>1
  <1> QED
    BY <1>3, <1>4

\* One slot less, of the descriptor that is removed and of no other, although
\* the last entry has moved.
LEMMA RemovalCounts ==
    ASSUME NEW list \in ClientList(Names, AnyFd),
           list.size <= Len(list.clients), NEW fd, SlotsOf(list, fd) # {},
           NEW new, new = removeClientFromClientList(list, fd), NEW f
    PROVE  Cardinality(SlotsOf(new, f)) =
             IF f = fd THEN Cardinality(SlotsOf(list, f)) - 1
                       ELSE Cardinality(SlotsOf(list, f))
  <1>1. /\ list.clients \in Seq(Entries) /\ list.size \in Nat
        /\ Len(list.clients) \in Nat
        /\ DOMAIN list.clients = 1 .. Len(list.clients)
    BY LenProperties DEF ClientList, Entries
  <1> DEFINE first == FirstSlot(list, fd)
             last == [list.clients[list.size] EXCEPT !.name = Freed]
             n == list.size
  <1>2. first \in SlotsOf(list, fd)
    BY <1>1, FirstSlotExists
  <1>3. first \in 1 .. n /\ list.clients[first].FD = fd
    BY <1>2 DEF SlotsOf, Live
  <1>4. /\ new.clients = [list.clients EXCEPT ![first] = last, ![n] = last]
        /\ new.size = n - 1
    BY DEF removeClientFromClientList
  <1>5. last.FD = list.clients[n].FD
    <2>1. n \in 1 .. Len(list.clients)
      BY <1>1, <1>3
    <2>2. list.clients[n] \in Entries
      BY <1>1, <2>1, ElementOfSeq
    <2> QED
      BY <2>2 DEF Entries, Client
  <1> HIDE DEF first, last
  <1>6. \A s \in 1 .. n - 1 :
          new.clients[s].FD = IF s = first THEN list.clients[n].FD
                                           ELSE list.clients[s].FD
    BY <1>1, <1>3, <1>4, <1>5
  <1> DEFINE old == SlotsOf(list, f)
  <1>7. /\ old = {s \in 1 .. n : list.clients[s].FD = f}
        /\ SlotsOf(new, f) = {s \in 1 .. n - 1 : new.clients[s].FD = f}
        /\ IsFiniteSet(old)
    <2>1. old = {s \in 1 .. n : list.clients[s].FD = f}
      BY DEF SlotsOf, Live
    <2>2. SlotsOf(new, f) = {s \in 1 .. n - 1 : new.clients[s].FD = f}
      BY <1>4 DEF SlotsOf, Live
    <2>3. IsFiniteSet(old)
      BY <1>1, SlotsFinite
    <2> QED
      BY <2>1, <2>2, <2>3
  <1>16. IsFiniteSet(old)
    BY <1>7
  <1> HIDE DEF old
  <1>8. Cardinality(old) \in Nat
    BY <1>16, FS_CardinalityType
  <1>13. ASSUME NEW s
         PROVE  /\ s \in old <=> s \in 1 .. n /\ list.clients[s].FD = f
                /\ s \in SlotsOf(new, f) <=>
                     /\ s \in 1 .. n - 1
                     /\ (IF s = first THEN list.clients[n].FD
                                      ELSE list.clients[s].FD) = f
    BY <1>6, <1>7
  <1>14. n \in Nat /\ n \in 1 .. n /\ n \notin 1 .. n - 1
    BY <1>1, <1>3
  <1>15. ASSUME NEW s
         PROVE  s \in 1 .. n <=> s \in 1 .. n - 1 \/ s = n
    BY <1>14
  <1> HIDE DEF n
  \* The slot that is given up holds the removed descriptor, or that of the
  \* entry which takes the place of the removed one.
  <1>9. CASE f = fd /\ list.clients[n].FD = fd
    <2>1. ASSUME NEW s
          PROVE  s \in SlotsOf(new, f) <=> s \in old \ {n}
      BY <1>3, <1>9, <1>13, <1>14, <1>15
    <2>2. SlotsOf(new, f) = old \ {n} /\ n \in old
      BY <1>9, <1>13, <1>14, <2>1
    <2>3. Cardinality(SlotsOf(new, f)) = Cardinality(old) - 1
      BY <1>16, <2>2, FS_RemoveElement
    <2> QED
      BY <1>9, <2>3 DEF old
  <1>10. CASE f = fd /\ list.clients[n].FD # fd
    <2>1. ASSUME NEW s
          PROVE  s \in SlotsOf(new, f) <=> s \in old \ {first}
      BY <1>3, <1>10, <1>13, <1>14, <1>15
    <2>2. SlotsOf(new, f) = old \ {first} /\ first \in old
      BY <1>3, <1>10, <1>13, <2>1
    <2>3. Cardinality(SlotsOf(new, f)) = Cardinality(old) - 1
      BY <1>16, <2>2, FS_RemoveElement
    <2> QED
      BY <1>10, <2>3 DEF old
  <1>11. CASE f # fd /\ list.clients[n].FD = f
    <2>1. ASSUME NEW s
          PROVE  s \in SlotsOf(new, f) <=> s \in (old \ {n}) \cup {first}
      BY <1>3, <1>11, <1>13, <1>14, <1>15
    <2>2. /\ SlotsOf(new, f) = (old \ {n}) \cup {first}
          /\ n \in old /\ first \notin old \ {n}
      BY <1>3, <1>11, <1>13, <1>14, <2>1
    <2> DEFINE kept == old \ {n}
    <2>3. /\ IsFiniteSet(kept)
          /\ Cardinality(kept) = Cardinality(old) - 1
      BY <1>16, <2>2, FS_RemoveElement
    <2>6. SlotsOf(new, f) = kept \cup {first} /\ first \notin kept
      BY <2>2
    <2> HIDE DEF kept
    <2>7. Cardinality(kept \cup {first}) = Cardinality(kept) + 1
      BY <2>3, <2>6, FS_AddElement
    <2>4. Cardinality(SlotsOf(new, f)) = Cardinality(old) - 1 + 1
      BY <2>3, <2>6, <2>7
    <2>5. Cardinality(SlotsOf(new, f)) = Cardinality(old)
      BY <1>8, <2>4
    <2> QED
      BY <1>11, <2>5 DEF old
  <1>12. CASE f # fd /\ list.clients[n].FD # f
    <2>1. ASSUME NEW s
          PROVE  s \in SlotsOf(new, f) <=> s \in old
      BY <1>3, <1>12, <1>13, <1>14, <1>15
    <2>2. SlotsOf(new, f) = old
      BY <2>1
    <2> QED
      BY <1>12, <2>2 DEF old
  <1> QED
    BY <1>9, <1>10, <1>11, <1>12

----------------------------------------------------------------------------
(* Who is registered, step by step. *)

\* The step neither registers nor removes d, nor moves its descriptor.
SameEntry(d) ==
    /\ Registered(d)' <=> Registered(d)
    /\ Registered(d) => th'[d].fd = th[d].fd

LEMMA StaysEntry ==
    ASSUME NEW d \in Conns, th[d].got \in Nat, Stays(d)
    PROVE  SameEntry(d)
  <1>1. th[d].got >= 1 => /\ sent'[d][1] = sent[d][1]
                          /\ sent'[d][th[d].got] = sent[d][th[d].got]
    BY DEF Stays
  <1> QED
    BY <1>1 DEF Stays, SameEntry, Registered

LEMMA EntriesKeepCount ==
    ASSUME RegistryCounts, clientList' = clientList,
           \A d \in Conns : SameEntry(d)
    PROVE  RegistryCounts'
  <1>1. \A f \in Fds : RegisteredOn(f)' = RegisteredOn(f)
    BY DEF RegisteredOn, SameEntry
  <1> QED
    BY <1>1 DEF RegistryCounts, RegisteredOn

\* The handlers that leave the list alone leave c on it or off it.
LEMMA OwnEntry ==
    ASSUME IndInv, HandlerInv, NEW c \in Conns, ServerStep(c),
           ~Register(c), ~LeftClient(c)
    PROVE  SameEntry(c) /\ clientList' = clientList
  <1>1. /\ th[c] \in Thread /\ th[c].got \in Nat /\ InHandler(c) /\ InStream(c)
        /\ sent' = sent /\ sent[c] \in Seq(Packet)
    BY KnownTypes, ServerFrame DEF HandlerInv, NetTypeOK, Thread
  <1>2. clientList' = clientList
    BY DEF ServerStep, RegistryHandler, NewClient,
       IntroduceHeader, IntroducePayload, ListHeader, ListPayload,
       FollowsFreedPointer, LeftHeader, LeftPayload, LeftDone, PeerChat,
       PeerChatPayload
  <1> SUFFICES SameEntry(c)
    BY <1>2
  <1>3. ASSUME th'[c].got = th[c].got, th'[c].fd = th[c].fd,
               th'[c].pc \in {"introduce", "introducePayload"}
                 <=> th[c].pc \in {"introduce", "introducePayload"}
        PROVE  SameEntry(c)
    BY <1>1, <1>3 DEF SameEntry, Registered
  <1>4. CASE ListPayload(c) \/ LeftDone(c) \/ PeerChatPayload(c)
    BY <1>3, <1>4, ReturnFrame
       DEF ListPayload, LeftDone, PeerChatPayload, At
  <1>5. CASE IntroduceHeader(c) \/ IntroducePayload(c)
    <2>1. th[c].pc \in {"introduce", "introducePayload"}
      BY <1>5 DEF IntroduceHeader, IntroducePayload, At
    <2>2. th'[c].pc \in {"introduce", "introducePayload"}
      <3>1. CASE IntroduceHeader(c)
        <4>1. th' = [th EXCEPT ![c] = [th[c] EXCEPT !.pc = "introducePayload"]]
          BY <3>1 DEF IntroduceHeader
        <4> QED
          BY <4>1, GoesOnFrame
      <3>2. CASE IntroducePayload(c)
        <4>1. th' = [th EXCEPT ![c] = [th[c] EXCEPT !.pc = "introduce",
                                                    !.i = th[c].i + 1]]
          BY <3>2 DEF IntroducePayload
        <4> QED
          BY <4>1, GoesOnFrame
      <3> QED
        BY <1>5, <3>1, <3>2
    <2> QED
      BY <2>1, <2>2 DEF SameEntry, Registered
  <1>6. CASE LeftHeader(c) \/ LeftPayload(c)
    <2>1. th[c].pc \in {"left", "leftPayload"}
      BY <1>6 DEF LeftHeader, LeftPayload, At
    <2>2. /\ th'[c].pc \in {"left", "leftPayload"}
          /\ th'[c].got = th[c].got /\ th'[c].fd = th[c].fd
      <3>1. CASE LeftHeader(c)
        <4>1. th' = [th EXCEPT ![c] = [th[c] EXCEPT !.pc = "leftPayload"]]
          BY <3>1 DEF LeftHeader
        <4> QED
          BY <4>1, GoesOnFrame
      <3>2. CASE LeftPayload(c)
        <4>1. th' = [th EXCEPT ![c] = [th[c] EXCEPT !.pc = "left",
                                                    !.i = th[c].i + 1]]
          BY <3>2 DEF LeftPayload
        <4> QED
          BY <4>1, GoesOnFrame
      <3> QED
        BY <1>6, <3>1, <3>2
    <2> QED
      BY <1>3, <2>1, <2>2
  <1>7. CASE ListHeader(c)
    <2>1. PICK p : th' = [th EXCEPT ![c] = [th[c] EXCEPT !.pc = "listPayload",
                                              !.pkt = p, !.n = clientList.size]]
      BY <1>7 DEF ListHeader
    <2> DEFINE t == [th[c] EXCEPT !.pc = "listPayload", !.pkt = p,
                                  !.n = clientList.size]
    <2>2. t.pc = "listPayload" /\ t.got = th[c].got /\ t.fd = th[c].fd
      BY <1>1 DEF Thread
    <2>3. th'[c] = t /\ th[c].pc = "list"
      BY <1>7, <2>1, KnownTypes DEF ListHeader, At
    <2> HIDE DEF t
    <2> QED
      BY <1>3, <2>2, <2>3
  <1>8. CASE NewClient(c)
    <2>1. /\ Receives(c, "INTRO") /\ th[c].got = 0 /\ sent[c][1] = Incoming(c)
      BY <1>8, IncomingPlace DEF NewClient
    <2>2. ~Registered(c)
      BY <2>1 DEF Registered
    <2>3. CASE Incoming(c).whole
      <3> DEFINE t == [th[c] EXCEPT !.pc = "introduce", !.got = @ + 1,
                                    !.pkt = Joined(c), !.i = 1,
                                    !.n = clientList.size]
      <3>1. th' = [th EXCEPT ![c] = t]
        BY <1>8, <2>3 DEF NewClient
      <3>2. t.pc = "introduce"
        BY <1>1 DEF Thread
      <3> HIDE DEF t
      <3>3. th'[c].pc = "introduce"
        BY <3>1, <3>2, KnownTypes
      <3> QED
        BY <2>2, <3>3 DEF SameEntry, Registered
    <2>4. CASE ~Incoming(c).whole
      BY <1>1, <2>1, <2>2, <2>4 DEF SameEntry, Registered
    <2> QED
      BY <2>3, <2>4
  <1>9. CASE PeerChat(c)
    <2>1. /\ th[c].pc = "recv" /\ th[c].got + 1 \in DOMAIN sent[c]
          /\ th[c].got # 0 /\ th[c].got \in DOMAIN sent[c]
          /\ sent[c][th[c].got + 1].type = "CHAT"
      BY <1>9, IncomingPlace DEF PeerChat, Receives
    <2> DEFINE t == [th[c] EXCEPT !.pc = "chatPayload", !.got = @ + 1,
                                  !.pkt = Incoming(c)]
    <2>2. th' = [th EXCEPT ![c] = t]
      BY <1>9 DEF PeerChat
    <2>3. t.pc = "chatPayload" /\ t.got = th[c].got + 1 /\ t.fd = th[c].fd
      BY <1>1 DEF Thread
    <2> HIDE DEF t
    <2>4. th'[c] = t
      BY <2>2, KnownTypes
    <2>5. /\ 1 \in DOMAIN sent[c] /\ 1 # Len(sent[c]) /\ th[c].got >= 1
          /\ th[c].got # Len(sent[c])
      BY <1>1, <2>1, LenProperties
    <2>6. sent[c][1].whole /\ sent[c][th[c].got].type # "USER_LEFT"
      BY <1>1, <2>1, <2>5 DEF InStream
    <2>7. Registered(c)
      BY <2>1, <2>5, <2>6 DEF Registered
    <2>8. Registered(c)'
      BY <1>1, <2>1, <2>3, <2>4, <2>5, <2>6 DEF Registered
    <2> QED
      BY <2>3, <2>4, <2>7, <2>8 DEF SameEntry
  <1>10. CASE Accept(c)
    <2>1. PICK f \in Fds :
            th' = [th EXCEPT ![c] = [th[c] EXCEPT !.pc = "recv", !.fd = f]]
      BY <1>10 DEF Accept
    <2> DEFINE t == [th[c] EXCEPT !.pc = "recv", !.fd = f]
    <2>2. th'[c] = t /\ th[c].got = 0
      BY <1>1, <1>10, <2>1, KnownTypes DEF Accept, InHandler
    <2>3. t.got = 0
      BY <1>1, <2>2 DEF Thread
    <2> HIDE DEF t
    <2> QED
      BY <2>2, <2>3 DEF SameEntry, Registered
  <1>11. CASE Close(c)
    <2> DEFINE t == [Idle(th[c], 0) EXCEPT !.pc = "closed"]
    <2>1. th[c].pc = "recv" /\ th' = [th EXCEPT ![c] = t]
      BY <1>11 DEF Close, At
    <2>2. t.pc = "closed" /\ t.got = th[c].got + 0 /\ t.fd = th[c].fd
      BY <1>1, IdleType DEF Thread
    <2> HIDE DEF t
    <2>3. th'[c] = t
      BY <2>1, KnownTypes
    <2> QED
      BY <1>1, <1>3, <2>1, <2>2, <2>3
  <1>12. CASE ReadsNull(c) \/ FollowsFreedPointer(c)
    BY <1>3, <1>12 DEF ReadsNull, FollowsFreedPointer
  <1> QED
    BY <1>4, <1>5, <1>6, <1>7, <1>8, <1>9, <1>10, <1>11, <1>12
       DEF ServerStep, RegistryHandler

\* Who is registered on a descriptor is finitely many.
LEMMA RegisteredFinite ==
    ASSUME IsFiniteSet(Conns), NEW f
    PROVE  IsFiniteSet(RegisteredOn(f))
  <1>1. RegisteredOn(f) \subseteq Conns
    BY DEF RegisteredOn
  <1> QED
    BY <1>1, FS_Subset

\* Who is added was not registered before.
LEMMA RegisterEntry ==
    ASSUME IndInv, HandlerInv, NEW c \in Conns, Register(c)
    PROVE  ~Registered(c) /\ Registered(c)'
  <1>1. /\ th[c].pc = "introduce" /\ th'[c].pc = "list"
        /\ th'[c].got = th[c].got /\ sent' = sent
    BY RegisterFrame DEF Register
  <1>2. th[c].got = 1 /\ sent[c][1].whole /\ InStream(c)
    BY <1>1 DEF HandlerInv, InHandler
  <1>3. sent[c] \in Seq(Packet) /\ th[c].got <= Len(sent[c])
    BY KnownTypes DEF NetTypeOK, NewsInv
  <1>4. sent[c][1].type = "INTRO"
    <2>1. 1 \in DOMAIN sent[c]
      BY <1>2, <1>3, LenProperties
    <2> QED
      BY <1>2, <2>1 DEF InStream
  <1> QED
    BY <1>1, <1>2, <1>4 DEF Registered

\* The addition: one slot and one client more.
LEMMA RegisterCounts ==
    ASSUME IsFiniteSet(Conns), IndInv, HandlerInv, RegistryCounts,
           NEW c \in Conns, Register(c)
    PROVE  RegistryCounts'
  <1>1. /\ Frame(c) /\ th'[c].fd = th[c].fd /\ sent' = sent
    BY RegisterFrame DEF Register
  <1>2. /\ clientList \in ClientList(Names, AnyFd)
        /\ clientList.size <= Len(clientList.clients)
    BY KnownTypes
  <1>3. ~Registered(c) /\ Registered(c)'
    BY RegisterEntry
  <1>4. \A d \in Conns \ {c} : SameEntry(d)
    BY <1>1, FrameStays, KnownTypes, StaysEntry DEF Thread
  <1> DEFINE client == [name |-> th[c].pkt.name, FD |-> th[c].fd]
  <1>5. clientList' = addClientInClientList(clientList, client)
    BY DEF Register
  <1>6. client.FD = th[c].fd
    OBVIOUS
  <1> HIDE DEF client
  <1>7. ASSUME NEW f \in Fds
        PROVE  Cardinality(SlotsOf(clientList', f)) = Cardinality(RegisteredOn(f)')
    <2>1. Cardinality(SlotsOf(clientList', f)) =
            IF f = th[c].fd THEN Cardinality(SlotsOf(clientList, f)) + 1
                            ELSE Cardinality(SlotsOf(clientList, f))
      BY <1>2, <1>5, <1>6, AdditionCounts
    <2>2. Cardinality(SlotsOf(clientList, f)) = Cardinality(RegisteredOn(f))
      BY DEF RegistryCounts, RegisteredOn
    <2>3. IsFiniteSet(RegisteredOn(f)) /\ c \notin RegisteredOn(f)
      BY <1>3, RegisteredFinite DEF RegisteredOn
    <2>4. CASE f = th[c].fd
      <3>1. RegisteredOn(f)' = RegisteredOn(f) \cup {c}
        BY <1>1, <1>3, <1>4, <2>4 DEF RegisteredOn, SameEntry
      <3> QED
        BY <2>1, <2>2, <2>3, <2>4, <3>1, FS_AddElement
    <2>5. CASE f # th[c].fd
      <3>1. RegisteredOn(f)' = RegisteredOn(f)
        BY <1>1, <1>3, <1>4, <2>5 DEF RegisteredOn, SameEntry
      <3> QED
        BY <2>1, <2>2, <2>5, <3>1
    <2> QED
      BY <2>4, <2>5
  <1> QED
    BY <1>7 DEF RegistryCounts, RegisteredOn

\* Who leaves was registered until then.
LEMMA LeftEntry ==
    ASSUME IndInv, HandlerInv, NEW c \in Conns, LeftClient(c)
    PROVE  Registered(c) /\ ~Registered(c)'
  <1>1. /\ th[c].pc = "recv" /\ th[c].got \in Nat
        /\ th[c].got + 1 \in DOMAIN sent[c]
        /\ sent[c][th[c].got + 1].type = "USER_LEFT"
        /\ th[c].got # 0 /\ th[c].got \in DOMAIN sent[c]
    BY IncomingPlace DEF LeftClient, Receives
  <1>2. th[c] \in Thread /\ sent[c] \in Seq(Packet) /\ InStream(c)
    BY KnownTypes DEF NetTypeOK, HandlerInv
  <1> DEFINE t == [th[c] EXCEPT !.pc = "left", !.got = @ + 1, !.i = 1,
                                !.pkt = Left(c)]
  <1>3. th' = [th EXCEPT ![c] = t] /\ sent' = sent
    BY DEF LeftClient
  <1>4. t.pc = "left" /\ t.got = th[c].got + 1 /\ t.fd = th[c].fd
    BY <1>2 DEF Thread
  <1> HIDE DEF t
  <1>5. th'[c] = t
    BY <1>3, KnownTypes
  <1>6. /\ 1 \in DOMAIN sent[c] /\ 1 # Len(sent[c]) /\ th[c].got >= 1
        /\ th[c].got # Len(sent[c])
    BY <1>1, <1>2, LenProperties
  <1>7. sent[c][1].whole /\ sent[c][th[c].got].type # "USER_LEFT"
    BY <1>1, <1>2, <1>6 DEF InStream
  <1>8. Registered(c)
    BY <1>1, <1>6, <1>7 DEF Registered
  <1>9. sent'[c][th'[c].got].type = "USER_LEFT"
    BY <1>1, <1>3, <1>4, <1>5
  <1> QED
    BY <1>8, <1>9 DEF Registered

\* The removal: who leaves is registered, so it has a slot to lose.
LEMMA LeftCounts ==
    ASSUME IsFiniteSet(Conns), IndInv, HandlerInv, RegistryCounts,
           NEW c \in Conns, LeftClient(c)
    PROVE  RegistryCounts'
  <1>1. Registered(c) /\ ~Registered(c)'
    BY LeftEntry
  <1>2. /\ clientList \in ClientList(Names, AnyFd)
        /\ clientList.size <= Len(clientList.clients)
    BY KnownTypes
  <1>3. \A d \in Conns \ {c} : SameEntry(d)
    BY ServerFrame, FrameStays, KnownTypes, StaysEntry
       DEF Thread, ServerStep, RegistryHandler
  <1>4. clientList' = removeClientFromClientList(clientList, th[c].fd)
    BY DEF LeftClient
  <1>5. \A f \in Fds : /\ IsFiniteSet(RegisteredOn(f))
                       /\ Cardinality(SlotsOf(clientList, f))
                            = Cardinality(RegisteredOn(f))
    BY RegisteredFinite DEF RegistryCounts, RegisteredOn
  <1>6. th[c].fd \in Fds /\ SlotsOf(clientList, th[c].fd) # {}
    <2>1. th[c].fd \in Fds
      BY DEF LeftClient, Receives, IndInv, FdInv
    <2>2. RegisteredOn(th[c].fd) # {}
      BY <1>1 DEF RegisteredOn
    <2>3. Cardinality(RegisteredOn(th[c].fd)) # 0
      BY <1>5, <2>1, <2>2, FS_EmptySet
    <2> QED
      BY <1>5, <2>1, <2>3, FS_EmptySet
  <1>7. ASSUME NEW f \in Fds
        PROVE  Cardinality(SlotsOf(clientList', f)) = Cardinality(RegisteredOn(f)')
    <2>1. Cardinality(SlotsOf(clientList', f)) =
            IF f = th[c].fd THEN Cardinality(SlotsOf(clientList, f)) - 1
                            ELSE Cardinality(SlotsOf(clientList, f))
      BY <1>2, <1>4, <1>6, RemovalCounts
    <2>2. CASE f = th[c].fd
      <3>1. RegisteredOn(f)' = RegisteredOn(f) \ {c} /\ c \in RegisteredOn(f)
        BY <1>1, <1>3, <2>2 DEF RegisteredOn, SameEntry
      <3> QED
        BY <1>5, <2>1, <2>2, <3>1, FS_RemoveElement
    <2>3. CASE f # th[c].fd
      <3>1. RegisteredOn(f)' = RegisteredOn(f)
        BY <1>1, <1>3, <2>3 DEF RegisteredOn, SameEntry
      <3> QED
        BY <1>5, <2>1, <2>3, <3>1
    <2> QED
      BY <2>2, <2>3
  <1> QED
    BY <1>7 DEF RegistryCounts, RegisteredOn

\* Every step keeps the count.
LEMMA NextCounts ==
    ASSUME IsFiniteSet(Conns)
    PROVE  IndInv /\ HandlerInv /\ RegistryCounts /\ [Next]_registryVars
             => RegistryCounts'
  <1> SUFFICES ASSUME IndInv, HandlerInv, RegistryCounts, [Next]_registryVars
               PROVE  RegistryCounts'
    OBVIOUS
  <1>1. \A d \in Conns : th[d].got \in Nat
    BY KnownTypes DEF Thread
  <1>2. CASE UNCHANGED registryVars
    BY <1>2 DEF registryVars, netVars, RegistryCounts, Registered
  <1>3. CASE Stops
    BY <1>2, <1>3 DEF Stops
  <1>4. ASSUME NEW c \in Conns, ServerStep(c)
        PROVE  RegistryCounts'
    <2>1. CASE ~Register(c) /\ ~LeftClient(c)
      <3>1. \A d \in Conns \ {c} : SameEntry(d)
        BY <1>1, <1>4, ServerFrame, FrameStays, StaysEntry
      <3> QED
        BY <1>4, <2>1, <3>1, OwnEntry, EntriesKeepCount
    <2> QED
      BY <2>1, RegisterCounts, LeftCounts
  <1>5. ASSUME NEW c \in Conns, UserStep(c)
        PROVE  RegistryCounts'
    <2>1. \A d \in Conns : SameEntry(d)
      BY <1>1, <1>5, UserStays, StaysEntry
    <2>2. clientList' = clientList
      BY <1>5 DEF UserStep, SendChat
    <2> QED
      BY <2>1, <2>2, EntriesKeepCount
  <1> QED
    BY <1>2, <1>3, <1>4, <1>5 DEF Next

LEMMA InitCounts == Init => RegistryCounts
  <1> SUFFICES ASSUME Init, NEW f \in Fds
               PROVE  Cardinality(SlotsOf(clientList, f))
                        = Cardinality({c \in Conns : Registered(c) /\ th[c].fd = f})
    BY DEF RegistryCounts
  <1>1. SlotsOf(clientList, f) = {}
    BY DEF Init, RegistryInit, EmptyList, SlotsOf, Live
  <1>2. {c \in Conns : Registered(c) /\ th[c].fd = f} = {}
    BY DEF Init, NetInit, NewThread, Registered
  <1> QED
    BY <1>1, <1>2

\* The list has one live slot for each client that is registered, and on the
\* right descriptor, also when a descriptor is used again while the entry of a
\* client that crashed still holds it.
THEOREM ListCounts ==
    ASSUME IsFiniteSet(Conns)
    PROVE  Spec => []RegistryCounts
  BY InitInv, NextInv, InitHandler, NextHandler, InitCounts, NextCounts, PTL
     DEF Spec
=============================================================================
