--------------------------- MODULE DirectoryProofs ---------------------------
(***************************************************************************)
(* The registry implements the directory (ImplementsDirectory), and what   *)
(* it says of those who have left is true (LeftIsTruthful): proofs for any *)
(* number of connections and descriptors, with crashes and moving arrays.  *)
(* Provided that no array moves, the list of users that a new client is    *)
(* sent names that client itself (ListNamesItsReader).                     *)
(***************************************************************************)
EXTENDS RegistryProofs, WellFoundedInduction

----------------------------------------------------------------------------
(* What a step of the thread of c does to everything the two depend on. *)

\* What every connection's phase depends on stays.
Stays(d) ==
    /\ th'[d].pc = th[d].pc /\ th'[d].fd = th[d].fd
    /\ th'[d].got = th[d].got
    /\ \A k \in 1 .. th[d].got : sent'[d][k] = sent[d][k]

LEMMA StaysPhase ==
    ASSUME NEW d \in Conns, th[d].got \in Nat, Stays(d)
    PROVE  /\ SaidGoodbye(d)' <=> SaidGoodbye(d)
           /\ Left(d)' = Left(d)
           /\ Phase(d)' = Phase(d)
  <1>1. th[d].got >= 1 => /\ sent'[d][1] = sent[d][1]
                          /\ sent'[d][th[d].got] = sent[d][th[d].got]
    BY DEF Stays
  <1>2. SaidGoodbye(d)' <=> SaidGoodbye(d)
    BY <1>1 DEF Stays, SaidGoodbye
  <1>3. Introduced(d)' <=> Introduced(d)
    BY <1>1 DEF Stays, Introduced
  <1> QED
    BY <1>2, <1>3 DEF Stays, Left, Phase

\* Who has said goodbye has nothing more to say, and was introduced.
LEMMA GoodbyeIsLast ==
    ASSUME IndInv, HandlerInv, NEW c \in Conns, SaidGoodbye(c)
    PROVE  /\ th[c].got = Len(sent[c]) /\ peer[c] # "open"
           /\ th[c].pc \notin {"new", "introduce", "introducePayload", "list",
                              "listPayload", "chatPayload"}
           /\ Introduced(c)
  <1>1. /\ th[c].got \in Nat /\ th[c].got <= Len(sent[c])
        /\ sent[c] \in Seq(Packet) /\ th[c].pc \in Pcs
    BY KnownTypes DEF Thread, NewsInv, NetTypeOK
  <1>2. th[c].got \in DOMAIN sent[c] /\ sent[c][th[c].got].type = "USER_LEFT"
    BY <1>1, LenProperties DEF SaidGoodbye
  <1>3. InStream(c) /\ InHandler(c)
    BY DEF HandlerInv
  <1>4. th[c].got = Len(sent[c]) /\ peer[c] # "open" /\ th[c].got # 1
    BY <1>2, <1>3 DEF InStream
  <1>5. Introduced(c)
    <2>1. 1 \in DOMAIN sent[c] /\ 1 # Len(sent[c]) /\ th[c].got >= 1
      BY <1>1, <1>2, <1>4, LenProperties
    <2> QED
      BY <1>3, <2>1 DEF InStream, Introduced
  <1>6. th[c].pc \notin {"new", "introduce", "introducePayload", "list",
                        "listPayload", "chatPayload"}
    BY <1>1, <1>2, <1>3, <1>4 DEF InHandler
  <1> QED
    BY <1>4, <1>5, <1>6
\* Where a thread is tells its phase.
LEMMA PhaseOf ==
    ASSUME IndInv, HandlerInv, NEW c \in Conns
    PROVE  /\ th[c].pc \in {"introduce", "introducePayload"} =>
                Phase(c) = "entering"
           /\ th[c].pc \in {"list", "listPayload"} => Phase(c) = "entered"
           /\ th[c].pc \in {"left", "leftPayload"} => Phase(c) = "leaving"
           /\ th[c].pc = "closed" => Phase(c) = "gone"
           /\ th[c].pc = "recv" /\ SaidGoodbye(c) => Phase(c) = "gone"
           /\ th[c].pc \in {"new", "recv"} /\ ~SaidGoodbye(c) /\ ~Introduced(c)
                => Phase(c) = "away"
           /\ th[c].pc = "recv" /\ ~SaidGoodbye(c) /\ Introduced(c)
                => Phase(c) = "in"
           /\ th[c].pc = "chatPayload" => Phase(c) = "in"
  <1>1. th[c].pc \in {"introduce", "introducePayload"} => Phase(c) = "entering"
    BY DEF Phase
  <1>2. th[c].pc \in {"list", "listPayload"} => Phase(c) = "entered"
    BY DEF Phase
  <1>3. th[c].pc \in {"left", "leftPayload"} => Phase(c) = "leaving"
    BY DEF Phase
  <1>4. th[c].pc = "closed" => Phase(c) = "gone"
    BY DEF Phase
  <1>5. th[c].pc = "recv" /\ SaidGoodbye(c) => Phase(c) = "gone"
    BY GoodbyeIsLast DEF Phase
  <1>6. th[c].pc \in {"new", "recv"} /\ ~SaidGoodbye(c) /\ ~Introduced(c)
          => Phase(c) = "away"
    BY DEF Phase
  <1>7. th[c].pc = "recv" /\ ~SaidGoodbye(c) /\ Introduced(c) => Phase(c) = "in"
    BY DEF Phase
  <1>8. th[c].pc = "chatPayload" => Phase(c) = "in"
    BY DEF Phase
  <1> QED
    BY <1>1, <1>2, <1>3, <1>4, <1>5, <1>6, <1>7, <1>8


\* A step of the thread of c leaves all others where they are.
LEMMA FrameStays ==
    ASSUME IndInv, HandlerInv, NEW c \in Conns, Frame(c), sent' = sent
    PROVE  \A d \in Conns \ {c} : /\ Stays(d) /\ Phase(d)' = Phase(d)
                                  /\ SaidGoodbye(d)' <=> SaidGoodbye(d)
                                  /\ Left(d)' = Left(d)
  <1> SUFFICES ASSUME NEW d \in Conns \ {c}
               PROVE  /\ Stays(d) /\ Phase(d)' = Phase(d)
                      /\ SaidGoodbye(d)' <=> SaidGoodbye(d)
                      /\ Left(d)' = Left(d)
    OBVIOUS
  <1>1. th[d].got \in Nat
    BY KnownTypes DEF Thread
  <1>2. Stays(d)
    BY DEF Frame, Stays
  <1> QED
    BY <1>1, <1>2, StaysPhase

\* What one send() tells: the payload of news, or of the list, to the owner of
\* the descriptor.
LEMMA ToldStep ==
    ASSUME NetTypeOK, NEW c \in Conns, NEW f, NEW part, NEW p,
           Emits(c, f, part, p)
    PROVE  \/ \A x \in Conns : ToldOf(x)' = ToldOf(x)
           \/ \E y \in Conns :
                /\ f \in Fds /\ fdTable[f] = y
                /\ part = "payload" /\ p.type \in DOMAIN What
                /\ ToldOf(y)' =
                     ToldOf(y) \cup {[what |-> What[p.type], of |-> c]}
                /\ \A x \in Conns \ {y} : ToldOf(x)' = ToldOf(x)
  <1>1. CASE out' = out
    BY <1>1 DEF ToldOf
  <1>2. ASSUME NEW y \in Conns, f \in Fds, fdTable[f] = y,
               out' = [out EXCEPT ![y] =
                         Append(@, [part |-> part, by |-> c, pkt |-> p])]
        PROVE  \/ \A x \in Conns : ToldOf(x)' = ToldOf(x)
               \/ /\ part = "payload" /\ p.type \in DOMAIN What
                  /\ ToldOf(y)' =
                       ToldOf(y) \cup {[what |-> What[p.type], of |-> c]}
                  /\ \A x \in Conns \ {y} : ToldOf(x)' = ToldOf(x)
    <2> DEFINE chunk == [part |-> part, by |-> c, pkt |-> p]
               n == Len(out[y])
    <2>1. /\ out \in [Conns -> Seq(Chunk)] /\ out[y] \in Seq(Chunk) /\ n \in Nat
      BY <1>2 DEF NetTypeOK
    <2>2. /\ out'[y] = Append(out[y], chunk)
          /\ \A x \in Conns \ {y} : out'[x] = out[x]
      BY <1>2, <2>1
    <2>3. /\ DOMAIN out[y] = 1 .. n /\ DOMAIN out'[y] = 1 .. n + 1
          /\ \A k \in 1 .. n : out'[y][k] = out[y][k]
          /\ out'[y][n + 1] = chunk
      BY <2>1, <2>2
    <2>4. \A x \in Conns \ {y} : ToldOf(x)' = ToldOf(x)
      BY <2>2 DEF ToldOf
    <2> DEFINE old == {k \in 1 .. n : Informs(out[y][k])}
               new == {k \in 1 .. n + 1 : Informs(out'[y][k])}
               Says(ch) == [what |-> What[ch.pkt.type], of |-> ch.by]
    <2>5. /\ ToldOf(y) = {Says(out[y][j]) : j \in old}
          /\ ToldOf(y)' = {Says(out'[y][j]) : j \in new}
      BY <2>3 DEF ToldOf
    <2>6. chunk.part = part /\ chunk.pkt = p /\ chunk.by = c
      OBVIOUS
    <2> HIDE DEF chunk, n
    <2>7. CASE Informs(chunk)
      <3>1. new = old \cup {n + 1}
        BY <2>1, <2>3, <2>7
      <3>2. ToldOf(y)' = ToldOf(y) \cup {Says(chunk)}
        <4>1. \A j \in old : Says(out'[y][j]) = Says(out[y][j])
          BY <2>3
        <4>2. Says(out'[y][n + 1]) = Says(chunk)
          BY <2>3
        <4> HIDE DEF old, new, Says
        <4> QED
          BY <2>5, <3>1, <4>1, <4>2
      <3>3. part = "payload" /\ p.type \in DOMAIN What
            /\ Says(chunk) = [what |-> What[p.type], of |-> c]
        BY <2>6, <2>7 DEF Informs
      <3> HIDE DEF Says
      <3> QED
        BY <1>2, <2>4, <3>2, <3>3
    <2>8. CASE ~Informs(chunk)
      <3>1. new = old
        BY <2>1, <2>3, <2>8
      <3>2. ToldOf(y)' = ToldOf(y)
        <4>1. \A j \in old : Says(out'[y][j]) = Says(out[y][j])
          BY <2>3
        <4> HIDE DEF old, new, Says
        <4> QED
          BY <2>5, <3>1, <4>1
      <3> QED
        BY <2>4, <3>2
    <2> QED
      BY <2>7, <2>8
  <1> QED
    BY <1>1, <1>2 DEF Emits

----------------------------------------------------------------------------
(* Steps of the directory. *)

\* A step that concerns only where c is.
LEMMA MovesStep ==
    ASSUME NEW c \in Conns, NEW from, NEW to,
           Phase(c) = from, Phase(c)' = to,
           \A d \in Conns \ {c} : Phase(d)' = Phase(d),
           \A x \in Conns : ToldOf(x)' = ToldOf(x)
    PROVE  /\ D!Moves(c, from, to)
           /\ from = to => UNCHANGED D!vars
  BY DEF D!Moves, D!vars

\* A step that tells x something of c and moves nobody.
TellsOf(x, what, c) ==
    /\ ToldOf(x)' = ToldOf(x) \cup {[what |-> what, of |-> c]}
    /\ \A y \in Conns \ {x} : ToldOf(y)' = ToldOf(y)

LEMMA TellsStep ==
    ASSUME NEW c \in Conns, NEW x \in Conns, NEW what, TellsOf(x, what, c)
    PROVE  D!Tells(x, what, c)
  BY DEF D!Tells, TellsOf

Refines == D!Next \/ UNCHANGED D!vars

\* The server's steps that send nothing, or nothing that tells.
LEMMA SilentStep ==
    ASSUME IndInv, HandlerInv, NEW c \in Conns, Frame(c), sent' = sent,
           \A x \in Conns : ToldOf(x)' = ToldOf(x),
           \/ Phase(c)' = Phase(c)
           \/ Phase(c) = "away" /\ Phase(c)' = "entering"
           \/ Phase(c) = "entering" /\ Phase(c)' = "entered"
           \/ Phase(c) = "entered" /\ Phase(c)' = "in"
           \/ Phase(c) = "in" /\ Phase(c)' = "leaving"
           \/ Phase(c) = "leaving" /\ Phase(c)' = "gone"
           \/ Phase(c) \in {"away", "in"} /\ Phase(c)' = "gone"
    PROVE  Refines
  <1>1. \A d \in Conns \ {c} : Phase(d)' = Phase(d)
    BY FrameStays
  <1>2. CASE Phase(c)' = Phase(c)
    <2>1. PICK from : Phase(c) = from
      OBVIOUS
    <2> QED
      BY <1>1, <1>2, <2>1, MovesStep DEF Refines
  <1>3. CASE Phase(c) = "away" /\ Phase(c)' = "entering"
    <2>1. D!Moves(c, "away", "entering")
      BY <1>1, <1>3, MovesStep
    <2> QED
      BY <2>1 DEF Refines, D!Next, D!Arrive
  <1>4. CASE Phase(c) = "entering" /\ Phase(c)' = "entered"
    <2>1. D!Moves(c, "entering", "entered")
      BY <1>1, <1>4, MovesStep
    <2> QED
      BY <2>1 DEF Refines, D!Next, D!Enter
  <1>5. CASE Phase(c) = "entered" /\ Phase(c)' = "in"
    <2>1. D!Moves(c, "entered", "in")
      BY <1>1, <1>5, MovesStep
    <2> QED
      BY <2>1 DEF Refines, D!Next, D!Answer, D!Moves
  <1>6. CASE Phase(c) = "in" /\ Phase(c)' = "leaving"
    <2>1. D!Moves(c, "in", "leaving")
      BY <1>1, <1>6, MovesStep
    <2> QED
      BY <2>1 DEF Refines, D!Next, D!Depart
  <1>7. CASE Phase(c) = "leaving" /\ Phase(c)' = "gone"
    <2>1. D!Moves(c, "leaving", "gone")
      BY <1>1, <1>7, MovesStep
    <2> QED
      BY <2>1 DEF Refines, D!Next, D!Gone
  <1>8. CASE Phase(c) \in {"away", "in"} /\ Phase(c)' = "gone"
    <2>1. D!Moves(c, "away", "gone") \/ D!Moves(c, "in", "gone")
      BY <1>1, <1>8, MovesStep
    <2> QED
      BY <2>1 DEF Refines, D!Next, D!Vanish
  <1> QED
    BY <1>2, <1>3, <1>4, <1>5, <1>6, <1>7, <1>8

\* A header tells nothing, and neither does a chat.
LEMMA HeaderTellsNothing ==
    ASSUME NetTypeOK, NEW c \in Conns, NEW f, NEW part, NEW p,
           Send(c, f, part, p),
           part = "header" \/ p.type = "CHAT"
    PROVE  \A x \in Conns : ToldOf(x)' = ToldOf(x)
  <1>1. Emits(c, f, part, p)
    BY SendEffect
  <1>2. "CHAT" \notin DOMAIN What
    BY DEF What
  <1> QED
    BY <1>1, <1>2, ToldStep

\* NewClient, Register and LeftClient: one step of the directory each.
LEMMA EntersStep ==
    ASSUME IndInv, HandlerInv, NEW c \in Conns,
           NewClient(c) \/ Register(c) \/ LeftClient(c)
    PROVE  Refines
  <1>1. th[c] \in Thread /\ NetTypeOK
    BY KnownTypes
  <1>2. sent' = sent /\ \A x \in Conns : ToldOf(x)' = ToldOf(x)
    BY DEF NewClient, Register, LeftClient, ToldOf
  <1>3. CASE NewClient(c)
    <2>1. /\ Receives(c, "INTRO") /\ th[c].pc = "recv"
          /\ th[c].got = 0 /\ sent[c][1] = Incoming(c)
          /\ sent[c][1].type = "INTRO"
      BY <1>3, IncomingPlace DEF NewClient, Receives
    <2>2. Phase(c) = "away"
      BY <2>1, PhaseOf DEF SaidGoodbye, Introduced
    <2>3. CASE Incoming(c).whole
      <3> DEFINE t == [th[c] EXCEPT !.pc = "introduce", !.got = @ + 1,
                                    !.pkt = Joined(c), !.i = 1,
                                    !.n = clientList.size]
      <3>1. th' = [th EXCEPT ![c] = t]
        BY <1>3, <2>3 DEF NewClient
      <3>2. t.pc = "introduce"
        BY <1>1 DEF Thread
      <3> HIDE DEF t
      <3>3. th'[c].pc = "introduce" /\ Frame(c)
        BY <3>1, <3>2, KnownTypes DEF Frame
      <3>4. Phase(c)' = "entering"
        BY <3>3 DEF Phase
      <3> QED
        BY <1>2, <2>2, <3>3, <3>4, SilentStep
    <2>4. CASE ~Incoming(c).whole
      <3> DEFINE t == Idle(th[c], 1)
      <3>1. th' = [th EXCEPT ![c] = t]
        BY <1>3, <2>4 DEF NewClient, ReceiveAndReturn
      <3>2. t.pc = "recv" /\ t.got = 1
        BY <1>1, <2>1, IdleType
      <3> HIDE DEF t
      <3>3. th'[c].pc = "recv" /\ th'[c].got = 1 /\ Frame(c)
        BY <3>1, <3>2, KnownTypes DEF Frame
      <3>4. ~SaidGoodbye(c)' /\ ~Introduced(c)'
        BY <1>2, <2>1, <2>4, <3>3 DEF SaidGoodbye, Introduced
      <3>5. Phase(c)' = "away"
        BY <3>3, <3>4 DEF Phase
      <3> QED
        BY <1>2, <2>2, <3>3, <3>5, SilentStep
    <2> QED
      BY <2>3, <2>4
  <1>4. CASE Register(c)
    <2>1. Frame(c) /\ th[c].pc = "introduce" /\ th'[c].pc = "list"
      BY <1>4, RegisterFrame
    <2>2. Phase(c) = "entering" /\ Phase(c)' = "entered"
      BY <2>1 DEF Phase
    <2> QED
      BY <1>2, <2>1, <2>2, SilentStep
  <1>5. CASE LeftClient(c)
    <2>1. /\ Receives(c, "USER_LEFT") /\ th[c].pc = "recv"
          /\ th[c].got \in Nat /\ th[c].got + 1 \in DOMAIN sent[c]
          /\ th[c].got # 0 /\ th[c].got \in DOMAIN sent[c]
      BY <1>5, IncomingPlace DEF LeftClient, Receives
    <2>2. sent[c] \in Seq(Packet) /\ InStream(c)
      BY <1>1 DEF NetTypeOK, HandlerInv
    <2>3. ~SaidGoodbye(c)
      BY <2>1, <2>2, LenProperties, GoodbyeIsLast
    <2>4. Introduced(c)
      <3>1. 1 \in DOMAIN sent[c] /\ 1 # Len(sent[c]) /\ th[c].got >= 1
        BY <2>1, <2>2, LenProperties
      <3> QED
        BY <2>2, <3>1 DEF InStream, Introduced
    <2>5. Phase(c) = "in"
      BY <2>1, <2>3, <2>4, PhaseOf
    <2> DEFINE t == [th[c] EXCEPT !.pc = "left", !.got = @ + 1, !.i = 1,
                                  !.pkt = Left(c)]
    <2>6. th' = [th EXCEPT ![c] = t]
      BY <1>5 DEF LeftClient
    <2>7. t.pc = "left"
      BY <1>1 DEF Thread
    <2> HIDE DEF t
    <2>8. th'[c].pc = "left" /\ Frame(c)
      BY <2>6, <2>7, KnownTypes DEF Frame
    <2>9. Phase(c)' = "leaving"
      BY <2>8 DEF Phase
    <2> QED
      BY <1>2, <2>5, <2>8, <2>9, SilentStep
  <1> QED
    BY <1>3, <1>4, <1>5

\* A step that neither moves anybody nor tells anything.
LEMMA StutterStep ==
    ASSUME \A d \in Conns : Phase(d)' = Phase(d) /\ ToldOf(d)' = ToldOf(d)
    PROVE  Refines
  BY DEF Refines, D!vars

\* What a thread that goes back to recvAll() in the handler of its last packet
\* has become.
LEMMA ReturnFrame ==
    ASSUME IndInv, NEW c \in Conns, Return(c)
    PROVE  /\ Frame(c) /\ th'[c].pc = "recv"
           /\ th'[c].got = th[c].got /\ th'[c].fd = th[c].fd
  <1>1. th[c] \in Thread /\ th[c].got \in Nat
    BY KnownTypes DEF Thread
  <1>2. /\ Idle(th[c], 0).pc = "recv" /\ Idle(th[c], 0).got = th[c].got + 0
        /\ Idle(th[c], 0).fd = th[c].fd
    BY <1>1, IdleType
  <1>3. th' = [th EXCEPT ![c] = Idle(th[c], 0)]
    BY DEF Return
  <1> QED
    BY <1>1, <1>2, <1>3, KnownTypes DEF Frame

\* The step goes on in a handler, at pc, with its packet.
LEMMA GoesOnFrame ==
    ASSUME IndInv, NEW c \in Conns, NEW pc, NEW i,
           \/ th' = [th EXCEPT ![c] = [th[c] EXCEPT !.pc = pc]]
           \/ th' = [th EXCEPT ![c] = [th[c] EXCEPT !.pc = pc, !.i = i]]
    PROVE  /\ Frame(c) /\ th'[c].pc = pc
           /\ th'[c].got = th[c].got /\ th'[c].fd = th[c].fd
  <1>1. th[c] \in Thread
    BY KnownTypes
  <1>2. \/ th'[c] = [th[c] EXCEPT !.pc = pc]
        \/ th'[c] = [th[c] EXCEPT !.pc = pc, !.i = i]
    BY KnownTypes
  <1>3. th'[c].pc = pc /\ th'[c].got = th[c].got /\ th'[c].fd = th[c].fd
    BY <1>1, <1>2 DEF Thread
  <1>4. \A d \in Conns \ {c} : th'[d] = th[d]
    BY KnownTypes
  <1> QED
    BY <1>3, <1>4 DEF Frame

\* The payload of news about c tells somebody, or goes nowhere.
LEMMA TellingStep ==
    ASSUME IndInv, HandlerInv, NEW c \in Conns, NEW f, NEW part, NEW p,
           Send(c, f, part, p), p.type \in DOMAIN What,
           Frame(c), sent' = sent, Phase(c)' = Phase(c), ~Refines
    PROVE  \E x \in Conns : /\ TellsOf(x, What[p.type], c)
                            /\ \A d \in Conns : Phase(d)' = Phase(d)
  <1>1. Emits(c, f, part, p) /\ NetTypeOK
    BY KnownTypes, SendEffect
  <1>2. \A d \in Conns : Phase(d)' = Phase(d)
    BY FrameStays
  <1>3. ~ \A x \in Conns : ToldOf(x)' = ToldOf(x)
    BY <1>2, StutterStep
  <1> QED
    BY <1>1, <1>2, <1>3, ToldStep DEF TellsOf

\* The loop of introduceNewClient announces.
LEMMA IntroduceStep ==
    ASSUME IndInv, HandlerInv, NEW c \in Conns,
           IntroduceHeader(c) \/ IntroducePayload(c)
    PROVE  Refines
  <1>1. NetTypeOK /\ InHandler(c)
    BY KnownTypes DEF HandlerInv
  <1>2. CASE IntroduceHeader(c)
    <2>1. /\ th[c].pc = "introduce" /\ sent' = sent
          /\ th' = [th EXCEPT ![c] = [th[c] EXCEPT !.pc = "introducePayload"]]
      BY <1>2 DEF IntroduceHeader, At
    <2>2. PICK f \in Slot(c, th[c].i) : Send(c, f, "header", th[c].pkt)
      BY <1>2 DEF IntroduceHeader, SendHeader
    <2>3. Frame(c) /\ th'[c].pc = "introducePayload"
      BY <2>1, GoesOnFrame
    <2>4. Phase(c) = "entering" /\ Phase(c)' = "entering"
      BY <2>1, <2>3 DEF Phase
    <2>5. \A x \in Conns : ToldOf(x)' = ToldOf(x)
      BY <1>1, <2>2, HeaderTellsNothing
    <2> QED
      BY <2>1, <2>3, <2>4, <2>5, SilentStep
  <1>3. CASE IntroducePayload(c)
    <2>1. /\ th[c].pc = "introducePayload" /\ sent' = sent
          /\ th' = [th EXCEPT ![c] = [th[c] EXCEPT !.pc = "introduce",
                                                   !.i = th[c].i + 1]]
      BY <1>3 DEF IntroducePayload, At
    <2>2. PICK f \in Slot(c, th[c].i) : Send(c, f, "payload", th[c].pkt)
      BY <1>3 DEF IntroducePayload, SendPayload
    <2>3. Frame(c) /\ th'[c].pc = "introduce"
      BY <2>1, GoesOnFrame
    <2>4. Phase(c) = "entering" /\ Phase(c)' = Phase(c)
      BY <2>1, <2>3 DEF Phase
    <2>5. /\ th[c].pkt.type \in DOMAIN What
          /\ What[th[c].pkt.type] = "joined"
      BY <1>1, <2>1 DEF InHandler, What
    <2>6. SUFFICES ASSUME ~Refines PROVE FALSE
      OBVIOUS
    <2>7. PICK x \in Conns : /\ TellsOf(x, What[th[c].pkt.type], c)
                             /\ \A d \in Conns : Phase(d)' = Phase(d)
      BY <2>1, <2>2, <2>3, <2>4, <2>5, <2>6, TellingStep
    <2>8. D!Tells(x, "joined", c)
      BY <2>5, <2>7, TellsStep
    <2>9. D!Announce(c)
      BY <2>4, <2>7, <2>8 DEF D!Announce
    <2> QED
      BY <2>6, <2>9 DEF Refines, D!Next
  <1> QED
    BY <1>2, <1>3

\* sendClientListToClient answers the one it has entered.
LEMMA ListStep ==
    ASSUME IndInv, HandlerInv, NEW c \in Conns, ListHeader(c) \/ ListPayload(c)
    PROVE  Refines
  <1>1. NetTypeOK /\ InHandler(c) /\ InStream(c) /\ th[c] \in Thread
    BY KnownTypes DEF HandlerInv
  <1>2. CASE ListHeader(c)
    <2> DEFINE p == [Blank EXCEPT !.type = "CLIENT_LIST",
                       !.list = SubSeq(clientList.clients, 1, clientList.size)]
               t == [th[c] EXCEPT !.pc = "listPayload", !.pkt = p,
                                  !.n = clientList.size]
    <2>1. /\ th[c].pc = "list" /\ th' = [th EXCEPT ![c] = t] /\ sent' = sent
          /\ Send(c, th[c].fd, "header", p)
      BY <1>2 DEF ListHeader, At, SendHeader
    <2> HIDE DEF p
    <2>2. t.pc = "listPayload"
      BY <1>1 DEF Thread
    <2> HIDE DEF t
    <2>3. Frame(c) /\ th'[c].pc = "listPayload"
      BY <2>1, <2>2, KnownTypes DEF Frame
    <2>4. Phase(c) = "entered" /\ Phase(c)' = "entered"
      BY <2>1, <2>3 DEF Phase
    <2>5. \A x \in Conns : ToldOf(x)' = ToldOf(x)
      BY <1>1, <2>1, HeaderTellsNothing
    <2> QED
      BY <2>1, <2>3, <2>4, <2>5, SilentStep
  <1>3. CASE ListPayload(c)
    <2>1. /\ th[c].pc = "listPayload" /\ sent' = sent /\ Return(c)
      BY <1>3 DEF ListPayload, At
    <2>2. PICK entries :
            SendPayload(c, th[c].fd, [th[c].pkt EXCEPT !.list = entries])
      BY <1>3 DEF ListPayload
    <2> DEFINE p == [th[c].pkt EXCEPT !.list = entries]
    <2>3. p.type = "CLIENT_LIST"
      BY <1>1, <2>1 DEF InHandler, Thread, Packet
    <2>4. Send(c, th[c].fd, "payload", p)
      BY <2>2 DEF SendPayload
    <2> HIDE DEF p
    <2>5. /\ Frame(c) /\ th'[c].pc = "recv" /\ th'[c].got = 1
          /\ sent[c][1].whole
      BY <1>1, <2>1, ReturnFrame DEF InHandler
    <2>6. sent[c][1].type # "USER_LEFT"
      <3>1. th[c].got <= Len(sent[c]) /\ th[c].got = 1
        BY <1>1, <2>1 DEF InHandler, IndInv, NewsInv
      <3>2. 1 \in DOMAIN sent[c]
        BY <1>1, <3>1, LenProperties DEF NetTypeOK
      <3> QED
        BY <1>1, <3>2 DEF InStream
    <2>7. Phase(c) = "entered" /\ Phase(c)' = "in"
      <3>1. ~SaidGoodbye(c)' /\ Introduced(c)'
        BY <2>1, <2>5, <2>6 DEF SaidGoodbye, Introduced
      <3> QED
        BY <2>1, <2>5, <3>1 DEF Phase
    <2>8. CASE \A x \in Conns : ToldOf(x)' = ToldOf(x)
      BY <2>1, <2>5, <2>7, <2>8, SilentStep
    <2>9. ASSUME NEW y \in Conns, th[c].fd \in Fds, fdTable[th[c].fd] = y,
                 ToldOf(y)' = ToldOf(y) \cup {[what |-> What[p.type], of |-> c]},
                 \A x \in Conns \ {y} : ToldOf(x)' = ToldOf(x)
          PROVE  Refines
      <3>1. y = c
        BY <2>1, <2>9 DEF IndInv, FdInv, OneThreadPerFd
      <3>2. What[p.type] = "list"
        BY <2>3 DEF What
      <3>3. D!Tells(c, "list", c)
        BY <2>9, <3>1, <3>2, TellsStep DEF TellsOf
      <3>4. \A d \in Conns \ {c} : Phase(d)' = Phase(d)
        BY <2>1, <2>5, FrameStays
      <3>5. D!Answer(c)
        BY <2>7, <3>3, <3>4 DEF D!Answer
      <3> QED
        BY <3>5 DEF Refines, D!Next
    <2>10. Emits(c, th[c].fd, "payload", p)
      BY <1>1, <2>4, SendEffect
    <2> QED
      BY <1>1, <2>8, <2>9, <2>10, ToldStep
  <1> QED
    BY <1>2, <1>3

\* The loop of manageLeftClient tells, and ends the stay of c.
LEMMA LeftStep ==
    ASSUME IndInv, HandlerInv, NEW c \in Conns,
           LeftHeader(c) \/ LeftPayload(c) \/ LeftDone(c)
    PROVE  Refines
  <1>1. NetTypeOK /\ InHandler(c)
    BY KnownTypes DEF HandlerInv
  <1>2. CASE LeftHeader(c)
    <2>1. /\ th[c].pc = "left" /\ sent' = sent
          /\ th' = [th EXCEPT ![c] = [th[c] EXCEPT !.pc = "leftPayload"]]
          /\ Send(c, clientList.clients[th[c].i].FD, "header", th[c].pkt)
      BY <1>2 DEF LeftHeader, At, SendHeader
    <2>2. Frame(c) /\ th'[c].pc = "leftPayload"
      BY <2>1, GoesOnFrame
    <2>3. Phase(c) = "leaving" /\ Phase(c)' = "leaving"
      BY <2>1, <2>2 DEF Phase
    <2>4. \A x \in Conns : ToldOf(x)' = ToldOf(x)
      BY <1>1, <2>1, HeaderTellsNothing
    <2> QED
      BY <2>1, <2>2, <2>3, <2>4, SilentStep
  <1>3. CASE LeftPayload(c)
    <2>1. /\ th[c].pc = "leftPayload" /\ sent' = sent
          /\ th' = [th EXCEPT ![c] = [th[c] EXCEPT !.pc = "left",
                                                   !.i = th[c].i + 1]]
          /\ Send(c, clientList.clients[th[c].i].FD, "payload", th[c].pkt)
      BY <1>3 DEF LeftPayload, At, SendPayload
    <2>2. Frame(c) /\ th'[c].pc = "left"
      BY <2>1, GoesOnFrame
    <2>3. Phase(c) = "leaving" /\ Phase(c)' = Phase(c)
      BY <2>1, <2>2 DEF Phase
    <2>4. th[c].pkt.type = "USER_LEFT"
      BY <1>1, <2>1 DEF InHandler, Left, Blank
    <2>5. th[c].pkt.type \in DOMAIN What /\ What[th[c].pkt.type] = "left"
      BY <2>4 DEF What
    <2>6. SUFFICES ASSUME ~Refines PROVE FALSE
      OBVIOUS
    <2>7. PICK x \in Conns : /\ TellsOf(x, What[th[c].pkt.type], c)
                             /\ \A d \in Conns : Phase(d)' = Phase(d)
      BY <2>1, <2>2, <2>3, <2>5, <2>6, TellingStep
    <2>8. D!Tells(x, "left", c)
      BY <2>5, <2>7, TellsStep
    <2>9. D!Part(c)
      BY <2>3, <2>7, <2>8 DEF D!Part
    <2> QED
      BY <2>6, <2>9 DEF Refines, D!Next
  <1>4. CASE LeftDone(c)
    <2>1. th[c].pc = "left" /\ sent' = sent /\ out' = out /\ Return(c)
      BY <1>4 DEF LeftDone, At
    <2>2. SaidGoodbye(c)
      BY <1>1, <2>1 DEF InHandler
    <2>3. Frame(c) /\ th'[c].pc = "recv" /\ th'[c].got = th[c].got
      BY <2>1, ReturnFrame
    <2>4. SaidGoodbye(c)' /\ Introduced(c)'
      BY <2>1, <2>2, <2>3, GoodbyeIsLast DEF SaidGoodbye, Introduced
    <2>5. Phase(c) = "leaving" /\ Phase(c)' = "gone"
      BY <2>1, <2>3, <2>4 DEF Phase
    <2>6. \A x \in Conns : ToldOf(x)' = ToldOf(x)
      BY <2>1 DEF ToldOf
    <2> QED
      BY <2>1, <2>3, <2>5, <2>6, SilentStep
  <1> QED
    BY <1>2, <1>3, <1>4

\* managePeerChat tells nothing, and only of one who is in.
LEMMA PeerChatStep ==
    ASSUME IndInv, HandlerInv, NEW c \in Conns,
           PeerChat(c) \/ PeerChatPayload(c)
    PROVE  Refines
  <1>1. /\ NetTypeOK /\ InHandler(c) /\ InStream(c) /\ th[c] \in Thread
        /\ sent[c] \in Seq(Packet) /\ th[c].got <= Len(sent[c])
    BY KnownTypes DEF HandlerInv, NetTypeOK, NewsInv
  <1>2. CASE PeerChat(c)
    <2>1. /\ Receives(c, "CHAT") /\ th[c].pc = "recv"
          /\ th[c].got \in Nat /\ th[c].got + 1 \in DOMAIN sent[c]
          /\ th[c].got # 0 /\ th[c].got \in DOMAIN sent[c]
          /\ Incoming(c).type = "CHAT"
      BY <1>2, IncomingPlace DEF PeerChat, Receives
    <2>2. ~SaidGoodbye(c)
      BY <1>1, <2>1, LenProperties, GoodbyeIsLast
    <2>3. 1 \in DOMAIN sent[c] /\ 1 # Len(sent[c]) /\ th[c].got >= 1
      BY <1>1, <2>1, LenProperties
    <2>4. Phase(c) = "in"
      BY <1>1, <2>1, <2>2, <2>3, PhaseOf DEF InStream, Introduced
    <2> DEFINE t == [th[c] EXCEPT !.pc = "chatPayload", !.got = @ + 1,
                                  !.pkt = Incoming(c)]
    <2>5. th' = [th EXCEPT ![c] = t] /\ sent' = sent
      BY <1>2 DEF PeerChat
    <2>6. t.pc = "chatPayload"
      BY <1>1 DEF Thread
    <2> HIDE DEF t
    <2>7. Frame(c) /\ th'[c].pc = "chatPayload"
      BY <2>5, <2>6, KnownTypes DEF Frame
    <2>8. Phase(c)' = "in"
      BY <2>7 DEF Phase
    <2>9. \A x \in Conns : ToldOf(x)' = ToldOf(x)
      BY <1>1, <1>2, <2>1, HeaderTellsNothing DEF PeerChat, SendHeader
    <2> QED
      BY <2>4, <2>5, <2>7, <2>8, <2>9, SilentStep
  <1>3. CASE PeerChatPayload(c)
    <2>1. /\ th[c].pc = "chatPayload" /\ sent' = sent /\ Return(c)
          /\ Send(c, th[c].pkt.fd, "payload", th[c].pkt)
      BY <1>3 DEF PeerChatPayload, At, SendPayload
    <2>2. /\ th[c].got >= 1 /\ th[c].got \in Nat
          /\ sent[c][th[c].got].type = "CHAT" /\ th[c].pkt.type = "CHAT"
      BY <1>1, <2>1 DEF InHandler, Thread
    <2>3. sent[c][1].whole
      <3>1. 1 \in DOMAIN sent[c]
        BY <1>1, <2>2, LenProperties
      <3>2. sent[c][1].type = "INTRO"
        BY <1>1, <3>1 DEF InStream
      <3>3. 1 # Len(sent[c])
        BY <1>1, <2>2, <3>2
      <3> QED
        BY <1>1, <3>1, <3>3 DEF InStream
    <2>4. Frame(c) /\ th'[c].pc = "recv" /\ th'[c].got = th[c].got
      BY <2>1, ReturnFrame
    <2>5. ~SaidGoodbye(c)' /\ Introduced(c)'
      BY <2>1, <2>2, <2>3, <2>4 DEF SaidGoodbye, Introduced
    <2>6. Phase(c) = "in" /\ Phase(c)' = "in"
      BY <2>1, <2>4, <2>5 DEF Phase
    <2>7. \A x \in Conns : ToldOf(x)' = ToldOf(x)
      BY <1>1, <2>1, <2>2, HeaderTellsNothing
    <2> QED
      BY <2>1, <2>4, <2>6, <2>7, SilentStep
  <1> QED
    BY <1>2, <1>3

\* What leaves every phase where it is and writes nothing is no step at all.
LEMMA NothingSaid ==
    ASSUME IndInv, out' = out, \A d \in Conns : Stays(d)
    PROVE  Refines
  <1>1. \A d \in Conns : th[d].got \in Nat
    BY KnownTypes DEF Thread
  <1>2. \A d \in Conns : Phase(d)' = Phase(d)
    BY <1>1, StaysPhase
  <1>3. \A d \in Conns : ToldOf(d)' = ToldOf(d)
    BY DEF ToldOf
  <1> QED
    BY <1>2, <1>3, StutterStep

\* accept(), the end of the stream and the two crashes of the process.
LEMMA OtherStep ==
    ASSUME IndInv, HandlerInv, NEW c \in Conns,
           Accept(c) \/ Close(c) \/ ReadsNull(c) \/ FollowsFreedPointer(c)
    PROVE  Refines
  <1>1. th[c] \in Thread /\ InHandler(c)
    BY KnownTypes DEF HandlerInv
  <1>2. CASE Accept(c)
    <2>1. PICK f \in Fds :
            th' = [th EXCEPT ![c] = [th[c] EXCEPT !.pc = "recv", !.fd = f]]
      BY <1>2 DEF Accept
    <2>2. th[c].pc = "new" /\ th[c].got = 0 /\ sent' = sent /\ out' = out
      BY <1>1, <1>2 DEF Accept, InHandler
    <2> DEFINE t == [th[c] EXCEPT !.pc = "recv", !.fd = f]
    <2>3. t.pc = "recv" /\ t.got = 0
      BY <1>1, <2>2 DEF Thread
    <2> HIDE DEF t
    <2>4. Frame(c) /\ th'[c].pc = "recv" /\ th'[c].got = 0
      BY <2>1, <2>3, KnownTypes DEF t, Frame
    <2>5. /\ ~SaidGoodbye(c) /\ ~Introduced(c)
          /\ ~SaidGoodbye(c)' /\ ~Introduced(c)'
      BY <2>2, <2>4 DEF SaidGoodbye, Introduced
    <2>6. Phase(c) = "away" /\ Phase(c)' = "away"
      BY <2>2, <2>4, <2>5 DEF Phase
    <2>7. \A x \in Conns : ToldOf(x)' = ToldOf(x)
      BY <2>2 DEF ToldOf
    <2> QED
      BY <2>2, <2>4, <2>6, <2>7, SilentStep
  <1>3. CASE Close(c)
    <2> DEFINE t == [Idle(th[c], 0) EXCEPT !.pc = "closed"]
    <2>1. /\ th[c].pc = "recv" /\ th' = [th EXCEPT ![c] = t]
          /\ sent' = sent /\ out' = out
      BY <1>3 DEF Close, At
    <2>2. t.pc = "closed"
      BY <1>1, IdleType DEF Thread
    <2> HIDE DEF t
    <2>3. Frame(c) /\ th'[c].pc = "closed"
      BY <2>1, <2>2, KnownTypes DEF Frame
    <2>4. Phase(c) \in {"gone", "away", "in"}
      BY <2>1, PhaseOf
    <2>5. Phase(c)' = "gone"
      BY <2>3 DEF Phase
    <2>6. \A x \in Conns : ToldOf(x)' = ToldOf(x)
      BY <2>1 DEF ToldOf
    <2> QED
      BY <2>1, <2>3, <2>4, <2>5, <2>6, SilentStep
  <1>4. CASE ReadsNull(c) \/ FollowsFreedPointer(c)
    <2>1. UNCHANGED <<th, sent, out>>
      BY <1>4 DEF ReadsNull, FollowsFreedPointer
    <2> QED
      BY <2>1, NothingSaid DEF Stays
  <1> QED
    BY <1>2, <1>3, <1>4

\* What a user writes changes no phase before it is received.
LEMMA UserStays ==
    ASSUME IndInv, NEW c \in Conns, UserStep(c)
    PROVE  out' = out /\ \A d \in Conns : Stays(d)
  <1>1. /\ sent \in [Conns -> Seq(Packet)]
        /\ \A d \in Conns : /\ th[d].got \in Nat /\ sent[d] \in Seq(Packet)
                            /\ th[d].got <= Len(sent[d])
    BY KnownTypes DEF NetTypeOK, Thread, NewsInv
  <1>2. th' = th /\ out' = out
    BY DEF UserStep, SendIntro, Quit, Crash, SendChat
  <1>3. sent' = sent \/ \E p : sent' = [sent EXCEPT ![c] = Append(@, p)]
    BY DEF UserStep, SendIntro, Quit, Crash, SendChat, Write
  <1>4. ASSUME NEW d \in Conns
        PROVE  Stays(d)
    <2>1. CASE sent' = sent
      BY <1>2, <2>1 DEF Stays
    <2>2. ASSUME NEW p, sent' = [sent EXCEPT ![c] = Append(@, p)]
          PROVE  Stays(d)
      <3>1. sent'[d] = IF d = c THEN Append(sent[d], p) ELSE sent[d]
        BY <1>1, <2>2
      <3>2. \A k \in 1 .. th[d].got : sent'[d][k] = sent[d][k]
        BY <1>1, <3>1
      <3> QED
        BY <1>2, <3>2 DEF Stays
    <2> QED
      BY <1>3, <2>1, <2>2
  <1> QED
    BY <1>2, <1>4

----------------------------------------------------------------------------
\* Nobody has come and nothing has been said.
LEMMA InitDirectory == Init => D!Init
  <1> SUFFICES ASSUME Init PROVE D!Init
    OBVIOUS
  <1>1. \A c \in Conns : th[c].pc = "new" /\ th[c].got = 0 /\ out[c] = <<>>
    BY DEF Init, NetInit, NewThread
  <1>2. ASSUME NEW c \in Conns
        PROVE  Phase(c) = "away" /\ ToldOf(c) = {}
    <2>1. ~Introduced(c) /\ th[c].pc = "new"
      BY <1>1 DEF Introduced
    <2>2. Phase(c) = "away"
      BY <2>1 DEF Phase
    <2>3. DOMAIN out[c] = {}
      BY <1>1
    <2>4. ToldOf(c) = {}
      BY <2>3 DEF ToldOf
    <2> QED
      BY <2>2, <2>4
  <1> QED
    BY <1>2 DEF D!Init

\* Every step is one of the directory, or none.
LEMMA NextDirectory ==
    IndInv /\ HandlerInv /\ [Next]_registryVars => [D!Next]_(D!vars)
  <1> SUFFICES ASSUME IndInv, HandlerInv, [Next]_registryVars
               PROVE  Refines
    BY DEF Refines
  <1>1. CASE UNCHANGED registryVars
    BY <1>1, NothingSaid DEF registryVars, netVars, Stays
  <1>2. CASE Stops
    BY <1>1, <1>2 DEF Stops
  <1>3. ASSUME NEW c \in Conns, ServerStep(c)
        PROVE  Refines
    BY <1>3, EntersStep, IntroduceStep, ListStep, LeftStep, PeerChatStep,
       OtherStep DEF ServerStep, RegistryHandler
  <1>4. ASSUME NEW c \in Conns, UserStep(c)
        PROVE  Refines
    BY <1>4, UserStays, NothingSaid
  <1> QED
    BY <1>1, <1>2, <1>3, <1>4 DEF Next

\* The threads and users together behave like the directory: a user is spoken
\* of as having come only while it enters, as having gone only once it is off
\* the list, and gets its list exactly when it has entered.
THEOREM DirectoryImplemented == Spec => ImplementsDirectory
  BY InitInv, NextInv, InitHandler, NextHandler, InitDirectory, NextDirectory,
     PTL DEF Spec, ImplementsDirectory, D!Spec

----------------------------------------------------------------------------
(* What is said of those who have left. *)

\* LeftIsTruthful, from what a thread has received: whoever is said to have
\* left has said so itself, and its thread has nothing else to write.
LeftInv ==
    \A d, x \in Conns : \A j \in DOMAIN out[x] :
      (out[x][j].by = d /\ out[x][j].pkt.type = "USER_LEFT") =>
         /\ SaidGoodbye(d)
         /\ \A k \in j .. Len(out[x]) :
              out[x][k].by = d => out[x][k].pkt = Left(d)

LEMMA LeftIsLeft ==
    ASSUME NetTypeOK, LeftInv
    PROVE  LeftIsTruthful
  <1> SUFFICES ASSUME NEW x \in Conns, NEW j \in DOMAIN out[x],
                      out[x][j].pkt.type = "USER_LEFT"
               PROVE  /\ ~Registered(out[x][j].by)
                      /\ \A k \in j .. Len(out[x]) :
                           out[x][k].by = out[x][j].by
                             => out[x][k].pkt = out[x][j].pkt
    BY DEF LeftIsTruthful
  <1>1. out[x] \in Seq(Chunk) /\ out[x][j] \in Chunk
    BY DEF NetTypeOK
  <1>2. PICK d \in Conns : d = out[x][j].by
    BY <1>1 DEF Chunk
  <1>3. /\ SaidGoodbye(d)
        /\ \A k \in j .. Len(out[x]) :
             out[x][k].by = d => out[x][k].pkt = Left(d)
    BY <1>2 DEF LeftInv
  <1>4. j \in j .. Len(out[x])
    BY <1>1
  <1>5. ~Registered(d)
    BY <1>3 DEF SaidGoodbye, Registered
  <1> QED
    BY <1>2, <1>3, <1>4, <1>5

\* The goodbyes that have been received stay the last words of their users.
GoodbyesStay ==
    \A d \in Conns : SaidGoodbye(d) => SaidGoodbye(d)' /\ Left(d)' = Left(d)

\* A chunk of c keeps LeftInv if c has said goodbye exactly when it is news of
\* that.
LEMMA LeftKept ==
    ASSUME NetTypeOK, LeftInv, GoodbyesStay, NEW c \in Conns, NEW f, NEW part,
           NEW p, Emits(c, f, part, p),
           IF SaidGoodbye(c) THEN p = Left(c) ELSE p.type # "USER_LEFT"
    PROVE  LeftInv'
  <1> SUFFICES ASSUME NEW d \in Conns, NEW x \in Conns,
                      NEW j \in DOMAIN out'[x],
                      out'[x][j].by = d, out'[x][j].pkt.type = "USER_LEFT"
               PROVE  /\ SaidGoodbye(d)'
                      /\ \A k \in j .. Len(out'[x]) :
                           out'[x][k].by = d => out'[x][k].pkt = Left(d)'
    BY DEF LeftInv
  <1> DEFINE n == Len(out[x])
  <1>1. out \in [Conns -> Seq(Chunk)] /\ out[x] \in Seq(Chunk) /\ n \in Nat
    BY DEF NetTypeOK
  <1>2. SaidGoodbye(d) => SaidGoodbye(d)' /\ Left(d)' = Left(d)
    BY DEF GoodbyesStay
  <1>3. CASE out'[x] = out[x]
    BY <1>2, <1>3 DEF LeftInv
  <1>4. CASE out'[x] # out[x]
    <2>1. out'[x] = Append(out[x], [part |-> part, by |-> c, pkt |-> p])
      BY <1>1, <1>4 DEF Emits
    <2>2. /\ j \in 1 .. n + 1 /\ Len(out'[x]) = n + 1
          /\ \A k \in 1 .. n : out'[x][k] = out[x][k]
          /\ out'[x][n + 1].by = c /\ out'[x][n + 1].pkt = p
      BY <1>1, <2>1
    <2>3. CASE j \in 1 .. n
      <3>1. /\ SaidGoodbye(d)
            /\ \A k \in j .. n : out[x][k].by = d => out[x][k].pkt = Left(d)
        BY <1>1, <2>2, <2>3 DEF LeftInv
      <3>2. c = d => p = Left(d)
        BY <3>1
      <3> SUFFICES ASSUME NEW k \in j .. n + 1, out'[x][k].by = d
                   PROVE  out'[x][k].pkt = Left(d)
        BY <1>2, <2>2, <3>1
      <3>3. CASE k \in 1 .. n
        <4>1. k \in j .. n /\ out'[x][k] = out[x][k]
          BY <1>1, <2>2, <2>3, <3>3
        <4> QED
          BY <3>1, <4>1
      <3>4. CASE k = n + 1
        BY <2>2, <3>2, <3>4
      <3> QED
        BY <1>1, <2>3, <3>3, <3>4
    <2>4. CASE j = n + 1
      <3>1. d = c /\ SaidGoodbye(c) /\ p = Left(c)
        BY <2>2, <2>4
      <3>2. ASSUME NEW k \in j .. Len(out'[x])
            PROVE  k = n + 1
        BY <1>1, <2>2, <2>4
      <3> QED
        BY <1>2, <2>2, <3>1, <3>2
    <2> QED
      BY <1>1, <2>2, <2>3, <2>4
  <1> QED
    BY <1>3, <1>4

\* Silence keeps it too.
LEMMA LeftKeptInSilence ==
    ASSUME LeftInv, GoodbyesStay, out' = out
    PROVE  LeftInv'
  <1> SUFFICES ASSUME NEW d \in Conns, NEW x \in Conns,
                      NEW j \in DOMAIN out[x],
                      out[x][j].by = d, out[x][j].pkt.type = "USER_LEFT"
               PROVE  /\ SaidGoodbye(d)'
                      /\ \A k \in j .. Len(out[x]) :
                           out[x][k].by = d => out[x][k].pkt = Left(d)'
    BY DEF LeftInv
  <1> QED
    BY DEF LeftInv, GoodbyesStay

\* A step of the thread of c leaves the goodbyes alone if it leaves that of c.
LEMMA FrameGoodbyes ==
    ASSUME IndInv, HandlerInv, NEW c \in Conns, Frame(c), sent' = sent,
           SaidGoodbye(c) => th'[c].got = th[c].got /\ th'[c].fd = th[c].fd
    PROVE  GoodbyesStay
  <1>1. ASSUME NEW d \in Conns \ {c}, SaidGoodbye(d)
        PROVE  SaidGoodbye(d)' /\ Left(d)' = Left(d)
    BY <1>1, FrameStays
  <1>2. ASSUME SaidGoodbye(c)
        PROVE  SaidGoodbye(c)' /\ Left(c)' = Left(c)
    BY <1>2 DEF SaidGoodbye, Left
  <1> QED
    BY <1>1, <1>2 DEF GoodbyesStay

\* Threads work on their own locals.
LEMMA ServerFrame ==
    ASSUME IndInv, NEW c \in Conns, ServerStep(c)
    PROVE  Frame(c) /\ sent' = sent
  <1>1. sent' = sent
    BY DEF ServerStep, RegistryHandler, Accept, Close, ReadsNull, NewClient,
       IntroduceHeader, IntroducePayload, Register, ListHeader, ListPayload,
       FollowsFreedPointer, LeftClient, LeftHeader, LeftPayload, LeftDone,
       PeerChat, PeerChatPayload
  <1>2. CASE Register(c)
    BY <1>1, <1>2, RegisterFrame
  <1>3. CASE ~Register(c)
    <2>1. th' = th \/ \E t : th' = [th EXCEPT ![c] = t]
      BY <1>3 DEF ServerStep, RegistryHandler, Accept, Close, ReadsNull,
         NewClient, ReceiveAndReturn, Return, IntroduceHeader,
         IntroducePayload, ListHeader, ListPayload, FollowsFreedPointer,
         LeftClient, LeftHeader, LeftPayload, LeftDone, PeerChat,
         PeerChatPayload
    <2> QED
      BY <1>1, <2>1, KnownTypes DEF Frame
  <1> QED
    BY <1>2, <1>3

\* While a user has not said goodbye its thread writes other things, ...
LEMMA OthersSpeak ==
    ASSUME IndInv, HandlerInv, LeftInv, NEW c \in Conns, ServerStep(c),
           ~SaidGoodbye(c)
    PROVE  LeftInv'
  <1>1. GoodbyesStay /\ NetTypeOK
    BY ServerFrame, FrameGoodbyes, KnownTypes
  <1>2. th[c] \in Thread /\ InHandler(c)
    BY KnownTypes DEF HandlerInv
  <1>3. ASSUME NEW f, NEW part, NEW p, Send(c, f, part, p),
               p.type # "USER_LEFT"
        PROVE  LeftInv'
    BY <1>1, <1>3, SendEffect, LeftKept
  <1>4. CASE IntroduceHeader(c) \/ IntroducePayload(c)
    <2>1. th[c].pkt.type # "USER_LEFT"
      BY <1>2, <1>4 DEF IntroduceHeader, IntroducePayload, At, InHandler
    <2> QED
      BY <1>3, <1>4, <2>1
         DEF IntroduceHeader, IntroducePayload, SendHeader, SendPayload
  <1>5. CASE ListHeader(c)
    <2> DEFINE p == [Blank EXCEPT !.type = "CLIENT_LIST",
                       !.list = SubSeq(clientList.clients, 1, clientList.size)]
    <2>1. Send(c, th[c].fd, "header", p)
      BY <1>5 DEF ListHeader, SendHeader
    <2>2. p.type # "USER_LEFT"
      BY DEF Blank
    <2> HIDE DEF p
    <2> QED
      BY <1>3, <2>1, <2>2
  <1>6. CASE ListPayload(c)
    <2>1. PICK entries :
            Send(c, th[c].fd, "payload", [th[c].pkt EXCEPT !.list = entries])
      BY <1>6 DEF ListPayload, SendPayload
    <2> DEFINE p == [th[c].pkt EXCEPT !.list = entries]
    <2>2. p.type # "USER_LEFT"
      BY <1>2, <1>6 DEF ListPayload, At, InHandler, Thread, Packet
    <2>3. Send(c, th[c].fd, "payload", p)
      BY <2>1
    <2> HIDE DEF p
    <2> QED
      BY <1>3, <2>2, <2>3
  <1>7. CASE PeerChat(c)
    BY <1>3, <1>7 DEF PeerChat, Receives, SendHeader
  <1>8. CASE PeerChatPayload(c)
    <2>1. th[c].pkt.type # "USER_LEFT"
      BY <1>2, <1>8 DEF PeerChatPayload, At, InHandler
    <2> QED
      BY <1>3, <1>8, <2>1 DEF PeerChatPayload, SendPayload
  <1>9. CASE LeftHeader(c) \/ LeftPayload(c)
    BY <1>2, <1>9 DEF LeftHeader, LeftPayload, At, InHandler
  <1>10. CASE out' = out
    BY <1>1, <1>10, LeftKeptInSilence
  <1> QED
    BY <1>4, <1>5, <1>6, <1>7, <1>8, <1>9, <1>10
       DEF ServerStep, RegistryHandler, Accept, Close, ReadsNull, NewClient,
           Register, FollowsFreedPointer, LeftClient, LeftDone

\* ... and afterwards nothing but the news of that.
LEMMA LastWords ==
    ASSUME IndInv, HandlerInv, LeftInv, NEW c \in Conns, ServerStep(c),
           SaidGoodbye(c)
    PROVE  LeftInv'
  <1>1. /\ th[c] \in Thread /\ NetTypeOK /\ InHandler(c) /\ Frame(c)
        /\ sent' = sent
    BY KnownTypes, ServerFrame DEF HandlerInv
  <1>2. /\ th[c].got = Len(sent[c])
        /\ th[c].pc \notin {"new", "introduce", "introducePayload", "list",
                           "listPayload", "chatPayload"}
    BY GoodbyeIsLast
  <1>3. /\ ~Accept(c) /\ ~NewClient(c) /\ ~Register(c) /\ ~LeftClient(c)
        /\ ~IntroduceHeader(c) /\ ~IntroducePayload(c) /\ ~ListHeader(c)
        /\ ~ListPayload(c) /\ ~PeerChat(c) /\ ~PeerChatPayload(c)
    <2>1. ~(th[c].got < Len(sent[c]))
      BY <1>1, <1>2 DEF Thread
    <2> QED
      BY <1>2, <2>1 DEF Accept, NewClient, Register, LeftClient,
         IntroduceHeader, IntroducePayload, ListHeader, ListPayload, PeerChat,
         PeerChatPayload, Receives, At
  <1>4. CASE LeftHeader(c) \/ LeftPayload(c)
    <2>1. th[c].pkt = Left(c)
      BY <1>1, <1>4 DEF LeftHeader, LeftPayload, At, InHandler
    <2>2. \E f, part : Send(c, f, part, Left(c))
      BY <1>4, <2>1 DEF LeftHeader, LeftPayload, SendHeader, SendPayload
    <2>3. th'[c].got = th[c].got /\ th'[c].fd = th[c].fd
      <3>1. \/ th' = [th EXCEPT ![c] = [th[c] EXCEPT !.pc = "leftPayload"]]
            \/ th' = [th EXCEPT ![c] = [th[c] EXCEPT !.pc = "left",
                                                     !.i = th[c].i + 1]]
        BY <1>4 DEF LeftHeader, LeftPayload
      <3>2. CASE th' = [th EXCEPT ![c] = [th[c] EXCEPT !.pc = "leftPayload"]]
        BY <3>2, GoesOnFrame
      <3>3. CASE th' = [th EXCEPT ![c] = [th[c] EXCEPT !.pc = "left",
                                                      !.i = th[c].i + 1]]
        BY <3>3, GoesOnFrame
      <3> QED
        BY <3>1, <3>2, <3>3
    <2>4. GoodbyesStay
      BY <1>1, <2>3, FrameGoodbyes
    <2> QED
      BY <1>1, <2>2, <2>4, SendEffect, LeftKept
  <1>5. CASE LeftDone(c)
    <2>1. th'[c].got = th[c].got /\ th'[c].fd = th[c].fd /\ out' = out
      BY <1>5, ReturnFrame DEF LeftDone
    <2> QED
      BY <1>1, <2>1, FrameGoodbyes, LeftKeptInSilence
  <1>6. CASE Close(c)
    <2> DEFINE t == [Idle(th[c], 0) EXCEPT !.pc = "closed"]
    <2>1. th' = [th EXCEPT ![c] = t] /\ out' = out
      BY <1>6 DEF Close
    <2>2. t.got = th[c].got + 0 /\ t.fd = th[c].fd
      BY <1>1, IdleType DEF Thread
    <2> HIDE DEF t
    <2>3. th'[c].got = th[c].got /\ th'[c].fd = th[c].fd
      BY <1>1, <2>1, <2>2, KnownTypes DEF Thread
    <2> QED
      BY <1>1, <2>1, <2>3, FrameGoodbyes, LeftKeptInSilence
  <1>7. CASE ReadsNull(c) \/ FollowsFreedPointer(c)
    <2>1. th' = th /\ out' = out
      BY <1>7 DEF ReadsNull, FollowsFreedPointer
    <2> QED
      BY <1>1, <2>1, FrameGoodbyes, LeftKeptInSilence
  <1> QED
    BY <1>3, <1>4, <1>5, <1>6, <1>7 DEF ServerStep, RegistryHandler

\* Every step keeps LeftInv.
LEMMA NextLeft ==
    IndInv /\ HandlerInv /\ LeftInv /\ [Next]_registryVars => LeftInv'
  <1> SUFFICES ASSUME IndInv, HandlerInv, LeftInv, [Next]_registryVars
               PROVE  LeftInv'
    OBVIOUS
  <1>1. ASSUME out' = out, \A d \in Conns : Stays(d)
        PROVE  LeftInv'
    <2>1. \A d \in Conns : th[d].got \in Nat
      BY KnownTypes DEF Thread
    <2>2. GoodbyesStay
      BY <1>1, <2>1, StaysPhase DEF GoodbyesStay
    <2> QED
      BY <1>1, <2>2, LeftKeptInSilence
  <1>2. CASE UNCHANGED registryVars
    BY <1>1, <1>2 DEF registryVars, netVars, Stays
  <1>3. CASE Stops
    BY <1>2, <1>3 DEF Stops
  <1>4. ASSUME NEW c \in Conns, ServerStep(c)
        PROVE  LeftInv'
    BY <1>4, OthersSpeak, LastWords
  <1>5. ASSUME NEW c \in Conns, UserStep(c)
        PROVE  LeftInv'
    BY <1>1, <1>5, UserStays
  <1> QED
    BY <1>2, <1>3, <1>4, <1>5 DEF Next

\* Whoever the server says has left is off the list for good, and nothing of
\* it comes after that news in anybody's stream.
THEOREM LeftAreTruthful == Spec => []LeftIsTruthful
  <1>1. Init => LeftInv
    BY DEF Init, NetInit, LeftInv
  <1>2. IndInv /\ LeftInv => LeftIsTruthful
    BY LeftIsLeft DEF IndInv, TypeOK
  <1> QED
    BY <1>1, <1>2, InitInv, NextInv, InitHandler, NextHandler, NextLeft, PTL
       DEF Spec

----------------------------------------------------------------------------
(* The list of users names its reader. *)

\* The entry of c on the list is where sendClientListToClient will meet it,
\* through a copy of the list that is good.
OnList(c) ==
    th[c].pc \in {"list", "listPayload"} =>
      \E s \in 1 .. clientList.size :
        /\ clientList.clients[s].FD = th[c].fd
        /\ th[c].pc = "listPayload" => s <= th[c].n

\* No payload with a list was sent to a client without its own descriptor.
SawItself(x) ==
    \A j \in DOMAIN out[x] :
      (out[x][j].part = "payload" /\ out[x][j].pkt.type = "CLIENT_LIST") =>
        /\ th[x].pc # "new"
        /\ \E i \in DOMAIN out[x][j].pkt.list :
             out[x][j].pkt.list[i].FD = th[x].fd

ReaderInv ==
    \A c \in Conns : ~th[c].stale /\ OnList(c) /\ SawItself(c)

----------------------------------------------------------------------------
(* The two helpers that change the list. *)

\* An addition leaves the entries alone and adds one.
LEMMA AdditionKeeps ==
    ASSUME NEW list \in ClientList(Names, AnyFd), NEW client,
           list.size <= Len(list.clients), NEW new,
           new = addClientInClientList(list, client)
    PROVE  /\ new.size = list.size + 1
           /\ \A s \in 1 .. list.size : new.clients[s] = list.clients[s]
           /\ new.clients[new.size] = client
  <1>1. /\ list.clients \in Seq(Entries) /\ list.size \in Nat
        /\ Len(list.clients) \in Nat
        /\ DOMAIN list.clients = 1 .. Len(list.clients)
    BY LenProperties DEF ClientList, Entries
  <1>2. CASE list.size = Len(list.clients)
    <2>1. new.clients = Append(list.clients, client) /\ new.size = list.size + 1
      BY <1>2 DEF addClientInClientList
    <2> HIDE DEF Entries
    <2> QED
      BY <1>1, <1>2, <2>1
  <1>3. CASE list.size # Len(list.clients)
    <2>1. /\ new.clients = [list.clients EXCEPT ![list.size + 1] = client]
          /\ new.size = list.size + 1
      BY <1>3 DEF addClientInClientList
    <2>2. list.size + 1 \in DOMAIN list.clients
      BY <1>1, <1>3
    <2> QED
      BY <1>1, <2>1, <2>2
  <1> QED
    BY <1>2, <1>3

\* removeClientFromClientList finds the first slot of a descriptor.
LEMMA FirstSlotExists ==
    ASSUME NEW list, NEW fd, list.size \in Nat, SlotsOf(list, fd) # {}
    PROVE  FirstSlot(list, fd) \in SlotsOf(list, fd)
  <1> DEFINE Slots == SlotsOf(list, fd)
             Less == {pair \in Nat \X Nat : pair[1] < pair[2]}
  <1>1. Slots \subseteq Nat /\ Slots # {}
    BY DEF SlotsOf, Live
  <1>2. IsWellFoundedOn(Less, Nat)
    BY NatLessThanWellFounded DEF OpToRel
  <1>3. PICK i \in Slots : \A j \in Slots : <<j, i>> \notin Less
    <2> HIDE DEF Slots, Less
    <2> QED
      BY <1>1, <1>2, WFMin
  <1>4. ASSUME NEW j \in Slots
        PROVE  i <= j
    <2>1. i \in Nat /\ j \in Nat /\ <<j, i>> \notin Less
      BY <1>1, <1>3
    <2> HIDE DEF Slots
    <2> QED
      BY <2>1
  <1> QED
    BY <1>3, <1>4 DEF FirstSlot

\* A removal may move an entry, but only to the front of where it was.
LEMMA RemovalKeeps ==
    ASSUME NEW list \in ClientList(Names, AnyFd),
           list.size <= Len(list.clients), NEW fd, NEW new,
           new = removeClientFromClientList(list, fd),
           NEW s \in 1 .. list.size, list.clients[s].FD # fd
    PROVE  \E r \in 1 .. new.size : r <= s /\ new.clients[r].FD = list.clients[s].FD
  <1>1. /\ list.clients \in Seq(Entries) /\ list.size \in Nat
        /\ Len(list.clients) \in Nat
        /\ DOMAIN list.clients = 1 .. Len(list.clients)
    BY LenProperties DEF ClientList, Entries
  <1>2. CASE SlotsOf(list, fd) = {}
    BY <1>1, <1>2 DEF removeClientFromClientList
  <1>3. CASE SlotsOf(list, fd) # {}
    <2> DEFINE first == FirstSlot(list, fd)
               last == [list.clients[list.size] EXCEPT !.name = Freed]
    <2>1. first \in SlotsOf(list, fd)
      BY <1>1, <1>3, FirstSlotExists
    <2>2. /\ first \in 1 .. list.size /\ list.clients[first].FD = fd
      BY <2>1 DEF SlotsOf, Live
    <2>3. /\ new.clients = [list.clients EXCEPT ![first] = last,
                                                ![list.size] = last]
          /\ new.size = list.size - 1
      BY <1>3 DEF removeClientFromClientList
    <2>4. last.FD = list.clients[list.size].FD
      <3>1. list.clients[list.size] \in Entries
        BY <1>1, ElementOfSeq
      <3> QED
        BY <3>1 DEF Entries, Client
    <2> HIDE DEF first, last
    <2>5. CASE s = list.size
      <3>1. first < s /\ first \in 1 .. new.size
        BY <1>1, <2>2, <2>3, <2>5
      <3>2. new.clients[first] = last
        BY <1>1, <2>2, <2>3
      <3> QED
        BY <1>1, <2>2, <2>4, <2>5, <3>1, <3>2
    <2>6. CASE s # list.size
      <3>1. s # first /\ s \in 1 .. new.size
        BY <1>1, <2>2, <2>3, <2>6
      <3>2. new.clients[s] = list.clients[s]
        BY <1>1, <2>2, <2>3, <2>6, <3>1
      <3> QED
        BY <1>1, <3>1, <3>2
    <2> QED
      BY <2>5, <2>6
  <1> QED
    BY <1>2, <1>3

----------------------------------------------------------------------------
(* What a step does to its own thread. *)

\* The thread keeps its descriptor from accept() on, reads from no moved array
\* and is about to send the list only if this step has written its header.
Keeps(c, t) ==
    /\ th[c].pc # "new" => t.pc # "new" /\ t.fd = th[c].fd
    /\ ~th[c].stale => ~t.stale
    /\ t.pc \in {"list", "listPayload"} => ListHeader(c) \/ t = th[c]

LEMMA IdleKeeps ==
    ASSUME NEW c \in Conns, th[c] \in Thread, NEW k \in Nat
    PROVE  /\ Keeps(c, Idle(th[c], k))
           /\ Keeps(c, [Idle(th[c], k) EXCEPT !.pc = "closed"])
  <1>1. Idle(th[c], k) \in Thread /\ Idle(th[c], k).pc = "recv"
        /\ Idle(th[c], k).fd = th[c].fd
    BY IdleType
  <1>2. ~Idle(th[c], k).stale
    BY BlankType DEF Idle, NewThread, Thread
  <1> DEFINE t == [Idle(th[c], k) EXCEPT !.pc = "closed"]
  <1>3. t.pc = "closed" /\ t.fd = th[c].fd /\ ~t.stale
    BY <1>1, <1>2 DEF Thread
  <1> HIDE DEF t
  <1> QED
    BY <1>1, <1>2, <1>3 DEF Keeps, t

\* The steps that only replace locals of the thread of c.
LEMMA OwnLocals ==
    ASSUME IndInv, NEW c \in Conns, ServerStep(c), ~Register(c)
    PROVE  \E t : th' = [th EXCEPT ![c] = t] /\ Keeps(c, t)
  <1>1. th[c] \in Thread /\ th \in [Conns -> Thread]
    BY KnownTypes
  <1>2. Keeps(c, Idle(th[c], 0)) /\ Keeps(c, Idle(th[c], 1))
        /\ Keeps(c, [Idle(th[c], 0) EXCEPT !.pc = "closed"])
    BY <1>1, IdleKeeps
  <1>3. CASE ListPayload(c) \/ LeftDone(c) \/ PeerChatPayload(c)
    BY <1>2, <1>3 DEF ListPayload, LeftDone, PeerChatPayload, Return
  <1>4. CASE Close(c)
    BY <1>2, <1>4 DEF Close
  <1>5. CASE ReadsNull(c) \/ FollowsFreedPointer(c)
    <2>1. th' = [th EXCEPT ![c] = th[c]]
      BY <1>1, <1>5 DEF ReadsNull, FollowsFreedPointer
    <2>2. Keeps(c, th[c])
      BY DEF Keeps
    <2> QED
      BY <2>1, <2>2
  <1>6. CASE NewClient(c)
    <2>1. CASE ~Incoming(c).whole
      BY <1>2, <1>6, <2>1 DEF NewClient, ReceiveAndReturn
    <2>2. CASE Incoming(c).whole
      <3> DEFINE t == [th[c] EXCEPT !.pc = "introduce", !.got = @ + 1,
                                    !.pkt = Joined(c), !.i = 1,
                                    !.n = clientList.size]
      <3>1. th' = [th EXCEPT ![c] = t]
        BY <1>6, <2>2 DEF NewClient
      <3>2. Keeps(c, t)
        BY <1>1 DEF Keeps, Thread
      <3> HIDE DEF t
      <3> QED
        BY <3>1, <3>2
    <2> QED
      BY <2>1, <2>2
  <1>7. CASE IntroduceHeader(c) \/ LeftHeader(c)
    <2>1. PICK pc \in {"introducePayload", "leftPayload"} :
            th' = [th EXCEPT ![c] = [th[c] EXCEPT !.pc = pc]]
      BY <1>7 DEF IntroduceHeader, LeftHeader
    <2> DEFINE t == [th[c] EXCEPT !.pc = pc]
    <2>2. Keeps(c, t)
      BY <1>1 DEF Keeps, Thread
    <2> HIDE DEF t
    <2> QED
      BY <2>1, <2>2 DEF t
  <1>8. CASE IntroducePayload(c) \/ LeftPayload(c)
    <2>1. PICK pc \in {"introduce", "left"} :
            th' = [th EXCEPT ![c] = [th[c] EXCEPT !.pc = pc, !.i = @ + 1]]
      BY <1>8 DEF IntroducePayload, LeftPayload
    <2> DEFINE t == [th[c] EXCEPT !.pc = pc, !.i = @ + 1]
    <2>2. Keeps(c, t)
      BY <1>1 DEF Keeps, Thread
    <2>3. th' = [th EXCEPT ![c] = t]
      BY <2>1
    <2> HIDE DEF t
    <2> QED
      BY <2>2, <2>3
  <1>9. CASE ListHeader(c)
    <2>1. PICK p : th' = [th EXCEPT ![c] = [th[c] EXCEPT !.pc = "listPayload",
                                              !.pkt = p, !.n = clientList.size]]
      BY <1>9 DEF ListHeader
    <2> DEFINE t == [th[c] EXCEPT !.pc = "listPayload", !.pkt = p,
                                  !.n = clientList.size]
    <2>2. Keeps(c, t)
      BY <1>1, <1>9 DEF Keeps, Thread
    <2>3. th' = [th EXCEPT ![c] = t]
      BY <2>1
    <2> HIDE DEF t
    <2> QED
      BY <2>2, <2>3
  <1>10. CASE LeftClient(c)
    <2> DEFINE t == [th[c] EXCEPT !.pc = "left", !.got = @ + 1, !.i = 1,
                                  !.pkt = Left(c)]
    <2>1. Keeps(c, t)
      BY <1>1 DEF Keeps, Thread
    <2>2. th' = [th EXCEPT ![c] = t]
      BY <1>10 DEF LeftClient
    <2> HIDE DEF t
    <2> QED
      BY <2>1, <2>2
  <1>11. CASE PeerChat(c)
    <2> DEFINE t == [th[c] EXCEPT !.pc = "chatPayload", !.got = @ + 1,
                                  !.pkt = Incoming(c)]
    <2>1. Keeps(c, t)
      BY <1>1 DEF Keeps, Thread
    <2>2. th' = [th EXCEPT ![c] = t]
      BY <1>11 DEF PeerChat
    <2> HIDE DEF t
    <2> QED
      BY <2>1, <2>2
  <1>12. CASE Accept(c)
    <2>1. PICK f \in Fds :
            th' = [th EXCEPT ![c] = [th[c] EXCEPT !.pc = "recv", !.fd = f]]
      BY <1>12 DEF Accept
    <2> DEFINE t == [th[c] EXCEPT !.pc = "recv", !.fd = f]
    <2>2. Keeps(c, t)
      BY <1>1, <1>12 DEF Keeps, Thread, Accept
    <2>3. th' = [th EXCEPT ![c] = t]
      BY <2>1
    <2> HIDE DEF t
    <2> QED
      BY <2>2, <2>3
  <1> QED
    BY <1>3, <1>4, <1>5, <1>6, <1>7, <1>8, <1>9, <1>10, <1>11, <1>12
       DEF ServerStep, RegistryHandler

\* The addition, while no array moves.
LEMMA RegisterLocals ==
    ASSUME ~ReallocMoves, IndInv, NEW c \in Conns, Register(c)
    PROVE  /\ ~th'[c].stale
           /\ \A d \in Conns \ {c} : th'[d].stale => th[d].stale
  <1>1. PICK moves \in {FALSE, ReallocMoves /\ Grows(clientList)} :
          th' = [d \in Conns |->
                  IF d = c
                    THEN [th[c] EXCEPT !.pc = "list", !.stale = FALSE]
                    ELSE [th[d] EXCEPT !.stale =
                            th[d].stale \/ (moves /\ HoldsCopy(d))]]
    BY DEF Register
  <1>2. moves = FALSE
    BY <1>1
  <1>3. \A d \in Conns : th[d] \in Thread
    BY KnownTypes
  <1>4. ~th'[c].stale
    <2>1. th'[c] = [th[c] EXCEPT !.pc = "list", !.stale = FALSE]
      BY <1>1
    <2> QED
      BY <1>3, <2>1 DEF Thread
  <1>5. ASSUME NEW d \in Conns \ {c}
        PROVE  th'[d].stale => th[d].stale
    <2> DEFINE s == th[d].stale \/ (moves /\ HoldsCopy(d))
    <2>1. th'[d] = [th[d] EXCEPT !.stale = s]
      BY <1>1
    <2>2. s => th[d].stale
      BY <1>2
    <2> HIDE DEF s
    <2>3. th'[d].stale = s
      BY <1>3, <2>1 DEF Thread
    <2> QED
      BY <2>2, <2>3
  <1> QED
    BY <1>4, <1>5

----------------------------------------------------------------------------
(* The invariant. *)

\* Every thread that has a descriptor keeps it.
DescriptorsKept ==
    \A d \in Conns :
      th[d].pc # "new" => th'[d].pc # "new" /\ th'[d].fd = th[d].fd

LEMMA ServerKeeps ==
    ASSUME IndInv, NEW c \in Conns, ServerStep(c)
    PROVE  DescriptorsKept
  <1>1. CASE Register(c)
    <2>1. /\ th[c].pc = "introduce" /\ th'[c].pc = "list"
          /\ th'[c].fd = th[c].fd /\ Frame(c)
      BY <1>1, RegisterFrame
    <2> QED
      BY <2>1 DEF DescriptorsKept, Frame
  <1>2. CASE ~Register(c)
    <2>1. PICK t : th' = [th EXCEPT ![c] = t] /\ Keeps(c, t)
      BY <1>2, OwnLocals
    <2> QED
      BY <2>1, KnownTypes DEF DescriptorsKept, Keeps
  <1> QED
    BY <1>1, <1>2

\* While c waits for its list its entry stays on the list.
LEMMA ServerOnList ==
    ASSUME ~ReallocMoves, IndInv, ReaderInv, NEW c \in Conns, ServerStep(c)
    PROVE  \A d \in Conns : ~th'[d].stale /\ OnList(d)'
  <1> SUFFICES ASSUME NEW d \in Conns
               PROVE  ~th'[d].stale /\ OnList(d)'
    OBVIOUS
  <1>1. /\ clientList \in ClientList(Names, AnyFd) /\ clientList.size \in Nat
        /\ clientList.size <= Len(clientList.clients)
        /\ th[d] \in Thread /\ th \in [Conns -> Thread]
    BY KnownTypes
  <1>2. OnList(d) /\ ~th[d].stale
    BY DEF ReaderInv
  <1>3. CASE Register(c)
    <2>1. /\ Frame(c) /\ th[c].pc = "introduce" /\ th'[c].pc = "list"
          /\ th'[c].fd = th[c].fd
      BY <1>3, RegisterFrame
    <2>2. ~th'[d].stale
      BY <1>2, <1>3, RegisterLocals
    <2> DEFINE client == [name |-> th[c].pkt.name, FD |-> th[c].fd]
    <2>3. clientList' = addClientInClientList(clientList, client)
      BY <1>3 DEF Register
    <2>4. client.FD = th[c].fd
      OBVIOUS
    <2> HIDE DEF client
    <2>5. /\ clientList'.size = clientList.size + 1
          /\ \A s \in 1 .. clientList.size :
               clientList'.clients[s] = clientList.clients[s]
          /\ clientList'.clients[clientList'.size] = client
      BY <1>1, <2>3, AdditionKeeps
    <2>6. CASE d = c
      <3>1. clientList'.size \in 1 .. clientList'.size
        BY <1>1, <2>5
      <3>2. clientList'.clients[clientList'.size].FD = th'[c].fd
        BY <2>1, <2>4, <2>5
      <3> QED
        BY <2>1, <2>2, <2>6, <3>1, <3>2 DEF OnList
    <2>7. CASE d # c
      <3>1. th'[d].pc = th[d].pc /\ th'[d].fd = th[d].fd /\ th'[d].n = th[d].n
        BY <2>1, <2>7 DEF Frame
      <3>2. \A s \in 1 .. clientList.size :
              /\ s \in 1 .. clientList'.size
              /\ clientList'.clients[s] = clientList.clients[s]
        BY <1>1, <2>5
      <3> QED
        BY <1>2, <2>2, <3>1, <3>2 DEF OnList
    <2> QED
      BY <2>6, <2>7
  <1>4. CASE ~Register(c)
    <2>1. PICK t : th' = [th EXCEPT ![c] = t] /\ Keeps(c, t)
      BY <1>4, OwnLocals
    <2>2. th'[c] = t /\ \A e \in Conns \ {c} : th'[e] = th[e]
      BY <1>1, <2>1
    <2>3. ~th'[d].stale
      BY <1>2, <2>1, <2>2 DEF Keeps
    <2>4. CASE LeftClient(c)
      <3>1. /\ th[c].pc = "recv"
            /\ clientList' = removeClientFromClientList(clientList, th[c].fd)
        BY <2>4 DEF LeftClient, Receives
      <3>2. CASE d = c
        BY <2>1, <2>2, <2>3, <3>1, <3>2 DEF OnList, Keeps, ListHeader, At
      <3>3. CASE d # c /\ th[d].pc \in {"list", "listPayload"}
        <4>1. PICK s \in 1 .. clientList.size :
                /\ clientList.clients[s].FD = th[d].fd
                /\ th[d].pc = "listPayload" => s <= th[d].n
          BY <1>2, <3>3 DEF OnList
        <4>2. th[d].fd # th[c].fd
          <5>1. {th[c].fd, th[d].fd} \subseteq Fds
            BY <3>1, <3>3 DEF IndInv, FdInv
          <5>2. fdTable[th[c].fd] = c /\ fdTable[th[d].fd] = d
            BY <3>1, <3>3, <5>1 DEF IndInv, FdInv, OneThreadPerFd
          <5> QED
            BY <3>3, <5>2
        <4>3. PICK r \in 1 .. clientList'.size :
                /\ r <= s
                /\ clientList'.clients[r].FD = clientList.clients[s].FD
          BY <1>1, <3>1, <4>1, <4>2, RemovalKeeps
        <4>4. th[d].pc = "listPayload" => r <= th[d].n
          <5>1. th[d].n \in Nat
            BY <1>1 DEF Thread
          <5> QED
            BY <1>1, <4>1, <4>3, <5>1
        <4> QED
          BY <2>2, <2>3, <3>3, <4>1, <4>3, <4>4 DEF OnList
      <3>4. CASE d # c /\ th[d].pc \notin {"list", "listPayload"}
        BY <2>2, <2>3, <3>4 DEF OnList
      <3> QED
        BY <3>2, <3>3, <3>4
    <2>5. CASE ~LeftClient(c)
      <3>1. clientList' = clientList
        BY <1>4, <2>5 DEF ServerStep, RegistryHandler, NewClient,
           IntroduceHeader, IntroducePayload, ListHeader, ListPayload,
           FollowsFreedPointer, LeftHeader, LeftPayload, LeftDone, PeerChat,
           PeerChatPayload
      <3>2. CASE d # c \/ t = th[c]
        BY <1>2, <2>2, <2>3, <3>1, <3>2 DEF OnList
      <3>3. CASE d = c /\ ListHeader(c)
        <4>1. PICK p : th' = [th EXCEPT ![c] = [th[c] EXCEPT
                         !.pc = "listPayload", !.pkt = p,
                         !.n = clientList.size]]
          BY <3>3 DEF ListHeader
        <4> DEFINE u == [th[c] EXCEPT !.pc = "listPayload", !.pkt = p,
                                      !.n = clientList.size]
        <4>2. u.pc = "listPayload" /\ u.n = clientList.size /\ u.fd = th[c].fd
          BY <1>1, <3>3 DEF Thread
        <4>3. th'[c] = u /\ th[c].pc = "list"
          BY <1>1, <3>3, <4>1 DEF ListHeader, At
        <4> HIDE DEF u
        <4>4. PICK s \in 1 .. clientList.size :
                clientList.clients[s].FD = th[c].fd
          BY <1>2, <3>3, <4>3 DEF OnList
        <4>5. s <= clientList.size
          BY <1>1, <4>4
        <4> QED
          BY <2>3, <3>1, <3>3, <4>2, <4>3, <4>4, <4>5 DEF OnList
      <3>4. CASE d = c /\ t.pc \notin {"list", "listPayload"}
        BY <2>2, <2>3, <3>4 DEF OnList
      <3> QED
        BY <2>1, <3>2, <3>3, <3>4 DEF Keeps
    <2> QED
      BY <2>4, <2>5
  <1> QED
    BY <1>3, <1>4

\* What a chunk must be for SawItself to stay.
LEMMA SawKept ==
    ASSUME NetTypeOK, \A x \in Conns : SawItself(x), DescriptorsKept,
           NEW c \in Conns, NEW f, NEW part, NEW p, Emits(c, f, part, p),
           part = "payload" /\ p.type = "CLIENT_LIST" =>
             \A x \in Conns : (f \in Fds /\ fdTable[f] = x) =>
               /\ th[x].pc # "new"
               /\ \E i \in DOMAIN p.list : p.list[i].FD = th[x].fd
    PROVE  \A x \in Conns : SawItself(x)'
  <1> SUFFICES ASSUME NEW x \in Conns, NEW j \in DOMAIN out'[x],
                      out'[x][j].part = "payload",
                      out'[x][j].pkt.type = "CLIENT_LIST"
               PROVE  /\ th'[x].pc # "new"
                      /\ \E i \in DOMAIN out'[x][j].pkt.list :
                           out'[x][j].pkt.list[i].FD = th'[x].fd
    BY DEF SawItself
  <1> DEFINE n == Len(out[x])
  <1>1. out \in [Conns -> Seq(Chunk)] /\ out[x] \in Seq(Chunk) /\ n \in Nat
    BY DEF NetTypeOK
  <1>2. CASE out'[x] = out[x]
    BY <1>2 DEF SawItself, DescriptorsKept
  <1>3. CASE out'[x] # out[x]
    <2>1. /\ out'[x] = Append(out[x], [part |-> part, by |-> c, pkt |-> p])
          /\ f \in Fds /\ fdTable[f] = x
      BY <1>1, <1>3 DEF Emits
    <2>2. /\ j \in 1 .. n + 1
          /\ \A k \in 1 .. n : out'[x][k] = out[x][k]
          /\ out'[x][n + 1].part = part /\ out'[x][n + 1].pkt = p
      BY <1>1, <2>1
    <2>3. CASE j \in 1 .. n
      <3>1. j \in DOMAIN out[x] /\ out'[x][j] = out[x][j]
        BY <1>1, <2>2, <2>3
      <3> QED
        BY <3>1 DEF SawItself, DescriptorsKept
    <2>4. CASE j = n + 1
      BY <2>1, <2>2, <2>4 DEF DescriptorsKept
    <2> QED
      BY <1>1, <2>2, <2>3, <2>4
  <1> QED
    BY <1>2, <1>3

LEMMA SawKeptInSilence ==
    ASSUME \A x \in Conns : SawItself(x), DescriptorsKept, out' = out
    PROVE  \A x \in Conns : SawItself(x)'
  BY DEF SawItself, DescriptorsKept

\* The payload of the list goes to the one it was made for.
LEMMA ServerSaw ==
    ASSUME IndInv, HandlerInv, ReaderInv, NEW c \in Conns, ServerStep(c)
    PROVE  \A x \in Conns : SawItself(x)'
  <1>1. /\ th[c] \in Thread /\ NetTypeOK /\ InHandler(c) /\ DescriptorsKept
        /\ \A x \in Conns : SawItself(x)
    BY KnownTypes, ServerKeeps DEF HandlerInv, ReaderInv
  <1>2. ASSUME NEW f, NEW part, NEW p, Send(c, f, part, p),
               part # "payload" \/ p.type # "CLIENT_LIST"
        PROVE  \A x \in Conns : SawItself(x)'
    BY <1>1, <1>2, SendEffect, SawKept
  <1>3. CASE IntroduceHeader(c) \/ ListHeader(c) \/ LeftHeader(c) \/ PeerChat(c)
    <2>1. \E f, p : Send(c, f, "header", p)
      BY <1>3 DEF IntroduceHeader, ListHeader, LeftHeader, PeerChat, SendHeader
    <2> QED
      BY <1>2, <2>1
  <1>4. CASE IntroducePayload(c) \/ LeftPayload(c) \/ PeerChatPayload(c)
    <2>1. th[c].pkt.type # "CLIENT_LIST"
      BY <1>1, <1>4 DEF IntroducePayload, LeftPayload, PeerChatPayload, At,
         InHandler, Left, Blank
    <2>2. \E f : Send(c, f, "payload", th[c].pkt)
      BY <1>4 DEF IntroducePayload, LeftPayload, PeerChatPayload, SendPayload
    <2> QED
      BY <1>2, <2>1, <2>2
  <1>5. CASE ListPayload(c)
    <2>1. th[c].pc = "listPayload" /\ ~th[c].stale /\ OnList(c)
      BY <1>5 DEF ListPayload, At, ReaderInv
    <2> DEFINE entries == SubSeq(clientList.clients, 1, th[c].n)
               p == [th[c].pkt EXCEPT !.list = entries]
    <2>2. Send(c, th[c].fd, "payload", p)
      BY <1>5, <2>1 DEF ListPayload, SendPayload
    <2>3. p.list = entries
      BY <1>1 DEF Thread, Packet
    <2>4. PICK s \in 1 .. clientList.size :
            clientList.clients[s].FD = th[c].fd /\ s <= th[c].n
      BY <2>1 DEF OnList
    <2>5. s \in DOMAIN entries /\ entries[s] = clientList.clients[s]
      <3>1. /\ th[c].n \in Nat /\ th[c].n <= Len(clientList.clients)
            /\ clientList.clients \in Seq(Entries)
            /\ s \in 1 .. th[c].n
        BY <1>1, <2>1, <2>4, KnownTypes DEF SlotInv, HoldsCopy, Thread
      <3> HIDE DEF Entries
      <3> QED
        BY <3>1
    <2> HIDE DEF entries, p
    <2>6. ASSUME NEW x \in Conns, th[c].fd \in Fds, fdTable[th[c].fd] = x
          PROVE  /\ th[x].pc # "new"
                 /\ \E i \in DOMAIN p.list : p.list[i].FD = th[x].fd
      <3>1. x = c
        BY <2>1, <2>6 DEF IndInv, FdInv, OneThreadPerFd
      <3> QED
        BY <2>1, <2>3, <2>4, <2>5, <3>1
    <2> QED
      BY <1>1, <2>2, <2>6, SendEffect, SawKept
  <1>6. CASE out' = out
    BY <1>1, <1>6, SawKeptInSilence
  <1> QED
    BY <1>3, <1>4, <1>5, <1>6
       DEF ServerStep, RegistryHandler, Accept, Close, ReadsNull, NewClient,
           Register, FollowsFreedPointer, LeftClient, LeftDone

\* Every step keeps ReaderInv.
LEMMA NextReader ==
    ASSUME ~ReallocMoves
    PROVE  IndInv /\ HandlerInv /\ ReaderInv /\ [Next]_registryVars => ReaderInv'
  <1> SUFFICES ASSUME IndInv, HandlerInv, ReaderInv, [Next]_registryVars
               PROVE  ReaderInv'
    OBVIOUS
  <1>1. ASSUME UNCHANGED <<th, out, clientList>>
        PROVE  ReaderInv'
    BY <1>1 DEF ReaderInv, OnList, SawItself
  <1>2. CASE UNCHANGED registryVars
    BY <1>1, <1>2 DEF registryVars, netVars
  <1>3. CASE Stops
    BY <1>2, <1>3 DEF Stops
  <1>4. ASSUME NEW c \in Conns, ServerStep(c)
        PROVE  ReaderInv'
    BY <1>4, ServerOnList, ServerSaw DEF ReaderInv
  <1>5. ASSUME NEW c \in Conns, UserStep(c)
        PROVE  ReaderInv'
    BY <1>1, <1>5 DEF UserStep, SendIntro, Quit, Crash, SendChat
  <1> QED
    BY <1>2, <1>3, <1>4, <1>5 DEF Next

LEMMA ReaderNamed == ReaderInv => ListNamesItsReader
  BY DEF ReaderInv, SawItself, ListNamesItsReader, Payloads

\* While no array moves, the list of users that a client is sent has the
\* client itself in it, whoever enters and leaves between the addition and
\* the send, and however slots are reused.
THEOREM ReadersListed ==
    ASSUME ~ReallocMoves
    PROVE  Spec => []ListNamesItsReader
  <1>1. Init => ReaderInv
    BY DEF Init, NetInit, NewThread, ReaderInv, OnList, SawItself
  <1> QED
    BY <1>1, InitInv, NextInv, InitHandler, NextHandler, NextReader,
       ReaderNamed, PTL DEF Spec
=============================================================================
