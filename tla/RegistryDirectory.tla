------------------------- MODULE RegistryDirectory -------------------------
(***************************************************************************)
(* The registry of the server implements the directory of its users.       *)
(***************************************************************************)
EXTENDS Registry

\* The thread of c has received its whole INTRO.
Introduced(c) == th[c].got >= 1 /\ sent[c][1].whole

----------------------------------------------------------------------------
\* A client writes its INTRO first, and USER_LEFT or a torn packet last.
InStream(c) ==
    /\ th[c].pc = "new" => sent[c] = <<>> /\ peer[c] = "none"
    /\ \A k \in DOMAIN sent[c] :
         /\ sent[c][k].type = "INTRO" <=> k = 1
         /\ sent[c][k].type = "USER_LEFT" \/ ~sent[c][k].whole
              => k = Len(sent[c]) /\ peer[c] # "open"

\* The thread of c is in the handler of the packet it received last, and what
\* that handler sends is of its kind.
InHandler(c) ==
    /\ th[c].pc = "new" => th[c].got = 0
    /\ th[c].pc \in {"introduce", "introducePayload", "list", "listPayload"} =>
         th[c].got = 1 /\ sent[c][1].whole
    /\ th[c].pc \in {"introduce", "introducePayload"} =>
         th[c].pkt.type = "USER_JOINED_SERVER"
    /\ th[c].pc = "listPayload" => th[c].pkt.type = "CLIENT_LIST"
    /\ th[c].pc \in {"left", "leftPayload"} =>
         SaidGoodbye(c) /\ th[c].pkt = Left(c)
    /\ th[c].pc = "chatPayload" =>
         /\ th[c].got >= 1 /\ sent[c][th[c].got].type = "CHAT"
         /\ th[c].pkt.type = "CHAT"

\* Every handler runs on the packet it is for: the INTRO is introduced once and
\* first, and nothing follows a USER_LEFT, torn packets and crashes included
\* (main() of client.c, receiveDataFromClient, manageServerProtocol).
HandlerInv == \A c \in Conns : InStream(c) /\ InHandler(c)

----------------------------------------------------------------------------
\* How far c is, from where its thread is and what it has received.
Phase(c) ==
    CASE th[c].pc \in {"introduce", "introducePayload"} -> "entering"
      [] th[c].pc \in {"list", "listPayload"} -> "entered"
      [] th[c].pc \in {"left", "leftPayload"} -> "leaving"
      [] th[c].pc = "closed" \/ (th[c].pc = "recv" /\ SaidGoodbye(c)) -> "gone"
      [] th[c].pc \in {"new", "recv"} /\ ~Introduced(c) -> "away"
      [] OTHER -> "in"

\* What the payloads about users say to x.
What == [USER_JOINED_SERVER |-> "joined", USER_LEFT |-> "left",
         CLIENT_LIST |-> "list"]

Informs(chunk) == chunk.part = "payload" /\ chunk.pkt.type \in DOMAIN What

ToldOf(x) ==
    {[what |-> What[out[x][j].pkt.type], of |-> out[x][j].by] :
       j \in {k \in DOMAIN out[x] : Informs(out[x][k])}}

D == INSTANCE Directory WITH
       Users <- Conns,
       phase <- [c \in Conns |-> Phase(c)],
       told <- [x \in Conns |-> ToldOf(x)]

\* Every behaviour of the threads and users is one of the directory: the loops
\* of introduceNewClient and manageLeftClient, split into their sends and
\* interleaved, speak of a user only while it is in the phase to be spoken of.
ImplementsDirectory == D!Spec
=============================================================================
