----------------------------- MODULE FileRelay -----------------------------
(***************************************************************************)
(* A file on its way: sendFile of one client, recvAll and                  *)
(* manageFileTransfer of its server thread, manageIncomingFile of another. *)
(*                                                                         *)
(* Streams are sequences of bytes here, few of them, since what matters is *)
(* how many bytes a recv() takes.  A byte knows whose packet it is of and  *)
(* which part; no code looks at that but where it has got a whole header.  *)
(***************************************************************************)
EXTENDS Serializer, Integers, FiniteSets

CONSTANTS
    BufferSize,   \* 1024 * 1024
    HeaderLen,    \* sizeof(struct packetHeader)
    FileSizes,    \* sizes of the file
    NameLens,     \* lengths of its name
    ChatLen       \* payload of the chat lines

ASSUME FileRelayAssumption ==
    /\ {BufferSize, HeaderLen, ChatLen} \subseteq Nat \ {0}
    /\ FileSizes \subseteq Nat
    /\ NameLens \subseteq Nat \ {0}

VARIABLES
    file,      \* [info, size]: bytes of the packet about it, st.st_size
    src,       \* the sender: where it is, what it has left to send
    toServer,  \* every byte the sender has written
    taken,     \* how many of them the server has received
    srv,       \* the sender's thread of the server: where it is, its buffer
    toDest,    \* every byte the server has written to the receiver
    read,      \* how many of them the receiver has received
    dst,       \* the receive thread of the receiver
    saved,     \* what it has written to the file
    other      \* another thread of the server, with a line for the receiver

vars == <<file, src, toServer, taken, srv, toDest, read, dst, saved, other>>

Parts == {"header", "payload", "file"}

\* Packets: "file" and "line" of the sender, "other" of another user.
Packets == {"file", "line", "other"}

Byte == [of : Packets, part : Parts, pos : Nat]

BytesOf(of, part, from, to) ==
    [k \in 1 .. to - from + 1 |-> [of |-> of, part |-> part, pos |-> from + k - 1]]

Header(of) == BytesOf(of, "header", 1, HeaderLen)

\* sendFile announces what it has written.
InfoLen(name) ==
    Written(FieldsWritten("FILE", 0, 0, name, 0), Declared("FILE", 0, 0, name, 0)).size

\* No count of a packet about a file wraps to 0: the name is short.
ASSUME InfoAssumption == \A name \in NameLens : InfoLen(name) \in Nat \ {0}

PayloadLen(of) == IF of = "file" THEN file.info ELSE ChatLen

Payload(of) == BytesOf(of, "payload", 1, PayloadLen(of))

SrcPcs == {"header", "info", "data", "chat", "line", "idle", "gone"}

RecvPcs == {"header", "payload", "info", "file", "lost", "closed", "aborted"}

RelayTypeOK ==
    /\ file \in [info : Nat, size : Nat]
    /\ src \in [pc : SrcPcs, left : Nat]
    /\ toServer \in Seq(Byte) /\ toDest \in Seq(Byte)
    /\ taken \in 0 .. Len(toServer) /\ read \in 0 .. Len(toDest)
    /\ srv \in [pc : RecvPcs, hand : Seq(Byte), of : Packets, left : Int]
    /\ dst \in [pc : RecvPcs, hand : Seq(Byte), of : Packets, left : Int]
    /\ saved \in Seq(Byte)
    /\ other \in {"silent", "header", "payload", "done"}

\* A thread in recvAll() for a header.  hand is what it has of a header or
\* payload, of the packet that is of, left is file_size.
Waiting == [pc |-> "header", hand |-> <<>>, of |-> "file", left |-> 0]

Init ==
    /\ file \in [info : {InfoLen(n) : n \in NameLens}, size : FileSizes]
    /\ src = [pc |-> "header", left |-> file.size]
    /\ toServer = <<>> /\ taken = 0 /\ srv = Waiting
    /\ toDest = <<>> /\ read = 0 /\ dst = Waiting
    /\ saved = <<>>
    /\ other \in {"silent", "header"}

SmallerOf(a, b) == IF a < b THEN a ELSE b

----------------------------------------------------------------------------
(* The sender: sendFile, then perhaps a chat line.  It may go at any time.  *)

SrcWrites(from, bytes, to) ==
    /\ src.pc = from
    /\ toServer' = toServer \o bytes
    /\ src' = [src EXCEPT !.pc = to]
    /\ UNCHANGED <<file, taken, srv, toDest, read, dst, saved, other>>

SendFileHeader == SrcWrites("header", Header("file"), "info")

SendFileInfo == SrcWrites("info", Payload("file"), "data")

\* Mutant of SendFileData: a full buffer is subtracted.
SendFileCountsBuffer ==
    LET n == SmallerOf(src.left, BufferSize)
        from == file.size - src.left + 1
    IN  /\ src.pc = "data"
        /\ src.left > 0
        /\ toServer' = toServer \o BytesOf("file", "file", from, from + n - 1)
        /\ src' = [src EXCEPT !.left = @ - BufferSize]
        /\ UNCHANGED <<file, taken, srv, toDest, read, dst, saved, other>>

\* One read() of the file and the send() of what it gave.
SendFileData ==
    LET n == SmallerOf(src.left, BufferSize)
        from == file.size - src.left + 1
    IN  /\ src.pc = "data"
        /\ src.left > 0
        /\ toServer' = toServer \o BytesOf("file", "file", from, from + n - 1)
        /\ src' = [src EXCEPT !.left = @ - n]
        /\ UNCHANGED <<file, taken, srv, toDest, read, dst, saved, other>>

\* All has been sent; or read() gives nothing, the file has become shorter.
SendFileEnds == SrcWrites("data", <<>>, "chat")

SendLineHeader == SrcWrites("chat", Header("line"), "line")

SendLinePayload == SrcWrites("line", Payload("line"), "idle")

Goes == src.pc # "gone" /\ SrcWrites(src.pc, <<>>, "gone")

----------------------------------------------------------------------------
(* The server: the sender's thread. *)

ForServer == Len(toServer) - taken

SrvReceives(k) == SubSeq(toServer, taken + 1, taken + k)

\* What recvAll() has been asked for.
Wants(thread) ==
    IF thread.pc = "header" THEN HeaderLen ELSE PayloadLen(thread.of)

Has(thread) == Len(thread.hand) = Wants(thread)

\* One recv() of recvAll().
SrvRecvAll ==
    /\ srv.pc \in {"header", "payload"}
    /\ \E k \in 1 .. SmallerOf(ForServer, Wants(srv) - Len(srv.hand)) :
         /\ taken' = taken + k
         /\ srv' = [srv EXCEPT !.hand = @ \o SrvReceives(k)]
    /\ UNCHANGED <<file, src, toServer, toDest, read, dst, saved, other>>

\* What is in hand is read as a header, or as the payload of one; if it is none
\* this makes a packet of any type or length, where this model ends.
ReadsHeader(thread) ==
    IF \E p \in Packets : thread.hand = Header(p)
      THEN [thread EXCEPT !.pc = "payload", !.hand = <<>>,
                          !.of = CHOOSE p \in Packets : thread.hand = Header(p)]
      ELSE [thread EXCEPT !.pc = "lost"]

\* The while loop over the file is not entered for an empty one.
Receiving == IF file.size > 0
               THEN [Waiting EXCEPT !.pc = "file", !.left = file.size]
               ELSE Waiting

\* Mutant of SrvHeader: one recv() is taken to be the whole header.
SrvHeaderEarly ==
    /\ srv.pc = "header" /\ srv.hand # <<>>
    /\ srv' = ReadsHeader(srv)
    /\ UNCHANGED <<file, src, toServer, taken, toDest, read, dst, saved, other>>

SrvHeader ==
    /\ srv.pc = "header" /\ Has(srv)
    /\ srv' = ReadsHeader(srv)
    /\ UNCHANGED <<file, src, toServer, taken, toDest, read, dst, saved, other>>

\* A whole payload: of the line, which is for a third user; of the packet about
\* the file, whose header is passed on first.
SrvLine ==
    /\ srv.pc = "payload" /\ Has(srv)
    /\ srv.of = "line"
    /\ srv' = IF srv.hand = Payload("line") THEN Waiting ELSE [srv EXCEPT !.pc = "lost"]
    /\ UNCHANGED <<file, src, toServer, taken, toDest, read, dst, saved, other>>

RelayHeader ==
    /\ srv.pc = "payload" /\ Has(srv)
    /\ srv.of = "file"
    /\ toDest' = toDest \o Header("file")
    /\ srv' = [srv EXCEPT !.pc = "info"]
    /\ UNCHANGED <<file, src, toServer, taken, read, dst, saved, other>>

RelayInfo ==
    /\ srv.pc = "info"
    /\ toDest' = toDest \o srv.hand
    /\ srv' = Receiving
    /\ UNCHANGED <<file, src, toServer, taken, read, dst, saved, other>>

\* Mutants of RelayChunk: a full buffer is subtracted; nothing is.
RelayCountsBuffer ==
    /\ srv.pc = "file"
    /\ \E k \in 1 .. SmallerOf(ForServer, BufferSize) :
         /\ taken' = taken + k
         /\ toDest' = toDest \o SrvReceives(k)
         /\ srv' = [srv EXCEPT !.left = @ - BufferSize,
                               !.pc = IF srv.left > BufferSize THEN "file" ELSE "header"]
    /\ UNCHANGED <<file, src, toServer, read, dst, saved, other>>

RelayCountsNothing ==
    /\ srv.pc = "file"
    /\ \E k \in 1 .. SmallerOf(ForServer, BufferSize) :
         /\ taken' = taken + k
         /\ toDest' = toDest \o SrvReceives(k)
    /\ UNCHANGED <<file, src, toServer, srv, read, dst, saved, other>>

\* One turn of the relay loop: recv() of up to a full buffer, however little
\* of the file is left.
RelayChunk ==
    /\ srv.pc = "file"
    /\ \E k \in 1 .. SmallerOf(ForServer, BufferSize) :
         /\ taken' = taken + k
         /\ toDest' = toDest \o SrvReceives(k)
         /\ srv' = [srv EXCEPT !.left = @ - k,
                               !.pc = IF srv.left > k THEN "file" ELSE "header"]
    /\ UNCHANGED <<file, src, toServer, read, dst, saved, other>>

\* The end of the stream.  In a header the thread closes and ends; in a payload
\* it reads from NULL; in the relay loop recv() gives 0 for ever, which changes
\* nothing.
SrvEnd ==
    /\ src.pc = "gone" /\ ForServer = 0
    /\ srv.pc \in {"header", "payload"} /\ ~Has(srv)
    /\ srv' = [srv EXCEPT !.pc = IF srv.pc = "header" THEN "closed" ELSE "aborted"]
    /\ UNCHANGED <<file, src, toServer, taken, toDest, read, dst, saved, other>>

SrvThread ==
    \/ SrvRecvAll \/ SrvHeader \/ SrvLine \/ RelayHeader \/ RelayInfo
    \/ RelayChunk \/ SrvEnd

\* Another thread sends the receiver a packet, in two calls of its own.
OtherHeader ==
    /\ other = "header"
    /\ other' = "payload"
    /\ toDest' = toDest \o Header("other")
    /\ UNCHANGED <<file, src, toServer, taken, srv, read, dst, saved>>

OtherPayload ==
    /\ other = "payload"
    /\ other' = "done"
    /\ toDest' = toDest \o Payload("other")
    /\ UNCHANGED <<file, src, toServer, taken, srv, read, dst, saved>>

----------------------------------------------------------------------------
(* The receiver: its receive thread. *)

ForDest == Len(toDest) - read

DstReceives(k) == SubSeq(toDest, read + 1, read + k)

DstRecvAll ==
    /\ dst.pc \in {"header", "payload"}
    /\ \E k \in 1 .. SmallerOf(ForDest, Wants(dst) - Len(dst.hand)) :
         /\ read' = read + k
         /\ dst' = [dst EXCEPT !.hand = @ \o DstReceives(k)]
    /\ UNCHANGED <<file, src, toServer, taken, srv, toDest, saved, other>>

\* Mutant of DstHeader, as SrvHeaderEarly.
DstHeaderEarly ==
    /\ dst.pc = "header" /\ dst.hand # <<>>
    /\ dst' = ReadsHeader(dst)
    /\ UNCHANGED <<file, src, toServer, taken, srv, toDest, read, saved, other>>

DstHeader ==
    /\ dst.pc = "header" /\ Has(dst)
    /\ dst' = ReadsHeader(dst)
    /\ UNCHANGED <<file, src, toServer, taken, srv, toDest, read, saved, other>>

DstPayload ==
    /\ dst.pc = "payload" /\ Has(dst)
    /\ dst' = IF dst.hand # Payload(dst.of) THEN [dst EXCEPT !.pc = "lost"]
              ELSE IF dst.of = "file" THEN Receiving
              ELSE Waiting
    /\ UNCHANGED <<file, src, toServer, taken, srv, toDest, read, saved, other>>

\* Mutant of SaveChunk: a full buffer is asked for.
SaveTooMuch ==
    /\ dst.pc = "file"
    /\ \E k \in 1 .. SmallerOf(ForDest, BufferSize) :
         /\ read' = read + k
         /\ saved' = saved \o DstReceives(k)
         /\ dst' = [dst EXCEPT !.left = @ - k,
                               !.pc = IF dst.left > k THEN "file" ELSE "header"]
    /\ UNCHANGED <<file, src, toServer, taken, srv, toDest, other>>

\* One turn of the loop of manageIncomingFile: no more than is left.
SaveChunk ==
    /\ dst.pc = "file"
    /\ \E k \in 1 .. SmallerOf(ForDest, SmallerOf(dst.left, BufferSize)) :
         /\ read' = read + k
         /\ saved' = saved \o DstReceives(k)
         /\ dst' = [dst EXCEPT !.left = @ - k,
                               !.pc = IF dst.left > k THEN "file" ELSE "header"]
    /\ UNCHANGED <<file, src, toServer, taken, srv, toDest, other>>

DstThread == DstRecvAll \/ DstHeader \/ DstPayload \/ SaveChunk

----------------------------------------------------------------------------
SrcThread ==
    \/ SendFileHeader \/ SendFileInfo \/ SendFileData \/ SendFileEnds

\* The sender waits for its user or has gone, and nothing is left to receive
\* for a thread that receives.
Stops ==
    /\ src.pc \in {"chat", "idle", "gone"}
    /\ UNCHANGED vars

Next ==
    \/ SrcThread \/ SendLineHeader \/ SendLinePayload \/ Goes
    \/ SrvThread \/ OtherHeader \/ OtherPayload \/ DstThread
    \/ Stops

Spec == Init /\ [][Next]_vars

\* The threads of the server and the receiver run.  The sender, once in
\* sendFile, goes on without its user.
FairSpec ==
    Spec /\ WF_vars(SrcThread) /\ WF_vars(SrvThread) /\ WF_vars(DstThread)

----------------------------------------------------------------------------
(* Properties *)

\* The payloads of all packets fit their buffers, are as long as announced and
\* are read as they were written.
PacketsFit ==
    toServer = <<>> =>
      \A kind \in Kinds, u, r, t \in NameLens, m \in 1 .. 2 :
        Fits(kind, u, r, t, m)

\* What the sender has written behind the packet about the file.
Behind == SubSeq(toServer, HeaderLen + PayloadLen("file") + 1, Len(toServer))

\* How many of the first n bytes of a stream are of the sender's packets.
Own(bytes, n) == Cardinality({i \in 1 .. n : bytes[i].of # "other"})

\* The bytes of the sender in the receiver's file are the first it wrote behind
\* the packet about the file, in order and without a gap, and the file is never
\* longer than announced, though recv() splits the stream anyhow, the server
\* takes bytes of the packets behind for the file, the file shrinks while it is
\* sent or another thread writes to the receiver meanwhile.
FileInOrder ==
    /\ \A j \in DOMAIN saved :
         saved[j].of # "other" => /\ Own(saved, j) <= Len(Behind)
                                  /\ saved[j] = Behind[Own(saved, j)]
    /\ Len(saved) <= file.size

\* The receiver takes for a packet what is none only if another thread has
\* written to it meanwhile or the server has passed on bytes of the line.
ReceiverKeepsFrame ==
    dst.pc = "lost" => \E i \in DOMAIN toDest : toDest[i].of # "file"

\* The server takes for a packet what is none only after it has passed on bytes
\* of the line for bytes of the file.
ServerKeepsFrame ==
    srv.pc = "lost" => \E i \in DOMAIN toDest : toDest[i].of = "line"

\* A file that has been sent whole arrives whole, if nobody else writes to the
\* receiver meanwhile, whatever comes behind it and whether its sender stays.
FileArrives ==
    (src.pc \in {"chat", "line", "idle"} /\ src.left = 0) ~>
      (other # "silent" \/ (Len(saved) = file.size /\ dst.pc # "file"))

\* The thread of a sender that has gone gives its descriptor back, if the file
\* was sent whole and no packet was torn or swallowed: otherwise it may spin on
\* recv() for ever.
RelayThreadEnds ==
    (src.pc = "gone" /\ src.left = 0) ~> (srv.pc \in {"closed", "lost", "aborted"})
=============================================================================
