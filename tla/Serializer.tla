----------------------------- MODULE Serializer -----------------------------
(***************************************************************************)
(* shared/serializer/serializer.c, by sizes: where the write buffer of a   *)
(* packet ends, how large it has been made, and how far a reader gets.     *)
(*                                                                         *)
(* A payload is a sequence of fields, each raw bytes or a string, which is *)
(* written as its length and its bytes.                                    *)
(***************************************************************************)
EXTENDS Naturals, Sequences, SequencesExt

CONSTANTS
    IntLen,   \* sizeof(int)
    LenLen,   \* sizeof(uint32_t), the length in front of a string
    OffLen,   \* sizeof(off_t)
    Width     \* bits of a uint32_t

ASSUME SerializerAssumption ==
    {IntLen, LenLen, OffLen, Width} \subseteq Nat \ {0}

Bytes(n) == [string |-> FALSE, len |-> n]

Text(n) == [string |-> TRUE, len |-> n]

\* Mutant of FieldSize: a string without its length.
BareSize(field) == field.len

\* How many bytes of the payload a field takes.
FieldSize(field) == (IF field.string THEN LenLen ELSE 0) + field.len

Wrap(n) == n % 2 ^ Width

\* packetWriterInIt: the buffer has the size the caller has counted.
packetWriterInIt(payloadSize) ==
    [size |-> 0, capacity |-> payloadSize, inside |-> TRUE]

\* The capacity after the doubling loop: while(size + n >= capacity).
Grown(capacity, size, field) ==
    LET doubled[c \in 0 .. 2 ^ Width - 1] ==
          IF size + FieldSize(field) >= c THEN doubled[Wrap(2 * c)] ELSE c
    IN  doubled[capacity]

\* packetWriteBytes and packetWriteString; inside is history: no byte has been
\* written past the buffer.
Write(writer, field) ==
    LET end == writer.size + FieldSize(field)
        capacity == Grown(writer.capacity, writer.size, field)
    IN  [size |-> Wrap(end), capacity |-> capacity,
         inside |-> writer.inside /\ end <= capacity]

Written(fields, payloadSize) ==
    FoldLeft(Write, packetWriterInIt(payloadSize), fields)

\* packetReadBytes and packetReadString, field by field: what is left of the
\* payload.
LeftToRead(fields, payloadSize) ==
    FoldLeft(LAMBDA left, field : left - FieldSize(field), payloadSize, fields)

----------------------------------------------------------------------------
(* The payloads of both programs.  u, r and t are the lengths of the name of *)
(* a user, of a room, and of a text: line, description or file name; m is    *)
(* the number of entries of a list, whose names are of length u.             *)

Kinds == {"USER_JOINED_SERVER", "CLIENT_LIST", "CHAT", "CREATE_ROOM",
          "JOIN_ROOM", "GROUP_LIST", "GROUP_CHAT", "KICK_GROUP_MEMBER",
          "KICKED", "LEAVE_ROOM", "FILE"}

FieldsOfEntries(u, m) ==
    [k \in 1 .. 2 * m |-> IF k % 2 = 1 THEN Text(u) ELSE Bytes(IntLen)]

\* The fields in the order in which they are written.
FieldsWritten(kind, u, r, t, m) ==
    CASE kind = "USER_JOINED_SERVER" -> <<Bytes(IntLen), Text(u)>>
      [] kind = "CLIENT_LIST" -> FieldsOfEntries(u, m)
      [] kind = "CHAT" -> <<Bytes(IntLen), Text(u), Text(t)>>
      [] kind = "CREATE_ROOM" -> <<Text(r), Text(t), Text(u), Bytes(IntLen)>>
      [] kind = "JOIN_ROOM" -> <<Text(u), Bytes(IntLen), Text(r)>>
      [] kind = "GROUP_LIST" -> <<Text(r), Text(t), Text(u), Bytes(IntLen)>>
                                  \o FieldsOfEntries(u, m)
      [] kind = "GROUP_CHAT" -> <<Text(r), Text(u), Text(t)>>
      [] kind \in {"KICK_GROUP_MEMBER", "LEAVE_ROOM"} ->
           <<Bytes(IntLen), Text(u), Text(r)>>
      [] kind = "KICKED" -> <<Text(r)>>
      [] kind = "FILE" -> <<Bytes(IntLen), Text(t), Bytes(OffLen)>>

\* What the sender counts beforehand, for the buffer and for the header.
Declared(kind, u, r, t, m) ==
    CASE kind = "USER_JOINED_SERVER" -> IntLen + LenLen + u
      [] kind = "CLIENT_LIST" -> (LenLen + IntLen) * m + u * m
      [] kind = "CHAT" -> IntLen + LenLen + u + LenLen + t
      [] kind = "CREATE_ROOM" ->
           (LenLen + r) + (LenLen + t) + (LenLen + u) + IntLen
      [] kind = "JOIN_ROOM" -> LenLen + u + IntLen + LenLen + r
      [] kind = "GROUP_LIST" -> LenLen + r + LenLen + t + LenLen + u + IntLen
                                  + m * (LenLen + u + IntLen)
      [] kind = "GROUP_CHAT" -> LenLen + r + LenLen + u + LenLen + t
      [] kind \in {"KICK_GROUP_MEMBER", "LEAVE_ROOM"} ->
           IntLen + LenLen + u + LenLen + r
      [] kind = "KICKED" -> LenLen + r
      [] kind = "FILE" -> IntLen + LenLen + t + OffLen

\* The fields in the order in which the receiving end reads them; of the two
\* lists of entries a reader reads until nothing is left.
FieldsRead(kind, u, r, t, m) ==
    CASE kind = "USER_JOINED_SERVER" -> <<Bytes(IntLen), Text(u)>>
      [] kind = "CLIENT_LIST" -> FieldsOfEntries(u, m)
      [] kind = "CHAT" -> <<Bytes(IntLen), Text(u), Text(t)>>
      [] kind = "CREATE_ROOM" -> <<Text(r), Text(t), Text(u), Bytes(IntLen)>>
      [] kind = "JOIN_ROOM" -> <<Text(u), Bytes(IntLen), Text(r)>>
      [] kind = "GROUP_LIST" -> <<Text(r), Text(t), Text(u), Bytes(IntLen)>>
                                  \o FieldsOfEntries(u, m)
      [] kind = "GROUP_CHAT" -> <<Text(r), Text(u), Text(t)>>
      [] kind \in {"KICK_GROUP_MEMBER", "LEAVE_ROOM"} ->
           <<Bytes(IntLen), Text(u), Text(r)>>
      [] kind = "KICKED" -> <<Text(r)>>
      [] kind = "FILE" -> <<Bytes(IntLen), Text(t), Bytes(OffLen)>>

\* Whatever the lengths, below half of what a uint32_t counts: no write leaves
\* the buffer, the bytes written are those announced, and the reader reads the
\* fields that were written.  From half on the capacity wraps to 0 and the
\* doubling never ends.
Fits(kind, u, r, t, m) ==
    LET writer == Written(FieldsWritten(kind, u, r, t, m), Declared(kind, u, r, t, m))
    IN  /\ writer.inside
        /\ writer.size = Declared(kind, u, r, t, m)
        /\ FieldsRead(kind, u, r, t, m) = FieldsWritten(kind, u, r, t, m)
        /\ LeftToRead(FieldsRead(kind, u, r, t, m), writer.size) = 0
=============================================================================
