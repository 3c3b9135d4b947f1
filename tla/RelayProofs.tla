---------------------------- MODULE RelayProofs ----------------------------
(***************************************************************************)
(* Proofs about FileRelay, for files and names of any length, buffers and  *)
(* headers of any size, and streams split anywhere.                        *)
(***************************************************************************)
EXTENDS FileRelay, SequenceTheorems, FiniteSetTheorems, WellFoundedInduction,
        TLAPS

----------------------------------------------------------------------------
(* The inductive invariant. *)

\* Where the sender's file begins and, so far, ends in its stream.
FileStart == HeaderLen + file.info

FileEnd == FileStart + file.size - src.left

\* The byte the sender has put, or will have put, in place i of its stream, if
\* the file ends where it ends now.
Sent(i) ==
    IF i <= HeaderLen
      THEN [of |-> "file", part |-> "header", pos |-> i]
    ELSE IF i <= FileStart
      THEN [of |-> "file", part |-> "payload", pos |-> i - HeaderLen]
    ELSE IF i <= FileEnd
      THEN [of |-> "file", part |-> "file", pos |-> i - FileStart]
    ELSE IF i <= FileEnd + HeaderLen
      THEN [of |-> "line", part |-> "header", pos |-> i - FileEnd]
    ELSE [of |-> "line", part |-> "payload", pos |-> i - FileEnd - HeaderLen]

\* The stream of the sender: one file and then perhaps one line.
SrcInv ==
    /\ file.info # 0
    /\ src.left <= file.size
    /\ \A i \in 1 .. Len(toServer) : toServer[i] = Sent(i)
    /\ Len(toServer) <= HeaderLen => src.left = file.size
    /\ src.pc = "header" => Len(toServer) = 0
    /\ src.pc = "info" => Len(toServer) = HeaderLen
    /\ src.pc \in {"data", "chat"} => Len(toServer) = FileEnd
    /\ src.pc = "line" => Len(toServer) = FileEnd + HeaderLen
    /\ Len(toServer) \in {0, HeaderLen, FileEnd, FileEnd + HeaderLen,
                          FileEnd + HeaderLen + ChatLen}

\* What is in hand is what has come last.
InHand(hand, stream, position) ==
    /\ Len(hand) <= position
    /\ \A j \in 1 .. Len(hand) : hand[j] = stream[position - Len(hand) + j]

Relayed == Own(toDest, Len(toDest))

\* What the receiver is sent, but for the packet of the other user, is what the
\* sender has written, from the beginning and without a gap.
RelayedInv ==
    \A i \in 1 .. Len(toDest) :
      toDest[i].of # "other" => /\ Own(toDest, i) <= Len(toServer)
                                /\ toDest[i] = toServer[Own(toDest, i)]

\* The sender's thread passes on one file, from the first byte of its packet.
SrvInv ==
    /\ srv.pc \in {"header", "payload"} => InHand(srv.hand, toServer, taken)
    /\ srv.pc = "header" => \/ Relayed = 0 /\ taken = Len(srv.hand)
                            \/ taken - Len(srv.hand) >= FileStart
    /\ srv.pc = "payload" /\ srv.of = "file" =>
         Relayed = 0 /\ taken = HeaderLen + Len(srv.hand)
    /\ srv.pc = "payload" /\ srv.of # "file" =>
         taken - Len(srv.hand) >= FileStart
    /\ srv.pc = "info" => /\ Relayed = HeaderLen
                          /\ taken = FileStart
                          /\ srv.hand = Payload("file")
    /\ srv.pc = "file" => /\ Relayed = taken
                          /\ taken >= FileStart
                          /\ srv.hand = <<>>

\* The last byte of the packet about the file is in place r.
Start(r) ==
    /\ r \in 1 .. Len(toDest)
    /\ toDest[r] = [of |-> "file", part |-> "payload", pos |-> file.info]

\* The file of the receiver is what comes behind that packet.
SavedBehind(r) ==
    /\ Start(r)
    /\ \A j \in 1 .. Len(saved) : saved[j] = toDest[r + j]

DstInv ==
    /\ Len(saved) <= file.size
    /\ dst.pc \in {"header", "payload"} => InHand(dst.hand, toDest, read)
    /\ dst.pc = "file" => /\ dst.hand = <<>>
                          /\ dst.left = file.size - Len(saved)
                          /\ dst.left > 0
                          /\ \E r \in 1 .. Len(toDest) :
                               SavedBehind(r) /\ read = r + Len(saved)
    /\ saved # <<>> /\ dst.pc # "file" =>
         \E r \in 1 .. Len(toDest) :
           /\ SavedBehind(r)
           /\ r + Len(saved) <= read
           /\ dst.pc \in {"header", "payload"} =>
                r + Len(saved) <= read - Len(dst.hand)

\* As long as no byte of the line has been passed on, the server is where the
\* packets of the sender are.
LinePassed == \E i \in 1 .. Len(toDest) : toDest[i].of = "line"

LineStart == FileStart + file.size

SrvFramed ==
    \/ LinePassed
    \/ /\ srv.pc = "header"
       /\ \/ taken = Len(srv.hand)
          \/ taken - Len(srv.hand) = LineStart /\ src.left = 0
          \/ /\ taken = LineStart + HeaderLen + ChatLen
             /\ srv.hand = <<>> /\ src.left = 0
    \/ srv.pc = "payload" /\ srv.of = "file"
    \/ /\ srv.pc = "payload" /\ srv.of = "line"
       /\ taken - Len(srv.hand) = LineStart + HeaderLen /\ src.left = 0
    \/ srv.pc \in {"info", "closed", "aborted"}
    \/ srv.pc = "file" /\ taken = LineStart - srv.left /\ srv.left > 0

\* As long as all it has been sent is of the packet about the file and the file,
\* the receiver is where they are.
OthersPassed == \E i \in 1 .. Len(toDest) : toDest[i].of # "file"

DstFramed ==
    \/ OthersPassed
    \/ dst.pc = "header" /\ read = Len(dst.hand)
    \/ dst.pc = "payload" /\ dst.of = "file" /\ read = HeaderLen + Len(dst.hand)
    \/ dst.pc = "file" /\ read = LineStart - dst.left
    \/ dst.pc = "header" /\ dst.hand = <<>> /\ read >= LineStart

RelayInv ==
    RelayTypeOK /\ SrcInv /\ RelayedInv /\ SrvInv /\ DstInv /\ SrvFramed /\ DstFramed

----------------------------------------------------------------------------
(* Streams of bytes. *)

\* A set of numbers that is not empty has a smallest.
LEMMA SmallestOf ==
    ASSUME NEW S, S \subseteq Nat, S # {}
    PROVE  \E m \in S : \A n \in S : m <= n
  <1> DEFINE Less == {pair \in Nat \X Nat : pair[1] < pair[2]}
  <1>1. IsWellFoundedOn(Less, Nat)
    BY NatLessThanWellFounded DEF OpToRel
  <1>2. PICK m \in S : \A n \in S : <<n, m>> \notin Less
    BY <1>1, WFMin
  <1>3. ASSUME NEW n \in S
        PROVE  m <= n
    <2>1. m \in Nat /\ n \in Nat /\ <<n, m>> \notin Less
      BY <1>2
    <2> QED
      BY <2>1
  <1> QED
    BY <1>3

\* Sequences put together, and a part of one.
LEMMA JoinedIs ==
    ASSUME NEW S, NEW s \in Seq(S), NEW d \in Seq(S), NEW t, t = s \o d
    PROVE  /\ t \in Seq(S)
           /\ Len(t) = Len(s) + Len(d)
           /\ \A i \in 1 .. Len(s) : t[i] = s[i]
           /\ \A j \in 1 .. Len(d) : t[Len(s) + j] = d[j]
           /\ Len(s) \in Nat /\ Len(d) \in Nat
           /\ \A i \in Len(s) + 1 .. Len(t) :
                i - Len(s) \in 1 .. Len(d) /\ t[i] = d[i - Len(s)]
  <1>1. /\ t \in Seq(S)
        /\ Len(t) = Len(s) + Len(d)
        /\ \A i \in 1 .. Len(s) + Len(d) :
             t[i] = IF i <= Len(s) THEN s[i] ELSE d[i - Len(s)]
    BY ConcatProperties
  <1>2. Len(s) \in Nat /\ Len(d) \in Nat
    BY LenProperties
  <1>3. \A j \in 1 .. Len(d) : t[Len(s) + j] = d[j]
    <2> TAKE j \in 1 .. Len(d)
    <2>1. /\ Len(s) + j \in 1 .. Len(s) + Len(d)
          /\ ~(Len(s) + j <= Len(s)) /\ Len(s) + j - Len(s) = j
      BY <1>2
    <2> QED
      BY <1>1, <2>1
  <1>4. \A i \in Len(s) + 1 .. Len(t) :
          i - Len(s) \in 1 .. Len(d) /\ t[i] = d[i - Len(s)]
    <2> TAKE i \in Len(s) + 1 .. Len(t)
    <2>1. /\ i \in 1 .. Len(s) + Len(d) /\ ~(i <= Len(s))
          /\ i - Len(s) \in 1 .. Len(d)
      BY <1>1, <1>2
    <2> QED
      BY <1>1, <2>1
  <1> QED
    BY <1>1, <1>2, <1>3, <1>4

LEMMA PartIs ==
    ASSUME NEW S, NEW s \in Seq(S), NEW from \in Nat, NEW k \in Nat,
           from + k <= Len(s)
    PROVE  /\ SubSeq(s, from + 1, from + k) \in Seq(S)
           /\ Len(SubSeq(s, from + 1, from + k)) = k
           /\ \A j \in 1 .. k : SubSeq(s, from + 1, from + k)[j] = s[from + j]
  <1>1. Len(s) \in Nat
    BY LenProperties
  <1> DEFINE p == SubSeq(s, from + 1, from + k)
  <1>2. CASE k = 0
    <2>1. p = <<>>
      BY <1>2, SubSeqProperties
    <2> QED
      BY <1>2, <2>1, EmptySeq
  <1>3. CASE k > 0
    <2>1. from + 1 \in 1 .. Len(s) /\ from + k \in 1 .. Len(s)
          /\ from + 1 \in 1 .. Len(s) + 1 /\ from + k \in from .. Len(s)
      BY <1>1, <1>3
    <2>2. /\ p \in Seq(S)
          /\ Len(p) = IF from + 1 <= from + k THEN (from + k) - (from + 1) + 1 ELSE 0
          /\ \A i \in 1 .. (from + k) - (from + 1) + 1 : p[i] = s[(from + 1) + i - 1]
      BY <2>1, SubSeqProperties
    <2>3. (from + k) - (from + 1) + 1 = k /\ from + 1 <= from + k
      BY <1>3
    <2>4. \A j \in 1 .. k : (from + 1) + j - 1 = from + j
      OBVIOUS
    <2> QED
      BY <2>2, <2>3, <2>4
  <1> QED
    BY <1>2, <1>3

LEMMA BytesAre ==
    ASSUME NEW of \in Packets, NEW part \in Parts, NEW from \in Nat, NEW to \in Int,
           to >= from - 1
    PROVE  /\ BytesOf(of, part, from, to) \in Seq(Byte)
           /\ Len(BytesOf(of, part, from, to)) = to - from + 1
           /\ \A k \in 1 .. to - from + 1 :
                BytesOf(of, part, from, to)[k]
                  = [of |-> of, part |-> part, pos |-> from + k - 1]
  <1>1. to - from + 1 \in Nat
    OBVIOUS
  <1>2. ASSUME NEW k \in 1 .. to - from + 1
        PROVE  [of |-> of, part |-> part, pos |-> from + k - 1] \in Byte
    BY DEF Byte
  <1> QED
    BY <1>1, <1>2 DEF BytesOf

\* Own, one byte on; and where two streams agree.
LEMMA OwnFinite ==
    ASSUME NEW bytes, NEW n \in Nat
    PROVE  /\ IsFiniteSet({i \in 1 .. n : bytes[i].of # "other"})
           /\ Cardinality({i \in 1 .. n : bytes[i].of # "other"}) \in 0 .. n
  <1> DEFINE T == {i \in 1 .. n : bytes[i].of # "other"}
  <1>1. IsFiniteSet(1 .. n) /\ Cardinality(1 .. n) = n
    <2>1. /\ IsFiniteSet(1 .. n)
          /\ Cardinality(1 .. n) = IF 1 > n THEN 0 ELSE n - 1 + 1
      BY FS_Interval
    <2> QED
      BY <2>1
  <1>2. T \in SUBSET (1 .. n)
    OBVIOUS
  <1> HIDE DEF T
  <1>3. IsFiniteSet(T) /\ Cardinality(T) <= n
    BY <1>1, <1>2, FS_Subset
  <1>4. Cardinality(T) \in Nat
    BY <1>3, FS_CardinalityType
  <1> QED
    BY <1>3, <1>4 DEF T

LEMMA OwnType ==
    ASSUME NEW bytes, NEW n \in Nat
    PROVE  Own(bytes, n) \in 0 .. n /\ Own(bytes, n) \in Nat
  <1>1. Own(bytes, n) \in 0 .. n
    BY OwnFinite DEF Own
  <1> QED
    BY <1>1

LEMMA OwnStep ==
    ASSUME NEW bytes, NEW n \in Nat
    PROVE  /\ bytes[n + 1].of # "other" => Own(bytes, n + 1) = Own(bytes, n) + 1
           /\ bytes[n + 1].of = "other" => Own(bytes, n + 1) = Own(bytes, n)
  <1> DEFINE T == {i \in 1 .. n : bytes[i].of # "other"}
             U == {i \in 1 .. n + 1 : bytes[i].of # "other"}
  <1>1. IsFiniteSet(T)
    BY OwnFinite
  <1>2. n + 1 \notin T /\ 1 .. n + 1 = 1 .. n \cup {n + 1}
    OBVIOUS
  <1>3. bytes[n + 1].of # "other" => U = T \cup {n + 1}
    BY <1>2
  <1>4. bytes[n + 1].of = "other" => U = T
    BY <1>2
  <1>5. n + 1 \notin T
    BY <1>2
  <1> HIDE DEF T, U
  <1>6. Cardinality(T \cup {n + 1}) = Cardinality(T) + 1
    BY <1>1, <1>5, FS_AddElement
  <1>7. Own(bytes, n) = Cardinality(T) /\ Own(bytes, n + 1) = Cardinality(U)
    BY DEF Own, T, U
  <1> QED
    BY <1>3, <1>4, <1>6, <1>7

LEMMA OwnZero ==
    ASSUME NEW bytes
    PROVE  Own(bytes, 0) = 0
  BY OwnType

LEMMA OwnSame ==
    ASSUME NEW s, NEW t, NEW n \in Nat, \A i \in 1 .. n : s[i] = t[i]
    PROVE  Own(s, n) = Own(t, n)
  <1>1. {i \in 1 .. n : s[i].of # "other"} = {i \in 1 .. n : t[i].of # "other"}
    OBVIOUS
  <1> QED
    BY <1>1 DEF Own

LEMMA OwnMore ==
    ASSUME NEW bytes, NEW m \in Nat, NEW n \in Nat, m <= n
    PROVE  Own(bytes, m) <= Own(bytes, n)
  <1> DEFINE T == {i \in 1 .. m : bytes[i].of # "other"}
             U == {i \in 1 .. n : bytes[i].of # "other"}
  <1>1. IsFiniteSet(U)
    BY OwnFinite
  <1>2. T \in SUBSET U
    OBVIOUS
  <1> HIDE DEF T, U
  <1>3. Cardinality(T) <= Cardinality(U)
    BY <1>1, <1>2, FS_Subset
  <1> QED
    BY <1>3 DEF Own, T, U

\* The first n bytes of d are what s has behind place r.
Within(d, n, s, r) == \A j \in 1 .. n : s[r + j] = d[j]

\* A part of a stream, counted from where it begins.
LEMMA OwnShift ==
    ASSUME NEW s, NEW d, NEW r \in Nat, NEW n \in Nat, NEW e \in Nat, e = r + n,
           Within(d, n, s, r)
    PROVE  Own(s, e) = Own(s, r) + Own(d, n)
  <1> DEFINE Bad == {j \in 0 .. n : Own(s, r + j) # Own(s, r) + Own(d, j)}
  <1>1. SUFFICES ASSUME Bad # {}
                 PROVE  FALSE
    OBVIOUS
  <1>2. Bad \subseteq Nat
    OBVIOUS
  <1>3. PICK m \in Bad : \A j \in Bad : m <= j
    <2> HIDE DEF Bad
    <2> QED
      BY <1>1, <1>2, SmallestOf
  <1>4. m \in 0 .. n /\ Own(s, r + m) # Own(s, r) + Own(d, m)
    BY <1>3
  <1>5. m # 0
    <2>1. SUFFICES ASSUME m = 0
                   PROVE  FALSE
      OBVIOUS
    <2>2. r + m = r /\ Own(d, m) = 0 /\ Own(s, r) \in Int
      BY <2>1, OwnZero, OwnType
    <2> QED
      BY <1>4, <2>2
  <1> DEFINE k == m - 1
  <1>6. k \in 0 .. n /\ k \in Nat /\ ~(m <= k) /\ k + 1 = m /\ m \in 1 .. n
        /\ r + k \in Nat /\ (r + k) + 1 = r + m
    BY <1>4, <1>5
  <1>7. Own(s, r + k) = Own(s, r) + Own(d, k)
    BY <1>3, <1>6
  <1> HIDE DEF k, Bad
  <1>8. s[r + m] = d[m]
    BY <1>6 DEF Within
  <1>9. /\ d[m].of # "other" => Own(d, m) = Own(d, k) + 1
        /\ d[m].of = "other" => Own(d, m) = Own(d, k)
    BY <1>6, OwnStep
  <1>10. /\ s[r + m].of # "other" => Own(s, r + m) = Own(s, r + k) + 1
         /\ s[r + m].of = "other" => Own(s, r + m) = Own(s, r + k)
    BY <1>6, OwnStep
  <1>11. Own(s, r) \in Int /\ Own(d, k) \in Int
    BY <1>6, OwnType
  <1> QED
    BY <1>4, <1>7, <1>8, <1>9, <1>10, <1>11

\* Bytes that are all of the sender, or none.
LEMMA OwnAll ==
    ASSUME NEW d, NEW n \in Nat, \A j \in 1 .. n : d[j].of # "other"
    PROVE  Own(d, n) = n
  <1>1. {i \in 1 .. n : d[i].of # "other"} = 1 .. n
    OBVIOUS
  <1>2. Cardinality(1 .. n) = IF 1 > n THEN 0 ELSE n - 1 + 1
    BY FS_Interval
  <1>3. Cardinality(1 .. n) = n
    BY <1>2
  <1> QED
    BY <1>1, <1>3 DEF Own

LEMMA OwnNone ==
    ASSUME NEW d, NEW n \in Nat, \A j \in 1 .. n : d[j].of = "other"
    PROVE  Own(d, n) = 0
  <1>1. {i \in 1 .. n : d[i].of # "other"} = {}
    OBVIOUS
  <1> QED
    BY <1>1, FS_EmptySet DEF Own

\* What a stream holds of the sender when bytes of it are added; and when others.
LEMMA Passed ==
    ASSUME NEW s, NEW d, NEW t, Len(s) \in Nat, Len(d) \in Nat,
           Len(t) = Len(s) + Len(d),
           \A i \in 1 .. Len(s) : t[i] = s[i],
           \A j \in 1 .. Len(d) : t[Len(s) + j] = d[j],
           \A j \in 1 .. Len(d) : d[j].of # "other"
    PROVE  /\ \A i \in 0 .. Len(s) : Own(t, i) = Own(s, i)
           /\ \A j \in 0 .. Len(d) : Own(t, Len(s) + j) = Own(s, Len(s)) + j
           /\ Own(t, Len(t)) = Own(s, Len(s)) + Len(d)
  <1>2. \A i \in 0 .. Len(s) : Own(t, i) = Own(s, i)
    <2> TAKE i \in 0 .. Len(s)
    <2>1. i \in Nat /\ \A j \in 1 .. i : t[j] = s[j]
      OBVIOUS
    <2> QED
      BY <2>1, OwnSame
  <1>3. \A j \in 0 .. Len(d) : Own(t, Len(s) + j) = Own(t, Len(s)) + Own(d, j)
    <2> TAKE j \in 0 .. Len(d)
    <2>1. j \in Nat /\ Len(s) + j \in Nat /\ Within(d, j, t, Len(s))
      BY DEF Within
    <2> QED
      BY <2>1, OwnShift
  <1>4. \A j \in 0 .. Len(d) : Own(d, j) = j
    <2> TAKE j \in 0 .. Len(d)
    <2>1. j \in Nat /\ \A k \in 1 .. j : d[k].of # "other"
      OBVIOUS
    <2> QED
      BY <2>1, OwnAll
  <1>5. Own(t, Len(s)) = Own(s, Len(s))
    BY <1>2
  <1>6. \A j \in 0 .. Len(d) : Own(t, Len(s) + j) = Own(s, Len(s)) + j
    BY <1>3, <1>4, <1>5
  <1>7. Len(d) \in 0 .. Len(d)
    OBVIOUS
  <1> QED
    BY <1>2, <1>6, <1>7

LEMMA PassedOther ==
    ASSUME NEW s, NEW d, NEW t, Len(s) \in Nat, Len(d) \in Nat,
           Len(t) = Len(s) + Len(d),
           \A i \in 1 .. Len(s) : t[i] = s[i],
           \A j \in 1 .. Len(d) : t[Len(s) + j] = d[j],
           \A j \in 1 .. Len(d) : d[j].of = "other"
    PROVE  /\ \A i \in 0 .. Len(s) : Own(t, i) = Own(s, i)
           /\ Own(t, Len(t)) = Own(s, Len(s))
  <1>2. \A i \in 0 .. Len(s) : Own(t, i) = Own(s, i)
    <2> TAKE i \in 0 .. Len(s)
    <2>1. i \in Nat /\ \A j \in 1 .. i : t[j] = s[j]
      OBVIOUS
    <2> QED
      BY <2>1, OwnSame
  <1>3. \A j \in 0 .. Len(d) : Own(t, Len(s) + j) = Own(t, Len(s)) + Own(d, j)
    <2> TAKE j \in 0 .. Len(d)
    <2>1. j \in Nat /\ Len(s) + j \in Nat /\ Within(d, j, t, Len(s))
      BY DEF Within
    <2> QED
      BY <2>1, OwnShift
  <1>4. Own(d, Len(d)) = 0
    BY OwnNone
  <1>5. Own(t, Len(s)) = Own(s, Len(s)) /\ Len(d) \in 0 .. Len(d)
        /\ Own(s, Len(s)) \in Int
    BY <1>2, OwnType
  <1> QED
    BY <1>2, <1>3, <1>4, <1>5

----------------------------------------------------------------------------
(* Types. *)

LEMMA Sizes ==
    /\ HeaderLen \in Nat /\ HeaderLen >= 1
    /\ BufferSize \in Nat /\ BufferSize >= 1
    /\ ChatLen \in Nat /\ ChatLen >= 1
  BY FileRelayAssumption

LEMMA Pieces ==
    ASSUME RelayTypeOK, NEW p \in Packets
    PROVE  /\ Header(p) \in Seq(Byte) /\ Len(Header(p)) = HeaderLen
           /\ \A k \in 1 .. HeaderLen :
                Header(p)[k] = [of |-> p, part |-> "header", pos |-> k]
           /\ PayloadLen(p) \in Nat
           /\ Payload(p) \in Seq(Byte) /\ Len(Payload(p)) = PayloadLen(p)
           /\ \A k \in 1 .. PayloadLen(p) :
                Payload(p)[k] = [of |-> p, part |-> "payload", pos |-> k]
  <1>1. PayloadLen(p) \in Nat
    BY Sizes DEF PayloadLen, RelayTypeOK
  <1>2. ASSUME NEW part \in Parts, NEW n \in Nat
        PROVE  /\ BytesOf(p, part, 1, n) \in Seq(Byte)
               /\ Len(BytesOf(p, part, 1, n)) = n
               /\ \A k \in 1 .. n : BytesOf(p, part, 1, n)[k]
                                      = [of |-> p, part |-> part, pos |-> k]
    <2>1. /\ BytesOf(p, part, 1, n) \in Seq(Byte)
          /\ Len(BytesOf(p, part, 1, n)) = n - 1 + 1
          /\ \A k \in 1 .. n - 1 + 1 : BytesOf(p, part, 1, n)[k]
                                 = [of |-> p, part |-> part, pos |-> 1 + k - 1]
      BY BytesAre
    <2>2. n - 1 + 1 = n /\ \A k \in 1 .. n : 1 + k - 1 = k
      OBVIOUS
    <2> QED
      BY <2>1, <2>2
  <1>3. "header" \in Parts /\ "payload" \in Parts
    BY DEF Parts
  <1> QED
    BY <1>1, <1>2, <1>3, Sizes DEF Header, Payload

\* What SendFileData writes.
LEMMA DataPiece ==
    ASSUME RelayTypeOK, src.left <= file.size, NEW n, NEW from, NEW d,
           n = SmallerOf(src.left, BufferSize),
           from = file.size - src.left + 1,
           d = BytesOf("file", "file", from, from + n - 1)
    PROVE  /\ n \in Nat /\ n <= src.left
           /\ d \in Seq(Byte) /\ Len(d) = n
           /\ \A k \in 1 .. n :
                d[k] = [of |-> "file", part |-> "file",
                        pos |-> file.size - src.left + k]
  <1>1. src.left \in Nat /\ file.size \in Nat
    BY DEF RelayTypeOK
  <1>2. n \in Nat /\ n <= src.left
    BY <1>1, Sizes DEF SmallerOf
  <1>3. from \in Nat /\ from + n - 1 \in Int /\ from + n - 1 >= from - 1
    BY <1>1, <1>2
  <1>4. /\ d \in Seq(Byte)
        /\ Len(d) = (from + n - 1) - from + 1
        /\ \A k \in 1 .. (from + n - 1) - from + 1 :
             d[k] = [of |-> "file", part |-> "file", pos |-> from + k - 1]
    <2>1. PICK to : to = from + n - 1
      OBVIOUS
    <2>2. from \in Nat /\ to \in Int /\ to >= from - 1
      BY <1>3, <2>1
    <2>3. "file" \in Packets /\ "file" \in Parts
      BY DEF Packets, Parts
    <2>4. /\ BytesOf("file", "file", from, to) \in Seq(Byte)
          /\ Len(BytesOf("file", "file", from, to)) = to - from + 1
          /\ \A k \in 1 .. to - from + 1 :
               BytesOf("file", "file", from, to)[k]
                 = [of |-> "file", part |-> "file", pos |-> from + k - 1]
      BY <2>2, <2>3, BytesAre, Zenon
    <2>5. d = BytesOf("file", "file", from, to)
      BY <2>1
    <2> QED
      BY <2>1, <2>4, <2>5, Zenon
  <1>5. (from + n - 1) - from + 1 = n
        /\ \A k \in 1 .. n : from + k - 1 = file.size - src.left + k
    BY <1>1, <1>2
  <1> QED
    BY <1>2, <1>4, <1>5

\* What one recv() gives.
LEMMA Received ==
    ASSUME NEW stream \in Seq(Byte), NEW position \in 0 .. Len(stream),
           NEW k \in Nat, k <= Len(stream) - position
    PROVE  /\ SubSeq(stream, position + 1, position + k) \in Seq(Byte)
           /\ Len(SubSeq(stream, position + 1, position + k)) = k
           /\ \A j \in 1 .. k :
                SubSeq(stream, position + 1, position + k)[j] = stream[position + j]
           /\ Within(SubSeq(stream, position + 1, position + k), k, stream, position)
           /\ position + k \in 0 .. Len(stream)
  <1>1. Len(stream) \in Nat /\ position \in Nat /\ position + k <= Len(stream)
    BY LenProperties
  <1>2. /\ SubSeq(stream, position + 1, position + k) \in Seq(Byte)
        /\ Len(SubSeq(stream, position + 1, position + k)) = k
        /\ \A j \in 1 .. k :
             SubSeq(stream, position + 1, position + k)[j] = stream[position + j]
    BY <1>1, PartIs
  <1>3. position + k \in 0 .. Len(stream)
    BY <1>1
  <1>4. Within(SubSeq(stream, position + 1, position + k), k, stream, position)
    BY <1>2, Zenon DEF Within
  <1> QED
    BY <1>2, <1>3, <1>4

LEMMA TypeInit ==
    ASSUME Init
    PROVE  RelayTypeOK /\ file.info # 0
  <1>1. PICK n \in NameLens : file.info = InfoLen(n)
    BY DEF Init
  <1>2. file.info \in Nat /\ file.info # 0
    BY <1>1, InfoAssumption
  <1>3. file.size \in Nat
    BY FileRelayAssumption DEF Init
  <1>4. file \in [info : Nat, size : Nat]
    BY <1>2, <1>3 DEF Init
  <1>5. src \in [pc : SrcPcs, left : Nat]
    BY <1>3 DEF Init, SrcPcs
  <1>6. <<>> \in Seq(Byte) /\ Len(<<>>) = 0 /\ 0 \in Int
    BY EmptySeq
  <1>7. Waiting \in [pc : RecvPcs, hand : Seq(Byte), of : Packets, left : Int]
    BY <1>6 DEF Waiting, RecvPcs, Packets
  <1> QED
    BY <1>2, <1>4, <1>5, <1>6, <1>7 DEF Init, RelayTypeOK

\* What the threads of the receiving ends become.
LEMMA ThreadTypes ==
    ASSUME RelayTypeOK,
           NEW thread \in [pc : RecvPcs, hand : Seq(Byte), of : Packets, left : Int]
    PROVE  /\ Waiting \in [pc : RecvPcs, hand : Seq(Byte), of : Packets, left : Int]
           /\ Receiving \in [pc : RecvPcs, hand : Seq(Byte), of : Packets, left : Int]
           /\ ReadsHeader(thread)
                \in [pc : RecvPcs, hand : Seq(Byte), of : Packets, left : Int]
           /\ \A pc \in RecvPcs : [thread EXCEPT !.pc = pc]
                \in [pc : RecvPcs, hand : Seq(Byte), of : Packets, left : Int]
           /\ \A hand \in Seq(Byte) : [thread EXCEPT !.hand = hand]
                \in [pc : RecvPcs, hand : Seq(Byte), of : Packets, left : Int]
           /\ \A pc \in RecvPcs, left \in Int :
                [thread EXCEPT !.left = left, !.pc = pc]
                  \in [pc : RecvPcs, hand : Seq(Byte), of : Packets, left : Int]
  <1> DEFINE Threads == [pc : RecvPcs, hand : Seq(Byte), of : Packets, left : Int]
  <1>1. <<>> \in Seq(Byte)
    BY EmptySeq
  <1>2. Waiting \in Threads
    BY <1>1 DEF Waiting, RecvPcs, Packets
  <1>3. Receiving \in Threads
    <2>1. CASE file.size > 0
      <3>1. Receiving = [Waiting EXCEPT !.pc = "file", !.left = file.size]
        BY <2>1 DEF Receiving
      <3>2. file.size \in Int /\ "file" \in RecvPcs
        BY DEF RelayTypeOK, RecvPcs
      <3> QED
        BY <1>2, <3>1, <3>2
    <2>2. CASE ~(file.size > 0)
      BY <1>2, <2>2 DEF Receiving
    <2> QED
      BY <2>1, <2>2
  <1>4. ReadsHeader(thread) \in Threads
    <2> DEFINE p == CHOOSE p \in Packets : thread.hand = Header(p)
    <2>1. CASE \E q \in Packets : thread.hand = Header(q)
      <3>1. p \in Packets
        BY <2>1
      <3>2. ReadsHeader(thread) = [thread EXCEPT !.pc = "payload", !.hand = <<>>, !.of = p]
        BY <2>1 DEF ReadsHeader
      <3> HIDE DEF p
      <3> QED
        BY <1>1, <3>1, <3>2 DEF RecvPcs
    <2>2. CASE ~\E q \in Packets : thread.hand = Header(q)
      BY <2>2 DEF ReadsHeader, RecvPcs
    <2> QED
      BY <2>1, <2>2
  <1> QED
    BY <1>2, <1>3, <1>4

Threads == [pc : RecvPcs, hand : Seq(Byte), of : Packets, left : Int]

\* A stream that grows keeps its type, and whoever reads it its place.
LEMMA Grows ==
    ASSUME NEW stream \in Seq(Byte), NEW d \in Seq(Byte),
           NEW position \in 0 .. Len(stream)
    PROVE  stream \o d \in Seq(Byte) /\ position \in 0 .. Len(stream \o d)
  <1>1. /\ stream \o d \in Seq(Byte)
        /\ Len(stream \o d) = Len(stream) + Len(d)
        /\ Len(stream) \in Nat /\ Len(d) \in Nat
    BY JoinedIs
  <1> QED
    BY <1>1

\* What a recv() may take is there, and no more than was asked for.
LEMMA Least ==
    ASSUME NEW a \in Int, NEW b \in Int, NEW k \in 1 .. SmallerOf(a, b)
    PROVE  k \in Nat /\ k >= 1 /\ k <= a /\ k <= b
  BY DEF SmallerOf

LEMMA Asked ==
    ASSUME RelayTypeOK
    PROVE  /\ ForServer \in Int /\ ForDest \in Int
           /\ Wants(srv) - Len(srv.hand) \in Int
           /\ Wants(dst) - Len(dst.hand) \in Int
           /\ BufferSize \in Int /\ srv.left \in Int /\ dst.left \in Int
           /\ SmallerOf(dst.left, BufferSize) \in Int
           /\ Len(srv.hand) \in Nat /\ Len(dst.hand) \in Nat
           /\ Len(toServer) \in Nat /\ Len(toDest) \in Nat /\ Len(saved) \in Nat
           /\ taken \in Nat /\ read \in Nat /\ file.info \in Nat
           /\ file.size \in Nat /\ src.left \in Nat
  <1>1. /\ srv \in Threads /\ dst \in Threads /\ file.info \in Nat
        /\ toServer \in Seq(Byte) /\ toDest \in Seq(Byte) /\ saved \in Seq(Byte)
        /\ taken \in 0 .. Len(toServer) /\ read \in 0 .. Len(toDest)
        /\ file.size \in Nat /\ src.left \in Nat
    BY DEF RelayTypeOK, Threads
  <1>2. /\ srv.hand \in Seq(Byte) /\ dst.hand \in Seq(Byte)
        /\ srv.left \in Int /\ dst.left \in Int
    BY <1>1 DEF Threads
  <1>3. /\ Len(srv.hand) \in Nat /\ Len(dst.hand) \in Nat
        /\ Len(toServer) \in Nat /\ Len(toDest) \in Nat /\ Len(saved) \in Nat
    BY <1>1, <1>2, LenProperties
  <1>4. Wants(srv) \in Int /\ Wants(dst) \in Int
    BY <1>1, Sizes DEF Wants, PayloadLen
  <1>5. SmallerOf(dst.left, BufferSize) \in Int
    BY <1>2, Sizes DEF SmallerOf
  <1>6. taken \in Nat /\ read \in Nat
    BY <1>1, <1>3
  <1>7. ForServer \in Int /\ ForDest \in Int
    BY <1>3, <1>6 DEF ForServer, ForDest
  <1>8. /\ Wants(srv) - Len(srv.hand) \in Int
        /\ Wants(dst) - Len(dst.hand) \in Int
    BY <1>3, <1>4
  <1> QED
    BY <1>1, <1>2, <1>3, <1>5, <1>6, <1>7, <1>8, Sizes

LEMMA TypeSrc ==
    ASSUME RelayTypeOK, SrcInv,
           SrcThread \/ SendLineHeader \/ SendLinePayload \/ Goes
    PROVE  RelayTypeOK'
  <1>1. ASSUME NEW from \in SrcPcs, NEW d \in Seq(Byte), NEW to \in SrcPcs,
               SrcWrites(from, d, to)
        PROVE  RelayTypeOK'
    BY <1>1, Grows DEF RelayTypeOK, SrcWrites
  <1>2. <<>> \in Seq(Byte)
    BY EmptySeq
  <1>3. CASE SendFileHeader
    BY <1>1, <1>3, Pieces DEF SendFileHeader, SrcPcs, Packets
  <1>4. CASE SendFileInfo
    BY <1>1, <1>4, Pieces DEF SendFileInfo, SrcPcs, Packets
  <1>5. CASE SendFileData
    <2>1. PICK n, from, d : /\ n = SmallerOf(src.left, BufferSize)
                            /\ from = file.size - src.left + 1
                            /\ d = BytesOf("file", "file", from, from + n - 1)
                            /\ toServer' = toServer \o d
                            /\ src' = [src EXCEPT !.left = @ - n]
                            /\ UNCHANGED <<file, taken, srv, toDest, read, dst, saved, other>>
      BY <1>5 DEF SendFileData
    <2>2. n \in Nat /\ n <= src.left /\ d \in Seq(Byte)
      BY <2>1, DataPiece DEF SrcInv
    <2>3. src' \in [pc : SrcPcs, left : Nat]
      <3>1. src.left - n \in Nat
        <4>1. src.left \in Nat
          BY Asked
        <4> QED
          BY <2>2, <4>1
      <3> QED
        BY <2>1, <3>1 DEF RelayTypeOK
    <2> QED
      BY <2>1, <2>2, <2>3, Grows DEF RelayTypeOK
  <1>6. CASE SendFileEnds
    BY <1>1, <1>2, <1>6 DEF SendFileEnds, SrcPcs
  <1>7. CASE SendLineHeader
    BY <1>1, <1>7, Pieces DEF SendLineHeader, SrcPcs, Packets
  <1>8. CASE SendLinePayload
    BY <1>1, <1>8, Pieces DEF SendLinePayload, SrcPcs, Packets
  <1>9. CASE Goes
    BY <1>1, <1>2, <1>9 DEF Goes, SrcPcs, RelayTypeOK
  <1> QED
    BY <1>3, <1>4, <1>5, <1>6, <1>7, <1>8, <1>9 DEF SrcThread

LEMMA TypeSrv ==
    ASSUME RelayTypeOK, SrvThread \/ OtherHeader \/ OtherPayload
    PROVE  RelayTypeOK'
  <1>1. srv \in Threads
    BY DEF RelayTypeOK, Threads
  <1>2. ASSUME srv' \in Threads,
               UNCHANGED <<file, src, toServer, taken, toDest, read, dst, saved, other>>
        PROVE  RelayTypeOK'
    BY <1>2 DEF RelayTypeOK, Threads
  <1>3. ASSUME NEW d \in Seq(Byte), srv' \in Threads, toDest' = toDest \o d,
               taken' \in 0 .. Len(toServer),
               other' \in {"silent", "header", "payload", "done"},
               UNCHANGED <<file, src, toServer, read, dst, saved>>
        PROVE  RelayTypeOK'
    BY <1>3, Grows DEF RelayTypeOK, Threads
  <1>4. CASE SrvRecvAll
    <2>1. PICK k \in 1 .. SmallerOf(ForServer, Wants(srv) - Len(srv.hand)) :
                 /\ taken' = taken + k
                 /\ srv' = [srv EXCEPT !.hand = @ \o SrvReceives(k)]
      BY <1>4 DEF SrvRecvAll
    <2>2. k \in Nat /\ k <= ForServer
      BY <2>1, Asked, Least
    <2>3. SrvReceives(k) \in Seq(Byte) /\ taken + k \in 0 .. Len(toServer)
      BY <2>2, Received DEF SrvReceives, ForServer, RelayTypeOK
    <2>4. srv.hand \o SrvReceives(k) \in Seq(Byte)
      BY <2>3, ConcatProperties DEF RelayTypeOK
    <2>5. srv' \in Threads
      BY <1>1, <2>1, <2>4 DEF Threads
    <2> QED
      BY <1>4, <2>1, <2>3, <2>5 DEF SrvRecvAll, RelayTypeOK, Threads
  <1>5. CASE SrvHeader
    BY <1>1, <1>2, <1>5, ThreadTypes DEF SrvHeader, Threads
  <1>6. CASE SrvLine
    BY <1>1, <1>2, <1>6, ThreadTypes DEF SrvLine, Threads, RecvPcs
  <1>7. CASE RelayHeader
    <2>1. srv' \in Threads
      BY <1>1, <1>7 DEF RelayHeader, Threads, RecvPcs
    <2>2. Header("file") \in Seq(Byte)
      BY Pieces DEF Packets
    <2> QED
      BY <1>3, <1>7, <2>1, <2>2 DEF RelayHeader, RelayTypeOK
  <1>8. CASE RelayInfo
    <2>1. srv' \in Threads
      BY <1>1, <1>8, ThreadTypes DEF RelayInfo, Threads
    <2>2. srv.hand \in Seq(Byte)
      BY DEF RelayTypeOK
    <2> QED
      BY <1>3, <1>8, <2>1, <2>2 DEF RelayInfo, RelayTypeOK
  <1>9. CASE RelayChunk
    <2>1. PICK k \in 1 .. SmallerOf(ForServer, BufferSize) :
                 /\ taken' = taken + k
                 /\ toDest' = toDest \o SrvReceives(k)
                 /\ srv' = [srv EXCEPT !.left = @ - k,
                               !.pc = IF srv.left > k THEN "file" ELSE "header"]
      BY <1>9 DEF RelayChunk
    <2>2. k \in Nat /\ k <= ForServer
      BY <2>1, Asked, Least
    <2>3. SrvReceives(k) \in Seq(Byte) /\ taken + k \in 0 .. Len(toServer)
      BY <2>2, Received DEF SrvReceives, ForServer, RelayTypeOK
    <2>4. srv' \in Threads
      <3>1. srv.left - k \in Int
        BY <2>2, Asked, SMTT(30)
      <3>2. (IF srv.left > k THEN "file" ELSE "header") \in RecvPcs
        BY DEF RecvPcs
      <3> QED
        BY <1>1, <2>1, <3>1, <3>2 DEF Threads
    <2> QED
      BY <1>3, <1>9, <2>1, <2>3, <2>4 DEF RelayChunk, RelayTypeOK
  <1>10. CASE SrvEnd
    BY <1>1, <1>2, <1>10 DEF SrvEnd, Threads, RecvPcs
  <1>11. CASE OtherHeader
    <2>1. Header("other") \in Seq(Byte)
      BY Pieces DEF Packets
    <2> QED
      BY <1>1, <1>3, <1>11, <2>1 DEF OtherHeader, RelayTypeOK
  <1>12. CASE OtherPayload
    <2>1. Payload("other") \in Seq(Byte)
      BY Pieces DEF Packets
    <2> QED
      BY <1>1, <1>3, <1>12, <2>1 DEF OtherPayload, RelayTypeOK
  <1> QED
    BY <1>4, <1>5, <1>6, <1>7, <1>8, <1>9, <1>10, <1>11, <1>12 DEF SrvThread

LEMMA TypeDst ==
    ASSUME RelayTypeOK, DstThread
    PROVE  RelayTypeOK'
  <1>1. dst \in Threads
    BY DEF RelayTypeOK, Threads
  <1>2. ASSUME dst' \in Threads,
               UNCHANGED <<file, src, toServer, taken, srv, toDest, read, saved, other>>
        PROVE  RelayTypeOK'
    BY <1>2 DEF RelayTypeOK, Threads
  <1>3. CASE DstRecvAll
    <2>1. PICK k \in 1 .. SmallerOf(ForDest, Wants(dst) - Len(dst.hand)) :
                 /\ read' = read + k
                 /\ dst' = [dst EXCEPT !.hand = @ \o DstReceives(k)]
      BY <1>3 DEF DstRecvAll
    <2>2. k \in Nat /\ k <= ForDest
      BY <2>1, Asked, Least
    <2>3. DstReceives(k) \in Seq(Byte) /\ read + k \in 0 .. Len(toDest)
      BY <2>2, Received DEF DstReceives, ForDest, RelayTypeOK
    <2>4. dst.hand \o DstReceives(k) \in Seq(Byte)
      BY <2>3, ConcatProperties DEF RelayTypeOK
    <2>5. dst' \in Threads
      BY <1>1, <2>1, <2>4 DEF Threads
    <2> QED
      BY <1>3, <2>1, <2>3, <2>5 DEF DstRecvAll, RelayTypeOK, Threads
  <1>4. CASE DstHeader
    BY <1>1, <1>2, <1>4, ThreadTypes DEF DstHeader, Threads
  <1>5. CASE DstPayload
    <2>1. /\ dst' \in {[dst EXCEPT !.pc = "lost"], Receiving, Waiting}
          /\ UNCHANGED <<file, src, toServer, taken, srv, toDest, read, saved, other>>
      BY <1>5 DEF DstPayload
    <2>2. "lost" \in RecvPcs
      BY DEF RecvPcs
    <2>3. Waiting \in Threads /\ Receiving \in Threads
          /\ \A pc \in RecvPcs : [dst EXCEPT !.pc = pc] \in Threads
      BY <1>1, ThreadTypes DEF Threads
    <2>4. dst' \in Threads
      BY <2>1, <2>2, <2>3, Zenon
    <2> QED
      BY <1>2, <2>1, <2>4
  <1>6. CASE SaveChunk
    <2>1. PICK k \in 1 .. SmallerOf(ForDest, SmallerOf(dst.left, BufferSize)) :
                 /\ read' = read + k
                 /\ saved' = saved \o DstReceives(k)
                 /\ dst' = [dst EXCEPT !.left = @ - k,
                               !.pc = IF dst.left > k THEN "file" ELSE "header"]
      BY <1>6 DEF SaveChunk
    <2>2. k \in Nat /\ k <= ForDest
      BY <2>1, Asked, Least
    <2>3. DstReceives(k) \in Seq(Byte) /\ read + k \in 0 .. Len(toDest)
      BY <2>2, Received DEF DstReceives, ForDest, RelayTypeOK
    <2>4. dst' \in Threads
      <3>1. dst.left - k \in Int
        BY <2>2, Asked, SMTT(30)
      <3>2. (IF dst.left > k THEN "file" ELSE "header") \in RecvPcs
        BY DEF RecvPcs
      <3> QED
        BY <1>1, <2>1, <3>1, <3>2 DEF Threads
    <2>5. saved' \in Seq(Byte)
      BY <2>1, <2>3, ConcatProperties DEF RelayTypeOK
    <2> QED
      BY <1>6, <2>1, <2>3, <2>4, <2>5 DEF SaveChunk, RelayTypeOK, Threads
  <1> QED
    BY <1>3, <1>4, <1>5, <1>6 DEF DstThread

----------------------------------------------------------------------------
(* The stream of the sender. *)

\* The five parts of what the sender writes.
LEMMA SentIs ==
    ASSUME RelayTypeOK, SrcInv
    PROVE  /\ FileStart \in Nat /\ FileEnd \in Nat /\ FileEnd >= FileStart
           /\ FileStart > HeaderLen
           /\ \A j \in 1 .. HeaderLen :
                Sent(j) = [of |-> "file", part |-> "header", pos |-> j]
           /\ \A j \in 1 .. file.info :
                Sent(HeaderLen + j) = [of |-> "file", part |-> "payload", pos |-> j]
           /\ \A j \in 1 .. file.size - src.left :
                Sent(FileStart + j) = [of |-> "file", part |-> "file", pos |-> j]
           /\ \A j \in 1 .. HeaderLen :
                Sent(FileEnd + j) = [of |-> "line", part |-> "header", pos |-> j]
           /\ \A j \in 1 .. ChatLen :
                Sent(FileEnd + HeaderLen + j)
                  = [of |-> "line", part |-> "payload", pos |-> j]
  <1>1. /\ file.info \in Nat /\ file.size \in Nat /\ src.left \in Nat
        /\ file.info >= 1 /\ src.left <= file.size
    BY Asked DEF SrcInv
  <1>2. /\ FileStart \in Nat /\ FileEnd \in Nat /\ FileEnd >= FileStart
        /\ FileStart > HeaderLen
    BY <1>1, Sizes DEF FileStart, FileEnd
  <1>3. ASSUME NEW j \in 1 .. HeaderLen
        PROVE  Sent(j) = [of |-> "file", part |-> "header", pos |-> j]
    BY <1>3, Sizes DEF Sent
  <1>4. ASSUME NEW j \in 1 .. file.info
        PROVE  Sent(HeaderLen + j) = [of |-> "file", part |-> "payload", pos |-> j]
    <2> DEFINE i == HeaderLen + j
    <2>1. /\ ~(i <= HeaderLen) /\ i > HeaderLen
          /\ i <= FileStart /\ i - HeaderLen = j
      BY <1>1, Sizes DEF FileStart
    <2> HIDE DEF i
    <2>2. Sent(i) = [of |-> "file", part |-> "payload", pos |-> j]
      BY <2>1 DEF Sent
    <2> QED
      BY <2>2 DEF i
  <1>5. ASSUME NEW j \in 1 .. file.size - src.left
        PROVE  Sent(FileStart + j) = [of |-> "file", part |-> "file", pos |-> j]
    <2> DEFINE i == FileStart + j
    <2>1. /\ ~(i <= HeaderLen) /\ ~(i <= FileStart)
          /\ i > FileStart
          /\ i <= FileEnd /\ i - FileStart = j
      BY <1>1, Sizes DEF FileStart, FileEnd
    <2> HIDE DEF i
    <2>2. Sent(i) = [of |-> "file", part |-> "file", pos |-> j]
      BY <2>1 DEF Sent
    <2> QED
      BY <2>2 DEF i
  <1>6. ASSUME NEW j \in 1 .. HeaderLen
        PROVE  Sent(FileEnd + j) = [of |-> "line", part |-> "header", pos |-> j]
    <2> DEFINE i == FileEnd + j
    <2>1. /\ ~(i <= HeaderLen) /\ ~(i <= FileStart)
          /\ i > FileStart /\ ~(i <= FileEnd)
          /\ i > FileEnd /\ i <= FileEnd + HeaderLen
          /\ i - FileEnd = j
      BY <1>2, Sizes
    <2> HIDE DEF i
    <2>2. Sent(i) = [of |-> "line", part |-> "header", pos |-> j]
      BY <2>1 DEF Sent
    <2> QED
      BY <2>2 DEF i
  <1>7. ASSUME NEW j \in 1 .. ChatLen
        PROVE  Sent(FileEnd + HeaderLen + j)
                 = [of |-> "line", part |-> "payload", pos |-> j]
    <2> DEFINE i == FileEnd + HeaderLen + j
    <2>1. /\ ~(i <= HeaderLen) /\ ~(i <= FileStart) /\ i > FileStart
          /\ ~(i <= FileEnd) /\ ~(i <= FileEnd + HeaderLen)
          /\ i > FileEnd + HeaderLen /\ i - FileEnd - HeaderLen = j
      BY <1>2, Sizes
    <2> HIDE DEF i
    <2>2. Sent(i) = [of |-> "line", part |-> "payload", pos |-> j]
      BY <2>1 DEF Sent
    <2> QED
      BY <2>2 DEF i
  <1> QED
    BY <1>2, <1>3, <1>4, <1>5, <1>6, <1>7

\* What a byte of the sender tells of its place.
LEMMA SentTells ==
    ASSUME RelayTypeOK, SrcInv, NEW i \in 1 .. Len(toServer)
    PROVE  /\ toServer[i].of # "other"
           /\ toServer[i].of = "line" => i > FileEnd
           /\ toServer[i].of # "line" => i <= FileEnd
           /\ toServer[i].of = "file" => i <= FileEnd
           /\ toServer[i].of \in {"file", "line"}
           /\ toServer[i] = [of |-> "file", part |-> "payload", pos |-> file.info]
                => i = FileStart
           /\ toServer[i].of = "file" /\ toServer[i].part = "header" => i <= HeaderLen
  <1>1. toServer[i] = Sent(i) /\ i \in Nat
    BY DEF SrcInv
  <1>2. FileStart \in Nat /\ FileEnd \in Nat /\ FileEnd >= FileStart
        /\ FileStart = HeaderLen + file.info /\ FileStart > HeaderLen
        /\ file.info \in Nat
    BY SentIs, Asked DEF FileStart
  <1>3. CASE i <= HeaderLen
    BY <1>1, <1>2, <1>3, Sizes DEF Sent
  <1>4. CASE i > HeaderLen /\ i <= FileStart
    <2>1. Sent(i) = [of |-> "file", part |-> "payload", pos |-> i - HeaderLen]
      BY <1>1, <1>2, <1>4, Sizes DEF Sent
    <2>2. i - HeaderLen = file.info => i = FileStart
      BY <1>1, <1>2, Sizes
    <2> QED
      BY <1>1, <1>2, <1>4, <2>1, <2>2
  <1>5. CASE i > FileStart /\ i <= FileEnd
    <2>1. Sent(i) = [of |-> "file", part |-> "file", pos |-> i - FileStart]
      BY <1>1, <1>2, <1>5, Sizes DEF Sent
    <2> QED
      BY <1>1, <1>2, <1>5, <2>1
  <1>6. CASE i > FileEnd
    <2>1. Sent(i).of = "line"
      <3>1. ~(i <= HeaderLen) /\ ~(i <= FileStart) /\ i > FileStart /\ ~(i <= FileEnd)
        BY <1>1, <1>2, <1>6, Sizes
      <3>2. CASE i <= FileEnd + HeaderLen
        BY <1>6, <3>1, <3>2 DEF Sent
      <3>3. CASE ~(i <= FileEnd + HeaderLen)
        <4>1. i > FileEnd + HeaderLen
          BY <1>1, <1>2, <3>3, Sizes
        <4> QED
          BY <1>6, <3>1, <3>3, <4>1 DEF Sent
      <3> QED
        BY <3>2, <3>3
    <2> QED
      BY <1>1, <1>2, <1>6, <2>1
  <1> QED
    BY <1>1, <1>2, <1>3, <1>4, <1>5, <1>6, Sizes

\* A write that goes on where the stream is.
LEMMA SrcAppends ==
    ASSUME RelayTypeOK, SrcInv, NEW d \in Seq(Byte),
           toServer' = toServer \o d, file' = file, src'.left = src.left,
           \A j \in 1 .. Len(d) : d[j] = Sent(Len(toServer) + j)
    PROVE  /\ \A i \in 1 .. Len(toServer') : toServer'[i] = Sent(i)'
           /\ Len(toServer') = Len(toServer) + Len(d)
           /\ FileEnd' = FileEnd
  <1>1. toServer \in Seq(Byte)
    BY DEF RelayTypeOK
  <1>2. PICK t : t = toServer'
    OBVIOUS
  <1>3. /\ Len(t) = Len(toServer) + Len(d)
        /\ \A i \in 1 .. Len(toServer) : t[i] = toServer[i]
        /\ Len(toServer) \in Nat /\ Len(d) \in Nat
        /\ \A i \in Len(toServer) + 1 .. Len(t) :
             i - Len(toServer) \in 1 .. Len(d) /\ t[i] = d[i - Len(toServer)]
    BY <1>1, <1>2, JoinedIs
  <1>4. FileStart' = FileStart /\ FileEnd' = FileEnd
    BY DEF FileStart, FileEnd
  <1>5. ASSUME NEW i
        PROVE  Sent(i)' = Sent(i)
    BY <1>4 DEF Sent
  <1>6. ASSUME NEW i \in 1 .. Len(t)
        PROVE  t[i] = Sent(i)
    <2>1. CASE i <= Len(toServer)
      BY <1>3, <2>1 DEF SrcInv
    <2>2. CASE ~(i <= Len(toServer))
      <3>1. i \in Len(toServer) + 1 .. Len(t)
            /\ Len(toServer) + (i - Len(toServer)) = i
        BY <1>3, <2>2
      <3> QED
        BY <1>3, <3>1
    <2> QED
      BY <2>1, <2>2
  <1>7. ASSUME NEW i \in 1 .. Len(toServer')
        PROVE  toServer'[i] = Sent(i)'
    BY <1>2, <1>5, <1>6
  <1> QED
    BY <1>2, <1>3, <1>4, <1>7

LEMMA SrcInit == Init => SrcInv
  <1> SUFFICES ASSUME Init
               PROVE  SrcInv
    OBVIOUS
  <1>1. RelayTypeOK /\ file.info # 0
    BY TypeInit
  <1>2. Len(toServer) = 0 /\ src.pc = "header" /\ src.left = file.size
    BY EmptySeq DEF Init
  <1> QED
    BY <1>1, <1>2, Asked, Sizes DEF SrcInv

LEMMA SrcStep ==
    ASSUME RelayTypeOK, SrcInv,
           SrcThread \/ SendLineHeader \/ SendLinePayload \/ Goes
    PROVE  SrcInv'
  <1>1. /\ Len(toServer) \in Nat /\ file.info \in Nat /\ file.size \in Nat
        /\ src.left \in Nat
        /\ src \in [pc : SrcPcs, left : Nat]
    BY Asked DEF RelayTypeOK
  <1>2. ASSUME NEW from \in SrcPcs, NEW d \in Seq(Byte), NEW to \in SrcPcs,
               SrcWrites(from, d, to),
               \A j \in 1 .. Len(d) : d[j] = Sent(Len(toServer) + j),
               NEW n, n = Len(toServer) + Len(d),
               n <= HeaderLen => src.left = file.size,
               to = "header" => n = 0,
               to = "info" => n = HeaderLen,
               to \in {"data", "chat"} => n = FileEnd,
               to = "line" => n = FileEnd + HeaderLen,
               n \in {0, HeaderLen, FileEnd, FileEnd + HeaderLen,
                      FileEnd + HeaderLen + ChatLen}
        PROVE  SrcInv'
    <2>1. toServer' = toServer \o d /\ file' = file /\ src'.left = src.left
          /\ src'.pc = to
      BY <1>1, <1>2 DEF SrcWrites
    <2>2. /\ \A i \in 1 .. Len(toServer') : toServer'[i] = Sent(i)'
          /\ Len(toServer') = n
          /\ FileEnd' = FileEnd
      BY <1>2, <2>1, SrcAppends
    <2>3. file.info # 0 /\ src.left <= file.size
      BY DEF SrcInv
    <2>4. \A i \in 1 .. Len(toServer)' : toServer[i]' = Sent(i)'
      BY <2>2
    <2> QED
      BY <1>2, <2>1, <2>2, <2>3, <2>4 DEF SrcInv
  <1>3. /\ FileStart \in Nat /\ FileEnd \in Nat /\ FileEnd >= FileStart
        /\ FileStart > HeaderLen /\ FileStart = HeaderLen + file.info
        /\ FileEnd = FileStart + file.size - src.left
    BY SentIs DEF FileStart, FileEnd
  <1>4. <<>> \in Seq(Byte) /\ Len(<<>>) = 0
    BY EmptySeq
  <1>5. CASE SendFileHeader
    <2>1. src.pc = "header" /\ Len(toServer) = 0
      BY <1>5 DEF SendFileHeader, SrcWrites, SrcInv
    <2>2. src.left = file.size
      BY <2>1, Sizes DEF SrcInv
    <2> DEFINE d == Header("file")
    <2>3. /\ d \in Seq(Byte) /\ Len(d) = HeaderLen
          /\ \A k \in 1 .. HeaderLen : d[k] = [of |-> "file", part |-> "header", pos |-> k]
      BY Pieces DEF Packets
    <2>4. SrcWrites("header", d, "info") /\ "header" \in SrcPcs /\ "info" \in SrcPcs
      BY <1>5 DEF SendFileHeader, SrcPcs
    <2> HIDE DEF d
    <2>5. \A j \in 1 .. Len(d) : d[j] = Sent(Len(toServer) + j)
      BY <2>1, <2>3, SentIs
    <2> QED
      <3>1. PICK n : n = Len(toServer) + Len(d)
        OBVIOUS
      <3>2. n = HeaderLen /\ n # 0
        BY <2>1, <2>3, <3>1, Sizes
      <3> QED
        BY <1>2, <2>2, <2>3, <2>4, <2>5, <3>1, <3>2
  <1>6. CASE SendFileInfo
    <2>1. src.pc = "info" /\ Len(toServer) = HeaderLen
      BY <1>6 DEF SendFileInfo, SrcWrites, SrcInv
    <2>2. src.left = file.size
      BY <2>1, Sizes DEF SrcInv
    <2> DEFINE d == Payload("file")
    <2>3. /\ d \in Seq(Byte) /\ Len(d) = file.info
          /\ \A k \in 1 .. file.info : d[k] = [of |-> "file", part |-> "payload", pos |-> k]
      BY Pieces DEF Packets, PayloadLen
    <2>4. SrcWrites("info", d, "data") /\ "data" \in SrcPcs /\ "info" \in SrcPcs
      BY <1>6 DEF SendFileInfo, SrcPcs
    <2> HIDE DEF d
    <2>5. \A j \in 1 .. Len(d) : d[j] = Sent(Len(toServer) + j)
      BY <2>1, <2>3, SentIs, ZenonT(30)
    <2>6. PICK n : n = Len(toServer) + Len(d)
      OBVIOUS
    <2>7. n = FileEnd /\ ~(n <= HeaderLen)
      BY <1>1, <1>3, <2>1, <2>2, <2>3, <2>6, Sizes
    <2> QED
      BY <1>2, <2>3, <2>4, <2>5, <2>6, <2>7
  <1>7. CASE SendFileData
    <2>1. PICK n, from, d : /\ n = SmallerOf(src.left, BufferSize)
                            /\ from = file.size - src.left + 1
                            /\ d = BytesOf("file", "file", from, from + n - 1)
                            /\ toServer' = toServer \o d
                            /\ src' = [src EXCEPT !.left = @ - n]
                            /\ src.pc = "data"
                            /\ file' = file
      BY <1>7 DEF SendFileData
    <2>2. /\ n \in Nat /\ n <= src.left
          /\ d \in Seq(Byte) /\ Len(d) = n
          /\ \A k \in 1 .. n : d[k] = [of |-> "file", part |-> "file",
                                       pos |-> file.size - src.left + k]
      BY <2>1, DataPiece DEF SrcInv
    <2>3. Len(toServer) = FileEnd /\ src.left <= file.size /\ file.info # 0
      BY <2>1 DEF SrcInv
    <2>4. src'.left = src.left - n /\ src'.pc = "data" /\ src'.left \in Nat
      BY <1>1, <2>1, <2>2
    <2>5. FileStart' = FileStart /\ FileEnd' = FileEnd + n
      <3>1. FileStart' = FileStart /\ FileEnd' = FileStart + file.size - (src.left - n)
        BY <2>1, <2>4 DEF FileStart, FileEnd
      <3>2. PICK f \in Nat, s \in Nat, l \in Nat :
                   f = FileStart /\ s = file.size /\ l = src.left
        BY <1>1, <1>3
      <3>3. f \in Int /\ s \in Int /\ l \in Int /\ n \in Int
        BY <2>2, <3>2
      <3>4. f + s - (l - n) = (f + s - l) + n
        BY ONLY <3>3
      <3> QED
        BY <1>3, <3>1, <3>2, <3>4
    <2>6. PICK t, e : t = toServer' /\ e = FileEnd'
      OBVIOUS
    <2>7. /\ Len(t) = Len(toServer) + Len(d)
          /\ \A i \in 1 .. Len(toServer) : t[i] = toServer[i]
          /\ \A i \in Len(toServer) + 1 .. Len(t) :
               i - Len(toServer) \in 1 .. Len(d) /\ t[i] = d[i - Len(toServer)]
      <3>1. toServer \in Seq(Byte) /\ d \in Seq(Byte) /\ t = toServer \o d
        BY <2>1, <2>2, <2>6 DEF RelayTypeOK
      <3> QED
        BY <3>1, JoinedIs
    <2>8. ASSUME NEW i \in 1 .. Len(t)
          PROVE  t[i] = Sent(i)'
      <3>1. CASE i <= Len(toServer)
        <4>1. t[i] = Sent(i) /\ i \in Nat /\ i <= FileEnd /\ i <= FileEnd'
          BY <1>3, <2>2, <2>3, <2>5, <2>7, <3>1 DEF SrcInv
        <4>2. Sent(i)' = Sent(i)
          <5>1. CASE i <= HeaderLen
            BY <5>1 DEF Sent
          <5>2. CASE ~(i <= HeaderLen) /\ i <= FileStart
            <6>1. i > HeaderLen
              BY <4>1, <5>2, Sizes
            <6> QED
              BY <2>5, <5>2, <6>1 DEF Sent
          <5>3. CASE ~(i <= HeaderLen) /\ ~(i <= FileStart)
            <6>1. i > HeaderLen /\ i > FileStart
              BY <1>3, <4>1, <5>3, Sizes
            <6> QED
              BY <2>5, <4>1, <5>3, <6>1 DEF Sent
          <5> QED
            BY <5>1, <5>2, <5>3
        <4> QED
          BY <4>1, <4>2
      <3>2. CASE ~(i <= Len(toServer))
        <4>1. /\ i \in Len(toServer) + 1 .. Len(t) /\ i \in Nat
              /\ i > FileStart /\ ~(i <= FileStart) /\ ~(i <= HeaderLen)
              /\ i <= FileEnd + n
          <5>1. PICK f \in Nat, g \in Nat, m \in Nat :
                       f = FileStart /\ g = FileEnd /\ m = Len(t) /\ g >= f
            BY <1>1, <1>3, <2>2, <2>7, SMTT(30)
          <5>2. m = g + n /\ Len(toServer) = g /\ i \in 1 .. m /\ ~(i <= g)
                /\ f > HeaderLen
            BY <1>3, <2>2, <2>3, <2>7, <3>2, <5>1
          <5>3. /\ i \in g + 1 .. m /\ i \in Nat /\ i > f /\ ~(i <= f)
                /\ ~(i <= HeaderLen) /\ i <= g + n
            BY <2>2, <5>1, <5>2, Sizes
          <5> QED
            BY <5>1, <5>2, <5>3
        <4>2. PICK j \in 1 .. n : j = i - Len(toServer) /\ t[i] = d[j]
          BY <2>2, <2>7, <4>1
        <4>3. t[i] = [of |-> "file", part |-> "file", pos |-> file.size - src.left + j]
          BY <2>2, <4>2
        <4>4. file.size - src.left + j = i - FileStart
          <5>1. PICK f \in Nat, s \in Nat, l \in Nat :
                       f = FileStart /\ s = file.size /\ l = src.left
            BY <1>1, <1>3
          <5>2. j = i - (f + s - l) /\ i \in Nat
            BY <1>3, <2>3, <4>1, <4>2, <5>1
          <5>3. s - l + j = i - f
            BY <5>1, <5>2
          <5> QED
            BY <5>1, <5>3
        <4>5. Sent(i)' = [of |-> "file", part |-> "file", pos |-> i - FileStart]
          BY <2>5, <4>1 DEF Sent
        <4> QED
          BY <4>3, <4>4, <4>5
      <3> QED
        BY <3>1, <3>2
    <2>9. Len(t) = e /\ ~(e <= HeaderLen)
      BY <1>3, <2>2, <2>3, <2>5, <2>6, <2>7, Sizes
    <2>10. \A i \in 1 .. Len(toServer)' : toServer[i]' = Sent(i)'
      BY <2>6, <2>8
    <2>11. /\ Len(toServer)' = FileEnd' /\ ~(Len(toServer)' <= HeaderLen)
           /\ src'.left <= file.size
      BY <1>1, <2>2, <2>3, <2>4, <2>6, <2>9
    <2> QED
      BY <2>1, <2>3, <2>4, <2>10, <2>11 DEF SrcInv
  <1>8. CASE SendFileEnds
    <2>1. src.pc = "data" /\ Len(toServer) = FileEnd
      BY <1>8 DEF SendFileEnds, SrcWrites, SrcInv
    <2>2. PICK n : n = Len(toServer) + Len(<<>>) /\ n = FileEnd /\ ~(n <= HeaderLen)
      BY <1>3, <1>4, <2>1, Sizes
    <2>3. SrcWrites("data", <<>>, "chat") /\ "data" \in SrcPcs /\ "chat" \in SrcPcs
      BY <1>8 DEF SendFileEnds, SrcPcs
    <2>4. \A j \in 1 .. Len(<<>>) : <<>>[j] = Sent(Len(toServer) + j)
      BY <1>4
    <2> QED
      BY <1>2, <1>4, <2>2, <2>3, <2>4
  <1>9. CASE SendLineHeader
    <2>1. src.pc = "chat" /\ Len(toServer) = FileEnd
      BY <1>9 DEF SendLineHeader, SrcWrites, SrcInv
    <2> DEFINE d == Header("line")
    <2>2. /\ d \in Seq(Byte) /\ Len(d) = HeaderLen
          /\ \A k \in 1 .. HeaderLen : d[k] = [of |-> "line", part |-> "header", pos |-> k]
      BY Pieces DEF Packets
    <2>3. SrcWrites("chat", d, "line") /\ "chat" \in SrcPcs /\ "line" \in SrcPcs
      BY <1>9 DEF SendLineHeader, SrcPcs
    <2> HIDE DEF d
    <2>4. \A j \in 1 .. Len(d) : d[j] = Sent(Len(toServer) + j)
      BY <2>1, <2>2, SentIs
    <2>5. PICK n : n = Len(toServer) + Len(d)
      OBVIOUS
    <2>6. n = FileEnd + HeaderLen /\ ~(n <= HeaderLen)
      BY <1>3, <2>1, <2>2, <2>5, Sizes
    <2> QED
      BY <1>2, <2>2, <2>3, <2>4, <2>5, <2>6
  <1>10. CASE SendLinePayload
    <2>1. src.pc = "line" /\ Len(toServer) = FileEnd + HeaderLen
      BY <1>10 DEF SendLinePayload, SrcWrites, SrcInv
    <2> DEFINE d == Payload("line")
    <2>2. /\ d \in Seq(Byte) /\ Len(d) = ChatLen
          /\ \A k \in 1 .. ChatLen : d[k] = [of |-> "line", part |-> "payload", pos |-> k]
      BY Pieces DEF Packets, PayloadLen
    <2>3. SrcWrites("line", d, "idle") /\ "idle" \in SrcPcs /\ "line" \in SrcPcs
      BY <1>10 DEF SendLinePayload, SrcPcs
    <2> HIDE DEF d
    <2>4. \A j \in 1 .. Len(d) : d[j] = Sent(Len(toServer) + j)
      BY <2>1, <2>2, SentIs
    <2>5. PICK n : n = Len(toServer) + Len(d)
      OBVIOUS
    <2>6. n = FileEnd + HeaderLen + ChatLen /\ ~(n <= HeaderLen)
      BY <1>3, <2>1, <2>2, <2>5, Sizes
    <2> QED
      BY <1>2, <2>2, <2>3, <2>4, <2>5, <2>6
  <1>11. CASE Goes
    <2>1. PICK n : n = Len(toServer) + Len(<<>>) /\ n = Len(toServer)
      BY <1>1, <1>4
    <2>2. SrcWrites(src.pc, <<>>, "gone") /\ src.pc \in SrcPcs /\ "gone" \in SrcPcs
      BY <1>1, <1>11 DEF Goes, SrcPcs
    <2>3. \A j \in 1 .. Len(<<>>) : <<>>[j] = Sent(Len(toServer) + j)
      BY <1>4
    <2>4. /\ n <= HeaderLen => src.left = file.size
          /\ n \in {0, HeaderLen, FileEnd, FileEnd + HeaderLen,
                    FileEnd + HeaderLen + ChatLen}
      BY <2>1 DEF SrcInv
    <2> QED
      BY <1>2, <1>4, <2>1, <2>2, <2>3, <2>4
  <1> QED
    BY <1>5, <1>6, <1>7, <1>8, <1>9, <1>10, <1>11 DEF SrcThread

\* The others leave the sender's stream alone.
LEMMA SrcKept ==
    ASSUME SrcInv, UNCHANGED <<file, src, toServer>>
    PROVE  SrcInv'
  <1>1. FileStart' = FileStart /\ FileEnd' = FileEnd
    BY DEF FileStart, FileEnd
  <1>2. ASSUME NEW i
        PROVE  Sent(i)' = Sent(i)
    BY <1>1 DEF Sent
  <1>3. \A i \in 1 .. Len(toServer)' : toServer[i]' = Sent(i)'
    BY <1>2 DEF SrcInv
  <1> QED
    BY <1>1, <1>3 DEF SrcInv

----------------------------------------------------------------------------
(* What the server passes on. *)

LEMMA SrcGrows ==
    ASSUME RelayTypeOK, SrcInv,
           SrcThread \/ SendLineHeader \/ SendLinePayload \/ Goes
    PROVE  /\ \E d \in Seq(Byte) : toServer' = toServer \o d
           /\ UNCHANGED <<file, taken, srv, toDest, read, dst, saved, other>>
           /\ src.left = 0 => src'.left = 0
  <1>1. <<>> \in Seq(Byte) /\ Header("file") \in Seq(Byte)
        /\ Payload("file") \in Seq(Byte) /\ Header("line") \in Seq(Byte)
        /\ Payload("line") \in Seq(Byte)
    BY EmptySeq, Pieces DEF Packets
  <1>2. ASSUME NEW from, NEW d \in Seq(Byte), NEW to, SrcWrites(from, d, to)
        PROVE  /\ \E e \in Seq(Byte) : toServer' = toServer \o e
               /\ UNCHANGED <<file, taken, srv, toDest, read, dst, saved, other>>
               /\ src.left = 0 => src'.left = 0
    BY <1>2 DEF SrcWrites, RelayTypeOK
  <1>3. CASE SendFileData
    <2>1. PICK n, from, d : /\ n = SmallerOf(src.left, BufferSize)
                            /\ from = file.size - src.left + 1
                            /\ d = BytesOf("file", "file", from, from + n - 1)
                            /\ toServer' = toServer \o d
                            /\ src.left > 0
                            /\ UNCHANGED <<file, taken, srv, toDest, read, dst, saved, other>>
      BY <1>3 DEF SendFileData
    <2>2. d \in Seq(Byte)
      BY <2>1, DataPiece DEF SrcInv
    <2>3. src.left # 0
      BY <2>1, Asked
    <2> QED
      BY <2>1, <2>2, <2>3
  <1> QED
    BY <1>1, <1>2, <1>3 DEF SrcThread, SendFileHeader, SendFileInfo, SendFileEnds,
       SendLineHeader, SendLinePayload, Goes

LEMMA OwnPositive ==
    ASSUME NEW bytes, NEW i \in Nat, i >= 1, bytes[i].of # "other"
    PROVE  Own(bytes, i) >= 1 /\ Own(bytes, i) <= i /\ Own(bytes, i) \in Nat
  <1>1. PICK n \in Nat : n + 1 = i
    <2>1. i - 1 \in Nat /\ (i - 1) + 1 = i
      OBVIOUS
    <2> QED
      BY <2>1
  <1>2. bytes[n + 1].of # "other" => Own(bytes, n + 1) = Own(bytes, n) + 1
    BY <1>1, OwnStep
  <1>3. Own(bytes, n) \in Nat /\ Own(bytes, n) <= n
    BY <1>1, OwnType
  <1>4. Own(bytes, i) = Own(bytes, n) + 1
    BY <1>1, <1>2
  <1> QED
    BY <1>1, <1>3, <1>4

\* The sender writes on: what has been passed on stays right.
LEMMA RelayedSrc ==
    ASSUME RelayTypeOK, RelayedInv, NEW d \in Seq(Byte), toServer' = toServer \o d,
           toDest' = toDest
    PROVE  RelayedInv'
  <1>1. toServer \in Seq(Byte)
    BY DEF RelayTypeOK
  <1>2. PICK t : t = toServer'
    OBVIOUS
  <1>3. /\ Len(t) = Len(toServer) + Len(d)
        /\ \A i \in 1 .. Len(toServer) : t[i] = toServer[i]
        /\ Len(toServer) \in Nat /\ Len(d) \in Nat
    BY <1>1, <1>2, JoinedIs
  <1>4. ASSUME NEW i \in 1 .. Len(toDest), toDest[i].of # "other"
        PROVE  Own(toDest, i) <= Len(t) /\ toDest[i] = t[Own(toDest, i)]
    <2>1. Own(toDest, i) <= Len(toServer) /\ toDest[i] = toServer[Own(toDest, i)]
      BY <1>4 DEF RelayedInv
    <2>2. i \in Nat /\ i >= 1
      BY Asked
    <2>3. Own(toDest, i) >= 1 /\ Own(toDest, i) \in Nat
      BY <1>4, <2>2, OwnPositive
    <2>4. Own(toDest, i) \in 1 .. Len(toServer) /\ Own(toDest, i) <= Len(t)
      BY <1>3, <2>1, <2>3
    <2> QED
      BY <1>3, <2>1, <2>4
  <1> QED
    BY <1>2, <1>4 DEF RelayedInv, Own

\* The server passes on what comes next, or somebody else writes.
LEMMA RelayedOn ==
    ASSUME RelayTypeOK, RelayedInv, NEW d \in Seq(Byte), toDest' = toDest \o d,
           toServer' = toServer,
           \A j \in 1 .. Len(d) : /\ d[j].of # "other"
                                  /\ Relayed + j <= Len(toServer)
                                  /\ d[j] = toServer[Relayed + j]
    PROVE  RelayedInv' /\ Relayed' = Relayed + Len(d)
  <1>1. toDest \in Seq(Byte)
    BY DEF RelayTypeOK
  <1>2. PICK t : t = toDest'
    OBVIOUS
  <1>3. /\ Len(t) = Len(toDest) + Len(d)
        /\ \A i \in 1 .. Len(toDest) : t[i] = toDest[i]
        /\ \A j \in 1 .. Len(d) : t[Len(toDest) + j] = d[j]
        /\ \A i \in Len(toDest) + 1 .. Len(t) :
             i - Len(toDest) \in 1 .. Len(d) /\ t[i] = d[i - Len(toDest)]
        /\ Len(toDest) \in Nat /\ Len(d) \in Nat
    BY <1>1, <1>2, JoinedIs
  <1>4. /\ \A i \in 0 .. Len(toDest) : Own(t, i) = Own(toDest, i)
        /\ \A j \in 0 .. Len(d) : Own(t, Len(toDest) + j) = Relayed + j
        /\ Own(t, Len(t)) = Relayed + Len(d)
    BY <1>3, Passed, ZenonT(30) DEF Relayed
  <1>5. ASSUME NEW i \in 1 .. Len(t), t[i].of # "other"
        PROVE  Own(t, i) <= Len(toServer) /\ t[i] = toServer[Own(t, i)]
    <2>1. CASE i <= Len(toDest)
      <3>1. i \in 1 .. Len(toDest) /\ i \in 0 .. Len(toDest)
        BY <1>3, <2>1
      <3>2. Own(t, i) = Own(toDest, i) /\ t[i] = toDest[i]
        BY <1>3, <1>4, <3>1
      <3> QED
        BY <1>5, <3>1, <3>2 DEF RelayedInv
    <2>2. CASE ~(i <= Len(toDest))
      <3>1. i \in Len(toDest) + 1 .. Len(t)
        BY <1>3, <2>2
      <3>2. PICK j \in 1 .. Len(d) : j = i - Len(toDest) /\ t[i] = d[j]
        BY <1>3, <3>1
      <3>3. i = Len(toDest) + j /\ j \in 0 .. Len(d)
        BY <1>3, <3>1, <3>2
      <3>4. Own(t, i) = Relayed + j
        BY <1>4, <3>3
      <3> QED
        BY <3>2, <3>4
    <2> QED
      BY <2>1, <2>2
  <1>6. Relayed' = Own(t, Len(t))
    BY <1>2 DEF Relayed, Own
  <1>7. \A i \in 1 .. Len(toDest)' : toDest'[i].of # "other" =>
          /\ Own(toDest', i) <= Len(toServer')
          /\ toDest'[i] = toServer'[Own(toDest', i)]
    BY <1>2, <1>5
  <1>8. RelayedInv'
    BY <1>7 DEF RelayedInv, Own
  <1> QED
    BY <1>4, <1>6, <1>8

LEMMA RelayedOther ==
    ASSUME RelayTypeOK, RelayedInv, NEW d \in Seq(Byte), toDest' = toDest \o d,
           toServer' = toServer, \A j \in 1 .. Len(d) : d[j].of = "other"
    PROVE  RelayedInv' /\ Relayed' = Relayed
  <1>1. toDest \in Seq(Byte)
    BY DEF RelayTypeOK
  <1>2. PICK t : t = toDest'
    OBVIOUS
  <1>3. /\ Len(t) = Len(toDest) + Len(d)
        /\ \A i \in 1 .. Len(toDest) : t[i] = toDest[i]
        /\ \A j \in 1 .. Len(d) : t[Len(toDest) + j] = d[j]
        /\ \A i \in Len(toDest) + 1 .. Len(t) :
             i - Len(toDest) \in 1 .. Len(d) /\ t[i] = d[i - Len(toDest)]
        /\ Len(toDest) \in Nat /\ Len(d) \in Nat
    BY <1>1, <1>2, JoinedIs
  <1>4. /\ \A i \in 0 .. Len(toDest) : Own(t, i) = Own(toDest, i)
        /\ Own(t, Len(t)) = Relayed
    BY <1>3, PassedOther DEF Relayed
  <1>5. ASSUME NEW i \in 1 .. Len(t), t[i].of # "other"
        PROVE  Own(t, i) <= Len(toServer) /\ t[i] = toServer[Own(t, i)]
    <2>1. CASE i <= Len(toDest)
      <3>1. i \in 1 .. Len(toDest) /\ i \in 0 .. Len(toDest)
        BY <1>3, <2>1
      <3>2. Own(t, i) = Own(toDest, i) /\ t[i] = toDest[i]
        BY <1>3, <1>4, <3>1
      <3> QED
        BY <1>5, <3>1, <3>2 DEF RelayedInv
    <2>2. CASE ~(i <= Len(toDest))
      <3>1. i \in Len(toDest) + 1 .. Len(t)
        BY <1>3, <2>2
      <3> QED
        BY <1>3, <1>5, <3>1
    <2> QED
      BY <2>1, <2>2
  <1>6. Relayed' = Own(t, Len(t))
    BY <1>2 DEF Relayed, Own
  <1>7. \A i \in 1 .. Len(toDest)' : toDest'[i].of # "other" =>
          /\ Own(toDest', i) <= Len(toServer')
          /\ toDest'[i] = toServer'[Own(toDest', i)]
    BY <1>2, <1>5
  <1>8. RelayedInv'
    BY <1>7 DEF RelayedInv, Own
  <1> QED
    BY <1>4, <1>6, <1>8

\* What is in hand stays what came last: when more is received; when the stream
\* grows.
LEMMA HandGrows ==
    ASSUME NEW stream \in Seq(Byte), NEW position \in 0 .. Len(stream),
           NEW hand \in Seq(Byte), InHand(hand, stream, position),
           NEW k \in Nat, k <= Len(stream) - position,
           NEW d \in Seq(Byte), Len(d) = k, Within(d, k, stream, position)
    PROVE  /\ InHand(hand \o d, stream, position + k)
           /\ Len(hand \o d) = Len(hand) + k
           /\ position + k - Len(hand \o d) = position - Len(hand)
  <1>1. /\ d \in Seq(Byte) /\ Len(d) = k
        /\ \A j \in 1 .. k : d[j] = stream[position + j]
    BY DEF Within
  <1>2. PICK t : t = hand \o d
    OBVIOUS
  <1>3. /\ Len(t) = Len(hand) + Len(d)
        /\ \A i \in 1 .. Len(hand) : t[i] = hand[i]
        /\ \A i \in Len(hand) + 1 .. Len(t) :
             i - Len(hand) \in 1 .. Len(d) /\ t[i] = d[i - Len(hand)]
        /\ Len(hand) \in Nat /\ Len(d) \in Nat
    <2>1. hand \in Seq(Byte) /\ d \in Seq(Byte) /\ t = hand \o d
      BY <1>2
    <2> QED
      BY ONLY <2>1, JoinedIs
  <1>4. Len(stream) \in Nat /\ position \in Nat
    BY LenProperties
  <1>5. Len(hand) <= position
    BY DEF InHand
  <1>6. (position + k) - Len(t) = position - Len(hand) /\ Len(t) <= position + k
    <2>1. Len(t) = Len(hand) + k /\ Len(hand) \in Nat
      BY <1>1, <1>3
    <2> QED
      BY <1>4, <1>5, <2>1
  <1>7. ASSUME NEW i \in 1 .. Len(t)
        PROVE  t[i] = stream[(position + k) - Len(t) + i]
    <2>1. CASE i <= Len(hand)
      <3>1. i \in 1 .. Len(hand)
        BY <1>3, <2>1
      <3>2. hand[i] = stream[position - Len(hand) + i]
        BY <3>1 DEF InHand
      <3> QED
        BY <1>3, <1>6, <3>1, <3>2
    <2>2. CASE ~(i <= Len(hand))
      <3>1. i \in Len(hand) + 1 .. Len(t)
        BY <1>3, <2>2
      <3>2. PICK j \in 1 .. k : j = i - Len(hand) /\ t[i] = d[j]
        BY <1>1, <1>3, <3>1
      <3>3. position + j = position - Len(hand) + i
        BY <1>3, <1>4, <3>1, <3>2
      <3> QED
        BY <1>1, <1>6, <3>2, <3>3
    <2> QED
      BY <2>1, <2>2
  <1>8. InHand(t, stream, position + k)
    BY <1>6, <1>7 DEF InHand
  <1>9. Len(t) = Len(hand) + k
    BY <1>1, <1>3
  <1> QED
    BY <1>2, <1>6, <1>8, <1>9

LEMMA HandKept ==
    ASSUME NEW stream \in Seq(Byte), NEW position \in 0 .. Len(stream),
           NEW hand \in Seq(Byte), InHand(hand, stream, position),
           NEW d \in Seq(Byte), NEW t, t = stream \o d
    PROVE  InHand(hand, t, position)
  <1>1. /\ \A i \in 1 .. Len(stream) : t[i] = stream[i]
        /\ Len(stream) \in Nat /\ Len(hand) \in Nat
    BY JoinedIs, LenProperties
  <1>2. ASSUME NEW j \in 1 .. Len(hand)
        PROVE  hand[j] = t[position - Len(hand) + j]
    <2>1. position - Len(hand) + j \in 1 .. Len(stream)
      BY <1>1 DEF InHand
    <2>2. hand[j] = stream[position - Len(hand) + j]
      BY DEF InHand
    <2> QED
      BY <1>1, <2>1, <2>2
  <1> QED
    BY <1>2 DEF InHand

LEMMA HandEmpty ==
    ASSUME NEW stream, NEW position \in Nat
    PROVE  InHand(<<>>, stream, position) /\ position - Len(<<>>) = position
  BY EmptySeq DEF InHand

\* What a thread makes of a header.
LEMMA Recognised ==
    ASSUME RelayTypeOK, NEW thread \in Threads
    PROVE  \/ ReadsHeader(thread).pc = "lost"
           \/ \E p \in Packets :
                /\ ReadsHeader(thread).pc = "payload"
                /\ ReadsHeader(thread).hand = <<>>
                /\ ReadsHeader(thread).of = p
                /\ thread.hand = Header(p)
                /\ thread.hand[1] = [of |-> p, part |-> "header", pos |-> 1]
                /\ Len(thread.hand) = HeaderLen
  <1> DEFINE p == CHOOSE p \in Packets : thread.hand = Header(p)
  <1>1. CASE \E q \in Packets : thread.hand = Header(q)
    <2>1. p \in Packets /\ thread.hand = Header(p)
      BY <1>1
    <2>2. ReadsHeader(thread) = [thread EXCEPT !.pc = "payload", !.hand = <<>>, !.of = p]
      BY <1>1 DEF ReadsHeader
    <2> HIDE DEF p
    <2>3. /\ Header(p)[1] = [of |-> p, part |-> "header", pos |-> 1]
          /\ Len(Header(p)) = HeaderLen
      BY <2>1, Pieces, Sizes
    <2>4. /\ ReadsHeader(thread).pc = "payload"
          /\ ReadsHeader(thread).hand = <<>>
          /\ ReadsHeader(thread).of = p
      BY <2>2 DEF Threads
    <2> QED
      BY <2>1, <2>3, <2>4
  <1>2. CASE ~\E q \in Packets : thread.hand = Header(q)
    BY <1>2 DEF ReadsHeader, Threads
  <1> QED
    BY <1>1, <1>2

\* ... and what it does not mistake.
LEMMA NotLost ==
    ASSUME RelayTypeOK, NEW thread \in Threads, NEW p \in Packets,
           Len(thread.hand) = HeaderLen,
           \A j \in 1 .. HeaderLen :
             thread.hand[j] = [of |-> p, part |-> "header", pos |-> j]
    PROVE  /\ ReadsHeader(thread).pc = "payload"
           /\ ReadsHeader(thread).hand = <<>>
           /\ ReadsHeader(thread).of = p
  <1>1. thread.hand \in Seq(Byte)
    BY DEF Threads
  <1>2. /\ Header(p) \in Seq(Byte) /\ Len(Header(p)) = HeaderLen
        /\ \A k \in 1 .. HeaderLen :
             Header(p)[k] = [of |-> p, part |-> "header", pos |-> k]
    BY Pieces
  <1>3. thread.hand = Header(p)
    BY <1>1, <1>2, SeqEqual
  <1>4. \E q \in Packets : thread.hand = Header(q)
    BY <1>3
  <1>5. ReadsHeader(thread).pc # "lost"
    <2> DEFINE q == CHOOSE q \in Packets : thread.hand = Header(q)
    <2>1. ReadsHeader(thread) = [thread EXCEPT !.pc = "payload", !.hand = <<>>, !.of = q]
      BY <1>4 DEF ReadsHeader
    <2> HIDE DEF q
    <2> QED
      BY <2>1 DEF Threads
  <1>6. PICK q \in Packets :
               /\ ReadsHeader(thread).pc = "payload"
               /\ ReadsHeader(thread).hand = <<>>
               /\ ReadsHeader(thread).of = q
               /\ thread.hand[1] = [of |-> q, part |-> "header", pos |-> 1]
    BY <1>5, Recognised
  <1>7. thread.hand[1] = [of |-> p, part |-> "header", pos |-> 1]
    BY Sizes
  <1> QED
    BY <1>6, <1>7

\* A payload that is the one it should be.
LEMMA IsPayload ==
    ASSUME RelayTypeOK, NEW hand \in Seq(Byte), NEW p \in Packets,
           Len(hand) = PayloadLen(p),
           \A j \in 1 .. PayloadLen(p) :
             hand[j] = [of |-> p, part |-> "payload", pos |-> j]
    PROVE  hand = Payload(p)
  <1>1. /\ Payload(p) \in Seq(Byte) /\ Len(Payload(p)) = PayloadLen(p)
        /\ \A k \in 1 .. PayloadLen(p) :
             Payload(p)[k] = [of |-> p, part |-> "payload", pos |-> k]
    BY Pieces
  <1> QED
    BY <1>1, SeqEqual

LEMMA ReceivingIs ==
    ASSUME RelayTypeOK
    PROVE  /\ file.size > 0 => Receiving.pc = "file" /\ Receiving.left = file.size
           /\ ~(file.size > 0) => Receiving.pc = "header"
           /\ Receiving.hand = <<>>
           /\ Waiting.pc = "header" /\ Waiting.hand = <<>>
  BY DEF Receiving, Waiting

\* Where the server's thread is after a step, for the packets it is in.
LEMMA SrvSteps ==
    ASSUME RelayTypeOK, SrcInv, RelayedInv, SrvInv, SrvThread
    PROVE  RelayedInv' /\ SrvInv'
  <1>1. /\ FileStart \in Nat /\ FileEnd \in Nat /\ FileEnd >= FileStart
        /\ FileStart > HeaderLen /\ FileStart = HeaderLen + file.info
    BY SentIs DEF FileStart
  <1>2. /\ srv \in Threads /\ srv.hand \in Seq(Byte) /\ toServer \in Seq(Byte)
        /\ taken \in 0 .. Len(toServer) /\ Len(srv.hand) \in Nat
        /\ Len(toServer) \in Nat /\ taken \in Nat /\ file.info \in Nat
        /\ taken <= Len(toServer) /\ srv.of \in Packets
    BY Asked DEF RelayTypeOK, Threads
  <1>3. file' = file /\ src' = src /\ toServer' = toServer /\ FileStart' = FileStart
    BY DEF SrvThread, SrvRecvAll, SrvHeader, SrvLine, RelayHeader, RelayInfo,
           RelayChunk, SrvEnd, FileStart
  <1>4. Payload("file")' = Payload("file")
    BY <1>3 DEF Payload, PayloadLen, BytesOf
  <1>5. toDest' = toDest => RelayedInv' /\ Relayed' = Relayed
    BY <1>3 DEF RelayedInv, Relayed, Own
  <1>6. CASE SrvRecvAll
    <2>1. PICK k \in 1 .. SmallerOf(ForServer, Wants(srv) - Len(srv.hand)) :
                 /\ taken' = taken + k
                 /\ srv' = [srv EXCEPT !.hand = @ \o SrvReceives(k)]
      BY <1>6 DEF SrvRecvAll
    <2>2. k \in Nat /\ k <= ForServer
      BY <2>1, Asked, Least
    <2>3. srv.pc \in {"header", "payload"} /\ toDest' = toDest
      BY <1>6 DEF SrvRecvAll
    <2>4. InHand(srv.hand, toServer, taken)
      BY <2>3 DEF SrvInv
    <2>5. srv'.hand = srv.hand \o SrvReceives(k) /\ srv'.pc = srv.pc /\ srv'.of = srv.of
      BY <1>2, <2>1 DEF Threads
    <2>6. PICK d, h, e : /\ d = SubSeq(toServer, taken + 1, taken + k)
                         /\ h = srv.hand \o d /\ e = taken + k
                         /\ srv'.hand = h /\ taken' = e
      BY <2>1, <2>5 DEF SrvReceives
    <2>7. /\ InHand(srv'.hand, toServer', taken')
          /\ Len(srv'.hand) = Len(srv.hand) + k
          /\ taken' - Len(srv'.hand) = taken - Len(srv.hand)
      <3>1. k <= Len(toServer) - taken
        BY <2>2 DEF ForServer
      <3>2. /\ InHand(h, toServer, e)
            /\ Len(h) = Len(srv.hand) + k
            /\ e - Len(h) = taken - Len(srv.hand)
        <4>1. d \in Seq(Byte) /\ Len(d) = k /\ Within(d, k, toServer, taken)
          BY <1>2, <2>2, <2>6, <3>1, Received
        <4>2. h = srv.hand \o d /\ e = taken + k
          BY <2>6
        <4> QED
          <5>1. /\ toServer \in Seq(Byte) /\ taken \in 0 .. Len(toServer)
                /\ srv.hand \in Seq(Byte) /\ InHand(srv.hand, toServer, taken)
                /\ k \in Nat /\ k <= Len(toServer) - taken
            BY <1>2, <2>2, <2>4, <3>1
          <5>2. InHand(srv.hand \o d, toServer, taken + k)
            BY ONLY <5>1, <4>1, HandGrows
          <5>3. InHand(h, toServer, e)
            BY <4>2, <5>2
          <5>4. Len(h) = Len(srv.hand) + k
            BY <4>1, <4>2, <5>1, ConcatProperties
          <5>5. e - Len(h) = taken - Len(srv.hand)
            <6>1. Len(srv.hand) \in Int /\ taken \in Int /\ k \in Int
              BY <1>2, <2>2
            <6> HIDE <4>2
            <6>2. e = taken + k
              BY <4>2
            <6> QED
              BY <5>4, <6>1, <6>2
          <5> QED
            BY <5>3, <5>4, <5>5
      <3>3. InHand(srv'.hand, toServer', taken')
        BY <1>3, <2>6, <3>2
      <3> QED
        BY <2>6, <3>2, <3>3
    <2>8. taken' = Len(srv'.hand) \/ taken # Len(srv.hand)
      BY <1>2, <2>1, <2>2, <2>7
    <2>9. taken' = HeaderLen + Len(srv'.hand) \/ taken # HeaderLen + Len(srv.hand)
      BY <1>2, <2>1, <2>2, <2>7, Sizes
    <2>10. SrvInv'
      BY <1>3, <1>5, <2>3, <2>5, <2>7, <2>8, <2>9 DEF SrvInv
    <2> QED
      BY <1>5, <2>3, <2>10
  <1>7. CASE SrvHeader
    <2>1. /\ srv.pc = "header" /\ Len(srv.hand) = HeaderLen
          /\ srv' = ReadsHeader(srv) /\ taken' = taken /\ toDest' = toDest
      BY <1>7 DEF SrvHeader, Has, Wants
    <2>2. /\ InHand(srv.hand, toServer, taken)
          /\ \/ Relayed = 0 /\ taken = Len(srv.hand)
             \/ taken - Len(srv.hand) >= FileStart
      BY <2>1 DEF SrvInv
    <2>3. CASE srv'.pc = "lost"
      BY <1>5, <2>1, <2>3 DEF SrvInv
    <2>4. CASE srv'.pc # "lost"
      <3>1. PICK p \in Packets : /\ srv'.pc = "payload" /\ srv'.hand = <<>> /\ srv'.of = p
                                 /\ srv.hand[1] = [of |-> p, part |-> "header", pos |-> 1]
        BY <1>2, <2>1, <2>4, Recognised
      <3>2. InHand(srv'.hand, toServer', taken') /\ Len(srv'.hand) = 0
        BY <1>2, <1>3, <2>1, <3>1, HandEmpty, EmptySeq
      <3>3. PICK b : b = taken - HeaderLen + 1
        OBVIOUS
      <3>4. srv.hand[1] = toServer[b] /\ b \in 1 .. Len(toServer)
        BY <1>2, <2>1, <2>2, <3>3, Sizes DEF InHand
      <3>5. /\ toServer[b].of = "file" /\ toServer[b].part = "header" => b <= HeaderLen
            /\ toServer[b].of = "line" => b > FileEnd
        BY <3>4, SentTells
      <3>6. CASE Relayed = 0 /\ taken = Len(srv.hand)
        <4>1. b = 1
          BY <1>2, <2>1, <3>3, <3>6, Sizes
        <4>2. p = "file"
          <5>1. toServer[b].of = p
            BY <3>1, <3>4
          <5>2. toServer[b].of \in {"file", "line"}
            BY <3>4, SentTells
          <5>3. ~(b > FileEnd)
            BY <1>1, <4>1, Sizes
          <5> QED
            BY <3>5, <5>1, <5>2, <5>3
        <4> QED
          BY <1>2, <1>5, <2>1, <3>1, <3>2, <3>6, <4>2, Sizes DEF SrvInv
      <3>7. CASE taken - Len(srv.hand) >= FileStart
        <4>1. b > HeaderLen
          BY <1>1, <1>2, <2>1, <3>3, <3>7, Sizes
        <4>2. p # "file"
          BY <1>1, <3>1, <3>3, <3>4, <3>5, <4>1, Sizes
        <4>3. taken' - Len(srv'.hand) >= FileStart'
          BY <1>1, <1>2, <1>3, <2>1, <3>2, <3>7, Sizes
        <4> QED
          BY <1>5, <2>1, <3>1, <3>2, <4>2, <4>3 DEF SrvInv
      <3> QED
        BY <2>2, <3>6, <3>7
    <2> QED
      BY <2>3, <2>4
  <1>8. CASE SrvLine
    <2>1. /\ srv.pc = "payload" /\ srv.of = "line"
          /\ srv' = Waiting \/ srv' = [srv EXCEPT !.pc = "lost"]
          /\ taken' = taken /\ toDest' = toDest
      BY <1>8 DEF SrvLine
    <2>2. taken - Len(srv.hand) >= FileStart
      BY <2>1 DEF SrvInv
    <2>3. CASE srv' = Waiting
      <3>1. srv'.pc = "header" /\ srv'.hand = <<>>
        BY <2>3 DEF Waiting
      <3>2. InHand(srv'.hand, toServer', taken') /\ Len(srv'.hand) = 0
        BY <1>2, <1>3, <2>1, <3>1, HandEmpty, EmptySeq
      <3>3. taken' - Len(srv'.hand) >= FileStart'
        BY <1>1, <1>2, <1>3, <2>1, <2>2, <3>2
      <3> QED
        BY <1>5, <2>1, <3>1, <3>2, <3>3 DEF SrvInv
    <2>4. CASE srv' = [srv EXCEPT !.pc = "lost"]
      <3>1. srv'.pc = "lost"
        BY <1>2, <2>4 DEF Threads
      <3> QED
        BY <1>5, <2>1, <3>1 DEF SrvInv
    <2> QED
      BY <2>1, <2>3, <2>4
  <1>9. CASE RelayHeader
    <2>1. /\ srv.pc = "payload" /\ Len(srv.hand) = PayloadLen("file")
          /\ srv.of = "file"
          /\ toDest' = toDest \o Header("file")
          /\ srv' = [srv EXCEPT !.pc = "info"] /\ taken' = taken
      BY <1>9 DEF RelayHeader, Has, Wants
    <2>2. /\ InHand(srv.hand, toServer, taken) /\ Relayed = 0
          /\ taken = HeaderLen + Len(srv.hand) /\ Len(srv.hand) = file.info
      BY <2>1 DEF SrvInv, PayloadLen
    <2>3. taken = FileStart
      BY <1>1, <2>2
    <2>4. /\ Header("file") \in Seq(Byte) /\ Len(Header("file")) = HeaderLen
          /\ \A k \in 1 .. HeaderLen :
               Header("file")[k] = [of |-> "file", part |-> "header", pos |-> k]
      BY Pieces DEF Packets
    <2>5. ASSUME NEW j \in 1 .. HeaderLen
          PROVE  /\ Relayed + j <= Len(toServer)
                 /\ toServer[Relayed + j] = [of |-> "file", part |-> "header", pos |-> j]
      <3>1. j \in 1 .. Len(toServer) /\ Relayed + j = j
        BY <1>1, <1>2, <2>2, <2>3, Sizes
      <3> QED
        BY <3>1, SentIs DEF SrcInv
    <2>6. RelayedInv' /\ Relayed' = Relayed + HeaderLen
      <3>1. PICK d : d = Header("file")
        OBVIOUS
      <3>2. d \in Seq(Byte) /\ Len(d) = HeaderLen /\ toDest' = toDest \o d
        BY <2>1, <2>4, <3>1
      <3>3. \A j \in 1 .. Len(d) : /\ d[j].of # "other"
                                   /\ Relayed + j <= Len(toServer)
                                   /\ d[j] = toServer[Relayed + j]
        <4> TAKE j \in 1 .. Len(d)
        <4>1. j \in 1 .. HeaderLen
          BY <3>2
        <4>2. d[j] = [of |-> "file", part |-> "header", pos |-> j]
          BY <2>4, <3>1, <4>1
        <4> QED
          BY <2>5, <4>1, <4>2
      <3> QED
        BY <1>3, <3>2, <3>3, RelayedOn
    <2>7. ASSUME NEW j \in 1 .. file.info
          PROVE  srv.hand[j] = [of |-> "file", part |-> "payload", pos |-> j]
      <3>1. taken - Len(srv.hand) + j = HeaderLen + j
            /\ HeaderLen + j \in 1 .. Len(toServer)
        BY <1>1, <1>2, <2>2, <2>3, Sizes
      <3>2. srv.hand[j] = toServer[HeaderLen + j]
        BY <2>2, <3>1 DEF InHand
      <3> QED
        BY <3>1, <3>2, SentIs DEF SrcInv
    <2>8. srv.hand = Payload("file")
      BY <1>2, <2>2, <2>7, IsPayload DEF Packets, PayloadLen
    <2>9. srv'.pc = "info" /\ srv'.hand = Payload("file")'
      BY <1>2, <1>4, <2>1, <2>8 DEF Threads
    <2>10. Relayed' = HeaderLen /\ taken' = FileStart'
      BY <1>3, <2>1, <2>2, <2>3, <2>6, Sizes
    <2> QED
      BY <2>6, <2>9, <2>10 DEF SrvInv
  <1>10. CASE RelayInfo
    <2>1. /\ srv.pc = "info" /\ toDest' = toDest \o srv.hand
          /\ srv' = Receiving /\ taken' = taken
      BY <1>10 DEF RelayInfo
    <2>2. Relayed = HeaderLen /\ taken = FileStart /\ srv.hand = Payload("file")
      BY <2>1 DEF SrvInv
    <2>3. /\ Len(srv.hand) = file.info
          /\ \A k \in 1 .. file.info :
               srv.hand[k] = [of |-> "file", part |-> "payload", pos |-> k]
      BY <2>2, Pieces DEF Packets, PayloadLen
    <2>4. ASSUME NEW j \in 1 .. Len(srv.hand)
          PROVE  /\ srv.hand[j].of # "other"
                 /\ Relayed + j <= Len(toServer)
                 /\ srv.hand[j] = toServer[Relayed + j]
      <3>1. HeaderLen + j \in 1 .. Len(toServer) /\ j \in 1 .. file.info
        BY <1>1, <1>2, <2>2, <2>3, Sizes
      <3>2. toServer[HeaderLen + j] = [of |-> "file", part |-> "payload", pos |-> j]
        BY <3>1, SentIs DEF SrcInv
      <3> QED
        BY <2>2, <2>3, <3>1, <3>2
    <2>5. RelayedInv' /\ Relayed' = Relayed + Len(srv.hand)
      BY <1>2, <1>3, <2>1, <2>4, RelayedOn
    <2>6. Relayed' = taken' /\ taken' = FileStart'
      BY <1>1, <1>3, <2>1, <2>2, <2>3, <2>5
    <2>7. srv'.pc \in {"file", "header"} /\ srv'.hand = <<>>
      BY <2>1, ReceivingIs
    <2>8. InHand(srv'.hand, toServer', taken') /\ Len(srv'.hand) = 0
      BY <1>2, <1>3, <2>1, <2>7, HandEmpty, EmptySeq
    <2>9. taken' - Len(srv'.hand) >= FileStart' /\ taken' >= FileStart'
      BY <1>1, <1>3, <2>6, <2>8
    <2> QED
      BY <2>5, <2>6, <2>7, <2>8, <2>9 DEF SrvInv
  <1>11. CASE RelayChunk
    <2>1. PICK k \in 1 .. SmallerOf(ForServer, BufferSize) :
                 /\ taken' = taken + k
                 /\ toDest' = toDest \o SrvReceives(k)
                 /\ srv' = [srv EXCEPT !.left = @ - k,
                               !.pc = IF srv.left > k THEN "file" ELSE "header"]
      BY <1>11 DEF RelayChunk
    <2>2. k \in Nat /\ k <= ForServer
      BY <2>1, Asked, Least
    <2>3. srv.pc = "file" /\ Relayed = taken /\ taken >= FileStart
      BY <1>11 DEF RelayChunk, SrvInv
    <2> DEFINE d == SrvReceives(k)
    <2>4. /\ d \in Seq(Byte) /\ Len(d) = k
          /\ \A j \in 1 .. k : d[j] = toServer[taken + j]
          /\ taken + k <= Len(toServer)
      <3>1. d = SubSeq(toServer, taken + 1, taken + k) /\ k <= Len(toServer) - taken
        BY <2>2 DEF SrvReceives, ForServer
      <3> HIDE DEF d
      <3>2. /\ d \in Seq(Byte) /\ Len(d) = k
            /\ \A j \in 1 .. k : d[j] = toServer[taken + j]
        BY <1>2, <2>2, <3>1, Received
      <3>3. taken + k <= Len(toServer)
        BY <1>2, <2>2, <3>1
      <3> QED
        BY <3>2, <3>3
    <2> HIDE DEF d
    <2>5. ASSUME NEW j \in 1 .. Len(d)
          PROVE  /\ d[j].of # "other" /\ Relayed + j <= Len(toServer)
                 /\ d[j] = toServer[Relayed + j]
      <3>1. taken + j \in 1 .. Len(toServer) /\ j \in 1 .. k
        BY <1>2, <2>2, <2>4
      <3>2. toServer[taken + j].of # "other"
        BY <3>1, SentTells
      <3> QED
        BY <2>3, <2>4, <3>1, <3>2
    <2>6. toDest' = toDest \o d
      BY <2>1 DEF d
    <2>7. RelayedInv' /\ Relayed' = Relayed + k
      BY <1>3, <2>4, <2>5, <2>6, RelayedOn
    <2>8. Relayed' = taken' /\ taken' >= FileStart'
      BY <1>1, <1>2, <1>3, <2>1, <2>2, <2>3, <2>7
    <2>9. srv'.pc \in {"file", "header"} /\ srv'.hand = srv.hand
      BY <1>2, <2>1 DEF Threads
    <2>10. CASE srv'.pc = "file"
      <3>1. srv'.hand = <<>>
        BY <2>3, <2>9 DEF SrvInv
      <3> QED
        BY <2>7, <2>8, <2>10, <3>1 DEF SrvInv
    <2>11. CASE srv'.pc = "header"
      <3>1. srv.hand = <<>>
        BY <2>3 DEF SrvInv
      <3>2. InHand(srv'.hand, toServer', taken') /\ Len(srv'.hand) = 0
        BY <1>2, <1>3, <2>1, <2>2, <2>9, <3>1, HandEmpty, EmptySeq
      <3>3. taken' - Len(srv'.hand) >= FileStart'
        BY <1>1, <1>2, <1>3, <2>1, <2>2, <2>8, <3>2
      <3> QED
        BY <2>7, <2>11, <3>2, <3>3 DEF SrvInv
    <2> QED
      BY <2>9, <2>10, <2>11
  <1>12. CASE SrvEnd
    <2>1. srv' = [srv EXCEPT !.pc = IF srv.pc = "header" THEN "closed" ELSE "aborted"]
          /\ toDest' = toDest
      BY <1>12 DEF SrvEnd
    <2>2. srv'.pc \in {"closed", "aborted"}
      BY <1>2, <2>1 DEF Threads
    <2> QED
      BY <1>5, <2>1, <2>2 DEF SrvInv
  <1> QED
    BY <1>6, <1>7, <1>8, <1>9, <1>10, <1>11, <1>12 DEF SrvThread

LEMMA SrvSrc ==
    ASSUME RelayTypeOK, SrvInv, NEW d \in Seq(Byte), toServer' = toServer \o d,
           UNCHANGED <<file, taken, srv, toDest>>
    PROVE  SrvInv'
  <1>1. FileStart' = FileStart /\ Relayed' = Relayed
        /\ Payload("file")' = Payload("file")
    BY DEF FileStart, Relayed, Own, Payload, PayloadLen, BytesOf
  <1>2. srv.hand \in Seq(Byte) /\ toServer \in Seq(Byte)
        /\ taken \in 0 .. Len(toServer)
    BY DEF RelayTypeOK
  <1>3. PICK t : t = toServer'
    OBVIOUS
  <1>4. InHand(srv.hand, toServer, taken) => InHand(srv.hand, t, taken)
    BY <1>2, <1>3, HandKept
  <1>5. srv.pc \in {"header", "payload"} => InHand(srv.hand, t, taken)
    BY <1>4 DEF SrvInv
  <1>6. srv'.pc \in {"header", "payload"} => InHand(srv'.hand, toServer', taken')
    BY <1>3, <1>5
  <1> QED
    BY <1>1, <1>6 DEF SrvInv

LEMMA SrvOther ==
    ASSUME RelayTypeOK, RelayedInv, SrvInv, OtherHeader \/ OtherPayload
    PROVE  RelayedInv' /\ SrvInv'
  <1>1. UNCHANGED <<file, toServer, taken, srv>>
    BY DEF OtherHeader, OtherPayload
  <1>2. PICK d \in Seq(Byte) : /\ toDest' = toDest \o d
                               /\ \A j \in 1 .. Len(d) : d[j].of = "other"
    <2>1. CASE OtherHeader
      <3>1. PICK d : d = Header("other")
        OBVIOUS
      <3>2. d \in Seq(Byte) /\ \A j \in 1 .. Len(d) : d[j].of = "other"
        <4>1. /\ d \in Seq(Byte) /\ Len(d) = HeaderLen
              /\ \A k \in 1 .. HeaderLen :
                   d[k] = [of |-> "other", part |-> "header", pos |-> k]
          BY <3>1, Pieces DEF Packets
        <4>2. ASSUME NEW j \in 1 .. Len(d)
              PROVE  d[j].of = "other"
          <5>1. d[j] = [of |-> "other", part |-> "header", pos |-> j]
            BY <4>1, <4>2
          <5> QED
            BY <5>1
        <4> QED
          BY <4>1, <4>2
      <3> QED
        BY <2>1, <3>1, <3>2 DEF OtherHeader
    <2>2. CASE OtherPayload
      <3>1. PICK d : d = Payload("other")
        OBVIOUS
      <3>2. d \in Seq(Byte) /\ \A j \in 1 .. Len(d) : d[j].of = "other"
        <4>1. /\ d \in Seq(Byte) /\ Len(d) = PayloadLen("other")
              /\ \A k \in 1 .. PayloadLen("other") :
                   d[k] = [of |-> "other", part |-> "payload", pos |-> k]
          BY <3>1, Pieces DEF Packets
        <4>2. ASSUME NEW j \in 1 .. Len(d)
              PROVE  d[j].of = "other"
          <5>1. d[j] = [of |-> "other", part |-> "payload", pos |-> j]
            BY <4>1, <4>2
          <5> QED
            BY <5>1
        <4> QED
          BY <4>1, <4>2
      <3> QED
        BY <2>2, <3>1, <3>2 DEF OtherPayload
    <2> QED
      BY <2>1, <2>2
  <1>3. RelayedInv' /\ Relayed' = Relayed
    BY <1>1, <1>2, RelayedOther
  <1>4. FileStart' = FileStart /\ Payload("file")' = Payload("file")
    BY <1>1 DEF FileStart, Payload, PayloadLen, BytesOf
  <1> QED
    BY <1>1, <1>3, <1>4 DEF SrvInv

\* What has been passed on stays so.
LEMMA PassedStays ==
    ASSUME RelayTypeOK, NEW d \in Seq(Byte), toDest' = toDest \o d
    PROVE  /\ LinePassed => LinePassed'
           /\ OthersPassed => OthersPassed'
           /\ \A j \in 1 .. Len(d) : /\ d[j].of = "line" => LinePassed'
                                     /\ d[j].of # "file" => OthersPassed'
  <1>1. toDest \in Seq(Byte)
    BY DEF RelayTypeOK
  <1>2. PICK t : t = toDest'
    OBVIOUS
  <1>3. /\ Len(t) = Len(toDest) + Len(d)
        /\ \A i \in 1 .. Len(toDest) : t[i] = toDest[i]
        /\ \A j \in 1 .. Len(d) : t[Len(toDest) + j] = d[j]
        /\ Len(toDest) \in Nat /\ Len(d) \in Nat
    BY <1>1, <1>2, JoinedIs
  <1>4. \A i \in 1 .. Len(toDest) : i \in 1 .. Len(t)
    BY <1>3
  <1>5. \A j \in 1 .. Len(d) : Len(toDest) + j \in 1 .. Len(t)
    BY <1>3
  <1>6. /\ LinePassed' <=> \E i \in 1 .. Len(t) : t[i].of = "line"
        /\ OthersPassed' <=> \E i \in 1 .. Len(t) : t[i].of # "file"
    BY <1>2 DEF LinePassed, OthersPassed
  <1>7. LinePassed => LinePassed'
    BY <1>3, <1>4, <1>6 DEF LinePassed
  <1>8. OthersPassed => OthersPassed'
    BY <1>3, <1>4, <1>6 DEF OthersPassed
  <1>9. ASSUME NEW j \in 1 .. Len(d)
        PROVE  /\ d[j].of = "line" => LinePassed'
               /\ d[j].of # "file" => OthersPassed'
    <2>1. Len(toDest) + j \in 1 .. Len(t) /\ t[Len(toDest) + j] = d[j]
      BY <1>3, <1>5
    <2> QED
      BY <1>6, <2>1
  <1> QED
    BY <1>7, <1>8, <1>9

LEMMA SrvFramedKept ==
    ASSUME RelayTypeOK, SrvFramed, UNCHANGED <<file, taken, srv>>,
           src.left = 0 => src'.left = 0,
           toDest' = toDest \/ \E d \in Seq(Byte) : toDest' = toDest \o d
    PROVE  SrvFramed'
  <1>1. LineStart' = LineStart
    BY DEF LineStart, FileStart
  <1>2. LinePassed => LinePassed'
    BY PassedStays DEF LinePassed
  <1> QED
    BY <1>1, <1>2 DEF SrvFramed

\* What the server does to what the receiver is sent.
LEMMA Passes ==
    ASSUME RelayTypeOK, SrvThread \/ OtherHeader \/ OtherPayload
    PROVE  /\ toDest' = toDest \/ \E d \in Seq(Byte) : toDest' = toDest \o d
           /\ UNCHANGED <<file, src, toServer, read, dst, saved>>
  <1>1. /\ srv.hand \in Seq(Byte) /\ toServer \in Seq(Byte)
        /\ taken \in 0 .. Len(toServer)
    BY DEF RelayTypeOK
  <1>2. CASE RelayHeader
    BY <1>2, Pieces DEF RelayHeader, Packets
  <1>3. CASE RelayInfo
    BY <1>1, <1>3 DEF RelayInfo
  <1>4. CASE RelayChunk
    <2>1. PICK k \in 1 .. SmallerOf(ForServer, BufferSize) :
                 toDest' = toDest \o SrvReceives(k)
      BY <1>4 DEF RelayChunk
    <2>2. k \in Nat /\ k <= Len(toServer) - taken
      BY <2>1, Asked, Least DEF ForServer
    <2>3. SrvReceives(k) \in Seq(Byte)
      BY <1>1, <2>2, Received DEF SrvReceives
    <2> QED
      BY <1>4, <2>1, <2>3 DEF RelayChunk
  <1>5. CASE OtherHeader
    BY <1>5, Pieces DEF OtherHeader, Packets
  <1>6. CASE OtherPayload
    BY <1>6, Pieces DEF OtherPayload, Packets
  <1> QED
    BY <1>2, <1>3, <1>4, <1>5, <1>6
    DEF SrvThread, SrvRecvAll, SrvHeader, SrvLine, SrvEnd

\* The server keeps the frame as long as it has passed on no byte of the line.
LEMMA SrvFramedStep ==
    ASSUME RelayTypeOK, SrcInv, SrvInv, SrvFramed, SrvThread
    PROVE  SrvFramed'
  <1>1. /\ FileStart \in Nat /\ FileEnd \in Nat /\ LineStart \in Nat
        /\ LineStart = FileStart + file.size /\ FileEnd = LineStart - src.left
        /\ FileStart > HeaderLen /\ FileStart = HeaderLen + file.info
        /\ src.left <= file.size /\ src.left \in Nat /\ file.size \in Nat
    <2>1. /\ FileStart \in Nat /\ FileEnd \in Nat /\ FileStart > HeaderLen
          /\ src.left <= file.size /\ src.left \in Nat /\ file.size \in Nat
      BY SentIs, Asked DEF SrcInv
    <2>2. FileStart = HeaderLen + file.info
      BY DEF FileStart
    <2>3. LineStart = FileStart + file.size /\ FileEnd = FileStart + file.size - src.left
      BY DEF LineStart, FileEnd
    <2> QED
      BY <2>1, <2>2, <2>3
  <1>2. /\ srv \in Threads /\ srv.hand \in Seq(Byte) /\ toServer \in Seq(Byte)
        /\ taken \in 0 .. Len(toServer) /\ Len(srv.hand) \in Nat
        /\ Len(toServer) \in Nat /\ taken \in Nat /\ file.info \in Nat
        /\ taken <= Len(toServer) /\ srv.left \in Int
    BY Asked DEF RelayTypeOK, Threads
  <1>3. file' = file /\ src' = src /\ toServer' = toServer /\ LineStart' = LineStart
    BY DEF SrvThread, SrvRecvAll, SrvHeader, SrvLine, RelayHeader, RelayInfo,
           RelayChunk, SrvEnd, FileStart, LineStart
  <1>4. LinePassed => LinePassed'
    <2>1. CASE toDest' = toDest
      BY <2>1 DEF LinePassed
    <2>2. CASE \E d \in Seq(Byte) : toDest' = toDest \o d
      BY <2>2, PassedStays
    <2>3. toDest' = toDest \/ \E d \in Seq(Byte) : toDest' = toDest \o d
      BY Passes
    <2> QED
      BY <2>1, <2>2, <2>3
  <1>5. SUFFICES ASSUME ~LinePassed'
                 PROVE  SrvFramed'
    BY DEF SrvFramed
  <1>6. ~LinePassed
    BY <1>4, <1>5
  <1>7. /\ srv.pc = "header" =>
             \/ taken = Len(srv.hand)
             \/ taken - Len(srv.hand) = LineStart /\ src.left = 0
             \/ /\ taken = LineStart + HeaderLen + ChatLen
                /\ srv.hand = <<>> /\ src.left = 0
        /\ srv.pc = "payload" /\ srv.of # "file" =>
             /\ srv.of = "line"
             /\ taken - Len(srv.hand) = LineStart + HeaderLen /\ src.left = 0
        /\ srv.pc = "file" => taken = LineStart - srv.left /\ srv.left > 0
    BY <1>6 DEF SrvFramed
  <1>8. CASE SrvRecvAll
    <2>1. PICK k \in 1 .. SmallerOf(ForServer, Wants(srv) - Len(srv.hand)) :
                 /\ taken' = taken + k
                 /\ srv' = [srv EXCEPT !.hand = @ \o SrvReceives(k)]
      BY <1>8 DEF SrvRecvAll
    <2>2. k \in Nat /\ k >= 1 /\ k <= Len(toServer) - taken
      BY <2>1, Asked, Least DEF ForServer
    <2>3. srv.pc \in {"header", "payload"}
      BY <1>8 DEF SrvRecvAll
    <2>4. SrvReceives(k) \in Seq(Byte) /\ Len(SrvReceives(k)) = k
      BY <1>2, <2>2, Received DEF SrvReceives
    <2>5. /\ srv'.hand = srv.hand \o SrvReceives(k)
          /\ srv'.pc = srv.pc /\ srv'.of = srv.of
      BY <1>2, <2>1 DEF Threads
    <2>6. Len(srv'.hand) = Len(srv.hand) + k
      <3>1. Len(srv.hand \o SrvReceives(k)) = Len(srv.hand) + Len(SrvReceives(k))
        BY <1>2, <2>4, ConcatProperties
      <3> QED
        BY <2>4, <2>5, <3>1
    <2>7. taken' - Len(srv'.hand) = taken - Len(srv.hand)
      BY <1>2, <2>1, <2>2, <2>6
    <2>8. taken = Len(srv.hand) => taken' = Len(srv'.hand)
      BY <1>2, <2>1, <2>2, <2>6
    <2>9. ~(taken = LineStart + HeaderLen + ChatLen /\ src.left = 0)
      <3>1. SUFFICES ASSUME taken = LineStart + HeaderLen + ChatLen, src.left = 0
                     PROVE  FALSE
        OBVIOUS
      <3>2. FileEnd = LineStart
        BY <1>1, <3>1
      <3>3. Len(toServer) \in {0, HeaderLen, FileEnd, FileEnd + HeaderLen,
                               FileEnd + HeaderLen + ChatLen}
        BY DEF SrcInv
      <3>4. Len(toServer) <= LineStart + HeaderLen + ChatLen
        BY <1>1, <3>2, <3>3, Sizes
      <3> QED
        BY <1>2, <2>2, <3>1, <3>4
    <2> QED
      BY <1>3, <1>6, <1>7, <2>3, <2>5, <2>7, <2>8, <2>9 DEF SrvFramed
  <1>9. CASE SrvHeader
    <2>1. /\ srv.pc = "header" /\ Len(srv.hand) = HeaderLen
          /\ srv' = ReadsHeader(srv) /\ taken' = taken
      BY <1>9 DEF SrvHeader, Has, Wants
    <2>2. InHand(srv.hand, toServer, taken)
      BY <2>1 DEF SrvInv
    <2>3. CASE taken = Len(srv.hand)
      <3>1. ASSUME NEW j \in 1 .. HeaderLen
            PROVE  srv.hand[j] = [of |-> "file", part |-> "header", pos |-> j]
        <4>1. taken - Len(srv.hand) + j = j /\ j \in 1 .. Len(toServer)
          BY <1>2, <2>1, <2>3, Sizes
        <4>2. srv.hand[j] = toServer[j]
          BY <2>1, <2>2, <4>1 DEF InHand
        <4> QED
          BY <4>1, <4>2, SentIs DEF SrcInv
      <3>2. srv'.pc = "payload" /\ srv'.of = "file"
        BY <1>2, <2>1, <3>1, NotLost DEF Packets
      <3> QED
        BY <3>2 DEF SrvFramed
    <2>4. CASE taken - Len(srv.hand) = LineStart /\ src.left = 0
      <3>1. FileEnd = LineStart
        BY <1>1, <2>4
      <3>2. ASSUME NEW j \in 1 .. HeaderLen
            PROVE  srv.hand[j] = [of |-> "line", part |-> "header", pos |-> j]
        <4>1. taken - Len(srv.hand) + j = FileEnd + j /\ FileEnd + j \in 1 .. Len(toServer)
          <5>1. PICK m \in Nat, t \in Nat, e \in Nat :
                       m = Len(toServer) /\ t = taken /\ e = FileEnd /\ t <= m
            BY <1>1, <1>2
          <5>2. t - HeaderLen = e
            BY <2>1, <2>4, <3>1, <5>1
          <5>3. t - HeaderLen + j = e + j /\ e + j \in 1 .. m
            BY <5>1, <5>2, Sizes
          <5> QED
            BY <2>1, <5>1, <5>3
        <4>2. srv.hand[j] = toServer[FileEnd + j]
          BY <2>1, <2>2, <4>1 DEF InHand
        <4> QED
          BY <4>1, <4>2, SentIs DEF SrcInv
      <3>3. srv'.pc = "payload" /\ srv'.of = "line" /\ srv'.hand = <<>>
        BY <1>2, <2>1, <3>2, NotLost DEF Packets
      <3>4. taken = LineStart + HeaderLen
        BY <1>1, <1>2, <2>1, <2>4, Sizes
      <3>5. taken' - Len(srv'.hand) = LineStart' + HeaderLen /\ src'.left = 0
        BY <1>1, <1>2, <1>3, <2>1, <2>4, <3>3, <3>4, EmptySeq, Sizes
      <3> QED
        BY <3>3, <3>5 DEF SrvFramed
    <2>5. srv.hand # <<>>
      BY <2>1, Sizes, EmptySeq
    <2> QED
      BY <1>7, <2>1, <2>3, <2>4, <2>5
  <1>10. CASE SrvLine
    <2>1. /\ srv.pc = "payload" /\ srv.of = "line" /\ Len(srv.hand) = ChatLen
          /\ srv' = IF srv.hand = Payload("line") THEN Waiting
                    ELSE [srv EXCEPT !.pc = "lost"]
          /\ taken' = taken
      BY <1>10 DEF SrvLine, Has, Wants, PayloadLen
    <2>2. /\ InHand(srv.hand, toServer, taken)
          /\ taken - Len(srv.hand) = LineStart + HeaderLen /\ src.left = 0
      BY <1>7, <2>1 DEF SrvInv
    <2>3. FileEnd = LineStart
      BY <1>1, <2>2
    <2>4. ASSUME NEW j \in 1 .. ChatLen
          PROVE  srv.hand[j] = [of |-> "line", part |-> "payload", pos |-> j]
      <3>1. /\ taken - Len(srv.hand) + j = FileEnd + HeaderLen + j
            /\ FileEnd + HeaderLen + j \in 1 .. Len(toServer)
        <4>1. PICK m \in Nat, t \in Nat, e \in Nat :
                     m = Len(toServer) /\ t = taken /\ e = FileEnd /\ t <= m
          BY <1>1, <1>2
        <4>2. t - ChatLen = e + HeaderLen
          BY <2>1, <2>2, <2>3, <4>1
        <4>3. /\ t - ChatLen + j = e + HeaderLen + j
              /\ e + HeaderLen + j \in 1 .. m
          BY <4>1, <4>2, Sizes
        <4> QED
          BY <2>1, <4>1, <4>3
      <3>2. srv.hand[j] = toServer[FileEnd + HeaderLen + j]
        BY <2>1, <2>2, <3>1 DEF InHand
      <3> QED
        BY <3>1, <3>2, SentIs DEF SrcInv
    <2>5. srv.hand = Payload("line")
      BY <1>2, <2>1, <2>4, IsPayload DEF Packets, PayloadLen
    <2>6. srv'.pc = "header" /\ srv'.hand = <<>>
      BY <2>1, <2>5 DEF Waiting
    <2>7. taken' = LineStart' + HeaderLen + ChatLen /\ src'.left = 0
      BY <1>1, <1>2, <1>3, <2>1, <2>2, Sizes
    <2> QED
      BY <2>6, <2>7 DEF SrvFramed
  <1>11. CASE RelayHeader
    <2>1. srv'.pc = "info"
      BY <1>2, <1>11 DEF RelayHeader, Threads
    <2> QED
      BY <2>1 DEF SrvFramed
  <1>12. CASE RelayInfo
    <2>1. srv.pc = "info" /\ srv' = Receiving /\ taken' = taken
      BY <1>12 DEF RelayInfo
    <2>2. taken = FileStart
      BY <2>1 DEF SrvInv
    <2>3. CASE file.size > 0
      <3>1. srv'.pc = "file" /\ srv'.left = file.size
        BY <2>1, <2>3, ReceivingIs
      <3>2. taken' = LineStart' - srv'.left /\ srv'.left > 0
        BY <1>1, <1>3, <2>1, <2>2, <2>3, <3>1
      <3> QED
        BY <3>1, <3>2 DEF SrvFramed
    <2>4. CASE ~(file.size > 0)
      <3>1. srv'.pc = "header" /\ srv'.hand = <<>>
        BY <2>1, <2>4, ReceivingIs
      <3>2. file.size = 0 /\ src.left = 0 /\ taken = LineStart
        BY <1>1, <2>2, <2>4
      <3>3. taken' - Len(srv'.hand) = LineStart' /\ src'.left = 0
        BY <1>1, <1>2, <1>3, <2>1, <3>1, <3>2, EmptySeq
      <3> QED
        BY <3>1, <3>3 DEF SrvFramed
    <2> QED
      BY <2>3, <2>4
  <1>13. CASE RelayChunk
    <2>1. PICK k \in 1 .. SmallerOf(ForServer, BufferSize) :
                 /\ taken' = taken + k
                 /\ toDest' = toDest \o SrvReceives(k)
                 /\ srv' = [srv EXCEPT !.left = @ - k,
                               !.pc = IF srv.left > k THEN "file" ELSE "header"]
      BY <1>13 DEF RelayChunk
    <2>2. k \in Nat /\ k >= 1 /\ k <= Len(toServer) - taken
      BY <2>1, Asked, Least DEF ForServer
    <2>3. /\ srv.pc = "file" /\ srv.hand = <<>>
          /\ taken = LineStart - srv.left /\ srv.left > 0
      BY <1>7, <1>13 DEF RelayChunk, SrvInv
    <2>4. PICK d : d = SrvReceives(k)
      OBVIOUS
    <2>5. d = SubSeq(toServer, taken + 1, taken + k)
      BY <2>4 DEF SrvReceives
    <2>6. /\ d \in Seq(Byte) /\ Len(d) = k
          /\ \A j \in 1 .. k : d[j] = toServer[taken + j]
      BY <1>2, <2>2, <2>5, Received
    <2>7. k \in 1 .. Len(d) /\ taken + k \in 1 .. Len(toServer) /\ k \in 1 .. k
      BY <1>2, <2>2, <2>6
    <2>8. d[k].of # "line" /\ d[k] = toServer[taken + k]
      BY <1>5, <2>1, <2>4, <2>6, <2>7, PassedStays
    <2>9. taken + k <= FileEnd
      BY <2>7, <2>8, SentTells
    <2>10. PICK l \in Int, s \in Nat, n \in Nat, t \in Nat :
                  /\ l = srv.left /\ s = src.left /\ n = LineStart /\ t = taken
                  /\ t = n - l /\ t + k <= n - s
      BY <1>1, <1>2, <2>3, <2>9
    <2>14. k \in Nat /\ l - k >= s /\ t + k = n - (l - k)
      <3>1. l \in Int /\ s \in Int /\ n \in Int /\ t \in Int /\ k \in Int /\ k \in Nat
        BY <2>2, <2>10
      <3>2. t = n - l /\ t + k <= n - s
        BY <2>10
      <3>3. l - k >= s /\ t + k = n - (l - k)
        BY ONLY <3>1, <3>2
      <3> QED
        BY <3>1, <3>3
    <2>11. /\ srv'.hand = <<>> /\ srv'.left = srv.left - k
           /\ srv.left > k => srv'.pc = "file"
           /\ ~(srv.left > k) => srv'.pc = "header"
      BY <1>2, <2>1, <2>3 DEF Threads
    <2>12. CASE srv.left > k
      <3>1. taken' = LineStart' - srv'.left /\ srv'.left > 0
        <4>1. l - k > 0
          BY <2>10, <2>12, <2>14
        <4>2. taken' = t + k /\ LineStart' = n /\ srv'.left = l - k
          BY <1>3, <2>1, <2>10, <2>11
        <4> QED
          BY <2>14, <4>1, <4>2
      <3> QED
        BY <2>11, <2>12, <3>1 DEF SrvFramed
    <2>13. CASE ~(srv.left > k)
      <3>1. src.left = 0 /\ taken + k = LineStart
        <4>1. s = 0 /\ t + k = n
          BY <2>10, <2>13, <2>14
        <4> QED
          BY <2>10, <4>1
      <3>2. taken' - Len(srv'.hand) = LineStart' /\ src'.left = 0
        <4>1. taken' = n /\ LineStart' = n /\ n \in Int
          BY <1>3, <2>1, <2>10, <3>1
        <4>2. Len(srv'.hand) = 0
          BY <2>11, EmptySeq
        <4>3. taken' - Len(srv'.hand) = n
          BY <4>1, <4>2
        <4>4. src'.left = 0
          BY <1>3, <3>1
        <4> QED
          BY <4>1, <4>3, <4>4
      <3> QED
        BY <2>11, <2>13, <3>2 DEF SrvFramed
    <2> QED
      BY <2>12, <2>13
  <1>14. CASE SrvEnd
    <2>1. srv' = [srv EXCEPT !.pc = IF srv.pc = "header" THEN "closed" ELSE "aborted"]
      BY <1>14 DEF SrvEnd
    <2>2. srv'.pc \in {"closed", "aborted"}
      BY <1>2, <2>1 DEF Threads
    <2> QED
      BY <2>2 DEF SrvFramed
  <1> QED
    BY <1>8, <1>9, <1>10, <1>11, <1>12, <1>13, <1>14 DEF SrvThread

----------------------------------------------------------------------------
(* The receiver. *)

\* The packet about the file comes once.
LEMMA StartIs ==
    ASSUME RelayTypeOK, SrcInv, RelayedInv, NEW r, Start(r)
    PROVE  Own(toDest, r) = FileStart /\ r \in Nat /\ r >= 1
  <1>1. r \in 1 .. Len(toDest) /\ r \in Nat /\ r >= 1 /\ toDest[r].of # "other"
        /\ toDest[r] = [of |-> "file", part |-> "payload", pos |-> file.info]
    BY DEF Start
  <1>2. PICK n : n = Own(toDest, r)
    OBVIOUS
  <1>3. n \in Nat /\ n >= 1
    BY <1>1, <1>2, OwnPositive
  <1>4. n <= Len(toServer) /\ toDest[r] = toServer[n]
    BY <1>1, <1>2 DEF RelayedInv
  <1>5. n \in 1 .. Len(toServer)
    BY <1>3, <1>4, Asked
  <1>6. n = FileStart
    BY <1>1, <1>4, <1>5, SentTells
  <1> QED
    BY <1>1, <1>2, <1>6

LEMMA StartOrder ==
    ASSUME RelayTypeOK, SrcInv, RelayedInv, NEW r, Start(r), NEW q, Start(q)
    PROVE  ~(r < q)
  <1>1. SUFFICES ASSUME r < q
                 PROVE  FALSE
    OBVIOUS
  <1>2. /\ Own(toDest, r) = FileStart /\ r \in Nat /\ r >= 1
        /\ Own(toDest, q) = FileStart /\ q \in Nat /\ q >= 1
    BY StartIs
  <1>3. PICK p : p = q - 1
    OBVIOUS
  <1>4. p \in Nat /\ p + 1 = q /\ r <= p
    BY <1>1, <1>2, <1>3
  <1>5. toDest[q].of # "other"
    BY DEF Start
  <1>6. Own(toDest, q) = Own(toDest, p) + 1
    BY <1>4, <1>5, OwnStep
  <1>7. Own(toDest, r) <= Own(toDest, p)
    BY <1>2, <1>4, OwnMore
  <1>8. Own(toDest, p) \in Nat /\ Own(toDest, r) \in Nat
    BY <1>2, <1>4, OwnType
  <1> QED
    BY <1>2, <1>6, <1>7, <1>8

LEMMA StartOnce ==
    ASSUME RelayTypeOK, SrcInv, RelayedInv, NEW r, Start(r), NEW q, Start(q)
    PROVE  r = q
  <1>1. r \in Nat /\ q \in Nat
    BY DEF Start
  <1>2. ~(r < q) /\ ~(q < r)
    BY StartOrder
  <1> QED
    BY <1>1, <1>2

\* What has been saved stays where it came from when more is sent.
LEMMA SavedKept ==
    ASSUME RelayTypeOK, NEW d \in Seq(Byte), toDest' = toDest \o d,
           UNCHANGED <<file, saved>>, NEW r \in 1 .. Len(toDest),
           SavedBehind(r), r + Len(saved) <= Len(toDest)
    PROVE  SavedBehind(r)' /\ r \in 1 .. Len(toDest')
  <1>1. toDest \in Seq(Byte) /\ Len(saved) \in Nat
    BY Asked DEF RelayTypeOK
  <1>2. PICK t : t = toDest'
    OBVIOUS
  <1>3. /\ Len(t) = Len(toDest) + Len(d)
        /\ \A i \in 1 .. Len(toDest) : t[i] = toDest[i]
        /\ Len(toDest) \in Nat /\ Len(d) \in Nat
    BY <1>1, <1>2, JoinedIs
  <1>4. r \in 1 .. Len(t)
    BY <1>3
  <1>5. t[r] = [of |-> "file", part |-> "payload", pos |-> file.info]
    BY <1>3 DEF SavedBehind, Start
  <1>6. ASSUME NEW j \in 1 .. Len(saved)
        PROVE  saved[j] = t[r + j]
    <2>1. r + j \in 1 .. Len(toDest)
      BY <1>1, <1>3
    <2> QED
      BY <1>3, <2>1 DEF SavedBehind
  <1> QED
    BY <1>2, <1>4, <1>5, <1>6 DEF SavedBehind, Start

LEMMA DstKept ==
    ASSUME RelayTypeOK, DstInv, UNCHANGED <<file, read, dst, saved>>,
           NEW d \in Seq(Byte), toDest' = toDest \o d
    PROVE  DstInv'
  <1>1. /\ dst.hand \in Seq(Byte) /\ toDest \in Seq(Byte)
        /\ read \in 0 .. Len(toDest) /\ Len(toDest) \in Nat /\ Len(saved) \in Nat
    BY Asked DEF RelayTypeOK
  <1>2. PICK t : t = toDest'
    OBVIOUS
  <1>3. InHand(dst.hand, toDest, read) => InHand(dst.hand, t, read)
    BY <1>1, <1>2, HandKept
  <1>4. dst'.pc \in {"header", "payload"} => InHand(dst'.hand, toDest', read')
    BY <1>2, <1>3 DEF DstInv
  <1>5. ASSUME dst.pc = "file"
        PROVE  \E r \in 1 .. Len(toDest') : SavedBehind(r)' /\ read = r + Len(saved)
    <2>1. PICK r \in 1 .. Len(toDest) : SavedBehind(r) /\ read = r + Len(saved)
      BY <1>5 DEF DstInv
    <2>2. r + Len(saved) <= Len(toDest)
      BY <1>1, <2>1
    <2>3. SavedBehind(r)' /\ r \in 1 .. Len(toDest')
      BY <2>1, <2>2, SavedKept
    <2> QED
      BY <2>1, <2>3
  <1>6. ASSUME saved # <<>>, dst.pc # "file"
        PROVE  \E r \in 1 .. Len(toDest') :
                 /\ SavedBehind(r)'
                 /\ r + Len(saved) <= read
                 /\ dst.pc \in {"header", "payload"} =>
                      r + Len(saved) <= read - Len(dst.hand)
    <2>1. PICK r \in 1 .. Len(toDest) :
                 /\ SavedBehind(r)
                 /\ r + Len(saved) <= read
                 /\ dst.pc \in {"header", "payload"} =>
                      r + Len(saved) <= read - Len(dst.hand)
      BY <1>6 DEF DstInv
    <2>2. r + Len(saved) <= Len(toDest)
      BY <1>1, <2>1
    <2>3. SavedBehind(r)' /\ r \in 1 .. Len(toDest')
      BY <2>1, <2>2, SavedKept
    <2> QED
      BY <2>1, <2>3
  <1> QED
    BY <1>4, <1>5, <1>6 DEF DstInv

LEMMA DstFramedKept ==
    ASSUME RelayTypeOK, DstFramed, UNCHANGED <<file, read, dst>>,
           NEW d \in Seq(Byte), toDest' = toDest \o d
    PROVE  DstFramed'
  <1>1. LineStart' = LineStart
    BY DEF LineStart, FileStart
  <1>2. OthersPassed => OthersPassed'
    BY PassedStays
  <1> QED
    BY <1>1, <1>2 DEF DstFramed

\* A step that leaves the receiver and what it is sent alone.
LEMMA DstIdle ==
    ASSUME UNCHANGED <<file, toDest, read, dst, saved>>
    PROVE  (DstInv => DstInv') /\ (DstFramed => DstFramed')
  <1>1. ASSUME NEW r
        PROVE  SavedBehind(r)' <=> SavedBehind(r)
    BY DEF SavedBehind, Start
  <1>2. InHand(dst.hand, toDest, read)' <=> InHand(dst.hand, toDest, read)
    BY DEF InHand
  <1>3. LineStart' = LineStart /\ (OthersPassed' <=> OthersPassed)
    BY DEF LineStart, FileStart, OthersPassed
  <1>4. DstInv => DstInv'
    BY <1>1, <1>2 DEF DstInv
  <1>5. DstFramed => DstFramed'
    BY <1>3 DEF DstFramed
  <1> QED
    BY <1>4, <1>5

LEMMA DstSteps ==
    ASSUME RelayTypeOK, SrcInv, RelayedInv, DstInv, DstThread
    PROVE  DstInv'
  <1>1. /\ dst \in Threads /\ dst.hand \in Seq(Byte) /\ toDest \in Seq(Byte)
        /\ read \in 0 .. Len(toDest) /\ Len(dst.hand) \in Nat
        /\ Len(toDest) \in Nat /\ read \in Nat /\ file.info \in Nat
        /\ file.size \in Nat /\ read <= Len(toDest) /\ dst.of \in Packets
        /\ saved \in Seq(Byte) /\ Len(saved) \in Nat /\ dst.left \in Int
    BY Asked DEF RelayTypeOK, Threads
  <1>2. file' = file /\ toDest' = toDest
    BY DEF DstThread, DstRecvAll, DstHeader, DstPayload, SaveChunk
  <1>3. ASSUME NEW r
        PROVE  /\ Start(r)' <=> Start(r)
               /\ saved' = saved => (SavedBehind(r)' <=> SavedBehind(r))
    BY <1>2 DEF Start, SavedBehind
  <1>4. Len(saved) <= file.size
    BY DEF DstInv
  \* Nothing is saved, and the thread does not come into the file.
  <1>5. ASSUME saved' = saved, read' = read, dst.pc # "file", dst'.pc # "file",
               dst'.pc \in {"header", "payload"} => dst'.hand = <<>>
        PROVE  DstInv'
    <2>1. dst'.pc \in {"header", "payload"} => InHand(dst'.hand, toDest', read')
      BY <1>1, <1>2, <1>5, HandEmpty
    <2>2. ASSUME saved # <<>>
          PROVE  \E r \in 1 .. Len(toDest) :
                   /\ SavedBehind(r)'
                   /\ r + Len(saved) <= read'
                   /\ dst'.pc \in {"header", "payload"} =>
                        r + Len(saved) <= read' - Len(dst'.hand)
      <3>1. PICK r \in 1 .. Len(toDest) : SavedBehind(r) /\ r + Len(saved) <= read
        BY <1>5, <2>2 DEF DstInv
      <3>2. SavedBehind(r)' /\ r + Len(saved) <= read'
        BY <1>3, <1>5, <3>1
      <3>3. dst'.pc \in {"header", "payload"} => read' - Len(dst'.hand) = read'
        BY <1>1, <1>5, HandEmpty
      <3> QED
        BY <3>1, <3>2, <3>3
    <2> QED
      BY <1>2, <1>4, <1>5, <2>1, <2>2 DEF DstInv
  <1>6. CASE DstRecvAll
    <2>1. PICK k \in 1 .. SmallerOf(ForDest, Wants(dst) - Len(dst.hand)) :
                 /\ read' = read + k
                 /\ dst' = [dst EXCEPT !.hand = @ \o DstReceives(k)]
      BY <1>6 DEF DstRecvAll
    <2>2. k \in Nat /\ k <= Len(toDest) - read
      BY <2>1, Asked, Least DEF ForDest
    <2>3. dst.pc \in {"header", "payload"} /\ saved' = saved
      BY <1>6 DEF DstRecvAll
    <2>4. InHand(dst.hand, toDest, read)
      BY <2>3 DEF DstInv
    <2>5. dst'.hand = dst.hand \o DstReceives(k) /\ dst'.pc = dst.pc
      BY <1>1, <2>1 DEF Threads
    <2>6. PICK d : d = SubSeq(toDest, read + 1, read + k)
      OBVIOUS
    <2>7. dst'.hand = dst.hand \o d
      BY <2>5, <2>6 DEF DstReceives
    <2>8. d \in Seq(Byte) /\ Len(d) = k /\ Within(d, k, toDest, read)
      BY <1>1, <2>2, <2>6, Received
    <2>9. /\ toDest \in Seq(Byte) /\ read \in 0 .. Len(toDest)
          /\ dst.hand \in Seq(Byte) /\ InHand(dst.hand, toDest, read)
          /\ k \in Nat /\ k <= Len(toDest) - read
      BY <1>1, <2>2, <2>4
    <2>10. /\ InHand(dst'.hand, toDest', read')
           /\ read' - Len(dst'.hand) = read - Len(dst.hand)
      <3>1. InHand(dst.hand \o d, toDest, read + k)
        BY ONLY <2>8, <2>9, HandGrows
      <3>2. Len(dst.hand \o d) = Len(dst.hand) + k
        BY <2>8, <2>9, ConcatProperties
      <3>3. InHand(dst'.hand, toDest', read')
        BY <1>2, <2>1, <2>7, <3>1
      <3>4. PICK a \in Nat, b \in Nat, c \in Nat :
                   /\ a = Len(dst.hand) /\ b = read
                   /\ c = Len(dst'.hand) /\ c = a + k
        BY <1>1, <2>2, <2>7, <3>2
      <3>5. read' = b + k
        BY <2>1, <3>4
      <3>6. (b + k) - c = b - a
        BY <2>2, <3>4
      <3> QED
        BY <3>3, <3>4, <3>5, <3>6
    <2>11. ASSUME saved # <<>>
           PROVE  \E r \in 1 .. Len(toDest) :
                    /\ SavedBehind(r)'
                    /\ r + Len(saved) <= read'
                    /\ r + Len(saved) <= read' - Len(dst'.hand)
      <3>1. PICK r \in 1 .. Len(toDest) :
                   /\ SavedBehind(r) /\ r + Len(saved) <= read
                   /\ r + Len(saved) <= read - Len(dst.hand)
        BY <2>3, <2>11 DEF DstInv
      <3>2. r + Len(saved) <= read + k
        BY <1>1, <2>2, <3>1
      <3> QED
        BY <1>3, <2>1, <2>3, <2>10, <3>1, <3>2
    <2> QED
      BY <1>2, <1>4, <2>3, <2>5, <2>10, <2>11 DEF DstInv
  <1>7. CASE DstHeader
    <2>1. dst.pc = "header" /\ dst' = ReadsHeader(dst) /\ read' = read /\ saved' = saved
      BY <1>7 DEF DstHeader
    <2>2. \/ dst'.pc = "lost"
          \/ dst'.pc = "payload" /\ dst'.hand = <<>>
      BY <1>1, <2>1, Recognised
    <2> QED
      BY <1>5, <2>1, <2>2
  <1>8. CASE DstPayload
    <2>1. dst.pc = "payload" /\ Has(dst) /\ read' = read /\ saved' = saved
      BY <1>8 DEF DstPayload
    <2>2. \/ dst' = [dst EXCEPT !.pc = "lost"]
          \/ dst' = Waiting
          \/ dst.hand = Payload(dst.of) /\ dst.of = "file" /\ dst' = Receiving
      BY <1>8 DEF DstPayload
    <2>3. CASE dst' = [dst EXCEPT !.pc = "lost"]
      <3>1. dst'.pc = "lost"
        BY <1>1, <2>3 DEF Threads
      <3> QED
        BY <1>5, <2>1, <3>1
    <2>4. CASE dst' = Waiting
      BY <1>5, <2>1, <2>4, ReceivingIs
    <2>5. CASE dst.hand = Payload(dst.of) /\ dst.of = "file" /\ dst' = Receiving
      <3>1. CASE ~(file.size > 0)
        BY <1>5, <2>1, <2>5, <3>1, ReceivingIs
      <3>2. CASE file.size > 0
        <4>1. dst'.pc = "file" /\ dst'.left = file.size /\ dst'.hand = <<>>
          BY <2>5, <3>2, ReceivingIs
        <4>2. /\ Len(dst.hand) = file.info /\ file.info >= 1
              /\ dst.hand[file.info]
                   = [of |-> "file", part |-> "payload", pos |-> file.info]
          <5>1. file.info >= 1
            BY <1>1 DEF SrcInv
          <5>2. /\ Len(dst.hand) = file.info
                /\ \A k \in 1 .. file.info :
                     dst.hand[k] = [of |-> "file", part |-> "payload", pos |-> k]
            BY <2>5, Pieces DEF Packets, PayloadLen
          <5> QED
            BY <1>1, <5>1, <5>2
        <4>3. InHand(dst.hand, toDest, read)
          BY <2>1 DEF DstInv
        <4>4. /\ Len(dst.hand) <= read
              /\ dst.hand[file.info] = toDest[read - Len(dst.hand) + file.info]
          <5>1. /\ Len(dst.hand) <= read
                /\ \A j \in 1 .. Len(dst.hand) :
                     dst.hand[j] = toDest[read - Len(dst.hand) + j]
            BY <4>3 DEF InHand
          <5>2. file.info \in 1 .. Len(dst.hand)
            BY <1>1, <4>2
          <5> QED
            BY <5>1, <5>2
        <4>5. /\ read - Len(dst.hand) + file.info = read
              /\ read \in 1 .. Len(toDest)
              /\ read - Len(dst.hand) < read
          BY <1>1, <4>2, <4>4
        <4>6. Start(read)
          BY <4>2, <4>4, <4>5 DEF Start
        <4>7. saved = <<>>
          <5>1. SUFFICES ASSUME saved # <<>>
                         PROVE  FALSE
            OBVIOUS
          <5>2. PICK r \in 1 .. Len(toDest) :
                       SavedBehind(r) /\ r + Len(saved) <= read - Len(dst.hand)
            BY <2>1, <5>1 DEF DstInv
          <5>3. r = read
            BY <4>6, <5>2, StartOnce DEF SavedBehind
          <5>4. PICK a \in Nat, b \in Nat, c \in Nat :
                       /\ a = Len(dst.hand) /\ b = read /\ c = Len(saved)
                       /\ a >= 1
            BY <1>1, <4>2
          <5>5. b + c <= b - a
            BY <5>2, <5>3, <5>4
          <5>6. a \in Int /\ b \in Int /\ c \in Int /\ a >= 1 /\ c >= 0
            BY <5>4
          <5> QED
            BY ONLY <5>5, <5>6
        <4>8. Len(saved) = 0
          BY <4>7, EmptySeq
        <4>9. SavedBehind(read)'
          <5>1. Start(read)'
            BY <2>1, <1>2, <4>6 DEF Start
          <5>2. Len(saved') = 0
            BY <2>1, <4>8
          <5> QED
            BY <5>1, <5>2 DEF SavedBehind
        <4>10. read = read + Len(saved) /\ file.size = file.size - Len(saved)
          BY <1>1, <4>8
        <4>11. \E r \in 1 .. Len(toDest') : SavedBehind(r)' /\ read' = r + Len(saved')
          <5>1. PICK r : r = read
            OBVIOUS
          <5>2. SavedBehind(r)'
            BY <2>1, <4>9, <5>1 DEF SavedBehind, Start
          <5>3. r \in 1 .. Len(toDest') /\ read' = r + Len(saved')
            BY <1>2, <2>1, <4>5, <4>10, <5>1
          <5> QED
            BY <5>2, <5>3
        <4> QED
          BY <1>2, <1>4, <2>1, <3>2, <4>1, <4>10, <4>11 DEF DstInv
      <3> QED
        BY <3>1, <3>2
    <2> QED
      BY <2>2, <2>3, <2>4, <2>5
  <1>9. CASE SaveChunk
    <2>1. PICK k \in 1 .. SmallerOf(ForDest, SmallerOf(dst.left, BufferSize)) :
                 /\ read' = read + k
                 /\ saved' = saved \o DstReceives(k)
                 /\ dst' = [dst EXCEPT !.left = @ - k,
                               !.pc = IF dst.left > k THEN "file" ELSE "header"]
      BY <1>9 DEF SaveChunk
    <2>2. k \in Nat /\ k >= 1 /\ k <= Len(toDest) - read /\ k <= dst.left
      <3>1. k \in Nat /\ k >= 1 /\ k <= ForDest /\ k <= SmallerOf(dst.left, BufferSize)
        BY <2>1, Asked, Least
      <3>2. k \in 1 .. SmallerOf(dst.left, BufferSize)
        BY <3>1, Asked
      <3>3. k <= dst.left
        BY <3>2, Asked, Least
      <3> QED
        BY <3>1, <3>3 DEF ForDest
    <2>3. /\ dst.pc = "file" /\ dst.hand = <<>>
          /\ dst.left = file.size - Len(saved) /\ dst.left > 0
      BY <1>9 DEF SaveChunk, DstInv
    <2>4. PICK r \in 1 .. Len(toDest) : SavedBehind(r) /\ read = r + Len(saved)
      BY <2>3 DEF DstInv
    <2>5. PICK d : d = SubSeq(toDest, read + 1, read + k)
      OBVIOUS
    <2>6. /\ d \in Seq(Byte) /\ Len(d) = k
          /\ \A j \in 1 .. k : d[j] = toDest[read + j]
      BY <1>1, <2>2, <2>5, Received
    <2>7. PICK s : s = saved'
      OBVIOUS
    <2>8. s = saved \o d
      BY <2>1, <2>5, <2>7 DEF DstReceives
    <2>9. /\ Len(s) = Len(saved) + Len(d)
          /\ \A i \in 1 .. Len(saved) : s[i] = saved[i]
          /\ \A i \in Len(saved) + 1 .. Len(s) :
               i - Len(saved) \in 1 .. Len(d) /\ s[i] = d[i - Len(saved)]
      <3>1. saved \in Seq(Byte) /\ d \in Seq(Byte) /\ s = saved \o d
        BY <1>1, <2>6, <2>8
      <3> QED
        BY ONLY <3>1, JoinedIs
    <2>10. ASSUME NEW j \in 1 .. Len(s)
           PROVE  s[j] = toDest[r + j]
      <3>1. CASE j <= Len(saved)
        <4>1. j \in 1 .. Len(saved)
          BY <1>1, <3>1
        <4> QED
          BY <2>4, <2>9, <4>1 DEF SavedBehind
      <3>2. CASE ~(j <= Len(saved))
        <4>1. j \in Len(saved) + 1 .. Len(s)
          BY <1>1, <2>6, <2>9, <3>2
        <4>2. j - Len(saved) \in 1 .. k /\ s[j] = d[j - Len(saved)]
          BY <2>6, <2>9, <4>1
        <4>3. s[j] = toDest[read + (j - Len(saved))]
          BY <2>6, <4>2
        <4>4. read + (j - Len(saved)) = r + j
          <5>1. PICK m \in Nat, e \in Nat : m = Len(saved) /\ e = read
            BY <1>1
          <5>2. e = r + m /\ r \in Int /\ j \in Int
            BY <2>4, <5>1
          <5>3. e + (j - m) = r + j
            BY <5>1, <5>2
          <5> QED
            BY <5>1, <5>3
        <4> QED
          BY <4>3, <4>4
      <3> QED
        BY <3>1, <3>2
    <2>11. SavedBehind(r)'
      <3>1. Start(r)'
        BY <1>3, <2>4 DEF SavedBehind
      <3>2. \A j \in 1 .. Len(saved') : saved'[j] = toDest'[r + j]
        BY <1>2, <2>7, <2>10
      <3> QED
        BY <3>1, <3>2 DEF SavedBehind
    <2>12. PICK l \in Int, m \in Nat, z \in Nat :
                  l = dst.left /\ m = Len(saved) /\ z = file.size /\ l = z - m
      BY <1>1, <2>3
    <2>13. Len(saved') = m + k
      BY <2>6, <2>7, <2>9, <2>12
    <2>14. m + k <= z /\ l - k = z - (m + k)
      <3>1. l \in Int /\ m \in Int /\ z \in Int /\ k \in Int /\ l = z - m /\ k <= l
        BY <2>2, <2>12
      <3> QED
        BY ONLY <3>1
    <2>15. Len(saved') <= file.size
      BY <2>12, <2>13, <2>14
    <2>16. read' = r + Len(saved')
      <3>1. read' = (r + m) + k /\ r \in Int
        BY <2>1, <2>4, <2>12
      <3>2. (r + m) + k = r + (m + k)
        BY <2>2, <2>12, <3>1
      <3> QED
        BY <2>13, <3>1, <3>2
    <2>17. /\ dst'.hand = <<>> /\ dst'.left = l - k
           /\ dst.left > k => dst'.pc = "file"
           /\ ~(dst.left > k) => dst'.pc = "header"
      BY <1>1, <2>1, <2>3, <2>12 DEF Threads
    <2>18. CASE dst.left > k
      <3>1. dst'.left > 0
        BY <2>2, <2>12, <2>17, <2>18
      <3>2. dst'.left = file'.size - Len(saved')
        BY <1>2, <2>12, <2>13, <2>14, <2>17
      <3>3. dst'.pc = "file"
        BY <2>17, <2>18
      <3>4. \E q \in 1 .. Len(toDest') : SavedBehind(q)' /\ read' = q + Len(saved')
        BY <1>2, <2>11, <2>16
      <3> QED
        BY <1>2, <2>15, <2>17, <3>1, <3>2, <3>3, <3>4 DEF DstInv
    <2>19. CASE ~(dst.left > k)
      <3>1. dst'.pc = "header"
        BY <2>17, <2>19
      <3>2. read' \in Nat
        BY <1>1, <2>1, <2>2
      <3>3. InHand(dst'.hand, toDest', read') /\ read' - Len(dst'.hand) = read'
        BY <2>17, <3>2, HandEmpty
      <3>4. r + Len(saved') <= read'
        BY <2>16, <3>2
      <3>5. \E q \in 1 .. Len(toDest') :
              /\ SavedBehind(q)'
              /\ q + Len(saved') <= read'
              /\ q + Len(saved') <= read' - Len(dst'.hand)
        BY <1>2, <2>11, <3>3, <3>4
      <3> QED
        BY <1>2, <2>15, <3>1, <3>3, <3>5 DEF DstInv
    <2> QED
      BY <2>18, <2>19
  <1> QED
    BY <1>6, <1>7, <1>8, <1>9 DEF DstThread

\* As long as all is of the packet about the file and the file, it is where the
\* sender put it.
LEMMA AllOfFile ==
    ASSUME RelayTypeOK, SrcInv, RelayedInv, ~OthersPassed
    PROVE  /\ \A i \in 1 .. Len(toDest) : toDest[i] = Sent(i)
           /\ Len(toDest) <= LineStart
  <1>1. /\ Len(toDest) \in Nat /\ Len(toServer) \in Nat /\ src.left \in Nat
        /\ FileStart \in Nat /\ FileEnd \in Nat /\ file.size \in Nat
    BY SentIs, Asked
  <1>2. ASSUME NEW i \in 1 .. Len(toDest)
        PROVE  toDest[i] = Sent(i) /\ i <= FileEnd
    <2>1. i \in Nat
      OBVIOUS
    <2>2. ASSUME NEW j \in 1 .. i
          PROVE  toDest[j].of # "other"
      <3>1. j \in 1 .. Len(toDest)
        BY <1>1
      <3> QED
        BY <3>1 DEF OthersPassed
    <2>3. Own(toDest, i) = i
      BY <2>1, <2>2, OwnAll
    <2>4. i <= Len(toServer) /\ toDest[i] = toServer[i]
      BY <2>2, <2>3 DEF RelayedInv, OthersPassed
    <2>5. i \in 1 .. Len(toServer)
      BY <1>1, <2>4
    <2>6. toServer[i] = Sent(i)
      BY <2>5 DEF SrcInv
    <2>7. toServer[i].of = "file"
      BY <2>4 DEF OthersPassed
    <2>8. i <= FileEnd
      BY <2>5, <2>7, SentTells
    <2> QED
      BY <2>4, <2>6, <2>8
  <1>3. FileEnd <= LineStart
    <2>1. FileEnd = LineStart - src.left /\ LineStart \in Nat
      BY <1>1 DEF FileEnd, LineStart
    <2> QED
      BY <1>1, <2>1
  <1>4. LineStart \in Nat
    BY <1>1 DEF LineStart
  <1>5. Len(toDest) <= FileEnd
    <2>1. CASE Len(toDest) = 0
      BY <1>1, <2>1
    <2>2. CASE Len(toDest) # 0
      <3>1. Len(toDest) \in 1 .. Len(toDest)
        BY <1>1, <2>2
      <3> QED
        BY <1>2, <3>1
    <2> QED
      BY <2>1, <2>2
  <1> QED
    BY <1>1, <1>2, <1>3, <1>4, <1>5

LEMMA DstFramedSteps ==
    ASSUME RelayTypeOK, SrcInv, RelayedInv, DstInv, DstFramed, DstThread
    PROVE  DstFramed'
  <1>1. /\ dst \in Threads /\ dst.hand \in Seq(Byte) /\ toDest \in Seq(Byte)
        /\ read \in 0 .. Len(toDest) /\ Len(dst.hand) \in Nat
        /\ Len(toDest) \in Nat /\ read \in Nat /\ file.info \in Nat
        /\ file.size \in Nat /\ read <= Len(toDest) /\ dst.left \in Int
    BY Asked DEF RelayTypeOK, Threads
  <1>2. /\ file' = file /\ toDest' = toDest
        /\ LineStart' = LineStart /\ OthersPassed' = OthersPassed
    BY DEF DstThread, DstRecvAll, DstHeader, DstPayload, SaveChunk, LineStart,
           FileStart, OthersPassed
  <1>3. SUFFICES ASSUME ~OthersPassed
                 PROVE  DstFramed'
    BY <1>2 DEF DstFramed
  <1>4. /\ \A i \in 1 .. Len(toDest) : toDest[i] = Sent(i)
        /\ Len(toDest) <= LineStart
    BY <1>3, AllOfFile
  <1>5. /\ LineStart \in Nat /\ FileStart \in Nat /\ FileStart = HeaderLen + file.info
        /\ LineStart = FileStart + file.size
    BY <1>1, SentIs DEF LineStart, FileStart
  <1>6. \/ dst.pc = "header" /\ read = Len(dst.hand)
        \/ dst.pc = "payload" /\ dst.of = "file" /\ read = HeaderLen + Len(dst.hand)
        \/ dst.pc = "file" /\ read = LineStart - dst.left
        \/ dst.pc = "header" /\ dst.hand = <<>> /\ read >= LineStart
    BY <1>3 DEF DstFramed
  <1>7. CASE DstRecvAll
    <2>1. PICK k \in 1 .. SmallerOf(ForDest, Wants(dst) - Len(dst.hand)) :
                 /\ read' = read + k
                 /\ dst' = [dst EXCEPT !.hand = @ \o DstReceives(k)]
      BY <1>7 DEF DstRecvAll
    <2>2. k \in Nat /\ k >= 1 /\ k <= Len(toDest) - read
      BY <2>1, Asked, Least DEF ForDest
    <2>3. dst.pc \in {"header", "payload"}
      BY <1>7 DEF DstRecvAll
    <2>4. DstReceives(k) \in Seq(Byte) /\ Len(DstReceives(k)) = k
      BY <1>1, <2>2, Received DEF DstReceives
    <2>5. /\ dst'.hand = dst.hand \o DstReceives(k)
          /\ dst'.pc = dst.pc /\ dst'.of = dst.of
      BY <1>1, <2>1 DEF Threads
    <2>6. Len(dst'.hand) = Len(dst.hand) + k
      <3>1. Len(dst.hand \o DstReceives(k)) = Len(dst.hand) + Len(DstReceives(k))
        BY <1>1, <2>4, ConcatProperties
      <3> QED
        BY <2>4, <2>5, <3>1
    <2>7. ~(read >= LineStart)
      BY <1>1, <1>4, <1>5, <2>2
    <2>8. read = Len(dst.hand) => read' = Len(dst'.hand)
      BY <2>1, <2>6
    <2>9. read = HeaderLen + Len(dst.hand) => read' = HeaderLen + Len(dst'.hand)
      BY <1>1, <2>1, <2>2, <2>6, Sizes
    <2> QED
      BY <1>6, <2>3, <2>5, <2>7, <2>8, <2>9 DEF DstFramed
  <1>8. CASE DstHeader
    <2>1. /\ dst.pc = "header" /\ Len(dst.hand) = HeaderLen
          /\ dst' = ReadsHeader(dst) /\ read' = read
      BY <1>8 DEF DstHeader, Has, Wants
    <2>2. dst.hand # <<>>
      BY <2>1, Sizes, EmptySeq
    <2>3. read = HeaderLen /\ InHand(dst.hand, toDest, read)
      BY <1>6, <2>1, <2>2 DEF DstInv
    <2>4. ASSUME NEW j \in 1 .. HeaderLen
          PROVE  dst.hand[j] = [of |-> "file", part |-> "header", pos |-> j]
      <3>1. read - Len(dst.hand) + j = j /\ j \in 1 .. Len(toDest)
        BY <1>1, <2>1, <2>3, Sizes
      <3>2. dst.hand[j] = toDest[j]
        BY <2>1, <2>3, <3>1 DEF InHand
      <3> QED
        BY <1>4, <3>1, <3>2, SentIs
    <2>5. dst'.pc = "payload" /\ dst'.of = "file" /\ dst'.hand = <<>>
      BY <1>1, <2>1, <2>4, NotLost DEF Packets
    <2>6. read' = HeaderLen + Len(dst'.hand)
      BY <2>1, <2>3, <2>5, EmptySeq, Sizes
    <2> QED
      BY <2>5, <2>6 DEF DstFramed
  <1>9. CASE DstPayload
    <2>1. /\ dst.pc = "payload" /\ dst.of = "file"
          /\ read = HeaderLen + Len(dst.hand)
      BY <1>6, <1>9 DEF DstPayload
    <2>2. Len(dst.hand) = file.info /\ read' = read
      BY <1>9, <2>1 DEF DstPayload, Has, Wants, PayloadLen
    <2>3. InHand(dst.hand, toDest, read)
      BY <2>1 DEF DstInv
    <2>4. ASSUME NEW j \in 1 .. file.info
          PROVE  dst.hand[j] = [of |-> "file", part |-> "payload", pos |-> j]
      <3>1. /\ read - Len(dst.hand) + j = HeaderLen + j
            /\ HeaderLen + j \in 1 .. Len(toDest)
        BY <1>1, <2>1, <2>2, Sizes
      <3>2. dst.hand[j] = toDest[HeaderLen + j]
        BY <2>2, <2>3, <3>1 DEF InHand
      <3> QED
        BY <1>4, <3>1, <3>2, SentIs
    <2>5. dst.hand = Payload("file")
      BY <1>1, <2>2, <2>4, IsPayload DEF Packets, PayloadLen
    <2>6. dst' = Receiving
      BY <1>9, <2>1, <2>5 DEF DstPayload
    <2>7. read' = FileStart
      BY <1>5, <2>1, <2>2
    <2>8. CASE file.size > 0
      <3>1. dst'.pc = "file" /\ dst'.left = file.size
        BY <2>6, <2>8, ReceivingIs
      <3>2. read' = LineStart' - dst'.left
        BY <1>1, <1>2, <1>5, <2>7, <3>1
      <3> QED
        BY <3>1, <3>2 DEF DstFramed
    <2>9. CASE ~(file.size > 0)
      <3>1. dst'.pc = "header" /\ dst'.hand = <<>>
        BY <2>6, <2>9, ReceivingIs
      <3>2. read' >= LineStart'
        BY <1>1, <1>2, <1>5, <2>7, <2>9
      <3> QED
        BY <3>1, <3>2 DEF DstFramed
    <2> QED
      BY <2>8, <2>9
  <1>10. CASE SaveChunk
    <2>1. PICK k \in 1 .. SmallerOf(ForDest, SmallerOf(dst.left, BufferSize)) :
                 /\ read' = read + k
                 /\ dst' = [dst EXCEPT !.left = @ - k,
                               !.pc = IF dst.left > k THEN "file" ELSE "header"]
      BY <1>10 DEF SaveChunk
    <2>2. k \in Nat /\ k <= dst.left
      <3>1. k \in Nat /\ k >= 1 /\ k <= SmallerOf(dst.left, BufferSize)
        BY <2>1, Asked, Least
      <3>2. k \in 1 .. SmallerOf(dst.left, BufferSize)
        BY <3>1, Asked
      <3> QED
        BY <3>1, <3>2, Asked, Least
    <2>3. dst.pc = "file" /\ dst.hand = <<>> /\ read = LineStart - dst.left
      BY <1>6, <1>10 DEF SaveChunk, DstInv
    <2>4. PICK l \in Int, n \in Nat : l = dst.left /\ n = LineStart
      BY <1>1, <1>5
    <2>5. read' = n - (l - k)
      <3>1. read = n - l /\ read' = read + k
        BY <2>1, <2>3, <2>4
      <3>2. (n - l) + k = n - (l - k)
        BY <2>2, <2>4
      <3> QED
        BY <3>1, <3>2
    <2>6. /\ dst'.hand = <<>> /\ dst'.left = l - k
          /\ l > k => dst'.pc = "file"
          /\ ~(l > k) => dst'.pc = "header"
      BY <1>1, <2>1, <2>3, <2>4 DEF Threads
    <2>7. CASE l > k
      <3>1. read' = LineStart' - dst'.left
        BY <1>2, <2>4, <2>5, <2>6
      <3> QED
        BY <2>6, <2>7, <3>1 DEF DstFramed
    <2>8. CASE ~(l > k)
      <3>1. l = k
        BY <2>2, <2>4, <2>8
      <3>2. read' = n
        BY <2>4, <2>5, <3>1
      <3>3. read' >= LineStart'
        BY <1>2, <2>4, <3>2
      <3> QED
        BY <2>6, <2>8, <3>3 DEF DstFramed
    <2> QED
      BY <2>7, <2>8
  <1> QED
    BY <1>7, <1>8, <1>9, <1>10 DEF DstThread

----------------------------------------------------------------------------
(* The inductive invariant holds. *)

LEMMA RelayStart == Init => RelayInv
  <1> SUFFICES ASSUME Init
               PROVE  RelayInv
    OBVIOUS
  <1>1. RelayTypeOK /\ SrcInv
    BY TypeInit, SrcInit
  <1>2. /\ srv.pc = "header" /\ srv.hand = <<>> /\ taken = 0
        /\ dst.pc = "header" /\ dst.hand = <<>> /\ read = 0
        /\ toDest = <<>> /\ saved = <<>>
    BY DEF Init, Waiting
  <1>3. Len(toDest) = 0 /\ Len(srv.hand) = 0 /\ Len(dst.hand) = 0 /\ Len(saved) = 0
    BY <1>2, EmptySeq
  <1>4. RelayedInv
    BY <1>3 DEF RelayedInv
  <1>5. Relayed = 0
    BY <1>3, OwnZero DEF Relayed
  <1>6. InHand(srv.hand, toServer, taken) /\ InHand(dst.hand, toDest, read)
    BY <1>2, HandEmpty
  <1>7. SrvInv
    BY <1>2, <1>3, <1>5, <1>6 DEF SrvInv
  <1>8. DstInv
    BY <1>1, <1>2, <1>3, <1>6, Asked DEF DstInv
  <1>9. SrvFramed /\ DstFramed
    BY <1>2, <1>3 DEF SrvFramed, DstFramed
  <1> QED
    BY <1>1, <1>4, <1>7, <1>8, <1>9 DEF RelayInv

LEMMA RelayStep == RelayInv /\ [Next]_vars => RelayInv'
  <1> SUFFICES ASSUME RelayInv, [Next]_vars
               PROVE  RelayInv'
    OBVIOUS
  <1>1. /\ RelayTypeOK /\ SrcInv /\ RelayedInv /\ SrvInv /\ DstInv
        /\ SrvFramed /\ DstFramed
    BY DEF RelayInv
  <1>2. CASE SrcThread \/ SendLineHeader \/ SendLinePayload \/ Goes
    <2>1. /\ \E d \in Seq(Byte) : toServer' = toServer \o d
          /\ UNCHANGED <<file, taken, srv, toDest, read, dst, saved, other>>
          /\ src.left = 0 => src'.left = 0
      BY <1>1, <1>2, SrcGrows
    <2>2. RelayTypeOK' /\ SrcInv'
      BY <1>1, <1>2, TypeSrc, SrcStep
    <2>3. RelayedInv' /\ SrvInv'
      BY <1>1, <2>1, RelayedSrc, SrvSrc
    <2>4. SrvFramed'
      BY <1>1, <2>1, SrvFramedKept
    <2>5. DstInv' /\ DstFramed'
      BY <1>1, <2>1, DstIdle
    <2> QED
      BY <2>2, <2>3, <2>4, <2>5 DEF RelayInv
  <1>3. CASE SrvThread \/ OtherHeader \/ OtherPayload
    <2>1. /\ toDest' = toDest \/ \E d \in Seq(Byte) : toDest' = toDest \o d
          /\ UNCHANGED <<file, src, toServer, read, dst, saved>>
      BY <1>1, <1>3, Passes
    <2>2. RelayTypeOK' /\ SrcInv'
      BY <1>1, <1>3, <2>1, TypeSrv, SrcKept
    <2>3. RelayedInv' /\ SrvInv'
      BY <1>1, <1>3, SrvSteps, SrvOther
    <2>4. SrvFramed'
      <3>1. CASE SrvThread
        BY <1>1, <3>1, SrvFramedStep
      <3>2. CASE OtherHeader \/ OtherPayload
        <4>1. UNCHANGED <<file, taken, srv, src>>
          BY <3>2 DEF OtherHeader, OtherPayload
        <4> QED
          BY <1>1, <2>1, <4>1, SrvFramedKept
      <3> QED
        BY <1>3, <3>1, <3>2
    <2>5. DstInv' /\ DstFramed'
      <3>1. CASE toDest' = toDest
        BY <1>1, <2>1, <3>1, DstIdle
      <3>2. CASE \E d \in Seq(Byte) : toDest' = toDest \o d
        BY <1>1, <2>1, <3>2, DstKept, DstFramedKept
      <3> QED
        BY <2>1, <3>1, <3>2
    <2> QED
      BY <2>2, <2>3, <2>4, <2>5 DEF RelayInv
  <1>4. ASSUME UNCHANGED <<file, src, toServer, taken, srv, toDest>>
        PROVE  SrcInv' /\ RelayedInv' /\ SrvInv' /\ SrvFramed'
    <2>1. SrcInv' /\ RelayedInv'
      BY <1>1, <1>4, SrcKept DEF RelayedInv, Own
    <2>2. /\ Relayed' = Relayed /\ FileStart' = FileStart
          /\ Payload("file")' = Payload("file")
      BY <1>4 DEF Relayed, Own, FileStart, Payload, PayloadLen, BytesOf
    <2>3. InHand(srv.hand, toServer, taken)' <=> InHand(srv.hand, toServer, taken)
      BY <1>4 DEF InHand
    <2>4. SrvInv'
      BY <1>1, <1>4, <2>2, <2>3 DEF SrvInv
    <2>5. SrvFramed'
      BY <1>1, <1>4, SrvFramedKept
    <2> QED
      BY <2>1, <2>4, <2>5
  <1>5. CASE DstThread
    <2>1. UNCHANGED <<file, src, toServer, taken, srv, toDest>>
      BY <1>5 DEF DstThread, DstRecvAll, DstHeader, DstPayload, SaveChunk
    <2>2. RelayTypeOK'
      BY <1>1, <1>5, TypeDst
    <2>3. DstInv' /\ DstFramed'
      BY <1>1, <1>5, DstSteps, DstFramedSteps
    <2> QED
      BY <1>4, <2>1, <2>2, <2>3 DEF RelayInv
  <1>6. CASE Stops \/ UNCHANGED vars
    <2>1. UNCHANGED vars
      BY <1>6 DEF Stops
    <2>2. RelayTypeOK'
      BY <1>1, <2>1 DEF RelayTypeOK, vars
    <2>3. DstInv' /\ DstFramed'
      BY <1>1, <2>1, DstIdle DEF vars
    <2>4. UNCHANGED <<file, src, toServer, taken, srv, toDest>>
      BY <2>1 DEF vars
    <2> QED
      BY <1>4, <2>2, <2>3, <2>4 DEF RelayInv
  <1> QED
    BY <1>2, <1>3, <1>5, <1>6 DEF Next

LEMMA RelayAlways == Spec => []RelayInv
  <1>1. Init => RelayInv
    BY RelayStart
  <1>2. RelayInv /\ [Next]_vars => RelayInv'
    BY RelayStep
  <1> QED
    BY <1>1, <1>2, PTL DEF Spec

----------------------------------------------------------------------------
(* The theorems. *)

\* Buffers, counts and positions are of their types: no thread has received more
\* than was written, and what the sender has left to send never gets below zero.
THEOREM RelayTyped == Spec => []RelayTypeOK
  <1>1. RelayInv => RelayTypeOK
    BY DEF RelayInv
  <1> QED
    BY <1>1, RelayAlways, PTL

LEMMA SavedInOrder ==
    ASSUME RelayTypeOK, SrcInv, RelayedInv, DstInv
    PROVE  FileInOrder
  <1>1. /\ toServer \in Seq(Byte) /\ saved \in Seq(Byte)
        /\ Len(toServer) \in Nat /\ Len(toDest) \in Nat /\ Len(saved) \in Nat
        /\ read <= Len(toDest) /\ read \in Nat /\ FileStart \in Nat
    BY SentIs, Asked DEF RelayTypeOK
  <1>2. ASSUME NEW j \in DOMAIN saved, saved[j].of # "other"
        PROVE  Own(saved, j) <= Len(Behind) /\ saved[j] = Behind[Own(saved, j)]
    <2>1. j \in 1 .. Len(saved) /\ j \in Nat /\ j >= 1
      BY <1>1, <1>2, LenProperties
    <2>2. saved # <<>>
      BY <1>1, <2>1, EmptySeq
    <2>3. PICK r \in 1 .. Len(toDest) : SavedBehind(r) /\ r + Len(saved) <= Len(toDest)
      <3>1. CASE dst.pc = "file"
        <4>1. PICK r \in 1 .. Len(toDest) : SavedBehind(r) /\ read = r + Len(saved)
          BY <3>1 DEF DstInv
        <4> QED
          BY <1>1, <4>1
      <3>2. CASE dst.pc # "file"
        <4>1. PICK r \in 1 .. Len(toDest) : SavedBehind(r) /\ r + Len(saved) <= read
          BY <2>2, <3>2 DEF DstInv
        <4> QED
          BY <1>1, <4>1
      <3> QED
        BY <3>1, <3>2
    <2>4. Own(toDest, r) = FileStart /\ r \in Nat
      BY <2>3, StartIs DEF SavedBehind
    <2>5. PICK e \in 1 .. Len(toDest) : e = r + j
      BY <1>1, <2>1, <2>3, <2>4
    <2>6. Within(saved, j, toDest, r)
      BY <1>1, <2>1, <2>3 DEF Within, SavedBehind
    <2>7. PICK o : o = Own(saved, j)
      OBVIOUS
    <2>8. Own(toDest, e) = FileStart + o
      <3>1. e \in Nat
        BY <2>5
      <3>2. Own(toDest, e) = Own(toDest, r) + Own(saved, j)
        BY <2>1, <2>4, <2>5, <2>6, <3>1, OwnShift
      <3> QED
        BY <2>4, <2>7, <3>2
    <2>9. o \in Nat /\ o >= 1
      BY <1>2, <2>1, <2>7, OwnPositive
    <2>10. toDest[e] = saved[j]
      BY <2>1, <2>3, <2>5 DEF SavedBehind
    <2>11. FileStart + o <= Len(toServer) /\ saved[j] = toServer[FileStart + o]
      BY <1>2, <2>8, <2>10 DEF RelayedInv
    <2>12. PICK k \in Nat : k = Len(toServer) - FileStart /\ FileStart + k = Len(toServer)
      BY <1>1, <2>9, <2>11
    <2>13. Behind = SubSeq(toServer, FileStart + 1, FileStart + k)
      BY <2>12 DEF Behind, PayloadLen, FileStart
    <2>14. /\ Len(Behind) = k
           /\ \A i \in 1 .. k : Behind[i] = toServer[FileStart + i]
      BY <1>1, <2>12, <2>13, PartIs
    <2>15. o \in 1 .. k
      BY <1>1, <2>9, <2>11, <2>12
    <2> QED
      BY <2>7, <2>11, <2>14, <2>15
  <1>3. Len(saved) <= file.size
    BY DEF DstInv
  <1> QED
    BY <1>2, <1>3 DEF FileInOrder

\* The receiver's file holds, of the sender's bytes, the first ones it wrote
\* behind the packet about the file, in order and without a gap, and is never
\* longer than announced, however the stream is split and whoever else writes.
THEOREM FileStaysInOrder == Spec => []FileInOrder
  <1>1. RelayInv => FileInOrder
    BY SavedInOrder DEF RelayInv
  <1> QED
    BY <1>1, RelayAlways, PTL

\* The receive thread takes bytes for a packet that are none only if the server
\* has sent it something else than the packet about the file and the file.
THEOREM ReceiverFramed == Spec => []ReceiverKeepsFrame
  <1>1. RelayInv => ReceiverKeepsFrame
    <2> SUFFICES ASSUME RelayInv, dst.pc = "lost"
                 PROVE  \E i \in DOMAIN toDest : toDest[i].of # "file"
      BY DEF ReceiverKeepsFrame
    <2>1. OthersPassed
      BY DEF RelayInv, DstFramed
    <2>2. DOMAIN toDest = 1 .. Len(toDest)
      BY LenProperties DEF RelayInv, RelayTypeOK
    <2> QED
      BY <2>1, <2>2 DEF OthersPassed
  <1> QED
    BY <1>1, RelayAlways, PTL

\* The thread of the server takes bytes for a packet that are none only after
\* its relay loop has passed on bytes of the line for bytes of the file.
THEOREM ServerFramed == Spec => []ServerKeepsFrame
  <1>1. RelayInv => ServerKeepsFrame
    <2> SUFFICES ASSUME RelayInv, srv.pc = "lost"
                 PROVE  \E i \in DOMAIN toDest : toDest[i].of = "line"
      BY DEF ServerKeepsFrame
    <2>1. LinePassed
      BY DEF RelayInv, SrvFramed
    <2>2. DOMAIN toDest = 1 .. Len(toDest)
      BY LenProperties DEF RelayInv, RelayTypeOK
    <2> QED
      BY <2>1, <2>2 DEF LinePassed
  <1> QED
    BY <1>1, RelayAlways, PTL

============================================================================
