----------------------------- MODULE MCRegistry -----------------------------
(* Instances of Registry for TLC. *)
EXTENDS RegistryDirectory, SequencesExt

CONSTANTS ann, bob, cat, dan, room

Newcomers == Permutations({cat, dan})

----------------------------------------------------------------------------
(* Runs that start with some users settled: connected and introduced one   *)
(* after the other, in the given order, with everything delivered.         *)

FdSeq == SetToSortSeq(Fds, <)

Place(order, x) == CHOOSE i \in DOMAIN order : order[i] = x

Entry(order, i) == [name |-> order[i], FD |-> FdSeq[i]]

Both(w, p) == <<[part |-> "header", by |-> w, pkt |-> p],
                [part |-> "payload", by |-> w, pkt |-> p]>>

\* What the i-th of them has been sent: the list, then who came later.
Delivered(order, i) ==
    Both(order[i], [Blank EXCEPT !.type = "CLIENT_LIST",
                      !.list = [j \in 1 .. i |-> Entry(order, j)]])
    \o FlattenSeq([k \in 1 .. Len(order) - i |->
         Both(order[i + k], [Blank EXCEPT !.type = "USER_JOINED_SERVER",
                               !.fd = FdSeq[i + k], !.name = order[i + k]])])

\* More(i) is what the i-th has written since, News(i) what it has been sent.
SettledWith(order, More(_), News_(_)) ==
    LET S == {order[i] : i \in DOMAIN order}
    IN  /\ fdTable = [f \in Fds |->
                       IF \E i \in DOMAIN order : FdSeq[i] = f
                         THEN order[CHOOSE i \in DOMAIN order : FdSeq[i] = f]
                         ELSE NoConn]
        /\ sent = [x \in Conns |->
                    IF x \in S
                      THEN <<[Blank EXCEPT !.type = "INTRO", !.name = x]>>
                             \o More(Place(order, x))
                      ELSE <<>>]
        /\ th = [x \in Conns |->
                  IF x \in S
                    THEN [NewThread EXCEPT !.pc = "recv", !.got = Len(sent[x]),
                                           !.fd = FdSeq[Place(order, x)]]
                    ELSE NewThread]
        /\ out = [x \in Conns |->
                   IF x \in S THEN Delivered(order, Place(order, x))
                                     \o News_(Place(order, x))
                              ELSE <<>>]
        /\ peer = [x \in Conns |-> IF x \in S THEN "open" ELSE "none"]
        /\ up = TRUE
        /\ clientList = [clients |-> [i \in DOMAIN order |-> Entry(order, i)],
                         size |-> Len(order)]

None(i) == <<>>

Settled(order) == SettledWith(order, None, None)

Settled2Spec == Settled(<<ann, bob>>) /\ [][Next]_registryVars

\* Threads at work: with a new connection, a packet or the end of a stream.
Busy ==
    {c \in Conns :
       /\ th[c].pc \notin {"new", "closed"}
       /\ ~(/\ th[c].pc = "recv" /\ peer[c] = "open"
            /\ sent[c] # <<>> /\ th[c].got = Len(sent[c]))}

\* Two users settled, two more to come, no more than two threads at work.
ChurnSpec ==
    Settled(<<ann, bob>>) /\ [][Next /\ Cardinality(Busy') <= 2]_registryVars
=============================================================================
