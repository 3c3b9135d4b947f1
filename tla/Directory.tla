----------------------------- MODULE Directory -----------------------------
(***************************************************************************)
(* What the server promises its users about each other: everyone enters    *)
(* once and leaves once, is spoken of as having come only while it enters  *)
(* and as having gone only once it is off the list, and is sent the list   *)
(* of users exactly when it has entered.  To whom the news goes is left    *)
(* open here, since a user can be missed (Registry, NoMutualStrangers).    *)
(***************************************************************************)
CONSTANT Users

VARIABLES
    phase,   \* how far each user is
    told     \* what each user has been told so far

vars == <<phase, told>>

Phases == {"away", "entering", "entered", "in", "leaving", "gone"}

News == [what : {"joined", "left", "list"}, of : Users]

TypeOK ==
    /\ phase \in [Users -> Phases]
    /\ told \in [Users -> SUBSET News]

Init ==
    /\ phase = [u \in Users |-> "away"]
    /\ told = [u \in Users |-> {}]

Moves(u, from, to) ==
    /\ phase[u] = from
    /\ phase' = [phase EXCEPT ![u] = to]
    /\ told' = told

Tells(x, what, u) == told' = [told EXCEPT ![x] = @ \cup {[what |-> what, of |-> u]}]

Arrive(u) == Moves(u, "away", "entering")

\* Whoever is told that u comes is told before u is on the list.
Announce(u) ==
    /\ phase[u] = "entering"
    /\ \E x \in Users : Tells(x, "joined", u)
    /\ phase' = phase

Enter(u) == Moves(u, "entering", "entered")

\* The list goes to u itself, unless u is no longer there to get it.
Answer(u) ==
    /\ phase[u] = "entered"
    /\ phase' = [phase EXCEPT ![u] = "in"]
    /\ Tells(u, "list", u) \/ told' = told

Depart(u) == Moves(u, "in", "leaving")

\* Whoever is told that u has gone is told after u is off the list.
Part(u) ==
    /\ phase[u] = "leaving"
    /\ \E x \in Users : Tells(x, "left", u)
    /\ phase' = phase

Gone(u) == Moves(u, "leaving", "gone")

\* The connection of u breaks, before its INTRO or after: nobody is told.
Vanish(u) == Moves(u, "away", "gone") \/ Moves(u, "in", "gone")

Next ==
    \E u \in Users :
      \/ Arrive(u) \/ Announce(u) \/ Enter(u) \/ Answer(u)
      \/ Depart(u) \/ Part(u) \/ Gone(u) \/ Vanish(u)

Spec == Init /\ [][Next]_vars
=============================================================================
