---------------------------- MODULE ClientLists ----------------------------
(***************************************************************************)
(* The struct clientList of src/src/shared/model.h and the helpers of      *)
(* client_manager.c that change it, as operators on values.  The server's  *)
(* clientList, the member list of every room and, in the client process,   *)
(* userList and the member lists of groupList are all of this type.        *)
(*                                                                         *)
(* A list is its array of slots and its size.  The array never shrinks: a  *)
(* removal only lowers size, so a slot past size still holds what it held  *)
(* and a loop that runs on an older size reads it.  A name is a value, or  *)
(* Freed once the memory of the string has been given back: what the code  *)
(* reads through such a pointer is arbitrary.                              *)
(***************************************************************************)
EXTENDS Naturals, Sequences

CONSTANT Freed      \* the name of a slot whose string has been freed

Client(Names, Fds) == [name : Names \cup {Freed}, FD : Fds]

ClientList(Names, Fds) == [clients : Seq(Client(Names, Fds)), size : Nat]

EmptyList == [clients |-> <<>>, size |-> 0]

Live(list) == 1 .. list.size

\* The live slots of a list that hold descriptor fd.
SlotsOf(list, fd) == {i \in Live(list) : list.clients[i].FD = fd}

FdsOf(list) == {list.clients[i].FD : i \in Live(list)}

FirstSlot(list, fd) ==
    CHOOSE i \in SlotsOf(list, fd) : \A j \in SlotsOf(list, fd) : i <= j

\* The capacity doubles from 2; the length of clients is the largest size
\* the list has had, so it tells when an addition finds the array full.
Grows(list) ==
    /\ list.size = Len(list.clients)
    /\ list.size = 0 \/ \E k \in 1 .. list.size : list.size = 2 ^ k

\* Mutant of the addition: malloc() for realloc() when the array is full.
AddWithMalloc(list, client) ==
    [clients |-> IF list.size = Len(list.clients)
                   THEN [i \in 1 .. list.size + 1 |-> client]
                   ELSE [list.clients EXCEPT ![list.size + 1] = client],
     size    |-> list.size + 1]

addClientInClientList(list, client) ==
    [clients |-> IF list.size = Len(list.clients)
                   THEN Append(list.clients, client)
                   ELSE [list.clients EXCEPT ![list.size + 1] = client],
     size    |-> list.size + 1]

\* Mutants of the removal: the last entry is not copied over the hole; the
\* array is given back down to the new size.
RemoveWithoutCopy(list, fd) ==
    IF SlotsOf(list, fd) = {} THEN list
    ELSE [list EXCEPT !.size = @ - 1]

RemoveAndShrink(list, fd) ==
    IF SlotsOf(list, fd) = {} THEN list
    ELSE LET filled == [list.clients EXCEPT ![FirstSlot(list, fd)] =
                                              list.clients[list.size]]
         IN  [clients |-> SubSeq(filled, 1, list.size - 1),
              size    |-> list.size - 1]

\* More of them: only the descriptor is copied; the entries behind move up.
RemoveCopiesFd(list, fd) ==
    IF SlotsOf(list, fd) = {} THEN list
    ELSE [clients |-> [list.clients EXCEPT ![FirstSlot(list, fd)].FD =
                                              list.clients[list.size].FD],
          size    |-> list.size - 1]

RemoveAndMoveUp(list, fd) ==
    IF SlotsOf(list, fd) = {} THEN list
    ELSE [clients |-> [i \in DOMAIN list.clients |->
                         IF i \in FirstSlot(list, fd) .. list.size - 1
                           THEN list.clients[i + 1] ELSE list.clients[i]],
          size    |-> list.size - 1]

\* The last entry is copied over the first one that holds fd, and then the
\* name of the last entry is freed: the copy keeps a pointer to it.
removeClientFromClientList(list, fd) ==
    IF SlotsOf(list, fd) = {} THEN list
    ELSE LET last == [list.clients[list.size] EXCEPT !.name = Freed]
         IN  [clients |-> [list.clients EXCEPT ![FirstSlot(list, fd)] = last,
                                               ![list.size] = last],
              size    |-> list.size - 1]

\* The removal frees a name that an earlier removal has already freed.
FreesTwice(list, fd) ==
    /\ SlotsOf(list, fd) # {}
    /\ list.clients[list.size].name = Freed
=============================================================================
