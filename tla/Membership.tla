----------------------------- MODULE Membership -----------------------------
(***************************************************************************)
(* What the rooms promise to the rest of the server: a connection is in at  *)
(* most one room, a room never has more than MaxMembers, and who has gone   *)
(* out does not come back.                                                  *)
(***************************************************************************)
EXTENDS Naturals, FiniteSets

CONSTANTS Session, Room, MaxMembers

VARIABLE place        \* where each session is

Outside == "outside"  \* not in a room yet
Gone == "gone"        \* was in one, or ended without

InRoom(r) == {s \in Session : place[s] = r}

Init == place = [s \in Session |-> Outside]

\* join_room with success.
Enter(s, r) == /\ place[s] = Outside
               /\ Cardinality(InRoom(r)) < MaxMembers
               /\ place' = [place EXCEPT ![s] = r]

\* leave_room.
Exit(s) == /\ place[s] # Gone
           /\ place' = [place EXCEPT ![s] = Gone]

Next == \E s \in Session : Exit(s) \/ \E r \in Room : Enter(s, r)

Spec == Init /\ [][Next]_place
=============================================================================
