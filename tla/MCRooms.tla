------------------------------- MODULE MCRooms -------------------------------
(* Instances of Rooms: three connections with numbers of their own. *)
EXTENDS Rooms

MCFdOf == [s \in Session |-> s]
===============================================================================
