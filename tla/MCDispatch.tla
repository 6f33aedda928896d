----------------------------- MODULE MCDispatch -----------------------------
(* Module Dispatch on two sessions and two workers, for TLC. *)
EXTENDS Dispatch, TLC

CONSTANTS s1, s2

\* One client has a message to queue behind another, which may be in the same read,
\* while a second one joins.
TwoAndOne == s1 :> 2 @@ s2 :> 1
TextOrChunkAndJoin == s1 :> {"JOIN", "CHUNK"} @@ s2 :> {"JOIN"}

\* One client has a message to queue behind another, the second only closes.
TwoAndNone == s1 :> 2 @@ s2 :> 0
===============================================================================
