--------------------------- MODULE MCLockFreeQueue ---------------------------
(* LockFreeQueue with threads that do not differ in anything they do. *)
EXTENDS LockFreeQueue, TLC

Interchangeable == Permutations(Producer) \cup Permutations(Consumer)
===============================================================================
