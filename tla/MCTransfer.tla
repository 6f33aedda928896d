------------------------------ MODULE MCTransfer ------------------------------
(* Module Transfer with every file offered by one client, for TLC. *)
EXTENDS Transfer

CONSTANT u

OfUploader == [x \in File |-> u]
===============================================================================
