------------------------------- MODULE Channel -------------------------------
(***************************************************************************)
(* What a mailbox promises its users: an unbounded FIFO between threads.   *)
(* Senders append in one step, the receiver takes a non-empty prefix in    *)
(* one step, and what was sent is eventually taken.  Module Mailbox        *)
(* implements it with a lock, a swap of two vectors and an eventfd.        *)
(***************************************************************************)
EXTENDS Naturals, Sequences

CONSTANT Item          \* the messages that may travel

VARIABLES queue,       \* sent and not yet taken, oldest first
          taken        \* everything the receiver has taken, in order

cvars == <<queue, taken>>

Init == queue = <<>> /\ taken = <<>>

\* Some thread appends a non-empty batch of items.
SendSome == /\ queue' \in Seq(Item)
            /\ Len(queue') > Len(queue)
            /\ SubSeq(queue', 1, Len(queue)) = queue
            /\ UNCHANGED taken

\* The receiver takes the n oldest items.
Receive(n) == /\ taken' = taken \o SubSeq(queue, 1, n)
              /\ queue' = SubSeq(queue, n + 1, Len(queue))

ReceiveSome == \E n \in 1..Len(queue) : Receive(n)

Next == SendSome \/ ReceiveSome

Safety == Init /\ [][Next]_cvars

Spec == Safety /\ WF_cvars(ReceiveSome)
===============================================================================
