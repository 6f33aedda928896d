---------------------------- MODULE MailboxProofs ----------------------------
(***************************************************************************)
(* Proofs about module Mailbox, for any set of producers, any batch and    *)
(* any number of posts, when nobody posts before attach: no wake-up is     *)
(* lost or written twice, and the mailbox implements the FIFO of module    *)
(* Channel.                                                                *)
(***************************************************************************)
EXTENDS Mailbox, SequenceTheorems, TLAPS

-------------------------------------------------------------------------------
(* A fact about sequences *)

\* Cutting a concatenation where it was joined gives the two parts back.
LEMMA CutConcat ==
    ASSUME NEW S, NEW s \in Seq(S), NEW t \in Seq(S)
    PROVE  /\ SubSeq(s \o t, 1, Len(s)) = s
           /\ SubSeq(s \o t, Len(s) + 1, Len(s \o t)) = t
<1> DEFINE c == s \o t
<1>1. /\ c \in Seq(S) /\ Len(c) = Len(s) + Len(t)
      /\ Len(s) \in Nat /\ Len(t) \in Nat
      /\ \A i \in 1..Len(s) : c[i] = s[i]
      /\ \A i \in 1..Len(t) : c[Len(s) + i] = t[i]
  BY ConcatProperties, LenProperties
<1>2. \A i \in 1..Len(c) : c[i] \in S
  BY <1>1, ElementOfSeq
<1> HIDE DEF c
<1>3. SubSeq(c, 1, Len(s)) = s
  <2>1. /\ SubSeq(c, 1, Len(s)) \in Seq(S)
        /\ Len(SubSeq(c, 1, Len(s))) = Len(s)
        /\ \A i \in 1..Len(s) : SubSeq(c, 1, Len(s))[i] = s[i]
    BY <1>1, <1>2, SubSeqProperties
  <2> QED BY <2>1, SeqEqual
<1>4. SubSeq(c, Len(s) + 1, Len(c)) = t
  <2>1. /\ SubSeq(c, Len(s) + 1, Len(c)) \in Seq(S)
        /\ Len(SubSeq(c, Len(s) + 1, Len(c))) = Len(t)
        /\ \A i \in 1..Len(t) : SubSeq(c, Len(s) + 1, Len(c))[i] = t[i]
    BY <1>1, <1>2, SubSeqProperties
  <2> QED BY <2>1, SeqEqual
<1> QED BY <1>3, <1>4 DEF c

-------------------------------------------------------------------------------
\* Nothing happens to a mailbox before it is attached.
UntouchedBeforeAttach ==
    ~attached => /\ waiting = <<>> /\ ready = <<>> /\ delivered = <<>>
                 /\ ~draining /\ efd = 0 /\ owes = {} /\ consumer = "epoll"

\* NoLostWakeup is not inductive: what keeps it is that an item in the waiting
\* vector means the flag is set, and that the flag stands for exactly one wake
\* token.  The swapped-out vector is empty except during the callback.
IInv == /\ TypeOK
        /\ OneWakeToken
        /\ UntouchedBeforeAttach
        /\ waiting # <<>> => draining
        /\ ready # <<>> <=> consumer = "callback"

-------------------------------------------------------------------------------
\* A posted batch is a sequence of items, as long as it was asked to be.
LEMMA BatchType ==
    ASSUME TypeOK, NEW p \in Producer, NEW n \in Nat \ {0}
    PROVE  /\ Batch(p, n) \in Seq(Item)
           /\ Len(Batch(p, n)) = n
<1>1. \A i \in 1..n : <<p, posted[p] + i>> \in Item
  BY DEF TypeOK, Item
<1>2. Batch(p, n) \in [1..n -> Item]
  BY <1>1 DEF Batch
<1> QED BY <1>2, IsASeq, LenProperties DEF Batch

\* Push keeps the inductive invariant, whatever the length of the batch.
LEMMA PushKeepsIInv ==
    ASSUME IInv, NEW p \in Producer, NEW n \in Nat \ {0},
           AttachFirst, CanPost(p, n), Push(p, n)
    PROVE  IInv'
<1>1. attached
  BY DEF CanPost
<1>2. TypeOK'
  <2>1. waiting' \in Seq(Item)
    BY BatchType, ConcatProperties DEF IInv, TypeOK, Push
  <2>2. posted' \in [Producer -> Nat]
    BY DEF IInv, TypeOK, Push
  <2> QED BY <2>1, <2>2 DEF IInv, TypeOK, Push
<1>3. OneWakeToken'
  <2>1. CASE draining
    BY <2>1 DEF IInv, OneWakeToken, Push, Draining
  <2>2. CASE ~draining
    <3>1. owes = {} /\ ~(efd > 0) /\ efd = 0 /\ consumer = "epoll"
      BY <2>2 DEF IInv, OneWakeToken, Draining, TypeOK
    <3>2. owes' = {p} /\ draining' /\ efd' = 0 /\ consumer' = "epoll"
      BY <2>2, <3>1 DEF Push
    <3> QED BY <3>2 DEF OneWakeToken, Draining
  <2> QED BY <2>1, <2>2
<1> QED BY <1>1, <1>2, <1>3 DEF IInv, UntouchedBeforeAttach, Push

LEMMA InitIInv == Init => IInv
<1> SUFFICES ASSUME Init PROVE IInv
  OBVIOUS
<1>1. <<>> \in Seq(Item)
  BY EmptySeq
<1>2. TypeOK
  <2>1. posted \in [Producer -> Nat]
    BY DEF Init
  <2> QED BY <1>1, <2>1 DEF Init, TypeOK, ConsumerAt
<1>3. OneWakeToken
  BY DEF Init, OneWakeToken, Draining
<1> QED BY <1>2, <1>3 DEF Init, IInv, UntouchedBeforeAttach

\* One step of any thread keeps the inductive invariant.
LEMMA NextIInv ==
    ASSUME IInv, AttachFirst, [Next]_vars
    PROVE  IInv'
<1> USE BoundsAssumption DEF IInv
<1>1. CASE Attach
  BY <1>1 DEF Attach, TypeOK, OneWakeToken, UntouchedBeforeAttach, ConsumerAt, Draining
<1>2. ASSUME NEW p \in Producer, Post(p)
      PROVE  IInv'
  BY <1>2, PushKeepsIInv DEF Post
<1>3. ASSUME NEW p \in Producer, PostBatch(p)
      PROVE  IInv'
  <2>1. PICK n \in 2..MaxBatch : CanPost(p, n) /\ Push(p, n)
    BY <1>3 DEF PostBatch
  <2> QED BY <2>1, PushKeepsIInv
<1>4. ASSUME NEW p \in Producer, Wakeup(p)
      PROVE  IInv'
  <2>1. attached /\ efd = 0 /\ owes' = {} /\ efd' = 1
    BY <1>4 DEF Wakeup, OneWakeToken, UntouchedBeforeAttach, TypeOK
  <2> QED BY <1>4, <2>1 DEF Wakeup, TypeOK, OneWakeToken, UntouchedBeforeAttach, ConsumerAt, Draining
<1>5. CASE Awake
  BY <1>5 DEF Awake, TypeOK, OneWakeToken, UntouchedBeforeAttach, ConsumerAt, Draining
<1>6. CASE ReadCounter
  BY <1>6 DEF ReadCounter, TypeOK, OneWakeToken, UntouchedBeforeAttach, ConsumerAt, Draining
<1>7. CASE Swap
  BY <1>7 DEF Swap, TypeOK, OneWakeToken, UntouchedBeforeAttach, ConsumerAt, Draining
<1>8. CASE FinishDrain
  BY <1>8 DEF FinishDrain, TypeOK, OneWakeToken, UntouchedBeforeAttach, ConsumerAt, Draining
<1>9. CASE Deliver
  <2>1. delivered' \in Seq(Item)
    BY <1>9, ConcatProperties DEF Deliver, TypeOK
  <2> QED BY <1>9, <2>1 DEF Deliver, TypeOK, OneWakeToken, UntouchedBeforeAttach, ConsumerAt, Draining
<1>10. CASE UNCHANGED vars
  BY <1>10 DEF vars, TypeOK, OneWakeToken, UntouchedBeforeAttach, Draining
<1> QED BY <1>1, <1>2, <1>3, <1>4, <1>5, <1>6, <1>7, <1>8, <1>9, <1>10 DEF Next, Consume

THEOREM Inductive == AttachFirst /\ Safety => []IInv
<1> SUFFICES ASSUME AttachFirst PROVE Safety => []IInv
  OBVIOUS
<1>1. IInv /\ [Next]_vars => IInv'
  BY NextIInv
<1> QED BY InitIInv, <1>1, PTL DEF Safety

\* The variables keep their types and the eventfd's counter never passes one.
THEOREM TypeCorrect == AttachFirst /\ Safety => []TypeOK
<1>1. IInv => TypeOK
  BY DEF IInv
<1> QED BY <1>1, Inductive, PTL

\* Mailbox.h, BatchQueue.h: one wake-up per drain, never none and never two,
\* for any number of producers.
THEOREM WakeTokenUnique == AttachFirst /\ Safety => []OneWakeToken
<1>1. IInv => OneWakeToken
  BY DEF IInv
<1> QED BY <1>1, Inductive, PTL

\* An item in the waiting vector is never left without a wake-up under way.
THEOREM WakeupNeverLost == AttachFirst /\ Safety => []NoLostWakeup
<1>1. IInv => NoLostWakeup
  BY DEF IInv, OneWakeToken, NoLostWakeup
<1> QED BY <1>1, Inductive, PTL

-------------------------------------------------------------------------------
(* The mailbox implements the channel *)

\* A push is one send of the channel: the two vectors read as one queue.
LEMMA PushSends ==
    ASSUME IInv, NEW p \in Producer, NEW n \in Nat \ {0}, Push(p, n)
    PROVE  Chan!SendSome
<1> DEFINE q == ready \o waiting
           b == Batch(p, n)
<1>1. /\ ready \in Seq(Item) /\ waiting \in Seq(Item) /\ q \in Seq(Item)
      /\ b \in Seq(Item) /\ Len(b) = n
  BY BatchType, ConcatProperties DEF IInv, TypeOK
<1>2. (ready \o waiting)' = q \o b
  <2>1. ready' = ready /\ waiting' = waiting \o b
    BY DEF Push
  <2>2. ready \o (waiting \o b) = q \o b
    BY <1>1, ConcatAssociative
  <2> QED BY <2>1, <2>2
<1> HIDE DEF q, b
<1>3. /\ q \o b \in Seq(Item)
      /\ Len(q \o b) > Len(q)
      /\ SubSeq(q \o b, 1, Len(q)) = q
  <2>1. Len(q) \in Nat /\ Len(q \o b) = Len(q) + n
    BY <1>1, ConcatProperties, LenProperties
  <2>2. q \o b \in Seq(Item)
    BY <1>1, ConcatProperties
  <2>3. SubSeq(q \o b, 1, Len(q)) = q
    BY <1>1, CutConcat
  <2> QED BY <2>1, <2>2, <2>3
<1> QED BY <1>2, <1>3 DEF q, Push, Chan!SendSome

\* Delivering the swapped-out batch is one receive of a non-empty prefix.
LEMMA DeliverReceives ==
    ASSUME IInv, Deliver
    PROVE  Chan!ReceiveSome
<1> DEFINE q == ready \o waiting
<1>1. /\ ready \in Seq(Item) /\ waiting \in Seq(Item)
      /\ ready # <<>>
  BY DEF IInv, TypeOK, Deliver
<1>2. Len(ready) \in 1..Len(q)
  BY <1>1, EmptySeq, ConcatProperties, LenProperties
<1>3. /\ SubSeq(q, 1, Len(ready)) = ready
      /\ SubSeq(q, Len(ready) + 1, Len(q)) = waiting
  BY <1>1, CutConcat
<1>4. (ready \o waiting)' = waiting
  BY <1>1, ConcatEmptySeq DEF Deliver
<1>5. Chan!Receive(Len(ready))
  BY <1>3, <1>4 DEF Deliver, Chan!Receive
<1> QED BY <1>2, <1>5 DEF Chan!ReceiveSome

\* Swapping moves items between the two vectors and nothing in the channel.
LEMMA SwapIsInvisible ==
    ASSUME IInv, Swap
    PROVE  UNCHANGED Chan!cvars
<1>1. ready = <<>> /\ waiting \in Seq(Item)
  BY DEF IInv, TypeOK, Swap
<1>2. (ready \o waiting)' = ready \o waiting
  BY <1>1, ConcatEmptySeq DEF Swap
<1> QED BY <1>2 DEF Swap, Chan!cvars

\* core/Mailbox is a FIFO: every behaviour of the mutex, the two vectors and
\* the wake protocol is a behaviour of the channel its users think of.
THEOREM MailboxImplementsChannel == AttachFirst /\ Safety => ImplementsChannel
<1> SUFFICES ASSUME AttachFirst PROVE Safety => ImplementsChannel
  OBVIOUS
<1>1. Init => Chan!Init
  BY EmptySeq, ConcatEmptySeq DEF Init, Chan!Init
<1>2. IInv /\ [Next]_vars => [Chan!Next]_(Chan!cvars)
  <2> SUFFICES ASSUME IInv, [Next]_vars
               PROVE  Chan!Next \/ UNCHANGED Chan!cvars
    OBVIOUS
  <2>1. ASSUME NEW p \in Producer, Post(p) \/ PostBatch(p)
        PROVE  Chan!Next
    <3>1. PICK n \in Nat \ {0} : Push(p, n)
      BY <2>1, BoundsAssumption DEF Post, PostBatch
    <3> QED BY <3>1, PushSends DEF Chan!Next
  <2>2. CASE Deliver
    BY <2>2, DeliverReceives DEF Chan!Next
  <2>3. CASE Swap
    BY <2>3, SwapIsInvisible
  <2>4. CASE UNCHANGED <<waiting, ready, delivered>>
    BY <2>4 DEF Chan!cvars
  <2> QED BY <2>1, <2>2, <2>3, <2>4
          DEF Next, Consume, Attach, Wakeup, Awake, ReadCounter, FinishDrain, vars
<1> QED BY <1>1, <1>2, Inductive, PTL DEF Safety, ImplementsChannel, Chan!Safety
===============================================================================
