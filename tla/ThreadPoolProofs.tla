--------------------------- MODULE ThreadPoolProofs ---------------------------
(***************************************************************************)
(* Proofs about module ThreadPool, for any number of workers and callers,  *)
(* any capacity, batches and number of calls: no worker sleeps on queued   *)
(* work, shutdown leaves nothing accepted behind, and the pool implements  *)
(* the FIFO of module Channel.                                             *)
(***************************************************************************)
EXTENDS ThreadPool, SequenceTheorems, TLAPS

-------------------------------------------------------------------------------
(* Facts about sequences: where a queue kept in two parts is cut and joined *)

\* Cutting a concatenation where it was joined gives the two parts back.
LEMMA CutConcat ==
    ASSUME NEW S, NEW s \in Seq(S), NEW t \in Seq(S)
    PROVE  /\ SubSeq(s \o t, 1, Len(s)) = s
           /\ SubSeq(s \o t, Len(s) + 1, Len(s \o t)) = t
<1> DEFINE c == s \o t
<1>1. /\ c \in Seq(S) /\ Len(c) = Len(s) + Len(t)
      /\ Len(s) \in Nat /\ Len(t) \in Nat
      /\ \A i \in 1..Len(s) : c[i] = s[i]
      /\ \A i \in 1..Len(t) : c[Len(s) + i] = t[i]
  BY ConcatProperties, LenProperties
<1>2. \A i \in 1..Len(c) : c[i] \in S
  BY <1>1, ElementOfSeq
<1> HIDE DEF c
<1>3. SubSeq(c, 1, Len(s)) = s
  <2>1. /\ SubSeq(c, 1, Len(s)) \in Seq(S)
        /\ Len(SubSeq(c, 1, Len(s))) = Len(s)
        /\ \A i \in 1..Len(s) : SubSeq(c, 1, Len(s))[i] = s[i]
    BY <1>1, <1>2, SubSeqProperties
  <2> QED BY <2>1, SeqEqual
<1>4. SubSeq(c, Len(s) + 1, Len(c)) = t
  <2>1. /\ SubSeq(c, Len(s) + 1, Len(c)) \in Seq(S)
        /\ Len(SubSeq(c, Len(s) + 1, Len(c))) = Len(t)
        /\ \A i \in 1..Len(t) : SubSeq(c, Len(s) + 1, Len(c))[i] = t[i]
    BY <1>1, <1>2, SubSeqProperties
  <2> QED BY <2>1, SeqEqual
<1> QED BY <1>3, <1>4 DEF c

\* A sequence is its head followed by its tail.
LEMMA HeadTailConcat ==
    ASSUME NEW S, NEW s \in Seq(S), s # <<>>
    PROVE  s = <<Head(s)>> \o Tail(s)
<1> DEFINE c == <<Head(s)>> \o Tail(s)
<1>1. /\ Head(s) \in S /\ Tail(s) \in Seq(S)
      /\ Len(s) \in Nat \ {0} /\ Len(Tail(s)) = Len(s) - 1
      /\ Head(s) = s[1]
      /\ \A i \in 1..Len(Tail(s)) : Tail(s)[i] = s[i + 1]
  BY HeadTailProperties, LenProperties, EmptySeq
<1>2. <<Head(s)>> \in Seq(S) /\ Len(<<Head(s)>>) = 1 /\ <<Head(s)>>[1] = s[1]
  BY <1>1
<1>3. /\ c \in Seq(S) /\ Len(c) = Len(s)
      /\ c[1] = s[1]
      /\ \A i \in 1..Len(Tail(s)) : c[i + 1] = Tail(s)[i]
  BY <1>1, <1>2, ConcatProperties
<1> HIDE DEF c
<1>4. \A i \in 1..Len(s) : s[i] = c[i]
  <2> SUFFICES ASSUME NEW i \in 1..Len(s) PROVE s[i] = c[i]
    OBVIOUS
  <2>1. CASE i = 1
    BY <1>3, <2>1
  <2>2. CASE i # 1
    <3>1. i - 1 \in 1..Len(Tail(s)) /\ (i - 1) + 1 = i
      BY <1>1, <2>2
    <3> QED BY <1>1, <1>3, <3>1
  <2> QED BY <2>1, <2>2
<1>5. s = c
  BY <1>3, <1>4, SeqEqual
<1> QED BY <1>5 DEF c

\* Taking the first element off the first part takes it off the whole.
LEMMA PopOfConcat ==
    ASSUME NEW S, NEW s \in Seq(S), NEW t \in Seq(S), s # <<>>
    PROVE  /\ Len(s \o t) \in Nat \ {0}
           /\ SubSeq(s \o t, 1, 1) = <<Head(s)>>
           /\ SubSeq(s \o t, 2, Len(s \o t)) = Tail(s) \o t
<1> DEFINE h == <<Head(s)>>
           r == Tail(s) \o t
<1>1. /\ Head(s) \in S /\ Tail(s) \in Seq(S)
  BY HeadTailProperties
<1>2. h \in Seq(S) /\ Len(h) = 1 /\ r \in Seq(S)
  BY <1>1, ConcatProperties
<1>3. s \o t = h \o r
  <2>1. s = h \o Tail(s)
    BY HeadTailConcat
  <2>2. (h \o Tail(s)) \o t = h \o r
    BY <1>1, <1>2, ConcatAssociative
  <2> QED BY <2>1, <2>2
<1> HIDE DEF h, r
<1>4. Len(h \o r) \in Nat \ {0}
  <2>1. Len(h \o r) = Len(h) + Len(r) /\ Len(r) \in Nat
    BY <1>2, ConcatProperties, LenProperties
  <2> QED BY <1>2, <2>1
<1>5. SubSeq(h \o r, 1, 1) = h /\ SubSeq(h \o r, 2, Len(h \o r)) = r
  <2>1. SubSeq(h \o r, 1, Len(h)) = h /\ SubSeq(h \o r, Len(h) + 1, Len(h \o r)) = r
    BY <1>2, CutConcat
  <2>2. Len(h) + 1 = 2
    BY <1>2
  <2> QED BY <1>2, <2>1, <2>2
<1> QED BY <1>3, <1>4, <1>5 DEF h, r

\* Moving the first element of the second part to the first leaves the whole alone.
LEMMA ShiftOfConcat ==
    ASSUME NEW S, NEW s \in Seq(S), NEW t \in Seq(S), t # <<>>
    PROVE  Append(s, Head(t)) \o Tail(t) = s \o t
<1>1. /\ Head(t) \in S /\ Tail(t) \in Seq(S) /\ <<Head(t)>> \in Seq(S)
  BY HeadTailProperties
<1>2. Append(s, Head(t)) = s \o <<Head(t)>>
  BY <1>1, AppendIsConcat
<1>3. (s \o <<Head(t)>>) \o Tail(t) = s \o (<<Head(t)>> \o Tail(t))
  BY <1>1, ConcatAssociative
<1>4. <<Head(t)>> \o Tail(t) = t
  BY HeadTailConcat
<1> QED BY <1>2, <1>3, <1>4

-------------------------------------------------------------------------------
\* Posters and workers stay in their own code, and the one that is inside a critical
\* section is the one that holds the mutex.
Exclusion == /\ \A p \in Poster : pc[p] \in PosterAt
             /\ \A w \in Worker : pc[w] \in WorkerAt
             /\ \A t \in Thread : mutex = t <=> pc[t] \in {"push", "publish", "notify",
                                                           "retry", "check", "sleep"}

\* Unpublished items belong to the poster in its publishing loop.
ComingInv == /\ coming # <<>> <=> \E p \in Poster : pc[p] = "publish"
             /\ \A p \in Poster : pc[p] \in {"lock", "push"} => hand[p] # <<>>

\* Work can be queued while somebody sleeps only under a poster that is about to
\* notify; a worker that found the queue empty under the lock still finds it empty.
SleepInv == /\ waiting # {} /\ (queue # <<>> \/ coming # <<>>) =>
                  \E p \in Poster : pc[p] \in {"publish", "notify"}
            /\ \A w \in Worker : pc[w] \in {"check", "sleep"} => queue = <<>>

\* stop_ is set between critical sections, so nobody in one acts on its old value.
StopInv == /\ stop <=> closing # "up"
           /\ closing \in {"join", "down"} => waiting = {}
           /\ \A w \in Worker : pc[w] = "sleep" => ~stop
           /\ stop => \A p \in Poster : pc[p] \notin {"publish", "notify"}
           /\ \A w \in Worker : pc[w] = "gone" => stop /\ queue = <<>>
           /\ closing = "down" => \A w \in Worker : pc[w] = "gone"

\* A task that was popped has run or is in the hand of a worker.
Carried == \A i \in 1..Len(taken) :
               \/ taken[i] \in done
               \/ \E w \in Worker : pc[w] \in {"free", "run"} /\ hand[w][1] = taken[i]

\* Carried, and what it says of the task a worker is at.
CarryInv == /\ \A w \in Worker : pc[w] \in {"free", "run"} => Len(hand[w]) = 1
            /\ Carried

IInv == TypeOK /\ Exclusion /\ ComingInv /\ SleepInv /\ StopInv /\ CarryInv

-------------------------------------------------------------------------------
LEMMA InitIInv == Init => IInv
<1> SUFFICES ASSUME Init PROVE IInv
  OBVIOUS
<1>1. <<>> \in Seq(Nat) /\ Len(<<>>) = 0
  BY EmptySeq
<1>5. Len(queue) + Len(coming) <= Capacity
  BY <1>1, PoolAssumption DEF Init
<1>2. TypeOK
  BY <1>1, <1>5, PoolAssumption DEF Init, TypeOK, Thread, WorkerAt, PosterAt
<1>3. Exclusion
  BY PoolAssumption DEF Init, Exclusion, Thread, WorkerAt, PosterAt
<1>4. ComingInv /\ SleepInv /\ StopInv /\ CarryInv
  BY <1>1, PoolAssumption DEF Init, ComingInv, SleepInv, StopInv, CarryInv, Carried, Thread
<1> QED BY <1>2, <1>3, <1>4 DEF IInv

\* What popping does to the sequences, and that the popper carries what it popped.
Popped(w) == /\ Head(queue) \in Nat
             /\ queue' \in Seq(Nat) /\ taken' \in Seq(Nat)
             /\ Len(queue') + Len(coming') <= Capacity
             /\ hand' \in [Thread -> Seq(Nat)]
             /\ Len(hand'[w]) = 1 /\ hand'[w][1] = Head(queue)
             /\ \A t \in Thread \ {w} : hand'[t] = hand[t]
             /\ Len(taken) \in Nat /\ Len(taken') = Len(taken) + 1
             /\ \A i \in 1..Len(taken) : taken'[i] = taken[i]
             /\ taken'[Len(taken) + 1] = Head(queue)

LEMMA PopFacts ==
    ASSUME TypeOK, NEW w \in Worker, PopInto(w)
    PROVE  Popped(w)
<1>1. Head(queue) \in Nat /\ Tail(queue) \in Seq(Nat)
  BY HeadTailProperties DEF TypeOK, PopInto
<1>2. w \in Thread
  BY DEF Thread
<1>3. /\ queue' \in Seq(Nat) /\ taken' \in Seq(Nat)
      /\ Len(taken) \in Nat /\ Len(taken') = Len(taken) + 1
      /\ \A i \in 1..Len(taken) : taken'[i] = taken[i]
      /\ taken'[Len(taken) + 1] = Head(queue)
  BY <1>1, AppendProperties, LenProperties DEF TypeOK, PopInto
<1>4. /\ hand' \in [Thread -> Seq(Nat)]
      /\ hand'[w] = <<Head(queue)>>
      /\ \A t \in Thread \ {w} : hand'[t] = hand[t]
  BY <1>1, <1>2 DEF TypeOK, PopInto
<1>5. Len(hand'[w]) = 1 /\ hand'[w][1] = Head(queue)
  BY <1>4
<1>6. Len(queue') + Len(coming') <= Capacity
  <2>1. /\ Len(queue) \in Nat /\ Len(Tail(queue)) = Len(queue) - 1
        /\ Len(coming) \in Nat /\ queue' = Tail(queue) /\ coming' = coming
    BY HeadTailProperties, LenProperties DEF TypeOK, PopInto
  <2>2. Len(queue) + Len(coming) <= Capacity /\ Capacity \in Nat
    BY PoolAssumption DEF TypeOK
  <2> QED BY <2>1, <2>2
<1> QED BY <1>1, <1>3, <1>4, <1>5, <1>6 DEF Popped

\* Popping keeps CarryInv, whichever of the two ways the worker goes on.
LEMMA PopCarries ==
    ASSUME IInv, NEW w \in Worker, PopInto(w), NEW s \in {"free", "run"},
           pc[w] \in {"try", "retry"}, Goto(w, s), UNCHANGED done
    PROVE  CarryInv'
<1>1. /\ w \in Thread /\ pc'[w] = s
      /\ \A t \in Thread \ {w} : pc'[t] = pc[t]
  BY DEF IInv, TypeOK, Thread, Goto
<1>2. Popped(w)
  BY PopFacts DEF IInv
<1>3. ASSUME NEW v \in Worker, pc'[v] \in {"free", "run"}
      PROVE  Len(hand'[v]) = 1
  BY <1>1, <1>2, <1>3 DEF IInv, CarryInv, Thread, Popped
<1>4. ASSUME NEW i \in 1..Len(taken')
      PROVE  \/ taken'[i] \in done'
             \/ \E v \in Worker : pc'[v] \in {"free", "run"} /\ hand'[v][1] = taken'[i]
  <2>1. CASE i \in 1..Len(taken)
    <3>1. taken'[i] = taken[i]
      BY <1>2, <2>1 DEF Popped
    <3>2. \/ taken[i] \in done
          \/ \E v \in Worker \ {w} : pc[v] \in {"free", "run"} /\ hand[v][1] = taken[i]
      BY <2>1 DEF IInv, CarryInv, Carried
    <3> QED BY <1>1, <1>2, <3>1, <3>2 DEF Thread, Popped
  <2>2. CASE i \notin 1..Len(taken)
    <3>1. i = Len(taken) + 1
      BY <1>2, <2>2 DEF Popped
    <3>2. hand'[w][1] = taken'[i]
      BY <1>2, <3>1 DEF Popped
    <3> QED BY <1>1, <3>2
  <2> QED BY <2>1, <2>2
<1> QED BY <1>3, <1>4 DEF CarryInv, Carried

\* CarryInv only looks at the histories and at the workers that have a task in hand.
LEMMA CarryKept ==
    ASSUME CarryInv, UNCHANGED <<taken, done>>,
           \A w \in Worker : pc'[w] \in {"free", "run"} <=> pc[w] \in {"free", "run"},
           \A w \in Worker : pc[w] \in {"free", "run"} => hand'[w] = hand[w]
    PROVE  CarryInv'
BY DEF CarryInv, Carried

-------------------------------------------------------------------------------
(* Every step keeps the invariant *)

\* A new call carries a non-empty batch.
LEMMA BeginPostKeeps == ASSUME IInv, NEW p \in Poster, BeginPost(p) PROVE IInv'
<1>1. PICK n \in 1..MaxBatch :
          hand' = [hand EXCEPT ![p] = [i \in 1..n |-> offered + i]]
  BY DEF BeginPost
<1>2. /\ [i \in 1..n |-> offered + i] \in Seq(Nat)
      /\ Len([i \in 1..n |-> offered + i]) = n
  <2>1. n \in Nat /\ [i \in 1..n |-> offered + i] \in [1..n -> Nat]
    BY PoolAssumption DEF IInv, TypeOK
  <2> QED BY <2>1, IsASeq, LenProperties
<1>3. [i \in 1..n |-> offered + i] # <<>>
  BY <1>2, PoolAssumption
<1>4. /\ hand' \in [Thread -> Seq(Nat)] /\ hand'[p] # <<>>
      /\ \A t \in Thread \ {p} : hand'[t] = hand[t]
  BY <1>1, <1>2, <1>3 DEF IInv, TypeOK, Thread
<1>5. offered' \in Nat
  BY PoolAssumption DEF BeginPost, IInv, TypeOK
<1> USE PoolAssumption DEF IInv, Thread, Goto, Lock, Unlock, tasks
<1>6. TypeOK' /\ Exclusion'
  BY <1>4, <1>5 DEF BeginPost, TypeOK, Exclusion, WorkerAt, PosterAt
<1>7. ComingInv'
  BY <1>4 DEF BeginPost, TypeOK, Exclusion, ComingInv
<1>8. SleepInv' /\ StopInv'
  BY DEF BeginPost, TypeOK, Exclusion, SleepInv, StopInv
<1>9. CarryInv'
  <2>1. \A w \in Worker : pc'[w] = pc[w] /\ hand'[w] = hand[w]
    BY <1>4 DEF BeginPost, TypeOK
  <2> QED BY <2>1, CarryKept DEF BeginPost
<1> QED BY <1>6, <1>7, <1>8, <1>9

\* A caller gets the mutex.
LEMMA LockToPostKeeps == ASSUME IInv, NEW p \in Poster, LockToPost(p) PROVE IInv'
<1> USE PoolAssumption DEF IInv, Thread, Goto, Lock, Unlock, tasks
<1>1. TypeOK'
  BY DEF LockToPost, TypeOK, WorkerAt, PosterAt
<1>4. Exclusion'
  BY DEF LockToPost, TypeOK, Exclusion, WorkerAt, PosterAt
<1>2. ComingInv' /\ SleepInv' /\ StopInv'
  BY DEF LockToPost, TypeOK, Exclusion, ComingInv, SleepInv, StopInv
<1>3. CarryInv'
  BY DEF LockToPost, TypeOK, CarryInv, Carried
<1> QED BY <1>1, <1>2, <1>3, <1>4

\* Claiming a batch makes it the one being published; a refused one is dropped.
LEMMA PushKeeps == ASSUME IInv, NEW p \in Poster, Push(p) PROVE IInv'
<1>1. /\ hand' \in [Thread -> Seq(Nat)]
      /\ \A t \in Thread \ {p} : hand'[t] = hand[t]
      /\ coming' \in Seq(Nat)
  BY EmptySeq DEF Push, IInv, TypeOK, Thread
<1> USE PoolAssumption DEF IInv, Thread, Goto, Lock, Unlock, tasks
<1>2. TypeOK'
  BY <1>1, ZenonT(20) DEF Push, TypeOK, Exclusion, WorkerAt, PosterAt
<1>7. Exclusion'
  BY ZenonT(20) DEF Push, TypeOK, Exclusion, WorkerAt, PosterAt
<1>3. ComingInv'
  BY <1>1, ZenonT(20) DEF Push, TypeOK, Exclusion, ComingInv
<1>4. SleepInv'
  BY DEF Push, TypeOK, Exclusion, ComingInv, SleepInv
<1>5. StopInv'
  BY DEF Push, TypeOK, Exclusion, StopInv
<1>6. CarryInv'
  <2>1. \A w \in Worker : pc'[w] = pc[w] /\ hand'[w] = hand[w]
    BY <1>1 DEF Push, TypeOK
  <2> QED BY <2>1, CarryKept DEF Push
<1> QED BY <1>2, <1>3, <1>4, <1>5, <1>6, <1>7

\* Publishing moves the oldest coming item to the visible ones.
LEMMA PublishKeeps == ASSUME IInv, NEW p \in Poster, Publish(p) PROVE IInv'
<1>1. coming # <<>>
  BY DEF Publish, IInv, ComingInv
<1>2. /\ Head(coming) \in Nat /\ Tail(coming) \in Seq(Nat)
      /\ Len(coming) = 1 <=> Tail(coming) = <<>>
  <2>1. coming \in Seq(Nat)
    BY DEF IInv, TypeOK
  <2>2. /\ Head(coming) \in Nat /\ Tail(coming) \in Seq(Nat)
        /\ Len(coming) \in Nat /\ Len(Tail(coming)) = Len(coming) - 1
    BY <1>1, <2>1, HeadTailProperties, LenProperties
  <2>3. Len(Tail(coming)) = 0 <=> Tail(coming) = <<>>
    BY <2>2, EmptySeq
  <2>4. Len(coming) = 1 <=> Len(Tail(coming)) = 0
    BY <2>2
  <2> QED BY <2>2, <2>3, <2>4
<1>3. queue' \in Seq(Nat) /\ coming' \in Seq(Nat)
  BY <1>2, AppendProperties DEF Publish, IInv, TypeOK
<1> USE PoolAssumption DEF IInv, Thread, Goto, Lock, Unlock, tasks
<1>4. TypeOK' /\ Exclusion'
  BY <1>3 DEF Publish, TypeOK, Exclusion, WorkerAt, PosterAt
<1>5. ComingInv'
  BY <1>1, <1>2 DEF Publish, TypeOK, Exclusion, ComingInv
<1>6. SleepInv'
  BY DEF Publish, TypeOK, Exclusion, SleepInv
<1>7. StopInv'
  BY DEF Publish, TypeOK, Exclusion, StopInv
<1>8. CarryInv'
  BY DEF Publish, TypeOK, Exclusion, CarryInv, Carried
<1> QED BY <1>4, <1>5, <1>6, <1>7, <1>8

\* Notifying leaves nobody asleep.
LEMMA NotifyWorkKeeps == ASSUME IInv, NEW p \in Poster, NotifyWork(p) PROVE IInv'
<1> USE PoolAssumption DEF IInv, Thread, Goto, Lock, Unlock, tasks
<1>1. TypeOK'
  BY DEF NotifyWork, TypeOK, WorkerAt, PosterAt
<1>4. Exclusion'
  BY DEF NotifyWork, TypeOK, Exclusion, WorkerAt, PosterAt
<1>2. ComingInv' /\ SleepInv' /\ StopInv'
  BY DEF NotifyWork, TypeOK, Exclusion, ComingInv, SleepInv, StopInv
<1>3. CarryInv'
  BY DEF NotifyWork, TypeOK, CarryInv, Carried
<1> QED BY <1>1, <1>2, <1>3, <1>4

\* The pop outside the lock.
LEMMA TryPopKeeps == ASSUME IInv, NEW w \in Worker, TryPop(w) PROVE IInv'
<1>1. CASE queue = <<>>
  <2> USE <1>1, PoolAssumption DEF IInv, Thread, Goto, Lock, Unlock, tasks, PopInto
  <2>1. TypeOK'
    BY ZenonT(20) DEF TryPop, TypeOK, WorkerAt, PosterAt
  <2>5. Exclusion'
    BY ZenonT(20) DEF TryPop, TypeOK, Exclusion, WorkerAt, PosterAt
  <2>2. ComingInv' /\ SleepInv' /\ StopInv'
    BY DEF TryPop, TypeOK, Exclusion, ComingInv, SleepInv, StopInv
  <2>3. \A v \in Worker : /\ pc'[v] \in {"free", "run"} <=> pc[v] \in {"free", "run"}
                          /\ hand'[v] = hand[v]
    BY DEF TryPop, TypeOK
  <2>4. CarryInv'
    BY <2>3, CarryKept DEF TryPop
  <2> QED BY <2>1, <2>2, <2>4, <2>5
<1>2. CASE queue # <<>>
  <2>1. PopInto(w) /\ Goto(w, "free")
    BY <1>2 DEF TryPop
  <2>2. Popped(w)
    BY <2>1, PopFacts DEF IInv
  <2>3. CarryInv'
    BY <2>1, PopCarries DEF TryPop
  <2> USE <1>2, PoolAssumption DEF IInv, Thread, Goto, Lock, Unlock
  <2>4. /\ UNCHANGED <<stop, coming, waiting, closing, offered, done>>
        /\ \A p \in Poster : hand'[p] = hand[p] /\ pc'[p] = pc[p]
    BY <2>1, <2>2 DEF TryPop, PopInto, Popped, TypeOK
  <2>5. TypeOK'
    <3>1. pc' \in [Thread -> WorkerAt \cup PosterAt]
      BY <2>1 DEF TypeOK, WorkerAt
    <3>2. waiting' \subseteq {v \in Worker : pc'[v] = "wait"}
      BY <2>1, <2>4 DEF TryPop, TypeOK
    <3>3. mutex' \in Thread \cup {Nobody}
      BY DEF TryPop, TypeOK
    <3> QED BY <2>2, <2>4, <3>1, <3>2, <3>3 DEF Popped, TypeOK
  <2>8. Exclusion'
    <3>1. \A t \in Thread : t # w => pc'[t] = pc[t]
      BY <2>1 DEF TypeOK
    <3> QED BY <2>1, <2>4, <3>1 DEF TryPop, TypeOK, Exclusion, WorkerAt
  <2>6. ComingInv'
    BY <2>4 DEF TryPop, ComingInv
  <2>7. SleepInv' /\ StopInv'
    BY <2>1, <2>4 DEF TryPop, TypeOK, Exclusion, SleepInv, StopInv
  <2> QED BY <2>3, <2>5, <2>6, <2>7, <2>8
<1> QED BY <1>1, <1>2

\* The cell goes back.
LEMMA FreeCellKeeps == ASSUME IInv, NEW w \in Worker, FreeCell(w) PROVE IInv'
<1> USE PoolAssumption DEF IInv, Thread, Goto, Lock, Unlock, tasks
<1>1. TypeOK'
  BY DEF FreeCell, TypeOK, WorkerAt, PosterAt
<1>4. Exclusion'
  BY DEF FreeCell, TypeOK, Exclusion, WorkerAt, PosterAt
<1>2. ComingInv' /\ SleepInv' /\ StopInv'
  BY DEF FreeCell, TypeOK, Exclusion, ComingInv, SleepInv, StopInv
<1>3. CarryInv'
  BY DEF FreeCell, TypeOK, CarryInv, Carried
<1> QED BY <1>1, <1>2, <1>3, <1>4

\* A worker that found nothing gets the mutex.
LEMMA LockToSleepKeeps == ASSUME IInv, NEW w \in Worker, LockToSleep(w) PROVE IInv'
<1> USE PoolAssumption DEF IInv, Thread, Goto, Lock, Unlock, tasks
<1>1. TypeOK'
  BY DEF LockToSleep, TypeOK, WorkerAt, PosterAt
<1>4. Exclusion'
  BY DEF LockToSleep, TypeOK, Exclusion, WorkerAt, PosterAt
<1>2. ComingInv' /\ SleepInv' /\ StopInv'
  BY DEF LockToSleep, TypeOK, Exclusion, ComingInv, SleepInv, StopInv
<1>3. CarryInv'
  BY DEF LockToSleep, TypeOK, CarryInv, Carried
<1> QED BY <1>1, <1>2, <1>3, <1>4

\* The pop under the lock.
LEMMA RetryPopKeeps == ASSUME IInv, NEW w \in Worker, RetryPop(w) PROVE IInv'
<1>1. CASE queue = <<>>
  <2> USE <1>1, PoolAssumption DEF IInv, Thread, Goto, Lock, Unlock, tasks, PopInto
  <2>1. TypeOK'
    BY ZenonT(20) DEF RetryPop, TypeOK, WorkerAt, PosterAt
  <2>5. Exclusion'
    BY ZenonT(20) DEF RetryPop, TypeOK, Exclusion, WorkerAt, PosterAt
  <2>2. ComingInv' /\ SleepInv' /\ StopInv'
    BY DEF RetryPop, TypeOK, Exclusion, ComingInv, SleepInv, StopInv
  <2>3. \A v \in Worker : /\ pc'[v] \in {"free", "run"} <=> pc[v] \in {"free", "run"}
                          /\ hand'[v] = hand[v]
    BY DEF RetryPop, TypeOK
  <2>4. CarryInv'
    BY <2>3, CarryKept DEF RetryPop
  <2> QED BY <2>1, <2>2, <2>4, <2>5
<1>2. CASE queue # <<>>
  <2>1. PopInto(w) /\ Goto(w, "run")
    BY <1>2 DEF RetryPop
  <2>2. Popped(w)
    BY <2>1, PopFacts DEF IInv
  <2>3. CarryInv'
    BY <2>1, PopCarries DEF RetryPop
  <2> USE <1>2, PoolAssumption DEF IInv, Thread, Goto, Lock, Unlock
  <2>4. /\ UNCHANGED <<stop, coming, waiting, closing, offered, done>>
        /\ \A p \in Poster : hand'[p] = hand[p] /\ pc'[p] = pc[p]
    BY <2>1, <2>2 DEF RetryPop, PopInto, Popped, TypeOK
  <2>5. TypeOK'
    <3>1. pc' \in [Thread -> WorkerAt \cup PosterAt]
      BY <2>1 DEF TypeOK, WorkerAt
    <3>2. waiting' \subseteq {v \in Worker : pc'[v] = "wait"}
      BY <2>1, <2>4 DEF RetryPop, TypeOK
    <3>3. mutex' \in Thread \cup {Nobody}
      BY DEF RetryPop, TypeOK
    <3> QED BY <2>2, <2>4, <3>1, <3>2, <3>3 DEF Popped, TypeOK
  <2>8. Exclusion'
    <3>1. \A t \in Thread : t # w => pc'[t] = pc[t]
      BY <2>1 DEF TypeOK
    <3> QED BY <2>1, <2>4, <3>1 DEF RetryPop, TypeOK, Exclusion, WorkerAt
  <2>6. ComingInv'
    BY <2>4 DEF RetryPop, ComingInv
  <2>7. SleepInv' /\ StopInv'
    BY <2>1, <2>4 DEF RetryPop, TypeOK, Exclusion, SleepInv, StopInv
  <2> QED BY <2>3, <2>5, <2>6, <2>7, <2>8
<1> QED BY <1>1, <1>2

\* Only an empty queue is left for good.
LEMMA CheckStopKeeps == ASSUME IInv, NEW w \in Worker, CheckStop(w) PROVE IInv'
<1> USE PoolAssumption DEF IInv, Thread, Goto, Lock, Unlock, tasks
<1>1. TypeOK' /\ Exclusion'
  <2>1. CASE stop
    BY <2>1, ZenonT(20) DEF CheckStop, TypeOK, Exclusion, WorkerAt, PosterAt
  <2>2. CASE ~stop
    BY <2>2, ZenonT(20) DEF CheckStop, TypeOK, Exclusion, WorkerAt, PosterAt
  <2> QED BY <2>1, <2>2
<1>2. ComingInv' /\ SleepInv' /\ StopInv'
  BY DEF CheckStop, TypeOK, Exclusion, ComingInv, SleepInv, StopInv
<1>3. CarryInv'
  <2>1. \A v \in Worker : /\ pc'[v] \in {"free", "run"} <=> pc[v] \in {"free", "run"}
                          /\ hand'[v] = hand[v]
    BY DEF CheckStop, TypeOK
  <2> QED BY <2>1, CarryKept DEF CheckStop
<1> QED BY <1>1, <1>2, <1>3

\* A worker goes to sleep on an empty queue, before stop_ is set.
LEMMA WaitKeeps == ASSUME IInv, NEW w \in Worker, Wait(w) PROVE IInv'
<1> USE PoolAssumption DEF IInv, Thread, Goto, Lock, Unlock, tasks
<1>1. TypeOK'
  BY DEF Wait, TypeOK, WorkerAt, PosterAt
<1>4. Exclusion'
  BY DEF Wait, TypeOK, Exclusion, WorkerAt, PosterAt
<1>2. ComingInv' /\ SleepInv' /\ StopInv'
  BY DEF Wait, TypeOK, Exclusion, ComingInv, SleepInv, StopInv
<1>3. CarryInv'
  BY DEF Wait, TypeOK, CarryInv, Carried
<1> QED BY <1>1, <1>2, <1>3, <1>4

\* One sleeper fewer.
LEMMA SpuriousWakeupKeeps == ASSUME IInv, NEW w \in Worker, SpuriousWakeup(w) PROVE IInv'
<1> USE PoolAssumption DEF IInv, Thread, Goto, Lock, Unlock, tasks
<1>1. TypeOK'
  BY DEF SpuriousWakeup, TypeOK, WorkerAt, PosterAt
<1>4. Exclusion'
  BY DEF SpuriousWakeup, TypeOK, Exclusion, WorkerAt, PosterAt
<1>2. ComingInv' /\ SleepInv' /\ StopInv'
  BY DEF SpuriousWakeup, TypeOK, Exclusion, ComingInv, SleepInv, StopInv
<1>3. CarryInv'
  BY DEF SpuriousWakeup, TypeOK, CarryInv, Carried
<1> QED BY <1>1, <1>2, <1>3, <1>4

\* A notified worker starts over.
LEMMA WakeUpKeeps == ASSUME IInv, NEW w \in Worker, WakeUp(w) PROVE IInv'
<1> USE PoolAssumption DEF IInv, Thread, Goto, Lock, Unlock, tasks
<1>1. TypeOK'
  BY DEF WakeUp, TypeOK, WorkerAt, PosterAt
<1>4. Exclusion'
  BY DEF WakeUp, TypeOK, Exclusion, WorkerAt, PosterAt
<1>2. ComingInv' /\ SleepInv' /\ StopInv'
  BY DEF WakeUp, TypeOK, Exclusion, ComingInv, SleepInv, StopInv
<1>3. CarryInv'
  BY DEF WakeUp, TypeOK, CarryInv, Carried
<1> QED BY <1>1, <1>2, <1>3, <1>4

\* The task in hand has run.
LEMMA RunTaskKeeps == ASSUME IInv, NEW w \in Worker, RunTask(w) PROVE IInv'
<1> USE PoolAssumption DEF IInv, Thread, Goto, Lock, Unlock, tasks
<1>1. hand[w][1] \in Nat
  <2>1. hand[w] \in Seq(Nat) /\ Len(hand[w]) = 1
    BY DEF RunTask, TypeOK, CarryInv
  <2> QED BY <2>1
<1>2. /\ hand' \in [Thread -> Seq(Nat)]
      /\ \A t \in Thread \ {w} : hand'[t] = hand[t]
  BY EmptySeq DEF RunTask, TypeOK
<1>3. TypeOK' /\ Exclusion'
  BY <1>1, <1>2 DEF RunTask, TypeOK, Exclusion, WorkerAt, PosterAt
<1>4. ComingInv'
  BY <1>2 DEF RunTask, TypeOK, Exclusion, ComingInv
<1>5. SleepInv' /\ StopInv'
  BY DEF RunTask, TypeOK, Exclusion, SleepInv, StopInv
<1>6. CarryInv'
  <2>1. \A v \in Worker \ {w} : pc'[v] = pc[v] /\ hand'[v] = hand[v]
    BY <1>2 DEF RunTask, TypeOK
  <2>2. pc'[w] = "try" /\ hand[w][1] \in done' /\ done \subseteq done'
    BY DEF RunTask, TypeOK
  <2>3. ASSUME NEW i \in 1..Len(taken)
        PROVE  \/ taken[i] \in done'
               \/ \E v \in Worker : pc'[v] \in {"free", "run"} /\ hand'[v][1] = taken[i]
    <3>1. CASE taken[i] \in done
      BY <2>2, <3>1
    <3>2. CASE taken[i] \notin done
      <4>1. PICK v \in Worker : pc[v] \in {"free", "run"} /\ hand[v][1] = taken[i]
        BY <2>3, <3>2 DEF CarryInv, Carried
      <4> QED BY <2>1, <2>2, <4>1
    <3> QED BY <3>1, <3>2
  <2>4. taken' = taken /\ \A v \in Worker : pc'[v] \in {"free", "run"} => Len(hand'[v]) = 1
    BY <2>1, <2>2 DEF RunTask, CarryInv
  <2> QED BY <2>3, <2>4 DEF CarryInv, Carried
<1> QED BY <1>3, <1>4, <1>5, <1>6

\* stop_ is set while nobody is in a critical section.
LEMMA SetStopKeeps == ASSUME IInv, SetStop PROVE IInv'
<1> USE PoolAssumption DEF IInv, Thread, Goto, Lock, Unlock, tasks
<1>1. TypeOK'
  BY DEF SetStop, TypeOK, WorkerAt, PosterAt
<1>4. Exclusion'
  BY DEF SetStop, TypeOK, Exclusion, WorkerAt, PosterAt
<1>2. ComingInv' /\ SleepInv' /\ StopInv'
  BY DEF SetStop, TypeOK, Exclusion, ComingInv, SleepInv, StopInv
<1>3. CarryInv'
  BY DEF SetStop, TypeOK, CarryInv, Carried
<1> QED BY <1>1, <1>2, <1>3, <1>4

\* No sleeper is left.
LEMMA NotifyStopKeeps == ASSUME IInv, NotifyStop PROVE IInv'
<1> USE PoolAssumption DEF IInv, Thread, Goto, Lock, Unlock, tasks
<1>1. TypeOK'
  BY DEF NotifyStop, TypeOK, WorkerAt, PosterAt
<1>4. Exclusion'
  BY DEF NotifyStop, TypeOK, Exclusion, WorkerAt, PosterAt
<1>2. ComingInv' /\ SleepInv' /\ StopInv'
  BY DEF NotifyStop, TypeOK, Exclusion, ComingInv, SleepInv, StopInv
<1>3. CarryInv'
  BY DEF NotifyStop, TypeOK, CarryInv, Carried
<1> QED BY <1>1, <1>2, <1>3, <1>4

\* All workers are gone.
LEMMA JoinKeeps == ASSUME IInv, Join PROVE IInv'
<1> USE PoolAssumption DEF IInv, Thread, Goto, Lock, Unlock, tasks
<1>1. TypeOK'
  BY DEF Join, TypeOK, WorkerAt, PosterAt
<1>4. Exclusion'
  BY DEF Join, TypeOK, Exclusion, WorkerAt, PosterAt
<1>2. ComingInv' /\ SleepInv' /\ StopInv'
  BY DEF Join, TypeOK, Exclusion, ComingInv, SleepInv, StopInv
<1>3. CarryInv'
  BY DEF Join, TypeOK, CarryInv, Carried
<1> QED BY <1>1, <1>2, <1>3, <1>4

\* One step of any thread keeps the invariant.
LEMMA NextIInv == ASSUME IInv, [Next]_vars PROVE IInv'
<1>1. ASSUME NEW p \in Poster, BeginPost(p) \/ PostStep(p)
      PROVE  IInv'
  BY <1>1, BeginPostKeeps, LockToPostKeeps, PushKeeps, PublishKeeps, NotifyWorkKeeps
     DEF PostStep
<1>2. ASSUME NEW w \in Worker, WorkStep(w) \/ SpuriousWakeup(w)
      PROVE  IInv'
  BY <1>2, TryPopKeeps, FreeCellKeeps, LockToSleepKeeps, RetryPopKeeps, CheckStopKeeps,
     WaitKeeps, SpuriousWakeupKeeps, WakeUpKeeps, RunTaskKeeps
     DEF WorkStep
<1>3. CASE SetStop \/ ShutdownStep
  BY <1>3, SetStopKeeps, NotifyStopKeeps, JoinKeeps DEF ShutdownStep
<1>4. CASE UNCHANGED vars
  BY <1>4 DEF vars, tasks, IInv, TypeOK, Exclusion, ComingInv, SleepInv, StopInv,
              CarryInv, Carried
<1> QED BY <1>1, <1>2, <1>3, <1>4 DEF Next

THEOREM Inductive == Safety => []IInv
<1>1. IInv /\ [Next]_vars => IInv'
  BY NextIInv
<1> QED BY InitIInv, <1>1, PTL DEF Safety

\* The variables keep their types; only workers that wait are on the wait list.
THEOREM TypeCorrect == Safety => []TypeOK
<1>1. IInv => TypeOK
  BY DEF IInv
<1> QED BY <1>1, Inductive, PTL

\* ThreadPool.cpp, post_batch, worker_loop and shutdown: no notification is missed,
\* for any number of workers and callers.
THEOREM NoLostNotification == Safety => []NobodyOversleeps
<1>1. IInv => NobodyOversleeps
  <2> SUFFICES ASSUME IInv PROVE NobodyOversleeps
    OBVIOUS
  <2>1. ASSUME mutex = Nobody PROVE \A p \in Poster : pc[p] \notin {"publish", "notify"}
    BY <2>1, PoolAssumption DEF IInv, Exclusion, Thread
  <2> QED BY <2>1 DEF IInv, SleepInv, StopInv, NobodyOversleeps
<1> QED BY <1>1, Inductive, PTL

\* When shutdown has returned, everything accepted has run.
THEOREM ShutdownDrains == Safety => []DrainedAtShutdown
<1>1. IInv => DrainedAtShutdown
  <2> SUFFICES ASSUME IInv, closing = "down"
               PROVE  /\ queue = <<>> /\ coming = <<>>
                      /\ \A i \in 1..Len(taken) : taken[i] \in done
    BY DEF DrainedAtShutdown
  <2>1. stop /\ \A w \in Worker : pc[w] = "gone"
    BY DEF IInv, StopInv
  <2>2. coming = <<>>
    BY <2>1 DEF IInv, StopInv, ComingInv
  <2>3. queue = <<>>
    BY <2>1, PoolAssumption DEF IInv, StopInv
  <2> QED BY <2>1, <2>2, <2>3 DEF IInv, CarryInv, Carried
<1> QED BY <1>1, Inductive, PTL

-------------------------------------------------------------------------------
(* The pool implements the channel *)

\* Claiming the places of a batch is one send.
LEMMA PushSends ==
    ASSUME IInv, NEW p \in Poster, Push(p)
    PROVE  Chan!SendSome \/ UNCHANGED Chan!cvars
<1>1. CASE UNCHANGED coming
  BY <1>1 DEF Push, Chan!cvars
<1>2. CASE coming' = hand[p] /\ mutex' = mutex /\ pc[p] = "push"
  <2>1. /\ queue \in Seq(Nat) /\ hand[p] \in Seq(Nat)
    BY DEF IInv, TypeOK, Thread
  <2>2. coming = <<>> /\ hand[p] # <<>>
    BY <1>2, PoolAssumption DEF IInv, Exclusion, ComingInv, Thread
  <2>3. queue \o coming = queue /\ (queue \o coming)' = queue \o hand[p]
    BY <1>2, <2>1, <2>2, ConcatEmptySeq DEF Push
  <2>4. /\ queue \o hand[p] \in Seq(Nat)
        /\ Len(queue \o hand[p]) > Len(queue)
    BY <2>1, <2>2, ConcatProperties, EmptySeq, LenProperties
  <2>5. SubSeq(queue \o hand[p], 1, Len(queue)) = queue
    BY <2>1, CutConcat
  <2> QED BY <2>3, <2>4, <2>5 DEF Push, Chan!SendSome
<1> QED BY <1>1, <1>2 DEF Push

\* A pop is the receipt of the oldest task.
LEMMA PopReceives ==
    ASSUME IInv, NEW w \in Worker, PopInto(w)
    PROVE  Chan!ReceiveSome
<1>1. /\ queue \in Seq(Nat) /\ coming \in Seq(Nat) /\ taken \in Seq(Nat)
      /\ queue # <<>>
  BY DEF IInv, TypeOK, PopInto
<1>2. /\ Len(queue \o coming) \in Nat \ {0}
      /\ SubSeq(queue \o coming, 1, 1) = <<Head(queue)>>
      /\ SubSeq(queue \o coming, 2, Len(queue \o coming)) = Tail(queue) \o coming
  BY <1>1, PopOfConcat
<1>3. Append(taken, Head(queue)) = taken \o <<Head(queue)>>
  BY <1>1, HeadTailProperties, AppendIsConcat
<1>4. Chan!Receive(1)
  BY <1>2, <1>3 DEF PopInto, Chan!Receive
<1> QED BY <1>2, <1>4 DEF Chan!ReceiveSome

\* Publishing an item is invisible to the channel, where it already was.
LEMMA PublishIsInvisible ==
    ASSUME IInv, NEW p \in Poster, Publish(p)
    PROVE  UNCHANGED Chan!cvars
<1>1. queue \in Seq(Nat) /\ coming \in Seq(Nat) /\ coming # <<>>
  BY DEF Publish, IInv, TypeOK, ComingInv
<1>2. (queue \o coming)' = queue \o coming
  BY <1>1, ShiftOfConcat DEF Publish
<1> QED BY <1>2 DEF Publish, Chan!cvars

\* core/ThreadPool is a FIFO: every behaviour of the workers, the callers of
\* post_batch and shutdown is a behaviour of the channel.
THEOREM ThreadPoolImplementsChannel == Safety => ImplementsChannel
<1>1. Init => Chan!Init
  BY EmptySeq, ConcatEmptySeq DEF Init, Chan!Init
<1>2. IInv /\ [Next]_vars => [Chan!Next]_(Chan!cvars)
  <2> SUFFICES ASSUME IInv, [Next]_vars
               PROVE  Chan!Next \/ UNCHANGED Chan!cvars
    OBVIOUS
  <2>1. ASSUME NEW p \in Poster, BeginPost(p) \/ PostStep(p)
        PROVE  Chan!Next \/ UNCHANGED Chan!cvars
    <3>1. CASE Push(p)
      BY <3>1, PushSends DEF Chan!Next
    <3>2. CASE Publish(p)
      BY <3>2, PublishIsInvisible
    <3>3. CASE BeginPost(p) \/ LockToPost(p) \/ NotifyWork(p)
      BY <3>3 DEF BeginPost, LockToPost, NotifyWork, tasks, Chan!cvars
    <3> QED BY <2>1, <3>1, <3>2, <3>3 DEF PostStep
  <2>2. ASSUME NEW w \in Worker, WorkStep(w) \/ SpuriousWakeup(w)
        PROVE  Chan!Next \/ UNCHANGED Chan!cvars
    <3>1. CASE TryPop(w) \/ RetryPop(w)
      BY <3>1, PopReceives DEF TryPop, RetryPop, tasks, Chan!Next, Chan!cvars
    <3>2. CASE ~(TryPop(w) \/ RetryPop(w))
      BY <2>2, <3>2 DEF WorkStep, FreeCell, LockToSleep, CheckStop, Wait, WakeUp, RunTask,
                        SpuriousWakeup, tasks, Chan!cvars
    <3> QED BY <3>1, <3>2
  <2>3. CASE SetStop \/ ShutdownStep \/ UNCHANGED vars
    BY <2>3 DEF SetStop, ShutdownStep, NotifyStop, Join, tasks, vars, Chan!cvars
  <2> QED BY <2>1, <2>2, <2>3 DEF Next
<1> QED BY <1>1, <1>2, Inductive, PTL DEF Safety, ImplementsChannel, Chan!Safety
===============================================================================
