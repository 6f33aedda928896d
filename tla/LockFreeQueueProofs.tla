-------------------------- MODULE LockFreeQueueProofs --------------------------
(***************************************************************************)
(* Proofs about module LockFreeQueue, for any number of threads, any batch *)
(* and any ring of two cells or more (the server's has kMaxTaskNum).  With *)
(* one cell, which the assertion in the code admits, a cell just published *)
(* and a cell free for the next position carry the same number, and the    *)
(* theorems do not hold.                                                   *)
(***************************************************************************)
EXTENDS LockFreeQueue, SequenceTheorems, TLAPS

-------------------------------------------------------------------------------
(* Facts about sequences: the part of a log that is the queue *)

\* Cutting a concatenation where it was joined gives the two parts back.
LEMMA CutConcat ==
    ASSUME NEW S, NEW s \in Seq(S), NEW t \in Seq(S)
    PROVE  /\ SubSeq(s \o t, 1, Len(s)) = s
           /\ SubSeq(s \o t, Len(s) + 1, Len(s \o t)) = t
<1> DEFINE c == s \o t
<1>1. /\ c \in Seq(S) /\ Len(c) = Len(s) + Len(t)
      /\ Len(s) \in Nat /\ Len(t) \in Nat
      /\ \A i \in 1..Len(s) : c[i] = s[i]
      /\ \A i \in 1..Len(t) : c[Len(s) + i] = t[i]
  BY ConcatProperties, LenProperties
<1>2. \A i \in 1..Len(c) : c[i] \in S
  BY <1>1, ElementOfSeq
<1> HIDE DEF c
<1>3. SubSeq(c, 1, Len(s)) = s
  <2>1. /\ SubSeq(c, 1, Len(s)) \in Seq(S)
        /\ Len(SubSeq(c, 1, Len(s))) = Len(s)
        /\ \A i \in 1..Len(s) : SubSeq(c, 1, Len(s))[i] = s[i]
    BY <1>1, <1>2, SubSeqProperties
  <2> QED BY <2>1, SeqEqual
<1>4. SubSeq(c, Len(s) + 1, Len(c)) = t
  <2>1. /\ SubSeq(c, Len(s) + 1, Len(c)) \in Seq(S)
        /\ Len(SubSeq(c, Len(s) + 1, Len(c))) = Len(t)
        /\ \A i \in 1..Len(t) : SubSeq(c, Len(s) + 1, Len(c))[i] = t[i]
    BY <1>1, <1>2, SubSeqProperties
  <2> QED BY <2>1, SeqEqual
<1> QED BY <1>3, <1>4 DEF c

\* The elements of a part of a sequence.
LEMMA Slice ==
    ASSUME NEW S, NEW s \in Seq(S), NEW a \in Nat \ {0}, NEW b \in Nat,
           a <= b + 1, b <= Len(s)
    PROVE  /\ SubSeq(s, a, b) \in Seq(S) /\ Len(SubSeq(s, a, b)) = b - a + 1
           /\ \A i \in 1..(b - a + 1) : SubSeq(s, a, b)[i] = s[a + i - 1]
<1>1. Len(s) \in Nat /\ \A i \in 1..Len(s) : s[i] \in S
  BY LenProperties, ElementOfSeq
<1>2. a \in Int /\ b \in Int /\ \A i \in a..b : s[i] \in S
  BY <1>1
<1>3. /\ SubSeq(s, a, b) \in Seq(S)
      /\ Len(SubSeq(s, a, b)) = IF a <= b THEN b - a + 1 ELSE 0
      /\ \A i \in 1..(b - a + 1) : SubSeq(s, a, b)[i] = s[a + i - 1]
  BY <1>2, SubSeqProperties
<1> QED BY <1>3

\* The part of a log after its first d elements is a queue: appending to the log
\* appends to the queue, and taking nothing away leaves what was taken.
LEMMA WindowGrows ==
    ASSUME NEW S, NEW s \in Seq(S), NEW t \in Seq(S), NEW d \in Nat, d <= Len(s)
    PROVE  /\ SubSeq(s, d + 1, Len(s)) \in Seq(S)
           /\ SubSeq(s \o t, d + 1, Len(s) + Len(t)) \in Seq(S)
           /\ Len(SubSeq(s, d + 1, Len(s))) = Len(s) - d
           /\ Len(SubSeq(s \o t, d + 1, Len(s) + Len(t))) = Len(s) - d + Len(t)
           /\ SubSeq(SubSeq(s \o t, d + 1, Len(s) + Len(t)), 1, Len(s) - d)
                 = SubSeq(s, d + 1, Len(s))
           /\ SubSeq(s \o t, 1, d) = SubSeq(s, 1, d)
<1> DEFINE c == s \o t
           q == SubSeq(s, d + 1, Len(s))
           r == SubSeq(c, d + 1, Len(s) + Len(t))
<1>1. /\ c \in Seq(S) /\ Len(c) = Len(s) + Len(t) /\ Len(s) \in Nat /\ Len(t) \in Nat
      /\ \A i \in 1..Len(s) : c[i] = s[i]
  BY ConcatProperties, LenProperties
<1>2. /\ q \in Seq(S) /\ Len(q) = Len(s) - d
      /\ \A i \in 1..(Len(s) - d) : q[i] = s[d + i]
  <2>1. d + 1 \in Nat \ {0} /\ d + 1 <= Len(s) + 1
    BY <1>1
  <2>2. /\ q \in Seq(S) /\ Len(q) = Len(s) - (d + 1) + 1
        /\ \A i \in 1..(Len(s) - (d + 1) + 1) : q[i] = s[d + 1 + i - 1]
    BY <1>1, <2>1, Slice
  <2> HIDE DEF q
  <2> QED BY <1>1, <2>2
<1> HIDE DEF c
<1>3. /\ r \in Seq(S) /\ Len(r) = Len(s) - d + Len(t)
      /\ \A i \in 1..(Len(s) - d + Len(t)) : r[i] = c[d + i]
  <2>1. d + 1 \in Nat \ {0} /\ d + 1 <= Len(s) + Len(t) + 1 /\ Len(s) + Len(t) \in Nat
    BY <1>1
  <2>2. /\ r \in Seq(S) /\ Len(r) = Len(s) + Len(t) - (d + 1) + 1
        /\ \A i \in 1..(Len(s) + Len(t) - (d + 1) + 1) : r[i] = c[d + 1 + i - 1]
    BY <1>1, <2>1, Slice
  <2> HIDE DEF r
  <2> QED BY <1>1, <2>2
<1> HIDE DEF q, r
<1>4. SubSeq(r, 1, Len(s) - d) = q
  <2>1. Len(s) - d \in Nat /\ Len(s) - d <= Len(r)
    BY <1>1, <1>3
  <2>2. /\ SubSeq(r, 1, Len(s) - d) \in Seq(S)
        /\ Len(SubSeq(r, 1, Len(s) - d)) = Len(s) - d - 1 + 1
        /\ \A i \in 1..(Len(s) - d - 1 + 1) : SubSeq(r, 1, Len(s) - d)[i] = r[1 + i - 1]
    BY <1>3, <2>1, Slice
  <2>3. \A i \in 1..(Len(s) - d) : r[1 + i - 1] = q[i]
    BY <1>1, <1>2, <1>3
  <2> QED BY <1>1, <1>2, <2>2, <2>3, SeqEqual
<1>5. SubSeq(c, 1, d) = SubSeq(s, 1, d)
  <2>1. /\ SubSeq(c, 1, d) \in Seq(S) /\ Len(SubSeq(c, 1, d)) = d - 1 + 1
        /\ \A i \in 1..(d - 1 + 1) : SubSeq(c, 1, d)[i] = c[1 + i - 1]
    BY <1>1, Slice
  <2>2. /\ SubSeq(s, 1, d) \in Seq(S) /\ Len(SubSeq(s, 1, d)) = d - 1 + 1
        /\ \A i \in 1..(d - 1 + 1) : SubSeq(s, 1, d)[i] = s[1 + i - 1]
    BY <1>1, Slice
  <2>3. \A i \in 1..(d - 1 + 1) : c[1 + i - 1] = s[1 + i - 1]
    BY <1>1
  <2> QED BY <2>1, <2>2, <2>3, SeqEqual
<1> QED BY <1>1, <1>2, <1>3, <1>4, <1>5 DEF c, q, r

\* Moving the mark by one takes the first element of the queue.
LEMMA WindowMoves ==
    ASSUME NEW S, NEW s \in Seq(S), NEW d \in Nat, d < Len(s)
    PROVE  /\ Len(SubSeq(s, d + 1, Len(s))) \in Nat \ {0}
           /\ SubSeq(s, 1, d + 1)
                 = SubSeq(s, 1, d) \o SubSeq(SubSeq(s, d + 1, Len(s)), 1, 1)
           /\ SubSeq(s, d + 1 + 1, Len(s))
                 = SubSeq(SubSeq(s, d + 1, Len(s)), 2, Len(SubSeq(s, d + 1, Len(s))))
<1> DEFINE q == SubSeq(s, d + 1, Len(s))
<1>1. Len(s) \in Nat /\ d + 1 \in 1..Len(s) /\ d + 1 \in Nat \ {0} /\ \A i \in 1..Len(s) : s[i] \in S
  BY LenProperties, ElementOfSeq
<1>2. q = <<s[d + 1]>> \o SubSeq(s, d + 1 + 1, Len(s))
  BY <1>1, SubSeqRecursiveFirst
<1>3. SubSeq(s, d + 1 + 1, Len(s)) \in Seq(S) /\ <<s[d + 1]>> \in Seq(S) /\ s[d + 1] \in S
  <2>1. d + 1 + 1 \in Nat \ {0} /\ d + 1 + 1 <= Len(s) + 1
    BY <1>1
  <2> QED BY <1>1, <2>1, Slice
<1>4. SubSeq(q, 1, 1) = <<s[d + 1]>>
  <2>1. Len(<<s[d + 1]>>) = 1
    OBVIOUS
  <2>2. SubSeq(<<s[d + 1]>> \o SubSeq(s, d + 1 + 1, Len(s)), 1, Len(<<s[d + 1]>>)) = <<s[d + 1]>>
    BY <1>3, CutConcat
  <2> QED BY <1>2, <2>1, <2>2
<1>5. SubSeq(q, 2, Len(q)) = SubSeq(s, d + 1 + 1, Len(s)) /\ Len(q) \in Nat \ {0}
  <2>1. Len(<<s[d + 1]>>) = 1 /\ 1 + 1 = 2
    OBVIOUS
  <2>2. SubSeq(<<s[d + 1]>> \o SubSeq(s, d + 1 + 1, Len(s)), Len(<<s[d + 1]>>) + 1,
               Len(<<s[d + 1]>> \o SubSeq(s, d + 1 + 1, Len(s))))
        = SubSeq(s, d + 1 + 1, Len(s))
    BY <1>3, CutConcat
  <2>3. Len(q) \in Nat \ {0}
    BY <1>2, <1>3, ConcatProperties, LenProperties
  <2> QED BY <1>2, <2>1, <2>2, <2>3
<1>6. SubSeq(s, 1, d + 1) = SubSeq(s, 1, d) \o <<s[d + 1]>>
  <2>1. 1 \in 1..Len(s) /\ d + 1 \in 1..Len(s) /\ (d + 1) - 1 = d
    BY <1>1
  <2> QED BY <2>1, SubSeqRecursiveSecond
<1> QED BY <1>4, <1>5, <1>6

-------------------------------------------------------------------------------
(* The inductive invariant *)

\* The positions a producer has claimed and not published yet.
Unpublished(p) ==
    IF pc[p] = "write" THEN pos[p]..(pos[p] + Len(hand[p]) - 1)
    ELSE IF pc[p] = "publish" THEN (pos[p] + idx[p])..(pos[p] + Len(hand[p]) - 1)
    ELSE {}

\* A consumer has claimed its position and not released the cell.
Reading(c) == pc[c] \in {"read", "free"}

\* What a program counter says about the locals.
ProducerRole(p) ==
    /\ pc[p] \in PushAt /\ hand[p] \in Seq(Item)
    /\ pc[p] # "idle" => Len(hand[p]) \in 1..N
    /\ pc[p] \in {"check", "write", "publish"} => idx[p] < Len(hand[p])

Roles == /\ \A p \in Producer : ProducerRole(p)
         /\ \A c \in Consumer : pc[c] \in PopAt

\* The slots a producer has found free, if its position is still the next one.
Checked(p) == IF pc[p] = "check" THEN idx[p] ELSE Len(hand[p])

\* A position loaded is at most the next one; if it still is, what was seen in the
\* cells has not changed since.
ProducerLook(p) ==
    pc[p] \in {"check", "claim"} =>
       /\ pos[p] <= enq
       /\ pos[p] = enq => \A i \in Nat : i < Checked(p) => seq[CellOf(pos[p] + i)] = pos[p] + i

ConsumerLook(c) ==
    pc[c] \in {"look", "claim"} =>
       /\ pos[c] <= deq
       /\ pc[c] = "claim" /\ pos[c] = deq => seq[CellOf(pos[c])] = pos[c] + 1

Looks == /\ \A p \in Producer : ProducerLook(p)
         /\ \A c \in Consumer : ConsumerLook(c)

\* A position claimed by a producer is its own, and its cell waits for it.
Writers ==
    /\ \A p \in Producer : pc[p] \in {"write", "publish"} => pos[p] + Len(hand[p]) <= enq
    /\ \A p \in Producer : \A x \in Unpublished(p) : x >= deq /\ seq[CellOf(x)] = x
    /\ \A p, q \in Producer : p # q => Unpublished(p) \cap Unpublished(q) = {}

\* A position claimed by a consumer is its own, and its cell is published.
Readers ==
    /\ \A c \in Consumer : Reading(c) => pos[c] < deq /\ seq[CellOf(pos[c])] = pos[c] + 1
    /\ \A c, d \in Consumer : c # d /\ Reading(c) /\ Reading(d) => pos[c] # pos[d]

\* The cell is free for the position its number names, which is claimed or to come.
Free(k) == /\ CellOf(seq[k]) = k
           /\ seq[k] >= deq
           /\ seq[k] >= enq \/ \E p \in Producer : seq[k] \in Unpublished(p)

\* The cell is published for the position before its number, and not read, or being read.
Full(k) == /\ seq[k] >= 1 /\ CellOf(seq[k] - 1) = k
           /\ seq[k] - 1 < enq
           /\ seq[k] - 1 >= deq \/ \E c \in Consumer : Reading(c) /\ pos[c] = seq[k] - 1
           /\ enq <= seq[k] - 1 + N

Cells == \A k \in Cell : (Free(k) /\ enq <= seq[k] + N) \/ Full(k)

\* The items of the positions are where they belong: in the hands of the producers,
\* in the cells published, and in the hands of the consumers.
Contents ==
    /\ \A p \in Producer : pc[p] \in {"write", "publish"} =>
          \A i \in 1..Len(hand[p]) : log[pos[p] + i] = hand[p][i]
    /\ \A p \in Producer : pc[p] \in {"write", "publish"} =>
          \A i \in Nat : pos[p] + i \in Unpublished(p) /\ (pc[p] = "write" => i < idx[p])
                         => data[CellOf(pos[p] + i)] = hand[p][i + 1]
    /\ \A k \in Cell : Full(k) => data[k] = log[seq[k]]
    /\ \A c \in Consumer : pc[c] = "free" => hand[c] = <<log[pos[c] + 1]>>

Order == TypeOK /\ Roles /\ Looks /\ Writers /\ Readers /\ Cells

IInv == Order /\ Contents

-------------------------------------------------------------------------------
(* Positions and their cells *)

LEMMA Division ==
    ASSUME NEW n \in Nat \ {0}, NEW x \in Nat
    PROVE  /\ x \div n \in Nat /\ x % n \in 0..(n - 1)
           /\ x = n * (x \div n) + (x % n)
OBVIOUS

LEMMA NextMultiple ==
    ASSUME NEW n \in Nat \ {0}, NEW a \in Int, NEW b \in Int, a < b
    PROVE  n * a + n <= n * b
OBVIOUS

LEMMA OneQuotient ==
    ASSUME NEW n \in Nat \ {0}, NEW a \in Int, NEW b \in Int,
           NEW r \in 0..(n - 1), NEW s \in 0..(n - 1), n * a + r = n * b + s
    PROVE  r = s
<1>1. ~(a < b)
  BY NextMultiple
<1>2. ~(b < a)
  BY NextMultiple
<1> QED BY <1>1, <1>2

\* Two positions of one cell are at least a lap apart.
LEMMA CellLemma ==
    /\ \A x \in Nat : CellOf(x) \in Cell /\ CellOf(x + N) = CellOf(x)
    /\ \A k \in Cell : k \in Nat /\ CellOf(k) = k
    /\ \A x, y \in Nat : CellOf(x) = CellOf(y) /\ x < y => x + N <= y
<1>1. N \in Nat \ {0}
  BY RingAssumption
<1>2. \A x \in Nat : CellOf(x) \in Cell
  BY <1>1 DEF CellOf, Cell
<1>3. ASSUME NEW x \in Nat PROVE CellOf(x + N) = CellOf(x)
  <2> DEFINE y == x + N
             a == x \div N + 1
             b == y \div N
             r == x % N
             s == y % N
  <2>1. x \div N \in Nat /\ r \in 0..(N - 1) /\ x = N * (x \div N) + r
    BY <1>1, Division
  <2>2. y \in Nat
    BY <1>1
  <2>3. b \in Nat /\ s \in 0..(N - 1) /\ y = N * b + s
    BY <1>1, <2>2, Division
  <2>4. a \in Int /\ N * a = N * (x \div N) + N
    BY <1>1, <2>1
  <2>5. N * a + r = N * b + s
    BY <1>1, <2>1, <2>3, <2>4
  <2> HIDE DEF a, b, r, s
  <2>6. r = s
    <3>1. N \in Nat \ {0} /\ a \in Int /\ b \in Int /\ r \in 0..(N - 1) /\ s \in 0..(N - 1)
      BY <1>1, <2>1, <2>3, <2>4
    <3> QED BY ONLY <2>5, <3>1, OneQuotient
  <2> QED BY <2>6 DEF CellOf, r, s
<1>4. \A k \in Cell : k \in Nat /\ CellOf(k) = k
  BY <1>1 DEF CellOf, Cell
<1>5. ASSUME NEW x \in Nat, NEW y \in Nat, CellOf(x) = CellOf(y), x < y
      PROVE  x + N <= y
  <2> DEFINE a == x \div N
             b == y \div N
             r == x % N
  <2>1. a \in Nat /\ b \in Nat /\ r \in 0..(N - 1) /\ x = N * a + r /\ y = N * b + r
    BY <1>1, <1>5, Division DEF CellOf
  <2> HIDE DEF a, b, r
  <2>2. N * a < N * b
    BY <1>1, <1>5, <2>1
  <2>3. a < b
    BY <1>1, <2>1, <2>2, NextMultiple
  <2>4. N * a + N <= N * b
    BY <1>1, <2>1, <2>3, NextMultiple
  <2> QED BY <1>1, <2>1, <2>4
<1> QED BY <1>2, <1>3, <1>4, <1>5

\* What the proofs below use of CellOf.  Two cells or more are needed here only:
\* the next position is in another cell.
LEMMA CellFacts ==
    ASSUME N > 1
    PROVE  /\ N \in Nat /\ \A k \in Cell : k \in Nat /\ CellOf(k) = k
           /\ \A x \in Nat : CellOf(x) \in Cell /\ CellOf(x + N) = CellOf(x)
           /\ \A x, y \in Nat : CellOf(x) = CellOf(y) /\ x < y => x + N <= y
           /\ \A x \in Nat : CellOf(x + 1) # CellOf(x)
<1>1. N \in Nat
  BY RingAssumption
<1>2. \A x \in Nat : CellOf(x + 1) # CellOf(x)
  BY <1>1, CellLemma
<1> QED BY <1>1, <1>2, CellLemma

LEMMA ThreadsDiffer == \A p \in Producer, c \in Consumer : p # c
BY RingAssumption

-------------------------------------------------------------------------------
(* Steps that claim, fill and release nothing *)

\* No thread but t does anything.
Only(t) == \A u \in Thread : u # t => /\ pc'[u] = pc[u] /\ pos'[u] = pos[u]
                                      /\ idx'[u] = idx[u] /\ hand'[u] = hand[u]

Holding == {"write", "publish", "read", "free"}

LEMMA QuietStep ==
    ASSUME IInv, NEW t \in Thread, Only(t), UNCHANGED <<seq, data, enq, deq, log>>,
           pc[t] \notin Holding, pc'[t] \notin Holding, TypeOK', Roles', Looks'
    PROVE  IInv'
<1>1. \A p \in Producer : /\ Unpublished(p)' = Unpublished(p)
                          /\ pc'[p] \in {"write", "publish"} <=> pc[p] \in {"write", "publish"}
                          /\ pc[p] \in {"write", "publish"} =>
                                /\ pc'[p] = pc[p] /\ pos'[p] = pos[p]
                                /\ idx'[p] = idx[p] /\ hand'[p] = hand[p]
  BY DEF Only, Unpublished, Holding, Thread
<1>2. \A c \in Consumer : /\ Reading(c)' <=> Reading(c)
                          /\ pc'[c] = "free" <=> pc[c] = "free"
                          /\ Reading(c) => pos'[c] = pos[c] /\ hand'[c] = hand[c]
  BY DEF Only, Reading, Holding, Thread
<1>3. Writers'
  BY <1>1 DEF IInv, Order, Writers
<1>4. Readers'
  BY <1>2 DEF IInv, Order, Readers
<1>5. \A k \in Cell : (Free(k)' <=> Free(k)) /\ (Full(k)' <=> Full(k))
  BY <1>1, <1>2 DEF Free, Full
<1>6. Cells'
  BY <1>5 DEF IInv, Order, Cells
<1>7. Contents'
  <2>1. \A p \in Producer : pc'[p] \in {"write", "publish"} =>
            \A i \in 1..Len(hand'[p]) : log'[pos'[p] + i] = hand'[p][i]
    BY <1>1 DEF IInv, Contents
  <2>2. \A p \in Producer : pc'[p] \in {"write", "publish"} =>
            \A i \in Nat : pos'[p] + i \in Unpublished(p)' /\ (pc'[p] = "write" => i < idx'[p])
                           => data'[CellOf(pos'[p] + i)] = hand'[p][i + 1]
    BY <1>1 DEF IInv, Contents
  <2>3. \A k \in Cell : Full(k)' => data'[k] = log'[seq'[k]]
    BY <1>5 DEF IInv, Contents
  <2>4. \A c \in Consumer : pc'[c] = "free" => hand'[c] = <<log'[pos'[c] + 1]>>
    BY <1>2 DEF IInv, Contents, Reading
  <2> QED BY <2>1, <2>2, <2>3, <2>4 DEF Contents
<1> QED BY <1>3, <1>4, <1>6, <1>7 DEF IInv, Order

LEMMA QuietPush ==
    ASSUME IInv, NEW p \in Producer, Only(p), UNCHANGED <<seq, data, enq, deq, log>>,
           pc[p] \notin Holding, pc'[p] \notin Holding, TypeOK',
           ProducerRole(p)', ProducerLook(p)'
    PROVE  IInv'
<1>1. p \in Thread /\ Producer \subseteq Thread /\ Consumer \subseteq Thread
  BY DEF Thread
<1>2. Roles'
  BY <1>1, ThreadsDiffer DEF IInv, Order, Roles, ProducerRole, Only
<1>3. Looks'
  BY <1>1, ThreadsDiffer DEF IInv, Order, Looks, ProducerLook, ConsumerLook, Checked, Only
<1> QED BY <1>1, <1>2, <1>3, QuietStep

LEMMA QuietPop ==
    ASSUME IInv, NEW c \in Consumer, Only(c), UNCHANGED <<seq, data, enq, deq, log>>,
           pc[c] \notin Holding, pc'[c] \notin Holding, TypeOK',
           pc'[c] \in PopAt, ConsumerLook(c)'
    PROVE  IInv'
<1>1. c \in Thread /\ Producer \subseteq Thread /\ Consumer \subseteq Thread
  BY DEF Thread
<1>2. Roles'
  BY <1>1, ThreadsDiffer DEF IInv, Order, Roles, ProducerRole, Only
<1>3. Looks'
  BY <1>1, ThreadsDiffer DEF IInv, Order, Looks, ProducerLook, ConsumerLook, Checked, Only
<1> QED BY <1>1, <1>2, <1>3, QuietStep

\* Going somewhere, or returning, changes the locals of one thread only.
LEMMA Went ==
    ASSUME TypeOK, NEW t \in Thread, NEW where \in PushAt \cup PopAt, Goto(t, where)
    PROVE  /\ pc' \in [Thread -> PushAt \cup PopAt]
           /\ pc'[t] = where /\ \A u \in Thread : u # t => pc'[u] = pc[u]
BY DEF TypeOK, Goto

LEMMA Returned ==
    ASSUME TypeOK, N \in Nat, NEW t \in Thread, Return(t)
    PROVE  /\ pc' \in [Thread -> PushAt \cup PopAt] /\ pos' \in [Thread -> Nat]
           /\ idx' \in [Thread -> 0..N] /\ hand' \in [Thread -> Seq(Item \cup {NoData})]
           /\ pc'[t] = "idle" /\ hand'[t] = <<>> /\ Only(t)
BY DEF TypeOK, Goto, Return, Only, PushAt, PopAt

LEMMA BeginPushStep ==
    ASSUME IInv, NEW p \in Producer, BeginPush(p) PROVE IInv'
<1>1. TypeOK /\ p \in Thread
  BY DEF IInv, Order, Thread
<1>2. pc' \in [Thread -> PushAt \cup PopAt] /\ pc'[p] = "load"
      /\ \A u \in Thread : u # p => pc'[u] = pc[u]
  BY <1>1, Went DEF BeginPush, PushAt
<1>3. PICK n \in 1..MaxBatch : hand' = [hand EXCEPT ![p] = [i \in 1..n |-> <<p, i>>]]
  BY DEF BeginPush
<1> DEFINE batch == [i \in 1..n |-> <<p, i>>]
<1>4. n \in 1..N /\ n \in Nat
  BY <1>3, RingAssumption
<1>5. batch \in Seq(Item) /\ Len(batch) = n
  BY <1>4 DEF Item
<1>6. hand' \in [Thread -> Seq(Item \cup {NoData})] /\ hand'[p] = batch
  BY <1>1, <1>3, <1>5 DEF TypeOK
<1>7. Only(p) /\ UNCHANGED <<seq, data, enq, deq, pos, idx, log>> /\ pc[p] = "idle"
  BY <1>1, <1>2, <1>3 DEF BeginPush, shared, Only, TypeOK
<1>8. TypeOK'
  BY <1>1, <1>2, <1>6, <1>7 DEF TypeOK
<1>9. ProducerRole(p)' /\ ProducerLook(p)'
  BY <1>2, <1>4, <1>5, <1>6 DEF ProducerRole, ProducerLook, PushAt
<1> QED BY <1>2, <1>7, <1>8, <1>9, QuietPush DEF Holding

LEMMA LoadEnqStep ==
    ASSUME IInv, NEW p \in Producer, LoadEnq(p) PROVE IInv'
<1>1. TypeOK /\ p \in Thread /\ ProducerRole(p) /\ N \in Nat
  BY RingAssumption DEF IInv, Order, Roles, Thread
<1>2. pc' \in [Thread -> PushAt \cup PopAt] /\ pc'[p] = "check"
      /\ \A u \in Thread : u # p => pc'[u] = pc[u]
  BY <1>1, Went DEF LoadEnq, PushAt
<1>3. /\ Only(p) /\ UNCHANGED <<seq, data, enq, deq, hand, log>> /\ pc[p] = "load"
      /\ pos' \in [Thread -> Nat] /\ pos'[p] = enq
      /\ idx' \in [Thread -> 0..N] /\ idx'[p] = 0
  BY <1>1, <1>2 DEF LoadEnq, shared, Only, TypeOK
<1>4. TypeOK'
  BY <1>1, <1>2, <1>3 DEF TypeOK
<1>5. ProducerRole(p)' /\ ProducerLook(p)'
  BY <1>1, <1>2, <1>3 DEF ProducerRole, ProducerLook, PushAt, Checked, TypeOK
<1> QED BY <1>2, <1>3, <1>4, <1>5, QuietPush DEF Holding

LEMMA CheckSlotStep ==
    ASSUME IInv, NEW p \in Producer, CheckSlot(p) PROVE IInv'
<1>1. TypeOK /\ p \in Thread /\ ProducerRole(p) /\ ProducerLook(p) /\ N \in Nat
  BY RingAssumption DEF IInv, Order, Roles, Looks, Thread
<1>2. UNCHANGED <<seq, data, enq, deq, log>> /\ pc[p] = "check"
  BY DEF CheckSlot, shared
<1>3. /\ pos[p] \in Nat /\ idx[p] \in Nat /\ hand[p] \in Seq(Item) /\ idx[p] < Len(hand[p])
      /\ Len(hand[p]) \in 1..N /\ enq \in Nat
  BY <1>1, <1>2 DEF TypeOK, ProducerRole
<1>4. pos[p] + idx[p] \in Nat /\ seq[CellOf(pos[p] + idx[p])] \in Nat
  <2>1. pos[p] + idx[p] \in Nat
    BY <1>3
  <2> QED BY <1>1, <2>1, CellLemma DEF TypeOK
<1>5. CASE Return(p)
  <2>1. /\ pc' \in [Thread -> PushAt \cup PopAt] /\ pos' \in [Thread -> Nat]
        /\ idx' \in [Thread -> 0..N] /\ hand' \in [Thread -> Seq(Item \cup {NoData})]
        /\ pc'[p] = "idle" /\ hand'[p] = <<>> /\ Only(p)
    BY <1>1, <1>5, Returned
  <2>2. TypeOK'
    BY <1>1, <1>2, <2>1 DEF TypeOK
  <2>3. ProducerRole(p)' /\ ProducerLook(p)'
    BY <2>1 DEF ProducerRole, ProducerLook, PushAt
  <2> QED BY <1>2, <2>1, <2>2, <2>3, QuietPush DEF Holding
<1>6. CASE Goto(p, "load") /\ UNCHANGED <<pos, idx, hand>>
  <2>1. /\ pc' \in [Thread -> PushAt \cup PopAt] /\ pc'[p] = "load" /\ Only(p)
    BY <1>1, <1>6, Went DEF Only, PushAt
  <2>2. TypeOK'
    BY <1>1, <1>2, <1>6, <2>1 DEF TypeOK
  <2>3. ProducerRole(p)' /\ ProducerLook(p)'
    BY <1>1, <1>2, <1>6, <2>1 DEF ProducerRole, ProducerLook, PushAt
  <2> QED BY <1>2, <2>1, <2>2, <2>3, QuietPush DEF Holding
<1>7. CASE /\ SlotDiff(p) = 0 /\ LastSlot(p)
           /\ Goto(p, "claim") /\ UNCHANGED <<pos, idx, hand>>
  <2>1. /\ pc' \in [Thread -> PushAt \cup PopAt] /\ pc'[p] = "claim" /\ Only(p)
    BY <1>1, <1>7, Went DEF Only, PushAt
  <2>2. TypeOK'
    BY <1>1, <1>2, <1>7, <2>1 DEF TypeOK
  <2>3. ProducerRole(p)'
    BY <1>1, <1>2, <1>7, <2>1 DEF ProducerRole, PushAt
  <2>4. seq[CellOf(pos[p] + idx[p])] = pos[p] + idx[p] /\ Len(hand[p]) = idx[p] + 1
    BY <1>3, <1>4, <1>7 DEF SlotDiff, LastSlot
  <2>5. ProducerLook(p)'
    <3> SUFFICES ASSUME pos[p] = enq, NEW i \in Nat, i < Len(hand[p])
                 PROVE  seq[CellOf(pos[p] + i)] = pos[p] + i
      BY <1>1, <1>2, <1>7, <2>1 DEF ProducerLook, Checked
    <3>1. CASE i < idx[p]
      BY <1>1, <1>2, <3>1 DEF ProducerLook, Checked
    <3>2. CASE i = idx[p]
      BY <2>4, <3>2
    <3> QED BY <1>3, <2>4, <3>1, <3>2
  <2> QED BY <1>2, <2>1, <2>2, <2>3, <2>5, QuietPush DEF Holding
<1>8. CASE /\ SlotDiff(p) = 0 /\ ~LastSlot(p)
           /\ idx' = [idx EXCEPT ![p] = @ + 1] /\ UNCHANGED <<pc, pos, hand>>
  <2>1. idx[p] + 1 < Len(hand[p])
    BY <1>3, <1>8 DEF LastSlot
  <2>2. idx' \in [Thread -> 0..N] /\ idx'[p] = idx[p] + 1 /\ Only(p) /\ pc'[p] = "check"
    BY <1>1, <1>2, <1>3, <1>8, <2>1 DEF TypeOK, Only
  <2>3. TypeOK'
    BY <1>1, <1>2, <1>8, <2>2 DEF TypeOK
  <2>4. ProducerRole(p)'
    BY <1>1, <1>2, <1>8, <2>1, <2>2 DEF ProducerRole, PushAt
  <2>5. seq[CellOf(pos[p] + idx[p])] = pos[p] + idx[p]
    BY <1>3, <1>4, <1>8 DEF SlotDiff
  <2>6. ProducerLook(p)'
    <3> SUFFICES ASSUME pos[p] = enq, NEW i \in Nat, i < idx[p] + 1
                 PROVE  seq[CellOf(pos[p] + i)] = pos[p] + i
      BY <1>1, <1>2, <1>8, <2>2 DEF ProducerLook, Checked
    <3>1. CASE i < idx[p]
      BY <1>1, <1>2, <3>1 DEF ProducerLook, Checked
    <3>2. CASE i = idx[p]
      BY <2>5, <3>2
    <3> QED BY <1>3, <3>1, <3>2
  <2> QED BY <1>2, <2>2, <2>3, <2>4, <2>6, QuietPush DEF Holding
<1> QED BY <1>5, <1>6, <1>7, <1>8 DEF CheckSlot

LEMMA BeginPopStep ==
    ASSUME IInv, NEW c \in Consumer, BeginPop(c) PROVE IInv'
<1>1. TypeOK /\ c \in Thread
  BY DEF IInv, Order, Thread
<1>2. /\ pc' \in [Thread -> PushAt \cup PopAt] /\ pc'[c] = "load" /\ pc[c] = "idle"
      /\ Only(c) /\ UNCHANGED <<seq, data, enq, deq, pos, idx, hand, log>>
  BY <1>1, Went DEF BeginPop, PushAt, Only, shared
<1>3. TypeOK' /\ ConsumerLook(c)'
  BY <1>1, <1>2 DEF TypeOK, ConsumerLook
<1> QED BY <1>2, <1>3, QuietPop DEF Holding, PopAt

LEMMA LoadDeqStep ==
    ASSUME IInv, NEW c \in Consumer, LoadDeq(c) PROVE IInv'
<1>1. TypeOK /\ c \in Thread
  BY DEF IInv, Order, Thread
<1>2. /\ pc' \in [Thread -> PushAt \cup PopAt] /\ pc'[c] = "look" /\ pc[c] = "load"
      /\ \A u \in Thread : u # c => pc'[u] = pc[u]
  BY <1>1, Went DEF LoadDeq, PopAt
<1>3. /\ Only(c) /\ UNCHANGED <<seq, data, enq, deq, idx, hand, log>>
      /\ pos' \in [Thread -> Nat] /\ pos'[c] = deq /\ deq \in Nat
  BY <1>1, <1>2 DEF LoadDeq, shared, Only, TypeOK
<1>4. TypeOK' /\ ConsumerLook(c)'
  BY <1>1, <1>2, <1>3 DEF TypeOK, ConsumerLook
<1> QED BY <1>2, <1>3, <1>4, QuietPop DEF Holding, PopAt

LEMMA LookAtHeadStep ==
    ASSUME IInv, NEW c \in Consumer, LookAtHead(c) PROVE IInv'
<1>1. TypeOK /\ c \in Thread /\ ConsumerLook(c) /\ N \in Nat
  BY RingAssumption DEF IInv, Order, Looks, Thread
<1>2. UNCHANGED <<seq, data, enq, deq, log>> /\ pc[c] = "look"
  BY DEF LookAtHead, shared
<1>3. pos[c] \in Nat /\ seq[CellOf(pos[c])] \in Nat /\ pos[c] <= deq
  BY <1>1, <1>2, CellLemma DEF TypeOK, ConsumerLook
<1>4. CASE Return(c)
  <2>1. /\ pc' \in [Thread -> PushAt \cup PopAt] /\ pos' \in [Thread -> Nat]
        /\ idx' \in [Thread -> 0..N] /\ hand' \in [Thread -> Seq(Item \cup {NoData})]
        /\ pc'[c] = "idle" /\ Only(c)
    BY <1>1, <1>4, Returned
  <2>2. TypeOK' /\ ConsumerLook(c)'
    BY <1>1, <1>2, <2>1 DEF TypeOK, ConsumerLook
  <2> QED BY <1>2, <2>1, <2>2, QuietPop DEF Holding, PopAt
<1>5. CASE Goto(c, "load") /\ UNCHANGED <<pos, idx, hand>>
  <2>1. pc' \in [Thread -> PushAt \cup PopAt] /\ pc'[c] = "load" /\ Only(c)
    BY <1>1, <1>5, Went DEF Only, PopAt
  <2>2. TypeOK' /\ ConsumerLook(c)'
    BY <1>1, <1>2, <1>5, <2>1 DEF TypeOK, ConsumerLook
  <2> QED BY <1>2, <2>1, <2>2, QuietPop DEF Holding, PopAt
<1>6. CASE /\ seq[CellOf(pos[c])] - (pos[c] + 1) = 0
           /\ Goto(c, "claim") /\ UNCHANGED <<pos, idx, hand>>
  <2>1. pc' \in [Thread -> PushAt \cup PopAt] /\ pc'[c] = "claim" /\ Only(c)
    BY <1>1, <1>6, Went DEF Only, PopAt
  <2>2. TypeOK'
    BY <1>1, <1>2, <1>6, <2>1 DEF TypeOK
  <2>3. seq[CellOf(pos[c])] = pos[c] + 1
    BY <1>3, <1>6
  <2>4. ConsumerLook(c)'
    BY <1>2, <1>3, <1>6, <2>3 DEF ConsumerLook
  <2> QED BY <1>2, <2>1, <2>2, <2>4, QuietPop DEF Holding, PopAt
<1> QED BY <1>4, <1>5, <1>6 DEF LookAtHead

\* A compare-and-exchange that fails reloads the position.
LEMMA ClaimFails ==
    ASSUME IInv, NEW t \in Thread, pc[t] = "claim",
           \/ t \in Producer /\ pos' = [pos EXCEPT ![t] = enq]
              /\ idx' = [idx EXCEPT ![t] = 0] /\ Goto(t, "check")
           \/ t \in Consumer /\ pos' = [pos EXCEPT ![t] = deq] /\ idx' = idx /\ Goto(t, "look"),
           UNCHANGED <<seq, data, enq, deq, hand, log>>
    PROVE  IInv'
<1>1. TypeOK /\ Roles /\ N \in Nat
  BY RingAssumption DEF IInv, Order
<1>2. /\ pc' \in [Thread -> PushAt \cup PopAt] /\ pc'[t] \in {"check", "look"}
      /\ \A u \in Thread : u # t => pc'[u] = pc[u]
  <2>1. {"check", "look"} \subseteq PushAt \cup PopAt
    BY DEF PushAt, PopAt
  <2> QED BY <1>1, <2>1, Went
<1>3. /\ Only(t) /\ pos' \in [Thread -> Nat] /\ idx' \in [Thread -> 0..N]
  <2>1. /\ pos \in [Thread -> Nat] /\ idx \in [Thread -> 0..N] /\ 0 \in 0..N
        /\ enq \in Nat /\ deq \in Nat
    BY <1>1 DEF TypeOK
  <2>2. pos' \in [Thread -> Nat] /\ \A u \in Thread : u # t => pos'[u] = pos[u]
    BY <2>1
  <2>3. idx' \in [Thread -> 0..N] /\ \A u \in Thread : u # t => idx'[u] = idx[u]
    BY <2>1
  <2> QED BY <1>2, <2>2, <2>3 DEF Only
<1>4. TypeOK'
  BY <1>1, <1>2, <1>3 DEF TypeOK
<1>5. CASE /\ t \in Producer /\ pos' = [pos EXCEPT ![t] = enq]
           /\ idx' = [idx EXCEPT ![t] = 0] /\ Goto(t, "check")
  <2>1. pc'[t] = "check" /\ idx'[t] = 0 /\ pos'[t] = enq /\ enq \in Nat
    BY <1>1, <1>5 DEF Goto, TypeOK
  <2>2. ProducerRole(t)' /\ ProducerLook(t)'
    BY <1>1, <1>5, <2>1 DEF Roles, ProducerRole, ProducerLook, Checked, PushAt
  <2> QED BY <1>2, <1>3, <1>4, <1>5, <2>2, QuietPush DEF Holding
<1>6. CASE t \in Consumer /\ pos' = [pos EXCEPT ![t] = deq] /\ idx' = idx /\ Goto(t, "look")
  <2>1. pc'[t] = "look" /\ pos'[t] = deq /\ deq \in Nat
    BY <1>1, <1>6 DEF Goto, TypeOK
  <2>2. ConsumerLook(t)'
    BY <2>1 DEF ConsumerLook
  <2> QED BY <1>2, <1>3, <1>4, <1>6, <2>1, <2>2, QuietPop DEF Holding, PopAt
<1> QED BY <1>5, <1>6

-------------------------------------------------------------------------------
(* The steps of the protocol *)

LEMMA Types ==
    ASSUME IInv
    PROVE  /\ enq \in Nat /\ deq \in Nat /\ deq <= enq
           /\ seq \in [Cell -> Nat] /\ \A x \in Nat : seq[CellOf(x)] \in Nat
           /\ log \in Seq(Item) /\ Len(log) = enq
           /\ \A t \in Thread : pos[t] \in Nat /\ idx[t] \in Nat
           /\ \A p \in Producer : /\ hand[p] \in Seq(Item) /\ Len(hand[p]) \in Nat
                                  /\ \A x \in Unpublished(p) : x \in Nat /\ x < enq
<1>1. TypeOK /\ N \in Nat
  BY RingAssumption DEF IInv, Order
<1>2. /\ enq \in Nat /\ deq \in Nat /\ deq <= enq
      /\ seq \in [Cell -> Nat] /\ log \in Seq(Item) /\ Len(log) = enq
      /\ pos \in [Thread -> Nat] /\ idx \in [Thread -> 0..N]
  BY <1>1 DEF TypeOK
<1>3. \A x \in Nat : seq[CellOf(x)] \in Nat
  BY <1>2, CellLemma
<1>4. \A t \in Thread : pos[t] \in Nat /\ idx[t] \in Nat
  BY <1>1, <1>2
<1>5. \A p \in Producer : hand[p] \in Seq(Item) /\ Len(hand[p]) \in Nat
  BY DEF IInv, Order, Roles, ProducerRole
<1>6. \A p \in Producer : \A x \in Unpublished(p) : x \in Nat /\ x < enq
  <2> SUFFICES ASSUME NEW p \in Producer, NEW x \in Unpublished(p) PROVE x \in Nat /\ x < enq
    OBVIOUS
  <2>1. pos[p] \in Nat /\ idx[p] \in Nat /\ Len(hand[p]) \in Nat
    BY <1>5, <1>4 DEF Thread
  <2>2. /\ pc[p] \in {"write", "publish"} /\ x \in Nat /\ x < pos[p] + Len(hand[p])
    BY <2>1 DEF Unpublished
  <2>3. pos[p] + Len(hand[p]) <= enq
    BY <2>2 DEF IInv, Order, Writers
  <2> QED BY <1>2, <2>1, <2>2, <2>3
<1> QED BY <1>2, <1>5, <1>6, <1>3, <1>4

\* The compare-and-exchange succeeds: every slot looked at is still free, so none of
\* the positions claimed is a lap ahead of what its cell holds.
LEMMA ClaimSlotsStep ==
    ASSUME N > 1, IInv, NEW p \in Producer, ClaimSlots(p) PROVE IInv'
<1> DEFINE n == Len(hand[p])
<1>1. /\ p \in Thread /\ pc[p] = "claim" /\ UNCHANGED <<seq, data, deq, hand>>
      /\ idx' = [idx EXCEPT ![p] = 0]
      /\ Producer \subseteq Thread /\ Consumer \subseteq Thread
  BY DEF ClaimSlots, Thread
<1>2. CASE pos' = [pos EXCEPT ![p] = enq] /\ Goto(p, "check") /\ UNCHANGED <<enq, log>>
  BY <1>1, <1>2, ClaimFails
<1>3. CASE /\ enq = pos[p] /\ enq' = enq + n /\ log' = log \o hand[p]
           /\ Goto(p, "write") /\ UNCHANGED pos
  <2>1. /\ pc' \in [Thread -> PushAt \cup PopAt] /\ pc'[p] = "write"
        /\ \A u \in Thread : u # p => pc'[u] = pc[u]
    BY <1>1, <1>3, Went DEF IInv, Order, PushAt
  <2>2. /\ idx' \in [Thread -> 0..N] /\ idx'[p] = 0 /\ Only(p)
    BY <1>1, <1>3, <2>1, CellFacts DEF Only, IInv, Order, TypeOK
  <2>3. n \in 1..N /\ n \in Nat /\ n > 0 /\ hand[p] \in Seq(Item)
    <3>1. n \in 1..N /\ hand[p] \in Seq(Item)
      BY <1>1 DEF IInv, Order, Roles, ProducerRole
    <3>2. N \in Nat
      BY CellFacts
    <3> QED BY <3>1, <3>2
  <2>4. /\ log' \in Seq(Item) /\ Len(log') = enq'
        /\ \A i \in 1..enq : log'[i] = log[i]
        /\ \A i \in 1..n : log'[enq + i] = hand[p][i]
    <3>1. log \in Seq(Item) /\ Len(log) = enq /\ enq \in Nat
      BY Types
    <3>2. log' = log \o hand[p] /\ enq' = enq + Len(hand[p]) /\ hand[p] \in Seq(Item)
          /\ Len(hand[p]) \in Nat
      BY <1>3, <2>3
    <3>3. log' \in Seq(Item) /\ Len(log') = enq'
      <4>1. /\ log \o hand[p] \in Seq(Item)
            /\ Len(log \o hand[p]) = Len(log) + Len(hand[p])
        BY <3>1, <3>2, ConcatProperties
      <4> QED BY <3>1, <3>2, <4>1
    <3>4. \A i \in 1..enq : log'[i] = log[i]
      BY <3>1, <3>2
    <3>5. \A i \in 1..Len(hand[p]) : log'[enq + i] = hand[p][i]
      BY <3>1, <3>2
    <3> QED BY <3>3, <3>4, <3>5
  <2>5. TypeOK'
    <3>1. deq \in Nat /\ enq' \in Nat /\ deq <= enq'
      BY <1>3, <2>3, Types
    <3>2. TypeOK
      BY DEF IInv, Order
    <3> QED BY <1>1, <1>3, <2>1, <2>2, <2>4, <3>1, <3>2 DEF TypeOK
  <2>6. Roles'
    BY <1>1, <2>1, <2>2, <2>3, ThreadsDiffer DEF IInv, Order, Roles, ProducerRole, Only, PushAt
  <2>7. Looks'
    <3>1. ASSUME NEW q \in Producer PROVE ProducerLook(q)'
      <4>1. CASE q = p
        BY <2>1, <4>1 DEF ProducerLook
      <4>2. CASE q # p
        BY <1>1, <1>3, <2>2, <2>3, <4>2, Types, SMTT(20) DEF IInv, Order, Looks, ProducerLook, Only
      <4> QED BY <4>1, <4>2
    <3>2. ASSUME NEW c \in Consumer PROVE ConsumerLook(c)'
      BY <1>1, <2>2, ThreadsDiffer DEF IInv, Order, Looks, ConsumerLook, Only
    <3> QED BY <3>1, <3>2 DEF Looks
  <2>8. /\ Unpublished(p)' = enq..(enq + n - 1) /\ Unpublished(p) = {}
        /\ \A q \in Producer : q # p => Unpublished(q)' = Unpublished(q)
    BY <1>1, <1>3, <2>1, <2>2 DEF Unpublished, Only
  <2>9. \A x \in Unpublished(p)' : x \in Nat /\ x >= enq /\ x < enq' /\ seq[CellOf(x)] = x
    <3> SUFFICES ASSUME NEW x \in enq..(enq + n - 1)
                 PROVE  x \in Nat /\ x >= enq /\ x < enq' /\ seq[CellOf(x)] = x
      BY <2>8
    <3>1. x \in Nat /\ x - enq \in Nat /\ x - enq < n /\ enq + (x - enq) = x
      BY <2>3, Types
    <3>2. seq[CellOf(enq + (x - enq))] = enq + (x - enq)
      BY <1>1, <1>3, <3>1 DEF IInv, Order, Looks, ProducerLook, Checked
    <3> QED BY <1>3, <2>3, <3>1, <3>2, Types
  <2>10. Writers'
    <3>1. ASSUME NEW q \in Producer, pc'[q] \in {"write", "publish"}
          PROVE  pos'[q] + Len(hand'[q]) <= enq'
      <4>1. CASE q = p
        BY <1>1, <1>3, <2>3, <4>1, Types
      <4>2. CASE q # p
        <5>1. pc'[q] = pc[q] /\ pos'[q] = pos[q] /\ hand'[q] = hand[q]
          BY <1>1, <2>2, <4>2 DEF Only
        <5>2. pos[q] + Len(hand[q]) <= enq
          BY <3>1, <5>1 DEF IInv, Order, Writers
        <5> QED BY <1>1, <1>3, <2>3, <5>1, <5>2, Types
      <4> QED BY <4>1, <4>2
    <3>2. ASSUME NEW q \in Producer, NEW x \in Unpublished(q)'
          PROVE  x >= deq' /\ seq'[CellOf(x)] = x
      <4>1. CASE q = p
        BY <1>1, <2>9, <3>2, <4>1, Types
      <4>2. CASE q # p
        BY <1>1, <2>8, <3>2, <4>2 DEF IInv, Order, Writers
      <4> QED BY <4>1, <4>2
    <3>3. ASSUME NEW q \in Producer, q # p
          PROVE  Unpublished(p)' \cap Unpublished(q)' = {}
      BY <2>8, <2>9, <3>3, Types
    <3>4. \A q, r \in Producer : q # r => Unpublished(q)' \cap Unpublished(r)' = {}
      BY <2>8, <3>3 DEF IInv, Order, Writers
    <3> QED BY <3>1, <3>2, <3>4 DEF Writers
  <2>11. /\ \A c \in Consumer : Reading(c)' <=> Reading(c)
         /\ \A c \in Consumer : /\ pc'[c] = pc[c] /\ pos'[c] = pos[c] /\ hand'[c] = hand[c]
    BY <1>1, <2>2, ThreadsDiffer DEF Only, Reading
  <2>12. Readers'
    BY <1>1, <2>11 DEF IInv, Order, Readers
  <2>13. Cells'
    <3> SUFFICES ASSUME NEW k \in Cell
                 PROVE  (Free(k) /\ enq <= seq[k] + N)' \/ Full(k)'
      BY DEF Cells
    <3>1. seq[k] \in Nat /\ N \in Nat
      BY Types, CellFacts
    <3>2. CASE Free(k) /\ enq <= seq[k] + N
      <4>1. CellOf(seq[k] + N) = k
        BY <3>1, <3>2, CellFacts DEF Free
      <4>2. enq' <= seq[k] + N
        <5> SUFFICES ASSUME seq[k] + N < enq + n PROVE FALSE
          BY <1>3, <2>3, <3>1, Types
        <5>1. seq[k] + N \in Unpublished(p)'
          BY <2>3, <2>8, <3>1, <3>2, Types
        <5> QED BY <2>9, <3>1, <4>1, <5>1
      <4>3. seq[k] >= enq' \/ \E q \in Producer : seq[k] \in Unpublished(q)'
        <5>1. CASE seq[k] >= enq
          BY <1>3, <2>3, <2>8, <3>1, <5>1, Types
        <5>2. CASE \E q \in Producer : seq[k] \in Unpublished(q)
          BY <2>8, <5>2
        <5> QED BY <3>2, <5>1, <5>2 DEF Free
      <4> QED BY <1>1, <3>2, <4>2, <4>3 DEF Free
    <3>3. CASE Full(k)
      <4>1. seq[k] - 1 \in Nat /\ CellOf((seq[k] - 1) + N) = k
        BY <3>1, <3>3, CellFacts DEF Full
      <4>2. enq' <= (seq[k] - 1) + N
        <5> SUFFICES ASSUME (seq[k] - 1) + N < enq + n PROVE FALSE
          BY <1>3, <2>3, <3>1, Types
        <5>1. (seq[k] - 1) + N \in Unpublished(p)'
          BY <2>3, <2>8, <3>1, <3>3, Types DEF Full
        <5> QED BY <2>9, <3>1, <4>1, <5>1
      <4> QED BY <1>1, <1>3, <2>3, <2>11, <3>1, <3>3, <4>2, Types DEF Full
    <3> QED BY <3>2, <3>3 DEF IInv, Order, Cells
  <2>14. Contents'
    <3>1. ASSUME NEW q \in Producer, pc'[q] \in {"write", "publish"}
          PROVE  /\ \A i \in 1..Len(hand'[q]) : log'[pos'[q] + i] = hand'[q][i]
                 /\ \A i \in Nat : pos'[q] + i \in Unpublished(q)' /\ (pc'[q] = "write" => i < idx'[q])
                                   => data'[CellOf(pos'[q] + i)] = hand'[q][i + 1]
      <4>1. CASE q = p
        <5>1. ASSUME NEW i \in 1..n PROVE log'[pos'[p] + i] = hand'[p][i]
          BY <1>1, <1>3, <2>4
        <5>2. ~\E i \in Nat : i < idx'[p]
          BY <2>2
        <5> QED BY <1>1, <2>1, <4>1, <5>1, <5>2
      <4>2. CASE q # p
        <5>1. /\ pc'[q] = pc[q] /\ pos'[q] = pos[q] /\ idx'[q] = idx[q] /\ hand'[q] = hand[q]
              /\ pos[q] + Len(hand[q]) <= enq /\ pos[q] \in Nat /\ Len(hand[q]) \in Nat
          BY <1>1, <2>2, <3>1, <4>2, Types DEF Only, IInv, Order, Writers
        <5>2. \A i \in 1..Len(hand[q]) : pos[q] + i \in 1..enq
          BY <5>1, Types
        <5>3. \A i \in 1..Len(hand[q]) : log[pos[q] + i] = hand[q][i]
          BY <3>1, <5>1 DEF IInv, Contents
        <5>4. \A i \in Nat : pos[q] + i \in Unpublished(q) /\ (pc[q] = "write" => i < idx[q])
                              => data[CellOf(pos[q] + i)] = hand[q][i + 1]
          BY <3>1, <5>1 DEF IInv, Contents
        <5>5. \A i \in 1..Len(hand'[q]) : log'[pos'[q] + i] = hand'[q][i]
          BY <2>4, <5>1, <5>2, <5>3
        <5>6. Unpublished(q)' = Unpublished(q) /\ data' = data
          BY <1>1, <2>8, <4>2
        <5> QED BY <5>1, <5>4, <5>5, <5>6
      <4> QED BY <4>1, <4>2
    <3>2. ASSUME NEW k \in Cell, Full(k)' PROVE data'[k] = log'[seq'[k]]
      <4>1. seq[k] \in Nat /\ seq[k] >= 1 /\ CellOf(seq[k] - 1) = k /\ seq[k] - 1 < enq'
        BY <1>1, <3>2, Types DEF Full
      <4>2. seq[k] - 1 < enq
        <5> SUFFICES ASSUME seq[k] - 1 >= enq PROVE FALSE
          BY <4>1, Types
        <5>1. seq[k] - 1 \in Unpublished(p)'
          BY <1>3, <2>3, <2>8, <4>1, Types
        <5> QED BY <2>9, <4>1, <5>1
      <4>3. Full(k)
        <5>1. seq[k] - 1 >= deq \/ \E c \in Consumer : Reading(c) /\ pos[c] = seq[k] - 1
          BY <1>1, <2>11, <3>2 DEF Full
        <5>2. enq + n <= seq[k] - 1 + N
          BY <1>1, <1>3, <3>2 DEF Full
        <5>3. enq <= seq[k] - 1 + N
          <6>1. enq \in Nat /\ N \in Nat
            BY Types, CellFacts
          <6> QED BY <2>3, <4>1, <5>2, <6>1
        <5> QED BY <4>1, <4>2, <5>1, <5>3 DEF Full
      <4>4. data[k] = log[seq[k]]
        BY <4>3 DEF IInv, Contents
      <4>5. seq[k] \in 1..enq
        BY <4>1, <4>2, Types
      <4> QED BY <1>1, <2>4, <4>4, <4>5
    <3>3. ASSUME NEW c \in Consumer, pc'[c] = "free" PROVE hand'[c] = <<log'[pos'[c] + 1]>>
      <4>1. pos[c] + 1 \in 1..enq
        BY <1>1, <2>11, <3>3, Types DEF IInv, Order, Readers, Reading
      <4> QED BY <2>4, <2>11, <3>3, <4>1 DEF IInv, Contents
    <3> QED BY <3>1, <3>2, <3>3 DEF Contents
  <2> QED BY <2>5, <2>6, <2>7, <2>10, <2>12, <2>13, <2>14 DEF IInv, Order
<1> QED BY <1>2, <1>3 DEF ClaimSlots

\* What a step of t leaves alone.
LEMMA Others ==
    ASSUME NEW t \in Thread, Only(t)
    PROVE  /\ \A q \in Producer : q # t => /\ Unpublished(q)' = Unpublished(q)
                                           /\ pc'[q] = pc[q] /\ pos'[q] = pos[q]
                                           /\ idx'[q] = idx[q] /\ hand'[q] = hand[q]
           /\ \A d \in Consumer : d # t => /\ Reading(d)' <=> Reading(d)
                                           /\ pc'[d] = pc[d] /\ pos'[d] = pos[d]
                                           /\ hand'[d] = hand[d]
BY DEF Only, Unpublished, Reading, Thread

\* A claimed position's cell is no other thread's, and no other position's.
LEMMA Claimed ==
    ASSUME N > 1, IInv, NEW p \in Producer, NEW x \in Unpublished(p)
    PROVE  /\ x \in Nat /\ deq <= x /\ x < enq /\ seq[CellOf(x)] = x /\ CellOf(x) \in Cell
           /\ ~Full(CellOf(x)) /\ enq <= x + N
           /\ \A q \in Producer : \A y \in Unpublished(q) :
                 CellOf(y) = CellOf(x) => q = p /\ y = x
           /\ \A c \in Consumer : Reading(c) => CellOf(pos[c]) # CellOf(x)
<1>1. x \in Nat /\ x < enq /\ deq \in Nat /\ enq \in Nat
  BY Types
<1>2. deq <= x /\ seq[CellOf(x)] = x
  BY <1>1 DEF IInv, Order, Writers
<1>3. CellOf(x) \in Cell /\ \A y \in Nat : CellOf(y + 1) # CellOf(y)
  BY <1>1, CellFacts
<1>4. ~Full(CellOf(x))
  <2> SUFFICES ASSUME x >= 1, CellOf(x - 1) = CellOf(x) PROVE FALSE
    BY <1>2 DEF Full
  <2>1. x - 1 \in Nat /\ (x - 1) + 1 = x
    BY <1>1
  <2> QED BY <1>3, <2>1
<1>5. enq <= x + N
  BY <1>2, <1>3, <1>4 DEF IInv, Order, Cells
<1>6. ASSUME NEW q \in Producer, NEW y \in Unpublished(q), CellOf(y) = CellOf(x)
      PROVE  q = p /\ y = x
  <2>1. seq[CellOf(y)] = y
    BY DEF IInv, Order, Writers
  <2>2. y = x
    BY <1>2, <1>6, <2>1
  <2> QED BY <2>2 DEF IInv, Order, Writers
<1>7. ASSUME NEW c \in Consumer, Reading(c), CellOf(pos[c]) = CellOf(x) PROVE FALSE
  <2>1. pos[c] \in Nat
    BY Types DEF Thread
  <2>2. seq[CellOf(pos[c])] = pos[c] + 1
    BY <1>7 DEF IInv, Order, Readers
  <2>3. x = pos[c] + 1
    BY <1>2, <1>7, <2>2
  <2> QED BY <1>3, <1>7, <2>1, <2>3
<1> QED BY <1>1, <1>2, <1>3, <1>4, <1>5, <1>6, <1>7

\* A cell being read is published, and nobody else's.
LEMMA BeingRead ==
    ASSUME N > 1, IInv, NEW c \in Consumer, Reading(c)
    PROVE  /\ pos[c] \in Nat /\ pos[c] < deq /\ CellOf(pos[c]) \in Cell
           /\ seq[CellOf(pos[c])] = pos[c] + 1 /\ Full(CellOf(pos[c]))
           /\ enq <= pos[c] + N
           /\ \A d \in Consumer : Reading(d) /\ CellOf(pos[d]) = CellOf(pos[c]) => d = c
           /\ \A q \in Producer : \A x \in Unpublished(q) : CellOf(x) # CellOf(pos[c])
<1>1. pos[c] \in Nat /\ deq \in Nat /\ enq \in Nat /\ N \in Nat
  BY Types, CellFacts DEF Thread
<1>2. pos[c] < deq /\ seq[CellOf(pos[c])] = pos[c] + 1
  BY DEF IInv, Order, Readers
<1>3. CellOf(pos[c]) \in Cell /\ CellOf(pos[c] + 1) # CellOf(pos[c])
  BY <1>1, CellFacts
<1>4. Full(CellOf(pos[c]))
  <2>1. ~Free(CellOf(pos[c]))
    BY <1>2, <1>3 DEF Free
  <2> QED BY <1>3, <2>1 DEF IInv, Order, Cells
<1>5. enq <= pos[c] + N
  <2>1. enq <= (pos[c] + 1) - 1 + N
    BY <1>2, <1>4 DEF Full
  <2> QED BY <1>1, <2>1
<1>6. ASSUME NEW d \in Consumer, Reading(d), CellOf(pos[d]) = CellOf(pos[c]) PROVE d = c
  <2>1. pos[d] \in Nat /\ seq[CellOf(pos[d])] = pos[d] + 1
    BY <1>6, Types DEF IInv, Order, Readers, Thread
  <2>2. pos[d] = pos[c]
    BY <1>1, <1>2, <1>6, <2>1
  <2> QED BY <1>6, <2>2 DEF IInv, Order, Readers
<1>7. \A q \in Producer : \A x \in Unpublished(q) : CellOf(x) # CellOf(pos[c])
  BY Claimed
<1> QED BY <1>1, <1>2, <1>3, <1>4, <1>5, <1>6, <1>7

\* Filling a claimed cell disturbs no data that anybody relies on.
LEMMA WriteSlotStep ==
    ASSUME N > 1, IInv, NEW p \in Producer, WriteSlot(p) PROVE IInv'
<1> DEFINE z == pos[p] + idx[p]
<1>1. /\ p \in Thread /\ pc[p] = "write" /\ UNCHANGED <<seq, enq, deq, pos, hand, log>>
      /\ data' = [data EXCEPT ![CellOf(z)] = hand[p][idx[p] + 1]]
      /\ TypeOK /\ N \in Nat
  BY CellFacts DEF WriteSlot, Thread, IInv, Order
<1>2. /\ pos[p] \in Nat /\ idx[p] \in Nat /\ hand[p] \in Seq(Item)
      /\ Len(hand[p]) \in Nat /\ Len(hand[p]) <= N /\ idx[p] < Len(hand[p])
  <2>1. ProducerRole(p)
    BY DEF IInv, Order, Roles
  <2>2. Len(hand[p]) \in 1..N /\ idx[p] < Len(hand[p])
    BY <1>1, <2>1 DEF ProducerRole
  <2> QED BY <1>1, <2>2, Types
<1>3. /\ pc' \in [Thread -> PushAt \cup PopAt] /\ pc'[p] \in {"write", "publish"}
      /\ pc'[p] = IF LastSlot(p) THEN "publish" ELSE "write"
      /\ \A u \in Thread : u # p => pc'[u] = pc[u]
  <2>1. (IF LastSlot(p) THEN "publish" ELSE "write") \in PushAt \cup PopAt
    BY DEF PushAt
  <2> QED BY <1>1, <2>1, Went DEF WriteSlot
<1>4. /\ idx' \in [Thread -> 0..N] /\ idx'[p] = IF LastSlot(p) THEN 0 ELSE idx[p] + 1
      /\ Only(p) /\ idx'[p] < Len(hand[p])
  <2>1. (IF LastSlot(p) THEN 0 ELSE idx[p] + 1) \in 0..N
        /\ (IF LastSlot(p) THEN 0 ELSE idx[p] + 1) < Len(hand[p])
    BY <1>1, <1>2 DEF LastSlot
  <2>2. idx \in [Thread -> 0..N]
    BY <1>1 DEF TypeOK
  <2>3. idx' = [idx EXCEPT ![p] = IF LastSlot(p) THEN 0 ELSE idx[p] + 1]
    BY DEF WriteSlot
  <2>4. idx' \in [Thread -> 0..N] /\ idx'[p] = (IF LastSlot(p) THEN 0 ELSE idx[p] + 1)
        /\ \A u \in Thread : u # p => idx'[u] = idx[u]
    BY <1>1, <2>1, <2>2, <2>3
  <2> QED BY <1>1, <1>3, <2>1, <2>4 DEF Only
<1>5. /\ Unpublished(p) = pos[p]..(pos[p] + Len(hand[p]) - 1)
      /\ z \in Unpublished(p) /\ z \in Nat
      /\ \A q \in Producer : Unpublished(q)' = Unpublished(q)
  <2>1. Unpublished(p) = pos[p]..(pos[p] + Len(hand[p]) - 1)
    BY <1>1 DEF Unpublished
  <2>2. Unpublished(p)' = Unpublished(p)
    <3>1. CASE LastSlot(p)
      BY <1>1, <1>2, <1>3, <1>4, <2>1, <3>1 DEF Unpublished
    <3>2. CASE ~LastSlot(p)
      BY <1>1, <1>3, <2>1, <3>2 DEF Unpublished
    <3> QED BY <3>1, <3>2
  <2>3. z \in Unpublished(p) /\ z \in Nat
    BY <1>2, <2>1
  <2> QED BY <1>1, <1>4, <2>1, <2>2, <2>3, Others
<1>6. /\ CellOf(z) \in Cell /\ ~Full(CellOf(z))
      /\ \A q \in Producer : \A y \in Unpublished(q) : CellOf(y) = CellOf(z) => q = p /\ y = z
  <2> HIDE DEF z
  <2>1. z \in Unpublished(p)
    BY <1>5
  <2> QED BY <2>1, Claimed
<1>7. \A c \in Consumer : /\ c # p /\ (Reading(c)' <=> Reading(c))
                          /\ pc'[c] = pc[c] /\ pos'[c] = pos[c] /\ hand'[c] = hand[c]
  BY <1>1, <1>4, Others, ThreadsDiffer
<1>8. /\ data' \in [Cell -> Item \cup {NoData}] /\ data'[CellOf(z)] = hand[p][idx[p] + 1]
      /\ \A k \in Cell : k # CellOf(z) => data'[k] = data[k]
  <2>1. hand[p][idx[p] + 1] \in Item
    BY <1>2
  <2>2. data \in [Cell -> Item \cup {NoData}]
    BY <1>1 DEF TypeOK
  <2> QED BY <1>1, <1>6, <2>1, <2>2
<1>9. TypeOK'
  BY <1>1, <1>3, <1>4, <1>8 DEF TypeOK
<1>10. Roles'
  <2>1. ProducerRole(p)'
    BY <1>1, <1>3, <1>4 DEF IInv, Order, Roles, ProducerRole, PushAt
  <2>2. \A q \in Producer : q # p => ProducerRole(q)'
    BY <1>1, <1>4, Others DEF IInv, Order, Roles, ProducerRole
  <2> QED BY <1>7, <2>1, <2>2 DEF IInv, Order, Roles
<1>11. Looks'
  <2>1. ProducerLook(p)'
    BY <1>3 DEF ProducerLook
  <2>2. \A q \in Producer : q # p => ProducerLook(q)'
    BY <1>1, <1>4, Others DEF IInv, Order, Looks, ProducerLook, Checked
  <2>3. \A c \in Consumer : ConsumerLook(c)'
    BY <1>1, <1>7 DEF IInv, Order, Looks, ConsumerLook
  <2> QED BY <2>1, <2>2, <2>3 DEF Looks
<1>12. Writers'
  <2>1. \A q \in Producer : pc'[q] \in {"write", "publish"} => pc[q] \in {"write", "publish"}
    BY <1>1, <1>4, Others
  <2> QED BY <1>1, <1>5, <2>1 DEF IInv, Order, Writers
<1>13. Readers'
  BY <1>1, <1>7 DEF IInv, Order, Readers
<1>14. \A k \in Cell : (Free(k)' <=> Free(k)) /\ (Full(k)' <=> Full(k))
  BY <1>1, <1>5, <1>7 DEF Free, Full
<1>15. Cells'
  BY <1>1, <1>14 DEF IInv, Order, Cells
<1>16. Contents'
  <2>1. \A q \in Producer : pc'[q] \in {"write", "publish"} =>
            \A i \in 1..Len(hand'[q]) : log'[pos'[q] + i] = hand'[q][i]
    BY <1>1, <1>4, Others DEF IInv, Contents
  <2>2. ASSUME NEW q \in Producer, pc'[q] \in {"write", "publish"},
               NEW i \in Nat, pos'[q] + i \in Unpublished(q)', pc'[q] = "write" => i < idx'[q]
        PROVE  data'[CellOf(pos'[q] + i)] = hand'[q][i + 1]
    <3>1. pos[q] + i \in Unpublished(q) /\ pos[q] \in Nat /\ pos[q] + i \in Nat
      BY <1>1, <1>5, <2>2, Types DEF Thread
    <3>2. CellOf(pos[q] + i) \in Cell
      BY <3>1, CellFacts
    <3>3. CASE q = p
      <4>1. CASE i = idx[p]
        BY <1>1, <1>8, <3>3, <4>1
      <4>2. CASE i # idx[p]
        <5>1. pos[p] + i # z
          BY <1>2, <4>2
        <5>2. CellOf(pos[p] + i) # CellOf(z)
          BY <1>6, <3>1, <3>3, <5>1
        <5>3. i < idx[p]
          <6>1. CASE LastSlot(p)
            <7>1. pos[p] + i <= pos[p] + Len(hand[p]) - 1
              BY <1>2, <1>5, <3>1, <3>3
            <7> QED BY <1>2, <4>2, <6>1, <7>1 DEF LastSlot
          <6>2. CASE ~LastSlot(p)
            <7>1. i < idx[p] + 1
              BY <1>3, <1>4, <2>2, <3>3, <6>2
            <7> QED BY <1>2, <4>2, <7>1
          <6> QED BY <6>1, <6>2
        <5>4. data[CellOf(pos[p] + i)] = hand[p][i + 1]
          BY <1>1, <3>1, <3>3, <5>3 DEF IInv, Contents
        <5> QED BY <1>1, <1>8, <3>2, <3>3, <5>2, <5>4
      <4> QED BY <4>1, <4>2
    <3>4. CASE q # p
      <4>1. CellOf(pos[q] + i) # CellOf(z)
        BY <1>6, <3>1, <3>4
      <4>2. pc'[q] = pc[q] /\ idx'[q] = idx[q]
        BY <1>1, <1>4, <3>4, Others
      <4>3. data[CellOf(pos[q] + i)] = hand[q][i + 1]
        BY <2>2, <3>1, <4>2 DEF IInv, Contents
      <4> QED BY <1>1, <1>8, <3>2, <4>1, <4>3
    <3> QED BY <3>3, <3>4
  <2>3. \A k \in Cell : Full(k)' => data'[k] = log'[seq'[k]]
    BY <1>1, <1>6, <1>8, <1>14 DEF IInv, Contents
  <2>4. \A c \in Consumer : pc'[c] = "free" => hand'[c] = <<log'[pos'[c] + 1]>>
    BY <1>1, <1>7 DEF IInv, Contents
  <2> QED BY <2>1, <2>2, <2>3, <2>4 DEF Contents
<1> QED BY <1>9, <1>10, <1>11, <1>12, <1>13, <1>15, <1>16 DEF IInv, Order

\* Publishing a position hands its cell over, filled, and no other.
LEMMA PublishSlotStep ==
    ASSUME N > 1, IInv, NEW p \in Producer, PublishSlot(p) PROVE IInv'
<1> DEFINE z == pos[p] + idx[p]
<1>1. /\ p \in Thread /\ pc[p] = "publish" /\ UNCHANGED <<data, enq, deq, log>>
      /\ seq' = [seq EXCEPT ![CellOf(z)] = z + 1]
      /\ TypeOK /\ N \in Nat
  BY CellFacts DEF PublishSlot, Thread, IInv, Order
<1>2. /\ pos[p] \in Nat /\ idx[p] \in Nat /\ hand[p] \in Seq(Item)
      /\ Len(hand[p]) \in Nat /\ Len(hand[p]) <= N /\ idx[p] < Len(hand[p])
  <2>1. ProducerRole(p)
    BY DEF IInv, Order, Roles
  <2>2. Len(hand[p]) \in 1..N /\ idx[p] < Len(hand[p])
    BY <1>1, <2>1 DEF ProducerRole
  <2> QED BY <1>1, <2>2, Types
<1>3. /\ pc' \in [Thread -> PushAt \cup PopAt] /\ pos' \in [Thread -> Nat]
      /\ idx' \in [Thread -> 0..N] /\ hand' \in [Thread -> Seq(Item \cup {NoData})]
      /\ Only(p)
      /\ \/ LastSlot(p) /\ pc'[p] = "idle" /\ hand'[p] = <<>>
         \/ /\ ~LastSlot(p) /\ pc'[p] = "publish" /\ pos'[p] = pos[p] /\ hand'[p] = hand[p]
            /\ idx'[p] = idx[p] + 1 /\ idx[p] + 1 < Len(hand[p])
  <2>1. CASE LastSlot(p)
    BY <1>1, <2>1, Returned DEF PublishSlot
  <2>2. CASE ~LastSlot(p)
    <3>1. idx' = [idx EXCEPT ![p] = idx[p] + 1] /\ UNCHANGED <<pc, pos, hand>>
      BY <2>2 DEF PublishSlot
    <3>2. idx[p] + 1 \in 0..N /\ idx[p] + 1 < Len(hand[p])
      BY <1>1, <1>2, <2>2 DEF LastSlot
    <3>3. /\ pc \in [Thread -> PushAt \cup PopAt] /\ pos \in [Thread -> Nat]
          /\ idx \in [Thread -> 0..N] /\ hand \in [Thread -> Seq(Item \cup {NoData})]
      BY <1>1 DEF TypeOK
    <3>4. idx' \in [Thread -> 0..N] /\ idx'[p] = idx[p] + 1
          /\ \A u \in Thread : u # p => idx'[u] = idx[u]
      BY <1>1, <3>1, <3>2, <3>3
    <3> QED BY <1>1, <2>2, <3>1, <3>2, <3>3, <3>4 DEF Only
  <2> QED BY <2>1, <2>2
<1>4. /\ Unpublished(p) = z..(pos[p] + Len(hand[p]) - 1) /\ z \in Nat /\ z \in Unpublished(p)
      /\ Unpublished(p)' = Unpublished(p) \ {z}
      /\ \A q \in Producer : q # p => Unpublished(q)' = Unpublished(q)
  <2>1. Unpublished(p) = z..(pos[p] + Len(hand[p]) - 1)
    BY <1>1 DEF Unpublished
  <2>2. z \in Nat /\ z \in Unpublished(p)
    BY <1>2, <2>1
  <2>3. Unpublished(p)' = Unpublished(p) \ {z}
    <3>1. CASE LastSlot(p)
      <4>1. Unpublished(p)' = {}
        BY <1>3, <3>1 DEF Unpublished
      <4>2. Len(hand[p]) = idx[p] + 1
        BY <3>1 DEF LastSlot
      <4> QED BY <1>2, <2>1, <4>1, <4>2
    <3>2. CASE ~LastSlot(p)
      <4>1. Unpublished(p)' = (pos[p] + (idx[p] + 1))..(pos[p] + Len(hand[p]) - 1)
        BY <1>3, <3>2 DEF Unpublished
      <4>2. pos[p] + (idx[p] + 1) = z + 1 /\ z \in Nat /\ pos[p] + Len(hand[p]) \in Nat
        BY <1>2
      <4>3. Unpublished(p)' = (z + 1)..(pos[p] + Len(hand[p]) - 1)
        BY <4>1, <4>2
      <4> HIDE DEF z
      <4> QED BY <2>1, <4>2, <4>3
    <3> QED BY <3>1, <3>2
  <2> QED BY <1>1, <1>3, <2>1, <2>2, <2>3, Others
<1>5. /\ z >= deq /\ z < enq /\ seq[CellOf(z)] = z /\ CellOf(z) \in Cell /\ enq <= z + N
      /\ enq \in Nat /\ deq \in Nat
      /\ \A q \in Producer : \A y \in Unpublished(q) : CellOf(y) = CellOf(z) => q = p /\ y = z
      /\ \A c \in Consumer : Reading(c) => CellOf(pos[c]) # CellOf(z)
  <2>1. z \in Unpublished(p)
    BY <1>4
  <2> QED BY <2>1, Claimed, Types
<1>6. \A c \in Consumer : /\ c # p /\ (Reading(c)' <=> Reading(c))
                          /\ pc'[c] = pc[c] /\ pos'[c] = pos[c] /\ hand'[c] = hand[c]
  BY <1>1, <1>3, Others, ThreadsDiffer
<1>7. /\ seq' \in [Cell -> Nat] /\ seq'[CellOf(z)] = z + 1
      /\ \A k \in Cell : k # CellOf(z) => seq'[k] = seq[k]
  <2>1. z + 1 \in Nat /\ seq \in [Cell -> Nat]
    BY <1>4, Types
  <2> QED BY <1>1, <1>5, <2>1
<1>8. TypeOK'
  BY <1>1, <1>3, <1>7 DEF TypeOK
<1>9. Roles'
  <2>1. ProducerRole(p)'
    BY <1>1, <1>2, <1>3 DEF IInv, Order, Roles, ProducerRole, PushAt
  <2>2. \A q \in Producer : q # p => ProducerRole(q)'
    BY <1>1, <1>3, Others DEF IInv, Order, Roles, ProducerRole
  <2> QED BY <1>6, <2>1, <2>2 DEF IInv, Order, Roles
<1>10. Looks'
  <2>1. ProducerLook(p)'
    BY <1>3 DEF ProducerLook
  <2>2. ASSUME NEW q \in Producer, q # p PROVE ProducerLook(q)'
    <3>1. /\ pc'[q] = pc[q] /\ pos'[q] = pos[q] /\ idx'[q] = idx[q] /\ hand'[q] = hand[q]
          /\ pos[q] \in Nat
      BY <1>1, <1>3, <2>2, Others, Types DEF Thread
    <3>2. ASSUME pc[q] \in {"check", "claim"}, pos[q] = enq, NEW i \in Nat, i < Checked(q)
          PROVE  seq'[CellOf(pos[q] + i)] = pos[q] + i
      <4>1. seq[CellOf(pos[q] + i)] = pos[q] + i
        BY <3>2 DEF IInv, Order, Looks, ProducerLook
      <4>2. CellOf(pos[q] + i) \in Cell
        BY <3>1, CellFacts
      <4>3. CellOf(pos[q] + i) # CellOf(z)
        BY <1>4, <1>5, <3>2, <4>1
      <4> QED BY <1>7, <4>1, <4>2, <4>3
    <3>3. Checked(q)' = Checked(q)
      BY <3>1 DEF Checked
    <3>4. pc[q] \in {"check", "claim"} => pos[q] <= enq
      BY DEF IInv, Order, Looks, ProducerLook
    <3> QED BY <1>1, <3>1, <3>2, <3>3, <3>4 DEF ProducerLook
  <2>3. ASSUME NEW c \in Consumer PROVE ConsumerLook(c)'
    <3>1. ConsumerLook(c)
      BY DEF IInv, Order, Looks
    <3>2. ASSUME pc[c] = "claim", pos[c] = deq PROVE seq'[CellOf(pos[c])] = pos[c] + 1
      <4>1. seq[CellOf(deq)] = deq + 1 /\ CellOf(deq) \in Cell /\ CellOf(deq + 1) # CellOf(deq)
        BY <1>5, <3>1, <3>2, CellFacts DEF ConsumerLook
      <4>2. CellOf(deq) # CellOf(z)
        BY <1>5, <4>1
      <4> QED BY <1>7, <3>2, <4>1, <4>2
    <3> QED BY <1>1, <1>6, <3>1, <3>2 DEF ConsumerLook
  <2> QED BY <2>1, <2>2, <2>3 DEF Looks
<1>11. Writers'
  <2>1. ASSUME NEW q \in Producer, pc'[q] \in {"write", "publish"}
        PROVE  pos'[q] + Len(hand'[q]) <= enq'
    <3>1. pc[q] \in {"write", "publish"} /\ pos'[q] = pos[q] /\ hand'[q] = hand[q]
      BY <1>1, <1>3, <2>1, Others
    <3> QED BY <1>1, <3>1 DEF IInv, Order, Writers
  <2>2. ASSUME NEW q \in Producer, NEW x \in Unpublished(q)'
        PROVE  x >= deq' /\ seq'[CellOf(x)] = x
    <3>1. x \in Unpublished(q) /\ ~(q = p /\ x = z)
      BY <1>4, <2>2
    <3>2. x \in Nat /\ x >= deq /\ seq[CellOf(x)] = x
      BY <3>1, Types DEF IInv, Order, Writers
    <3>3. CellOf(x) # CellOf(z) /\ CellOf(x) \in Cell
      BY <1>5, <3>1, <3>2, CellFacts
    <3> QED BY <1>1, <1>7, <3>2, <3>3
  <2>3. ASSUME NEW q \in Producer, NEW r \in Producer, q # r
        PROVE  Unpublished(q)' \cap Unpublished(r)' = {}
    <3>1. Unpublished(q)' \subseteq Unpublished(q) /\ Unpublished(r)' \subseteq Unpublished(r)
      BY <1>4
    <3>2. Unpublished(q) \cap Unpublished(r) = {}
      BY <2>3 DEF IInv, Order, Writers
    <3> QED BY <3>1, <3>2
  <2> QED BY <2>1, <2>2, <2>3 DEF Writers
<1>12. Readers'
  <2>1. ASSUME NEW c \in Consumer, Reading(c)
        PROVE  pos'[c] < deq' /\ seq'[CellOf(pos'[c])] = pos'[c] + 1
    BY <1>1, <1>5, <1>6, <1>7, <2>1, BeingRead
  <2> QED BY <1>6, <2>1 DEF IInv, Order, Readers
<1>13. ASSUME NEW k \in Cell, k # CellOf(z)
       PROVE  (Free(k) => Free(k)') /\ (Full(k)' <=> Full(k)) /\ seq'[k] = seq[k]
  <2>1. seq'[k] = seq[k]
    BY <1>7, <1>13
  <2>2. ASSUME Free(k) PROVE Free(k)'
    <3>1. seq[k] # z
      BY <1>13, <2>2 DEF Free
    <3>2. ASSUME NEW q \in Producer, seq[k] \in Unpublished(q) PROVE seq[k] \in Unpublished(q)'
      BY <1>4, <3>1, <3>2
    <3> QED BY <1>1, <2>1, <2>2, <3>2 DEF Free
  <2>3. Full(k)' <=> Full(k)
    BY <1>1, <1>6, <2>1 DEF Full
  <2> QED BY <2>1, <2>2, <2>3
<1>14. ASSUME NEW k \in Cell, k = CellOf(z) PROVE Full(k)'
  <2>1. seq'[k] - 1 = z /\ seq'[k] >= 1 /\ CellOf(z) = k
    BY <1>4, <1>7, <1>14
  <2>2. z < enq' /\ z >= deq' /\ enq' <= z + N
    BY <1>1, <1>5
  <2> HIDE DEF z
  <2> QED BY <2>1, <2>2 DEF Full
<1>15. Cells'
  <2> SUFFICES ASSUME NEW k \in Cell
               PROVE  (Free(k) /\ enq <= seq[k] + N)' \/ Full(k)'
    BY DEF Cells
  <2>1. CASE k = CellOf(z)
    BY <1>14, <2>1
  <2>2. CASE k # CellOf(z)
    <3>1. (Free(k) /\ enq <= seq[k] + N) \/ Full(k)
      BY DEF IInv, Order, Cells
    <3> QED BY <1>1, <1>13, <2>2, <3>1
  <2> QED BY <2>1, <2>2
<1>16. Contents'
  <2>1. ASSUME NEW q \in Producer, pc'[q] \in {"write", "publish"}
        PROVE  /\ \A i \in 1..Len(hand'[q]) : log'[pos'[q] + i] = hand'[q][i]
               /\ \A i \in Nat : pos'[q] + i \in Unpublished(q)' /\ (pc'[q] = "write" => i < idx'[q])
                                 => data'[CellOf(pos'[q] + i)] = hand'[q][i + 1]
    <3>1. /\ pc'[q] = pc[q] /\ pos'[q] = pos[q] /\ hand'[q] = hand[q]
          /\ pc[q] = "write" => idx'[q] = idx[q]
      BY <1>1, <1>3, <2>1, Others
    <3>2. Unpublished(q)' \subseteq Unpublished(q)
      BY <1>4
    <3> QED BY <1>1, <2>1, <3>1, <3>2 DEF IInv, Contents
  <2>2. ASSUME NEW k \in Cell, Full(k)' PROVE data'[k] = log'[seq'[k]]
    <3>1. CASE k = CellOf(z)
      <4>1. data[CellOf(z)] = hand[p][idx[p] + 1]
        BY <1>1, <1>2, <1>4 DEF IInv, Contents
      <4>2. idx[p] + 1 \in 1..Len(hand[p]) /\ pos[p] + (idx[p] + 1) = z + 1
        BY <1>2
      <4>3. log[pos[p] + (idx[p] + 1)] = hand[p][idx[p] + 1]
        BY <1>1, <4>2 DEF IInv, Contents
      <4> QED BY <1>1, <1>7, <3>1, <4>1, <4>2, <4>3
    <3>2. CASE k # CellOf(z)
      BY <1>1, <1>13, <2>2, <3>2 DEF IInv, Contents
    <3> QED BY <3>1, <3>2
  <2>3. \A c \in Consumer : pc'[c] = "free" => hand'[c] = <<log'[pos'[c] + 1]>>
    BY <1>1, <1>6 DEF IInv, Contents
  <2> QED BY <2>1, <2>2, <2>3 DEF Contents
<1> QED BY <1>8, <1>9, <1>10, <1>11, <1>12, <1>15, <1>16 DEF IInv, Order

\* The head's cell is published when the compare-and-exchange succeeds.
LEMMA ClaimHeadStep ==
    ASSUME N > 1, IInv, NEW c \in Consumer, ClaimHead(c) PROVE IInv'
<1>1. /\ c \in Thread /\ pc[c] = "claim" /\ UNCHANGED <<seq, data, enq, idx, hand, log>>
      /\ TypeOK /\ N \in Nat
  BY CellFacts DEF ClaimHead, Thread, IInv, Order
<1>2. CASE pos' = [pos EXCEPT ![c] = deq] /\ Goto(c, "look") /\ UNCHANGED deq
  BY <1>1, <1>2, ClaimFails
<1>3. CASE deq = pos[c] /\ deq' = deq + 1 /\ Goto(c, "read") /\ UNCHANGED pos
  <2>1. /\ pc' \in [Thread -> PushAt \cup PopAt] /\ pc'[c] = "read" /\ Only(c)
    BY <1>1, <1>3, Went DEF Only, PopAt
  <2>2. /\ deq \in Nat /\ enq \in Nat /\ CellOf(deq) \in Cell
        /\ CellOf(deq + 1) # CellOf(deq) /\ seq[CellOf(deq)] = deq + 1
    <3>1. ConsumerLook(c)
      BY DEF IInv, Order, Looks
    <3> QED BY <1>1, <1>3, <3>1, Types, CellFacts DEF ConsumerLook
  <2>3. deq < enq
    <3>1. ~Free(CellOf(deq))
      BY <2>2 DEF Free
    <3>2. Full(CellOf(deq))
      BY <2>2, <3>1 DEF IInv, Order, Cells
    <3> QED BY <2>2, <3>2 DEF Full
  <2>4. /\ \A q \in Producer : /\ q # c /\ Unpublished(q)' = Unpublished(q)
                               /\ pc'[q] = pc[q] /\ pos'[q] = pos[q]
                               /\ idx'[q] = idx[q] /\ hand'[q] = hand[q]
        /\ \A d \in Consumer : d # c => /\ (Reading(d)' <=> Reading(d))
                                        /\ pc'[d] = pc[d] /\ pos'[d] = pos[d]
                                        /\ hand'[d] = hand[d]
        /\ Reading(c)' /\ ~Reading(c) /\ pos'[c] = deq
    <3>1. \A q \in Producer : q # c
      BY ThreadsDiffer
    <3>2. Reading(c)' /\ ~Reading(c)
      BY <1>1, <2>1 DEF Reading
    <3> QED BY <1>1, <1>3, <2>1, <3>1, <3>2, Others
  <2>5. TypeOK'
    <3>1. deq' \in Nat /\ deq' <= enq
      BY <1>3, <2>2, <2>3
    <3> QED BY <1>1, <1>3, <2>1, <3>1 DEF TypeOK
  <2>6. Roles'
    BY <2>1, <2>4 DEF IInv, Order, Roles, ProducerRole, PopAt
  <2>7. Looks'
    <3>1. \A q \in Producer : ProducerLook(q)'
      BY <1>1, <2>4 DEF IInv, Order, Looks, ProducerLook, Checked
    <3>2. ASSUME NEW d \in Consumer PROVE ConsumerLook(d)'
      <4>1. CASE d = c
        BY <2>1, <4>1 DEF ConsumerLook
      <4>2. CASE d # c
        <5>1. ConsumerLook(d) /\ pc'[d] = pc[d] /\ pos'[d] = pos[d] /\ pos[d] \in Nat
          BY <2>4, <4>2, Types DEF IInv, Order, Looks, Thread
        <5> QED BY <1>3, <2>2, <5>1 DEF ConsumerLook
      <4> QED BY <4>1, <4>2
    <3> QED BY <3>1, <3>2 DEF Looks
  <2>8. \A q \in Producer : \A x \in Unpublished(q) : x >= deq + 1
    <3> SUFFICES ASSUME NEW q \in Producer, NEW x \in Unpublished(q) PROVE x >= deq + 1
      OBVIOUS
    <3>1. x \in Nat /\ x >= deq /\ seq[CellOf(x)] = x
      BY Types DEF IInv, Order, Writers
    <3>2. x # deq
      BY <2>2, <3>1
    <3> QED BY <2>2, <3>1, <3>2
  <2>9. Writers'
    BY <1>1, <1>3, <2>4, <2>8 DEF IInv, Order, Writers
  <2>10. Readers'
    <3>1. \A d \in Consumer : Reading(d) => pos[d] < deq /\ pos[d] \in Nat
      BY Types DEF IInv, Order, Readers, Thread
    <3>2. ASSUME NEW d \in Consumer, Reading(d)'
          PROVE  pos'[d] < deq' /\ seq'[CellOf(pos'[d])] = pos'[d] + 1
      <4>1. CASE d = c
        BY <1>1, <1>3, <2>2, <2>4, <4>1
      <4>2. CASE d # c
        <5>1. Reading(d) /\ pos'[d] = pos[d]
          BY <2>4, <3>2, <4>2
        <5>2. seq[CellOf(pos[d])] = pos[d] + 1
          BY <5>1 DEF IInv, Order, Readers
        <5> QED BY <1>1, <1>3, <2>2, <3>1, <5>1, <5>2
      <4> QED BY <4>1, <4>2
    <3>3. ASSUME NEW d \in Consumer, NEW e \in Consumer, d # e, Reading(d)', Reading(e)'
          PROVE  pos'[d] # pos'[e]
      <4>1. CASE d = c
        BY <2>2, <2>4, <3>1, <3>3, <4>1
      <4>2. CASE e = c
        BY <2>2, <2>4, <3>1, <3>3, <4>2
      <4>3. CASE d # c /\ e # c
        BY <2>4, <3>3, <4>3 DEF IInv, Order, Readers
      <4> QED BY <4>1, <4>2, <4>3
    <3> QED BY <3>2, <3>3 DEF Readers
  <2>11. ASSUME NEW k \in Cell, Full(k)' PROVE Full(k)
    <3>1. seq[k] \in Nat
      BY Types
    <3>2. seq[k] - 1 >= deq + 1 \/ \E d \in Consumer : Reading(d)' /\ pos'[d] = seq[k] - 1
      BY <1>1, <1>3, <2>11 DEF Full
    <3>3. seq[k] - 1 >= deq \/ \E d \in Consumer : Reading(d) /\ pos[d] = seq[k] - 1
      BY <2>2, <2>4, <3>1, <3>2
    <3> QED BY <1>1, <2>11, <3>3 DEF Full
  <2>12. Cells'
    <3> SUFFICES ASSUME NEW k \in Cell
                 PROVE  (Free(k) /\ enq <= seq[k] + N)' \/ Full(k)'
      BY DEF Cells
    <3>1. seq[k] \in Nat
      BY Types
    <3>2. CASE Free(k) /\ enq <= seq[k] + N
      <4>1. seq[k] >= enq \/ \E q \in Producer : seq[k] \in Unpublished(q)
        BY <3>2 DEF Free
      <4>2. seq[k] >= deq + 1
        BY <2>2, <2>3, <2>8, <3>1, <4>1
      <4>3. seq[k] >= enq \/ \E q \in Producer : seq[k] \in Unpublished(q)'
        BY <2>4, <4>1
      <4> QED BY <1>1, <1>3, <3>2, <4>2, <4>3 DEF Free
    <3>3. CASE Full(k)
      <4>1. seq[k] - 1 >= deq + 1 \/ \E d \in Consumer : Reading(d)' /\ pos'[d] = seq[k] - 1
        <5>1. CASE seq[k] - 1 = deq
          BY <2>4, <5>1
        <5>2. CASE seq[k] - 1 >= deq /\ seq[k] - 1 # deq
          BY <2>2, <3>1, <5>2
        <5>3. CASE \E d \in Consumer : Reading(d) /\ pos[d] = seq[k] - 1
          BY <2>4, <5>3
        <5> QED BY <3>3, <5>1, <5>2, <5>3 DEF Full
      <4> QED BY <1>1, <1>3, <3>3, <4>1 DEF Full
    <3> QED BY <3>2, <3>3 DEF IInv, Order, Cells
  <2>13. Contents'
    <3>1. ASSUME NEW q \in Producer, pc'[q] \in {"write", "publish"}
          PROVE  /\ \A i \in 1..Len(hand'[q]) : log'[pos'[q] + i] = hand'[q][i]
                 /\ \A i \in Nat : pos'[q] + i \in Unpublished(q)' /\ (pc'[q] = "write" => i < idx'[q])
                                   => data'[CellOf(pos'[q] + i)] = hand'[q][i + 1]
      BY <1>1, <2>4, <3>1 DEF IInv, Contents
    <3>2. \A k \in Cell : Full(k)' => data'[k] = log'[seq'[k]]
      BY <1>1, <2>11 DEF IInv, Contents
    <3>3. \A d \in Consumer : pc'[d] = "free" => hand'[d] = <<log'[pos'[d] + 1]>>
      BY <1>1, <2>1, <2>4 DEF IInv, Contents
    <3> QED BY <3>1, <3>2, <3>3 DEF Contents
  <2> QED BY <2>5, <2>6, <2>7, <2>9, <2>10, <2>12, <2>13 DEF IInv, Order
<1> QED BY <1>2, <1>3 DEF ClaimHead

\* What the consumer reads is the item of the position it claimed.
LEMMA ReadCellStep ==
    ASSUME N > 1, IInv, NEW c \in Consumer, ReadCell(c) PROVE IInv'
<1> DEFINE read == data[CellOf(pos[c])]
<1>1. /\ c \in Thread /\ pc[c] = "read" /\ UNCHANGED <<seq, data, enq, deq, pos, idx, log>>
      /\ hand' = [hand EXCEPT ![c] = <<read>>] /\ Goto(c, "free") /\ TypeOK
  BY DEF ReadCell, shared, Thread, IInv, Order
<1>2. Reading(c)
  BY <1>1 DEF Reading
<1>3. read \in Item \cup {NoData} /\ read = log[pos[c] + 1]
  <2>1. CellOf(pos[c]) \in Cell /\ Full(CellOf(pos[c])) /\ seq[CellOf(pos[c])] = pos[c] + 1
    BY <1>2, BeingRead
  <2>2. data \in [Cell -> Item \cup {NoData}]
    BY <1>1 DEF TypeOK
  <2> QED BY <2>1, <2>2 DEF IInv, Contents
<1>4. /\ pc' \in [Thread -> PushAt \cup PopAt] /\ pc'[c] = "free"
      /\ \A u \in Thread : u # c => pc'[u] = pc[u]
  BY <1>1, Went DEF PopAt
<1>5. /\ hand' \in [Thread -> Seq(Item \cup {NoData})] /\ hand'[c] = <<read>>
      /\ \A u \in Thread : u # c => hand'[u] = hand[u]
  <2>1. hand \in [Thread -> Seq(Item \cup {NoData})] /\ <<read>> \in Seq(Item \cup {NoData})
    BY <1>1, <1>3 DEF TypeOK
  <2> HIDE DEF read
  <2> QED BY <1>1, <2>1
<1>6. Only(c)
  BY <1>1, <1>4, <1>5 DEF Only
<1>7. /\ \A q \in Producer : /\ q # c /\ Unpublished(q)' = Unpublished(q)
                             /\ pc'[q] = pc[q] /\ pos'[q] = pos[q]
                             /\ idx'[q] = idx[q] /\ hand'[q] = hand[q]
      /\ \A d \in Consumer : Reading(d)' <=> Reading(d)
      /\ \A d \in Consumer : d # c => pc'[d] = pc[d] /\ hand'[d] = hand[d]
  <2>1. Reading(c)'
    BY <1>4 DEF Reading
  <2> QED BY <1>1, <1>2, <1>6, <2>1, Others, ThreadsDiffer
<1>8. TypeOK'
  BY <1>1, <1>4, <1>5 DEF TypeOK
<1>9. Roles'
  BY <1>4, <1>7 DEF IInv, Order, Roles, ProducerRole, PopAt
<1>10. Looks'
  <2>1. \A q \in Producer : ProducerLook(q)'
    BY <1>1, <1>7 DEF IInv, Order, Looks, ProducerLook, Checked
  <2>2. \A d \in Consumer : ConsumerLook(d)'
    BY <1>1, <1>4, <1>7 DEF IInv, Order, Looks, ConsumerLook
  <2> QED BY <2>1, <2>2 DEF Looks
<1>11. Writers'
  BY <1>1, <1>7 DEF IInv, Order, Writers
<1>12. Readers'
  BY <1>1, <1>7 DEF IInv, Order, Readers
<1>13. \A k \in Cell : (Free(k)' <=> Free(k)) /\ (Full(k)' <=> Full(k))
  BY <1>1, <1>7 DEF Free, Full
<1>14. Cells'
  BY <1>1, <1>13 DEF IInv, Order, Cells
<1>15. Contents'
  <2>1. ASSUME NEW q \in Producer, pc'[q] \in {"write", "publish"}
        PROVE  /\ \A i \in 1..Len(hand'[q]) : log'[pos'[q] + i] = hand'[q][i]
               /\ \A i \in Nat : pos'[q] + i \in Unpublished(q)' /\ (pc'[q] = "write" => i < idx'[q])
                                 => data'[CellOf(pos'[q] + i)] = hand'[q][i + 1]
    BY <1>1, <1>7, <2>1 DEF IInv, Contents
  <2>2. \A k \in Cell : Full(k)' => data'[k] = log'[seq'[k]]
    BY <1>1, <1>13 DEF IInv, Contents
  <2>3. \A d \in Consumer : pc'[d] = "free" => hand'[d] = <<log'[pos'[d] + 1]>>
    BY <1>1, <1>3, <1>5, <1>7 DEF IInv, Contents
  <2> QED BY <2>1, <2>2, <2>3 DEF Contents
<1> QED BY <1>8, <1>9, <1>10, <1>11, <1>12, <1>14, <1>15 DEF IInv, Order

\* The cell given back waits for the position one lap ahead, which nobody can have
\* claimed yet.
LEMMA FreeCellStep ==
    ASSUME N > 1, IInv, NEW c \in Consumer, FreeCell(c) PROVE IInv'
<1> DEFINE k0 == CellOf(pos[c])
<1>1. /\ c \in Thread /\ pc[c] = "free" /\ UNCHANGED <<data, enq, deq, log>>
      /\ seq' = [seq EXCEPT ![k0] = pos[c] + N] /\ Return(c) /\ TypeOK /\ N \in Nat
  BY CellFacts DEF FreeCell, Thread, IInv, Order
<1>2. Reading(c)
  BY <1>1 DEF Reading
<1>3. /\ pos[c] \in Nat /\ pos[c] < deq /\ k0 \in Cell /\ seq[k0] = pos[c] + 1
      /\ enq <= pos[c] + N /\ enq \in Nat /\ deq \in Nat /\ deq <= enq
      /\ \A d \in Consumer : Reading(d) /\ CellOf(pos[d]) = k0 => d = c
      /\ \A q \in Producer : \A x \in Unpublished(q) : CellOf(x) # k0
  BY <1>2, BeingRead, Types
<1>4. /\ CellOf(pos[c] + N) = k0 /\ CellOf(pos[c] + 1) # k0
      /\ pos[c] + N - 1 \in Nat /\ CellOf(pos[c] + N - 1) # k0
  <2>1. pos[c] + N - 1 \in Nat /\ (pos[c] + N - 1) + 1 = pos[c] + N
    BY <1>1, <1>3
  <2> QED BY <1>3, <2>1, CellFacts
<1>5. /\ pc' \in [Thread -> PushAt \cup PopAt] /\ pos' \in [Thread -> Nat]
      /\ idx' \in [Thread -> 0..N] /\ hand' \in [Thread -> Seq(Item \cup {NoData})]
      /\ pc'[c] = "idle" /\ Only(c)
  BY <1>1, Returned
<1>6. /\ \A q \in Producer : /\ q # c /\ Unpublished(q)' = Unpublished(q)
                             /\ pc'[q] = pc[q] /\ pos'[q] = pos[q]
                             /\ idx'[q] = idx[q] /\ hand'[q] = hand[q]
      /\ \A d \in Consumer : d # c => /\ (Reading(d)' <=> Reading(d))
                                      /\ pc'[d] = pc[d] /\ pos'[d] = pos[d]
                                      /\ hand'[d] = hand[d]
      /\ ~Reading(c)'
  <2>1. ~Reading(c)'
    BY <1>5 DEF Reading
  <2> QED BY <1>1, <1>5, <2>1, Others, ThreadsDiffer
<1>7. /\ seq' \in [Cell -> Nat] /\ seq'[k0] = pos[c] + N
      /\ \A k \in Cell : k # k0 => seq'[k] = seq[k]
  <2>1. pos[c] + N \in Nat /\ seq \in [Cell -> Nat]
    BY <1>1, <1>3, Types
  <2> QED BY <1>1, <1>3, <2>1
<1>8. TypeOK'
  BY <1>1, <1>5, <1>7 DEF TypeOK
<1>9. Roles'
  BY <1>5, <1>6 DEF IInv, Order, Roles, ProducerRole, PopAt
<1>10. Looks'
  <2>1. ASSUME NEW q \in Producer PROVE ProducerLook(q)'
    <3>1. /\ pc'[q] = pc[q] /\ pos'[q] = pos[q] /\ idx'[q] = idx[q] /\ hand'[q] = hand[q]
          /\ pos[q] \in Nat
      BY <1>6, Types DEF Thread
    <3>2. ASSUME pc[q] \in {"check", "claim"}, pos[q] = enq, NEW i \in Nat, i < Checked(q)
          PROVE  seq'[CellOf(pos[q] + i)] = pos[q] + i
      <4>1. seq[CellOf(pos[q] + i)] = pos[q] + i
        BY <3>2 DEF IInv, Order, Looks, ProducerLook
      <4>2. CellOf(pos[q] + i) \in Cell
        BY <3>1, CellFacts
      <4>3. CellOf(pos[q] + i) # k0
        <5> SUFFICES ASSUME CellOf(pos[q] + i) = k0 PROVE FALSE
          OBVIOUS
        <5>1. pos[q] + i = pos[c] + 1
          BY <1>3, <4>1
        <5> QED BY <1>4, <5>1
      <4> QED BY <1>7, <4>1, <4>2, <4>3
    <3>3. Checked(q)' = Checked(q)
      BY <3>1 DEF Checked
    <3>4. pc[q] \in {"check", "claim"} => pos[q] <= enq
      BY DEF IInv, Order, Looks, ProducerLook
    <3> QED BY <1>1, <3>1, <3>2, <3>3, <3>4 DEF ProducerLook
  <2>2. ASSUME NEW d \in Consumer PROVE ConsumerLook(d)'
    <3>1. CASE d = c
      BY <1>5, <3>1 DEF ConsumerLook
    <3>2. CASE d # c
      <4>1. ConsumerLook(d) /\ pc'[d] = pc[d] /\ pos'[d] = pos[d]
        BY <1>6, <3>2 DEF IInv, Order, Looks
      <4>2. ASSUME pc[d] = "claim", pos[d] = deq PROVE seq'[CellOf(pos[d])] = pos[d] + 1
        <5>1. seq[CellOf(deq)] = deq + 1 /\ CellOf(deq) \in Cell
          BY <1>3, <4>1, <4>2, CellFacts DEF ConsumerLook
        <5>2. CellOf(deq) # k0
          BY <1>3, <5>1
        <5> QED BY <1>7, <4>2, <5>1, <5>2
      <4> QED BY <1>1, <4>1, <4>2 DEF ConsumerLook
    <3> QED BY <3>1, <3>2
  <2> QED BY <2>1, <2>2 DEF Looks
<1>11. Writers'
  <2>1. ASSUME NEW q \in Producer, NEW x \in Unpublished(q)
        PROVE  x >= deq /\ seq'[CellOf(x)] = x
    <3>1. x \in Nat /\ x >= deq /\ seq[CellOf(x)] = x
      BY Types DEF IInv, Order, Writers
    <3>2. CellOf(x) \in Cell /\ CellOf(x) # k0
      BY <1>3, <3>1, CellFacts
    <3> QED BY <1>7, <3>1, <3>2
  <2> QED BY <1>1, <1>6, <2>1 DEF IInv, Order, Writers
<1>12. Readers'
  <2>1. ASSUME NEW d \in Consumer, d # c, Reading(d)
        PROVE  pos[d] < deq /\ seq'[CellOf(pos[d])] = pos[d] + 1
    BY <1>3, <1>7, <2>1, BeingRead
  <2> QED BY <1>1, <1>6, <2>1 DEF IInv, Order, Readers
<1>13. ASSUME NEW k \in Cell, k # k0
       PROVE  (Free(k)' <=> Free(k)) /\ (Full(k)' <=> Full(k)) /\ seq'[k] = seq[k]
  <2>1. seq'[k] = seq[k]
    BY <1>7, <1>13
  <2>2. Free(k)' <=> Free(k)
    BY <1>1, <1>6, <2>1 DEF Free
  <2>3. ASSUME Full(k) PROVE ~\E d \in Consumer : d = c /\ pos[d] = seq[k] - 1
    BY <1>13, <2>3 DEF Full
  <2>4. Full(k)' <=> Full(k)
    BY <1>1, <1>2, <1>6, <2>1, <2>3 DEF Full
  <2> QED BY <2>1, <2>2, <2>4
<1>14. ASSUME NEW k \in Cell, k = k0 PROVE (Free(k) /\ enq <= seq[k] + N)'
  <2>1. seq'[k] = pos[c] + N /\ CellOf(pos[c] + N) = k
    BY <1>4, <1>7, <1>14
  <2>2. CellOf(seq'[k]) = k /\ seq'[k] >= deq' /\ seq'[k] >= enq' /\ enq' <= seq'[k] + N
    BY <1>1, <1>3, <2>1
  <2> QED BY <2>2 DEF Free
<1>15. Cells'
  <2> SUFFICES ASSUME NEW k \in Cell
               PROVE  (Free(k) /\ enq <= seq[k] + N)' \/ Full(k)'
    BY DEF Cells
  <2>1. CASE k = k0
    BY <1>14, <2>1
  <2>2. CASE k # k0
    <3>1. (Free(k) /\ enq <= seq[k] + N) \/ Full(k)
      BY DEF IInv, Order, Cells
    <3> QED BY <1>1, <1>13, <2>2, <3>1
  <2> QED BY <2>1, <2>2
<1>16. Contents'
  <2>1. ASSUME NEW q \in Producer, pc'[q] \in {"write", "publish"}
        PROVE  /\ \A i \in 1..Len(hand'[q]) : log'[pos'[q] + i] = hand'[q][i]
               /\ \A i \in Nat : pos'[q] + i \in Unpublished(q)' /\ (pc'[q] = "write" => i < idx'[q])
                                 => data'[CellOf(pos'[q] + i)] = hand'[q][i + 1]
    BY <1>1, <1>6, <2>1 DEF IInv, Contents
  <2>2. ASSUME NEW k \in Cell, Full(k)' PROVE data'[k] = log'[seq'[k]]
    <3>1. k # k0
      <4> SUFFICES ASSUME k = k0 PROVE FALSE
        OBVIOUS
      <4>1. CellOf(seq'[k] - 1) = k
        BY <2>2 DEF Full
      <4>2. seq'[k] - 1 = pos[c] + N - 1
        BY <1>1, <1>3, <1>7
      <4> QED BY <1>4, <4>1, <4>2
    <3> QED BY <1>1, <1>13, <2>2, <3>1 DEF IInv, Contents
  <2>3. \A d \in Consumer : pc'[d] = "free" => hand'[d] = <<log'[pos'[d] + 1]>>
    BY <1>1, <1>5, <1>6 DEF IInv, Contents
  <2> QED BY <2>1, <2>2, <2>3 DEF Contents
<1> QED BY <1>8, <1>9, <1>10, <1>11, <1>12, <1>15, <1>16 DEF IInv, Order

-------------------------------------------------------------------------------
LEMMA InitIInv == N > 1 /\ Init => IInv
<1> SUFFICES ASSUME N > 1, Init PROVE IInv
  OBVIOUS
<1>1. N \in Nat /\ Cell \subseteq Nat /\ \A k \in Cell : CellOf(k) = k /\ k < N
  BY CellFacts DEF Cell
<1>2. TypeOK
  <2>1. "idle" \in PushAt \cup PopAt
    BY DEF PushAt
  <2> QED BY <1>1, <2>1 DEF Init, TypeOK
<1>3. /\ \A t \in Thread : pc[t] = "idle" /\ hand[t] = <<>>
      /\ Producer \subseteq Thread /\ Consumer \subseteq Thread
  BY DEF Init, Thread
<1>4. Roles
  <2>1. <<>> \in Seq(Item)
    OBVIOUS
  <2> QED BY <1>3, <2>1 DEF Roles, ProducerRole, PushAt, PopAt
<1>5. Looks
  BY <1>3 DEF Looks, ProducerLook, ConsumerLook
<1>6. (\A p \in Producer : Unpublished(p) = {}) /\ (\A c \in Consumer : ~Reading(c))
  BY <1>3 DEF Unpublished, Reading
<1>7. Writers /\ Readers
  BY <1>3, <1>6 DEF Writers, Readers
<1>8. \A k \in Cell : Free(k) /\ enq <= seq[k] + N /\ ~Full(k)
  BY <1>1, <1>6 DEF Free, Full, Init
<1>9. Cells /\ Contents
  BY <1>3, <1>8 DEF Cells, Contents
<1> QED BY <1>2, <1>4, <1>5, <1>7, <1>9 DEF IInv, Order

LEMMA StutterIInv == IInv /\ UNCHANGED vars => IInv'
<1> SUFFICES ASSUME IInv, UNCHANGED vars PROVE IInv'
  OBVIOUS
<1>1. UNCHANGED <<seq, data, enq, deq, pc, pos, idx, hand, log>>
  BY DEF vars, shared, local
<1> QED BY <1>1, SMTT(20) DEF IInv, Order, Contents, TypeOK, Roles, ProducerRole, Looks, ProducerLook,
      ConsumerLook, Checked, Writers, Readers, Reading, Cells, Free, Full, Unpublished

LEMMA NextIInv == N > 1 /\ IInv /\ [Next]_vars => IInv'
<1> SUFFICES ASSUME N > 1, IInv, [Next]_vars PROVE IInv'
  OBVIOUS
<1>1. CASE UNCHANGED vars
  BY <1>1, StutterIInv
<1>2. ASSUME NEW p \in Producer, PushStep(p) PROVE IInv'
  BY <1>2, BeginPushStep, LoadEnqStep, CheckSlotStep, ClaimSlotsStep, WriteSlotStep,
     PublishSlotStep DEF PushStep
<1>3. ASSUME NEW c \in Consumer, PopStep(c) PROVE IInv'
  BY <1>3, BeginPopStep, LoadDeqStep, LookAtHeadStep, ClaimHeadStep, ReadCellStep,
     FreeCellStep DEF PopStep
<1> QED BY <1>1, <1>2, <1>3 DEF Next

LEMMA Inductive == N > 1 => (Spec => []IInv)
<1> SUFFICES ASSUME N > 1 PROVE Spec => []IInv
  OBVIOUS
<1>1. Init => IInv
  BY InitIInv
<1>2. IInv /\ [Next]_vars => IInv'
  BY NextIInv
<1> QED BY <1>1, <1>2, PTL DEF Spec

-------------------------------------------------------------------------------
(* Theorems *)

\* Every shared and local variable of the queue keeps its type; the consumers never
\* overtake the producers.
THEOREM TypeCorrect == N > 1 => (Spec => []TypeOK)
<1>1. IInv => TypeOK
  BY DEF IInv, Order
<1> QED BY <1>1, Inductive, PTL

\* No two threads are ever between claiming a cell and handing it on: the plain
\* accesses of try_push_batch and try_pop to Cell::data do not race.
THEOREM CellsHaveOneOwner == N > 1 => (Spec => []OneOwner)
<1> SUFFICES ASSUME N > 1 PROVE Spec => []OneOwner
  OBVIOUS
<1>1. ASSUME IInv PROVE OneOwner
  <2> DEFINE Holds(t) == IF t \in Producer THEN {CellOf(x) : x \in Unpublished(t)}
                         ELSE IF Reading(t) THEN {CellOf(pos[t])} ELSE {}
  <2>1. ASSUME NEW p \in Producer PROVE Owned(p) = Holds(p)
    <3>1. pc[p] \in PushAt /\ pos[p] \in Nat /\ Len(hand[p]) \in Nat
      BY <1>1, Types DEF IInv, Order, Roles, ProducerRole, Thread
    <3>2. pos[p] + (Len(hand[p]) - 1) = pos[p] + Len(hand[p]) - 1
      BY <3>1
    <3>3. pc[p] \notin {"read", "free"}
      BY <3>1 DEF PushAt
    <3> QED BY <3>2, <3>3 DEF Owned, Unpublished
  <2>2. ASSUME NEW c \in Consumer PROVE Owned(c) = Holds(c)
    <3>1. pc[c] \in PopAt /\ pos[c] \in Nat /\ c \notin Producer
      BY <1>1, Types, ThreadsDiffer DEF IInv, Order, Roles, Thread
    <3>2. pos[c]..(pos[c] + 0) = {pos[c]}
      BY <3>1
    <3>3. pc[c] \notin {"write", "publish"}
      BY <3>1 DEF PopAt
    <3> QED BY <3>1, <3>2, <3>3 DEF Owned, Reading
  <2>3. ASSUME NEW t \in Thread, NEW u \in Thread, t # u PROVE Holds(t) \cap Holds(u) = {}
    <3>1. CASE t \in Producer /\ u \in Producer
      BY <1>1, <2>3, <3>1, Claimed
    <3>2. CASE t \in Producer /\ u \in Consumer
      BY <1>1, <3>2, Claimed, ThreadsDiffer
    <3>3. CASE t \in Consumer /\ u \in Producer
      BY <1>1, <3>3, Claimed, ThreadsDiffer
    <3>4. CASE t \in Consumer /\ u \in Consumer
      BY <1>1, <2>3, <3>4, BeingRead, ThreadsDiffer
    <3> QED BY <3>1, <3>2, <3>3, <3>4 DEF Thread
  <2> HIDE DEF Holds
  <2> QED BY <2>1, <2>2, <2>3 DEF OneOwner, Thread
<1>2. IInv => OneOwner
  BY <1>1
<1> QED BY <1>2, Inductive, PTL

\* A pop returns the item pushed at the position it claimed, whatever the
\* interleaving: none is lost, duplicated, overwritten or read before it is written.
THEOREM PopsAreFaithful == N > 1 => (Spec => []PopsWhatWasPushed)
<1>1. IInv => PopsWhatWasPushed
  BY DEF IInv, Contents, PopsWhatWasPushed
<1> QED BY <1>1, Inductive, PTL

\* A call that ends where a cell is looked at ends because of the number seen there.
LEMMA SaidEmpty ==
    ASSUME IInv, [Next]_vars, NEW c \in Consumer, SaysEmpty(c)
    PROVE  seq[CellOf(pos[c])] - (pos[c] + 1) < 0
<1>1. pc \in [Thread -> PushAt \cup PopAt] /\ c \in Thread /\ pc[c] = "look" /\ pc'[c] = "idle"
  BY DEF IInv, Order, TypeOK, Thread, SaysEmpty
<1>2. pc' # pc
  BY <1>1
<1>3. ASSUME NEW p \in Producer, PushStep(p) PROVE FALSE
  <2>1. p # c /\ p \in Thread
    BY ThreadsDiffer DEF Thread
  <2>2. pc' = pc \/ \E where : Goto(p, where)
    BY <1>3 DEF PushStep, BeginPush, LoadEnq, CheckSlot, ClaimSlots, WriteSlot, PublishSlot, Return
  <2> QED BY <1>1, <1>2, <2>1, <2>2 DEF Goto
<1>4. ASSUME NEW d \in Consumer, d # c, PopStep(d) PROVE FALSE
  <2>1. pc' = pc \/ \E where : Goto(d, where)
    BY <1>4 DEF PopStep, BeginPop, LoadDeq, LookAtHead, ClaimHead, ReadCell, FreeCell, Return
  <2> QED BY <1>1, <1>2, <1>4, <2>1 DEF Goto, Thread
<1>5. LookAtHead(c)
  <2>1. PopStep(c)
    BY <1>2, <1>3, <1>4 DEF Next, vars, local
  <2> QED BY <1>1, <2>1 DEF PopStep, BeginPop, LoadDeq, ClaimHead, ReadCell, FreeCell
<1> QED BY <1>1, <1>5 DEF LookAtHead, Goto

LEMMA SaidFull ==
    ASSUME IInv, [Next]_vars, NEW p \in Producer, SaysFull(p)
    PROVE  SlotDiff(p) < 0
<1>1. pc \in [Thread -> PushAt \cup PopAt] /\ p \in Thread /\ pc[p] = "check" /\ pc'[p] = "idle"
  BY DEF IInv, Order, TypeOK, Thread, SaysFull
<1>2. pc' # pc
  BY <1>1
<1>3. ASSUME NEW c \in Consumer, PopStep(c) PROVE FALSE
  <2>1. p # c /\ c \in Thread
    BY ThreadsDiffer DEF Thread
  <2>2. pc' = pc \/ \E where : Goto(c, where)
    BY <1>3 DEF PopStep, BeginPop, LoadDeq, LookAtHead, ClaimHead, ReadCell, FreeCell, Return
  <2> QED BY <1>1, <1>2, <2>1, <2>2 DEF Goto
<1>4. ASSUME NEW q \in Producer, q # p, PushStep(q) PROVE FALSE
  <2>1. pc' = pc \/ \E where : Goto(q, where)
    BY <1>4 DEF PushStep, BeginPush, LoadEnq, CheckSlot, ClaimSlots, WriteSlot, PublishSlot, Return
  <2> QED BY <1>1, <1>2, <1>4, <2>1 DEF Goto, Thread
<1>5. CheckSlot(p)
  <2>1. PushStep(p)
    BY <1>2, <1>3, <1>4 DEF Next, vars, local
  <2> QED BY <1>1, <2>1 DEF PushStep, BeginPush, LoadEnq, ClaimSlots, WriteSlot, PublishSlot
<1> QED BY <1>1, <1>5 DEF CheckSlot, Goto

\* An "empty" is true, or the item at the head is still being filled in; a "full" is
\* true of the batch, or a reader has not given its cell back: the position looked at
\* and the position the cell is at are a lap apart or the same.
THEOREM AnswersHonest == N > 1 => (Spec => AnswersAreHonest)
<1> SUFFICES ASSUME N > 1 PROVE Spec => AnswersAreHonest
  OBVIOUS
<1>1. ASSUME IInv, [Next]_vars, NEW c \in Consumer PROVE EmptyIsHonest(c)
  <2> SUFFICES ASSUME SaysEmpty(c) PROVE enq = deq \/ Filling(deq)
    BY DEF EmptyIsHonest
  <2> DEFINE k == CellOf(pos[c])
  <2>1. /\ pos[c] \in Nat /\ enq \in Nat /\ deq \in Nat /\ deq <= enq /\ N \in Nat
        /\ k \in Cell /\ seq[k] \in Nat
    BY <1>1, Types, CellFacts DEF Thread
  <2>2. pos[c] <= deq
    BY <1>1 DEF SaysEmpty, IInv, Order, Looks, ConsumerLook
  <2>3. seq[k] <= pos[c]
    BY <1>1, <2>1, SaidEmpty
  <2>4. CASE Free(k)
    <3>1. seq[k] = deq
      BY <2>1, <2>2, <2>3, <2>4 DEF Free
    <3>2. CASE seq[k] >= enq
      BY <2>1, <3>1, <3>2
    <3>3. CASE \E q \in Producer : seq[k] \in Unpublished(q)
      <4>1. PICK q \in Producer : deq \in Unpublished(q)
        BY <3>1, <3>3
      <4>2. pos[q] \in Nat /\ idx[q] \in Nat /\ Len(hand[q]) \in Nat
        BY <1>1, Types DEF Thread
      <4>3. pc[q] \in {"write", "publish"} /\ deq \in pos[q]..(pos[q] + Len(hand[q]) - 1)
        BY <2>1, <4>1, <4>2 DEF Unpublished
      <4> QED BY <4>3 DEF Filling
    <3> QED BY <2>4, <3>2, <3>3 DEF Free
  <2>5. CASE Full(k)
    <3>1. seq[k] - 1 \in Nat /\ CellOf(seq[k] - 1) = CellOf(pos[c]) /\ seq[k] - 1 < pos[c]
      BY <2>1, <2>3, <2>5 DEF Full
    <3>2. seq[k] - 1 + N <= pos[c]
      BY <2>1, <3>1, CellFacts
    <3>3. enq <= seq[k] - 1 + N
      BY <2>5 DEF Full
    <3> HIDE DEF k
    <3> QED BY <2>1, <2>2, <3>2, <3>3
  <2> QED BY <1>1, <2>1, <2>4, <2>5 DEF IInv, Order, Cells
<1>2. ASSUME IInv, [Next]_vars, NEW p \in Producer PROVE FullIsHonest(p)
  <2> SUFFICES ASSUME SaysFull(p), enq - deq + Len(hand[p]) <= N
               PROVE  \E i \in 0..(deq - 1) : Emptying(i)
    <3>1. enq \in Nat /\ deq \in Nat /\ Len(hand[p]) \in Nat /\ N \in Nat
      BY <1>2, Types, CellFacts
    <3> QED BY <3>1 DEF FullIsHonest
  <2> DEFINE z == pos[p] + idx[p]
             k == CellOf(z)
  <2>1. /\ pos[p] \in Nat /\ idx[p] \in Nat /\ enq \in Nat /\ deq \in Nat /\ N \in Nat
        /\ Len(hand[p]) \in Nat
    BY <1>2, Types, CellFacts DEF Thread
  <2>2. pos[p] <= enq /\ idx[p] < Len(hand[p])
    BY <1>2 DEF SaysFull, IInv, Order, Looks, ProducerLook, Roles, ProducerRole
  <2>3. z \in Nat /\ z - N < deq
    BY <2>1, <2>2, SMTT(20)
  <2>4. k \in Cell /\ seq[k] \in Nat
    BY <1>2, <2>3, Types, CellFacts
  <2>5. seq[k] < z
    BY <1>2, <2>3, <2>4, SaidFull DEF SlotDiff
  <2>6. \A x \in Nat : CellOf(x) = k /\ x < z => x < deq
    <3> SUFFICES ASSUME NEW x \in Nat, CellOf(x) = CellOf(z), x < z PROVE x < deq
      OBVIOUS
    <3>1. x + N <= z
      BY <2>3, CellFacts
    <3> QED BY <2>1, <2>3, <3>1
  <2>7. CASE Free(k)
    BY <2>1, <2>4, <2>5, <2>6, <2>7 DEF Free
  <2>8. CASE Full(k)
    <3>1. seq[k] - 1 \in Nat /\ seq[k] - 1 < deq
      BY <2>3, <2>4, <2>5, <2>6, <2>8 DEF Full
    <3>2. \E c \in Consumer : Reading(c) /\ pos[c] = seq[k] - 1
      BY <2>1, <2>8, <3>1 DEF Full
    <3>3. seq[k] - 1 \in 0..(deq - 1)
      BY <2>1, <3>1
    <3> QED BY <3>2, <3>3 DEF Emptying, Reading
  <2> QED BY <1>2, <2>4, <2>7, <2>8 DEF IInv, Order, Cells
<1>3. IInv /\ [Next]_vars => [/\ \A c \in Consumer : EmptyIsHonest(c)
                              /\ \A p \in Producer : FullIsHonest(p)]_vars
  BY <1>1, <1>2
<1>4. Spec => []IInv
  BY Inductive
<1> QED BY <1>3, <1>4, PTL DEF Spec, AnswersAreHonest

\* The queue as its callers see it: the items of the positions claimed by producers and
\* not yet by consumers.
Chan == INSTANCE Channel WITH queue <- SubSeq(log, deq + 1, Len(log)),
                              taken <- SubSeq(log, 1, deq)

\* The ring of cells is a FIFO channel: a batch enters it in one piece when its
\* compare-and-exchange succeeds, and an item leaves it, oldest first, when a
\* consumer's does; no other step changes it.
THEOREM QueueImplementsChannel == N > 1 => (Spec => Chan!Safety)
<1> SUFFICES ASSUME N > 1 PROVE Spec => Chan!Safety
  OBVIOUS
<1>1. Init => Chan!Init
  BY DEF Init, Chan!Init
<1>2. IInv /\ [Next]_vars => [Chan!Next]_(Chan!cvars)
  <2> SUFFICES ASSUME IInv, [Next]_vars PROVE Chan!Next \/ UNCHANGED Chan!cvars
    OBVIOUS
  <2>1. /\ log \in Seq(Item) /\ deq \in Nat /\ enq \in Nat /\ Len(log) = enq /\ deq <= enq
    BY Types
  <2>2. ASSUME UNCHANGED <<log, deq>> PROVE UNCHANGED Chan!cvars
    BY <2>2 DEF Chan!cvars
  <2>3. ASSUME NEW p \in Producer, PushStep(p) PROVE Chan!Next \/ UNCHANGED Chan!cvars
    <3>1. CASE BeginPush(p) \/ LoadEnq(p) \/ CheckSlot(p) \/ WriteSlot(p) \/ PublishSlot(p)
      BY <2>2, <3>1 DEF BeginPush, LoadEnq, CheckSlot, WriteSlot, PublishSlot, shared
    <3>2. CASE ClaimSlots(p)
      <4>1. CASE UNCHANGED log
        BY <2>2, <3>2, <4>1 DEF ClaimSlots
      <4>2. CASE log' = log \o hand[p] /\ UNCHANGED deq
        <5>1. hand[p] \in Seq(Item) /\ Len(hand[p]) \in Nat \ {0}
          <6>1. pc[p] = "claim" /\ ProducerRole(p)
            BY <3>2 DEF ClaimSlots, IInv, Order, Roles
          <6>2. Len(hand[p]) \in 1..N /\ N \in Nat
            BY <6>1, CellFacts DEF ProducerRole
          <6> QED BY <6>1, <6>2 DEF ProducerRole
        <5>2. Len(log') = Len(log) + Len(hand[p])
          BY <2>1, <4>2, <5>1, ConcatProperties
        <5>3. /\ SubSeq(log', deq + 1, Len(log')) \in Seq(Item)
              /\ Len(SubSeq(log, deq + 1, Len(log))) = Len(log) - deq
              /\ Len(SubSeq(log', deq + 1, Len(log'))) = Len(log) - deq + Len(hand[p])
              /\ SubSeq(SubSeq(log', deq + 1, Len(log')), 1, Len(log) - deq)
                    = SubSeq(log, deq + 1, Len(log))
              /\ SubSeq(log', 1, deq) = SubSeq(log, 1, deq)
          <6> DEFINE h == hand[p]
          <6>1. h \in Seq(Item) /\ deq <= Len(log)
            BY <2>1, <5>1
          <6> HIDE DEF h
          <6>2. /\ SubSeq(log \o h, deq + 1, Len(log) + Len(h)) \in Seq(Item)
                /\ Len(SubSeq(log, deq + 1, Len(log))) = Len(log) - deq
                /\ Len(SubSeq(log \o h, deq + 1, Len(log) + Len(h))) = Len(log) - deq + Len(h)
                /\ SubSeq(SubSeq(log \o h, deq + 1, Len(log) + Len(h)), 1, Len(log) - deq)
                      = SubSeq(log, deq + 1, Len(log))
                /\ SubSeq(log \o h, 1, deq) = SubSeq(log, 1, deq)
            BY <2>1, <6>1, WindowGrows
          <6>3. log' = log \o h /\ Len(log') = Len(log) + Len(h)
            BY <4>2, <5>2 DEF h
          <6> QED BY ONLY <6>2, <6>3 DEF h
        <5>4. Len(SubSeq(log', deq + 1, Len(log'))) > Len(SubSeq(log, deq + 1, Len(log)))
          BY <2>1, <5>1, <5>3
        <5>5. deq' = deq
          BY <4>2
        <5> QED BY <5>3, <5>4, <5>5 DEF Chan!Next, Chan!SendSome
      <4> QED BY <3>2, <4>1, <4>2 DEF ClaimSlots
    <3> QED BY <2>3, <3>1, <3>2 DEF PushStep
  <2>4. ASSUME NEW c \in Consumer, PopStep(c) PROVE Chan!Next \/ UNCHANGED Chan!cvars
    <3>1. CASE BeginPop(c) \/ LoadDeq(c) \/ LookAtHead(c) \/ ReadCell(c) \/ FreeCell(c)
      BY <2>2, <3>1 DEF BeginPop, LoadDeq, LookAtHead, ReadCell, FreeCell, shared
    <3>2. CASE ClaimHead(c)
      <4>1. CASE UNCHANGED deq
        BY <2>2, <3>2, <4>1 DEF ClaimHead
      <4>2. CASE deq' = deq + 1 /\ UNCHANGED log
        <5>1. deq + 1 <= enq
          <6>1. IInv'
            BY NextIInv
          <6>2. deq' <= enq' /\ enq' = enq
            BY <3>2, <6>1 DEF IInv, Order, TypeOK, ClaimHead
          <6> QED BY <4>2, <6>2
        <5>2. deq < Len(log)
          BY <2>1, <5>1
        <5>3. /\ Len(SubSeq(log, deq + 1, Len(log))) \in Nat \ {0}
              /\ SubSeq(log, 1, deq + 1)
                    = SubSeq(log, 1, deq) \o SubSeq(SubSeq(log, deq + 1, Len(log)), 1, 1)
              /\ SubSeq(log, deq + 1 + 1, Len(log))
                    = SubSeq(SubSeq(log, deq + 1, Len(log)), 2,
                             Len(SubSeq(log, deq + 1, Len(log))))
          BY <2>1, <5>2, WindowMoves
        <5> DEFINE size == Len(SubSeq(log, deq + 1, Len(log)))
        <5>4. Chan!Receive(1)
          <6>1. 1 + 1 = 2
            OBVIOUS
          <6> QED BY ONLY <4>2, <5>3, <6>1 DEF Chan!Receive
        <5>5. 1 \in 1..size
          <6>1. size \in Nat \ {0}
            BY <5>3
          <6> HIDE DEF size
          <6> QED BY <6>1
        <5> QED BY <5>4, <5>5 DEF Chan!Next, Chan!ReceiveSome
      <4> QED BY <3>2, <4>1, <4>2 DEF ClaimHead
    <3> QED BY <2>4, <3>1, <3>2 DEF PopStep
  <2> QED BY <2>2, <2>3, <2>4 DEF Next, vars, shared
<1>3. Spec => []IInv
  BY Inductive
<1> QED BY <1>1, <1>2, <1>3, PTL DEF Spec, Chan!Safety

===============================================================================
