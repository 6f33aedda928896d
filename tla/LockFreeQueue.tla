---------------------------- MODULE LockFreeQueue ----------------------------
(***************************************************************************)
(* core/LockFreeQueue<T, N>, the thread pool's task queue: a ring of N     *)
(* cells, each with a sequence number that says which position may use it  *)
(* next, and two positions that only a compare-and-exchange moves.  One    *)
(* step is one access to shared memory.  The pairs release-store/          *)
(* acquire-load on a cell's number order the plain accesses to its data,   *)
(* so the steps interleave sequentially.  Positions are not wrapped: size_t *)
(* leaves room for 2^64 tasks.                                             *)
(***************************************************************************)
EXTENDS Integers, Sequences

CONSTANTS N,           \* cells in the ring
          Producer,    \* threads that push
          Consumer,    \* threads that pop
          MaxBatch,    \* bound: longest batch pushed
          MaxItems,    \* bound: items pushed in a run
          NoData       \* what a cell holds before its first use

ASSUME RingAssumption == /\ N \in Nat \ {0}
                         /\ MaxBatch \in 1..N
                         /\ MaxItems \in Nat
                         /\ Producer \cap Consumer = {}

VARIABLES seq,         \* Cell::seq
          data,        \* Cell::data
          enq, deq,    \* enqueue_pos_, dequeue_pos_
          pc,          \* where each thread is
          pos,         \* its local pos
          idx,         \* its local i: how many slots of the batch are behind it
          hand,        \* items a producer is pushing, or the one a consumer has read
          log          \* history: the items in the order positions were claimed

shared == <<seq, data, enq, deq>>
local  == <<pc, pos, idx, hand>>
vars   == <<shared, local, log>>

Thread == Producer \cup Consumer
Cell == 0..(N - 1)
Item == Producer \X Nat

PushAt == {"idle", "load", "check", "claim", "write", "publish"}
PopAt  == {"idle", "load", "look", "claim", "read", "free"}

TypeOK == /\ seq \in [Cell -> Nat]
          /\ data \in [Cell -> Item \cup {NoData}]
          /\ deq \in Nat /\ enq \in Nat /\ deq <= enq
          /\ pc \in [Thread -> PushAt \cup PopAt]
          /\ pos \in [Thread -> Nat]
          /\ idx \in [Thread -> 0..N]
          /\ hand \in [Thread -> Seq(Item \cup {NoData})]
          /\ log \in Seq(Item) /\ Len(log) = enq

Init == /\ seq = [c \in Cell |-> c]
        /\ data = [c \in Cell |-> NoData]
        /\ enq = 0 /\ deq = 0
        /\ pc = [t \in Thread |-> "idle"]
        /\ pos = [t \in Thread |-> 0]
        /\ idx = [t \in Thread |-> 0]
        /\ hand = [t \in Thread |-> <<>>]
        /\ log = <<>>

CellOf(position) == position % N

Goto(t, where) == pc' = [pc EXCEPT ![t] = where]

\* The call returns; nothing of it is left.
Return(t) == /\ Goto(t, "idle")
             /\ pos' = [pos EXCEPT ![t] = 0]
             /\ idx' = [idx EXCEPT ![t] = 0]
             /\ hand' = [hand EXCEPT ![t] = <<>>]

-------------------------------------------------------------------------------
(* try_push_batch; try_push is the batch of one *)

\* A call with n items, told apart by their producer and their place in the batch:
\* enough to tell one cell of a claimed batch from the other, and one push from
\* the push that would overwrite it.  A call with no item, or with more of them than
\* the ring has cells, returns at once and touches nothing.
BeginPush(p) == /\ pc[p] = "idle"
                /\ \E n \in 1..MaxBatch :
                      /\ Len(log) + n <= MaxItems
                      /\ hand' = [hand EXCEPT ![p] = [i \in 1..n |-> <<p, i>>]]
                /\ Goto(p, "load")
                /\ UNCHANGED <<shared, pos, idx, log>>

\* enqueue_pos_.load, at the start and after a stale position.
LoadEnq(p) == /\ pc[p] = "load"
              /\ pos' = [pos EXCEPT ![p] = enq]
              /\ idx' = [idx EXCEPT ![p] = 0]
              /\ Goto(p, "check")
              /\ UNCHANGED <<shared, hand, log>>

\* How far the number of the slot the producer is looking at is ahead of its place.
SlotDiff(p) == seq[CellOf(pos[p] + idx[p])] - (pos[p] + idx[p])

LastSlot(p) == idx[p] + 1 = Len(hand[p])

\* Mutant: only the last slot of the batch is looked at, the shortcut the comment of
\* try_push_batch warns of.
CheckLastSlotOnly(p) ==
    /\ pc[p] = "check"
    /\ LET last == pos[p] + Len(hand[p]) - 1
           diff == seq[CellOf(last)] - last
       IN  \/ diff < 0 /\ Return(p)
           \/ diff > 0 /\ Goto(p, "load") /\ UNCHANGED <<pos, idx, hand>>
           \/ diff = 0 /\ Goto(p, "claim") /\ UNCHANGED <<pos, idx, hand>>
    /\ UNCHANGED <<shared, log>>

\* The checking loop: every one of the slots must be free.  A slot that lags has
\* not been given back by its reader of a lap ago: the call returns FALSE.
CheckSlot(p) ==
    /\ pc[p] = "check"
    /\ \/ /\ SlotDiff(p) < 0
          /\ Return(p)
       \/ /\ SlotDiff(p) > 0
          /\ Goto(p, "load")
          /\ UNCHANGED <<pos, idx, hand>>
       \/ /\ SlotDiff(p) = 0 /\ LastSlot(p)
          /\ Goto(p, "claim")
          /\ UNCHANGED <<pos, idx, hand>>
       \/ /\ SlotDiff(p) = 0 /\ ~LastSlot(p)
          /\ idx' = [idx EXCEPT ![p] = @ + 1]
          /\ UNCHANGED <<pc, pos, hand>>
    /\ UNCHANGED <<shared, log>>

\* The compare-and-exchange of enqueue_pos_: all positions of the batch at once.
\* The weak form may also fail for no reason; failing reloads the position.
ClaimSlots(p) ==
    /\ pc[p] = "claim"
    /\ idx' = [idx EXCEPT ![p] = 0]
    /\ \/ /\ enq = pos[p]
          /\ enq' = enq + Len(hand[p])
          /\ log' = log \o hand[p]
          /\ Goto(p, "write")
          /\ UNCHANGED pos
       \/ /\ pos' = [pos EXCEPT ![p] = enq]
          /\ Goto(p, "check")
          /\ UNCHANGED <<enq, log>>
    /\ UNCHANGED <<seq, data, deq, hand>>

\* The writing loop fills the claimed cells, one at a time.
WriteSlot(p) == /\ pc[p] = "write"
                /\ data' = [data EXCEPT ![CellOf(pos[p] + idx[p])] = hand[p][idx[p] + 1]]
                /\ idx' = [idx EXCEPT ![p] = IF LastSlot(p) THEN 0 ELSE @ + 1]
                /\ Goto(p, IF LastSlot(p) THEN "publish" ELSE "write")
                /\ UNCHANGED <<seq, enq, deq, pos, hand, log>>

\* The publishing loop release-stores the numbers consumers wait for.
PublishSlot(p) ==
    /\ pc[p] = "publish"
    /\ seq' = [seq EXCEPT ![CellOf(pos[p] + idx[p])] = pos[p] + idx[p] + 1]
    /\ IF LastSlot(p)
       THEN Return(p)
       ELSE idx' = [idx EXCEPT ![p] = @ + 1] /\ UNCHANGED <<pc, pos, hand>>
    /\ UNCHANGED <<data, enq, deq, log>>

-------------------------------------------------------------------------------
(* try_pop *)

BeginPop(c) == /\ pc[c] = "idle"
               /\ Goto(c, "load")
               /\ UNCHANGED <<shared, pos, idx, hand, log>>

LoadDeq(c) == /\ pc[c] = "load"
              /\ pos' = [pos EXCEPT ![c] = deq]
              /\ Goto(c, "look")
              /\ UNCHANGED <<shared, idx, hand, log>>

\* Mutant: a cell that is not filled yet can be claimed like any other.
LookAtHeadNeverEmpty(c) ==
    /\ pc[c] = "look"
    /\ Goto(c, IF seq[CellOf(pos[c])] > pos[c] + 1 THEN "load" ELSE "claim")
    /\ UNCHANGED <<pos, idx, hand, shared, log>>

\* Mutant: a stale position is taken for an empty queue.
LookAtHeadNoRetry(c) ==
    /\ pc[c] = "look"
    /\ IF seq[CellOf(pos[c])] = pos[c] + 1
       THEN Goto(c, "claim") /\ UNCHANGED <<pos, idx, hand>>
       ELSE Return(c)
    /\ UNCHANGED <<shared, log>>

\* The number of the cell decides: published, not filled yet, or taken already.
LookAtHead(c) ==
    /\ pc[c] = "look"
    /\ LET diff == seq[CellOf(pos[c])] - (pos[c] + 1)
       IN  \/ diff = 0 /\ Goto(c, "claim") /\ UNCHANGED <<pos, idx, hand>>
           \/ diff < 0 /\ Return(c)
           \/ diff > 0 /\ Goto(c, "load") /\ UNCHANGED <<pos, idx, hand>>
    /\ UNCHANGED <<shared, log>>

\* Mutant: the position is stored without comparing it first.
ClaimHeadBlind(c) == /\ pc[c] = "claim"
                     /\ deq' = pos[c] + 1
                     /\ Goto(c, "read")
                     /\ UNCHANGED <<seq, data, enq, pos, idx, hand, log>>

\* The compare-and-exchange of dequeue_pos_, which may fail spuriously.
ClaimHead(c) ==
    /\ pc[c] = "claim"
    /\ \/ /\ deq = pos[c]
          /\ deq' = deq + 1
          /\ Goto(c, "read")
          /\ UNCHANGED pos
       \/ /\ pos' = [pos EXCEPT ![c] = deq]
          /\ Goto(c, "look")
          /\ UNCHANGED deq
    /\ UNCHANGED <<seq, data, enq, idx, hand, log>>

\* out = std::move(cell.data)
ReadCell(c) == /\ pc[c] = "read"
               /\ hand' = [hand EXCEPT ![c] = <<data[CellOf(pos[c])]>>]
               /\ Goto(c, "free")
               /\ UNCHANGED <<shared, pos, idx, log>>

\* The cell is given to the position one lap ahead, and the call returns TRUE.
FreeCell(c) == /\ pc[c] = "free"
               /\ seq' = [seq EXCEPT ![CellOf(pos[c])] = pos[c] + N]
               /\ Return(c)
               /\ UNCHANGED <<data, enq, deq, log>>

-------------------------------------------------------------------------------
PushStep(p) == \/ BeginPush(p) \/ LoadEnq(p) \/ CheckSlot(p) \/ ClaimSlots(p)
               \/ WriteSlot(p) \/ PublishSlot(p)

PopStep(c) == \/ BeginPop(c) \/ LoadDeq(c) \/ LookAtHead(c) \/ ClaimHead(c)
              \/ ReadCell(c) \/ FreeCell(c)

Next == \/ \E p \in Producer : PushStep(p)
        \/ \E c \in Consumer : PopStep(c)

Spec == Init /\ [][Next]_vars

-------------------------------------------------------------------------------
(* Properties *)

\* The cells a thread has claimed and not yet handed on: it alone may touch their
\* data.
Owned(t) == IF pc[t] \in {"write", "read", "free"}
            THEN {CellOf(i) : i \in pos[t]..(pos[t] + (IF t \in Producer THEN Len(hand[t]) - 1 ELSE 0))}
            ELSE IF pc[t] = "publish"
                 THEN {CellOf(i) : i \in (pos[t] + idx[t])..(pos[t] + Len(hand[t]) - 1)}
                 ELSE {}

\* No data race: two threads never own one cell, however long a reader dawdles
\* between claiming a position and releasing its cell (the window the comment of
\* try_push_batch is about).
OneOwner == \A t, u \in Thread : t # u => Owned(t) \cap Owned(u) = {}

\* A consumer gets exactly the item pushed at the position it claimed: nothing is
\* lost, duplicated, overwritten or read early, and positions are in push order,
\* a batch in one piece.
PopsWhatWasPushed == \A c \in Consumer : pc[c] = "free" => hand[c] = <<log[pos[c] + 1]>>

\* A producer is between claiming a position and publishing it.
Filling(position) == \E p \in Producer :
    /\ pc[p] \in {"write", "publish"}
    /\ position \in pos[p]..(pos[p] + Len(hand[p]) - 1)

\* A consumer is between claiming a position and releasing its cell.
Emptying(position) == \E c \in Consumer : pc[c] \in {"read", "free"} /\ pos[c] = position

\* try_pop says "empty": nothing is queued, or the next item is still being filled in.
SaysEmpty(c) == pc[c] = "look" /\ pc'[c] = "idle"
EmptyIsHonest(c) == SaysEmpty(c) => enq = deq \/ Filling(deq)

\* try_push_batch says "full": there are too few free cells for the batch, or a
\* reader has not given one back yet.
SaysFull(p) == pc[p] = "check" /\ pc'[p] = "idle"
FullIsHonest(p) == SaysFull(p) => \/ enq - deq + Len(hand[p]) > N
                                  \/ \E i \in 0..(deq - 1) : Emptying(i)

\* A refusal is the truth when it is given.  An item whose push has returned is never
\* overlooked, which is what lets a worker that looks under the pool's mutex go to
\* sleep; a batch that fits is not refused because of a lap long gone.
AnswersAreHonest == [][/\ \A c \in Consumer : EmptyIsHonest(c)
                       /\ \A p \in Producer : FullIsHonest(p)]_vars
===============================================================================
