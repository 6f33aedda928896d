------------------------------- MODULE Mailbox -------------------------------
(***************************************************************************)
(* core/Mailbox<T>: many posting threads, one consuming event loop.  A     *)
(* post appends under the queue's mutex and learns whether it has to wake  *)
(* the consumer; the wake is a later write to an eventfd, outside the      *)
(* mutex.  The consumer, woken by epoll (level triggered), reads the       *)
(* counter and then swaps and delivers batches until it finds the waiting  *)
(* vector empty.  EventLoop::post is the same protocol over the loop's own *)
(* eventfd; its callback runs the posted functions.                        *)
(***************************************************************************)
EXTENDS Naturals, Sequences

CONSTANTS Producer,      \* posting threads
          MaxBatch,      \* bound: longest post_batch
          MaxPosted,     \* bound: items one producer posts in a run
          AttachFirst    \* TRUE: nobody posts before attach, as the server is assembled

ASSUME BoundsAssumption == /\ MaxBatch \in Nat \ {0}
                           /\ MaxPosted \in Nat
                           /\ AttachFirst \in BOOLEAN

VARIABLES attached,      \* wake_.fd_ >= 0 and registered with the loop
          waiting,       \* BatchQueue::waiting_, under the mutex
          ready,         \* BatchQueue::ready_, the consumer's alone
          draining,      \* BatchQueue::draining_, under the mutex
          efd,           \* the eventfd's counter
          posted,        \* how many items each producer has posted
          owes,          \* producers told to wake that have not written yet
          consumer,      \* where the consuming thread is
          delivered      \* every item given to the callback, in order

vars == <<attached, waiting, ready, draining, efd, posted, owes, consumer, delivered>>

\* The n-th item of producer p.
Item == Producer \X (Nat \ {0})

\* In epoll_wait; called for a readable counter; at the top of drain()'s loop;
\* inside the callback with a batch.
ConsumerAt == {"epoll", "woken", "drain", "callback"}

\* The types of the variables; the counter never exceeds one, so no wake-up is
\* ever written twice (EventLoop.cpp's "no need to write the eventfd again").
TypeOK == /\ attached \in BOOLEAN
          /\ waiting \in Seq(Item)
          /\ ready \in Seq(Item)
          /\ draining \in BOOLEAN
          /\ efd \in {0, 1}
          /\ posted \in [Producer -> Nat]
          /\ owes \subseteq Producer
          /\ consumer \in ConsumerAt
          /\ delivered \in Seq(Item)

Init == /\ attached = FALSE
        /\ waiting = <<>> /\ ready = <<>> /\ delivered = <<>>
        /\ draining = FALSE
        /\ efd = 0
        /\ posted = [p \in Producer |-> 0]
        /\ owes = {}
        /\ consumer = "epoll"

-------------------------------------------------------------------------------
(* Setting up *)

\* Mailbox::attach: a fresh eventfd, counter 0, registered for EPOLLIN.
Attach == /\ ~attached
          /\ attached' = TRUE
          /\ UNCHANGED <<waiting, ready, draining, efd, posted, owes, consumer, delivered>>

-------------------------------------------------------------------------------
(* Producers *)

\* The items producer p posts next, n of them.
Batch(p, n) == [i \in 1..n |-> <<p, posted[p] + i>>]

\* Mutant of Push: every post wakes, as if mark_draining() returned TRUE always.
PushAlwaysWakes(p, n) ==
    /\ waiting' = waiting \o Batch(p, n)
    /\ draining' = TRUE
    /\ owes' = owes \cup {p}
    /\ posted' = [posted EXCEPT ![p] = @ + n]
    /\ UNCHANGED <<attached, ready, efd, consumer, delivered>>

\* BatchQueue::push / push_batch: append under the mutex, mark the drain as
\* under way, and owe a wake only if nobody had marked it before.
Push(p, n) == /\ waiting' = waiting \o Batch(p, n)
              /\ draining' = TRUE
              /\ owes' = IF draining THEN owes ELSE owes \cup {p}
              /\ posted' = [posted EXCEPT ![p] = @ + n]
              /\ UNCHANGED <<attached, ready, efd, consumer, delivered>>

CanPost(p, n) == /\ p \notin owes
                 /\ AttachFirst => attached
                 /\ posted[p] + n <= MaxPosted

Post(p) == CanPost(p, 1) /\ Push(p, 1)

\* An empty batch returns before taking the lock and changes nothing.
PostBatch(p) == \E n \in 2..MaxBatch : CanPost(p, n) /\ Push(p, n)

\* FdRegistration::wakeup, after the mutex is released: add one to the counter,
\* or nothing at all while no eventfd is attached.
Wakeup(p) == /\ p \in owes
             /\ owes' = owes \ {p}
             /\ efd' = IF attached THEN efd + 1 ELSE efd
             /\ UNCHANGED <<attached, waiting, ready, draining, posted, consumer, delivered>>

-------------------------------------------------------------------------------
(* The consuming loop *)

\* epoll_wait reports the eventfd readable (level triggered) and the loop calls
\* handle_wakeup.
Awake == /\ attached
         /\ consumer = "epoll"
         /\ efd > 0
         /\ consumer' = "woken"
         /\ UNCHANGED <<attached, waiting, ready, draining, efd, posted, owes, delivered>>

\* Mutant of ReadCounter: handle_wakeup without wake_.drain().
ReadCounterSkipped == /\ consumer = "woken"
                      /\ consumer' = "drain"
                      /\ UNCHANGED <<attached, waiting, ready, draining, efd, posted,
                                     owes, delivered>>

\* wake_.drain(): read the counter down to zero, before the queue is looked at.
ReadCounter == /\ consumer = "woken"
               /\ efd' = 0
               /\ consumer' = "drain"
               /\ UNCHANGED <<attached, waiting, ready, draining, posted, owes, delivered>>

\* drain(), the locked part with something waiting: swap the vectors.
Swap == /\ consumer = "drain"
        /\ waiting # <<>>
        /\ ready' = waiting
        /\ waiting' = ready
        /\ consumer' = "callback"
        /\ UNCHANGED <<attached, draining, efd, posted, owes, delivered>>

\* Mutant of FinishDrain: emptiness is looked at outside the mutex, so that
\* something may have been posted since.
FinishDrainUnlocked == /\ consumer = "drain"
                       /\ draining' = FALSE
                       /\ consumer' = "epoll"
                       /\ UNCHANGED <<attached, waiting, ready, efd, posted, owes, delivered>>

\* Mutant of FinishDrain: the drain leaves without clearing draining_.
FinishDrainKeepsFlag == /\ consumer = "drain"
                        /\ waiting = <<>>
                        /\ consumer' = "epoll"
                        /\ UNCHANGED <<attached, waiting, ready, draining, efd, posted,
                                       owes, delivered>>

\* drain(), the locked part with nothing waiting: leave, and say so.
FinishDrain == /\ consumer = "drain"
               /\ waiting = <<>>
               /\ draining' = FALSE
               /\ consumer' = "epoll"
               /\ UNCHANGED <<attached, waiting, ready, efd, posted, owes, delivered>>

\* Mutant of Deliver: ready_.clear() forgotten, so the next swap gives the old
\* batch back to the producers' vector.
DeliverKeepsReady == /\ consumer = "callback"
                     /\ delivered' = delivered \o ready
                     /\ consumer' = "drain"
                     /\ UNCHANGED <<attached, waiting, ready, draining, efd, posted, owes>>

\* callback_(ready_) and ready_.clear(), outside the mutex.  A callback that
\* posts to its own mailbox takes a Push step meanwhile, like any producer.
Deliver == /\ consumer = "callback"
           /\ delivered' = delivered \o ready
           /\ ready' = <<>>
           /\ consumer' = "drain"
           /\ UNCHANGED <<attached, waiting, draining, efd, posted, owes>>

-------------------------------------------------------------------------------
Consume == Awake \/ ReadCounter \/ Swap \/ FinishDrain \/ Deliver

Next == \/ Attach
        \/ \E p \in Producer : Post(p) \/ PostBatch(p) \/ Wakeup(p)
        \/ Consume

\* The consumer's thread keeps running and a thread that owes a wake writes it;
\* nobody is obliged to post or to attach.
Fairness == /\ WF_vars(Consume)
            /\ \A p \in Producer : WF_vars(Wakeup(p))

Safety == Init /\ [][Next]_vars

Spec == Safety /\ Fairness

-------------------------------------------------------------------------------
(* Properties *)

\* The consumer is somewhere between being called and leaving drain().
Draining == consumer # "epoll"

\* Exactly one party answers for a marked drain: a producer about to write the
\* eventfd, the unread counter, or the consumer inside handle_wakeup; and none
\* does when draining_ is FALSE.  A second party would be a redundant system
\* call, none would be a lost wake-up.
OneWakeToken == /\ draining <=> (owes # {} \/ efd > 0 \/ Draining)
                /\ \A p, q \in owes : p = q
                /\ owes # {} => efd = 0 /\ ~Draining
                /\ efd > 0 /\ Draining => consumer = "woken"

\* Whatever interleaving of posts, late eventfd writes and drains: an item in
\* the waiting vector always has somebody on the way to it.
NoLostWakeup == attached /\ waiting # <<>> => owes # {} \/ efd > 0 \/ Draining

\* What is in the mailbox: the batch the callback is running on, then the rest.
Chan == INSTANCE Channel WITH queue <- ready \o waiting, taken <- delivered

\* The swap and the two vectors are invisible to users: items arrive exactly
\* once, in the order the mutex was taken, and no batch is split or reordered.
ImplementsChannel == Chan!Safety

\* An item posted to a mailbox that is attached, before or after the post, is
\* eventually given to the callback, even if nobody ever posts again.
PostedIsDelivered ==
    \A p \in Producer : \A n \in 1..MaxPosted :
        (attached /\ posted[p] >= n)
            ~> (\E i \in 1..Len(delivered) : delivered[i] = <<p, n>>)
===============================================================================
