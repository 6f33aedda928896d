----------------------------- MODULE ThreadPool -----------------------------
(***************************************************************************)
(* core/ThreadPool: workers that pop a lock-free queue without a lock and  *)
(* use mutex_ and cv_ only to fall asleep, callers of post_batch, and one  *)
(* shutdown.  The queue is seen as LockFreeQueue offers it to one pusher   *)
(* at a time (post_batch pushes under mutex_): items of a batch are        *)
(* claimed together and become visible one by one, a pop fails while none  *)
(* is visible, and a push may fail while a popper has not freed its cell.  *)
(***************************************************************************)
EXTENDS Naturals, Sequences

CONSTANTS Worker,      \* workers_
          Poster,      \* threads that call post_batch
          Capacity,    \* kMaxTaskNum
          MaxBatch,    \* bound: longest batch offered
          MaxOffered,  \* bound: tasks offered in a run
          Nobody       \* mutex_ is free

ASSUME PoolAssumption == /\ Worker # {}
                         /\ Capacity \in Nat \ {0}
                         /\ MaxBatch \in Nat /\ MaxOffered \in Nat
                         /\ Worker \cap Poster = {}
                         /\ Nobody \notin Worker \cup Poster

VARIABLES mutex,       \* who holds mutex_
          stop,        \* stop_
          coming,      \* items of the batch being pushed that no pop can see yet
          queue,       \* items a pop can see, oldest first
          waiting,     \* workers in cv_.wait that were not notified
          pc,          \* where each worker and poster is
          hand,        \* a poster's batch; the task a worker popped
          closing,     \* where the call of shutdown is
          offered,     \* how many tasks post_batch was called with
          taken,       \* history: tasks popped, in order
          done         \* history: tasks that have run

tasks == <<coming, queue, taken>>
vars  == <<mutex, stop, tasks, waiting, pc, hand, closing, offered, done>>

Thread == Worker \cup Poster

WorkerAt == {"try", "free", "lock", "retry", "check", "sleep", "wait", "run", "gone"}
PosterAt == {"idle", "lock", "push", "publish", "notify"}

TypeOK == /\ mutex \in Thread \cup {Nobody}
          /\ stop \in BOOLEAN
          /\ coming \in Seq(Nat) /\ queue \in Seq(Nat) /\ taken \in Seq(Nat)
          /\ Len(queue) + Len(coming) <= Capacity
          /\ waiting \subseteq {w \in Worker : pc[w] = "wait"}
          /\ pc \in [Thread -> WorkerAt \cup PosterAt]
          /\ hand \in [Thread -> Seq(Nat)]
          /\ closing \in {"up", "notify", "join", "down"}
          /\ offered \in Nat
          /\ done \subseteq Nat

Init == /\ mutex = Nobody /\ stop = FALSE
        /\ coming = <<>> /\ queue = <<>> /\ taken = <<>>
        /\ waiting = {}
        /\ pc = [t \in Thread |-> IF t \in Worker THEN "try" ELSE "idle"]
        /\ hand = [t \in Thread |-> <<>>]
        /\ closing = "up" /\ offered = 0 /\ done = {}

Goto(t, where) == pc' = [pc EXCEPT ![t] = where]

Lock(t)   == mutex = Nobody /\ mutex' = t
Unlock(t) == mutex = t /\ mutex' = Nobody

-------------------------------------------------------------------------------
(* post_batch *)

\* A call with n new tasks, numbered in the order of the calls.
BeginPost(p) == /\ pc[p] = "idle"
                /\ \E n \in 1..MaxBatch :
                      /\ offered + n <= MaxOffered
                      /\ offered' = offered + n
                      /\ hand' = [hand EXCEPT ![p] = [i \in 1..n |-> offered + i]]
                /\ Goto(p, "lock")
                /\ UNCHANGED <<mutex, stop, tasks, waiting, closing, done>>

LockToPost(p) == /\ pc[p] = "lock"
                 /\ Lock(p)
                 /\ Goto(p, "push")
                 /\ UNCHANGED <<stop, tasks, waiting, hand, closing, offered, done>>

\* try_push_batch can fail: no room, or a popper still occupies a cell.
MayBeFull(p) == \/ Len(queue) + Len(hand[p]) > Capacity
                \/ \E w \in Worker : pc[w] = "free"

\* Mutant: only the first cell of a batch is looked at, not all of them.
PushFirstCellOnly(p) ==
    /\ pc[p] = "push"
    /\ \/ /\ ~stop /\ Len(queue) < Capacity
          /\ coming' = hand[p]
          /\ Goto(p, "publish")
          /\ UNCHANGED mutex
       \/ /\ stop \/ MayBeFull(p)
          /\ Unlock(p)
          /\ Goto(p, "idle")
          /\ UNCHANGED coming
    /\ hand' = [hand EXCEPT ![p] = <<>>]
    /\ UNCHANGED <<stop, queue, taken, waiting, closing, offered, done>>

\* After shutdown, or if the queue is full, the call throws and nothing is queued;
\* otherwise the whole batch takes its places.
Push(p) == /\ pc[p] = "push"
           /\ \/ /\ ~stop /\ Len(queue) + Len(hand[p]) <= Capacity
                 /\ coming' = hand[p]
                 /\ Goto(p, "publish")
                 /\ UNCHANGED mutex
              \/ /\ stop \/ MayBeFull(p)
                 /\ Unlock(p)
                 /\ Goto(p, "idle")
                 /\ UNCHANGED coming
           /\ hand' = [hand EXCEPT ![p] = <<>>]
           /\ UNCHANGED <<stop, queue, taken, waiting, closing, offered, done>>

\* The publishing loop: one more item can be popped.
Publish(p) == /\ pc[p] = "publish"
              /\ queue' = Append(queue, Head(coming))
              /\ coming' = Tail(coming)
              /\ Goto(p, IF Len(coming) = 1 THEN "notify" ELSE "publish")
              /\ UNCHANGED <<mutex, stop, taken, waiting, hand, closing, offered, done>>

\* Mutant: the batch is queued and nobody is told.
NotifyWorkNot(p) == /\ pc[p] = "notify"
                    /\ Unlock(p)
                    /\ Goto(p, "idle")
                    /\ UNCHANGED <<stop, tasks, waiting, hand, closing, offered, done>>

\* notify_all, then the lock goes out of scope.
NotifyWork(p) == /\ pc[p] = "notify"
                 /\ waiting' = {}
                 /\ Unlock(p)
                 /\ Goto(p, "idle")
                 /\ UNCHANGED <<stop, tasks, hand, closing, offered, done>>

-------------------------------------------------------------------------------
(* worker_loop *)

\* Mutant: the task is read before its position is claimed, and stays in the queue.
PopIntoUnclaimed(w) == /\ queue # <<>>
                       /\ hand' = [hand EXCEPT ![w] = <<Head(queue)>>]
                       /\ taken' = Append(taken, Head(queue))
                       /\ UNCHANGED <<queue, coming>>

PopInto(w) == /\ queue # <<>>
              /\ hand' = [hand EXCEPT ![w] = <<Head(queue)>>]
              /\ taken' = Append(taken, Head(queue))
              /\ queue' = Tail(queue)
              /\ UNCHANGED coming

\* The first try_pop, without the lock.
TryPop(w) == /\ pc[w] = "try"
             /\ \/ PopInto(w) /\ Goto(w, "free")
                \/ queue = <<>> /\ Goto(w, "lock") /\ UNCHANGED <<tasks, hand>>
             /\ UNCHANGED <<mutex, stop, waiting, closing, offered, done>>

\* try_pop gives the cell back and returns.
FreeCell(w) == /\ pc[w] = "free"
               /\ Goto(w, "run")
               /\ UNCHANGED <<mutex, stop, tasks, waiting, hand, closing, offered, done>>

LockToSleep(w) == /\ pc[w] = "lock"
                  /\ Lock(w)
                  /\ Goto(w, "retry")
                  /\ UNCHANGED <<stop, tasks, waiting, hand, closing, offered, done>>

\* Mutant: stop_ is looked at before the queue.
RetryPopAfterStop(w) ==
    /\ pc[w] = "retry"
    /\ \/ ~stop /\ PopInto(w) /\ Unlock(w) /\ Goto(w, "run")
       \/ /\ stop \/ queue = <<>>
          /\ Goto(w, "check")
          /\ UNCHANGED <<mutex, tasks, hand>>
    /\ UNCHANGED <<stop, waiting, closing, offered, done>>

\* The second try_pop, under the lock; a task found is run without it.
RetryPop(w) == /\ pc[w] = "retry"
               /\ \/ PopInto(w) /\ Unlock(w) /\ Goto(w, "run")
                  \/ /\ queue = <<>>
                     /\ Goto(w, "check")
                     /\ UNCHANGED <<mutex, tasks, hand>>
               /\ UNCHANGED <<stop, waiting, closing, offered, done>>

CheckStop(w) == /\ pc[w] = "check"
                /\ IF stop
                   THEN Unlock(w) /\ Goto(w, "gone")
                   ELSE Goto(w, "sleep") /\ UNCHANGED mutex
                /\ UNCHANGED <<stop, tasks, waiting, hand, closing, offered, done>>

\* cv_.wait gives the lock back and blocks, in one step.
Wait(w) == /\ pc[w] = "sleep"
           /\ waiting' = waiting \cup {w}
           /\ Unlock(w)
           /\ Goto(w, "wait")
           /\ UNCHANGED <<stop, tasks, hand, closing, offered, done>>

\* A condition variable may wake a thread for no reason.
SpuriousWakeup(w) == /\ w \in waiting
                     /\ waiting' = waiting \ {w}
                     /\ UNCHANGED <<mutex, stop, tasks, pc, hand, closing, offered, done>>

\* wait takes the lock again, and continue gives it back.
WakeUp(w) == /\ pc[w] = "wait" /\ w \notin waiting
             /\ mutex = Nobody
             /\ Goto(w, "try")
             /\ UNCHANGED <<mutex, stop, tasks, waiting, hand, closing, offered, done>>

\* task(), whose exceptions are caught.
RunTask(w) == /\ pc[w] = "run"
              /\ done' = done \cup {hand[w][1]}
              /\ hand' = [hand EXCEPT ![w] = <<>>]
              /\ Goto(w, "try")
              /\ UNCHANGED <<mutex, stop, tasks, waiting, closing, offered>>

-------------------------------------------------------------------------------
(* shutdown *)

\* Mutant: stop_ is set without the lock, its being atomic thought to be enough.
SetStopUnlocked == /\ closing = "up"
                   /\ stop' = TRUE
                   /\ closing' = "notify"
                   /\ UNCHANGED <<mutex, tasks, waiting, pc, hand, offered, done>>

SetStop == /\ closing = "up"
           /\ mutex = Nobody
           /\ stop' = TRUE
           /\ closing' = "notify"
           /\ UNCHANGED <<mutex, tasks, waiting, pc, hand, offered, done>>

\* Mutant: notify_one, which the comment of shutdown warns of.
NotifyStopOne == /\ closing = "notify"
                 /\ waiting' = waiting \ {CHOOSE w \in Worker : waiting = {} \/ w \in waiting}
                 /\ closing' = "join"
                 /\ UNCHANGED <<mutex, stop, tasks, pc, hand, offered, done>>

NotifyStop == /\ closing = "notify"
              /\ waiting' = {}
              /\ closing' = "join"
              /\ UNCHANGED <<mutex, stop, tasks, pc, hand, offered, done>>

Join == /\ closing = "join"
        /\ \A w \in Worker : pc[w] = "gone"
        /\ closing' = "down"
        /\ UNCHANGED <<mutex, stop, tasks, waiting, pc, hand, offered, done>>

-------------------------------------------------------------------------------
PostStep(p) == LockToPost(p) \/ Push(p) \/ Publish(p) \/ NotifyWork(p)

WorkStep(w) == \/ TryPop(w) \/ FreeCell(w) \/ LockToSleep(w) \/ RetryPop(w)
               \/ CheckStop(w) \/ Wait(w) \/ WakeUp(w) \/ RunTask(w)

ShutdownStep == NotifyStop \/ Join

Next == \/ \E p \in Poster : BeginPost(p) \/ PostStep(p)
        \/ \E w \in Worker : WorkStep(w) \/ SpuriousWakeup(w)
        \/ SetStop \/ ShutdownStep

Safety == Init /\ [][Next]_vars

\* Every thread is scheduled and every task ends.  Nobody has to call post_batch or
\* shutdown, and nothing is assumed of spurious wakeups.  Weak fairness is enough for
\* the lock because the calls of a run are finitely many.
Fairness == /\ \A p \in Poster : WF_vars(PostStep(p))
            /\ \A w \in Worker : WF_vars(WorkStep(w))
            /\ WF_vars(ShutdownStep)

Spec == Safety /\ Fairness

-------------------------------------------------------------------------------
(* Properties *)

\* No lost wakeup: while mutex_ is free no worker sleeps on a queued task, and once
\* shutdown has notified, none sleeps at all, whatever it had looked at before.
NobodyOversleeps == /\ mutex = Nobody /\ waiting # {} => queue = <<>> /\ coming = <<>>
                    /\ closing \in {"join", "down"} => waiting = {}

\* When shutdown returns, every task post_batch accepted has run to its end and none
\* can run or be accepted any more: what lets ReactorFactory destroy the objects
\* that tasks refer to.
DrainedAtShutdown ==
    closing = "down" => /\ queue = <<>> /\ coming = <<>>
                        /\ \A i \in 1..Len(taken) : taken[i] \in done

\* The pool hands tasks to its workers as a channel does: whole batches in, each task
\* out exactly once, oldest first.
Chan == INSTANCE Channel WITH Item <- Nat, queue <- queue \o coming
ImplementsChannel == Chan!Safety

\* An accepted task is run, also when shutdown comes in between.
Accepted(task) == \E i \in 1..Len(queue \o coming) : (queue \o coming)[i] = task
AcceptedRuns == \A task \in 1..MaxOffered : Accepted(task) ~> task \in done

\* shutdown returns: every worker gets to see stop_.
ShutdownReturns == stop ~> closing = "down"
===============================================================================
