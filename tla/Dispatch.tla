------------------------------- MODULE Dispatch -------------------------------
(***************************************************************************)
(* The single-flight gate.  io threads post what the sessions' clients     *)
(* say, one batch per read and its texts before its binaries, and one      *)
(* CLOSED when a connection ends, to the control thread's uplink mailbox   *)
(* (module Mailbox: a FIFO).  CtrlDispatcher keeps a lane per session: at  *)
(* most one event of a session is in the thread pool, the rest wait in the *)
(* lane.  A worker runs the event against the chat room and posts the      *)
(* result back; the control thread then advances the lane and sends the    *)
(* frames to the io threads.                                               *)
(*                                                                         *)
(* The pool's queue and the result mailbox are sets here: several workers  *)
(* take from the one and fill the other, so the order of two entries of    *)
(* different sessions carries no promise.  Of the ring below the pool      *)
(* (module LockFreeQueue) is kept what the gate can notice: when a push is *)
(* refused.  A mailbox callback gets whatever                              *)
(* had been posted when its batch was swapped out; here a round of the     *)
(* control thread takes its entries one by one and ends after any of them, *)
(* which covers every way the batches can be cut.                          *)
(***************************************************************************)
EXTENDS Naturals, Sequences, FiniteSets

CONSTANTS Session,        \* client sessions, each with a connection of its own
          Worker,         \* pool threads
          MaxSent,        \* bound: messages each client sends
          Sends,          \* bound: the kinds of messages each client sends
          PoolCapacity,   \* ThreadPool::kMaxTaskNum
          None            \* what an idle worker is running

\* JOIN stands for the texts that change what the room holds, MSG for those that only
\* read it (chat, signalling), CHUNK for the binaries.
MsgKind == {"JOIN", "MSG", "CHUNK"}

ASSUME ConstantsAssumption == /\ MaxSent \in [Session -> Nat]
                              /\ Sends \in [Session -> SUBSET MsgKind]
                              /\ PoolCapacity \in Nat
                              /\ None \notin Session

VARIABLES io,          \* what the session's io thread has done to the connection
          alive,       \* Session::alive_
          sent,        \* messages posted for the session so far
          posted,      \* history: which message of the client each of them was
          uplink,      \* the uplink mailbox, oldest first
          ctrl,        \* which mailbox callback the control thread is in
          batch,       \* ctrl: events to submit to the pool when this round ends
          outgoing,    \* ctrl: frames to dispatch when this round ends
          lanes,       \* CtrlDispatcher::lanes_
          tasks,       \* events in the pool's queue
          worker,      \* what each pool thread is doing
          cell,        \* how far behind enqueue_pos_ the cell is that a worker is taking
                       \* its task from; 0 if it is at none
          results,     \* the result mailbox
          members,     \* sessions that are members of the room
          ran,         \* the last of the session's messages a worker acted on
          cleanups,    \* how many times the session's cleanup has run
          refused,     \* history: places of the session's events lost with a refused batch
          seen         \* seen[t][s]: the last frame of s posted to t's io thread

ioVars   == <<io, alive, sent, posted>>
ctrlVars == <<ctrl, batch, outgoing, lanes, refused>>
poolVars == <<tasks, worker, cell, results, members, ran, cleanups>>
vars     == <<ioVars, uplink, ctrlVars, poolVars, seen>>

\* CtrlUp: an event of a session, n its place in what was posted for it; CLOSED is
\* numbered after everything.
Up == [sess : Session, kind : MsgKind \cup {"CLOSED"}, n : Nat]

\* CtrlDown: what the n-th event of a session made the room say to a member.
Frame == [to : Session, from : Session, n : Nat]

\* CtrlResult: the session that finished an event, and the frames it made.
Result == [sess : Session, frames : SUBSET Frame]

Lane == [pending : Seq(Up), closing : BOOLEAN]

\* A lane in which nothing waits; closing says whether a cleanup is owed.
EmptyLane(closing) == [pending |-> <<>>, closing |-> closing]

\* A message as its client sent it: text or binary, and its place on the socket.
Message == [binary : BOOLEAN, at : Nat]

\* No task; a task popped; alive_ found TRUE, or a cleanup; frames made and not posted.
Step == {"idle", "popped", "admitted", "made"}

TypeOK == /\ io \in [Session -> {"open", "closing", "closed"}]
          /\ alive \in [Session -> BOOLEAN]
          /\ sent \in [Session -> Nat]
          /\ posted \in [Session -> Seq(Message)]
          /\ uplink \in Seq(Up)
          /\ ctrl \in {"idle", "uplink", "result"}
          /\ batch \subseteq Up /\ tasks \subseteq Up
          /\ results \subseteq Result
          /\ outgoing \subseteq Frame
          /\ DOMAIN lanes \subseteq Session
          /\ lanes \in [DOMAIN lanes -> Lane]
          /\ worker \in [Worker -> [step : Step, up : Up \cup {None}, frames : SUBSET Frame]]
          /\ cell \in [Worker -> Nat]
          /\ refused \in [Session -> SUBSET Nat]
          /\ members \subseteq Session
          /\ ran \in [Session -> Nat]
          /\ cleanups \in [Session -> Nat]
          /\ seen \in [Session -> [Session -> Nat]]

Idle == [step |-> "idle", up |-> None, frames |-> {}]

Init == /\ io = [s \in Session |-> "open"]
        /\ alive = [s \in Session |-> TRUE]
        /\ sent = [s \in Session |-> 0]
        /\ posted = [s \in Session |-> <<>>]
        /\ refused = [s \in Session |-> {}]
        /\ cell = [w \in Worker |-> 0]
        /\ uplink = <<>>
        /\ ctrl = "idle"
        /\ batch = {} /\ outgoing = {}
        /\ lanes = <<>>
        /\ tasks = {} /\ results = {}
        /\ worker = [w \in Worker |-> Idle]
        /\ members = {}
        /\ ran = [s \in Session |-> 0]
        /\ cleanups = [s \in Session |-> 0]
        /\ seen = [t \in Session |-> [s \in Session |-> 0]]

Closed(s) == [sess |-> s, kind |-> "CLOSED", n |-> MaxSent[s] + 1]

-------------------------------------------------------------------------------
(* The io threads *)

Binary(kind) == kind = "CHUNK"

\* Mutant of Sooner: of the two loops the one over binaries_ comes first.
SoonerBinariesFirst(read, a, b) == IF Binary(read[a]) = Binary(read[b])
                                   THEN a < b
                                   ELSE Binary(read[a])

\* WsAction keeps texts and binaries apart, and uplink_ws copies the texts first: which
\* of two messages of a read is posted sooner.
Sooner(read, a, b) == IF Binary(read[a]) = Binary(read[b])
                      THEN a < b
                      ELSE Binary(read[b])

\* order[i] is the place, in the read, of the message uplink_ws posts as its i-th.
PostOrders(read) ==
    {order \in [DOMAIN read -> DOMAIN read] :
        \A i, j \in DOMAIN read : i < j => Sooner(read, order[i], order[j])}

\* ConnHandler::uplink_ws: the messages of one read are posted in one batch.  handle_ws
\* posts what it parsed even if answering a frame of the same read has just closed
\* the connection, so messages may follow CLOSED.
UplinkRead(s, read, order) ==
    /\ io[s] # "closing"
    /\ sent[s] + Len(read) <= MaxSent[s]
    /\ sent' = [sent EXCEPT ![s] = @ + Len(read)]
    /\ uplink' = uplink \o [i \in 1..Len(read) |->
                               [sess |-> s, kind |-> read[order[i]], n |-> sent[s] + i]]
    /\ posted' = [posted EXCEPT ![s] = @ \o [i \in 1..Len(read) |->
                      [binary |-> Binary(read[order[i]]), at |-> sent[s] + order[i]]]]
    /\ UNCHANGED <<io, alive, ctrlVars, poolVars, seen>>

\* ConnHandler::close_connection, first half: alive_ becomes FALSE.
BeginClose(s) == /\ io[s] = "open"
                 /\ alive' = [alive EXCEPT ![s] = FALSE]
                 /\ io' = [io EXCEPT ![s] = "closing"]
                 /\ UNCHANGED <<sent, posted, uplink, ctrlVars, poolVars, seen>>

\* ConnHandler::close_connection, second half: CLOSED is posted, this once.
UplinkClosed(s) == /\ io[s] = "closing"
                   /\ uplink' = Append(uplink, Closed(s))
                   /\ io' = [io EXCEPT ![s] = "closed"]
                   /\ UNCHANGED <<alive, sent, posted, ctrlVars, poolVars, seen>>

-------------------------------------------------------------------------------
(* The control thread *)

\* lanes_ with one lane put in, or taken out.
WithLane(s, lane) == [t \in DOMAIN lanes \cup {s} |-> IF t = s THEN lane ELSE lanes[t]]
WithoutLanes(S) == [t \in DOMAIN lanes \ S |-> lanes[t]]

\* enqueue_up: a session with a lane queues in it; a new lane starts at once.
EnqueueUp(up) ==
    IF up.sess \in DOMAIN lanes
    THEN /\ lanes' = [lanes EXCEPT ![up.sess].pending = Append(@, up)]
         /\ batch' = batch
    ELSE /\ lanes' = WithLane(up.sess, EmptyLane(FALSE))
         /\ batch' = batch \cup {up}

\* Mutant of HandleClose: the new lane is not given its session.
HandleCloseNoSession(s) ==
    IF s \in DOMAIN lanes
    THEN /\ lanes' = [lanes EXCEPT ![s] = EmptyLane(TRUE)]
         /\ batch' = batch
    ELSE /\ lanes' = WithLane(s, EmptyLane(FALSE))
         /\ batch' = batch \cup {[Closed(s) EXCEPT !.sess = None]}

\* Mutant of HandleClose: the cleanup starts at once, whatever is in flight.
HandleCloseAtOnce(s) ==
    /\ lanes' = IF s \in DOMAIN lanes
                THEN [lanes EXCEPT ![s].pending = <<>>]
                ELSE WithLane(s, EmptyLane(FALSE))
    /\ batch' = batch \cup {Closed(s)}

\* Mutant of HandleClose: a busy lane is emptied and the cleanup is not owed.
HandleCloseForgotten(s) ==
    IF s \in DOMAIN lanes
    THEN /\ lanes' = [lanes EXCEPT ![s].pending = <<>>]
         /\ batch' = batch
    ELSE /\ lanes' = WithLane(s, EmptyLane(FALSE))
         /\ batch' = batch \cup {Closed(s)}

\* handle_close: what waits in the lane is of no use to a dead connection.  With
\* something in flight the cleanup is owed, otherwise it starts at once.
HandleClose(s) ==
    IF s \in DOMAIN lanes
    THEN /\ lanes' = [lanes EXCEPT ![s] = EmptyLane(TRUE)]
         /\ batch' = batch
    ELSE /\ lanes' = WithLane(s, EmptyLane(FALSE))
         /\ batch' = batch \cup {Closed(s)}

\* handle_uplink, one turn of its loop.
SortUplink == /\ ctrl \in {"idle", "uplink"}
              /\ uplink # <<>>
              /\ ctrl' = "uplink"
              /\ uplink' = Tail(uplink)
              /\ IF Head(uplink).kind = "CLOSED"
                 THEN HandleClose(Head(uplink).sess)
                 ELSE EnqueueUp(Head(uplink))
              /\ UNCHANGED <<ioVars, outgoing, refused, poolVars, seen>>

\* Mutant of AdvanceLane: the lane goes though events wait in it.
AdvanceLaneDrops(s) ==
    \/ /\ lanes[s].closing
       /\ lanes' = [lanes EXCEPT ![s].closing = FALSE]
       /\ batch' = batch \cup {Closed(s)}
    \/ /\ ~lanes[s].closing
       /\ lanes' = WithoutLanes({s})
       /\ batch' = batch

\* advance_lane: an owed cleanup first, then what waits, else the lane goes.
AdvanceLane(s) ==
    \/ /\ lanes[s].closing
       /\ lanes' = [lanes EXCEPT ![s].closing = FALSE]
       /\ batch' = batch \cup {Closed(s)}
    \/ /\ ~lanes[s].closing
       /\ lanes[s].pending # <<>>
       /\ lanes' = [lanes EXCEPT ![s].pending = Tail(@)]
       /\ batch' = batch \cup {Head(lanes[s].pending)}
    \/ /\ ~lanes[s].closing
       /\ lanes[s].pending = <<>>
       /\ lanes' = WithoutLanes({s})
       /\ batch' = batch

\* handle_result, one turn of its loop.
SortResult == /\ ctrl \in {"idle", "result"}
              /\ ctrl' = "result"
              /\ \E r \in results : /\ results' = results \ {r}
                                    /\ outgoing' = outgoing \cup r.frames
                                    /\ AdvanceLane(r.sess)
              /\ UNCHANGED <<ioVars, uplink, refused, tasks, worker, cell, members, ran,
                             cleanups, seen>>

\* dispatch: frames for a session that is alive go to its io thread's mailbox.
\* What is kept of it is the place, in s's stream, of the one t was sent last (a
\* round holds at most one result of a session).
Dispatch ==
    seen' = [t \in Session |-> [s \in Session |->
                LET mine == {f.n : f \in {g \in outgoing : g.to = t /\ g.from = s}}
                IN  IF alive[t] /\ mine # {}
                    THEN CHOOSE n \in mine : TRUE
                    ELSE seen[t][s]]]

\* ThreadPool::post_batch takes all of the batch or none of it.  try_push_batch looks at
\* every cell it needs: none may hold a task of the last lap, nor be one that a popper
\* has claimed in the last lap and not given back.
Fits == /\ Cardinality(tasks) + Cardinality(batch) <= PoolCapacity
        /\ \A w \in Worker : cell[w] > 0 => cell[w] + Cardinality(batch) <= PoolCapacity

\* The places of a session's events that go with its lane and its place in the batch.
LostWith(s) == {up.n : up \in {u \in batch : u.sess = s}}
          \cup {lanes[s].pending[i].n : i \in 1..Len(lanes[s].pending)}
          \cup {n \in {Closed(s).n} : lanes[s].closing}

\* AppHandler::handle and submit_ups: the batch goes to the pool in one piece; if
\* it is refused, the lanes of its sessions are dropped with all they hold.
Submit == \/ /\ Fits
             /\ tasks' = tasks \cup batch
             /\ cell' = [w \in Worker |-> IF cell[w] = 0 THEN 0
                                          ELSE cell[w] + Cardinality(batch)]
             /\ UNCHANGED <<lanes, refused>>
          \/ /\ ~Fits
             /\ LET dropped == {up.sess : up \in batch}
                IN  /\ lanes' = WithoutLanes(dropped)
                    /\ refused' = [s \in Session |-> IF s \in dropped
                                                      THEN refused[s] \cup LostWith(s)
                                                      ELSE refused[s]]
             /\ UNCHANGED <<tasks, cell>>

\* The end of handle_uplink, and of handle_result.
EndRound == /\ ctrl # "idle"
            /\ Dispatch
            /\ Submit
            /\ ctrl' = "idle"
            /\ batch' = {}
            /\ outgoing' = {}
            /\ UNCHANGED <<ioVars, uplink, worker, results, members, ran, cleanups>>

-------------------------------------------------------------------------------
(* The pool's workers *)

\* Mutant of Admits: route and route_chunk do not look at alive_.
AdmitsAll(up) == TRUE

\* AppHandler::route / route_chunk: a message of a session that io has closed is
\* dropped with no frames; a cleanup is run whatever alive_ says.
Admits(up) == up.kind = "CLOSED" \/ alive[up.sess]

\* worker_loop pops a task, whichever thread gets to it: first try_pop claims its cell.
Pop(w) == /\ worker[w].step = "idle"
          /\ \E up \in tasks :
                /\ tasks' = tasks \ {up}
                /\ worker' = [worker EXCEPT ![w] =
                                 [step |-> "popped", up |-> up, frames |-> {}]]
          /\ cell' = [cell EXCEPT ![w] = Cardinality(tasks)]
          /\ UNCHANGED <<ioVars, uplink, ctrlVars, results, members, ran, cleanups, seen>>

\* try_pop has moved the task out and gives the cell back.
FreeCell(w) == /\ cell[w] > 0
               /\ cell' = [cell EXCEPT ![w] = 0]
               /\ UNCHANGED <<ioVars, uplink, ctrlVars, tasks, worker, results, members, ran,
                              cleanups, seen>>

\* The task begins: handle_up looks at the session.
Admit(w) ==
    /\ worker[w].step = "popped" /\ cell[w] = 0
    /\ worker' = [worker EXCEPT ![w].step = IF Admits(worker[w].up) THEN "admitted" ELSE "made"]
    /\ UNCHANGED <<ioVars, uplink, ctrlVars, tasks, cell, results, members, ran, cleanups, seen>>

\* One frame about up to every session of the set.
Tell(set, up) == {[to |-> t, from |-> up.sess, n |-> up.n] : t \in set}

\* Who hears of an event: of a first JOIN everyone, of the
\* other messages the other members, of a cleanup those who remain; nobody hears of a session that is not in the room.
Told(up) ==
    LET s == up.sess
    IN  CASE up.kind = "JOIN"   -> IF s \in members THEN {} ELSE members \cup {s}
          [] up.kind # "JOIN"   -> IF s \in members THEN members \ {s} ELSE {}

\* AppRouter::handle, handle_chunk and cleanup: JOIN makes a member, the cleanup
\* ends the membership.  alive_ may have become FALSE since Admit.
Act(w) ==
    LET up == worker[w].up
        s  == up.sess
    IN  /\ worker[w].step = "admitted"
        /\ members' = CASE up.kind = "JOIN"   -> members \cup {s}
                        [] up.kind \in {"MSG", "CHUNK"} -> members
                        [] up.kind = "CLOSED" -> members \ {s}
        /\ worker' = [worker EXCEPT ![w] = [@ EXCEPT !.step = "made",
                                                    !.frames = Tell(Told(up), up)]]
        /\ IF up.kind = "CLOSED"
           THEN cleanups' = [cleanups EXCEPT ![s] = @ + 1] /\ ran' = ran
           ELSE ran' = [ran EXCEPT ![s] = up.n] /\ cleanups' = cleanups
        /\ UNCHANGED <<ioVars, uplink, ctrlVars, tasks, cell, results, seen>>

\* handle_up ends by posting the result, frames or none, to the control thread.
PostResult(w) ==
    /\ worker[w].step = "made"
    /\ results' = results \cup {[sess |-> worker[w].up.sess, frames |-> worker[w].frames]}
    /\ worker' = [worker EXCEPT ![w] = Idle]
    /\ UNCHANGED <<ioVars, uplink, ctrlVars, tasks, cell, members, ran, cleanups, seen>>

-------------------------------------------------------------------------------
Read(s) == \E k \in 1..MaxSent[s] : \E read \in [1..k -> Sends[s]] :
               \E order \in PostOrders(read) : UplinkRead(s, read, order)

IoThread(s) == \/ Read(s)
               \/ BeginClose(s)
               \/ UplinkClosed(s)

CtrlThread == SortUplink \/ SortResult \/ EndRound

PoolThread(w) == Pop(w) \/ FreeCell(w) \/ Admit(w) \/ Act(w) \/ PostResult(w)

Next == \/ \E s \in Session : IoThread(s)
        \/ CtrlThread
        \/ \E w \in Worker : PoolThread(w)

\* The threads keep running and close_connection is not left half way; nobody is
\* obliged to send or to close.
Fairness == /\ \A s \in Session : WF_vars(UplinkClosed(s))
            /\ WF_vars(CtrlThread)
            /\ \A w \in Worker : WF_vars(PoolThread(w))

Safety == Init /\ [][Next]_vars

Spec == Safety /\ Fairness

-------------------------------------------------------------------------------
(* Properties *)

\* Every place an event that has left its lane may be in before the lane is
\* advanced: this round's batch, the pool's queue, a worker, the result mailbox.
Flights == {[at |-> "batch", what |-> up, sess |-> up.sess] : up \in batch}
      \cup {[at |-> "tasks", what |-> up, sess |-> up.sess] : up \in tasks}
      \cup {[at |-> w, what |-> worker[w].up, sess |-> worker[w].up.sess] :
                w \in {v \in Worker : worker[v].step # "idle"}}
      \cup {[at |-> "results", what |-> r, sess |-> r.sess] : r \in results}

\* The gate's contract: at most one event of a session is in flight anywhere, and
\* a session has a lane exactly while it has one.  It is what lets Session::room_
\* and the transfer code be free of locks between a session's own messages.
SingleFlight == /\ \A f, g \in Flights : f.sess = g.sess => f = g
                /\ DOMAIN lanes = {f.sess : f \in Flights}

\* Although a worker reads alive_ and acts on it later, and although messages may
\* be posted after CLOSED: once a session has been cleaned up it is not in the
\* room and never enters it again, and no second cleanup runs.
CleanedForGood == [][\A s \in Session : cleanups[s] > 0 =>
                         s \notin members' /\ cleanups'[s] = cleanups[s]]_vars

\* A session's messages are acted on in the order they were posted, though different
\* threads run them; one is passed over only if the pool refused it or the connection
\* has ended.
RunsInOrder(s) ==
    ran'[s] # ran[s] => /\ ran'[s] > ran[s]
                        /\ alive[s] => \A n \in (ran[s] + 1)..(ran'[s] - 1) : n \in refused[s]

\* The message acted on now is not one the client sent before a message acted on
\* earlier, unless that was a text and this is a binary.
RunsAsSent(s) ==
    ran'[s] # ran[s] => \A n \in 1..ran[s] : LET then == posted[s][n]
                                                 now  == posted[s][ran'[s]]
                                            IN  then.at < now.at \/ (~then.binary /\ now.binary)

\* What a member is told about a session comes in the order that session caused
\* it, and its leaving last.
FramesInOrder(s) == \A t \in Session : seen'[t][s] >= seen[t][s]

\* From a client's socket through the gate, the pool and the results to the members' io
\* threads: texts keep their order among themselves, binaries theirs, no text falls
\* behind a binary sent after it, and what a member hears follows what was acted on.
KeepsOrder == [][\A s \in Session : RunsInOrder(s) /\ RunsAsSent(s) /\ FramesInOrder(s)]_vars

\* Every connection that ends is cleaned up: nobody is left in the room after its
\* CLOSED, whatever was in flight or waiting when it came.
ClosedIsCleaned == \A s \in Session : (io[s] = "closed") ~> (cleanups[s] > 0)

\* So it is unless the pool refuses a batch while the cleanup is in it or owed.  Clients
\* close once and send so many messages, so what each leads to is what lasts in the end.
ClosedSettles ==
    <>[](\A s \in Session : io[s] = "closed" => cleanups[s] > 0 \/ Closed(s).n \in refused[s])

\* A message of a connection that stays open is eventually acted on, unless the pool
\* refuses a batch while the message is in it or waits in the lane.
SentSettles ==
    <>[](\A s \in Session : \A n \in 1..sent[s] : ran[s] >= n \/ n \in refused[s] \/ ~alive[s])
===============================================================================
