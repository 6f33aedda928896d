---------------------------- MODULE DispatchProofs ----------------------------
(***************************************************************************)
(* Proofs about module Dispatch, for any number of sessions, workers and   *)
(* messages, and for any capacity of the pool, so for refused submissions  *)
(* too: the control thread's gate lets at most one event of a session be   *)
(* in flight, a cleanup is final, and the order of a session's messages    *)
(* is kept, with no gap but what the pool refused.                         *)
(***************************************************************************)
EXTENDS Dispatch, SequenceTheorems, FiniteSetTheorems, TLAPS

\* Every event waits in the lane of its own session.
PendingIsOwn == \A s \in DOMAIN lanes : \A i \in 1..Len(lanes[s].pending) :
                    lanes[s].pending[i].sess = s

LEMMA ClosedType == \A s \in Session : Closed(s) \in Up /\ Closed(s).sess = s
BY ConstantsAssumption DEF Closed, Up, MsgKind

\* Putting a lane into the table and taking lanes out of it.
LEMMA WithLaneType ==
    ASSUME TypeOK, PendingIsOwn, NEW s \in Session, NEW lane \in Lane,
           \A i \in 1..Len(lane.pending) : lane.pending[i].sess = s,
           lanes' = WithLane(s, lane)
    PROVE  /\ DOMAIN lanes' = DOMAIN lanes \cup {s}
           /\ (DOMAIN lanes \subseteq Session)'
           /\ (lanes \in [DOMAIN lanes -> Lane])'
           /\ PendingIsOwn'
BY DEF TypeOK, WithLane, PendingIsOwn

LEMMA WithoutLanesType ==
    ASSUME TypeOK, PendingIsOwn, NEW S, lanes' = WithoutLanes(S)
    PROVE  /\ DOMAIN lanes' = DOMAIN lanes \ S
           /\ (DOMAIN lanes \subseteq Session)'
           /\ (lanes \in [DOMAIN lanes -> Lane])'
           /\ PendingIsOwn'
BY DEF TypeOK, WithoutLanes, PendingIsOwn

\* Changing the lane of a session that has one.
LEMMA ChangedLaneType ==
    ASSUME TypeOK, PendingIsOwn, NEW s \in DOMAIN lanes, NEW lane \in Lane,
           \A i \in 1..Len(lane.pending) : lane.pending[i].sess = s,
           lanes' = [lanes EXCEPT ![s] = lane]
    PROVE  /\ DOMAIN lanes' = DOMAIN lanes
           /\ (DOMAIN lanes \subseteq Session)'
           /\ (lanes \in [DOMAIN lanes -> Lane])'
           /\ PendingIsOwn'
BY DEF TypeOK, PendingIsOwn

LEMMA EmptyLaneType ==
    \A b \in BOOLEAN : /\ EmptyLane(b) \in Lane
                        /\ \A s : \A i \in 1..Len(EmptyLane(b).pending) :
                               EmptyLane(b).pending[i].sess = s
<1>1. <<>> \in Seq(Up) /\ Len(<<>>) = 0
  BY EmptySeq
<1> QED BY <1>1 DEF EmptyLane, Lane

-------------------------------------------------------------------------------
(* Types *)

\* What the gate's three entry points do to the lanes and to the batch: types are
\* kept, and the batch gains at most an event of the session concerned.
LanesAndBatch == /\ DOMAIN lanes \subseteq Session
                 /\ lanes \in [DOMAIN lanes -> Lane]
                 /\ PendingIsOwn
                 /\ batch \subseteq Up

LEMMA EnqueueUpEffect ==
    ASSUME TypeOK, PendingIsOwn, NEW up \in Up, EnqueueUp(up)
    PROVE  /\ LanesAndBatch'
           /\ \/ up.sess \in DOMAIN lanes /\ DOMAIN lanes' = DOMAIN lanes /\ batch' = batch
              \/ /\ up.sess \notin DOMAIN lanes
                 /\ DOMAIN lanes' = DOMAIN lanes \cup {up.sess}
                 /\ batch' = batch \cup {up}
<1>1. up.sess \in Session
  BY DEF Up
<1>2. CASE up.sess \in DOMAIN lanes
  <2> DEFINE old == lanes[up.sess]
             new == [old EXCEPT !.pending = Append(@, up)]
  <2>1. old \in Lane /\ old.pending \in Seq(Up)
    BY <1>2 DEF TypeOK, Lane
  <2>2. new \in Lane
    BY <2>1, AppendProperties DEF Lane
  <2>3. \A i \in 1..Len(new.pending) : new.pending[i].sess = up.sess
    <3>1. new.pending = Append(old.pending, up)
      BY <2>1 DEF Lane
    <3>2. \A i \in 1..Len(old.pending) : old.pending[i].sess = up.sess
      BY <1>2 DEF PendingIsOwn
    <3> QED BY <2>1, <3>1, <3>2, AppendProperties, LenProperties
  <2>4. lanes' = [lanes EXCEPT ![up.sess] = new] /\ batch' = batch
    BY <1>2, <2>1 DEF EnqueueUp, TypeOK, Lane
  <2> HIDE DEF new, old
  <2> QED BY <1>2, <2>2, <2>3, <2>4, ChangedLaneType DEF LanesAndBatch, TypeOK
<1>3. CASE up.sess \notin DOMAIN lanes
  <2>1. lanes' = WithLane(up.sess, EmptyLane(FALSE)) /\ batch' = batch \cup {up}
    BY <1>3 DEF EnqueueUp
  <2> QED BY <1>1, <1>3, <2>1, EmptyLaneType, WithLaneType DEF LanesAndBatch, TypeOK
<1> QED BY <1>2, <1>3

LEMMA HandleCloseEffect ==
    ASSUME TypeOK, PendingIsOwn, NEW s \in Session, HandleClose(s)
    PROVE  /\ LanesAndBatch'
           /\ \/ s \in DOMAIN lanes /\ DOMAIN lanes' = DOMAIN lanes /\ batch' = batch
              \/ /\ s \notin DOMAIN lanes
                 /\ DOMAIN lanes' = DOMAIN lanes \cup {s}
                 /\ batch' = batch \cup {Closed(s)}
<1>1. CASE s \in DOMAIN lanes
  <2>1. lanes' = [lanes EXCEPT ![s] = EmptyLane(TRUE)] /\ batch' = batch
    BY <1>1 DEF HandleClose
  <2> QED BY <1>1, <2>1, EmptyLaneType, ChangedLaneType DEF LanesAndBatch, TypeOK
<1>2. CASE s \notin DOMAIN lanes
  <2>1. lanes' = WithLane(s, EmptyLane(FALSE)) /\ batch' = batch \cup {Closed(s)}
    BY <1>2 DEF HandleClose
  <2> QED BY <1>2, <2>1, EmptyLaneType, WithLaneType, ClosedType DEF LanesAndBatch, TypeOK
<1> QED BY <1>1, <1>2

LEMMA AdvanceLaneEffect ==
    ASSUME TypeOK, PendingIsOwn, NEW s \in DOMAIN lanes, AdvanceLane(s)
    PROVE  /\ LanesAndBatch'
           /\ \/ DOMAIN lanes' = DOMAIN lanes \ {s} /\ batch' = batch
              \/ /\ DOMAIN lanes' = DOMAIN lanes
                 /\ \E up \in Up : up.sess = s /\ batch' = batch \cup {up}
<1> DEFINE old == lanes[s]
<1>1. old \in Lane /\ old.pending \in Seq(Up) /\ old.closing \in BOOLEAN /\ s \in Session
  BY DEF TypeOK, Lane
<1>2. \A i \in 1..Len(old.pending) : old.pending[i].sess = s
  BY DEF PendingIsOwn
<1>3. CASE old.closing
  <2> DEFINE new == [old EXCEPT !.closing = FALSE]
  <2>1. new \in Lane /\ new.pending = old.pending
    BY <1>1 DEF Lane
  <2>2. lanes' = [lanes EXCEPT ![s] = new] /\ batch' = batch \cup {Closed(s)}
    BY <1>1, <1>3 DEF AdvanceLane, TypeOK, Lane
  <2> HIDE DEF new, old
  <2> QED BY <1>1, <1>2, <2>1, <2>2, ChangedLaneType, ClosedType DEF LanesAndBatch, TypeOK
<1>4. CASE ~old.closing /\ old.pending # <<>>
  <2> DEFINE new == [old EXCEPT !.pending = Tail(@)]
             first == Head(old.pending)
  <2>1. new.pending = Tail(old.pending) /\ new.closing = old.closing
    BY <1>1 DEF Lane
  <2>2. /\ Tail(old.pending) \in Seq(Up)
        /\ Len(Tail(old.pending)) = Len(old.pending) - 1
        /\ \A i \in 1..Len(Tail(old.pending)) : Tail(old.pending)[i] = old.pending[i + 1]
        /\ first \in Up
    BY <1>1, <1>4, HeadTailProperties
  <2>3. new \in Lane
    BY <1>1, <2>2 DEF Lane
  <2>4. \A i \in 1..Len(new.pending) : new.pending[i].sess = s
    <3>1. Len(old.pending) \in Nat
      BY <1>1, LenProperties
    <3> HIDE DEF old, new, first
    <3>2. \A i \in 1..Len(Tail(old.pending)) : Tail(old.pending)[i].sess = s
      BY <1>2, <2>2, <3>1
    <3> QED BY <2>1, <3>2
  <2>5. first.sess = s
    <3>1. first = old.pending[1] /\ 1 \in 1..Len(old.pending)
      BY <1>1, <1>4, EmptySeq, LenProperties
    <3> QED BY <1>2, <3>1
  <2>6. lanes' = [lanes EXCEPT ![s] = new] /\ batch' = batch \cup {first}
    BY <1>1, <1>4 DEF AdvanceLane, TypeOK, Lane
  <2> HIDE DEF new, old, first
  <2> QED BY <1>1, <2>2, <2>3, <2>4, <2>5, <2>6, ChangedLaneType DEF LanesAndBatch, TypeOK
<1>5. CASE ~old.closing /\ old.pending = <<>>
  BY <1>5, WithoutLanesType DEF AdvanceLane, LanesAndBatch, TypeOK
<1> QED BY <1>1, <1>3, <1>4, <1>5

-------------------------------------------------------------------------------
(* The inductive invariant *)

Busy == {w \in Worker : worker[w].step # "idle"}

\* A worker that is not idle runs an event.
BusyRuns == \A w \in Busy : worker[w].up \in Up

\* No two entries of a set belong to one session.
OnePerSession(S) == \A a, b \in S : a.sess = b.sess => a = b

SessionsOf(S) == {a.sess : a \in S}

OnWorkers == {worker[w].up.sess : w \in Busy}

\* No two workers run events of one session.
OnePerWorker == \A v, w \in Busy : worker[v].up.sess = worker[w].up.sess => v = w

\* SingleFlight place by place: each place holds a session at most once, no two
\* places hold the same one, and the lanes are those of the sessions held.
OneFlight == /\ OnePerSession(batch) /\ OnePerSession(tasks) /\ OnePerSession(results)
             /\ OnePerWorker
             /\ SessionsOf(batch) \cap SessionsOf(tasks) = {}
             /\ SessionsOf(batch) \cap SessionsOf(results) = {}
             /\ SessionsOf(batch) \cap OnWorkers = {}
             /\ SessionsOf(tasks) \cap SessionsOf(results) = {}
             /\ SessionsOf(tasks) \cap OnWorkers = {}
             /\ SessionsOf(results) \cap OnWorkers = {}
             /\ DOMAIN lanes = SessionsOf(batch) \cup SessionsOf(tasks)
                                \cup SessionsOf(results) \cup OnWorkers

\* A round's batch and the pool's queue can be counted.
Finite == IsFiniteSet(batch) /\ IsFiniteSet(tasks)

\* SingleFlight is not inductive alone: the lane of a session must hold only its
\* own events, or advancing it would put a stranger's event in flight.
IInv == TypeOK /\ PendingIsOwn /\ BusyRuns /\ OneFlight /\ Finite

-------------------------------------------------------------------------------
(* Types, step by step *)

LEMMA SortUplinkTypes ==
    ASSUME IInv, SortUplink
    PROVE  /\ TypeOK' /\ PendingIsOwn' /\ BusyRuns'
           /\ \/ DOMAIN lanes' = DOMAIN lanes /\ batch' = batch
              \/ \E up \in Up : /\ up.sess \notin DOMAIN lanes
                               /\ DOMAIN lanes' = DOMAIN lanes \cup {up.sess}
                               /\ batch' = batch \cup {up}
<1> DEFINE up == Head(uplink)
<1>1. /\ up \in Up /\ up.sess \in Session
      /\ Tail(uplink) \in Seq(Up)
  <2>1. uplink \in Seq(Up) /\ uplink # <<>>
    BY DEF IInv, TypeOK, SortUplink
  <2>2. up \in Up /\ Tail(uplink) \in Seq(Up)
    BY <2>1, HeadTailProperties
  <2> QED BY <2>2 DEF Up
<1>2. /\ LanesAndBatch'
      /\ \/ DOMAIN lanes' = DOMAIN lanes /\ batch' = batch
         \/ \E u \in Up : /\ u.sess \notin DOMAIN lanes
                         /\ DOMAIN lanes' = DOMAIN lanes \cup {u.sess}
                         /\ batch' = batch \cup {u}
  <2>1. CASE up.kind = "CLOSED"
    <3>1. HandleClose(up.sess)
      BY <2>1 DEF SortUplink
    <3> QED BY <1>1, <3>1, HandleCloseEffect, ClosedType DEF IInv
  <2>2. CASE up.kind # "CLOSED"
    <3>1. EnqueueUp(up)
      BY <2>2 DEF SortUplink
    <3> QED BY <1>1, <3>1, EnqueueUpEffect DEF IInv
  <2> QED BY <2>1, <2>2
<1>3. TypeOK'
  BY <1>1, <1>2 DEF IInv, TypeOK, LanesAndBatch, SortUplink, ioVars, poolVars
<1> QED BY <1>2, <1>3 DEF IInv, LanesAndBatch, SortUplink, BusyRuns, Busy, poolVars

LEMMA SortResultTypes ==
    ASSUME IInv, NEW r \in results,
           SortResult, results' = results \ {r},
           outgoing' = outgoing \cup r.frames, AdvanceLane(r.sess)
    PROVE  /\ TypeOK' /\ PendingIsOwn' /\ BusyRuns'
           /\ r.sess \in DOMAIN lanes
           /\ \/ DOMAIN lanes' = DOMAIN lanes \ {r.sess} /\ batch' = batch
              \/ /\ DOMAIN lanes' = DOMAIN lanes
                 /\ \E up \in Up : up.sess = r.sess /\ batch' = batch \cup {up}
<1>1. r.sess \in DOMAIN lanes /\ r \in Result
  BY DEF IInv, OneFlight, SessionsOf, TypeOK
<1>2. /\ LanesAndBatch'
      /\ \/ DOMAIN lanes' = DOMAIN lanes \ {r.sess} /\ batch' = batch
         \/ /\ DOMAIN lanes' = DOMAIN lanes
            /\ \E up \in Up : up.sess = r.sess /\ batch' = batch \cup {up}
  BY <1>1, AdvanceLaneEffect DEF IInv
<1>3. TypeOK'
  BY <1>1, <1>2 DEF IInv, TypeOK, LanesAndBatch, SortResult, Result, ioVars
<1> QED BY <1>1, <1>2, <1>3 DEF IInv, LanesAndBatch, SortResult, BusyRuns, Busy

\* Dispatch records the place of a frame, or keeps the one it had.
LEMMA DispatchType ==
    ASSUME TypeOK, Dispatch
    PROVE  seen' \in [Session -> [Session -> Nat]]
<1> SUFFICES ASSUME NEW t \in Session, NEW s \in Session
             PROVE  seen'[t][s] \in Nat
  BY DEF Dispatch
<1> DEFINE mine == {f.n : f \in {g \in outgoing : g.to = t /\ g.from = s}}
           best == CHOOSE n \in mine : TRUE
<1>1. mine \subseteq Nat
  <2>1. \A f \in outgoing : f.n \in Nat
    BY DEF TypeOK, Frame
  <2> QED BY <2>1
<1>2. seen'[t][s] = IF alive[t] /\ mine # {} THEN best ELSE seen[t][s]
  BY DEF Dispatch
<1>3. mine # {} => best \in mine
  OBVIOUS
<1>4. seen[t][s] \in Nat
  BY DEF TypeOK
<1> HIDE DEF mine, best
<1> QED BY <1>1, <1>2, <1>3, <1>4

\* What goes with a lane are places.
LEMMA LostType ==
    ASSUME IInv, NEW s \in DOMAIN lanes
    PROVE  /\ LostWith(s) \subseteq Nat
           /\ \A u \in batch : u.sess = s => u.n \in LostWith(s)
           /\ \A i \in 1..Len(lanes[s].pending) : lanes[s].pending[i].n \in LostWith(s)
<1>1. /\ s \in Session /\ batch \subseteq Up /\ lanes[s].pending \in Seq(Up)
      /\ \A u \in Up : u.n \in Nat
  BY DEF IInv, TypeOK, Lane, Up
<1>2. Closed(s).n \in Nat
  BY <1>1, ClosedType
<1>3. \A i \in 1..Len(lanes[s].pending) : lanes[s].pending[i] \in Up
  BY <1>1, ElementOfSeq
<1> QED BY <1>1, <1>2, <1>3 DEF LostWith

\* A push moves enqueue_pos_ away from the cells the poppers are at.
LEMMA SubmitTypes ==
    ASSUME IInv, Submit
    PROVE  cell' \in [Worker -> Nat] /\ refused' \in [Session -> SUBSET Nat]
<1>1. Cardinality(batch) \in Nat
  BY FS_CardinalityType DEF IInv, Finite
<1>2. cell \in [Worker -> Nat] /\ refused \in [Session -> SUBSET Nat]
  BY DEF IInv, TypeOK
<1>3. CASE Fits
  <2>1. /\ cell' = [w \in Worker |-> IF cell[w] = 0 THEN 0 ELSE cell[w] + Cardinality(batch)]
        /\ refused' = refused
    BY <1>3 DEF Submit
  <2> QED BY <1>1, <1>2, <2>1
<1>4. CASE ~Fits
  <2>1. /\ cell' = cell
        /\ refused' = [s \in Session |-> IF s \in SessionsOf(batch)
                                         THEN refused[s] \cup LostWith(s)
                                         ELSE refused[s]]
    BY <1>4 DEF Submit, SessionsOf
  <2>2. SessionsOf(batch) \subseteq DOMAIN lanes
    BY DEF IInv, OneFlight
  <2>3. \A s \in SessionsOf(batch) : LostWith(s) \subseteq Nat
    BY <2>2, LostType
  <2>4. \A s \in Session : refused'[s] \subseteq Nat
    BY <1>2, <2>1, <2>3
  <2> QED BY <1>2, <2>1, <2>4
<1> QED BY <1>3, <1>4

LEMMA EndRoundTypes ==
    ASSUME IInv, EndRound
    PROVE  /\ TypeOK' /\ PendingIsOwn' /\ BusyRuns'
           /\ batch' = {}
           /\ \/ tasks' = tasks \cup batch /\ DOMAIN lanes' = DOMAIN lanes
              \/ tasks' = tasks /\ DOMAIN lanes' = DOMAIN lanes \ SessionsOf(batch)
<1>1. seen' \in [Session -> [Session -> Nat]]
  BY DispatchType DEF IInv, EndRound
<1>2. /\ \/ tasks' = tasks \cup batch /\ DOMAIN lanes' = DOMAIN lanes
         \/ tasks' = tasks /\ DOMAIN lanes' = DOMAIN lanes \ SessionsOf(batch)
      /\ (DOMAIN lanes \subseteq Session)'
      /\ (lanes \in [DOMAIN lanes -> Lane])'
      /\ PendingIsOwn'
  <2>1. CASE Fits
    BY <2>1 DEF IInv, TypeOK, EndRound, Submit, PendingIsOwn
  <2>2. CASE ~Fits
    <3>1. lanes' = WithoutLanes(SessionsOf(batch)) /\ tasks' = tasks
      BY <2>2 DEF EndRound, Submit, SessionsOf
    <3> QED BY <3>1, WithoutLanesType DEF IInv
  <2> QED BY <2>1, <2>2
<1>3. tasks' \subseteq Up
  BY <1>2 DEF IInv, TypeOK
<1>4. cell' \in [Worker -> Nat] /\ refused' \in [Session -> SUBSET Nat]
  BY SubmitTypes DEF EndRound
<1>5. TypeOK'
  BY <1>1, <1>2, <1>3, <1>4 DEF IInv, TypeOK, EndRound, ioVars
<1> QED BY <1>2, <1>5 DEF IInv, EndRound, BusyRuns, Busy

\* A worker's record after it has been given a new value.
LEMMA WorkerType ==
    ASSUME IInv, NEW w \in Worker,
           NEW new \in [step : Step, up : Up \cup {None}, frames : SUBSET Frame],
           worker' = [worker EXCEPT ![w] = new],
           new.step # "idle" => new.up \in Up
    PROVE  /\ worker' \in [Worker -> [step : Step, up : Up \cup {None}, frames : SUBSET Frame]]
           /\ BusyRuns'
           /\ Busy' = IF new.step = "idle" THEN Busy \ {w} ELSE Busy \cup {w}
           /\ worker'[w] = new
           /\ \A v \in Worker \ {w} : worker'[v] = worker[v]
BY DEF IInv, TypeOK, BusyRuns, Busy

LEMMA PopTypes ==
    ASSUME IInv, NEW w \in Worker, NEW up \in tasks, Pop(w),
           tasks' = tasks \ {up},
           worker' = [worker EXCEPT ![w] = [step |-> "popped", up |-> up, frames |-> {}]]
    PROVE  /\ TypeOK' /\ PendingIsOwn' /\ BusyRuns'
           /\ w \notin Busy /\ Busy' = Busy \cup {w}
           /\ worker'[w].up = up
           /\ \A v \in Busy : worker'[v] = worker[v]
<1> DEFINE new == [step |-> "popped", up |-> up, frames |-> {}]
<1>1. /\ new \in [step : Step, up : Up \cup {None}, frames : SUBSET Frame]
      /\ new.step # "idle" /\ new.up = up /\ new.up \in Up
  BY DEF IInv, TypeOK, Step
<1>2. w \notin Busy
  BY DEF Pop, Busy
<1> HIDE DEF new
<1>3. /\ worker' \in [Worker -> [step : Step, up : Up \cup {None}, frames : SUBSET Frame]]
      /\ BusyRuns' /\ Busy' = Busy \cup {w} /\ worker'[w] = new
      /\ \A v \in Worker \ {w} : worker'[v] = worker[v]
  BY <1>1, WorkerType DEF new
<1>4. cell' \in [Worker -> Nat]
  <2>1. Cardinality(tasks) \in Nat /\ cell \in [Worker -> Nat]
    BY FS_CardinalityType DEF IInv, Finite, TypeOK
  <2> QED BY <2>1 DEF Pop
<1>5. TypeOK'
  BY <1>3, <1>4 DEF IInv, TypeOK, Pop, ioVars, ctrlVars
<1> QED BY <1>1, <1>2, <1>3, <1>5 DEF IInv, Pop, ctrlVars, PendingIsOwn, Busy

LEMMA FreeCellTypes ==
    ASSUME IInv, NEW w \in Worker, FreeCell(w)
    PROVE  TypeOK'
<1>1. cell' \in [Worker -> Nat]
  BY DEF IInv, TypeOK, FreeCell
<1> QED BY <1>1 DEF IInv, TypeOK, FreeCell, ioVars, ctrlVars

LEMMA AdmitTypes ==
    ASSUME IInv, NEW w \in Worker, Admit(w)
    PROVE  /\ TypeOK' /\ PendingIsOwn' /\ BusyRuns'
           /\ Busy' = Busy
           /\ worker'[w] = [worker[w] EXCEPT !.step = IF Admits(worker[w].up) THEN "admitted"
                                                                          ELSE "made"]
           /\ \A v \in Worker \ {w} : worker'[v] = worker[v]
           /\ \A v \in Busy : worker'[v].up = worker[v].up
<1> DEFINE after == IF Admits(worker[w].up) THEN "admitted" ELSE "made"
           new == [worker[w] EXCEPT !.step = after]
<1>1. w \in Busy /\ worker[w].up \in Up
  BY DEF IInv, BusyRuns, Busy, Admit
<1>2. after \in Step /\ after # "idle"
  BY DEF Step
<1>3. worker' = [worker EXCEPT ![w] = new]
  BY DEF Admit, IInv, TypeOK
<1> HIDE DEF after
<1>4. /\ new \in [step : Step, up : Up \cup {None}, frames : SUBSET Frame]
      /\ new.step = after /\ new.up = worker[w].up
  BY <1>2 DEF IInv, TypeOK
<1> HIDE DEF new
<1>5. /\ worker' \in [Worker -> [step : Step, up : Up \cup {None}, frames : SUBSET Frame]]
      /\ BusyRuns' /\ Busy' = Busy \cup {w} /\ worker'[w] = new
      /\ \A v \in Worker \ {w} : worker'[v] = worker[v]
  BY <1>1, <1>2, <1>3, <1>4, WorkerType
<1>6. TypeOK'
  BY <1>5 DEF IInv, TypeOK, Admit, ioVars, ctrlVars
<1>7. PendingIsOwn'
  BY DEF IInv, Admit, ctrlVars, PendingIsOwn
<1>8. Busy' = Busy /\ \A v \in Busy : worker'[v].up = worker[v].up
  BY <1>1, <1>4, <1>5 DEF Busy
<1>9. worker'[w] = [worker[w] EXCEPT !.step = IF Admits(worker[w].up) THEN "admitted" ELSE "made"]
  BY <1>5 DEF new, after
<1> QED BY <1>5, <1>6, <1>7, <1>8, <1>9

LEMMA ActTypes ==
    ASSUME IInv, NEW w \in Worker, Act(w)
    PROVE  /\ TypeOK' /\ PendingIsOwn' /\ BusyRuns'
           /\ Busy' = Busy
           /\ \A v \in Busy : worker'[v].up = worker[v].up
<1> DEFINE up == worker[w].up
           s  == up.sess
           new == [worker[w] EXCEPT !.step = "made", !.frames = Tell(Told(up), up)]
<1>1. /\ w \in Busy /\ up \in Up /\ s \in Session
      /\ up.kind \in {"JOIN", "MSG", "CHUNK", "CLOSED"} /\ up.n \in Nat
      /\ members \subseteq Session
  BY DEF IInv, TypeOK, BusyRuns, Busy, Act, Up, MsgKind
<1>2. Told(up) \subseteq Session
  BY <1>1 DEF Told
<1>3. Tell(Told(up), up) \subseteq Frame
  BY <1>1, <1>2 DEF Tell, Frame
<1>4. worker' = [worker EXCEPT ![w] = new]
  BY DEF Act, IInv, TypeOK
<1>5. /\ new \in [step : Step, up : Up \cup {None}, frames : SUBSET Frame]
      /\ new.step = "made" /\ new.up = up
  BY <1>3 DEF IInv, TypeOK, Step
<1>6. /\ members' \subseteq Session
      /\ ran' \in [Session -> Nat] /\ cleanups' \in [Session -> Nat]
  <2>1. members' \subseteq Session
    BY <1>1 DEF Act
  <2>2. /\ ran' = ran \/ ran' = [ran EXCEPT ![s] = up.n]
        /\ cleanups' = cleanups \/ cleanups' = [cleanups EXCEPT ![s] = @ + 1]
    BY DEF Act
  <2>3. ran \in [Session -> Nat] /\ cleanups \in [Session -> Nat]
    BY DEF IInv, TypeOK
  <2> HIDE DEF up, s
  <2> QED BY <1>1, <2>1, <2>2, <2>3
<1> HIDE DEF new, s
<1>7. /\ worker' \in [Worker -> [step : Step, up : Up \cup {None}, frames : SUBSET Frame]]
      /\ BusyRuns' /\ Busy' = Busy \cup {w} /\ worker'[w] = new
      /\ \A v \in Worker \ {w} : worker'[v] = worker[v]
  BY <1>1, <1>4, <1>5, WorkerType
<1>8. TypeOK'
  BY <1>6, <1>7 DEF IInv, TypeOK, Act, ioVars, ctrlVars
<1> QED BY <1>1, <1>5, <1>7, <1>8 DEF IInv, Act, ctrlVars, PendingIsOwn, Busy

LEMMA PostResultTypes ==
    ASSUME IInv, NEW w \in Worker, PostResult(w)
    PROVE  /\ TypeOK' /\ PendingIsOwn' /\ BusyRuns'
           /\ w \in Busy /\ Busy' = Busy \ {w}
           /\ \A v \in Busy \ {w} : worker'[v] = worker[v]
<1>1. w \in Busy /\ worker[w].up \in Up
  BY DEF IInv, BusyRuns, Busy, PostResult
<1>2. Idle \in [step : Step, up : Up \cup {None}, frames : SUBSET Frame] /\ Idle.step = "idle"
  BY DEF Idle, Step
<1>3. worker' = [worker EXCEPT ![w] = Idle]
  BY DEF PostResult
<1>4. /\ worker' \in [Worker -> [step : Step, up : Up \cup {None}, frames : SUBSET Frame]]
      /\ BusyRuns' /\ Busy' = Busy \ {w}
      /\ \A v \in Worker \ {w} : worker'[v] = worker[v]
  BY <1>2, <1>3, WorkerType
<1>5. results' \subseteq Result
  BY <1>1 DEF PostResult, IInv, TypeOK, Up, Result
<1>6. TypeOK'
  BY <1>4, <1>5 DEF IInv, TypeOK, PostResult, ioVars, ctrlVars
<1> QED BY <1>1, <1>4, <1>6 DEF IInv, PostResult, ctrlVars, PendingIsOwn, Busy

-------------------------------------------------------------------------------
(* One event of a session in flight, step by step *)

LEMMA SortUplinkFlight ==
    ASSUME IInv, SortUplink
    PROVE  OneFlight'
<1>1. /\ tasks' = tasks /\ results' = results /\ worker' = worker
      /\ \/ DOMAIN lanes' = DOMAIN lanes /\ batch' = batch
         \/ \E up \in Up : /\ up.sess \notin DOMAIN lanes
                          /\ DOMAIN lanes' = DOMAIN lanes \cup {up.sess}
                          /\ batch' = batch \cup {up}
  BY SortUplinkTypes DEF SortUplink, poolVars
<1>2. OnWorkers' = OnWorkers /\ (OnePerWorker => OnePerWorker')
  BY <1>1 DEF OnWorkers, OnePerWorker, Busy
<1>3. CASE DOMAIN lanes' = DOMAIN lanes /\ batch' = batch
  BY <1>1, <1>2, <1>3 DEF IInv, OneFlight, SessionsOf, OnePerSession
<1>4. ASSUME NEW up \in Up, up.sess \notin DOMAIN lanes,
             DOMAIN lanes' = DOMAIN lanes \cup {up.sess}, batch' = batch \cup {up}
      PROVE  OneFlight'
  <2>1. SessionsOf(batch') = SessionsOf(batch) \cup {up.sess}
    BY <1>4 DEF SessionsOf
  <2>2. OnePerSession(batch')
    BY <1>4 DEF IInv, OneFlight, OnePerSession, SessionsOf
  <2> QED BY <1>1, <1>2, <1>4, <2>1, <2>2 DEF IInv, OneFlight
<1> QED BY <1>1, <1>3, <1>4

LEMMA SortResultFlight ==
    ASSUME IInv, NEW r \in results,
           SortResult, results' = results \ {r},
           outgoing' = outgoing \cup r.frames, AdvanceLane(r.sess)
    PROVE  OneFlight'
<1>1. /\ tasks' = tasks /\ worker' = worker
      /\ \/ DOMAIN lanes' = DOMAIN lanes \ {r.sess} /\ batch' = batch
         \/ /\ DOMAIN lanes' = DOMAIN lanes
            /\ \E up \in Up : up.sess = r.sess /\ batch' = batch \cup {up}
  BY SortResultTypes DEF SortResult
<1>2. OnWorkers' = OnWorkers /\ (OnePerWorker => OnePerWorker')
  BY <1>1 DEF OnWorkers, OnePerWorker, Busy
<1>3. /\ r.sess \in SessionsOf(results)
      /\ SessionsOf(results') = SessionsOf(results) \ {r.sess}
      /\ OnePerSession(results')
  BY DEF IInv, OneFlight, OnePerSession, SessionsOf
<1>4. CASE DOMAIN lanes' = DOMAIN lanes \ {r.sess} /\ batch' = batch
  BY <1>1, <1>2, <1>3, <1>4 DEF IInv, OneFlight
<1>5. ASSUME NEW up \in Up, up.sess = r.sess,
             DOMAIN lanes' = DOMAIN lanes, batch' = batch \cup {up}
      PROVE  OneFlight'
  <2>1. SessionsOf(batch') = SessionsOf(batch) \cup {r.sess}
    BY <1>5 DEF SessionsOf
  <2>2. OnePerSession(batch')
    BY <1>3, <1>5 DEF IInv, OneFlight, OnePerSession, SessionsOf
  <2>3. /\ SessionsOf(batch') \cap SessionsOf(tasks') = {}
        /\ SessionsOf(batch') \cap SessionsOf(results') = {}
        /\ SessionsOf(batch') \cap OnWorkers' = {}
        /\ SessionsOf(tasks') \cap SessionsOf(results') = {}
        /\ SessionsOf(tasks') \cap OnWorkers' = {}
        /\ SessionsOf(results') \cap OnWorkers' = {}
    BY <1>1, <1>2, <1>3, <2>1 DEF IInv, OneFlight
  <2>4. DOMAIN lanes' = SessionsOf(batch') \cup SessionsOf(tasks')
                        \cup SessionsOf(results') \cup OnWorkers'
    <3>1. DOMAIN lanes = SessionsOf(batch) \cup SessionsOf(tasks)
                         \cup SessionsOf(results) \cup OnWorkers
      BY DEF IInv, OneFlight
    <3>2. SessionsOf(tasks') = SessionsOf(tasks)
      BY <1>1
    <3> QED BY <1>2, <1>3, <1>5, <2>1, <3>1, <3>2
  <2> QED BY <1>1, <1>2, <1>3, <2>2, <2>3, <2>4 DEF IInv, OneFlight
<1> QED BY <1>1, <1>4, <1>5

LEMMA EndRoundFlight ==
    ASSUME IInv, EndRound
    PROVE  OneFlight'
<1>1. /\ results' = results /\ worker' = worker /\ batch' = {}
      /\ \/ tasks' = tasks \cup batch /\ DOMAIN lanes' = DOMAIN lanes
         \/ tasks' = tasks /\ DOMAIN lanes' = DOMAIN lanes \ SessionsOf(batch)
  BY EndRoundTypes DEF EndRound
<1>2. OnWorkers' = OnWorkers /\ (OnePerWorker => OnePerWorker')
  BY <1>1 DEF OnWorkers, OnePerWorker, Busy
<1>3. SessionsOf(batch') = {} /\ OnePerSession(batch')
  BY <1>1 DEF SessionsOf, OnePerSession
<1>4. CASE tasks' = tasks \cup batch /\ DOMAIN lanes' = DOMAIN lanes
  <2>1. SessionsOf(tasks') = SessionsOf(tasks) \cup SessionsOf(batch)
    BY <1>4 DEF SessionsOf
  <2>2. OnePerSession(tasks')
    BY <1>4 DEF IInv, OneFlight, OnePerSession, SessionsOf
  <2> QED BY <1>1, <1>2, <1>3, <1>4, <2>1, <2>2 DEF IInv, OneFlight
<1>5. CASE tasks' = tasks /\ DOMAIN lanes' = DOMAIN lanes \ SessionsOf(batch)
  BY <1>1, <1>2, <1>3, <1>5 DEF IInv, OneFlight
<1> QED BY <1>1, <1>4, <1>5

LEMMA PopFlight ==
    ASSUME IInv, NEW w \in Worker, NEW up \in tasks, Pop(w),
           tasks' = tasks \ {up},
           worker' = [worker EXCEPT ![w] = [step |-> "popped", up |-> up, frames |-> {}]]
    PROVE  OneFlight'
<1>1. /\ batch' = batch /\ results' = results /\ lanes' = lanes
      /\ w \notin Busy /\ Busy' = Busy \cup {w}
      /\ worker'[w].up = up
      /\ \A v \in Busy : worker'[v] = worker[v]
  BY PopTypes DEF Pop, ctrlVars
<1>2. OnWorkers' = OnWorkers \cup {up.sess}
  BY <1>1 DEF OnWorkers
<1>3. /\ up.sess \in SessionsOf(tasks)
      /\ SessionsOf(tasks') = SessionsOf(tasks) \ {up.sess}
      /\ OnePerSession(tasks')
  BY DEF IInv, OneFlight, OnePerSession, SessionsOf
<1>4. OnePerWorker'
  <2>1. up.sess \notin OnWorkers
    BY <1>3 DEF IInv, OneFlight
  <2> QED BY <1>1, <2>1 DEF IInv, OneFlight, OnePerWorker, OnWorkers
<1>5. /\ SessionsOf(batch)' = SessionsOf(batch) /\ SessionsOf(results)' = SessionsOf(results)
      /\ OnePerSession(batch)' /\ OnePerSession(results)'
  BY <1>1 DEF IInv, OneFlight, SessionsOf, OnePerSession
<1>6. /\ SessionsOf(batch)' \cap SessionsOf(tasks') = {}
      /\ SessionsOf(batch)' \cap SessionsOf(results)' = {}
      /\ SessionsOf(batch)' \cap OnWorkers' = {}
      /\ SessionsOf(tasks') \cap SessionsOf(results)' = {}
      /\ SessionsOf(tasks') \cap OnWorkers' = {}
      /\ SessionsOf(results)' \cap OnWorkers' = {}
  BY <1>2, <1>3, <1>5 DEF IInv, OneFlight
<1>7. DOMAIN lanes' = SessionsOf(batch)' \cup SessionsOf(tasks') \cup OnWorkers' \cup SessionsOf(results)'
  BY <1>1, <1>2, <1>3, <1>5 DEF IInv, OneFlight
<1> QED BY <1>3, <1>4, <1>5, <1>6, <1>7 DEF OneFlight

LEMMA PostResultFlight ==
    ASSUME IInv, NEW w \in Worker, PostResult(w)
    PROVE  OneFlight'
<1> DEFINE s == worker[w].up.sess
           r == [sess |-> s, frames |-> worker[w].frames]
<1>1. /\ batch' = batch /\ tasks' = tasks /\ lanes' = lanes
      /\ results' = results \cup {r} /\ r.sess = s
      /\ w \in Busy /\ Busy' = Busy \ {w}
      /\ \A v \in Busy \ {w} : worker'[v] = worker[v]
  BY PostResultTypes DEF PostResult, ctrlVars
<1>2. s \in OnWorkers /\ OnWorkers' = OnWorkers \ {s}
  BY <1>1 DEF OnWorkers, IInv, OneFlight, OnePerWorker
<1>3. SessionsOf(results') = SessionsOf(results) \cup {s}
  BY <1>1 DEF SessionsOf
<1>4. OnePerSession(results')
  BY <1>1, <1>2 DEF IInv, OneFlight, OnePerSession, SessionsOf
<1>5. OnePerWorker'
  BY <1>1 DEF IInv, OneFlight, OnePerWorker
<1>6. OneFlight
  BY DEF IInv
<1> QED BY <1>1, <1>2, <1>3, <1>4, <1>5, <1>6, SMTT(20) DEF OneFlight

\* A worker goes on with its event.
LEMMA SameFlight ==
    ASSUME IInv, UNCHANGED <<batch, tasks, lanes, results>>, Busy' = Busy,
           \A v \in Busy : worker'[v].up = worker[v].up
    PROVE  OneFlight'
<1>1. OnWorkers' = OnWorkers /\ (OnePerWorker => OnePerWorker')
  BY DEF OnWorkers, OnePerWorker
<1> QED BY <1>1 DEF IInv, OneFlight

-------------------------------------------------------------------------------
LEMMA InitIInv == Init => IInv
<1> SUFFICES ASSUME Init PROVE IInv
  OBVIOUS
<1>1. DOMAIN lanes = {} /\ lanes = <<>> /\ <<>> \in Seq(Up)
  BY EmptySeq DEF Init
<1>2. \A w \in Worker : worker[w] = Idle
  BY DEF Init
<1>3. Busy = {} /\ OnWorkers = {}
  BY <1>2 DEF Busy, OnWorkers, Idle
<1>4. OneFlight
  <2>1. batch = {} /\ tasks = {} /\ results = {}
    BY DEF Init
  <2>2. SessionsOf({}) = {} /\ OnePerSession({})
    BY DEF SessionsOf, OnePerSession
  <2> QED BY <1>1, <1>3, <2>1, <2>2 DEF OneFlight, OnePerWorker
<1>5. lanes \in [DOMAIN lanes -> Lane]
  BY <1>1
<1>6. worker \in [Worker -> [step : Step, up : Up \cup {None}, frames : SUBSET Frame]]
  BY DEF Init, Idle, Step
<1>7. TypeOK
  BY <1>1, <1>5, <1>6 DEF Init, TypeOK
<1>8. Finite
  BY FS_EmptySet DEF Init, Finite
<1> QED BY <1>1, <1>3, <1>4, <1>7, <1>8 DEF IInv, PendingIsOwn, BusyRuns

\* The messages of one read join the uplink in one piece, numbered on from the last.
LEMMA ReadMoves ==
    ASSUME TypeOK, NEW s \in Session, Read(s)
    PROVE  /\ \E b \in Seq(Up) :
                /\ uplink' = uplink \o b
                /\ \A i \in 1..Len(b) : /\ b[i].sess = s /\ b[i].kind # "CLOSED"
                                        /\ b[i].n = sent[s] + i
                /\ sent[s] + Len(b) <= MaxSent[s]
                /\ sent' = [sent EXCEPT ![s] = @ + Len(b)]
           /\ posted' \in [Session -> Seq(Message)]
           /\ UNCHANGED <<io, alive, ctrlVars, poolVars, seen>>
<1>0. PICK k \in 1..MaxSent[s] : \E read \in [1..k -> Sends[s]] :
           \E order \in PostOrders(read) : UplinkRead(s, read, order)
  BY DEF Read
<1>1. PICK read \in [1..k -> Sends[s]] : \E order \in PostOrders(read) : UplinkRead(s, read, order)
  BY <1>0
<1>a. PICK order \in PostOrders(read) : UplinkRead(s, read, order)
  BY <1>1
<1> DEFINE b == [i \in 1..k |-> [sess |-> s, kind |-> read[order[i]], n |-> sent[s] + i]]
           m == [i \in 1..k |-> [binary |-> Binary(read[order[i]]), at |-> sent[s] + order[i]]]
<1>2. /\ k \in Nat /\ sent[s] \in Nat /\ Len(read) = k
      /\ order \in [1..k -> 1..k] /\ \A i \in 1..k : read[order[i]] \in MsgKind
  <2>1. k \in Nat /\ Len(read) = k /\ sent[s] \in Nat /\ DOMAIN read = 1..k
    BY ConstantsAssumption DEF TypeOK
  <2>2. order \in [1..k -> 1..k]
    BY <2>1 DEF PostOrders
  <2> QED BY <2>1, <2>2, ConstantsAssumption
<1>3. b \in Seq(Up) /\ Len(b) = k
  <2>1. \A i \in 1..k : [sess |-> s, kind |-> read[order[i]], n |-> sent[s] + i] \in Up
    <3>1. \A i \in 1..k : sent[s] + i \in Nat
      BY <1>2
    <3> QED BY <1>2, <3>1 DEF Up
  <2>2. b \in [1..k -> Up]
    BY <2>1
  <2> QED BY <1>2, <2>2
<1>4. m \in Seq(Message) /\ Len(m) = k
  <2>1. \A i \in 1..k : [binary |-> Binary(read[order[i]]), at |-> sent[s] + order[i]] \in Message
    <3>1. \A i \in 1..k : sent[s] + order[i] \in Nat
      <4>1. sent[s] \in Nat /\ \A i \in 1..k : order[i] \in Nat
        BY <1>2
      <4> QED BY <4>1
    <3>2. \A i \in 1..k : Binary(read[order[i]]) \in BOOLEAN
      BY DEF Binary
    <3> QED BY <3>1, <3>2 DEF Message
  <2>2. m \in [1..k -> Message]
    BY <2>1
  <2> HIDE DEF m
  <2> QED BY <1>2, <2>2
<1>5. \A i \in 1..k : b[i].sess = s /\ b[i].kind # "CLOSED" /\ b[i].n = sent[s] + i
  BY <1>2 DEF MsgKind
<1>6. /\ uplink' = uplink \o b /\ posted' = [posted EXCEPT ![s] = @ \o m]
      /\ sent[s] + k <= MaxSent[s] /\ sent' = [sent EXCEPT ![s] = @ + k]
      /\ UNCHANGED <<io, alive, ctrlVars, poolVars, seen>>
  BY <1>a, <1>2 DEF UplinkRead
<1> HIDE DEF b, m
<1>7. posted' \in [Session -> Seq(Message)]
  <2>1. posted \in [Session -> Seq(Message)]
    BY DEF TypeOK
  <2>2. posted[s] \o m \in Seq(Message)
    BY <1>4, <2>1, ConcatProperties
  <2> QED BY <1>6, <2>1, <2>2
<1> QED BY <1>3, <1>5, <1>6, <1>7

\* One step of any thread keeps the inductive invariant.
LEMMA NextIInv ==
    ASSUME IInv, [Next]_vars
    PROVE  IInv'
<1>1. ASSUME NEW s \in Session, IoThread(s)
      PROVE  IInv'
  <2>1. /\ UNCHANGED <<lanes, batch, tasks, worker, results>>
        /\ uplink' \in Seq(Up)
        /\ io' \in [Session -> {"open", "closing", "closed"}]
        /\ alive' \in [Session -> BOOLEAN]
        /\ sent' \in [Session -> Nat]
        /\ posted' \in [Session -> Seq(Message)]
        /\ UNCHANGED <<ctrl, outgoing, refused, cell, members, ran, cleanups, seen>>
    <3>1. CASE Read(s)
      <4>1. PICK b \in Seq(Up) :
                /\ uplink' = uplink \o b
                /\ sent' = [sent EXCEPT ![s] = @ + Len(b)]
        BY <3>1, ReadMoves DEF IInv
      <4>2. /\ posted' \in [Session -> Seq(Message)]
            /\ UNCHANGED <<io, alive, ctrlVars, poolVars, seen>>
        BY <3>1, ReadMoves DEF IInv
      <4>3. uplink' \in Seq(Up) /\ Len(b) \in Nat
        BY <4>1, ConcatProperties, LenProperties DEF IInv, TypeOK
      <4>4. /\ io \in [Session -> {"open", "closing", "closed"}]
            /\ alive \in [Session -> BOOLEAN] /\ sent \in [Session -> Nat]
        BY DEF IInv, TypeOK
      <4>5. sent' \in [Session -> Nat]
        BY <4>1, <4>3, <4>4
      <4>6. UNCHANGED <<io, alive, lanes, batch, tasks, worker, results, ctrl, outgoing, refused,
                        cell, members, ran, cleanups, seen>>
        BY <4>2 DEF ctrlVars, poolVars
      <4> QED BY <4>2, <4>3, <4>4, <4>5, <4>6
    <3>2. CASE BeginClose(s)
      BY <3>2 DEF BeginClose, IInv, TypeOK, ctrlVars, poolVars
    <3>3. CASE UplinkClosed(s)
      BY <3>3, ClosedType, AppendProperties
         DEF UplinkClosed, IInv, TypeOK, ctrlVars, poolVars
    <3>4. Read(s) \/ BeginClose(s) \/ UplinkClosed(s)
      BY <1>1 DEF IoThread
    <3> QED BY <3>1, <3>2, <3>3, <3>4
  <2>2. TypeOK'
    BY <2>1 DEF IInv, TypeOK
  <2>3. PendingIsOwn' /\ BusyRuns' /\ OnWorkers' = OnWorkers /\ (OnePerWorker => OnePerWorker')
    BY <2>1 DEF IInv, PendingIsOwn, BusyRuns, Busy, OnWorkers, OnePerWorker
  <2> QED BY <2>1, <2>2, <2>3 DEF IInv, OneFlight, Finite
<1>2. CASE SortUplink
  <2>1. Finite'
    <3>1. tasks' = tasks /\ (batch' = batch \/ \E up \in Up : batch' = batch \cup {up})
      BY <1>2, SortUplinkTypes DEF SortUplink, poolVars
    <3> QED BY <3>1, FS_AddElement DEF IInv, Finite
  <2> QED BY <1>2, <2>1, SortUplinkTypes, SortUplinkFlight DEF IInv
<1>3. CASE SortResult
  <2>1. PICK r \in results : /\ results' = results \ {r}
                             /\ outgoing' = outgoing \cup r.frames
                             /\ AdvanceLane(r.sess)
    BY <1>3 DEF SortResult
  <2>2. Finite'
    <3>1. tasks' = tasks /\ (batch' = batch \/ \E up \in Up : batch' = batch \cup {up})
      BY <1>3, <2>1, SortResultTypes DEF SortResult
    <3> QED BY <3>1, FS_AddElement DEF IInv, Finite
  <2> QED BY <1>3, <2>1, <2>2, SortResultTypes, SortResultFlight DEF IInv
<1>4. CASE EndRound
  <2>1. Finite'
    <3>1. batch' = {} /\ (tasks' = tasks \cup batch \/ tasks' = tasks)
      BY <1>4, EndRoundTypes
    <3> QED BY <3>1, FS_EmptySet, FS_Union DEF IInv, Finite
  <2> QED BY <1>4, <2>1, EndRoundTypes, EndRoundFlight DEF IInv
<1>5. ASSUME NEW w \in Worker, Pop(w)
      PROVE  IInv'
  <2>1. PICK up \in tasks :
           /\ tasks' = tasks \ {up}
           /\ worker' = [worker EXCEPT ![w] = [step |-> "popped", up |-> up, frames |-> {}]]
    BY <1>5 DEF Pop
  <2>2. Finite'
    <3>1. batch' = batch /\ tasks' \subseteq tasks
      BY <1>5, <2>1 DEF Pop, ctrlVars
    <3> QED BY <3>1, FS_Subset DEF IInv, Finite
  <2> QED BY <1>5, <2>1, <2>2, PopTypes, PopFlight DEF IInv
<1>6. ASSUME UNCHANGED <<batch, tasks, lanes, results>>, Busy' = Busy,
             \A v \in Busy : worker'[v].up = worker[v].up, TypeOK', PendingIsOwn', BusyRuns'
      PROVE  IInv'
  BY <1>6, SameFlight DEF IInv, Finite
<1>7. ASSUME NEW w \in Worker, FreeCell(w)
      PROVE  IInv'
  <2>1. UNCHANGED <<batch, tasks, lanes, results, worker>> /\ TypeOK'
    BY <1>7, FreeCellTypes DEF FreeCell, ctrlVars
  <2> QED BY <1>6, <2>1 DEF IInv, PendingIsOwn, BusyRuns, Busy
<1>8. ASSUME NEW w \in Worker, Admit(w)
      PROVE  IInv'
  <2>1. UNCHANGED <<batch, tasks, lanes, results>>
    BY <1>8 DEF Admit, ctrlVars
  <2> QED BY <1>6, <1>8, <2>1, AdmitTypes
<1>9. ASSUME NEW w \in Worker, Act(w)
      PROVE  IInv'
  <2>1. UNCHANGED <<batch, tasks, lanes, results>>
    BY <1>9 DEF Act, ctrlVars
  <2> QED BY <1>6, <1>9, <2>1, ActTypes
<1>10. ASSUME NEW w \in Worker, PostResult(w)
      PROVE  IInv'
  <2>1. UNCHANGED <<batch, tasks>>
    BY <1>10 DEF PostResult, ctrlVars
  <2> QED BY <1>10, <2>1, PostResultTypes, PostResultFlight DEF IInv, Finite
<1>11. CASE UNCHANGED vars
  <2>1. TypeOK'
    BY <1>11 DEF vars, ioVars, ctrlVars, poolVars, IInv, TypeOK
  <2>2. UNCHANGED <<batch, tasks, lanes, results, worker>>
    BY <1>11 DEF vars, ctrlVars, poolVars
  <2> QED BY <1>6, <2>1, <2>2 DEF IInv, PendingIsOwn, BusyRuns, Busy
<1> QED BY <1>1, <1>2, <1>3, <1>4, <1>5, <1>7, <1>8, <1>9, <1>10, <1>11
        DEF Next, CtrlThread, PoolThread

THEOREM Inductive == Safety => []IInv
<1>1. IInv /\ [Next]_vars => IInv'
  BY NextIInv
<1> QED BY InitIInv, <1>1, PTL DEF Safety

\* Type correctness of the dispatcher, its mailboxes, the pool and the workers.
THEOREM TypeCorrect == Safety => []TypeOK
<1>1. IInv => TypeOK
  BY DEF IInv
<1> QED BY <1>1, Inductive, PTL

\* CtrlDispatcher.h's single-flight gate: of each session at most one event is
\* anywhere between the lane and the handled result, and lanes_ holds exactly the
\* sessions with one, even when the pool refuses batches.
THEOREM GateIsSingleFlight == Safety => []SingleFlight
<1>1. IInv => SingleFlight
  <2> SUFFICES ASSUME IInv PROVE SingleFlight
    OBVIOUS
  <2>1. {f.sess : f \in Flights} = SessionsOf(batch) \cup SessionsOf(tasks)
                                    \cup SessionsOf(results) \cup OnWorkers
    <3>1. ASSUME NEW f \in Flights
          PROVE  f.sess \in SessionsOf(batch) \cup SessionsOf(tasks)
                            \cup SessionsOf(results) \cup OnWorkers
      BY DEF Flights, SessionsOf, OnWorkers, Busy
    <3>2. ASSUME NEW up \in batch PROVE \E f \in Flights : f.sess = up.sess
      <4> DEFINE f == [at |-> "batch", what |-> up, sess |-> up.sess]
      <4> f \in Flights /\ f.sess = up.sess
        BY DEF Flights
      <4> QED OBVIOUS
    <3>3. ASSUME NEW up \in tasks PROVE \E f \in Flights : f.sess = up.sess
      <4> DEFINE f == [at |-> "tasks", what |-> up, sess |-> up.sess]
      <4> f \in Flights /\ f.sess = up.sess
        BY DEF Flights
      <4> QED OBVIOUS
    <3>4. ASSUME NEW r \in results PROVE \E f \in Flights : f.sess = r.sess
      <4> DEFINE f == [at |-> "results", what |-> r, sess |-> r.sess]
      <4> f \in Flights /\ f.sess = r.sess
        BY DEF Flights
      <4> QED OBVIOUS
    <3>5. ASSUME NEW w \in Busy PROVE \E f \in Flights : f.sess = worker[w].up.sess
      <4> DEFINE f == [at |-> w, what |-> worker[w].up, sess |-> worker[w].up.sess]
      <4> f \in Flights /\ f.sess = worker[w].up.sess
        BY DEF Flights, Busy
      <4> QED OBVIOUS
    <3> QED BY <3>1, <3>2, <3>3, <3>4, <3>5 DEF SessionsOf, OnWorkers
  <2>2. ASSUME NEW f \in Flights, NEW g \in Flights, f.sess = g.sess
        PROVE  f = g
    BY <2>2, SMTT(20) DEF IInv, OneFlight, Flights, SessionsOf, OnWorkers, OnePerSession, OnePerWorker, Busy
  <2> QED BY <2>1, <2>2 DEF SingleFlight, IInv, OneFlight
<1> QED BY <1>1, Inductive, PTL

-------------------------------------------------------------------------------
(* What waits, and in which order *)

Mine(up, s) == up.sess = s /\ up.kind # "CLOSED"
Ends(up, s) == up.sess = s /\ up.kind = "CLOSED"

\* The session's messages in a queue, whether they stand in the order in which they were
\* sent, and its CLOSED.
In(q, s) == {q[i] : i \in {k \in 1..Len(q) : Mine(q[k], s)}}
Ascending(q, s) == \A i, j \in 1..Len(q) :
                      i < j /\ Mine(q[i], s) /\ Mine(q[j], s) => q[i].n < q[j].n
EndsIn(q, s) == \E i \in 1..Len(q) : Ends(q[i], s)
EndsOnce(q, s) == \A i, j \in 1..Len(q) : Ends(q[i], s) /\ Ends(q[j], s) => i = j

LEMMA NothingIn == \A s : In(<<>>, s) = {} /\ Ascending(<<>>, s)
                         /\ ~EndsIn(<<>>, s) /\ EndsOnce(<<>>, s)
<1>1. Len(<<>>) = 0
  OBVIOUS
<1> QED BY <1>1 DEF In, Ascending, EndsIn, EndsOnce

LEMMA AppendFacts ==
    ASSUME NEW q \in Seq(Up), NEW x \in Up, NEW s
    PROVE  /\ In(Append(q, x), s) = In(q, s) \cup (IF Mine(x, s) THEN {x} ELSE {})
           /\ EndsIn(Append(q, x), s) <=> (EndsIn(q, s) \/ Ends(x, s))
           /\ EndsOnce(q, s) /\ (Ends(x, s) => ~EndsIn(q, s)) => EndsOnce(Append(q, x), s)
           /\ Ascending(q, s) /\ (Mine(x, s) => \A u \in In(q, s) : u.n < x.n)
                 => Ascending(Append(q, x), s)
<1> DEFINE p == Append(q, x)
<1>1. /\ Len(p) = Len(q) + 1 /\ Len(q) \in Nat /\ p[Len(q) + 1] = x
      /\ \A i \in 1..Len(q) : p[i] = q[i]
  BY AppendProperties, LenProperties
<1> HIDE DEF p
<1>2. /\ \A i \in 1..Len(p) : i \in 1..Len(q) \/ i = Len(q) + 1
      /\ \A i \in 1..Len(q) : i \in 1..Len(p) /\ i # Len(q) + 1
      /\ Len(q) + 1 \in 1..Len(p)
  BY <1>1
<1>3. In(p, s) = In(q, s) \cup (IF Mine(x, s) THEN {x} ELSE {})
  <2>1. ASSUME NEW u \in In(p, s) PROVE u \in In(q, s) \/ (Mine(x, s) /\ u = x)
    BY <1>1, <1>2 DEF In
  <2>2. ASSUME NEW u \in In(q, s) PROVE u \in In(p, s)
    BY <1>1, <1>2 DEF In
  <2>3. Mine(x, s) => x \in In(p, s)
    BY <1>1, <1>2 DEF In
  <2> QED BY <2>1, <2>2, <2>3
<1>4. EndsIn(p, s) <=> (EndsIn(q, s) \/ Ends(x, s))
  BY <1>1, <1>2 DEF EndsIn
<1>5. EndsOnce(q, s) /\ (Ends(x, s) => ~EndsIn(q, s)) => EndsOnce(p, s)
  BY <1>1, <1>2 DEF EndsIn, EndsOnce
<1>6. Ascending(q, s) /\ (Mine(x, s) => \A u \in In(q, s) : u.n < x.n) => Ascending(p, s)
  <2> SUFFICES ASSUME Ascending(q, s), Mine(x, s) => \A u \in In(q, s) : u.n < x.n,
                      NEW i \in 1..Len(p), NEW j \in 1..Len(p), i < j,
                      Mine(p[i], s), Mine(p[j], s)
               PROVE  p[i].n < p[j].n
    BY DEF Ascending
  <2>1. i \in 1..Len(q)
    BY <1>1
  <2>2. CASE j \in 1..Len(q)
    BY <1>1, <2>1, <2>2 DEF Ascending
  <2>3. CASE j = Len(q) + 1
    BY <1>1, <2>1, <2>3 DEF In
  <2> QED BY <1>2, <2>2, <2>3
<1> QED BY <1>3, <1>4, <1>5, <1>6 DEF p

\* The messages of one read joining a queue.
LEMMA ConcatFacts ==
    ASSUME NEW q \in Seq(Up), NEW b \in Seq(Up), NEW s,
           \A i \in 1..Len(b) : ~Ends(b[i], s)
    PROVE  /\ In(q \o b, s) = In(q, s) \cup In(b, s)
           /\ EndsIn(q \o b, s) <=> EndsIn(q, s)
           /\ EndsOnce(q, s) => EndsOnce(q \o b, s)
           /\ Ascending(q, s) /\ Ascending(b, s)
                 /\ (\A u \in In(q, s), v \in In(b, s) : u.n < v.n)
                    => Ascending(q \o b, s)
<1> DEFINE p == q \o b
<1>1. /\ Len(p) = Len(q) + Len(b) /\ Len(q) \in Nat /\ Len(b) \in Nat
      /\ \A i \in 1..Len(p) : p[i] = IF i <= Len(q) THEN q[i] ELSE b[i - Len(q)]
  BY ConcatProperties, LenProperties
<1> HIDE DEF p
<1>2. /\ \A i \in 1..Len(q) : i \in 1..Len(p) /\ p[i] = q[i]
      /\ \A i \in 1..Len(b) : Len(q) + i \in 1..Len(p) /\ p[Len(q) + i] = b[i]
      /\ \A i \in 1..Len(p) : \/ i \in 1..Len(q) /\ p[i] = q[i]
                              \/ i - Len(q) \in 1..Len(b) /\ p[i] = b[i - Len(q)]
  <2>1. \A i \in 1..Len(q) : i \in 1..Len(p) /\ p[i] = q[i]
    BY <1>1
  <2>2. ASSUME NEW i \in 1..Len(b) PROVE Len(q) + i \in 1..Len(p) /\ p[Len(q) + i] = b[i]
    <3>1. Len(q) + i \in 1..Len(p) /\ ~(Len(q) + i <= Len(q)) /\ (Len(q) + i) - Len(q) = i
      BY <1>1
    <3> QED BY <1>1, <3>1
  <2>3. ASSUME NEW i \in 1..Len(p)
        PROVE  \/ i \in 1..Len(q) /\ p[i] = q[i]
               \/ i - Len(q) \in 1..Len(b) /\ p[i] = b[i - Len(q)]
    <3>1. CASE i <= Len(q)
      BY <1>1, <3>1
    <3>2. CASE ~(i <= Len(q))
      <4>1. i - Len(q) \in 1..Len(b)
        BY <1>1, <3>2
      <4> QED BY <1>1, <3>2, <4>1
    <3> QED BY <3>1, <3>2
  <2> QED BY <2>1, <2>2, <2>3
<1>3. In(p, s) = In(q, s) \cup In(b, s)
  <2>1. ASSUME NEW u \in In(p, s) PROVE u \in In(q, s) \cup In(b, s)
    <3>1. PICK i \in 1..Len(p) : Mine(p[i], s) /\ u = p[i]
      BY DEF In
    <3> QED BY <1>2, <3>1 DEF In
  <2>2. ASSUME NEW u \in In(q, s) PROVE u \in In(p, s)
    BY <1>2 DEF In
  <2>3. ASSUME NEW u \in In(b, s) PROVE u \in In(p, s)
    BY <1>2 DEF In
  <2> QED BY <2>1, <2>2, <2>3
<1>4. \A i \in 1..Len(p) : Ends(p[i], s) => i \in 1..Len(q) /\ p[i] = q[i]
  BY <1>2
<1>5. (EndsIn(p, s) <=> EndsIn(q, s)) /\ (EndsOnce(q, s) => EndsOnce(p, s))
  BY <1>2, <1>4 DEF EndsIn, EndsOnce
<1>6. ASSUME Ascending(q, s), Ascending(b, s),
             \A u \in In(q, s), v \in In(b, s) : u.n < v.n,
             NEW i \in 1..Len(p), NEW j \in 1..Len(p), i < j, Mine(p[i], s), Mine(p[j], s)
      PROVE  p[i].n < p[j].n
  <2>1. CASE j \in 1..Len(q)
    <3>1. i \in 1..Len(q) /\ p[i] = q[i] /\ p[j] = q[j]
      BY <1>1, <1>2, <1>6, <2>1
    <3> QED BY <1>6, <2>1, <3>1 DEF Ascending
  <2>2. CASE i \notin 1..Len(q)
    <3>1. /\ i - Len(q) \in 1..Len(b) /\ p[i] = b[i - Len(q)]
          /\ j - Len(q) \in 1..Len(b) /\ p[j] = b[j - Len(q)]
          /\ i - Len(q) < j - Len(q)
      BY <1>1, <1>6, <2>2
    <3> QED BY <1>6, <3>1 DEF Ascending
  <2>3. CASE i \in 1..Len(q) /\ j \notin 1..Len(q)
    <3>1. p[i] \in In(q, s) /\ p[j] \in In(b, s)
      BY <1>2, <1>6, <2>3 DEF In
    <3> QED BY <1>6, <3>1
  <2> QED BY <2>1, <2>2, <2>3
<1> QED BY <1>3, <1>5, <1>6 DEF Ascending, p

LEMMA TailFacts ==
    ASSUME NEW q \in Seq(Up), q # <<>>, NEW s
    PROVE  /\ In(q, s) = In(Tail(q), s) \cup (IF Mine(Head(q), s) THEN {Head(q)} ELSE {})
           /\ EndsIn(q, s) <=> (EndsIn(Tail(q), s) \/ Ends(Head(q), s))
           /\ EndsOnce(q, s) => /\ EndsOnce(Tail(q), s)
                                /\ Ends(Head(q), s) => ~EndsIn(Tail(q), s)
           /\ Ascending(q, s) => /\ Ascending(Tail(q), s)
                                 /\ Mine(Head(q), s) =>
                                       \A u \in In(Tail(q), s) : Head(q).n < u.n
<1> DEFINE p == Tail(q)
           x == Head(q)
<1>1. /\ Len(p) = Len(q) - 1 /\ Len(q) \in Nat \ {0} /\ x = q[1]
      /\ \A i \in 1..Len(p) : p[i] = q[i + 1]
  BY HeadTailProperties, LenProperties, EmptySeq
<1> HIDE DEF p, x
<1>2. /\ \A i \in 1..Len(q) : i = 1 \/ (i - 1 \in 1..Len(p) /\ (i - 1) + 1 = i)
      /\ \A i \in 1..Len(p) : i + 1 \in 1..Len(q) /\ i + 1 # 1
      /\ 1 \in 1..Len(q)
  BY <1>1
<1>3. \A i \in 1..Len(q) : i = 1 \/ (i - 1 \in 1..Len(p) /\ p[i - 1] = q[i])
  BY <1>1, <1>2
<1>4. In(q, s) = In(p, s) \cup (IF Mine(x, s) THEN {x} ELSE {})
  <2>1. ASSUME NEW u \in In(q, s) PROVE u \in In(p, s) \/ (Mine(x, s) /\ u = x)
    BY <1>1, <1>3 DEF In
  <2>2. ASSUME NEW u \in In(p, s) PROVE u \in In(q, s)
    BY <1>1, <1>2 DEF In
  <2>3. Mine(x, s) => x \in In(q, s)
    BY <1>1, <1>2 DEF In
  <2> QED BY <2>1, <2>2, <2>3
<1>5. EndsIn(q, s) <=> (EndsIn(p, s) \/ Ends(x, s))
  BY <1>1, <1>2, <1>3 DEF EndsIn
<1>6. EndsOnce(q, s) => EndsOnce(p, s) /\ (Ends(x, s) => ~EndsIn(p, s))
  <2>1. ASSUME EndsOnce(q, s), NEW i \in 1..Len(p), NEW j \in 1..Len(p),
               Ends(p[i], s), Ends(p[j], s)
        PROVE  i = j
    <3>1. i + 1 = j + 1
      BY <1>1, <1>2, <2>1 DEF EndsOnce
    <3> QED BY <3>1, <1>1
  <2>2. ASSUME EndsOnce(q, s), Ends(x, s), NEW i \in 1..Len(p), Ends(p[i], s)
        PROVE  FALSE
    BY <1>1, <1>2, <2>2 DEF EndsOnce
  <2> QED BY <2>1, <2>2 DEF EndsOnce, EndsIn
<1>7. ASSUME Ascending(q, s)
      PROVE  Ascending(p, s) /\ (Mine(x, s) => \A u \in In(p, s) : x.n < u.n)
  <2>1. ASSUME NEW i \in 1..Len(p), NEW j \in 1..Len(p), i < j, Mine(p[i], s), Mine(p[j], s)
        PROVE  p[i].n < p[j].n
    <3>1. i + 1 < j + 1 /\ i + 1 \in 1..Len(q) /\ j + 1 \in 1..Len(q)
      BY <1>1, <2>1
    <3> QED BY <1>1, <1>7, <2>1, <3>1 DEF Ascending
  <2>2. ASSUME Mine(x, s), NEW i \in 1..Len(p), Mine(p[i], s) PROVE x.n < p[i].n
    <3>1. 1 < i + 1 /\ i + 1 \in 1..Len(q)
      BY <1>1
    <3> QED BY <1>1, <1>2, <1>7, <2>2, <3>1 DEF Ascending
  <2> QED BY <2>1, <2>2 DEF Ascending, In
<1> QED BY <1>4, <1>5, <1>6, <1>7 DEF p, x

-------------------------------------------------------------------------------
(* What the gate's steps do to one session's lane *)

Pend(s) == IF s \in DOMAIN lanes THEN lanes[s].pending ELSE <<>>
Owed(s) == s \in DOMAIN lanes /\ lanes[s].closing

LaneKept(s) == Pend(s)' = Pend(s) /\ (Owed(s)' <=> Owed(s))

LEMMA PendType ==
    ASSUME TypeOK, NEW s PROVE Pend(s) \in Seq(Up)
BY EmptySeq DEF TypeOK, Lane, Pend

LEMMA EnqueueMoves ==
    ASSUME TypeOK, NEW up \in Up, EnqueueUp(up)
    PROVE  /\ \A t \in Session : t # up.sess => LaneKept(t)
           /\ Owed(up.sess)' <=> Owed(up.sess)
           /\ \/ /\ up.sess \in DOMAIN lanes /\ batch' = batch
                 /\ Pend(up.sess)' = Append(Pend(up.sess), up)
              \/ /\ up.sess \notin DOMAIN lanes /\ batch' = batch \cup {up}
                 /\ Pend(up.sess)' = Pend(up.sess)
<1> DEFINE s == up.sess
<1>1. CASE s \in DOMAIN lanes
  <2>1. lanes' = [lanes EXCEPT ![s].pending = Append(@, up)] /\ batch' = batch
    BY <1>1 DEF EnqueueUp
  <2>2. lanes \in [DOMAIN lanes -> Lane] /\ lanes[s] \in Lane
    BY <1>1 DEF TypeOK
  <2>3. /\ DOMAIN lanes' = DOMAIN lanes
        /\ lanes'[s].pending = Append(lanes[s].pending, up)
        /\ lanes'[s].closing = lanes[s].closing
        /\ \A t \in DOMAIN lanes : t # s => lanes'[t] = lanes[t]
    BY <1>1, <2>1, <2>2 DEF Lane
  <2> HIDE DEF s
  <2>4. Pend(s)' = Append(Pend(s), up) /\ (Owed(s)' <=> Owed(s))
    BY <1>1, <2>3 DEF Pend, Owed
  <2>5. \A t \in Session : t # s => LaneKept(t)
    BY <2>3 DEF Pend, Owed, LaneKept
  <2> QED BY <1>1, <2>1, <2>4, <2>5 DEF s
<1>2. CASE s \notin DOMAIN lanes
  <2>1. lanes' = WithLane(s, EmptyLane(FALSE)) /\ batch' = batch \cup {up}
    BY <1>2 DEF EnqueueUp
  <2>2. /\ DOMAIN lanes' = DOMAIN lanes \cup {s}
        /\ lanes'[s].pending = <<>> /\ lanes'[s].closing = FALSE
        /\ \A t \in DOMAIN lanes : t # s => lanes'[t] = lanes[t]
    BY <2>1 DEF WithLane, EmptyLane
  <2> HIDE DEF s
  <2>3. Pend(s)' = Pend(s) /\ (Owed(s)' <=> Owed(s))
    BY <1>2, <2>2 DEF Pend, Owed
  <2>4. \A t \in Session : t # s => LaneKept(t)
    BY <2>2 DEF Pend, Owed, LaneKept
  <2> QED BY <1>2, <2>1, <2>3, <2>4 DEF s
<1> QED BY <1>1, <1>2

LEMMA CloseMoves ==
    ASSUME TypeOK, NEW s \in Session, HandleClose(s)
    PROVE  /\ \A t \in Session : t # s => LaneKept(t)
           /\ Pend(s)' = <<>>
           /\ \/ s \in DOMAIN lanes /\ batch' = batch /\ Owed(s)'
              \/ s \notin DOMAIN lanes /\ batch' = batch \cup {Closed(s)} /\ ~Owed(s)' /\ ~Owed(s)
<1>1. CASE s \in DOMAIN lanes
  <2>1. lanes' = [lanes EXCEPT ![s] = EmptyLane(TRUE)] /\ batch' = batch
    BY <1>1 DEF HandleClose
  <2> QED BY <1>1, <2>1 DEF TypeOK, Pend, Owed, LaneKept, EmptyLane
<1>2. CASE s \notin DOMAIN lanes
  <2>1. lanes' = WithLane(s, EmptyLane(FALSE)) /\ batch' = batch \cup {Closed(s)}
    BY <1>2 DEF HandleClose
  <2>2. /\ DOMAIN lanes' = DOMAIN lanes \cup {s}
        /\ lanes'[s].pending = <<>> /\ lanes'[s].closing = FALSE
        /\ \A t \in DOMAIN lanes : t # s => lanes'[t] = lanes[t]
    BY <2>1 DEF WithLane, EmptyLane
  <2> QED BY <1>2, <2>1, <2>2 DEF Pend, Owed, LaneKept
<1> QED BY <1>1, <1>2

LEMMA AdvanceMoves ==
    ASSUME TypeOK, NEW s \in DOMAIN lanes, AdvanceLane(s)
    PROVE  /\ \A t \in Session : t # s => LaneKept(t)
           /\ ~Owed(s)'
           /\ \/ Owed(s) /\ batch' = batch \cup {Closed(s)} /\ Pend(s)' = Pend(s)
              \/ /\ ~Owed(s) /\ Pend(s) # <<>> /\ batch' = batch \cup {Head(Pend(s))}
                 /\ Pend(s)' = Tail(Pend(s))
              \/ ~Owed(s) /\ batch' = batch /\ Pend(s)' = Pend(s)
<1>1. lanes \in [DOMAIN lanes -> Lane] /\ lanes[s] \in Lane
  BY DEF TypeOK
<1>2. CASE lanes[s].closing
  <2>1. lanes' = [lanes EXCEPT ![s].closing = FALSE] /\ batch' = batch \cup {Closed(s)}
    BY <1>2 DEF AdvanceLane
  <2>2. /\ DOMAIN lanes' = DOMAIN lanes
        /\ lanes'[s].pending = lanes[s].pending /\ lanes'[s].closing = FALSE
        /\ \A t \in DOMAIN lanes : t # s => lanes'[t] = lanes[t]
    BY <1>1, <2>1 DEF Lane
  <2> QED BY <1>2, <2>1, <2>2 DEF Pend, Owed, LaneKept
<1>3. CASE ~lanes[s].closing /\ lanes[s].pending # <<>>
  <2>1. /\ lanes' = [lanes EXCEPT ![s].pending = Tail(@)]
        /\ batch' = batch \cup {Head(lanes[s].pending)}
    BY <1>3 DEF AdvanceLane
  <2>2. /\ DOMAIN lanes' = DOMAIN lanes
        /\ lanes'[s].pending = Tail(lanes[s].pending)
        /\ lanes'[s].closing = lanes[s].closing
        /\ \A t \in DOMAIN lanes : t # s => lanes'[t] = lanes[t]
    BY <1>1, <2>1 DEF Lane
  <2> QED BY <1>3, <2>1, <2>2 DEF Pend, Owed, LaneKept
<1>4. CASE ~lanes[s].closing /\ lanes[s].pending = <<>>
  <2>1. lanes' = WithoutLanes({s}) /\ batch' = batch
    BY <1>4 DEF AdvanceLane
  <2>2. /\ DOMAIN lanes' = DOMAIN lanes \ {s}
        /\ \A t \in DOMAIN lanes : t # s => lanes'[t] = lanes[t]
    BY <2>1 DEF WithoutLanes
  <2> QED BY <1>4, <2>1, <2>2 DEF Pend, Owed, LaneKept
<1> QED BY <1>2, <1>3, <1>4

\* A refused batch takes the lanes of its sessions with it, and what is lost is refused.
LEMMA SubmitMoves ==
    ASSUME IInv, Submit, NEW t \in Session
    PROVE  /\ refused[t] \subseteq refused'[t]
           /\ \/ /\ LaneKept(t)
                 /\ tasks' = tasks \cup batch \/ \A u \in batch : u.sess # t
              \/ /\ t \in DOMAIN lanes /\ LostWith(t) \subseteq refused'[t]
                 /\ Pend(t)' = <<>> /\ ~Owed(t)'
<1>1. CASE Fits
  BY <1>1 DEF Submit, LaneKept, Pend, Owed
<1>2. CASE ~Fits
  <2> DEFINE S == SessionsOf(batch)
  <2>1. /\ lanes' = WithoutLanes(S)
        /\ refused'[t] = IF t \in S THEN refused[t] \cup LostWith(t) ELSE refused[t]
    BY <1>2 DEF Submit, SessionsOf
  <2>2. S \subseteq DOMAIN lanes /\ \A u \in batch : u.sess \in S
    BY DEF IInv, OneFlight, SessionsOf
  <2> HIDE DEF S
  <2>3. /\ DOMAIN lanes' = DOMAIN lanes \ S
        /\ \A r \in DOMAIN lanes \ S : lanes'[r] = lanes[r]
    BY <2>1 DEF WithoutLanes
  <2>4. CASE t \in S
    BY <2>1, <2>2, <2>3, <2>4 DEF Pend, Owed
  <2>5. CASE t \notin S
    BY <2>1, <2>2, <2>3, <2>5 DEF Pend, Owed, LaneKept
  <2> QED BY <2>4, <2>5
<1> QED BY <1>1, <1>2

-------------------------------------------------------------------------------
(* Events that have left their lane and not been acted on *)

Popped == {worker[w].up : w \in {v \in Worker : worker[v].step = "popped"}}
Admitted == {worker[w].up : w \in {v \in Worker : worker[v].step = "admitted"}}
Unacted == batch \cup tasks \cup Popped \cup Admitted

LEMMA UnactedFacts ==
    ASSUME IInv
    PROVE  /\ Unacted \subseteq Up
           /\ \A u, v \in Unacted : u.sess = v.sess => u = v
           /\ \A u \in Unacted : u.sess \in DOMAIN lanes
           /\ \A u \in Unacted : \A r \in results : u.sess # r.sess
<1> DEFINE Held == Popped \cup Admitted
<1>0. \A u \in Held : \E w \in Busy : u = worker[w].up
  BY DEF Popped, Admitted, Busy
<1>1. Held \subseteq Up /\ \A u \in Held : u.sess \in OnWorkers
  BY <1>0 DEF IInv, BusyRuns, OnWorkers
<1>2. \A u, v \in Held : u.sess = v.sess => u = v
  BY <1>0 DEF IInv, OneFlight, OnePerWorker
<1>3. /\ \A u \in batch : u.sess \in SessionsOf(batch)
      /\ \A u \in tasks : u.sess \in SessionsOf(tasks)
      /\ \A r \in results : r.sess \in SessionsOf(results)
  BY DEF SessionsOf
<1>4. Unacted \subseteq Up
  BY <1>1 DEF Unacted, IInv, TypeOK
<1>5. ASSUME NEW u \in Unacted, NEW v \in Unacted, u.sess = v.sess PROVE u = v
  BY <1>1, <1>2, <1>3, <1>5 DEF Unacted, IInv, OneFlight, OnePerSession
<1>6. ASSUME NEW u \in Unacted
      PROVE  u.sess \in DOMAIN lanes /\ \A r \in results : u.sess # r.sess
  BY <1>1, <1>3 DEF Unacted, IInv, OneFlight
<1> QED BY <1>4, <1>5, <1>6

LEMMA UplinkMoves ==
    ASSUME IInv, SortUplink
    PROVE  \E x \in Up :
             /\ x.sess \in Session /\ uplink \in Seq(Up) /\ uplink # <<>>
             /\ x = Head(uplink) /\ uplink' = Tail(uplink) /\ Admitted' = Admitted
             /\ \A t \in Session : t # x.sess => LaneKept(t)
             /\ x.kind = "CLOSED" =>
                   /\ Pend(x.sess)' = <<>>
                   /\ \/ Unacted' = Unacted
                      \/ /\ Unacted' = Unacted \cup {Closed(x.sess)} /\ ~Owed(x.sess)'
                         /\ \A u \in Unacted : u.sess # x.sess
             /\ x.kind # "CLOSED" =>
                   /\ Owed(x.sess)' <=> Owed(x.sess)
                   /\ \/ /\ Unacted' = Unacted
                         /\ Pend(x.sess)' = Append(Pend(x.sess), x)
                      \/ /\ Unacted' = Unacted \cup {x} /\ Pend(x.sess)' = Pend(x.sess)
                         /\ Pend(x.sess) = <<>> /\ \A u \in Unacted : u.sess # x.sess
<1>1. /\ uplink \in Seq(Up) /\ uplink # <<>> /\ uplink' = Tail(uplink)
      /\ UNCHANGED <<tasks, worker>>
  BY DEF IInv, TypeOK, SortUplink, poolVars
<1>2. PICK x \in Up : x = Head(uplink) /\ x.sess \in Session
  <2>1. Head(uplink) \in Up
    BY <1>1, HeadTailProperties
  <2> QED BY <2>1 DEF Up
<1>3. Admitted' = Admitted /\ Popped' = Popped
  BY <1>1 DEF Admitted, Popped
<1>4. /\ batch' = batch => Unacted' = Unacted
      /\ \A y : batch' = batch \cup {y} => Unacted' = Unacted \cup {y}
  BY <1>1, <1>3 DEF Unacted
<1>5. x.sess \notin DOMAIN lanes => Pend(x.sess) = <<>> /\ \A u \in Unacted : u.sess # x.sess
  BY UnactedFacts DEF Pend
<1>6. CASE x.kind = "CLOSED"
  <2>1. HandleClose(x.sess) /\ TypeOK
    BY <1>2, <1>6 DEF SortUplink, IInv
  <2>2. /\ \A t \in Session : t # x.sess => LaneKept(t)
        /\ Pend(x.sess)' = <<>>
        /\ \/ x.sess \in DOMAIN lanes /\ batch' = batch
           \/ x.sess \notin DOMAIN lanes /\ batch' = batch \cup {Closed(x.sess)} /\ ~Owed(x.sess)'
    BY <1>2, <2>1, CloseMoves
  <2> QED BY <1>1, <1>2, <1>3, <1>4, <1>5, <1>6, <2>2
<1>7. CASE x.kind # "CLOSED"
  <2>1. EnqueueUp(x) /\ TypeOK
    BY <1>2, <1>7 DEF SortUplink, IInv
  <2>2. /\ \A t \in Session : t # x.sess => LaneKept(t)
        /\ Owed(x.sess)' <=> Owed(x.sess)
        /\ \/ x.sess \in DOMAIN lanes /\ batch' = batch /\ Pend(x.sess)' = Append(Pend(x.sess), x)
           \/ x.sess \notin DOMAIN lanes /\ batch' = batch \cup {x} /\ Pend(x.sess)' = Pend(x.sess)
    BY <1>2, <2>1, EnqueueMoves
  <2> QED BY <1>1, <1>2, <1>3, <1>4, <1>5, <1>7, <2>2
<1> QED BY <1>6, <1>7

LEMMA ResultMoves ==
    ASSUME IInv, SortResult
    PROVE  \E r \in results :
             /\ results' = results \ {r} /\ outgoing' = outgoing \cup r.frames
             /\ r.sess \in Session /\ \A u \in Unacted : u.sess # r.sess
             /\ Admitted' = Admitted
             /\ \A t \in Session : t # r.sess => LaneKept(t)
             /\ ~Owed(r.sess)'
             /\ \/ /\ Owed(r.sess) /\ Unacted' = Unacted \cup {Closed(r.sess)}
                   /\ Pend(r.sess)' = Pend(r.sess)
                \/ /\ ~Owed(r.sess) /\ Pend(r.sess) # <<>>
                   /\ Unacted' = Unacted \cup {Head(Pend(r.sess))}
                   /\ Pend(r.sess)' = Tail(Pend(r.sess))
                \/ ~Owed(r.sess) /\ Unacted' = Unacted /\ Pend(r.sess)' = Pend(r.sess)
<1>1. PICK r \in results : /\ results' = results \ {r} /\ outgoing' = outgoing \cup r.frames
                           /\ AdvanceLane(r.sess)
  BY DEF SortResult
<1>2. r.sess \in DOMAIN lanes /\ r.sess \in Session /\ UNCHANGED <<tasks, worker>> /\ TypeOK
  BY DEF IInv, OneFlight, SessionsOf, TypeOK, SortResult
<1>3. Admitted' = Admitted /\ Popped' = Popped
  BY <1>2 DEF Admitted, Popped
<1>4. /\ batch' = batch => Unacted' = Unacted
      /\ \A y : batch' = batch \cup {y} => Unacted' = Unacted \cup {y}
  BY <1>2, <1>3 DEF Unacted
<1>5. \A u \in Unacted : u.sess # r.sess
  BY UnactedFacts
<1>6. /\ \A t \in Session : t # r.sess => LaneKept(t)
      /\ ~Owed(r.sess)'
      /\ \/ Owed(r.sess) /\ batch' = batch \cup {Closed(r.sess)} /\ Pend(r.sess)' = Pend(r.sess)
         \/ /\ ~Owed(r.sess) /\ Pend(r.sess) # <<>> /\ batch' = batch \cup {Head(Pend(r.sess))}
            /\ Pend(r.sess)' = Tail(Pend(r.sess))
         \/ ~Owed(r.sess) /\ batch' = batch /\ Pend(r.sess)' = Pend(r.sess)
  BY <1>1, <1>2, AdvanceMoves
<1> QED BY <1>1, <1>2, <1>3, <1>4, <1>5, <1>6

LEMMA RoundMoves ==
    ASSUME IInv, EndRound, NEW t \in Session
    PROVE  /\ Unacted' \subseteq Unacted /\ Admitted' = Admitted
           /\ refused[t] \subseteq refused'[t]
           /\ \/ LaneKept(t) /\ \A u \in Unacted : u.sess = t => u \in Unacted'
              \/ /\ Pend(t)' = <<>> /\ ~Owed(t)'
                 /\ \A u \in Unacted : u.sess = t => u \in Unacted' \/ u.n \in refused'[t]
                 /\ \A u \in In(Pend(t), t) : u.n \in refused'[t]
<1>1. /\ refused[t] \subseteq refused'[t]
      /\ \/ /\ LaneKept(t)
            /\ tasks' = tasks \cup batch \/ \A u \in batch : u.sess # t
         \/ /\ t \in DOMAIN lanes /\ LostWith(t) \subseteq refused'[t]
            /\ Pend(t)' = <<>> /\ ~Owed(t)'
  BY SubmitMoves DEF EndRound
<1>2. Admitted' = Admitted /\ Popped' = Popped
  BY DEF EndRound, Admitted, Popped
<1>3. batch' = {} /\ (tasks' = tasks \cup batch \/ tasks' = tasks)
  BY DEF EndRound, Submit
<1>4. Unacted' \subseteq Unacted
  BY <1>2, <1>3 DEF Unacted
<1>5. CASE LaneKept(t) /\ (tasks' = tasks \cup batch \/ \A u \in batch : u.sess # t)
  <2>1. \A u \in Unacted : u.sess = t => u \in Unacted'
    BY <1>2, <1>3, <1>5 DEF Unacted
  <2> QED BY <1>1, <1>2, <1>4, <1>5, <2>1
<1>6. CASE /\ t \in DOMAIN lanes /\ LostWith(t) \subseteq refused'[t]
           /\ Pend(t)' = <<>> /\ ~Owed(t)'
  <2>1. /\ \A u \in batch : u.sess = t => u.n \in refused'[t]
        /\ \A i \in 1..Len(lanes[t].pending) : lanes[t].pending[i].n \in refused'[t]
    BY <1>6, LostType
  <2>2. \A u \in Unacted : u.sess = t => u \in Unacted' \/ u.n \in refused'[t]
    BY <1>2, <1>3, <2>1 DEF Unacted
  <2>3. \A u \in In(Pend(t), t) : u.n \in refused'[t]
    BY <1>6, <2>1 DEF In, Pend
  <2> QED BY <1>1, <1>2, <1>4, <1>6, <2>2, <2>3
<1> QED BY <1>1, <1>5, <1>6

LEMMA PopMoves ==
    ASSUME IInv, NEW w \in Worker, Pop(w)
    PROVE  Unacted' = Unacted /\ Admitted' = Admitted
<1>1. PICK up \in tasks :
         /\ tasks' = tasks \ {up}
         /\ worker' = [worker EXCEPT ![w] = [step |-> "popped", up |-> up, frames |-> {}]]
  BY DEF Pop
<1>2. worker[w].step = "idle" /\ batch' = batch
  BY DEF Pop, ctrlVars
<1>3. /\ worker'[w].up = up /\ worker'[w].step = "popped"
      /\ \A v \in Worker : v # w => worker'[v] = worker[v]
  BY <1>1 DEF IInv, TypeOK
<1>4. Admitted' = Admitted
  <2>1. \A v \in Worker : worker'[v].step = "admitted" <=> worker[v].step = "admitted"
    BY <1>2, <1>3
  <2>2. \A v \in Worker : worker[v].step = "admitted" => worker'[v].up = worker[v].up
    BY <1>2, <1>3
  <2> QED BY <2>1, <2>2 DEF Admitted
<1>5. Popped' = Popped \cup {up}
  <2>1. ASSUME NEW u \in Popped' PROVE u \in Popped \cup {up}
    BY <1>3 DEF Popped
  <2>2. ASSUME NEW u \in Popped PROVE u \in Popped'
    BY <1>2, <1>3 DEF Popped
  <2>3. up \in Popped'
    BY <1>3 DEF Popped
  <2> QED BY <2>1, <2>2, <2>3
<1> QED BY <1>1, <1>2, <1>4, <1>5 DEF Unacted

LEMMA AdmitMoves ==
    ASSUME IInv, NEW w \in Worker, Admit(w)
    PROVE  \E up \in Unacted :
             /\ Unacted' \subseteq Unacted
             /\ Admits(up) => Unacted' = Unacted /\ Admitted' = Admitted \cup {up}
             /\ ~Admits(up) => /\ Admitted' = Admitted
                               /\ \A u \in Unacted : u # up => u \in Unacted'
<1>1. PICK up : up = worker[w].up
  OBVIOUS
<1>2. worker[w].step = "popped" /\ UNCHANGED <<batch, tasks>>
  BY DEF Admit, ctrlVars
<1>3. /\ worker'[w].up = up
      /\ worker'[w].step = (IF Admits(up) THEN "admitted" ELSE "made")
      /\ \A v \in Worker : v # w => worker'[v] = worker[v]
  BY <1>1 DEF IInv, TypeOK, Admit
<1>4. up \in Popped
  BY <1>1, <1>2 DEF Popped
<1>5. Admitted' = IF Admits(up) THEN Admitted \cup {up} ELSE Admitted
  <2>1. ASSUME NEW u \in Admitted' PROVE u \in Admitted \/ (Admits(up) /\ u = up)
    BY <1>3 DEF Admitted
  <2>2. ASSUME NEW u \in Admitted PROVE u \in Admitted'
    BY <1>2, <1>3 DEF Admitted
  <2>3. Admits(up) => up \in Admitted'
    BY <1>3 DEF Admitted
  <2> QED BY <2>1, <2>2, <2>3
<1>6. Popped' \subseteq Popped /\ \A u \in Popped : u # up => u \in Popped'
  <2>1. ASSUME NEW u \in Popped' PROVE u \in Popped
    <3>1. PICK v \in Worker : worker'[v].step = "popped" /\ u = worker'[v].up
      BY DEF Popped
    <3>2. v # w
      BY <1>3, <3>1
    <3> QED BY <1>3, <3>1, <3>2 DEF Popped
  <2>2. ASSUME NEW u \in Popped, u # up PROVE u \in Popped'
    <3>1. PICK v \in Worker : worker[v].step = "popped" /\ u = worker[v].up
      BY DEF Popped
    <3>2. v # w
      BY <1>1, <2>2, <3>1
    <3> QED BY <1>3, <3>1, <3>2 DEF Popped
  <2> QED BY <2>1, <2>2
<1> QED BY <1>2, <1>4, <1>5, <1>6 DEF Unacted

LEMMA ActMoves ==
    ASSUME IInv, NEW w \in Worker, Act(w)
    PROVE  /\ worker[w].up \in Admitted
           /\ Unacted' = Unacted \ {worker[w].up} /\ Admitted' = Admitted \ {worker[w].up}
<1> DEFINE up == worker[w].up
<1>1. /\ worker[w].step = "admitted" /\ UNCHANGED <<batch, tasks>> /\ w \in Busy
      /\ worker' = [worker EXCEPT ![w] = [@ EXCEPT !.step = "made",
                                                  !.frames = Tell(Told(up), up)]]
  BY DEF Act, ctrlVars, Busy
<1>2. worker'[w].step = "made" /\ \A v \in Worker : v # w => worker'[v] = worker[v]
  BY <1>1 DEF IInv, TypeOK
<1>3. \A v \in Busy : v # w => worker[v].up.sess # up.sess
  BY <1>1 DEF IInv, OneFlight, OnePerWorker
<1>4. up.sess \in OnWorkers
  BY <1>1 DEF OnWorkers
<1>5. \A u \in batch \cup tasks : u.sess # up.sess
  BY <1>4 DEF IInv, OneFlight, SessionsOf
<1>6. up \in Admitted
  BY <1>1 DEF Admitted
<1> HIDE DEF up
<1>7. Admitted' = Admitted \ {up}
  <2>1. ASSUME NEW u \in Admitted' PROVE u \in Admitted /\ u # up
    <3>1. PICK v \in Worker : worker'[v].step = "admitted" /\ u = worker'[v].up
      BY DEF Admitted
    <3>2. v # w
      BY <1>2, <3>1
    <3>3. worker[v].step = "admitted" /\ u = worker[v].up /\ v \in Busy
      BY <1>2, <3>1, <3>2 DEF Busy
    <3> QED BY <1>3, <3>2, <3>3 DEF Admitted
  <2>2. ASSUME NEW u \in Admitted, u # up PROVE u \in Admitted'
    <3>1. PICK v \in Worker : worker[v].step = "admitted" /\ u = worker[v].up
      BY DEF Admitted
    <3>2. v # w
      BY <2>2, <3>1 DEF up
    <3> QED BY <1>2, <3>1, <3>2 DEF Admitted
  <2> QED BY <2>1, <2>2
<1>8. Popped' = Popped /\ up \notin Popped
  <2>1. \A v \in Worker : worker'[v].step = "popped" <=> worker[v].step = "popped"
    BY <1>1, <1>2
  <2>2. \A v \in Worker : worker[v].step = "popped" => worker'[v].up = worker[v].up
    BY <1>1, <1>2
  <2>3. Popped' = Popped
    BY <2>1, <2>2 DEF Popped
  <2>4. \A v \in Worker : worker[v].step = "popped" => v \in Busy /\ v # w
    BY <1>1 DEF Busy
  <2> QED BY <1>3, <2>3, <2>4 DEF Popped
<1> QED BY <1>1, <1>5, <1>6, <1>7, <1>8 DEF Unacted, up

LEMMA PostMoves ==
    ASSUME IInv, NEW w \in Worker, PostResult(w)
    PROVE  Unacted' = Unacted /\ Admitted' = Admitted
<1>1. /\ worker[w].step = "made" /\ UNCHANGED <<batch, tasks>>
      /\ worker' = [worker EXCEPT ![w] = Idle]
  BY DEF PostResult, ctrlVars
<1>2. worker'[w].step = "idle" /\ \A v \in Worker : v # w => worker'[v] = worker[v]
  BY <1>1 DEF IInv, TypeOK, Idle
<1>3. Admitted' = Admitted
  <2>1. \A v \in Worker : worker'[v].step = "admitted" <=> worker[v].step = "admitted"
    BY <1>1, <1>2
  <2>2. \A v \in Worker : worker[v].step = "admitted" => worker'[v].up = worker[v].up
    BY <1>1, <1>2
  <2> QED BY <2>1, <2>2 DEF Admitted
<1>4. Popped' = Popped
  <2>1. \A v \in Worker : worker'[v].step = "popped" <=> worker[v].step = "popped"
    BY <1>1, <1>2
  <2>2. \A v \in Worker : worker[v].step = "popped" => worker'[v].up = worker[v].up
    BY <1>1, <1>2
  <2> QED BY <2>1, <2>2 DEF Popped
<1> QED BY <1>1, <1>3, <1>4 DEF Unacted

-------------------------------------------------------------------------------
(* The end of a session *)

Ending(s) == \E u \in Unacted : Ends(u, s)

PendMine(s) == \A i \in 1..Len(Pend(s)) : Mine(Pend(s)[i], s)

\* CLOSED of a session is, once the connection is closed, in one place at most on its way
\* from the uplink to the cleanup, and no message of a cleaned-up session is acted on.
EndsOk(s) ==
    /\ alive[s] <=> io[s] = "open"
    /\ EndsIn(uplink, s) \/ Owed(s) \/ Ending(s) \/ cleanups[s] > 0 => io[s] = "closed"
    /\ EndsOnce(uplink, s)
    /\ EndsIn(uplink, s) => ~Owed(s) /\ ~Ending(s) /\ cleanups[s] = 0
    /\ Owed(s) => ~Ending(s) /\ cleanups[s] = 0
    /\ Ending(s) => cleanups[s] = 0
    /\ \A u \in Unacted : Ends(u, s) => u = Closed(s)
    /\ cleanups[s] > 0 => s \notin members /\ \A u \in Admitted : u.sess # s
    /\ PendMine(s)

AllEndsOk == \A s \in Session : EndsOk(s)

LEMMA InitEndsOk == Init => AllEndsOk
<1> SUFFICES ASSUME Init, NEW s \in Session PROVE EndsOk(s)
  BY DEF AllEndsOk
<1>1. uplink = <<>> /\ lanes = <<>> /\ DOMAIN lanes = {} /\ batch = {} /\ tasks = {}
      /\ cleanups[s] = 0 /\ alive[s] /\ io[s] = "open"
  BY DEF Init
<1>2. Admitted = {} /\ Unacted = {}
  BY <1>1 DEF Init, Admitted, Popped, Unacted, Idle
<1>3. Pend(s) = <<>> /\ ~Owed(s) /\ Len(<<>>) = 0
  BY <1>1 DEF Pend, Owed
<1> QED BY <1>1, <1>2, <1>3, NothingIn DEF EndsOk, Ending, PendMine

\* A step that brings the session no nearer to its end.
LEMMA EndsKept ==
    ASSUME NEW s \in Session, EndsOk(s),
           io'[s] = io[s], alive'[s] = alive[s], cleanups'[s] = cleanups[s],
           EndsIn(uplink', s) => EndsIn(uplink, s), EndsOnce(uplink', s),
           Owed(s)' => Owed(s),
           \A u \in Unacted' : Ends(u, s) => u \in Unacted,
           cleanups[s] > 0 => /\ s \in members' => s \in members
                              /\ \A u \in Admitted' : u.sess = s => u \in Admitted,
           PendMine(s)'
    PROVE  EndsOk(s)'
<1>1. Ending(s)' => Ending(s)
  BY DEF Ending
<1> QED BY <1>1 DEF EndsOk

LEMMA LaneKeptFacts ==
    ASSUME NEW s \in Session, LaneKept(s)
    PROVE  Pend(s)' = Pend(s) /\ (Owed(s)' <=> Owed(s)) /\ (PendMine(s) => PendMine(s)')
BY DEF LaneKept, PendMine

LEMMA LanesUnchanged ==
    ASSUME lanes' = lanes PROVE \A s \in Session : LaneKept(s)
BY DEF LaneKept, Pend, Owed

LEMMA PendChanges ==
    ASSUME TypeOK, NEW s \in Session, PendMine(s)
    PROVE  /\ Pend(s)' = <<>> => PendMine(s)'
           /\ \A x \in Up : Mine(x, s) /\ Pend(s)' = Append(Pend(s), x) => PendMine(s)'
           /\ Pend(s) # <<>> => /\ Head(Pend(s)) \in Up /\ Mine(Head(Pend(s)), s)
                                /\ Pend(s)' = Tail(Pend(s)) => PendMine(s)'
<1> DEFINE q == Pend(s)
<1>0. q \in Seq(Up)
  BY PendType
<1>1. Pend(s)' = <<>> => PendMine(s)'
  <2>1. Len(<<>>) = 0
    OBVIOUS
  <2> QED BY <2>1 DEF PendMine
<1>2. ASSUME NEW x \in Up, Mine(x, s), Pend(s)' = Append(q, x) PROVE PendMine(s)'
  <2>1. /\ Len(Append(q, x)) = Len(q) + 1 /\ Len(q) \in Nat /\ Append(q, x)[Len(q) + 1] = x
        /\ \A i \in 1..Len(q) : Append(q, x)[i] = q[i]
    BY <1>0, AppendProperties, LenProperties
  <2>2. \A i \in 1..Len(q) : Mine(q[i], s)
    BY DEF PendMine
  <2> HIDE DEF q
  <2>3. \A i \in 1..Len(Append(q, x)) : Mine(Append(q, x)[i], s)
    BY <1>2, <2>1, <2>2
  <2> QED BY <1>2, <2>3 DEF PendMine
<1>3. ASSUME q # <<>>
      PROVE  /\ Head(q) \in Up /\ Mine(Head(q), s)
             /\ Pend(s)' = Tail(q) => PendMine(s)'
  <2>1. /\ Len(Tail(q)) = Len(q) - 1 /\ Len(q) \in Nat \ {0} /\ Head(q) = q[1] /\ Head(q) \in Up
        /\ \A i \in 1..Len(Tail(q)) : Tail(q)[i] = q[i + 1]
    BY <1>0, <1>3, HeadTailProperties, LenProperties, EmptySeq
  <2>2. \A i \in 1..Len(q) : Mine(q[i], s)
    BY DEF PendMine
  <2> HIDE DEF q
  <2>3. \A i \in 1..Len(Tail(q)) : Mine(Tail(q)[i], s)
    BY <2>1, <2>2
  <2>4. Mine(Head(q), s)
    BY <2>1, <2>2
  <2> QED BY <2>1, <2>3, <2>4 DEF PendMine
<1> QED BY <1>1, <1>2, <1>3

LEMMA EndsStep ==
    ASSUME IInv, AllEndsOk, [Next]_vars, NEW s \in Session
    PROVE  EndsOk(s)'
<1>0. EndsOk(s) /\ TypeOK /\ uplink \in Seq(Up) /\ PendMine(s)
  BY DEF AllEndsOk, IInv, TypeOK, EndsOk
<1>1. ASSUME UNCHANGED <<io, alive, cleanups, uplink, lanes, members>>,
             Unacted' \subseteq Unacted,
             cleanups[s] > 0 => \A u \in Admitted' : u.sess = s => u \in Admitted
      PROVE  EndsOk(s)'
  <2>1. LaneKept(s)
    BY <1>1, LanesUnchanged
  <2>2. /\ EndsIn(uplink', s) => EndsIn(uplink, s)
        /\ Owed(s)' => Owed(s)
        /\ EndsOnce(uplink', s) /\ PendMine(s)'
    BY <1>0, <1>1, <2>1, LaneKeptFacts DEF EndsOk
  <2> QED BY <1>0, <1>1, <2>2, EndsKept
<1>2. ASSUME NEW t \in Session, Read(t) PROVE EndsOk(s)'
  <2>1. UNCHANGED <<io, alive, lanes, batch, tasks, worker, members, cleanups>>
    BY <1>0, <1>2, ReadMoves DEF ctrlVars, poolVars
  <2>2. PICK b \in Seq(Up) : uplink' = uplink \o b /\ \A i \in 1..Len(b) : b[i].kind # "CLOSED"
    BY <1>0, <1>2, ReadMoves
  <2>3. (EndsIn(uplink', s) => EndsIn(uplink, s)) /\ EndsOnce(uplink', s)
    <3>1. \A i \in 1..Len(b) : ~Ends(b[i], s)
      BY <2>2 DEF Ends
    <3> QED BY <1>0, <2>2, <3>1, ConcatFacts DEF EndsOk
  <2>4. Admitted' = Admitted /\ Unacted' = Unacted
    BY <2>1 DEF Admitted, Popped, Unacted
  <2>5. PendMine(s)' /\ (Owed(s)' => Owed(s))
    BY <1>0, <2>1, LanesUnchanged, LaneKeptFacts
  <2> QED BY <1>0, <2>1, <2>3, <2>4, <2>5, EndsKept
<1>3. ASSUME NEW t \in Session, BeginClose(t) PROVE EndsOk(s)'
  <2>1. /\ io[t] = "open" /\ alive' = [alive EXCEPT ![t] = FALSE] /\ io' = [io EXCEPT ![t] = "closing"]
        /\ UNCHANGED <<uplink, lanes, batch, tasks, worker, members, cleanups>>
    BY <1>3 DEF BeginClose, ctrlVars, poolVars
  <2>2. Admitted' = Admitted /\ Unacted' = Unacted
    BY <2>1 DEF Admitted, Popped, Unacted
  <2>3. PendMine(s)' /\ (Owed(s)' <=> Owed(s)) /\ (Ending(s)' <=> Ending(s))
    BY <1>0, <2>1, <2>2, LanesUnchanged, LaneKeptFacts DEF Ending
  <2>4. CASE s = t
    <3>1. ~alive'[s] /\ io'[s] = "closing"
      BY <1>0, <2>1, <2>4 DEF TypeOK
    <3> QED BY <1>0, <2>1, <2>2, <2>3, <2>4, <3>1 DEF EndsOk
  <2>5. CASE s # t
    <3>1. alive'[s] = alive[s] /\ io'[s] = io[s]
      BY <1>0, <2>1, <2>5 DEF TypeOK
    <3>2. EndsOnce(uplink', s) /\ uplink' = uplink
      BY <1>0, <2>1 DEF EndsOk
    <3> QED BY <1>0, <2>1, <2>2, <2>3, <3>1, <3>2, EndsKept
  <2> QED BY <2>4, <2>5
<1>4. ASSUME NEW t \in Session, UplinkClosed(t) PROVE EndsOk(s)'
  <2>1. /\ io[t] = "closing" /\ io' = [io EXCEPT ![t] = "closed"]
        /\ uplink' = Append(uplink, Closed(t))
        /\ UNCHANGED <<alive, lanes, batch, tasks, worker, members, cleanups>>
    BY <1>4 DEF UplinkClosed, ctrlVars, poolVars
  <2>2. Admitted' = Admitted /\ Unacted' = Unacted
    BY <2>1 DEF Admitted, Popped, Unacted
  <2>3. PendMine(s)' /\ (Owed(s)' <=> Owed(s)) /\ (Ending(s)' <=> Ending(s))
    BY <1>0, <2>1, <2>2, LanesUnchanged, LaneKeptFacts DEF Ending
  <2>4. Closed(t) \in Up /\ (Ends(Closed(t), s) <=> s = t)
    BY ClosedType DEF Ends, Closed
  <2>5. CASE s = t
    <3>1. /\ ~EndsIn(uplink, s) /\ ~Owed(s) /\ ~Ending(s) /\ ~(cleanups[s] > 0) /\ ~alive[s]
      BY <1>0, <2>1, <2>5 DEF EndsOk
    <3>2. cleanups[s] = 0
      BY <1>0, <3>1 DEF TypeOK
    <3>3. EndsOnce(uplink', s)
      BY <1>0, <2>1, <2>4, <3>1, AppendFacts DEF EndsOk
    <3>4. io'[s] = "closed"
      BY <1>0, <2>1, <2>5 DEF TypeOK
    <3> QED BY <1>0, <2>1, <2>2, <2>3, <3>1, <3>2, <3>3, <3>4 DEF EndsOk
  <2>6. CASE s # t
    <3>1. io'[s] = io[s]
      BY <1>0, <2>1, <2>6 DEF TypeOK
    <3>2. (EndsIn(uplink', s) => EndsIn(uplink, s)) /\ EndsOnce(uplink', s)
      BY <1>0, <2>1, <2>4, <2>6, AppendFacts DEF EndsOk
    <3> QED BY <1>0, <2>1, <2>2, <2>3, <3>1, <3>2, EndsKept
  <2> QED BY <2>5, <2>6
<1>5. CASE SortUplink
  <2>1. UNCHANGED <<io, alive, cleanups, members>>
    BY <1>5 DEF SortUplink, ioVars, poolVars
  <2>2. PICK x \in Up :
             /\ x.sess \in Session /\ uplink \in Seq(Up) /\ uplink # <<>>
             /\ x = Head(uplink) /\ uplink' = Tail(uplink) /\ Admitted' = Admitted
             /\ \A t \in Session : t # x.sess => LaneKept(t)
             /\ x.kind = "CLOSED" =>
                   /\ Pend(x.sess)' = <<>>
                   /\ \/ Unacted' = Unacted
                      \/ /\ Unacted' = Unacted \cup {Closed(x.sess)} /\ ~Owed(x.sess)'
                         /\ \A u \in Unacted : u.sess # x.sess
             /\ x.kind # "CLOSED" =>
                   /\ Owed(x.sess)' <=> Owed(x.sess)
                   /\ \/ /\ Unacted' = Unacted
                         /\ Pend(x.sess)' = Append(Pend(x.sess), x)
                      \/ /\ Unacted' = Unacted \cup {x} /\ Pend(x.sess)' = Pend(x.sess)
                         /\ Pend(x.sess) = <<>> /\ \A u \in Unacted : u.sess # x.sess
    BY <1>5, UplinkMoves
  <2>3. /\ EndsIn(uplink, s) <=> (EndsIn(uplink', s) \/ Ends(x, s))
        /\ EndsOnce(uplink', s) /\ (Ends(x, s) => ~EndsIn(uplink', s))
    BY <1>0, <2>2, TailFacts DEF EndsOk
  <2>4. \A u \in Unacted' : u \in Unacted \/ u = Closed(x.sess) \/ (u = x /\ x.kind # "CLOSED")
    BY <2>2
  <2>5. \A t \in Session : Closed(t).sess = t /\ Closed(t).kind = "CLOSED"
    BY DEF Closed
  <2>6. CASE s # x.sess
    <3>1. PendMine(s)' /\ (Owed(s)' => Owed(s))
      BY <1>0, <2>2, <2>6, LaneKeptFacts
    <3>2. \A u \in Unacted' : Ends(u, s) => u \in Unacted
      BY <2>2, <2>4, <2>5, <2>6 DEF Ends
    <3>3. ~Ends(x, s)
      BY <2>6 DEF Ends
    <3> QED BY <1>0, <2>1, <2>2, <2>3, <3>1, <3>2, <3>3, EndsKept
  <2>7. CASE s = x.sess /\ x.kind # "CLOSED"
    <3>1. Mine(x, s) /\ ~Ends(x, s)
      BY <2>7 DEF Mine, Ends
    <3>2. PendMine(s)'
      BY <1>0, <2>2, <2>7, <3>1, PendChanges DEF PendMine
    <3>3. \A u \in Unacted' : Ends(u, s) => u \in Unacted
      BY <2>2, <2>7, <3>1
    <3> QED BY <1>0, <2>1, <2>2, <2>3, <2>7, <3>1, <3>2, <3>3, EndsKept
  <2>8. CASE s = x.sess /\ x.kind = "CLOSED"
    <3>1. Ends(x, s)
      BY <2>8 DEF Ends
    <3>2. /\ EndsIn(uplink, s) /\ io[s] = "closed" /\ ~Owed(s) /\ ~Ending(s) /\ cleanups[s] = 0
          /\ ~EndsIn(uplink', s)
      BY <1>0, <2>3, <3>1 DEF EndsOk
    <3>3. PendMine(s)'
      BY <1>0, <2>2, <2>8, PendChanges
    <3>4. CASE Unacted' = Unacted
      <4>1. ~Ending(s)'
        BY <3>2, <3>4 DEF Ending
      <4> QED BY <1>0, <2>1, <2>2, <2>3, <3>2, <3>3, <3>4, <4>1 DEF EndsOk
    <3>5. CASE Unacted' = Unacted \cup {Closed(s)} /\ ~Owed(s)'
      <4>1. \A u \in Unacted' : Ends(u, s) => u = Closed(s)
        BY <1>0, <3>5 DEF EndsOk
      <4> QED BY <1>0, <2>1, <2>2, <2>3, <3>2, <3>3, <3>5, <4>1 DEF EndsOk
    <3> QED BY <2>2, <2>8, <3>4, <3>5
  <2> QED BY <2>6, <2>7, <2>8
<1>6. CASE SortResult
  <2>1. UNCHANGED <<io, alive, uplink, cleanups, members>>
    BY <1>6 DEF SortResult, ioVars
  <2>2. PICK r \in results :
             /\ results' = results \ {r} /\ outgoing' = outgoing \cup r.frames
             /\ r.sess \in Session /\ \A u \in Unacted : u.sess # r.sess
             /\ Admitted' = Admitted
             /\ \A t \in Session : t # r.sess => LaneKept(t)
             /\ ~Owed(r.sess)'
             /\ \/ /\ Owed(r.sess) /\ Unacted' = Unacted \cup {Closed(r.sess)}
                   /\ Pend(r.sess)' = Pend(r.sess)
                \/ /\ ~Owed(r.sess) /\ Pend(r.sess) # <<>>
                   /\ Unacted' = Unacted \cup {Head(Pend(r.sess))}
                   /\ Pend(r.sess)' = Tail(Pend(r.sess))
                \/ ~Owed(r.sess) /\ Unacted' = Unacted /\ Pend(r.sess)' = Pend(r.sess)
    BY <1>6, ResultMoves
  <2>3. PendMine(r.sess)
    BY <2>2 DEF AllEndsOk, EndsOk
  <2>4. Pend(r.sess) # <<>> => Mine(Head(Pend(r.sess)), r.sess)
    BY <1>0, <2>2, <2>3, PendChanges
  <2>5. Closed(r.sess).sess = r.sess /\ Ends(Closed(r.sess), r.sess)
    BY DEF Closed, Ends
  <2>6. CASE s # r.sess
    <3>1. PendMine(s)' /\ (Owed(s)' => Owed(s))
      BY <1>0, <2>2, <2>6, LaneKeptFacts
    <3>2. \A u \in Unacted' : Ends(u, s) => u \in Unacted
      BY <2>2, <2>4, <2>5, <2>6 DEF Ends, Mine
    <3>3. EndsOnce(uplink', s) /\ uplink' = uplink
      BY <1>0, <2>1 DEF EndsOk
    <3> QED BY <1>0, <2>1, <2>2, <3>1, <3>2, <3>3, EndsKept
  <2>7. CASE s = r.sess /\ ~Owed(s)
    <3>1. PendMine(s)'
      BY <1>0, <2>2, <2>7, PendChanges DEF PendMine
    <3>2. \A u \in Unacted' : Ends(u, s) => u \in Unacted
      BY <2>2, <2>4, <2>7 DEF Ends, Mine
    <3>3. EndsOnce(uplink', s) /\ uplink' = uplink
      BY <1>0, <2>1 DEF EndsOk
    <3> QED BY <1>0, <2>1, <2>2, <2>7, <3>1, <3>2, <3>3, EndsKept
  <2>8. CASE s = r.sess /\ Owed(s)
    <3>1. Unacted' = Unacted \cup {Closed(s)} /\ Pend(s)' = Pend(s) /\ ~Owed(s)'
      BY <2>2, <2>8
    <3>2. PendMine(s)'
      BY <1>0, <3>1 DEF PendMine
    <3>3. \A u \in Unacted' : Ends(u, s) => u = Closed(s)
      BY <1>0, <3>1 DEF EndsOk
    <3>4. io[s] = "closed" /\ cleanups[s] = 0 /\ ~EndsIn(uplink, s)
      BY <1>0, <2>8 DEF EndsOk
    <3> QED BY <1>0, <2>1, <2>2, <3>1, <3>2, <3>3, <3>4 DEF EndsOk
  <2> QED BY <2>6, <2>7, <2>8
<1>7. CASE EndRound
  <2>1. UNCHANGED <<io, alive, uplink, cleanups, members>>
    BY <1>7 DEF EndRound, ioVars
  <2>2. /\ LaneKept(s) \/ (Pend(s)' = <<>> /\ ~Owed(s)')
        /\ Unacted' \subseteq Unacted /\ Admitted' = Admitted
    BY <1>7, RoundMoves
  <2>3. PendMine(s)' /\ (Owed(s)' => Owed(s))
    BY <1>0, <2>2, LaneKeptFacts, PendChanges
  <2>4. EndsOnce(uplink', s) /\ uplink' = uplink
    BY <1>0, <2>1 DEF EndsOk
  <2> QED BY <1>0, <2>1, <2>2, <2>3, <2>4, EndsKept
<1>7a. ASSUME NEW w \in Worker, Pop(w) PROVE EndsOk(s)'
  <2>1. UNCHANGED <<io, alive, cleanups, uplink, lanes, members>>
    BY <1>7a DEF Pop, ioVars, ctrlVars
  <2> QED BY <1>1, <1>7a, <2>1, PopMoves
<1>7b. ASSUME NEW w \in Worker, FreeCell(w) PROVE EndsOk(s)'
  <2>1. UNCHANGED <<io, alive, cleanups, uplink, lanes, members, batch, tasks, worker>>
    BY <1>7b DEF FreeCell, ioVars, ctrlVars
  <2>2. Admitted' = Admitted /\ Unacted' = Unacted
    BY <2>1 DEF Admitted, Popped, Unacted
  <2> QED BY <1>1, <2>1, <2>2
<1>8. ASSUME NEW w \in Worker, Admit(w) PROVE EndsOk(s)'
  <2>1. UNCHANGED <<io, alive, cleanups, uplink, lanes, members>>
    BY <1>8 DEF Admit, ioVars, ctrlVars
  <2>2. PICK up \in Unacted :
             /\ Unacted' \subseteq Unacted
             /\ Admits(up) => Unacted' = Unacted /\ Admitted' = Admitted \cup {up}
             /\ ~Admits(up) => /\ Admitted' = Admitted
                               /\ \A u \in Unacted : u # up => u \in Unacted'
    BY <1>8, AdmitMoves
  <2>3. cleanups[s] > 0 /\ Admits(up) => up.sess # s
    <3> SUFFICES ASSUME cleanups[s] > 0, Admits(up), up.sess = s PROVE FALSE
      OBVIOUS
    <3>1. io[s] = "closed" /\ ~alive[s] /\ ~Ending(s)
      BY <1>0 DEF EndsOk
    <3> QED BY <3>1 DEF Admits, Ending, Ends
  <2>4. cleanups[s] > 0 => \A u \in Admitted' : u.sess = s => u \in Admitted
    BY <2>2, <2>3
  <2> QED BY <1>1, <2>1, <2>2, <2>4
<1>9. ASSUME NEW w \in Worker, Act(w) PROVE EndsOk(s)'
  <2>1. PICK up : up = worker[w].up
    OBVIOUS
  <2>2. /\ UNCHANGED <<io, alive, uplink, lanes>>
        /\ members' = CASE up.kind = "JOIN"   -> members \cup {up.sess}
                        [] up.kind \in {"MSG", "CHUNK"} -> members
                        [] up.kind = "CLOSED" -> members \ {up.sess}
        /\ IF up.kind = "CLOSED"
           THEN cleanups' = [cleanups EXCEPT ![up.sess] = @ + 1]
           ELSE cleanups' = cleanups
    BY <1>9, <2>1 DEF Act, ioVars, ctrlVars
  <2>3. /\ up \in Admitted /\ up \in Unacted
        /\ Unacted' = Unacted \ {up} /\ Admitted' = Admitted \ {up}
    BY <1>9, <2>1, ActMoves DEF Unacted
  <2>4. up \in Up /\ up.sess \in Session /\ up.kind \in {"JOIN", "MSG", "CHUNK", "CLOSED"}
        /\ \A u \in Unacted' : u.sess # up.sess
    <3>1. up \in Up
      BY <2>3, UnactedFacts
    <3> QED BY <2>3, <3>1, UnactedFacts DEF Up, MsgKind
  <2>5. PendMine(s)' /\ (Owed(s)' <=> Owed(s)) /\ EndsOnce(uplink', s) /\ uplink' = uplink
    BY <1>0, <2>2, LanesUnchanged, LaneKeptFacts DEF EndsOk
  <2>6. CASE s # up.sess
    <3>1. cleanups'[s] = cleanups[s] /\ (s \in members' => s \in members)
      BY <1>0, <2>2, <2>4, <2>6 DEF TypeOK
    <3> QED BY <1>0, <2>2, <2>3, <2>5, <3>1, EndsKept
  <2>7. CASE s = up.sess /\ up.kind # "CLOSED"
    <3>1. cleanups'[s] = cleanups[s] /\ ~(cleanups[s] > 0)
      BY <1>0, <2>2, <2>3, <2>7 DEF EndsOk
    <3> QED BY <1>0, <2>2, <2>3, <2>5, <3>1, EndsKept
  <2>8. CASE s = up.sess /\ up.kind = "CLOSED"
    <3>1. Ending(s)
      BY <2>3, <2>8 DEF Ending, Ends
    <3>2. io[s] = "closed" /\ cleanups[s] = 0 /\ ~Owed(s) /\ ~EndsIn(uplink, s)
      BY <1>0, <3>1 DEF EndsOk
    <3>3. cleanups'[s] = 1 /\ s \notin members'
      BY <1>0, <2>2, <2>8, <3>2 DEF TypeOK
    <3>4. ~Ending(s)' /\ \A u \in Admitted' : u.sess # s
      <4>1. Admitted' \subseteq Unacted'
        BY DEF Unacted
      <4> QED BY <2>4, <2>8, <4>1 DEF Ending, Ends
    <3>5. \A u \in Unacted' : ~Ends(u, s)
      BY <2>4, <2>8 DEF Ends
    <3> QED BY <1>0, <2>2, <2>5, <3>2, <3>3, <3>4, <3>5 DEF EndsOk
  <2> QED BY <2>6, <2>7, <2>8
<1>10. ASSUME NEW w \in Worker, PostResult(w) PROVE EndsOk(s)'
  <2>1. UNCHANGED <<io, alive, cleanups, uplink, lanes, members>>
    BY <1>10 DEF PostResult, ioVars, ctrlVars
  <2> QED BY <1>1, <1>10, <2>1, PostMoves
<1>11. CASE UNCHANGED vars
  <2>1. UNCHANGED <<io, alive, cleanups, uplink, lanes, members, batch, tasks, worker>>
    BY <1>11 DEF vars, ioVars, ctrlVars, poolVars
  <2>2. Admitted' = Admitted /\ Unacted' = Unacted
    BY <2>1 DEF Admitted, Popped, Unacted
  <2> QED BY <1>1, <2>1, <2>2
<1> QED BY <1>2, <1>3, <1>4, <1>5, <1>6, <1>7, <1>7a, <1>7b, <1>8, <1>9, <1>10, <1>11
        DEF Next, IoThread, CtrlThread, PoolThread

-------------------------------------------------------------------------------
(* The order of a session's messages *)

Fresh(s) == {u \in Unacted : Mine(u, s)}
Waiting(s) == Fresh(s) \cup In(Pend(s), s) \cup In(uplink, s)

Below(S, T) == \A u \in S, v \in T : u.n < v.n

\* What was acted on comes before what has left the lane, that before what waits in the
\* lane, and that before what waits in the uplink.
OrderOk(s) ==
    /\ ran[s] <= sent[s] /\ sent[s] <= MaxSent[s]
    /\ Ascending(uplink, s) /\ Ascending(Pend(s), s)
    /\ \A u \in Waiting(s) : ran[s] < u.n /\ u.n <= sent[s]
    /\ Below(Fresh(s), In(Pend(s), s)) /\ Below(Fresh(s), In(uplink, s))
    /\ Below(In(Pend(s), s), In(uplink, s))

\* Of a living session nothing is missing but what the pool refused.
Covered(s) == alive[s] => \A n \in Nat : ran[s] < n /\ n <= sent[s] =>
                             (\E u \in Waiting(s) : u.n = n) \/ n \in refused[s]

AllOrderOk == \A s \in Session : OrderOk(s)
AllCovered == \A s \in Session : Covered(s)

LEMMA WaitingType ==
    ASSUME IInv, NEW s
    PROVE  Waiting(s) \subseteq Up /\ \A u \in Waiting(s) : u.n \in Nat
<1>1. uplink \in Seq(Up) /\ Pend(s) \in Seq(Up)
  BY PendType DEF IInv, TypeOK
<1>2. \A q \in Seq(Up) : In(q, s) \subseteq Up
  <2> SUFFICES ASSUME NEW q \in Seq(Up), NEW i \in 1..Len(q) PROVE q[i] \in Up
    BY DEF In
  <2> QED BY ElementOfSeq
<1>3. Waiting(s) \subseteq Up
  BY <1>1, <1>2, UnactedFacts DEF Waiting, Fresh
<1> QED BY <1>3 DEF Up

LEMMA InitOrder == Init => AllOrderOk /\ AllCovered
<1> SUFFICES ASSUME Init, NEW s \in Session PROVE OrderOk(s) /\ Covered(s)
  BY DEF AllOrderOk, AllCovered
<1>1. uplink = <<>> /\ lanes = <<>> /\ DOMAIN lanes = {} /\ batch = {} /\ tasks = {}
      /\ ran[s] = 0 /\ sent[s] = 0
  BY DEF Init
<1>2. Admitted = {} /\ Unacted = {}
  BY <1>1 DEF Init, Admitted, Popped, Unacted, Idle
<1>3. Pend(s) = <<>> /\ Waiting(s) = {} /\ MaxSent[s] \in Nat
  BY <1>1, <1>2, NothingIn, ConstantsAssumption DEF Pend, Waiting, Fresh
<1> QED BY <1>1, <1>2, <1>3, NothingIn DEF OrderOk, Covered, Below, Fresh

\* A step that adds nothing to what waits, and one that loses nothing either.
LEMMA OrderKept ==
    ASSUME NEW s \in Session, OrderOk(s), ran'[s] = ran[s], sent'[s] = sent[s],
           Ascending(uplink', s), Ascending(Pend(s)', s),
           In(uplink', s) \subseteq In(uplink, s), In(Pend(s)', s) \subseteq In(Pend(s), s),
           Fresh(s)' \subseteq Fresh(s)
    PROVE  OrderOk(s)'
<1>1. In(Pend(s), s)' = In(Pend(s)', s)
  BY DEF In
<1> QED BY <1>1 DEF OrderOk, Waiting, Below

LEMMA CoveredKept ==
    ASSUME NEW s \in Session, Covered(s), ran'[s] = ran[s], sent'[s] = sent[s],
           refused' = refused, alive'[s] => alive[s] /\ Waiting(s) \subseteq Waiting(s)'
    PROVE  Covered(s)'
BY DEF Covered

\* The three queues after a step that leaves one session's lane and messages alone.
LEMMA QueuesKept ==
    ASSUME NEW s \in Session, OrderOk(s), LaneKept(s), uplink' = uplink
    PROVE  /\ Ascending(uplink', s) /\ Ascending(Pend(s)', s)
           /\ In(uplink', s) = In(uplink, s) /\ In(Pend(s)', s) = In(Pend(s), s)
           /\ Unacted' \subseteq Unacted => Fresh(s)' \subseteq Fresh(s)
           /\ Fresh(s) \subseteq Fresh(s)' => Waiting(s) \subseteq Waiting(s)'
BY DEF LaneKept, OrderOk, Waiting, Fresh

LEMMA OrderStep ==
    ASSUME IInv, AllEndsOk, [Next]_vars, NEW s \in Session, OrderOk(s)
    PROVE  OrderOk(s)' /\ (Covered(s) => Covered(s)')
<1> DEFINE G == OrderOk(s)' /\ (Covered(s) => Covered(s)')
<1>0. /\ EndsOk(s) /\ TypeOK /\ uplink \in Seq(Up) /\ PendMine(s) /\ Pend(s) \in Seq(Up)
      /\ ran[s] \in Nat /\ sent[s] \in Nat /\ MaxSent[s] \in Nat
  BY PendType, ConstantsAssumption DEF AllEndsOk, IInv, TypeOK, EndsOk
<1>1. Waiting(s) \subseteq Up /\ \A u \in Waiting(s) : u.n \in Nat
  BY WaitingType
<1>2. \A t : Waiting(t) = Fresh(t) \cup In(Pend(t), t) \cup In(uplink, t)
             /\ Waiting(t)' = Fresh(t)' \cup In(Pend(t)', t) \cup In(uplink', t)
  BY DEF Waiting
<1>3. ASSUME ran'[s] = ran[s], sent'[s] = sent[s], alive'[s] => alive[s],
             UNCHANGED <<uplink, lanes, refused>>, Unacted' \subseteq Unacted,
             alive'[s] => Fresh(s) \subseteq Fresh(s)'
      PROVE  G
  <2>1. LaneKept(s)
    BY <1>3, LanesUnchanged
  <2> QED BY <1>3, <2>1, QueuesKept, OrderKept, CoveredKept
<1>4. ASSUME NEW t \in Session, Read(t) PROVE G
  <2>1. UNCHANGED <<alive, refused, lanes, batch, tasks, worker, ran>>
    BY <1>0, <1>4, ReadMoves DEF ctrlVars, poolVars
  <2>2. PICK b \in Seq(Up) :
            /\ uplink' = uplink \o b
            /\ \A i \in 1..Len(b) : b[i].sess = t /\ b[i].kind # "CLOSED" /\ b[i].n = sent[t] + i
            /\ sent[t] + Len(b) <= MaxSent[t]
            /\ sent' = [sent EXCEPT ![t] = @ + Len(b)]
    BY <1>0, <1>4, ReadMoves
  <2>3. /\ \A i \in 1..Len(b) : (Mine(b[i], s) <=> s = t) /\ ~Ends(b[i], s)
        /\ Len(b) \in Nat
    BY <2>2, LenProperties DEF Mine, Ends
  <2>4. Admitted' = Admitted /\ Unacted' = Unacted
    BY <2>1 DEF Admitted, Popped, Unacted
  <2>5. LaneKept(s) /\ Fresh(s)' = Fresh(s)
    BY <2>1, <2>4, LanesUnchanged DEF Fresh
  <2>6. /\ Pend(s)' = Pend(s) /\ Ascending(Pend(s)', s) /\ Ascending(uplink, s)
    BY <2>5 DEF LaneKept, OrderOk
  <2>7. In(uplink', s) = In(uplink, s) \cup In(b, s)
    BY <1>0, <2>2, <2>3, ConcatFacts
  <2>8. CASE s # t
    <3>1. In(b, s) = {} /\ Ascending(b, s)
      BY <2>3, <2>8 DEF In, Ascending
    <3>2. Ascending(uplink', s)
      BY <1>0, <2>2, <2>3, <2>6, <3>1, ConcatFacts
    <3>3. sent'[s] = sent[s] /\ In(uplink', s) = In(uplink, s)
      BY <1>0, <2>2, <2>7, <2>8, <3>1 DEF TypeOK
    <3> QED BY <1>2, <2>1, <2>5, <2>6, <3>2, <3>3, OrderKept, CoveredKept
  <2>9. CASE s = t
    <3>1. sent'[s] = sent[s] + Len(b) /\ ran'[s] = ran[s]
      BY <1>0, <2>1, <2>2, <2>9 DEF TypeOK
    <3>2. /\ \A u \in In(b, s) : u.n \in Nat /\ sent[s] < u.n /\ u.n <= sent[s] + Len(b)
          /\ \A i \in 1..Len(b) : b[i] \in In(b, s)
      <4>1. \A i \in 1..Len(b) : b[i].n \in Nat /\ sent[s] < b[i].n /\ b[i].n <= sent[s] + Len(b)
        <5>1. \A i \in 1..Len(b) : b[i].n = sent[s] + i
          BY <2>2, <2>9
        <5>2. \A i \in 1..Len(b) : /\ sent[s] + i \in Nat /\ sent[s] < sent[s] + i
                                  /\ sent[s] + i <= sent[s] + Len(b)
          BY <1>0, <2>3
        <5> QED BY <5>1, <5>2
      <4>2. \A i \in 1..Len(b) : b[i] \in In(b, s)
        BY <2>3, <2>9 DEF In
      <4>3. \A u \in In(b, s) : \E i \in 1..Len(b) : u = b[i]
        BY DEF In
      <4> QED BY <4>1, <4>2, <4>3
    <3>3. \A u \in Waiting(s) : \A v \in In(b, s) : u.n < v.n
      BY <1>0, <1>1, <3>2 DEF OrderOk
    <3>4. Ascending(b, s)
      <4>1. \A i \in 1..Len(b) : b[i].n = sent[s] + i
        BY <2>2, <2>9
      <4>2. \A i, j \in 1..Len(b) : i < j => sent[s] + i < sent[s] + j
        BY <1>0, <2>3
      <4> QED BY <4>1, <4>2 DEF Ascending
    <3>5. Ascending(uplink', s)
      <4>1. \A u \in In(uplink, s), v \in In(b, s) : u.n < v.n
        BY <1>2, <3>3
      <4> QED BY <1>0, <2>2, <2>3, <2>6, <3>4, <4>1, ConcatFacts
    <3>6. Waiting(s)' = Waiting(s) \cup In(b, s)
      BY <1>2, <2>5, <2>6, <2>7
    <3>7. \A u \in Waiting(s)' : ran'[s] < u.n /\ u.n <= sent'[s]
      BY <1>0, <1>1, <2>3, <3>1, <3>2, <3>6 DEF OrderOk
    <3>8. /\ Below(Fresh(s)', In(Pend(s)', s)) /\ Below(Fresh(s)', In(uplink', s))
          /\ Below(In(Pend(s)', s), In(uplink', s))
      BY <1>2, <2>5, <2>6, <2>7, <3>3 DEF OrderOk, Below
    <3>9. OrderOk(s)'
      BY <1>0, <2>2, <2>3, <2>6, <2>9, <3>1, <3>5, <3>7, <3>8 DEF OrderOk
    <3>10. Covered(s) => Covered(s)'
      <4> SUFFICES ASSUME Covered(s), alive[s], NEW n \in Nat, ran[s] < n, n <= sent[s] + Len(b)
                   PROVE  (\E u \in Waiting(s)' : u.n = n) \/ n \in refused[s]
        BY <2>1, <3>1 DEF Covered
      <4>1. CASE n <= sent[s]
        BY <3>6, <4>1 DEF Covered
      <4>2. CASE ~(n <= sent[s])
        <5>1. n - sent[s] \in 1..Len(b)
          BY <1>0, <2>3, <4>2
        <5>2. b[n - sent[s]].n = sent[s] + (n - sent[s])
          BY <2>2, <2>9, <5>1
        <5>3. sent[s] + (n - sent[s]) = n
          BY <1>0
        <5>4. b[n - sent[s]] \in Waiting(s)'
          BY <3>2, <3>6, <5>1
        <5> QED BY <5>2, <5>3, <5>4
      <4> QED BY <4>1, <4>2
    <3> QED BY <3>9, <3>10
  <2> QED BY <2>8, <2>9
<1>5. ASSUME NEW t \in Session, BeginClose(t) PROVE G
  <2>1. /\ alive' = [alive EXCEPT ![t] = FALSE]
        /\ UNCHANGED <<uplink, refused, sent, lanes, batch, tasks, worker, ran>>
    BY <1>5 DEF BeginClose, ctrlVars, poolVars
  <2>2. Unacted' = Unacted /\ Fresh(s)' = Fresh(s)
    BY <2>1 DEF Admitted, Popped, Unacted, Fresh
  <2>3. alive'[s] => alive[s]
    BY <1>0, <2>1 DEF TypeOK
  <2> QED BY <1>3, <2>1, <2>2, <2>3
<1>6. ASSUME NEW t \in Session, UplinkClosed(t) PROVE G
  <2>1. /\ uplink' = Append(uplink, Closed(t))
        /\ UNCHANGED <<alive, refused, sent, lanes, batch, tasks, worker, ran>>
    BY <1>6 DEF UplinkClosed, ctrlVars, poolVars
  <2>2. Unacted' = Unacted /\ Fresh(s)' = Fresh(s)
    BY <2>1 DEF Admitted, Popped, Unacted, Fresh
  <2>3. Closed(t) \in Up /\ ~Mine(Closed(t), s)
    BY ClosedType DEF Mine, Closed
  <2>4. In(uplink', s) = In(uplink, s) /\ Ascending(uplink', s)
    <3>1. PICK x \in Up : x = Closed(t) /\ ~Mine(x, s)
      BY <2>3
    <3>2. Ascending(uplink, s)
      BY DEF OrderOk
    <3>3. PICK q \in Seq(Up) : q = uplink
      BY <1>0
    <3>4. In(Append(q, x), s) = In(q, s)
      <4>1. In(Append(q, x), s) = In(q, s) \cup (IF Mine(x, s) THEN {x} ELSE {})
        BY AppendFacts
      <4> QED BY <3>1, <4>1
    <3>5. Ascending(q, s) => Ascending(Append(q, x), s)
      BY <3>1, AppendFacts
    <3> QED BY <2>1, <3>1, <3>2, <3>3, <3>4, <3>5
  <2>5. Pend(s)' = Pend(s) /\ Ascending(Pend(s)', s)
    BY <2>1, LanesUnchanged DEF LaneKept, OrderOk
  <2> QED BY <1>2, <2>1, <2>2, <2>4, <2>5, OrderKept, CoveredKept
<1>7. ASSUME SortUplink PROVE G
  <2>1. UNCHANGED <<alive, refused, sent, ran>>
    BY <1>7 DEF SortUplink, ioVars, poolVars
  <2>2. PICK x \in Up :
             /\ x.sess \in Session /\ uplink \in Seq(Up) /\ uplink # <<>>
             /\ x = Head(uplink) /\ uplink' = Tail(uplink) /\ Admitted' = Admitted
             /\ \A t \in Session : t # x.sess => LaneKept(t)
             /\ x.kind = "CLOSED" =>
                   /\ Pend(x.sess)' = <<>>
                   /\ \/ Unacted' = Unacted
                      \/ /\ Unacted' = Unacted \cup {Closed(x.sess)} /\ ~Owed(x.sess)'
                         /\ \A u \in Unacted : u.sess # x.sess
             /\ x.kind # "CLOSED" =>
                   /\ Owed(x.sess)' <=> Owed(x.sess)
                   /\ \/ /\ Unacted' = Unacted
                         /\ Pend(x.sess)' = Append(Pend(x.sess), x)
                      \/ /\ Unacted' = Unacted \cup {x} /\ Pend(x.sess)' = Pend(x.sess)
                         /\ Pend(x.sess) = <<>> /\ \A u \in Unacted : u.sess # x.sess
    BY <1>7, UplinkMoves
  <2>3. /\ In(uplink, s) = In(uplink', s) \cup (IF Mine(x, s) THEN {x} ELSE {})
        /\ Ascending(uplink', s) /\ (Mine(x, s) => \A u \in In(uplink', s) : x.n < u.n)
        /\ EndsIn(uplink, s) <=> (EndsIn(uplink', s) \/ Ends(x, s))
    BY <1>0, <2>2, TailFacts DEF OrderOk
  <2>4. \A t \in Session : ~Mine(Closed(t), s)
    BY DEF Closed, Mine
  <2>5. CASE s # x.sess
    <3>1. ~Mine(x, s) /\ LaneKept(s)
      BY <2>2, <2>5 DEF Mine
    <3>2. Fresh(s)' = Fresh(s)
      <4>1. \A u : u \in Unacted' /\ Mine(u, s) <=> u \in Unacted /\ Mine(u, s)
        BY <2>2, <2>4, <3>1
      <4> QED BY <4>1 DEF Fresh
    <3>3. In(uplink', s) = In(uplink, s) /\ Pend(s)' = Pend(s) /\ Ascending(Pend(s)', s)
      BY <2>3, <3>1 DEF LaneKept, OrderOk
    <3> QED BY <1>2, <2>1, <2>3, <3>2, <3>3, OrderKept, CoveredKept
  <2>6. CASE s = x.sess /\ x.kind = "CLOSED"
    <3>1. ~Mine(x, s) /\ Pend(s)' = <<>> /\ ~alive[s]
      BY <1>0, <2>2, <2>3, <2>6 DEF Mine, Ends, EndsOk
    <3>2. Fresh(s)' \subseteq Fresh(s)
      BY <2>2, <2>4, <2>6 DEF Fresh
    <3>3. In(uplink', s) = In(uplink, s) /\ In(Pend(s)', s) = {} /\ Ascending(Pend(s)', s)
      BY <2>3, <3>1, NothingIn
    <3> QED BY <2>1, <2>3, <3>1, <3>2, <3>3, OrderKept, CoveredKept
  <2>7. CASE s = x.sess /\ x.kind # "CLOSED" /\ Unacted' = Unacted
             /\ Pend(s)' = Append(Pend(s), x)
    <3>1. Mine(x, s) /\ Fresh(s)' = Fresh(s) /\ x \in In(uplink, s)
      BY <2>3, <2>7 DEF Mine, Fresh
    <3>2. \A u \in In(Pend(s), s) : u.n < x.n
      BY <3>1 DEF OrderOk, Below
    <3>3. In(Pend(s)', s) = In(Pend(s), s) \cup {x} /\ Ascending(Pend(s)', s)
      <4>1. PICK q \in Seq(Up) : q = Pend(s)
        BY <1>0
      <4>2. Ascending(q, s) /\ \A u \in In(q, s) : u.n < x.n
        BY <3>2, <4>1 DEF OrderOk
      <4>3. In(Append(q, x), s) = In(q, s) \cup {x} /\ Ascending(Append(q, x), s)
        BY <2>2, <3>1, <4>2, AppendFacts
      <4> QED BY <2>7, <4>1, <4>3
    <3>4. Waiting(s)' = Waiting(s)
      BY <1>2, <2>3, <3>1, <3>3
    <3>5. /\ Below(Fresh(s)', In(Pend(s)', s)) /\ Below(Fresh(s)', In(uplink', s))
          /\ Below(In(Pend(s)', s), In(uplink', s))
      BY <2>3, <3>1, <3>3 DEF OrderOk, Below
    <3>6. OrderOk(s)'
      BY <2>1, <2>3, <3>3, <3>4, <3>5 DEF OrderOk
    <3> QED BY <2>1, <3>4, <3>6, CoveredKept
  <2>8. CASE s = x.sess /\ x.kind # "CLOSED" /\ Unacted' = Unacted \cup {x}
             /\ Pend(s)' = Pend(s) /\ Pend(s) = <<>> /\ \A u \in Unacted : u.sess # s
    <3>1. Mine(x, s) /\ Fresh(s) = {} /\ Fresh(s)' = {x} /\ x \in In(uplink, s)
      BY <2>3, <2>8 DEF Mine, Fresh
    <3>2. In(Pend(s)', s) = {} /\ In(Pend(s), s) = {} /\ Ascending(Pend(s)', s)
      BY <2>8, NothingIn
    <3>3. Waiting(s)' = Waiting(s)
      BY <1>2, <2>3, <3>1, <3>2
    <3>4. /\ Below(Fresh(s)', In(Pend(s)', s)) /\ Below(Fresh(s)', In(uplink', s))
          /\ Below(In(Pend(s)', s), In(uplink', s))
      BY <2>3, <3>1, <3>2 DEF Below
    <3>5. OrderOk(s)'
      BY <2>1, <2>3, <3>2, <3>3, <3>4 DEF OrderOk
    <3> QED BY <2>1, <3>3, <3>5, CoveredKept
  <2> QED BY <2>2, <2>5, <2>6, <2>7, <2>8
<1>8. ASSUME SortResult PROVE G
  <2>1. UNCHANGED <<alive, refused, sent, ran, uplink>>
    BY <1>8 DEF SortResult, ioVars
  <2>2. PICK r \in results :
             /\ results' = results \ {r} /\ outgoing' = outgoing \cup r.frames
             /\ r.sess \in Session /\ \A u \in Unacted : u.sess # r.sess
             /\ Admitted' = Admitted
             /\ \A t \in Session : t # r.sess => LaneKept(t)
             /\ ~Owed(r.sess)'
             /\ \/ /\ Owed(r.sess) /\ Unacted' = Unacted \cup {Closed(r.sess)}
                   /\ Pend(r.sess)' = Pend(r.sess)
                \/ /\ ~Owed(r.sess) /\ Pend(r.sess) # <<>>
                   /\ Unacted' = Unacted \cup {Head(Pend(r.sess))}
                   /\ Pend(r.sess)' = Tail(Pend(r.sess))
                \/ ~Owed(r.sess) /\ Unacted' = Unacted /\ Pend(r.sess)' = Pend(r.sess)
    BY <1>8, ResultMoves
  <2>3. PendMine(r.sess)
    BY <2>2 DEF AllEndsOk, EndsOk
  <2>4. Pend(r.sess) # <<>> => Mine(Head(Pend(r.sess)), r.sess)
    BY <1>0, <2>2, <2>3, PendChanges
  <2>5. \A t \in Session : ~Mine(Closed(t), s)
    BY DEF Closed, Mine
  <2>6. CASE s # r.sess
    <3>1. LaneKept(s)
      BY <2>2, <2>6
    <3>2. Fresh(s)' = Fresh(s)
      <4>1. \A u : u \in Unacted' /\ Mine(u, s) <=> u \in Unacted /\ Mine(u, s)
        BY <2>2, <2>4, <2>5, <2>6 DEF Mine
      <4> QED BY <4>1 DEF Fresh
    <3> QED BY <2>1, <3>1, <3>2, QueuesKept, OrderKept, CoveredKept
  <2>7. CASE s = r.sess /\ Pend(s)' = Pend(s)
             /\ (Unacted' = Unacted \/ Unacted' = Unacted \cup {Closed(s)})
    <3>1. Fresh(s)' = Fresh(s)
      <4>1. \A u : u \in Unacted' /\ Mine(u, s) <=> u \in Unacted /\ Mine(u, s)
        BY <2>5, <2>7
      <4> QED BY <4>1 DEF Fresh
    <3>2. Ascending(Pend(s)', s) /\ Ascending(uplink', s)
      BY <2>1, <2>7 DEF OrderOk
    <3> QED BY <1>2, <2>1, <2>7, <3>1, <3>2, OrderKept, CoveredKept
  <2>8. CASE s = r.sess /\ Pend(s) # <<>> /\ Unacted' = Unacted \cup {Head(Pend(s))}
             /\ Pend(s)' = Tail(Pend(s))
    <3> DEFINE x == Head(Pend(s))
    <3>1. Mine(x, s) /\ x \in Up
      BY <1>0, <2>4, <2>8, PendChanges
    <3>2. /\ In(Pend(s), s) = In(Pend(s)', s) \cup {x}
          /\ Ascending(Pend(s)', s) /\ \A u \in In(Pend(s)', s) : x.n < u.n
      BY <1>0, <2>8, <3>1, TailFacts DEF OrderOk
    <3> HIDE DEF x
    <3>3. Fresh(s) = {} /\ Fresh(s)' = {x}
      BY <2>2, <2>8, <3>1 DEF Fresh, Mine, x
    <3>4. Waiting(s)' = Waiting(s)
      BY <1>2, <2>1, <3>2, <3>3
    <3>5. /\ Below(Fresh(s)', In(Pend(s)', s)) /\ Below(Fresh(s)', In(uplink', s))
          /\ Below(In(Pend(s)', s), In(uplink', s))
      BY <2>1, <3>2, <3>3 DEF OrderOk, Below
    <3>6. OrderOk(s)'
      BY <2>1, <3>2, <3>4, <3>5 DEF OrderOk
    <3> QED BY <2>1, <3>4, <3>6, CoveredKept
  <2> QED BY <2>2, <2>6, <2>7, <2>8
<1>9. ASSUME EndRound PROVE G
  <2>1. UNCHANGED <<alive, sent, ran, uplink>>
    BY <1>9 DEF EndRound, ioVars
  <2>2. /\ Unacted' \subseteq Unacted
        /\ refused[s] \subseteq refused'[s]
        /\ \/ LaneKept(s) /\ \A u \in Unacted : u.sess = s => u \in Unacted'
           \/ /\ Pend(s)' = <<>>
              /\ \A u \in Unacted : u.sess = s => u \in Unacted' \/ u.n \in refused'[s]
              /\ \A u \in In(Pend(s), s) : u.n \in refused'[s]
    BY <1>9, RoundMoves
  <2>3. Fresh(s)' \subseteq Fresh(s)
    BY <2>2 DEF Fresh
  <2>4. /\ Ascending(Pend(s)', s) /\ In(Pend(s)', s) \subseteq In(Pend(s), s)
        /\ Ascending(uplink', s) /\ In(uplink', s) = In(uplink, s)
    BY <2>1, <2>2, NothingIn DEF LaneKept, OrderOk
  <2>5. OrderOk(s)'
    BY <2>1, <2>3, <2>4, OrderKept
  <2>6. \A u \in Waiting(s) : u \in Waiting(s)' \/ u.n \in refused'[s]
    <3>1. ASSUME NEW u \in Fresh(s) PROVE u \in Fresh(s)' \/ u.n \in refused'[s]
      BY <2>2 DEF Fresh, Mine
    <3>2. ASSUME NEW u \in In(Pend(s), s) PROVE u \in In(Pend(s)', s) \/ u.n \in refused'[s]
      BY <2>2 DEF LaneKept
    <3> QED BY <1>2, <2>4, <3>1, <3>2
  <2>7. Covered(s) => Covered(s)'
    BY <2>1, <2>2, <2>6 DEF Covered
  <2> QED BY <2>5, <2>7
<1>7a. ASSUME NEW w \in Worker, Pop(w) PROVE G
  <2>1. UNCHANGED <<alive, refused, sent, ran, uplink, lanes>>
    BY <1>7a DEF Pop, ioVars, ctrlVars
  <2>2. Unacted' = Unacted /\ Fresh(s)' = Fresh(s)
    BY <1>7a, PopMoves DEF Fresh
  <2> QED BY <1>3, <2>1, <2>2
<1>7b. ASSUME NEW w \in Worker, FreeCell(w) PROVE G
  <2>1. UNCHANGED <<alive, refused, sent, ran, uplink, lanes, batch, tasks, worker>>
    BY <1>7b DEF FreeCell, ioVars, ctrlVars
  <2>2. Unacted' = Unacted /\ Fresh(s)' = Fresh(s)
    BY <2>1 DEF Admitted, Popped, Unacted, Fresh
  <2> QED BY <1>3, <2>1, <2>2
<1>10. ASSUME NEW w \in Worker, Admit(w) PROVE G
  <2>1. UNCHANGED <<alive, refused, sent, ran, uplink, lanes>>
    BY <1>10 DEF Admit, ioVars, ctrlVars
  <2>2. PICK up \in Unacted :
             /\ Unacted' \subseteq Unacted
             /\ Admits(up) => Unacted' = Unacted /\ Admitted' = Admitted \cup {up}
             /\ ~Admits(up) => /\ Admitted' = Admitted
                               /\ \A u \in Unacted : u # up => u \in Unacted'
    BY <1>10, AdmitMoves
  <2>3. alive[s] => Fresh(s) \subseteq Fresh(s)'
    BY <2>2 DEF Fresh, Mine, Admits
  <2> QED BY <1>3, <2>1, <2>2, <2>3
<1>11. ASSUME NEW w \in Worker, Act(w) PROVE G
  <2>1. PICK up : up = worker[w].up
    OBVIOUS
  <2>2. /\ UNCHANGED <<alive, refused, sent, uplink, lanes>>
        /\ ran' = IF up.kind = "CLOSED" THEN ran ELSE [ran EXCEPT ![up.sess] = up.n]
    BY <1>11, <2>1 DEF Act, ioVars, ctrlVars
  <2>3. up \in Admitted /\ up \in Unacted /\ Unacted' = Unacted \ {up}
    BY <1>11, <2>1, ActMoves DEF Unacted
  <2>4. up \in Up /\ up.sess \in Session /\ up.n \in Nat
        /\ \A u \in Unacted' : u.sess # up.sess
    <3>1. up \in Up
      BY <2>3, UnactedFacts
    <3> QED BY <2>3, <3>1, UnactedFacts DEF Up
  <2>5. CASE s # up.sess \/ up.kind = "CLOSED"
    <3>1. ran'[s] = ran[s]
      BY <1>0, <2>2, <2>4, <2>5 DEF TypeOK
    <3>2. Fresh(s) \subseteq Fresh(s)'
      BY <2>3, <2>5 DEF Fresh, Mine
    <3> QED BY <1>3, <2>2, <2>3, <3>1, <3>2
  <2>6. CASE s = up.sess /\ up.kind # "CLOSED"
    <3>1. up \in Fresh(s) /\ Fresh(s)' = {} /\ ran'[s] = up.n
      BY <1>0, <2>2, <2>3, <2>4, <2>6 DEF Fresh, Mine, TypeOK
    <3>2. LaneKept(s)
      BY <2>2, LanesUnchanged
    <3>3. /\ Ascending(uplink', s) /\ Ascending(Pend(s)', s)
          /\ In(uplink', s) = In(uplink, s) /\ In(Pend(s)', s) = In(Pend(s), s)
      BY <2>2, <3>2, QueuesKept
    <3>4. up \in Waiting(s) /\ Waiting(s)' \subseteq Waiting(s) /\ \A u \in Waiting(s)' : up.n < u.n
      BY <1>2, <3>1, <3>3 DEF OrderOk, Below
    <3>5. /\ Below(Fresh(s)', In(Pend(s)', s)) /\ Below(Fresh(s)', In(uplink', s))
          /\ Below(In(Pend(s)', s), In(uplink', s))
      BY <3>1, <3>3 DEF OrderOk, Below
    <3>6. OrderOk(s)'
      BY <2>2, <3>1, <3>3, <3>4, <3>5 DEF OrderOk
    <3>7. Covered(s) => Covered(s)'
      <4> SUFFICES ASSUME Covered(s), alive[s], NEW n \in Nat, up.n < n, n <= sent[s]
                   PROVE  (\E u \in Waiting(s)' : u.n = n) \/ n \in refused[s]
        BY <2>2, <3>1 DEF Covered
      <4>1. ran[s] < n
        BY <1>0, <2>4, <3>4 DEF OrderOk
      <4> SUFFICES ASSUME n \notin refused[s] PROVE \E u \in Waiting(s)' : u.n = n
        OBVIOUS
      <4>2. PICK u \in Waiting(s) : u.n = n
        BY <4>1 DEF Covered
      <4>3. u # up
        BY <2>4, <4>2
      <4>4. Fresh(s) \subseteq {up}
        BY <2>3, <2>4, <2>6 DEF Fresh, Mine
      <4> QED BY <1>2, <3>3, <4>2, <4>3, <4>4
    <3> QED BY <3>6, <3>7
  <2> QED BY <2>5, <2>6
<1>12. ASSUME NEW w \in Worker, PostResult(w) PROVE G
  <2>1. UNCHANGED <<alive, refused, sent, ran, uplink, lanes>>
    BY <1>12 DEF PostResult, ioVars, ctrlVars
  <2>2. Unacted' = Unacted /\ Fresh(s)' = Fresh(s)
    BY <1>12, PostMoves DEF Fresh
  <2> QED BY <1>3, <2>1, <2>2
<1>13. ASSUME UNCHANGED vars PROVE G
  <2>1. UNCHANGED <<alive, refused, sent, ran, uplink, lanes, batch, tasks, worker>>
    BY <1>13 DEF vars, ioVars, ctrlVars, poolVars
  <2>2. Unacted' = Unacted /\ Fresh(s)' = Fresh(s)
    BY <2>1 DEF Admitted, Popped, Unacted, Fresh
  <2> QED BY <1>3, <2>1, <2>2
<1>14. G
  <2> HIDE DEF G
  <2> QED BY <1>4, <1>5, <1>6, <1>7, <1>8, <1>9, <1>7a, <1>7b, <1>10, <1>11, <1>12, <1>13
          DEF Next, IoThread, CtrlThread, PoolThread
<1> QED BY <1>14
-------------------------------------------------------------------------------
(* The frames on their way to the members *)

\* The place, in a session's stream, of the last event a worker acted on.
Top(s) == IF cleanups[s] > 0 THEN MaxSent[s] + 1 ELSE ran[s]

\* The sessions with an event that a worker may still act on, or has acted on, and that
\* the control thread has not seen the result of.
Away == SessionsOf(tasks) \cup OnWorkers \cup SessionsOf(results)

\* Frames not yet dispatched tell of the last event acted on, and none is acted on
\* before they are dispatched; what was dispatched tells of no later one.
FramesOk ==
    /\ \A f \in outgoing : f.n = Top(f.from) /\ f.from \notin Away
    /\ \A r \in results : \A f \in r.frames : f.from = r.sess /\ f.n = Top(f.from)
    /\ \A w \in Worker : \A f \in worker[w].frames :
           w \in Busy /\ f.from = worker[w].up.sess /\ f.n = Top(f.from)
    /\ \A t, s \in Session : seen[t][s] <= Top(s)

LEMMA FrameTypes ==
    ASSUME TypeOK
    PROVE  /\ \A f \in outgoing : f.from \in Session /\ f.n \in Nat
           /\ \A r \in results : \A f \in r.frames : f.from \in Session
           /\ \A w \in Worker : \A f \in worker[w].frames : f.from \in Session
           /\ \A t, s \in Session : seen[t][s] \in Nat
           /\ \A s \in Session : Top(s) \in Nat
<1>1. \A f \in Frame : f.from \in Session /\ f.n \in Nat
  BY DEF Frame
<1>2. \A r \in results : r.frames \subseteq Frame
  BY DEF TypeOK, Result
<1>3. \A w \in Worker : worker[w].frames \subseteq Frame
  BY DEF TypeOK
<1>4. \A s \in Session : Top(s) \in Nat
  BY ConstantsAssumption DEF TypeOK, Top
<1>5. \A t, s \in Session : seen[t][s] \in Nat
  BY DEF TypeOK
<1>6. outgoing \subseteq Frame
  BY DEF TypeOK
<1> QED BY <1>1, <1>2, <1>3, <1>4, <1>5, <1>6

LEMMA InitFrames == Init => FramesOk
<1> SUFFICES ASSUME Init PROVE FramesOk
  OBVIOUS
<1>1. \A w \in Worker : worker[w].frames = {}
  BY DEF Init, Idle
<1>2. outgoing = {} /\ results = {}
  BY DEF Init
<1>3. \A t, s \in Session : seen[t][s] = 0 /\ Top(s) = 0
  BY DEF Init, Top
<1> QED BY <1>1, <1>2, <1>3 DEF FramesOk

LEMMA TopKept ==
    ASSUME ran' = ran, cleanups' = cleanups
    PROVE  \A s : Top(s)' = Top(s)
BY DEF Top

\* Only acting on an event of a session moves its top, and moves it up.
LEMMA TopMoves ==
    ASSUME IInv, AllEndsOk, AllOrderOk, NEW w \in Worker, Act(w),
           NEW up, up = worker[w].up
    PROVE  /\ up.sess \in Session /\ up.n \in Nat
           /\ Top(up.sess)' = up.n /\ Top(up.sess) <= up.n
           /\ \A s \in Session : s # up.sess => Top(s)' = Top(s)
<1>1. up \in Admitted /\ up \in Unacted
  BY ActMoves DEF Unacted
<1>2. up \in Up
  BY <1>1, UnactedFacts
<1>3. PICK s \in Session : s = up.sess
  BY <1>2 DEF Up
<1>4. up.n \in Nat
  BY <1>2 DEF Up
<1>5. EndsOk(s) /\ OrderOk(s)
  BY DEF AllEndsOk, AllOrderOk
<1>6. /\ ran[s] \in Nat /\ sent[s] \in Nat /\ MaxSent[s] \in Nat /\ cleanups[s] \in Nat
      /\ ran \in [Session -> Nat] /\ cleanups \in [Session -> Nat]
  BY ConstantsAssumption DEF IInv, TypeOK
<1>7. IF up.kind = "CLOSED"
      THEN cleanups' = [cleanups EXCEPT ![s] = @ + 1] /\ ran' = ran
      ELSE ran' = [ran EXCEPT ![s] = up.n] /\ cleanups' = cleanups
  BY <1>3 DEF Act
<1>8. \A t \in Session : t # s => Top(t)' = Top(t)
  BY <1>6, <1>7 DEF Top
<1>9. CASE up.kind = "CLOSED"
  <2>1. Ends(up, s)
    BY <1>3, <1>9 DEF Ends
  <2>2. up = Closed(s) /\ Ending(s)
    BY <1>1, <1>5, <2>1 DEF EndsOk, Ending
  <2>3. up.n = MaxSent[s] + 1 /\ cleanups[s] = 0
    BY <1>5, <2>2 DEF EndsOk, Closed
  <2>4. cleanups'[s] = 1
    BY <1>6, <1>7, <1>9, <2>3
  <2>5. Top(s)' = up.n
    BY <2>3, <2>4 DEF Top
  <2>6. Top(s) <= up.n
    BY <1>5, <1>6, <2>3 DEF Top, OrderOk
  <2> QED BY <1>3, <1>4, <1>8, <2>5, <2>6
<1>10. CASE up.kind # "CLOSED"
  <2>1. cleanups[s] = 0
    BY <1>1, <1>3, <1>5, <1>6 DEF EndsOk
  <2>2. up \in Waiting(s)
    BY <1>1, <1>3, <1>10 DEF Waiting, Fresh, Mine
  <2>3. ran[s] < up.n
    BY <1>5, <2>2 DEF OrderOk
  <2>4. ran'[s] = up.n /\ cleanups'[s] = 0
    BY <1>6, <1>7, <1>10, <2>1
  <2> QED BY <1>3, <1>4, <1>6, <1>8, <2>1, <2>3, <2>4 DEF Top
<1> QED BY <1>9, <1>10

\* What a round's frames tell a member about a session is newer than what it was told.
LEMMA RoundTells ==
    ASSUME IInv, FramesOk, EndRound, NEW t \in Session, NEW s \in Session
    PROVE  seen[t][s] <= seen'[t][s] /\ seen'[t][s] <= Top(s)
<1> DEFINE mine == {f.n : f \in {g \in outgoing : g.to = t /\ g.from = s}}
           best == CHOOSE n \in mine : TRUE
<1>1. \A n \in mine : n = Top(s)
  BY DEF FramesOk
<1>2. seen'[t][s] = IF alive[t] /\ mine # {} THEN best ELSE seen[t][s]
  BY DEF EndRound, Dispatch
<1>3. mine # {} => best \in mine
  OBVIOUS
<1>4. seen[t][s] \in Nat /\ Top(s) \in Nat /\ seen[t][s] <= Top(s)
  BY FrameTypes DEF IInv, FramesOk
<1> HIDE DEF mine, best
<1> QED BY <1>1, <1>2, <1>3, <1>4

\* A step that moves frames from a worker to the results, or from these to the control
\* thread, or none at all.
LEMMA FramesKept ==
    ASSUME TypeOK, FramesOk, ran' = ran, cleanups' = cleanups, seen' = seen,
           \A f \in outgoing' : f \in outgoing \/ (f.from \in Session /\ f.n = Top(f.from)
                                                   /\ f.from \notin Away'),
           Away' \subseteq Away,
           \A r \in results' : \A f \in r.frames :
               f.from \in Session /\ f.from = r.sess /\ f.n = Top(f.from),
           \A w \in Worker : \A f \in worker'[w].frames :
               w \in Busy' /\ f \in worker[w].frames /\ worker'[w].up = worker[w].up
    PROVE  FramesOk'
<1>1. \A s : Top(s)' = Top(s)
  BY TopKept
<1>2. (\A f \in outgoing : f.n = Top(f.from) /\ f.from \notin Away)'
  BY <1>1 DEF FramesOk
<1>3. (\A r \in results : \A f \in r.frames : f.from = r.sess /\ f.n = Top(f.from))'
  BY <1>1
<1>4. (\A w \in Worker : \A f \in worker[w].frames :
           w \in Busy /\ f.from = worker[w].up.sess /\ f.n = Top(f.from))'
  BY <1>1 DEF FramesOk
<1>5. (\A t, s \in Session : seen[t][s] <= Top(s))'
  BY <1>1 DEF FramesOk
<1> QED BY <1>2, <1>3, <1>4, <1>5 DEF FramesOk
\* A session away from the control thread has one event there: its frames' session is
\* nowhere else.
LEMMA OneAway ==
    ASSUME IInv
    PROVE  /\ \A r, q \in results : r.sess = q.sess => r = q
           /\ \A r \in results : r.sess \notin SessionsOf(tasks) \cup OnWorkers
           /\ \A v, w \in Busy : worker[v].up.sess = worker[w].up.sess => v = w
           /\ \A w \in Busy : /\ worker[w].up.sess \in Away
                              /\ \A r \in results : r.sess # worker[w].up.sess
<1>1. /\ OnePerSession(results) /\ OnePerWorker
      /\ SessionsOf(tasks) \cap SessionsOf(results) = {}
      /\ SessionsOf(results) \cap OnWorkers = {}
  BY DEF IInv, OneFlight
<1>2. \A r \in results : r.sess \in SessionsOf(results)
  BY DEF SessionsOf
<1>3. \A w \in Busy : worker[w].up.sess \in OnWorkers
  BY DEF OnWorkers
<1> QED BY <1>1, <1>2, <1>3 DEF OnePerSession, OnePerWorker, Away

LEMMA FramesStep ==
    ASSUME IInv, AllEndsOk, AllOrderOk, FramesOk, [Next]_vars
    PROVE  FramesOk'
<1>0. TypeOK
  BY DEF IInv
<1>1. /\ \A f \in outgoing : f.from \in Session
      /\ \A r \in results : \A f \in r.frames :
             f.from \in Session /\ f.from = r.sess /\ f.n = Top(f.from)
      /\ \A w \in Worker : \A f \in worker[w].frames :
             /\ w \in Busy /\ f.from = worker[w].up.sess /\ f.n = Top(f.from)
             /\ f.from \in Session
  BY <1>0, FrameTypes DEF FramesOk
<1>2. ASSUME UNCHANGED <<outgoing, tasks, worker, results, ran, cleanups, seen>>
      PROVE  FramesOk'
  <2>1. Away' = Away /\ Busy' = Busy
    BY <1>2 DEF Away, SessionsOf, OnWorkers, Busy
  <2> QED BY <1>0, <1>1, <1>2, <2>1, FramesKept
<1>3. ASSUME NEW s \in Session, IoThread(s) PROVE FramesOk'
  <2>1. UNCHANGED <<outgoing, tasks, worker, results, ran, cleanups, seen>>
    BY <1>0, <1>3, ReadMoves DEF IoThread, BeginClose, UplinkClosed, ctrlVars, poolVars
  <2> QED BY <1>2, <2>1
<1>4. ASSUME SortUplink PROVE FramesOk'
  <2>1. UNCHANGED <<outgoing, tasks, worker, results, ran, cleanups, seen>>
    BY <1>4 DEF SortUplink, poolVars
  <2> QED BY <1>2, <2>1
<1>5. ASSUME SortResult PROVE FramesOk'
  <2>1. UNCHANGED <<tasks, worker, ran, cleanups, seen>>
    BY <1>5 DEF SortResult
  <2>2. PICK r \in results : results' = results \ {r} /\ outgoing' = outgoing \cup r.frames
    BY <1>5, ResultMoves
  <2>3. /\ SessionsOf(tasks)' = SessionsOf(tasks) /\ OnWorkers' = OnWorkers /\ Busy' = Busy
        /\ SessionsOf(results)' = {q.sess : q \in results \ {r}}
    BY <2>1, <2>2 DEF SessionsOf, OnWorkers, Busy
  <2>4. Away' \subseteq Away /\ r.sess \notin Away'
    BY <2>3, OneAway DEF Away, SessionsOf
  <2>5. \A f \in outgoing' : f \in outgoing \/ (f.from \in Session /\ f.n = Top(f.from)
                                                /\ f.from \notin Away')
    BY <1>1, <2>2, <2>4
  <2>6. \A q \in results' : \A f \in q.frames :
            f.from \in Session /\ f.from = q.sess /\ f.n = Top(f.from)
    BY <1>1, <2>2
  <2>7. \A w \in Worker : \A f \in worker'[w].frames :
            w \in Busy' /\ f \in worker[w].frames /\ worker'[w].up = worker[w].up
    BY <1>1, <2>1, <2>3
  <2> QED BY <1>0, <2>1, <2>4, <2>5, <2>6, <2>7, FramesKept
<1>6. ASSUME EndRound PROVE FramesOk'
  <2>1. UNCHANGED <<worker, results, ran, cleanups>> /\ outgoing' = {}
    BY <1>6 DEF EndRound
  <2>2. \A s : Top(s)' = Top(s)
    BY <2>1, TopKept
  <2>3. Busy' = Busy
    BY <2>1 DEF Busy
  <2>4. (\A r \in results : \A f \in r.frames : f.from = r.sess /\ f.n = Top(f.from))'
    BY <1>1, <2>1, <2>2
  <2>5. (\A w \in Worker : \A f \in worker[w].frames :
             w \in Busy /\ f.from = worker[w].up.sess /\ f.n = Top(f.from))'
    BY <1>1, <2>1, <2>2, <2>3
  <2>6. (\A t, s \in Session : seen[t][s] <= Top(s))'
    BY <1>6, <2>2, RoundTells
  <2> QED BY <2>1, <2>4, <2>5, <2>6 DEF FramesOk
<1>7. ASSUME NEW w \in Worker, Pop(w) PROVE FramesOk'
  <2>1. UNCHANGED <<outgoing, results, ran, cleanups, seen>> /\ worker[w].step = "idle"
    BY <1>7 DEF Pop, ctrlVars
  <2>2. PICK up \in tasks :
           /\ tasks' = tasks \ {up}
           /\ worker' = [worker EXCEPT ![w] = [step |-> "popped", up |-> up, frames |-> {}]]
    BY <1>7 DEF Pop
  <2>3. /\ worker'[w].up = up /\ worker'[w].frames = {} /\ w \notin Busy
        /\ \A v \in Worker : v # w => worker'[v] = worker[v]
        /\ \A v \in Worker : v \in Busy => v \in Busy'
        /\ \A v \in Busy' : v \in Worker /\ (v = w \/ v \in Busy)
    BY <1>0, <2>1, <2>2 DEF TypeOK, Busy
  <2>4. up.sess \in SessionsOf(tasks) /\ SessionsOf(tasks)' \subseteq SessionsOf(tasks)
    BY <2>2 DEF SessionsOf
  <2>5. OnWorkers' \subseteq OnWorkers \cup {up.sess} /\ SessionsOf(results)' = SessionsOf(results)
    BY <2>1, <2>3 DEF OnWorkers, SessionsOf
  <2>6. Away' \subseteq Away
    BY <2>4, <2>5 DEF Away
  <2>7. \A v \in Worker : \A f \in worker'[v].frames :
            v \in Busy' /\ f \in worker[v].frames /\ worker'[v].up = worker[v].up
    BY <1>1, <2>3
  <2> QED BY <1>0, <1>1, <2>1, <2>6, <2>7, FramesKept
<1>7b. ASSUME NEW w \in Worker, FreeCell(w) PROVE FramesOk'
  <2>1. UNCHANGED <<outgoing, tasks, worker, results, ran, cleanups, seen>>
    BY <1>7b DEF FreeCell, ctrlVars
  <2> QED BY <1>2, <2>1
<1>7c. ASSUME NEW w \in Worker, Admit(w) PROVE FramesOk'
  <2>1. UNCHANGED <<outgoing, tasks, results, ran, cleanups, seen>>
    BY <1>7c DEF Admit, ctrlVars
  <2>2. /\ Busy' = Busy
        /\ \A v \in Busy : worker'[v].up = worker[v].up
        /\ worker'[w].up = worker[w].up /\ worker'[w].frames = worker[w].frames
        /\ \A v \in Worker : v # w => worker'[v] = worker[v]
    <3>1. /\ Busy' = Busy
          /\ \A v \in Busy : worker'[v].up = worker[v].up
          /\ \A v \in Worker \ {w} : worker'[v] = worker[v]
          /\ worker'[w] = [worker[w] EXCEPT !.step = IF Admits(worker[w].up) THEN "admitted"
                                                                         ELSE "made"]
      BY <1>7c, AdmitTypes
    <3>2. worker[w] \in [step : Step, up : Up \cup {None}, frames : SUBSET Frame]
      BY <1>0 DEF TypeOK
    <3>3. worker'[w].up = worker[w].up /\ worker'[w].frames = worker[w].frames
      BY <3>1, <3>2
    <3> QED BY <3>1, <3>3
  <2>3. Away' = Away
    BY <2>1, <2>2 DEF Away, SessionsOf, OnWorkers
  <2>4. \A v \in Worker : \A f \in worker'[v].frames :
            v \in Busy' /\ f \in worker[v].frames /\ worker'[v].up = worker[v].up
    BY <1>1, <2>2
  <2> QED BY <1>0, <1>1, <2>1, <2>3, <2>4, FramesKept
<1>8. ASSUME NEW w \in Worker, Act(w) PROVE FramesOk'
  <2>1. PICK up : up = worker[w].up
    OBVIOUS
  <2>2. /\ up.sess \in Session /\ up.n \in Nat
        /\ Top(up.sess)' = up.n /\ Top(up.sess) <= up.n
        /\ \A s \in Session : s # up.sess => Top(s)' = Top(s)
    BY <1>8, <2>1, TopMoves
  <2>3. /\ UNCHANGED <<outgoing, tasks, results, seen>> /\ w \in Busy
        /\ worker' = [worker EXCEPT ![w] = [@ EXCEPT !.step = "made",
                                                    !.frames = Tell(Told(up), up)]]
    BY <1>8, <2>1 DEF Act, ctrlVars, Busy
  <2>4. /\ worker'[w].up = up /\ worker'[w].frames = Tell(Told(up), up)
        /\ worker'[w].step = "made"
        /\ \A v \in Worker : v # w => worker'[v] = worker[v]
    BY <1>0, <2>1, <2>3 DEF TypeOK
  <2>5. Busy' = Busy /\ OnWorkers' = OnWorkers
    <3>1. Busy' = Busy /\ \A v \in Busy : worker'[v].up = worker[v].up
      BY <1>8, ActTypes
    <3> QED BY <3>1 DEF OnWorkers
  <2>6. Away' = Away /\ up.sess \in Away
    BY <2>1, <2>3, <2>5, OneAway DEF Away, SessionsOf
  <2>7. (\A f \in outgoing : f.n = Top(f.from) /\ f.from \notin Away)'
    BY <1>1, <2>2, <2>3, <2>6 DEF FramesOk
  <2>8. (\A r \in results : \A f \in r.frames : f.from = r.sess /\ f.n = Top(f.from))'
    <3>1. \A r \in results : r.sess # up.sess
      BY <2>1, <2>3, OneAway
    <3> QED BY <1>1, <2>2, <2>3, <3>1
  <2>9. ASSUME NEW v \in Worker, NEW f \in worker'[v].frames
        PROVE  v \in Busy' /\ f.from = worker'[v].up.sess /\ f.n = Top(f.from)'
    <3>1. CASE v = w
      <4>1. f.from = up.sess /\ f.n = up.n
        BY <2>4, <2>9, <3>1 DEF Tell
      <4> QED BY <2>2, <2>3, <2>4, <2>5, <3>1, <4>1
    <3>2. CASE v # w
      <4>1. v \in Busy /\ f.from = worker[v].up.sess /\ f.n = Top(f.from) /\ f.from \in Session
        BY <1>1, <2>4, <2>9, <3>2
      <4>2. f.from # up.sess
        BY <2>1, <2>3, <3>2, <4>1, OneAway
      <4> QED BY <2>2, <2>4, <2>5, <3>2, <4>1, <4>2
    <3> QED BY <3>1, <3>2
  <2>10. ASSUME NEW t \in Session, NEW s \in Session
         PROVE  seen'[t][s] <= Top(s)'
    <3>1. seen[t][s] \in Nat /\ Top(s) \in Nat /\ seen[t][s] <= Top(s)
      BY <1>0, FrameTypes DEF FramesOk
    <3> QED BY <2>2, <2>3, <3>1
  <2> QED BY <2>7, <2>8, <2>9, <2>10 DEF FramesOk
<1>9. ASSUME NEW w \in Worker, PostResult(w) PROVE FramesOk'
  <2>1. /\ UNCHANGED <<outgoing, tasks, ran, cleanups, seen>>
        /\ results' = results \cup {[sess |-> worker[w].up.sess, frames |-> worker[w].frames]}
        /\ worker' = [worker EXCEPT ![w] = Idle]
    BY <1>9 DEF PostResult, ctrlVars
  <2>2. w \in Busy /\ Busy' = Busy \ {w} /\ \A v \in Busy \ {w} : worker'[v] = worker[v]
    BY <1>9, PostResultTypes
  <2>3. worker'[w].frames = {} /\ \A v \in Worker : v # w => worker'[v] = worker[v]
    BY <1>0, <2>1 DEF TypeOK, Idle
  <2>4. Away' \subseteq Away
    <3>1. SessionsOf(results)' \subseteq SessionsOf(results) \cup {worker[w].up.sess}
      BY <2>1 DEF SessionsOf
    <3>2. OnWorkers' \subseteq OnWorkers /\ worker[w].up.sess \in OnWorkers
      BY <2>2 DEF OnWorkers
    <3> QED BY <2>1, <3>1, <3>2 DEF Away, SessionsOf
  <2>5. \A r \in results' : \A f \in r.frames :
            f.from \in Session /\ f.from = r.sess /\ f.n = Top(f.from)
    BY <1>1, <2>1
  <2>6. \A v \in Worker : \A f \in worker'[v].frames :
            v \in Busy' /\ f \in worker[v].frames /\ worker'[v].up = worker[v].up
    BY <1>1, <2>2, <2>3
  <2> QED BY <1>0, <1>1, <2>1, <2>4, <2>5, <2>6, FramesKept
<1>10. ASSUME UNCHANGED vars PROVE FramesOk'
  <2>1. UNCHANGED <<outgoing, tasks, worker, results, ran, cleanups, seen>>
    BY <1>10 DEF vars, ctrlVars, poolVars
  <2> QED BY <1>2, <2>1
<1> QED BY <1>3, <1>4, <1>5, <1>6, <1>7, <1>7b, <1>7c, <1>8, <1>9, <1>10
        DEF Next, CtrlThread, PoolThread
-------------------------------------------------------------------------------
(* What the client sent, and what was posted of it *)

\* The first may be acted on before the second.
Precedes(then, now) == then.at < now.at \/ (~then.binary /\ now.binary)

\* Every message posted has its place in what the client sent, and they were posted in an
\* order that uplink_ws allows.
PostedOk(s) == /\ Len(posted[s]) = sent[s]
               /\ \A i \in 1..sent[s] : posted[s][i].at <= sent[s]
               /\ \A i, j \in 1..sent[s] : i < j => Precedes(posted[s][i], posted[s][j])

AllPostedOk == \A s \in Session : PostedOk(s)

LEMMA InitPosted == Init => AllPostedOk
<1>1. Len(<<>>) = 0
  OBVIOUS
<1> QED BY <1>1 DEF Init, AllPostedOk, PostedOk

\* Only reads post messages.
LEMMA OnlyReads ==
    ASSUME [Next]_vars
    PROVE  UNCHANGED <<sent, posted>> \/ \E s \in Session : Read(s)
<1>1. ASSUME NEW s \in Session, IoThread(s)
      PROVE  UNCHANGED <<sent, posted>> \/ Read(s)
  BY <1>1 DEF IoThread, BeginClose, UplinkClosed
<1>2. CtrlThread => UNCHANGED <<sent, posted>>
  BY DEF CtrlThread, SortUplink, SortResult, EndRound, ioVars
<1>3. \A w \in Worker : PoolThread(w) => UNCHANGED <<sent, posted>>
  BY DEF PoolThread, Pop, FreeCell, Admit, Act, PostResult, ioVars
<1>4. UNCHANGED vars => UNCHANGED <<sent, posted>>
  BY DEF vars, ioVars
<1> QED BY <1>1, <1>2, <1>3, <1>4 DEF Next

LEMMA PostedStep ==
    ASSUME TypeOK, AllPostedOk, [Next]_vars
    PROVE  AllPostedOk'
<1>1. CASE UNCHANGED <<sent, posted>>
  BY <1>1 DEF AllPostedOk, PostedOk
<1>2. ASSUME NEW s \in Session, Read(s), NEW t \in Session
      PROVE  PostedOk(t)'
  <2>1. PICK k \in 1..MaxSent[s] : \E read \in [1..k -> Sends[s]] :
             \E order \in PostOrders(read) : UplinkRead(s, read, order)
    BY <1>2 DEF Read
  <2>2. PICK read \in [1..k -> Sends[s]] :
             \E order \in PostOrders(read) : UplinkRead(s, read, order)
    BY <2>1
  <2>3. PICK order \in PostOrders(read) : UplinkRead(s, read, order)
    BY <2>2
  <2> DEFINE m == [i \in 1..k |-> [binary |-> Binary(read[order[i]]), at |-> sent[s] + order[i]]]
             q == posted[s]
             p == q \o m
  <2>4. k \in Nat /\ Len(read) = k /\ DOMAIN read = 1..k /\ order \in [1..k -> 1..k]
    <3>1. k \in Nat /\ Len(read) = k /\ DOMAIN read = 1..k
      BY ConstantsAssumption
    <3> QED BY <3>1 DEF PostOrders
  <2>5. \A i, j \in 1..k : i < j => Sooner(read, order[i], order[j])
    BY <2>4 DEF PostOrders
  <2>6. m \in Seq(Message) /\ Len(m) = k
    <3>1. sent[s] \in Nat
      BY DEF TypeOK
    <3>2. \A i \in 1..k : [binary |-> Binary(read[order[i]]), at |-> sent[s] + order[i]] \in Message
      <4>1. \A i \in 1..k : sent[s] + order[i] \in Nat
        <5>1. \A i \in 1..k : order[i] \in Nat
          BY <2>4
        <5> QED BY <3>1, <5>1
      <4>2. \A i \in 1..k : Binary(read[order[i]]) \in BOOLEAN
        BY DEF Binary
      <4> QED BY <4>1, <4>2 DEF Message
    <3>3. m \in [1..k -> Message]
      BY <3>2
    <3> HIDE DEF m
    <3> QED BY <2>4, <3>3
  <2>7. posted' = [posted EXCEPT ![s] = p] /\ sent' = [sent EXCEPT ![s] = @ + k]
    BY <2>3, <2>4 DEF UplinkRead
  <2>8. /\ sent[s] \in Nat /\ Len(q) = sent[s] /\ q \in Seq(Message)
        /\ posted \in [Session -> Seq(Message)] /\ sent \in [Session -> Nat]
    BY DEF TypeOK, AllPostedOk, PostedOk
  <2>9. CASE t # s
    <3>1. posted'[t] = posted[t] /\ sent'[t] = sent[t]
      BY <2>7, <2>8, <2>9
    <3> QED BY <3>1 DEF AllPostedOk, PostedOk
  <2>10. CASE t = s
    <3>1. posted'[t] = p /\ sent'[t] = sent[s] + k
      BY <2>7, <2>8, <2>10
    <3>2. /\ Len(p) = sent[s] + k
          /\ \A i \in 1..(sent[s] + k) : p[i] = IF i <= sent[s] THEN q[i] ELSE m[i - sent[s]]
      <4> HIDE DEF m, q, p
      <4>1. q \in Seq(Message) /\ m \in Seq(Message) /\ Len(q) = sent[s] /\ Len(m) = k
        BY <2>6, <2>8
      <4>2. /\ Len(q \o m) = Len(q) + Len(m)
            /\ \A i \in 1..(Len(q) + Len(m)) :
                  (q \o m)[i] = IF i <= Len(q) THEN q[i] ELSE m[i - Len(q)]
        BY <4>1, ConcatProperties
      <4> QED BY <4>1, <4>2 DEF p
    <3>3. \A i \in 1..k : m[i].at \in Nat /\ sent[s] < m[i].at /\ m[i].at <= sent[s] + k
      <4>1. \A i \in 1..k : m[i].at = sent[s] + order[i]
        OBVIOUS
      <4>2. \A i \in 1..k : order[i] \in Nat /\ order[i] >= 1 /\ order[i] <= k
        BY <2>4
      <4>3. sent[s] \in Nat
        BY <2>8
      <4> HIDE DEF m
      <4> SUFFICES ASSUME NEW i \in 1..k
                   PROVE  m[i].at \in Nat /\ sent[s] < m[i].at /\ m[i].at <= sent[s] + k
        OBVIOUS
      <4>4. PICK d \in Nat : d >= 1 /\ d <= k /\ m[i].at = sent[s] + d
        BY <4>1, <4>2
      <4>5. PICK x \in Nat : x = sent[s]
        BY <4>3
      <4>6. k \in Nat
        BY <2>4
      <4> QED BY <4>4, <4>5, <4>6
    <3>4. \A i, j \in 1..k : i < j => Precedes(m[i], m[j])
      <4> SUFFICES ASSUME NEW i \in 1..k, NEW j \in 1..k, i < j
                   PROVE  Precedes(m[i], m[j])
        OBVIOUS
      <4>1. Sooner(read, order[i], order[j])
        BY <2>5
      <4>2. m[i].binary = Binary(read[order[i]]) /\ m[j].binary = Binary(read[order[j]])
        OBVIOUS
      <4>3. CASE Binary(read[order[i]]) = Binary(read[order[j]])
        <5>1. order[i] < order[j]
          BY <4>1, <4>3 DEF Sooner
        <5>2. m[i].at < m[j].at
          BY <2>4, <2>8, <5>1
        <5> QED BY <5>2 DEF Precedes
      <4>4. CASE Binary(read[order[i]]) # Binary(read[order[j]])
        <5>1. Binary(read[order[j]]) /\ ~Binary(read[order[i]])
          BY <4>1, <4>4 DEF Sooner, Binary
        <5> QED BY <4>2, <5>1 DEF Precedes
      <4> QED BY <4>3, <4>4
    <3>5. /\ \A i \in 1..sent[s] : q[i].at <= sent[s] /\ q[i].at \in Nat
          /\ \A i, j \in 1..sent[s] : i < j => Precedes(q[i], q[j])
      <4>1. \A i \in 1..sent[s] : q[i] \in Message
        BY <2>8, ElementOfSeq
      <4> QED BY <4>1 DEF Message, AllPostedOk, PostedOk
    <3> HIDE DEF m, q, p
    <3>6. ASSUME NEW i \in 1..(sent[s] + k) PROVE p[i].at <= sent[s] + k
      <4>1. CASE i <= sent[s]
        BY <2>4, <2>8, <3>2, <3>5, <4>1
      <4>2. CASE ~(i <= sent[s])
        <5>1. i - sent[s] \in 1..k
          BY <2>4, <2>8, <4>2
        <5> QED BY <3>2, <3>3, <4>2, <5>1
      <4> QED BY <4>1, <4>2
    <3>7. ASSUME NEW i \in 1..(sent[s] + k), NEW j \in 1..(sent[s] + k), i < j
          PROVE  Precedes(p[i], p[j])
      <4>1. CASE j <= sent[s]
        BY <2>8, <3>2, <3>5, <3>7, <4>1
      <4>2. CASE ~(i <= sent[s])
        <5>1. /\ i - sent[s] \in 1..k /\ j - sent[s] \in 1..k /\ i - sent[s] < j - sent[s]
              /\ ~(j <= sent[s])
          BY <2>4, <2>8, <3>7, <4>2
        <5> QED BY <3>2, <3>4, <4>2, <5>1
      <4>3. CASE i <= sent[s] /\ ~(j <= sent[s])
        <5>1. i \in 1..sent[s] /\ j - sent[s] \in 1..k
          BY <2>4, <2>8, <4>3
        <5>2. q[i].at < m[j - sent[s]].at
          BY <2>8, <3>3, <3>5, <5>1
        <5> QED BY <3>2, <4>3, <5>2 DEF Precedes
      <4> QED BY <4>1, <4>2, <4>3
    <3> QED BY <3>1, <3>2, <3>6, <3>7 DEF PostedOk
  <2> QED BY <2>9, <2>10
<1> QED BY <1>1, <1>2, OnlyReads DEF AllPostedOk

-------------------------------------------------------------------------------
(* Cleanup and order as theorems *)

\* The inductive invariant of both: the gate's, with what it says of a session's end, of
\* the order of its messages and what is missing of them, of the frames that tell of them,
\* and of what the client sent.
Sound == IInv /\ AllEndsOk /\ AllOrderOk /\ AllCovered /\ FramesOk /\ AllPostedOk

LEMMA SoundStep == Sound /\ [Next]_vars => Sound'
<1> SUFFICES ASSUME Sound, [Next]_vars PROVE Sound'
  OBVIOUS
<1>1. IInv' /\ FramesOk'
  BY NextIInv, FramesStep DEF Sound
<1>2. AllEndsOk'
  BY EndsStep DEF Sound, AllEndsOk
<1>3. AllOrderOk' /\ AllCovered'
  BY OrderStep DEF Sound, AllOrderOk, AllCovered
<1>4. AllPostedOk'
  BY PostedStep DEF Sound, IInv
<1> QED BY <1>1, <1>2, <1>3, <1>4 DEF Sound

THEOREM SoundAlways == Safety => []Sound
<1>1. Init => Sound
  BY InitIInv, InitEndsOk, InitOrder, InitFrames, InitPosted DEF Sound
<1> QED BY <1>1, SoundStep, PTL DEF Safety

\* Who a step makes a member, what it cleans up and what it runs: one event, by Act.
LEMMA OnlyActs ==
    ASSUME TypeOK, [Next]_vars, UNCHANGED <<members, ran, cleanups>> => FALSE
    PROVE  \E w \in Worker : Act(w)
<1>1. \A s \in Session : IoThread(s) => UNCHANGED <<members, ran, cleanups>>
  BY ReadMoves DEF IoThread, BeginClose, UplinkClosed, poolVars
<1>2. CtrlThread => UNCHANGED <<members, ran, cleanups>>
  BY DEF CtrlThread, SortUplink, SortResult, EndRound, poolVars
<1>3. \A w \in Worker : Pop(w) \/ FreeCell(w) \/ Admit(w) \/ PostResult(w)
                           => UNCHANGED <<members, ran, cleanups>>
  BY DEF Pop, FreeCell, Admit, PostResult
<1>4. UNCHANGED vars => UNCHANGED <<members, ran, cleanups>>
  BY DEF vars, poolVars
<1> QED BY <1>1, <1>2, <1>3, <1>4 DEF Next, PoolThread

\* AppRouter::cleanup is final: whatever was in flight, waiting or posted late when the
\* session was cleaned up, it is not in the room and never enters it again, and no second
\* cleanup runs, even when the pool refuses batches.
THEOREM CleanedUpForGood == Safety => CleanedForGood
<1> DEFINE A == \A s \in Session : cleanups[s] > 0 =>
                    s \notin members' /\ cleanups'[s] = cleanups[s]
<1>1. Sound /\ [Next]_vars => A
  <2> SUFFICES ASSUME Sound, [Next]_vars, NEW s \in Session, cleanups[s] > 0
               PROVE  s \notin members' /\ cleanups'[s] = cleanups[s]
    OBVIOUS
  <2>1. EndsOk(s) /\ IInv /\ cleanups \in [Session -> Nat]
    BY DEF Sound, AllEndsOk, IInv, TypeOK
  <2>2. s \notin members /\ \A u \in Admitted : u.sess # s
    BY <2>1 DEF EndsOk
  <2>3. ASSUME NEW w \in Worker, Act(w) PROVE s \notin members' /\ cleanups'[s] = cleanups[s]
    <3>1. PICK up : up = worker[w].up
      OBVIOUS
    <3>2. up.sess # s
      BY <2>1, <2>2, <2>3, <3>1, ActMoves
    <3>3. /\ members' \subseteq members \cup {up.sess} \/ up.kind \notin {"JOIN", "MSG", "CHUNK", "CLOSED"}
          /\ cleanups' = cleanups \/ cleanups' = [cleanups EXCEPT ![up.sess] = @ + 1]
      BY <2>3, <3>1 DEF Act
    <3>4. up.kind \in {"JOIN", "MSG", "CHUNK", "CLOSED"}
      <4>1. up \in Up
        BY <2>1, <2>3, <3>1, ActMoves, UnactedFacts DEF Unacted
      <4> QED BY <4>1 DEF Up, MsgKind
    <3> QED BY <2>1, <2>2, <3>2, <3>3, <3>4
  <2>4. CASE UNCHANGED <<members, ran, cleanups>>
    BY <2>2, <2>4
  <2> QED BY <2>1, <2>3, <2>4, OnlyActs DEF IInv
<1>2. [][A]_vars => CleanedForGood
  BY DEF CleanedForGood
<1> HIDE DEF A
<1>3. Sound /\ [Next]_vars => [A]_vars
  BY <1>1
<1> QED BY <1>2, <1>3, SoundAlways, PTL DEF Safety
\* Acting on a message moves ran forward, to a message posted; what a living session's is
\* moved over the pool refused.
LEMMA RunsNext ==
    ASSUME Sound, NEW w \in Worker, Act(w), NEW s \in Session, ran'[s] # ran[s]
    PROVE  /\ ran[s] \in Nat /\ ran'[s] \in Nat /\ ran'[s] > ran[s] /\ ran'[s] <= sent[s]
           /\ alive[s] => \A n \in (ran[s] + 1)..(ran'[s] - 1) : n \in refused[s]
<1>0. /\ IInv /\ OrderOk(s) /\ Covered(s)
      /\ ran \in [Session -> Nat] /\ ran[s] \in Nat /\ sent[s] \in Nat
  BY DEF Sound, AllOrderOk, AllCovered, IInv, TypeOK
<1>1. PICK up : up = worker[w].up
  OBVIOUS
<1>2. up \in Unacted /\ up \in Up
  BY <1>0, <1>1, ActMoves, UnactedFacts DEF Unacted
<1>3. up.kind # "CLOSED" /\ ran' = [ran EXCEPT ![up.sess] = up.n]
  BY <1>1 DEF Act
<1>4. up.sess = s /\ ran'[s] = up.n /\ up.n \in Nat
  BY <1>0, <1>2, <1>3 DEF Up
<1>5. up \in Fresh(s) /\ up \in Waiting(s) /\ \A u \in Fresh(s) : u = up
  BY <1>0, <1>2, <1>3, <1>4, UnactedFacts DEF Fresh, Waiting, Mine
<1>6. ran[s] < up.n /\ up.n <= sent[s]
  BY <1>0, <1>5 DEF OrderOk
<1>7. ASSUME alive[s], NEW n \in (ran[s] + 1)..(up.n - 1) PROVE n \in refused[s]
  <2>1. n \in Nat /\ ran[s] < n /\ n <= sent[s] /\ n < up.n
    BY <1>0, <1>4, <1>6
  <2>2. \A u \in Waiting(s) : u = up \/ up.n < u.n
    BY <1>0, <1>5 DEF Waiting, OrderOk, Below
  <2>3. \A u \in Waiting(s) : u.n \in Nat
    BY <1>0, WaitingType
  <2>4. \A u \in Waiting(s) : u.n # n
    BY <1>4, <2>1, <2>2, <2>3
  <2> QED BY <1>0, <1>7, <2>1, <2>4 DEF Covered
<1> QED BY <1>0, <1>4, <1>6, <1>7

\* What a member was told of a session is only ever replaced by something newer.
LEMMA FramesForward ==
    ASSUME Sound, [Next]_vars, NEW s \in Session
    PROVE  FramesInOrder(s)
<1>1. ASSUME EndRound, NEW t \in Session PROVE seen'[t][s] >= seen[t][s]
  <2>1. seen[t][s] \in Nat /\ seen'[t][s] \in Nat
    <3>1. TypeOK /\ TypeOK'
      BY NextIInv DEF Sound, IInv
    <3> QED BY <3>1 DEF TypeOK
  <2>2. seen[t][s] <= seen'[t][s]
    BY <1>1, RoundTells DEF Sound
  <2> QED BY <2>1, <2>2
<1>2. ASSUME seen' = seen, NEW t \in Session PROVE seen'[t][s] >= seen[t][s]
  <2>1. seen[t][s] \in Nat
    BY DEF Sound, IInv, TypeOK
  <2> QED BY <1>2, <2>1
<1>3. seen' = seen \/ EndRound
  <2>1. \A r \in Session : IoThread(r) => seen' = seen
    BY ReadMoves DEF Sound, IInv, IoThread, BeginClose, UplinkClosed
  <2> QED BY <2>1 DEF Next, CtrlThread, SortUplink, SortResult, PoolThread, Pop, FreeCell,
                     Admit, Act, PostResult, vars
<1> QED BY <1>1, <1>2, <1>3 DEF FramesInOrder

\* From a client's socket to the members' io threads (ConnHandler.cpp:203-213,
\* CtrlDispatcher.cpp:94 and :147): for any capacity of the pool the order of a session's
\* messages is the one uplink_ws made of what the client sent, and none is left out while
\* its connection lives but those AppHandler::submit_ups was refused.
THEOREM OrderIsKept == Safety => KeepsOrder
<1> DEFINE A == \A s \in Session : RunsInOrder(s) /\ RunsAsSent(s) /\ FramesInOrder(s)
<1>1. Sound /\ [Next]_vars => A
  <2> SUFFICES ASSUME Sound, [Next]_vars, NEW s \in Session
               PROVE  RunsInOrder(s) /\ RunsAsSent(s) /\ FramesInOrder(s)
    OBVIOUS
  <2>1. ASSUME ran'[s] # ran[s]
        PROVE  /\ ran[s] \in Nat /\ ran'[s] \in Nat /\ ran'[s] > ran[s] /\ ran'[s] <= sent[s]
               /\ alive[s] => \A n \in (ran[s] + 1)..(ran'[s] - 1) : n \in refused[s]
    BY <2>1, OnlyActs, RunsNext DEF Sound, IInv
  <2>2. ASSUME ran'[s] # ran[s], NEW n \in 1..ran[s]
        PROVE  Precedes(posted[s][n], posted[s][ran'[s]])
    <3>1. PostedOk(s) /\ sent[s] \in Nat
      BY DEF Sound, AllPostedOk, IInv, TypeOK
    <3>2. n \in 1..sent[s] /\ ran'[s] \in 1..sent[s] /\ n < ran'[s]
      BY <2>1, <2>2, <3>1
    <3> QED BY <3>1, <3>2 DEF PostedOk
  <2>3. RunsInOrder(s)
    BY <2>1 DEF RunsInOrder
  <2>4. RunsAsSent(s)
    BY <2>2 DEF RunsAsSent, Precedes
  <2> QED BY <2>3, <2>4, FramesForward
<1>2. [][A]_vars => KeepsOrder
  BY DEF KeepsOrder
<1> HIDE DEF A
<1>3. Sound /\ [Next]_vars => [A]_vars
  BY <1>1
<1> QED BY <1>2, <1>3, SoundAlways, PTL DEF Safety

===============================================================================
