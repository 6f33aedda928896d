----------------------------- MODULE RoomsProofs -----------------------------
(***************************************************************************)
(* Proofs about module Rooms, for any number of sessions and rooms and any  *)
(* size of a room, also when numbers of connections are given out again:    *)
(* a room's number leads to the object its members are in, and the rooms    *)
(* are a membership relation.  Where no number is given out twice, of two   *)
(* members exactly one calls the other.                                     *)
(***************************************************************************)
EXTENDS Rooms, FiniteSetTheorems, TLAPS

-------------------------------------------------------------------------------
(* The inductive invariant *)

\* Who has been a member, or has ended.
Entered == {s \in Session : room[s] # None \/ conn[s] = "over"}

\* An object is made only for a session that enters it, and objects not yet made
\* are empty and not mapped to.
ObjectsAreMade == /\ objects <= Cardinality(Entered)
                  /\ \A r \in Room : mapped[r] <= objects
                  /\ \A o \in Object : o > objects => members[o] = {}

\* An object is a room of one number only.
OneNumber == \A r, q \in Room : mapped[r] = mapped[q] /\ mapped[r] # 0 => r = q

\* Every member of an object is in the room that is mapped to it.
MembersAreHere == \A o \in Object : \A s \in members[o] :
                      room[s] # None /\ mapped[room[s]] = o

\* What a connection can be at, by how far it has come.
Phases ==
    \A s \in Session :
       /\ room[s] # None => conn[s] \in {"open", "closed"}
       /\ task[s].at = "join" => room[s] = None /\ conn[s] \in {"open", "closed"}
       /\ offers[s] # {} => conn[s] = "open" /\ room[s] # None
       /\ task[s].at = "joined" => task[s].told \subseteq Entered

IInv == /\ TypeOK
        /\ ObjectsAreMade
        /\ OneNumber
        /\ MembersAreHere
        /\ HeldIsMapped
        /\ Phases

-------------------------------------------------------------------------------
(* What holds in every state of the invariant *)

\* A task has the fields its kind has.
LEMMA TaskFields ==
    ASSUME NEW x \in Task
    PROVE  /\ x.at \in {"idle", "join", "joined", "left", "relay"}
           /\ x.at = "idle" => x = Idle
           /\ x.at = "join" => x.r \in Room
           /\ x.at \in {"joined", "left"} => x.told \in SUBSET Session
           /\ x.at = "relay" => x.obj \in Object \cup {0} /\ x.to \in Fd
BY DEF Task, Idle

\* The tasks handlers put down are tasks.
LEMMA TasksMade ==
    /\ Idle \in Task /\ Idle.at = "idle"
    /\ \A r \in Room : /\ [at |-> "join", r |-> r] \in Task
                       /\ [at |-> "join", r |-> r].at = "join"
    /\ \A told \in SUBSET Session :
          /\ [at |-> "joined", told |-> told] \in Task
          /\ [at |-> "joined", told |-> told].at = "joined"
          /\ [at |-> "joined", told |-> told].told = told
          /\ [at |-> "left", told |-> told] \in Task
          /\ [at |-> "left", told |-> told].at = "left"
    /\ \A o \in Object \cup {0}, fd \in Fd :
          /\ [at |-> "relay", to |-> fd, obj |-> o] \in Task
          /\ [at |-> "relay", to |-> fd, obj |-> o].at = "relay"
          /\ [at |-> "relay", to |-> fd, obj |-> o].obj = o
BY DEF Task, Idle

LEMMA NoneIsNoRoom == None \notin Room
BY RoomsAssumption DEF None

\* Members are finitely many.
LEMMA MembersFinite ==
    ASSUME TypeOK, NEW o \in Object
    PROVE  /\ members[o] \in SUBSET Session
           /\ IsFiniteSet(members[o]) /\ Cardinality(members[o]) \in Nat
BY FS_Subset, FS_CardinalityType, RoomsAssumption DEF TypeOK

\* While somebody has still to enter, there is an object left to be made.
LEMMA ObjectsSuffice ==
    ASSUME IInv, NEW s \in Session, s \notin Entered
    PROVE  /\ objects + 1 \in Object
           /\ IsFiniteSet(Entered \cup {s})
           /\ Cardinality(Entered \cup {s}) = Cardinality(Entered) + 1
           /\ Cardinality(Entered) \in Nat
<1>1. Entered \in SUBSET Session /\ Entered \cup {s} \in SUBSET Session
  BY DEF Entered
<1>2. IsFiniteSet(Entered) /\ Cardinality(Entered) \in Nat
  BY <1>1, FS_Subset, FS_CardinalityType, RoomsAssumption
<1>3. /\ IsFiniteSet(Entered \cup {s})
      /\ Cardinality(Entered \cup {s}) = Cardinality(Entered) + 1
  BY <1>2, FS_AddElement
<1>4. Cardinality(Entered \cup {s}) <= Cardinality(Session) /\ Cardinality(Session) \in Nat
  BY <1>1, FS_Subset, FS_CardinalityType, RoomsAssumption
<1>5. objects \in Nat /\ objects <= Cardinality(Entered)
  BY <1>4 DEF IInv, TypeOK, ObjectsAreMade, Object
<1> QED BY <1>2, <1>3, <1>4, <1>5 DEF Object

\* The members of a room are those of the object it is mapped to.
LEMMA WhoIsIn ==
    ASSUME IInv, NEW r \in Room, NEW s \in Session
    PROVE  s \in Connections(mapped[r]) <=> room[s] = r
<1>1. CASE mapped[r] = 0
  BY <1>1, NoneIsNoRoom DEF IInv, HeldIsMapped, Connections
<1>2. CASE mapped[r] # 0
  <2>1. mapped[r] \in Object /\ Connections(mapped[r]) = members[mapped[r]]
    BY <1>2 DEF IInv, TypeOK, Connections
  <2>2. ASSUME s \in members[mapped[r]] PROVE room[s] = r
    <3>1. room[s] # None /\ mapped[room[s]] = mapped[r]
      BY <2>1, <2>2 DEF IInv, MembersAreHere
    <3>2. room[s] \in Room
      BY <3>1 DEF IInv, TypeOK
    <3> QED BY <1>2, <3>1, <3>2 DEF IInv, OneNumber
  <2>3. ASSUME room[s] = r PROVE s \in members[mapped[r]]
    BY <2>3, NoneIsNoRoom DEF IInv, HeldIsMapped
  <2> QED BY <2>1, <2>2, <2>3
<1> QED BY <1>1, <1>2

-------------------------------------------------------------------------------
(* The steps *)

LEMMA InitIInv == Init => IInv
<1> SUFFICES ASSUME Init PROVE IInv
  OBVIOUS
<1>1. Cardinality(Session) \in Nat
  BY FS_CardinalityType, RoomsAssumption
<1>2. IsFiniteSet({}) /\ Cardinality({}) = 0 /\ Entered = {}
  BY FS_EmptySet DEF Entered, Init
<1>3. TypeOK
  BY <1>1, <1>2, TasksMade, RoomsAssumption DEF Init, TypeOK, Object
<1>4. ObjectsAreMade /\ OneNumber /\ MembersAreHere
  BY <1>1, <1>2 DEF Init, ObjectsAreMade, OneNumber, MembersAreHere, Object
<1>5. HeldIsMapped /\ Phases
  BY TasksMade DEF Init, HeldIsMapped, Phases
<1> QED BY <1>3, <1>4, <1>5 DEF IInv

\* A session that enters a room is the only thing that changes there.  The object
\* is the one mapped to, or the next one.
LEMMA JoinKeepsObjects ==
    ASSUME IInv, NEW s \in Session, NEW r \in Room, NEW o \in Object,
           s \notin Entered,
           \/ mapped[r] = o /\ objects' = objects
           \/ mapped[r] = 0 /\ o = objects + 1 /\ objects' = o,
           mapped' = [mapped EXCEPT ![r] = o],
           members' = [members EXCEPT ![o] = @ \cup {s}],
           room' = [room EXCEPT ![s] = r],
           conn' = conn
    PROVE  /\ (ObjectsAreMade /\ OneNumber /\ MembersAreHere)'
           /\ \A t \in Session : room'[t] # None => /\ mapped'[room'[t]] # 0
                                                    /\ t \in members'[mapped'[room'[t]]]
<1>1. /\ mapped \in [Room -> Object \cup {0}] /\ room \in [Session -> Room \cup {None}]
      /\ members \in [Object -> SUBSET Session] /\ objects \in Object \cup {0}
  BY DEF IInv, TypeOK
<1>2. Cardinality(Session) \in Nat
  BY FS_CardinalityType, RoomsAssumption
<1>3. /\ \A x \in Object : x \in Nat /\ x # 0
      /\ r # None /\ room[s] = None
  BY <1>2, NoneIsNoRoom DEF Object, Entered
<1>4. ObjectsAreMade'
  <2>1. Entered' = Entered \cup {s}
    BY <1>1, <1>3 DEF Entered
  <2>2. /\ objects \in Nat /\ o \in Nat /\ objects' \in Nat /\ objects <= objects'
        /\ \A q \in Room : mapped[q] \in Nat
    <3>1. objects \in Nat /\ o \in Nat /\ \A q \in Room : mapped[q] \in Nat
      BY <1>1, <1>3
    <3>2. objects' = objects \/ objects' = objects + 1
      OBVIOUS
    <3> QED BY <3>1, <3>2
  <2>3. objects' <= Cardinality(Entered')
    <3>1. objects <= Cardinality(Entered) /\ objects' <= objects + 1
      BY <2>2 DEF IInv, ObjectsAreMade
    <3>2. Cardinality(Entered) \in Nat /\ Cardinality(Entered \cup {s}) = Cardinality(Entered) + 1
      BY ObjectsSuffice
    <3> QED BY <2>2, <2>1, <3>1, <3>2
  <2>4. o <= objects'
    BY <1>1, <1>3 DEF IInv, ObjectsAreMade
  <2>5. \A q \in Room : mapped'[q] <= objects'
    <3> SUFFICES ASSUME NEW q \in Room PROVE mapped'[q] <= objects'
      OBVIOUS
    <3>1. mapped[q] <= objects
      BY DEF IInv, ObjectsAreMade
    <3>2. mapped'[q] = IF q = r THEN o ELSE mapped[q]
      BY <1>1
    <3> QED BY <2>2, <2>4, <3>1, <3>2
  <2>6. \A x \in Object : x > objects' => members'[x] = {}
    BY <1>1, <1>3, <2>4 DEF IInv, ObjectsAreMade
  <2> QED BY <2>3, <2>5, <2>6 DEF ObjectsAreMade
<1>5. \A q \in Room : q # r => mapped[q] # o
  BY <1>1, <1>3 DEF IInv, ObjectsAreMade, OneNumber
<1>6. OneNumber'
  BY <1>1, <1>5 DEF IInv, OneNumber
<1>7. ASSUME NEW x \in Object, NEW t \in members'[x]
      PROVE  room'[t] # None /\ mapped'[room'[t]] = x
  <2>1. CASE t = s /\ x = o
    BY <1>1, <1>3, <2>1
  <2>2. CASE t \in members[x]
    <3>1. room[t] # None /\ mapped[room[t]] = x /\ t \in Session /\ t # s
      BY <1>1, <1>3, <2>2 DEF IInv, MembersAreHere
    <3>2. room[t] \in Room /\ room'[t] = room[t]
      BY <1>1, <3>1
    <3> QED BY <1>1, <1>3, <3>1, <3>2
  <2> QED BY <1>1, <1>7, <2>1, <2>2
<1>8. ASSUME NEW t \in Session, room'[t] # None
      PROVE  mapped'[room'[t]] # 0 /\ t \in members'[mapped'[room'[t]]]
  <2>1. CASE t = s
    BY <1>1, <1>3, <2>1
  <2>2. CASE t # s
    <3>1. /\ room'[t] = room[t] /\ room[t] \in Room
          /\ mapped[room[t]] # 0 /\ t \in members[mapped[room[t]]]
      BY <1>1, <1>8, <2>2 DEF IInv, HeldIsMapped
    <3>2. mapped'[room[t]] = mapped[room[t]] /\ mapped[room[t]] \in Object
      BY <1>1, <3>1
    <3> QED BY <1>1, <3>1, <3>2
  <2> QED BY <2>1, <2>2
<1> QED BY <1>4, <1>6, <1>7, <1>8 DEF MembersAreHere

LEMMA JoinRoomStep ==
    ASSUME IInv, NEW s \in Session, JoinRoom(s)
    PROVE  IInv'
<1> DEFINE r == task[s].r
           o == IF mapped[r] = 0 THEN objects + 1 ELSE mapped[r]
<1>1. r \in Room /\ task[s].at = "join" /\ room[s] = None /\ conn[s] \in {"open", "closed"}
  BY TaskFields DEF JoinRoom, IInv, TypeOK, Phases
<1>2. s \notin Entered
  BY <1>1 DEF Entered
<1>3. o \in Object
  BY <1>1, <1>2, ObjectsSuffice DEF IInv, TypeOK
<1>4. /\ mapped' = [mapped EXCEPT ![r] = o]
      /\ objects' = IF mapped[r] = 0 THEN o ELSE objects
      /\ conn' = conn /\ list' = list /\ peers' = peers /\ offers' = offers /\ callers' = callers
  BY DEF JoinRoom, browser
<1>5. mapped[r] = 0 => members[o] = {} /\ HasPlace(o)
  <2>1. objects \in Nat
    BY FS_CardinalityType, RoomsAssumption DEF IInv, TypeOK, Object
  <2>2. mapped[r] = 0 => members[o] = {}
    BY <1>3, <2>1 DEF IInv, ObjectsAreMade
  <2> QED BY <2>2, FS_EmptySet, RoomsAssumption DEF HasPlace
<1>6. CASE HasPlace(o)
  <2> DEFINE told == members[o] \cup {s}
  <2>1. /\ members' = [members EXCEPT ![o] = @ \cup {s}]
        /\ room' = [room EXCEPT ![s] = r]
        /\ task' = [task EXCEPT ![s] = [at |-> "joined", told |-> members'[o]]]
    BY <1>6 DEF JoinRoom
  <2>2. members'[o] = told /\ told \in SUBSET Session
    BY <1>3, <2>1 DEF IInv, TypeOK
  <2>3. Cardinality(told) <= MaxMembers
    <3>1. IsFiniteSet(members[o]) /\ Cardinality(members[o]) \in Nat
      BY <1>3, MembersFinite DEF IInv
    <3>2. Cardinality(told) = IF s \in members[o] THEN Cardinality(members[o])
                              ELSE Cardinality(members[o]) + 1
      BY <3>1, FS_AddElement
    <3>3. Cardinality(members[o]) < MaxMembers
      BY <1>6 DEF HasPlace
    <3> QED BY <3>1, <3>2, <3>3, RoomsAssumption
  <2>4. /\ (ObjectsAreMade /\ OneNumber /\ MembersAreHere)'
        /\ \A t \in Session : room'[t] # None => /\ mapped'[room'[t]] # 0
                                                 /\ t \in members'[mapped'[room'[t]]]
    BY <1>1, <1>2, <1>3, <1>4, <2>1, JoinKeepsObjects
  <2>5. TypeOK'
    <3>1. task' \in [Session -> Task]
      BY <2>1, <2>2, TasksMade DEF IInv, TypeOK
    <3>2. objects' \in Object \cup {0} /\ mapped' \in [Room -> Object \cup {0}]
      BY <1>3, <1>4 DEF IInv, TypeOK
    <3>3. /\ members' \in [Object -> SUBSET Session]
          /\ \A x \in Object : Cardinality(members'[x]) <= MaxMembers
      BY <2>1, <2>2, <2>3 DEF IInv, TypeOK
    <3>4. room' \in [Session -> Room \cup {None}]
      BY <1>1, <2>1 DEF IInv, TypeOK
    <3> QED BY <1>4, <3>1, <3>2, <3>3, <3>4 DEF IInv, TypeOK
  <2>6. HeldIsMapped'
    <3>1. ASSUME NEW t \in Session, task'[t].at = "relay"
          PROVE  room'[t] # None /\ task'[t].obj = mapped'[room'[t]]
      <4>1. t # s
        BY <2>1, <2>2, <3>1, TasksMade DEF IInv, TypeOK
      <4>2. /\ task'[t] = task[t] /\ room'[t] = room[t] /\ room[t] # None /\ room[t] \in Room
            /\ task[t].obj = mapped[room[t]] /\ mapped[room[t]] # 0
        BY <2>1, <3>1, <4>1 DEF IInv, TypeOK, HeldIsMapped
      <4>3. mapped'[room[t]] = mapped[room[t]]
        BY <1>1, <1>4, <4>2 DEF IInv, TypeOK
      <4> QED BY <4>2, <4>3
    <3> QED BY <2>4, <3>1 DEF HeldIsMapped
  <2>7. Phases'
    <3>1. told \subseteq Entered' /\ Entered \subseteq Entered'
      BY <1>1, <1>3, <1>4, <2>1, <2>2, NoneIsNoRoom DEF IInv, TypeOK, MembersAreHere, Entered
    <3>2. /\ task'[s].at = "joined" /\ task'[s].told = told
          /\ \A t \in Session : t # s => task'[t] = task[t] /\ room'[t] = room[t]
      BY <2>1, <2>2, TasksMade DEF IInv, TypeOK
    <3> QED BY <1>1, <1>4, <3>1, <3>2 DEF IInv, Phases
  <2> QED BY <2>4, <2>5, <2>6, <2>7 DEF IInv
<1>7. CASE ~HasPlace(o)
  <2>1. /\ task' = [task EXCEPT ![s] = Idle]
        /\ members' = members /\ room' = room
    BY <1>7 DEF JoinRoom
  <2>2. mapped' = mapped /\ objects' = objects
    BY <1>1, <1>4, <1>5, <1>7 DEF IInv, TypeOK
  <2>3. /\ task'[s] = Idle
        /\ \A t \in Session : t # s => task'[t] = task[t]
    BY <2>1 DEF IInv, TypeOK
  <2>4. TypeOK'
    BY <1>4, <2>1, <2>2, TasksMade, ZenonT(40) DEF IInv, TypeOK
  <2>5. Entered' = Entered
    BY <1>4, <2>1 DEF Entered
  <2>6. (ObjectsAreMade /\ OneNumber /\ MembersAreHere)'
    BY <2>1, <2>2, <2>5 DEF IInv, ObjectsAreMade, OneNumber, MembersAreHere
  <2>7. HeldIsMapped' /\ Phases'
    BY <1>4, <2>1, <2>2, <2>3, <2>5, TasksMade DEF IInv, HeldIsMapped, Phases
  <2> QED BY <2>4, <2>6, <2>7 DEF IInv
<1> QED BY <1>6, <1>7

\* One who leaves is taken out of the object the room is mapped to; if nobody is
\* left there, nothing maps to it any more.
LEMMA LeaveRoomStep ==
    ASSUME IInv, NEW s \in Session, LeaveRoom(s)
    PROVE  IInv'
<1> DEFINE o == IF room[s] = None THEN 0 ELSE mapped[room[s]]
           left == Remaining(o, s)
<1>1. /\ mapped \in [Room -> Object \cup {0}] /\ room \in [Session -> Room \cup {None}]
      /\ members \in [Object -> SUBSET Session] /\ objects \in Object \cup {0}
      /\ task \in [Session -> Task] /\ offers \in [Session -> SUBSET Fd]
      /\ conn \in [Session -> {"new", "open", "closed", "over"}]
  BY DEF IInv, TypeOK
<1>2. /\ conn[s] = "closed" /\ task[s] = Idle /\ objects' = objects
      /\ list' = list /\ peers' = peers /\ offers' = offers /\ callers' = callers
      /\ conn' = [conn EXCEPT ![s] = "over"] /\ room' = [room EXCEPT ![s] = None]
  BY DEF LeaveRoom, browser
<1>3. 0 \notin Object /\ (o # 0 => o \in Object /\ room[s] \in Room /\ s \in members[o])
      /\ (room[s] # None => o # 0)
  BY <1>1, FS_CardinalityType, RoomsAssumption DEF IInv, HeldIsMapped, Object
<1>4. left \in SUBSET Session /\ (o # 0 => left = members[o] \ {s})
  BY <1>1, <1>3 DEF Remaining, Connections
<1>5. task' = [task EXCEPT ![s] = [at |-> "left", told |-> left]]
  BY <1>3 DEF LeaveRoom, Remaining, Connections
<1>6. o = 0 => members' = members /\ mapped' = mapped
  BY DEF LeaveRoom
<1>7. o # 0 => /\ members' = [members EXCEPT ![o] = left]
               /\ mapped' = IF left = {} THEN [mapped EXCEPT ![room[s]] = 0] ELSE mapped
  BY DEF LeaveRoom
<1>8. TypeOK'
  <2>1. task' \in [Session -> Task]
    BY <1>1, <1>4, <1>5, TasksMade
  <2>2. /\ mapped' \in [Room -> Object \cup {0}] /\ members' \in [Object -> SUBSET Session]
        /\ room' \in [Session -> Room \cup {None}]
        /\ conn' \in [Session -> {"new", "open", "closed", "over"}]
    BY <1>1, <1>2, <1>3, <1>4, <1>6, <1>7
  <2>3. ASSUME NEW x \in Object PROVE Cardinality(members'[x]) <= MaxMembers
    <3>1. Cardinality(members[x]) <= MaxMembers
      BY DEF IInv, TypeOK
    <3>2. CASE members'[x] = members[x]
      BY <3>1, <3>2
    <3>3. CASE members'[x] # members[x]
      <4>1. members'[x] = members[x] \ {s}
        BY <1>1, <1>3, <1>4, <1>6, <1>7, <3>3
      <4>2. IsFiniteSet(members[x]) /\ members'[x] \in SUBSET members[x]
        BY <4>1, MembersFinite DEF IInv
      <4>3. Cardinality(members'[x]) <= Cardinality(members[x])
            /\ Cardinality(members'[x]) \in Nat /\ Cardinality(members[x]) \in Nat
        BY <4>2, FS_Subset, FS_CardinalityType
      <4> QED BY <3>1, <4>3, RoomsAssumption
    <3> QED BY <3>2, <3>3
  <2> QED BY <1>2, <2>1, <2>2, <2>3 DEF IInv, TypeOK
<1>9. ObjectsAreMade'
  <2>1. Entered \subseteq Entered' /\ Entered' \in SUBSET Session
    BY <1>1, <1>2 DEF Entered
  <2>2. IsFiniteSet(Entered') /\ Cardinality(Entered') \in Nat
    BY <2>1, FS_Subset, FS_CardinalityType, RoomsAssumption
  <2>3. Cardinality(Entered) <= Cardinality(Entered') /\ Cardinality(Entered) \in Nat
    BY <2>1, <2>2, FS_Subset, FS_CardinalityType
  <2>4. /\ \A x \in Object : x \in Nat
        /\ objects \in Nat /\ objects <= Cardinality(Entered)
    BY <1>1, FS_CardinalityType, RoomsAssumption DEF Object, IInv, ObjectsAreMade
  <2>5. objects' <= Cardinality(Entered')
    BY <1>2, <2>2, <2>3, <2>4
  <2>6. \A r \in Room : mapped'[r] <= objects'
    <3> SUFFICES ASSUME NEW r \in Room PROVE mapped'[r] <= objects
      BY <1>2
    <3>1. mapped[r] <= objects
      BY DEF IInv, ObjectsAreMade
    <3>2. mapped'[r] = mapped[r] \/ mapped'[r] = 0
      BY <1>1, <1>6, <1>7
    <3> QED BY <2>4, <3>1, <3>2
  <2>7. \A x \in Object : x > objects' => members'[x] = {}
    <3> SUFFICES ASSUME NEW x \in Object, x > objects PROVE members'[x] = {}
      BY <1>2
    <3>1. members[x] = {}
      BY DEF IInv, ObjectsAreMade
    <3> QED BY <1>1, <1>3, <1>6, <1>7, <3>1
  <2> QED BY <2>5, <2>6, <2>7 DEF ObjectsAreMade
<1>10. OneNumber'
  BY <1>1, <1>6, <1>7 DEF IInv, OneNumber
<1>11. MembersAreHere'
  <2> SUFFICES ASSUME NEW x \in Object, NEW t \in members'[x]
               PROVE  room'[t] # None /\ mapped'[room'[t]] = x
    BY DEF MembersAreHere
  <2>1. t \in members[x] /\ t \in Session /\ (x = o => left # {} /\ t # s)
    BY <1>1, <1>3, <1>4, <1>6, <1>7
  <2>2. room[t] # None /\ mapped[room[t]] = x /\ room[t] \in Room
    BY <1>1, <2>1 DEF IInv, MembersAreHere
  <2>3. t # s
    BY <1>3, <2>1, <2>2
  <2>4. room'[t] = room[t]
    BY <1>1, <1>2, <2>1, <2>3
  <2>5. mapped'[room[t]] = x
    <3>1. CASE x = o
      BY <1>1, <1>3, <1>7, <2>1, <2>2, <3>1
    <3>2. CASE x # o
      BY <1>1, <1>3, <1>6, <1>7, <2>2, <3>2
    <3> QED BY <3>1, <3>2
  <2> QED BY <2>2, <2>4, <2>5
<1>12. ASSUME NEW t \in Session, t # s, room[t] # None
       PROVE  /\ room'[t] = room[t] /\ mapped'[room[t]] = mapped[room[t]]
              /\ mapped[room[t]] # 0 /\ t \in members'[mapped[room[t]]]
  <2>1. /\ room[t] \in Room /\ mapped[room[t]] \in Object /\ mapped[room[t]] # 0
        /\ t \in members[mapped[room[t]]] /\ room'[t] = room[t]
    BY <1>1, <1>2, <1>12 DEF IInv, HeldIsMapped
  <2>2. t \in members'[mapped[room[t]]]
    BY <1>1, <1>3, <1>4, <1>6, <1>7, <1>12, <2>1
  <2>3. CASE o # 0 /\ left = {}
    <3>1. room[t] # room[s]
      BY <1>3, <1>4, <1>12, <2>1, <2>3
    <3> QED BY <1>1, <1>7, <2>1, <2>2, <2>3, <3>1
  <2>4. CASE ~(o # 0 /\ left = {})
    BY <1>6, <1>7, <2>1, <2>2, <2>4
  <2> QED BY <2>3, <2>4
<1>13. /\ task'[s].at = "left" /\ room'[s] = None
       /\ \A t \in Session : t # s => task'[t] = task[t] /\ room'[t] = room[t] /\ conn'[t] = conn[t]
  BY <1>1, <1>2, <1>4, <1>5, TasksMade
<1>14. HeldIsMapped'
  <2> SUFFICES ASSUME NEW t \in Session
               PROVE  /\ room'[t] # None => mapped'[room'[t]] # 0
                                            /\ t \in members'[mapped'[room'[t]]]
                      /\ task'[t].at = "relay" => /\ room'[t] # None
                                                  /\ task'[t].obj = mapped'[room'[t]]
    BY DEF HeldIsMapped
  <2>1. CASE t = s
    BY <1>13, <2>1
  <2>2. CASE t # s
    BY <1>12, <1>13, <2>2 DEF IInv, HeldIsMapped
  <2> QED BY <2>1, <2>2
<1>15. Phases'
  <2>1. Entered \subseteq Entered' /\ conn'[s] = "over" /\ offers[s] = {}
    BY <1>1, <1>2 DEF Entered, IInv, Phases
  <2> QED BY <1>2, <1>13, <2>1 DEF IInv, Phases
<1> QED BY <1>8, <1>9, <1>10, <1>11, <1>14, <1>15 DEF IInv

\* The other steps leave the rooms as they are: a connection is opened or closed,
\* a worker takes an event, or frames are handed out.  What they must respect
\* is the type of what they write and the phases of the sessions.
LEMMA RoomsUntouched ==
    ASSUME IInv, TypeOK', Phases',
           UNCHANGED <<room, mapped, members, objects>>,
           \A s \in Session : conn'[s] = "over" <=> conn[s] = "over",
           \A s \in Session : task'[s].at = "relay" =>
                 room[s] # None /\ task'[s].obj = mapped[room[s]]
    PROVE  IInv'
<1>1. Entered' = Entered
  BY DEF Entered
<1>2. (ObjectsAreMade /\ OneNumber /\ MembersAreHere)'
  BY <1>1 DEF IInv, ObjectsAreMade, OneNumber, MembersAreHere
<1>3. HeldIsMapped'
  BY DEF IInv, HeldIsMapped
<1> QED BY <1>2, <1>3 DEF IInv

LEMMA ConnectionStep ==
    ASSUME IInv, NEW s \in Session, Open(s) \/ Close(s)
    PROVE  IInv'
<1>1. /\ UNCHANGED <<room, mapped, members, objects, task, list, peers, callers>>
      /\ \/ conn[s] = "new" /\ conn' = [conn EXCEPT ![s] = "open"] /\ offers' = offers
         \/ /\ conn[s] = "open" /\ conn' = [conn EXCEPT ![s] = "closed"]
            /\ offers' = [offers EXCEPT ![s] = {}]
  BY DEF Open, Close, browser
<1>2. /\ TypeOK'
      /\ \A t \in Session : conn'[t] = "over" <=> conn[t] = "over"
  BY <1>1 DEF IInv, TypeOK
<1>3. Phases'
  <2>1. Entered' = Entered
    BY <1>1, <1>2 DEF Entered
  <2>2. \A t \in Session : t # s => conn'[t] = conn[t] /\ offers'[t] = offers[t]
    BY <1>1 DEF IInv, TypeOK
  <2>3. \/ conn[s] = "new" /\ conn'[s] = "open" /\ offers'[s] = offers[s]
        \/ conn[s] = "open" /\ conn'[s] = "closed" /\ offers'[s] = {}
    BY <1>1 DEF IInv, TypeOK
  <2> QED BY <1>1, <2>1, <2>2, <2>3 DEF IInv, Phases
<1>4. \A t \in Session : task'[t].at = "relay" =>
            room[t] # None /\ task'[t].obj = mapped[room[t]]
  BY <1>1 DEF IInv, HeldIsMapped
<1> QED BY <1>1, <1>2, <1>3, <1>4, RoomsUntouched

LEMMA TakeStep ==
    ASSUME IInv, NEW s \in Session, TakeOffer(s) \/ \E r \in Room : TakeJoin(s, r)
    PROVE  IInv'
<1>1. CASE \E r \in Room : TakeJoin(s, r)
  <2> PICK r \in Room : TakeJoin(s, r)
    BY <1>1
  <2>1. /\ task' = [task EXCEPT ![s] = [at |-> "join", r |-> r]]
        /\ UNCHANGED <<conn, room, mapped, members, objects, list, peers, offers, callers>>
        /\ conn[s] = "open" /\ room[s] = None
    BY DEF TakeJoin, server, browser
  <2>2. /\ TypeOK' /\ task'[s].at = "join"
        /\ \A t \in Session : t # s => task'[t] = task[t]
    BY <2>1, TasksMade DEF IInv, TypeOK
  <2>3. Entered' = Entered
    BY <2>1 DEF Entered
  <2>4. Phases'
    BY <2>1, <2>2, <2>3 DEF IInv, Phases
  <2>5. \A t \in Session : task'[t].at = "relay" =>
              room[t] # None /\ task'[t].obj = mapped[room[t]]
    BY <2>2 DEF IInv, HeldIsMapped
  <2> QED BY <2>1, <2>2, <2>4, <2>5, RoomsUntouched
<1>2. CASE TakeOffer(s)
  <2> PICK fd \in offers[s] :
              /\ offers' = [offers EXCEPT ![s] = @ \ {fd}]
              /\ task' = [task EXCEPT ![s] =
                    [at |-> "relay", to |-> fd,
                     obj |-> IF room[s] = None THEN 0 ELSE mapped[room[s]]]]
    BY <1>2 DEF TakeOffer
  <2>1. /\ UNCHANGED <<conn, room, mapped, members, objects, list, peers, callers>>
        /\ conn[s] = "open" /\ room[s] # None
    BY <1>2 DEF TakeOffer, server, IInv, Phases
  <2>2. fd \in Fd /\ mapped[room[s]] \in Object \cup {0}
    BY <2>1 DEF IInv, TypeOK
  <2>3. task' = [task EXCEPT ![s] = [at |-> "relay", to |-> fd, obj |-> mapped[room[s]]]]
    BY <2>1
  <2>4. /\ TypeOK' /\ task'[s].at = "relay" /\ task'[s].obj = mapped[room[s]]
        /\ \A t \in Session : /\ t # s => task'[t] = task[t]
                              /\ offers'[t] \subseteq offers[t]
    BY <2>1, <2>2, <2>3, TasksMade DEF IInv, TypeOK
  <2>5. Entered' = Entered
    BY <2>1 DEF Entered
  <2>6. Phases'
    BY <2>1, <2>4, <2>5 DEF IInv, Phases
  <2>7. \A t \in Session : task'[t].at = "relay" =>
              room[t] # None /\ task'[t].obj = mapped[room[t]]
    BY <2>1, <2>4 DEF IInv, HeldIsMapped
  <2> QED BY <2>1, <2>4, <2>6, <2>7, RoomsUntouched
<1> QED BY <1>1, <1>2

LEMMA FdType == \A s \in Session : FdOf[s] \in Fd
BY DEF Fd

LEMMA PostStep ==
    ASSUME IInv, NEW s \in Session, PostJoin(s) \/ PostLeave(s) \/ Relay(s)
    PROVE  IInv'
<1>1. UNCHANGED server /\ task' = [task EXCEPT ![s] = Idle]
  BY DEF PostJoin, PostLeave, Relay
<1>2. /\ UNCHANGED <<conn, room, mapped, members, objects>>
      /\ task' \in [Session -> Task] /\ task'[s] = Idle
      /\ \A t \in Session : t # s => task'[t] = task[t]
  BY <1>1, TasksMade DEF server, IInv, TypeOK
<1>3. task[s].at \in {"joined", "left"} => task[s].told \in SUBSET Session
  BY TaskFields DEF IInv, TypeOK
<1>4. /\ list' \in [Session -> SUBSET Fd] /\ peers' \in [Session -> SUBSET Fd]
      /\ offers' \in [Session -> SUBSET Fd] /\ callers' \subseteq Session \X Session
      /\ \A t \in Session : \/ offers'[t] = offers[t]
                            \/ conn[t] = "open" /\ room[t] # None
  <2>1. CASE PostJoin(s)
    <3> DEFINE told == Reached(Snapshot(s))
               calling == {t \in told \ {s} : Calls(t, FdOf[s])}
    <3>1. /\ Snapshot(s) \in SUBSET Session /\ Snapshot(s) \subseteq Entered
          /\ \A t \in told : conn[t] = "open" /\ t \in Snapshot(s)
      BY <1>3, <2>1 DEF PostJoin, Snapshot, Reached, IInv, Phases
    <3>2. \A t \in calling : t \in Session /\ conn[t] = "open" /\ room[t] # None
      BY <3>1 DEF Entered
    <3>3. /\ list' = [t \in Session |-> IF t \in told THEN {FdOf[u] : u \in Snapshot(s)}
                                        ELSE list[t]]
          /\ peers' = [t \in Session |-> IF t \in calling THEN peers[t] \cup {FdOf[s]}
                                         ELSE peers[t]]
          /\ offers' = [t \in Session |-> IF t \in calling THEN offers[t] \cup {FdOf[s]}
                                          ELSE offers[t]]
          /\ callers' = callers \cup {<<t, s>> : t \in calling}
      BY <2>1 DEF PostJoin
    <3>4. list' \in [Session -> SUBSET Fd]
      BY <3>1, <3>3, FdType DEF IInv, TypeOK
    <3>5. peers' \in [Session -> SUBSET Fd] /\ offers' \in [Session -> SUBSET Fd]
      BY <3>3, FdType DEF IInv, TypeOK
    <3>6. callers' \subseteq Session \X Session
      BY <3>2, <3>3 DEF IInv, TypeOK
    <3>7. \A t \in Session : offers'[t] = offers[t] \/ t \in calling
      BY <3>3
    <3> QED BY <3>2, <3>4, <3>5, <3>6, <3>7
  <2>2. CASE PostLeave(s)
    <3>1. task[s].told \in SUBSET Session
      BY <1>3, <2>2 DEF PostLeave
    <3> QED BY <2>2, <3>1, FdType DEF PostLeave, IInv, TypeOK
  <2>3. CASE Relay(s)
    BY <2>3, FdType DEF Relay, IInv, TypeOK
  <2> QED BY <2>1, <2>2, <2>3
<1>5. TypeOK'
  BY <1>2, <1>4 DEF IInv, TypeOK
<1>6. Entered' = Entered
  BY <1>2 DEF Entered
<1>7. Phases'
  BY <1>2, <1>4, <1>6, TasksMade DEF IInv, Phases
<1>8. \A t \in Session : task'[t].at = "relay" =>
            room[t] # None /\ task'[t].obj = mapped[room[t]]
  BY <1>2, TasksMade DEF IInv, HeldIsMapped
<1> QED BY <1>2, <1>5, <1>7, <1>8, RoomsUntouched

LEMMA NextIInv == IInv /\ [Next]_vars => IInv'
<1> SUFFICES ASSUME IInv, [Next]_vars PROVE IInv'
  OBVIOUS
<1>1. CASE UNCHANGED vars
  <2>1. TypeOK' /\ Entered' = Entered
    BY <1>1 DEF vars, server, browser, IInv, TypeOK, Entered
  <2>2. Phases' /\ UNCHANGED <<conn, room, mapped, members, objects, task>>
    BY <1>1, <2>1 DEF vars, server, browser, IInv, Phases
  <2> QED BY <2>1, <2>2, RoomsUntouched DEF IInv, HeldIsMapped
<1>2. ASSUME NEW s \in Session, Open(s) \/ Close(s)
      PROVE  IInv'
  BY <1>2, ConnectionStep
<1>3. ASSUME NEW s \in Session, NEW r \in Room, TakeJoin(s, r)
      PROVE  IInv'
  BY <1>3, TakeStep
<1>4. ASSUME NEW s \in Session, Work(s)
      PROVE  IInv'
  BY <1>4, JoinRoomStep, LeaveRoomStep, TakeStep, PostStep DEF Work
<1> QED BY <1>1, <1>2, <1>3, <1>4 DEF Next

THEOREM Inductive == Spec => []IInv
BY InitIInv, NextIInv, PTL DEF Spec

\* The rooms, the tasks and the browsers keep their types; no room object is
\* made beyond the number of sessions, and no room has more than kMaxMembers.
THEOREM TypeCorrect == Spec => []TypeOK
<1>1. IInv => TypeOK
  BY DEF IInv
<1> QED BY <1>1, Inductive, PTL

\* A number is mapped to the object its members are in, and what a handler holds
\* is that object, whoever comes and goes meanwhile (Room.h:72, Room.cpp:82).
THEOREM HeldRoomIsMapped == Spec => []HeldIsMapped
<1>1. IInv => HeldIsMapped
  BY DEF IInv
<1> QED BY <1>1, Inductive, PTL

-------------------------------------------------------------------------------
(* The rooms are a membership relation *)

\* Where a session is, told from its own state.
Whereabouts(s) == IF conn[s] = "over" THEN "gone"
                  ELSE IF room[s] = None THEN "outside" ELSE room[s]

PlaceIsWhereabouts == \A s \in Session : Place(s) = Whereabouts(s)

LEMMA PlaceKnown == IInv => PlaceIsWhereabouts
<1> SUFFICES ASSUME IInv, NEW s \in Session PROVE Place(s) = Whereabouts(s)
  BY DEF PlaceIsWhereabouts
<1>1. \A r \in Room : s \in Connections(mapped[r]) <=> room[s] = r
  BY WhoIsIn
<1>2. room[s] \in Room \cup {None}
  BY DEF IInv, TypeOK
<1> QED BY <1>1, <1>2, NoneIsNoRoom DEF Place, Whereabouts

\* The abstract members of a room are the members of its object.
LEMMA InRoomIsMembers ==
    ASSUME IInv, PlaceIsWhereabouts, NEW r \in Room
    PROVE  Abstract!InRoom(r) = Connections(mapped[r])
<1>1. \A s \in Session : Place(s) = r <=> room[s] = r
  BY RoomsAssumption DEF IInv, Phases, PlaceIsWhereabouts, Whereabouts, None
<1>2. Connections(mapped[r]) \subseteq Session
  BY DEF IInv, TypeOK, Connections
<1> QED BY <1>1, <1>2, WhoIsIn DEF Abstract!InRoom

\* Both modules count in the same way.
LEMMA SameCardinality == \A S : Abstract!Cardinality(S) = Cardinality(S)
BY DEF Abstract!Cardinality, Cardinality

\* A join that succeeds enters a room with a place left.
LEMMA JoinEnters ==
    ASSUME IInv, PlaceIsWhereabouts, PlaceIsWhereabouts', NEW s \in Session, JoinRoom(s)
    PROVE  \/ \E r \in Room : Abstract!Enter(s, r)
           \/ \A t \in Session : Place(t)' = Place(t)
<1> DEFINE r == task[s].r
           o == IF mapped[r] = 0 THEN objects + 1 ELSE mapped[r]
<1>1. /\ r \in Room /\ task[s].at = "join" /\ room[s] = None
      /\ conn[s] \in {"open", "closed"} /\ conn' = conn
  BY TaskFields DEF JoinRoom, IInv, TypeOK, Phases, browser
<1>2. CASE HasPlace(o)
  <2>1. room' = [room EXCEPT ![s] = r]
    BY <1>2 DEF JoinRoom
  <2>2. Place(s) = "outside" /\ Place(s)' = r
    BY <1>1, <2>1, NoneIsNoRoom DEF PlaceIsWhereabouts, Whereabouts, IInv, TypeOK
  <2>3. \A t \in Session : t # s => Place(t)' = Place(t)
    BY <1>1, <2>1 DEF PlaceIsWhereabouts, Whereabouts, IInv, TypeOK
  <2>4. Cardinality(Abstract!InRoom(r)) < MaxMembers
    <3>1. Abstract!InRoom(r) = Connections(mapped[r])
      BY <1>1, InRoomIsMembers
    <3>2. CASE mapped[r] = 0
      BY <3>1, <3>2, FS_EmptySet, RoomsAssumption DEF Connections
    <3>3. CASE mapped[r] # 0
      BY <1>2, <3>1, <3>3 DEF Connections, HasPlace
    <3> QED BY <3>2, <3>3
  <2> QED BY <1>1, <2>2, <2>3, <2>4, SameCardinality DEF Abstract!Enter, Abstract!Outside
<1>3. CASE ~HasPlace(o)
  <2>1. room' = room
    BY <1>3 DEF JoinRoom
  <2> QED BY <1>1, <2>1 DEF PlaceIsWhereabouts, Whereabouts
<1> QED BY <1>2, <1>3

\* The cleanup of a connection takes it out for good.
LEMMA LeaveExits ==
    ASSUME IInv, PlaceIsWhereabouts, PlaceIsWhereabouts', NEW s \in Session, LeaveRoom(s)
    PROVE  Abstract!Exit(s)
<1>1. /\ conn[s] = "closed"
      /\ conn' = [conn EXCEPT ![s] = "over"] /\ room' = [room EXCEPT ![s] = None]
  BY DEF LeaveRoom
<1>2. Place(s) # "gone"
  BY <1>1, RoomsAssumption DEF PlaceIsWhereabouts, Whereabouts, IInv, TypeOK
<1>3. Place(s)' = "gone" /\ \A t \in Session : t # s => Place(t)' = Place(t)
  BY <1>1 DEF PlaceIsWhereabouts, Whereabouts, IInv, TypeOK
<1> QED BY <1>2, <1>3 DEF Abstract!Exit, Abstract!Gone

\* Everything else stays where it is.
LEMMA OthersStay ==
    ASSUME IInv, PlaceIsWhereabouts, PlaceIsWhereabouts', room' = room,
           \A s \in Session : conn'[s] = "over" <=> conn[s] = "over"
    PROVE  \A s \in Session : Place(s)' = Place(s)
BY DEF PlaceIsWhereabouts, Whereabouts

\* Objects are made, shared, emptied and recycled under the numbers of the rooms,
\* and connections come and go, yet what all this amounts to is that a session is in
\* one room at most, no room has more than kMaxMembers, and who has gone
\* does not come back.
THEOREM RoomsImplementMembership == Spec => ImplementsMembership
<1>1. Init => Abstract!Init
  <2> SUFFICES ASSUME Init PROVE \A s \in Session : Place(s) = "outside"
    BY DEF Abstract!Init, Abstract!Outside
  <2> QED BY InitIInv, PlaceKnown DEF PlaceIsWhereabouts, Whereabouts, Init
<1>2. IInv /\ PlaceIsWhereabouts /\ PlaceIsWhereabouts' /\ [Next]_vars
      => [Abstract!Next]_[s \in Session |-> Place(s)]
  <2> SUFFICES ASSUME IInv, PlaceIsWhereabouts, PlaceIsWhereabouts', [Next]_vars
               PROVE  \/ Abstract!Next
                      \/ [s \in Session |-> Place(s)]' = [s \in Session |-> Place(s)]
    OBVIOUS
  <2>1. ASSUME NEW s \in Session, JoinRoom(s)
        PROVE  Abstract!Next \/ [t \in Session |-> Place(t)]' = [t \in Session |-> Place(t)]
    BY <2>1, JoinEnters DEF Abstract!Next
  <2>2. ASSUME NEW s \in Session, LeaveRoom(s)
        PROVE  Abstract!Next
    BY <2>2, LeaveExits DEF Abstract!Next
  <2>3. ASSUME room' = room, \A s \in Session : conn'[s] = "over" <=> conn[s] = "over"
        PROVE  [t \in Session |-> Place(t)]' = [t \in Session |-> Place(t)]
    BY <2>3, OthersStay
  <2>4. ASSUME NEW s \in Session,
               \/ Open(s) \/ Close(s) \/ \E r \in Room : TakeJoin(s, r)
               \/ TakeOffer(s) \/ PostJoin(s) \/ PostLeave(s) \/ Relay(s)
        PROVE  room' = room /\ \A t \in Session : conn'[t] = "over" <=> conn[t] = "over"
    BY <2>4 DEF Open, Close, TakeJoin, TakeOffer, PostJoin, PostLeave, Relay,
                      server, browser, IInv, TypeOK
  <2>5. CASE UNCHANGED vars
    BY <2>3, <2>5 DEF vars, server
  <2> QED BY <2>1, <2>2, <2>3, <2>4, <2>5 DEF Next, Work
<1> QED BY <1>1, <1>2, Inductive, PlaceKnown, PTL DEF Spec, ImplementsMembership, Abstract!Spec

-------------------------------------------------------------------------------
(* Who calls whom *)

\* No two connections have one number.  (The kernel does give numbers out again; a
\* browser that has still to hear that the old holder has left then hangs up on
\* the new one.)
NumbersAreOwn == \A s, t \in Session : FdOf[s] = FdOf[t] => s = t

\* s has called t, or will when the frames of t's joining are handed out.
HearsOf(s, t) == \/ <<s, t>> \in callers
                 \/ task[t].at = "joined" /\ s \in task[t].told

\* The OFFER of s to t is on its way, or has arrived.
Ringing(s, t) == \/ FdOf[t] \in offers[s]
                 \/ task[s].at = "relay" /\ task[s].to = FdOf[t]
                 \/ FdOf[s] \in peers[t]

\* What holds between two sessions.  Of two members the one that was there first hears
\* of the other; nobody has a number of one whose joining is still to be told,
\* which is why it is called; and a call is under way until it has arrived.
OneHearsOther(s, t) == HearsOf(s, t) => s \in Entered /\ t \in Entered /\ ~HearsOf(t, s)
InOneRoom(s, t) == HearsOf(s, t) /\ conn[s] # "over" /\ conn[t] # "over" => room[s] = room[t]
SomeoneHears(s, t) == Together(s, t) => HearsOf(s, t) \/ HearsOf(t, s)
KnownHasJoined(s, t) == FdOf[t] \in peers[s] => t \in Entered /\ task[t].at # "joined"
CallIsUnderWay(s, t) == <<s, t>> \in callers /\ conn[s] = "open" /\ conn[t] = "open"
                           => FdOf[t] \in peers[s] /\ Ringing(s, t)

PairOk(s, t) == /\ OneHearsOther(s, t)
                /\ InOneRoom(s, t)
                /\ SomeoneHears(s, t)
                /\ KnownHasJoined(s, t)
                /\ CallIsUnderWay(s, t)

PairsOk == /\ \A s, t \in Session : s # t => PairOk(s, t)
           /\ \A s \in Session : <<s, s>> \notin callers
           /\ \A s \in Session : task[s].at = "left" => conn[s] = "over"

LEMMA InitPairs == Init => PairsOk
<1> SUFFICES ASSUME Init PROVE PairsOk
  OBVIOUS
<1>1. \A s, t \in Session : ~HearsOf(s, t) /\ ~Together(s, t) /\ FdOf[t] \notin peers[s]
  BY TasksMade DEF Init, HearsOf, Together
<1> QED BY <1>1, TasksMade DEF Init, PairsOk, PairOk, OneHearsOther, InOneRoom, SomeoneHears,
           KnownHasJoined, CallIsUnderWay

\* A session that has not entered is heard of by nobody and has no number anywhere.
LEMMA NotYetHeardOf ==
    ASSUME PairsOk, NEW x \in Session, x \notin Entered, NEW s \in Session, s # x
    PROVE  /\ ~HearsOf(s, x) /\ ~HearsOf(x, s) /\ FdOf[x] \notin peers[s]
           /\ <<s, x>> \notin callers /\ <<x, s>> \notin callers
BY DEF PairsOk, PairOk, OneHearsOther, KnownHasJoined, HearsOf

\* A connection is opened, closed or cleaned up, or a worker takes an event.  None
\* of these changes who hears of whom.
LEMMA QuietStepPairs ==
    ASSUME IInv, IInv', PairsOk, NEW x \in Session,
           \/ Open(x) \/ Close(x) \/ TakeOffer(x) \/ LeaveRoom(x)
           \/ \E r \in Room : TakeJoin(x, r)
    PROVE  PairsOk'
<1>1. /\ task \in [Session -> Task] /\ room \in [Session -> Room \cup {None}]
      /\ conn \in [Session -> {"new", "open", "closed", "over"}]
      /\ offers \in [Session -> SUBSET Fd] /\ peers \in [Session -> SUBSET Fd]
  BY DEF IInv, TypeOK
<1>2. peers' = peers /\ callers' = callers
  BY DEF Open, Close, TakeOffer, LeaveRoom, TakeJoin, server, browser
<1>3. \A s \in Session : s # x => /\ task'[s] = task[s] /\ room'[s] = room[s]
                                  /\ conn'[s] = conn[s] /\ offers'[s] = offers[s]
  BY <1>1 DEF Open, Close, TakeOffer, LeaveRoom, TakeJoin, server, browser
<1>4. \/ task'[x] = task[x]
      \/ task[x] = Idle /\ task'[x].at \in {"join", "relay", "left"}
  <2>1. CASE Open(x) \/ Close(x)
    BY <2>1 DEF Open, Close
  <2>2. CASE \E r \in Room : TakeJoin(x, r)
    BY <1>1, <2>2, TasksMade DEF TakeJoin
  <2>3. CASE TakeOffer(x)
    BY <1>1, <2>3 DEF TakeOffer
  <2>4. CASE LeaveRoom(x)
    BY <1>1, <2>4 DEF LeaveRoom
  <2> QED BY <2>1, <2>2, <2>3, <2>4
<1>5. \A s, t \in Session : HearsOf(s, t)' <=> HearsOf(s, t)
  <2> SUFFICES ASSUME NEW s \in Session, NEW t \in Session
               PROVE  HearsOf(s, t)' <=> HearsOf(s, t)
    OBVIOUS
  <2>1. CASE task'[t] = task[t]
    BY <1>2, <2>1 DEF HearsOf
  <2>2. CASE t = x /\ task[x] = Idle /\ task'[x].at \in {"join", "relay", "left"}
    BY <1>2, <2>2, TasksMade DEF HearsOf
  <2> QED BY <1>3, <1>4, <2>1, <2>2
<1>6. /\ Entered \subseteq Entered'
      /\ conn[x] = "over" => conn'[x] = "over"
      /\ \A s \in Session : task'[s].at = "joined" => task[s].at = "joined"
  <2>1. conn[x] = "over" => conn'[x] = "over"
    BY <1>1 DEF Open, Close, TakeOffer, LeaveRoom, TakeJoin, server
  <2>2. room'[x] = room[x] \/ conn'[x] = "over"
    BY <1>1 DEF Open, Close, TakeOffer, LeaveRoom, TakeJoin, server
  <2> QED BY <1>3, <1>4, <2>1, <2>2 DEF Entered
<1>7. \/ conn'[x] = "over"
      \/ room'[x] = room[x] /\ conn[x] # "over"
      \/ room'[x] = room[x] /\ conn'[x] = conn[x]
  BY <1>1 DEF Open, Close, TakeOffer, LeaveRoom, TakeJoin, server
<1>8. conn'[x] = "open" => conn[x] \in {"new", "open"} /\ room'[x] = room[x]
  BY <1>1 DEF Open, Close, TakeOffer, LeaveRoom, TakeJoin, server
<1>9. conn[x] = "new" => x \notin Entered /\ room[x] = None
  BY DEF IInv, Phases, Entered
<1>10. ASSUME NEW s \in Session, NEW t \in Session, s # t
       PROVE  PairOk(s, t)'
  <2> USE DEF PairsOk
  <2>1. PairOk(s, t)
    BY <1>10
  <2>2. OneHearsOther(s, t)'
    BY <1>5, <1>6, <2>1 DEF PairOk, OneHearsOther
  <2>3. InOneRoom(s, t)'
    BY <1>3, <1>5, <1>6, <1>7, <2>1, <1>10 DEF PairOk, InOneRoom
  <2>4. SomeoneHears(s, t)'
    BY <1>3, <1>5, <1>8, <1>9, <2>1, <1>10 DEF PairOk, SomeoneHears, Together
  <2>5. KnownHasJoined(s, t)'
    BY <1>2, <1>6, <2>1 DEF PairOk, KnownHasJoined
  <2>6. CallIsUnderWay(s, t)'
    <3> SUFFICES ASSUME <<s, t>> \in callers, conn'[s] = "open", conn'[t] = "open"
                 PROVE  FdOf[t] \in peers[s] /\ Ringing(s, t)'
      BY <1>2 DEF CallIsUnderWay
    <3>1. s \in Entered /\ t \in Entered
      BY <2>1 DEF PairOk, OneHearsOther, HearsOf
    <3>2. conn[s] = "open" /\ conn[t] = "open"
      BY <1>3, <1>8, <1>9, <3>1
    <3>3. FdOf[t] \in peers[s] /\ Ringing(s, t)
      BY <2>1, <3>2 DEF PairOk, CallIsUnderWay
    <3>4. CASE FdOf[s] \in peers[t]
      BY <1>2, <3>3, <3>4 DEF Ringing
    <3>5. CASE task[s].at = "relay" /\ task[s].to = FdOf[t]
      BY <1>3, <1>4, <3>3, <3>5, TasksMade DEF Ringing
    <3>6. CASE FdOf[t] \in offers[s]
      <4>1. CASE TakeOffer(x) /\ s = x
        <5> PICK fd \in offers[s] :
                    /\ offers' = [offers EXCEPT ![s] = @ \ {fd}]
                    /\ task' = [task EXCEPT ![s] =
                          [at |-> "relay", to |-> fd,
                           obj |-> IF room[s] = None THEN 0 ELSE mapped[room[s]]]]
          BY <4>1 DEF TakeOffer
        <5>1. task'[s].at = "relay" /\ task'[s].to = fd /\ offers'[s] = offers[s] \ {fd}
          BY <1>1
        <5> QED BY <3>3, <3>6, <5>1 DEF Ringing
      <4>2. CASE s # x
        BY <1>3, <3>3, <3>6, <4>2 DEF Ringing
      <4>3. CASE s = x /\ ~TakeOffer(x)
        <5>1. offers'[s] = offers[s]
          BY <1>1, <3>2, <4>3 DEF Open, Close, LeaveRoom, TakeJoin, browser
        <5> QED BY <3>3, <3>6, <5>1 DEF Ringing
      <4> QED BY <4>1, <4>2, <4>3
    <3> QED BY <3>3, <3>4, <3>5, <3>6 DEF Ringing
  <2> QED BY <2>2, <2>3, <2>4, <2>5, <2>6 DEF PairOk
<1>11. ASSUME NEW s \in Session, task'[s].at = "left"
       PROVE  conn'[s] = "over"
  <2>1. CASE task'[s] = task[s]
    BY <1>3, <1>6, <1>11, <2>1 DEF PairsOk
  <2>2. CASE s = x /\ ~LeaveRoom(x) /\ task'[s] # task[s]
    BY <1>1, <1>11, <2>2, TasksMade DEF Open, Close, TakeOffer, TakeJoin
  <2>3. CASE s = x /\ LeaveRoom(x)
    BY <1>1, <2>3 DEF LeaveRoom
  <2> QED BY <1>3, <2>1, <2>2, <2>3
<1> QED BY <1>2, <1>10, <1>11 DEF PairsOk

\* One who joins is heard of by all who are in the room, and by nobody else.
LEMMA JoinPairs ==
    ASSUME IInv, IInv', PairsOk, NEW x \in Session, JoinRoom(x)
    PROVE  PairsOk'
<1> DEFINE r == task[x].r
           o == IF mapped[r] = 0 THEN objects + 1 ELSE mapped[r]
<1>1. /\ task \in [Session -> Task] /\ room \in [Session -> Room \cup {None}]
      /\ members \in [Object -> SUBSET Session]
  BY DEF IInv, TypeOK
<1>2. /\ r \in Room /\ task[x].at = "join" /\ room[x] = None /\ x \notin Entered
  BY TaskFields DEF JoinRoom, IInv, TypeOK, Phases, Entered
<1>3. o \in Object
  BY <1>2, ObjectsSuffice DEF IInv, TypeOK
<1>4. UNCHANGED <<conn, list, peers, offers, callers>>
  BY DEF JoinRoom, browser
<1>5. \/ room' = room /\ task' = [task EXCEPT ![x] = Idle]
      \/ /\ room' = [room EXCEPT ![x] = r]
         /\ members' = [members EXCEPT ![o] = @ \cup {x}]
         /\ task' = [task EXCEPT ![x] = [at |-> "joined", told |-> members'[o]]]
  BY DEF JoinRoom
<1>6. \A s \in Session : s # x => task'[s] = task[s] /\ room'[s] = room[s]
  BY <1>1, <1>5
<1>7. \A s, t \in Session : s # t /\ t # x => (HearsOf(s, t)' <=> HearsOf(s, t))
  BY <1>4, <1>6 DEF HearsOf
<1>8. /\ task'[x].at \in {"idle", "joined"}
      /\ \A s \in Session : s # x => ~HearsOf(s, x) /\ ~HearsOf(x, s)
      /\ \A s \in Session : s # x => (HearsOf(s, x)' <=> room'[x] = r /\ room[s] = r)
  <2>1. ASSUME NEW s \in Session, s # x
        PROVE  ~HearsOf(s, x) /\ ~HearsOf(x, s) /\ <<s, x>> \notin callers
    BY <1>2, <2>1, NotYetHeardOf
  <2>2. CASE room' = room /\ task' = [task EXCEPT ![x] = Idle]
    <3>1. task'[x].at = "idle" /\ room'[x] # r
      BY <1>1, <1>2, <2>2, TasksMade, NoneIsNoRoom
    <3> QED BY <1>4, <2>1, <3>1 DEF HearsOf
  <2>3. CASE /\ room' = [room EXCEPT ![x] = r]
             /\ members' = [members EXCEPT ![o] = @ \cup {x}]
             /\ task' = [task EXCEPT ![x] = [at |-> "joined", told |-> members'[o]]]
    <3>1. /\ task'[x] = [at |-> "joined", told |-> members[o] \cup {x}]
          /\ room'[x] = r
      BY <1>1, <1>3, <2>3
    <3>2. task'[x].at = "joined" /\ task'[x].told = members[o] \cup {x}
      BY <3>1
    <3>3. \A s \in Session : s \in members[o] <=> room[s] = r
      <4>1. CASE mapped[r] = 0
        <5>1. objects \in Nat
          BY FS_CardinalityType, RoomsAssumption DEF IInv, TypeOK, Object
        <5>2. members[o] = {}
          BY <1>3, <4>1, <5>1 DEF IInv, ObjectsAreMade
        <5>3. \A s \in Session : s \in Connections(mapped[r]) <=> room[s] = r
          BY <1>2, WhoIsIn
        <5> QED BY <4>1, <5>2, <5>3 DEF Connections
      <4>2. CASE mapped[r] # 0
        BY <1>2, <4>2, WhoIsIn DEF Connections
      <4> QED BY <4>1, <4>2
    <3> QED BY <1>4, <2>1, <3>1, <3>2, <3>3 DEF HearsOf
  <2> QED BY <1>5, <2>1, <2>2, <2>3
<1>9. Entered \subseteq Entered' /\ (room'[x] = r => x \in Entered')
  BY <1>2, <1>4, <1>6, NoneIsNoRoom DEF Entered
<1>10. room'[x] = r \/ room'[x] = None
  BY <1>1, <1>2, <1>5
<1>11. ASSUME NEW s \in Session, NEW t \in Session, s # t
       PROVE  PairOk(s, t)'
  <2>1. PairOk(s, t) /\ PairOk(t, s)
    BY <1>11 DEF PairsOk
  <2>2. OneHearsOther(s, t)'
    <3>1. CASE t = x
      BY <1>2, <1>7, <1>8, <1>9, <1>11, <3>1, NoneIsNoRoom DEF OneHearsOther, Entered
    <3>2. CASE t # x /\ s # x
      BY <1>7, <1>9, <1>11, <2>1, <3>2 DEF PairOk, OneHearsOther
    <3>3. CASE t # x /\ s = x
      BY <1>7, <1>8, <1>11, <3>3 DEF OneHearsOther
    <3> QED BY <3>1, <3>2, <3>3
  <2>3. InOneRoom(s, t)'
    <3>1. CASE t = x
      BY <1>6, <1>8, <1>11, <3>1 DEF InOneRoom
    <3>2. CASE t # x /\ s # x
      BY <1>4, <1>6, <1>7, <1>11, <2>1, <3>2 DEF PairOk, InOneRoom
    <3>3. CASE t # x /\ s = x
      BY <1>7, <1>8, <1>11, <3>3 DEF InOneRoom
    <3> QED BY <3>1, <3>2, <3>3
  <2>4. SomeoneHears(s, t)'
    <3>1. CASE t = x
      BY <1>6, <1>8, <1>10, <1>11, <3>1 DEF SomeoneHears, Together
    <3>2. CASE t # x /\ s # x
      BY <1>4, <1>6, <1>7, <1>11, <2>1, <3>2 DEF PairOk, SomeoneHears, Together
    <3>3. CASE t # x /\ s = x
      BY <1>6, <1>8, <1>10, <1>11, <3>3 DEF SomeoneHears, Together
    <3> QED BY <3>1, <3>2, <3>3
  <2>5. KnownHasJoined(s, t)'
    <3>1. CASE t = x
      BY <1>2, <1>4, <1>11, <3>1, NotYetHeardOf DEF KnownHasJoined
    <3>2. CASE t # x
      BY <1>4, <1>6, <1>9, <2>1, <3>2 DEF PairOk, KnownHasJoined
    <3> QED BY <3>1, <3>2
  <2>6. CallIsUnderWay(s, t)'
    <3>1. CASE s = x \/ t = x
      BY <1>2, <1>4, <1>11, <3>1, NotYetHeardOf DEF CallIsUnderWay
    <3>2. CASE s # x /\ t # x
      BY <1>4, <1>6, <2>1, <3>2 DEF PairOk, CallIsUnderWay, Ringing
    <3> QED BY <3>1, <3>2
  <2> QED BY <2>2, <2>3, <2>4, <2>5, <2>6 DEF PairOk
<1>12. \A s \in Session : task'[s].at = "left" => conn'[s] = "over"
  BY <1>4, <1>6, <1>8 DEF PairsOk
<1> QED BY <1>4, <1>11, <1>12 DEF PairsOk

\* Frames are handed out: whoever hears of x calls it, as nobody has its number yet.
LEMMA PostJoinPairs ==
    ASSUME NumbersAreOwn, IInv, IInv', PairsOk, NEW x \in Session, PostJoin(x)
    PROVE  PairsOk'
<1> DEFINE told == Reached(Snapshot(x))
           calling == {t \in told \ {x} : Calls(t, FdOf[x])}
<1>1. /\ task \in [Session -> Task] /\ task[x].at = "joined"
      /\ task[x].told \in SUBSET Session
  BY TaskFields DEF PostJoin, IInv, TypeOK
<1>2. UNCHANGED <<conn, room, mapped, members, objects>> /\ Entered' = Entered
  BY DEF PostJoin, server, Entered
<1>3. /\ task'[x] = Idle /\ task'[x].at = "idle"
      /\ \A s \in Session : s # x => task'[s] = task[s]
  BY <1>1, TasksMade DEF PostJoin
<1>4. \A s \in Session : s \in calling <=> s # x /\ s \in task[x].told /\ conn[s] = "open"
  <2>1. ASSUME NEW s \in Session, s # x, s \in task[x].told
        PROVE  Calls(s, FdOf[x])
    BY <1>1, <2>1 DEF Calls, NumbersAreOwn, PairsOk, PairOk, KnownHasJoined
  <2> QED BY <2>1 DEF Reached, Snapshot
<1>5. calling \subseteq Session
  BY <1>1 DEF Reached, Snapshot
<1>6. /\ \A s \in Session :
            /\ peers'[s] = IF s \in calling THEN peers[s] \cup {FdOf[x]} ELSE peers[s]
            /\ offers'[s] = IF s \in calling THEN offers[s] \cup {FdOf[x]} ELSE offers[s]
      /\ callers' = callers \cup {<<t, x>> : t \in calling}
  BY DEF PostJoin
<1> HIDE DEF told, calling
<1>7. \A s, t \in Session :
            <<s, t>> \in callers' <=> <<s, t>> \in callers \/ (t = x /\ s \in calling)
  BY <1>6
<1>8. \A s, t \in Session : s # t /\ HearsOf(s, t)' => HearsOf(s, t)
  BY <1>1, <1>3, <1>4, <1>7 DEF HearsOf
<1>9. \A s, t \in Session : s # t /\ HearsOf(s, t) /\ (conn[s] = "open" \/ t # x) => HearsOf(s, t)'
  BY <1>1, <1>3, <1>4, <1>7 DEF HearsOf
<1>10. \A s \in calling : s # x /\ HearsOf(s, x)
  BY <1>1, <1>4, <1>5 DEF HearsOf
<1>11. ASSUME NEW s \in Session, NEW t \in Session, s # t
       PROVE  PairOk(s, t)'
  <2>1. PairOk(s, t) /\ PairOk(t, s)
    BY <1>11 DEF PairsOk
  <2>2. OneHearsOther(s, t)'
    BY <1>2, <1>8, <1>11, <2>1 DEF PairOk, OneHearsOther
  <2>3. InOneRoom(s, t)'
    BY <1>2, <1>8, <1>11, <2>1 DEF PairOk, InOneRoom
  <2>4. SomeoneHears(s, t)'
    <3> SUFFICES ASSUME Together(s, t)' PROVE HearsOf(s, t)' \/ HearsOf(t, s)'
      BY DEF SomeoneHears
    <3>1. Together(s, t) /\ conn[s] = "open" /\ conn[t] = "open"
      BY <1>2 DEF Together
    <3>2. HearsOf(s, t) \/ HearsOf(t, s)
      BY <2>1, <3>1 DEF PairOk, SomeoneHears
    <3> QED BY <1>9, <1>11, <3>1, <3>2
  <2>5. KnownHasJoined(s, t)'
    <3> SUFFICES ASSUME FdOf[t] \in peers'[s] PROVE t \in Entered /\ task'[t].at # "joined"
      BY <1>2 DEF KnownHasJoined
    <3>1. CASE FdOf[t] \in peers[s]
      BY <1>3, <2>1, <3>1 DEF PairOk, KnownHasJoined
    <3>2. CASE t = x /\ s \in calling
      <4>1. OneHearsOther(s, x) /\ HearsOf(s, x)
        BY <1>10, <2>1, <3>2 DEF PairOk
      <4> QED BY <1>3, <3>2, <4>1 DEF OneHearsOther
    <3> QED BY <1>6, <3>1, <3>2 DEF NumbersAreOwn
  <2>6. CallIsUnderWay(s, t)'
    <3> SUFFICES ASSUME <<s, t>> \in callers', conn[s] = "open", conn[t] = "open"
                 PROVE  FdOf[t] \in peers'[s] /\ Ringing(s, t)'
      BY <1>2 DEF CallIsUnderWay
    <3>1. CASE t = x /\ s \in calling
      BY <1>6, <3>1 DEF Ringing
    <3>2. CASE <<s, t>> \in callers
      <4>1. FdOf[t] \in peers[s] /\ Ringing(s, t)
        BY <2>1, <3>2 DEF PairOk, CallIsUnderWay
      <4>2. /\ peers[s] \subseteq peers'[s] /\ peers[t] \subseteq peers'[t]
            /\ offers[s] \subseteq offers'[s]
        BY <1>6
      <4> QED BY <1>1, <1>3, <4>1, <4>2 DEF Ringing
    <3> QED BY <1>7, <3>1, <3>2
  <2> QED BY <2>2, <2>3, <2>4, <2>5, <2>6 DEF PairOk
<1>12. \A s \in Session : <<s, s>> \notin callers'
  BY <1>7, <1>10 DEF PairsOk
<1>13. \A s \in Session : task'[s].at = "left" => conn'[s] = "over"
  BY <1>2, <1>3 DEF PairsOk
<1> QED BY <1>11, <1>12, <1>13 DEF PairsOk

\* LEAVE takes off a number whose holder is over, and the second half of a relay finds
\* the one who is called, if both still live: the two are in one room.
LEMMA DeliveryPairs ==
    ASSUME NumbersAreOwn, IInv, IInv', PairsOk, NEW x \in Session, PostLeave(x) \/ Relay(x)
    PROVE  PairsOk'
<1>1. /\ task \in [Session -> Task] /\ task[x].at \in {"left", "relay"}
      /\ peers \in [Session -> SUBSET Fd]
  BY DEF PostLeave, Relay, IInv, TypeOK
<1>2. /\ UNCHANGED <<conn, room, mapped, members, objects, offers, callers>> /\ Entered' = Entered
  BY DEF PostLeave, Relay, server, Entered
<1>3. /\ task'[x] = Idle /\ task'[x].at = "idle"
      /\ \A s \in Session : s # x => task'[s] = task[s]
  BY <1>1, TasksMade DEF PostLeave, Relay
<1>4. \A s, t \in Session : HearsOf(s, t)' <=> HearsOf(s, t)
  BY <1>1, <1>2, <1>3 DEF HearsOf
<1>5. ASSUME NEW t \in Session
      PROVE  /\ \A fd \in peers[t] : fd # FdOf[x] => fd \in peers'[t]
             /\ \A fd \in peers'[t] : fd # FdOf[x] => fd \in peers[t]
             /\ FdOf[x] \in peers'[t] => x \in Entered
  <2>1. CASE PostLeave(x)
    <3>1. x \in Entered
      BY <2>1 DEF PostLeave, PairsOk, Entered
    <3>2. peers'[t] = peers[t] \ {FdOf[x]} \/ peers'[t] = peers[t]
      BY <2>1 DEF PostLeave
    <3> QED BY <3>1, <3>2
  <2>2. CASE Relay(x)
    <3>1. x \in Entered
      BY <2>2 DEF Relay, IInv, HeldIsMapped, Entered
    <3>2. peers'[t] = peers[t] \cup {FdOf[x]} \/ peers'[t] = peers[t]
      BY <2>2 DEF Relay
    <3> QED BY <3>1, <3>2
  <2> QED BY <2>1, <2>2
<1>6. ASSUME Relay(x), NEW t \in Session
      PROVE  /\ peers[t] \subseteq peers'[t]
             /\ t \in Connections(task[x].obj) /\ conn[t] = "open" /\ FdOf[t] = task[x].to
                   => FdOf[x] \in peers'[t]
  BY <1>6 DEF Relay, Reached
<1>7. PostLeave(x) => conn[x] = "over"
  BY DEF PostLeave, PairsOk
<1>8. ASSUME NEW s \in Session, NEW t \in Session, s # t
      PROVE  PairOk(s, t)'
  <2>1. PairOk(s, t)
    BY <1>8 DEF PairsOk
  <2>2. OneHearsOther(s, t)' /\ InOneRoom(s, t)'
    BY <1>2, <1>4, <2>1 DEF PairOk, OneHearsOther, InOneRoom
  <2>3. SomeoneHears(s, t)'
    BY <1>2, <1>4, <2>1 DEF PairOk, SomeoneHears, Together
  <2>4. KnownHasJoined(s, t)'
    <3>1. CASE t = x
      BY <1>2, <1>3, <1>5, <3>1 DEF KnownHasJoined
    <3>2. CASE t # x
      <4>1. FdOf[t] # FdOf[x]
        BY <3>2 DEF NumbersAreOwn
      <4>2. FdOf[t] \in peers'[s] => FdOf[t] \in peers[s]
        BY <1>5, <4>1
      <4> QED BY <1>2, <1>3, <2>1, <3>2, <4>2 DEF PairOk, KnownHasJoined
    <3> QED BY <3>1, <3>2
  <2>5. CallIsUnderWay(s, t)'
    <3> SUFFICES ASSUME <<s, t>> \in callers, conn[s] = "open", conn[t] = "open"
                 PROVE  FdOf[t] \in peers'[s] /\ Ringing(s, t)'
      BY <1>2 DEF CallIsUnderWay
    <3>1. FdOf[t] \in peers[s] /\ Ringing(s, t)
      BY <2>1 DEF PairOk, CallIsUnderWay
    <3>2. CASE PostLeave(x)
      <4>1. s # x /\ t # x
        BY <1>7, <3>2
      <4>2. FdOf[s] # FdOf[x] /\ FdOf[t] # FdOf[x]
        BY <4>1 DEF NumbersAreOwn
      <4> QED BY <1>2, <1>3, <1>5, <3>1, <4>1, <4>2 DEF Ringing
    <3>3. CASE Relay(x)
      <4>1. FdOf[t] \in peers'[s] /\ (FdOf[s] \in peers[t] => FdOf[s] \in peers'[t])
        BY <1>6, <3>1, <3>3
      <4>2. CASE FdOf[s] \in peers[t] \/ FdOf[t] \in offers[s]
        BY <1>2, <4>1, <4>2 DEF Ringing
      <4>3. CASE task[s].at = "relay" /\ task[s].to = FdOf[t] /\ s # x
        BY <1>3, <4>1, <4>3 DEF Ringing
      <4>4. CASE task[s].at = "relay" /\ task[s].to = FdOf[t] /\ s = x
        <5>1. HearsOf(s, t)
          BY DEF HearsOf
        <5>2. room[s] = room[t]
          BY <2>1, <5>1 DEF PairOk, InOneRoom
        <5>3. room[s] # None /\ task[s].obj = mapped[room[s]]
          BY <4>4 DEF IInv, HeldIsMapped
        <5>4. room[t] \in Room
          BY <5>2, <5>3 DEF IInv, TypeOK
        <5>5. t \in Connections(task[s].obj)
          BY <5>2, <5>3, <5>4, WhoIsIn
        <5> QED BY <1>6, <3>3, <4>1, <4>4, <5>5 DEF Ringing
      <4> QED BY <3>1, <4>2, <4>3, <4>4 DEF Ringing
    <3> QED BY <3>2, <3>3
  <2> QED BY <2>2, <2>3, <2>4, <2>5 DEF PairOk
<1>9. \A s \in Session : task'[s].at = "left" => conn'[s] = "over"
  BY <1>2, <1>3 DEF PairsOk
<1> QED BY <1>2, <1>8, <1>9 DEF PairsOk

LEMMA NextPairs == NumbersAreOwn /\ IInv /\ IInv' /\ PairsOk /\ [Next]_vars => PairsOk'
<1> SUFFICES ASSUME NumbersAreOwn, IInv, IInv', PairsOk, [Next]_vars PROVE PairsOk'
  OBVIOUS
<1>1. CASE UNCHANGED vars
  BY <1>1 DEF vars, server, browser, PairsOk, PairOk, OneHearsOther, InOneRoom, SomeoneHears,
              KnownHasJoined, CallIsUnderWay, HearsOf, Ringing, Together, Entered
<1>2. ASSUME NEW s \in Session, \/ Open(s) \/ Close(s) \/ TakeOffer(s) \/ LeaveRoom(s)
                                \/ \E r \in Room : TakeJoin(s, r)
      PROVE  PairsOk'
  BY <1>2, QuietStepPairs
<1>3. ASSUME NEW s \in Session, JoinRoom(s)
      PROVE  PairsOk'
  BY <1>3, JoinPairs
<1>4. ASSUME NEW s \in Session, PostJoin(s)
      PROVE  PairsOk'
  BY <1>4, PostJoinPairs
<1>5. ASSUME NEW s \in Session, PostLeave(s) \/ Relay(s)
      PROVE  PairsOk'
  BY <1>5, DeliveryPairs
<1> QED BY <1>1, <1>2, <1>3, <1>4, <1>5 DEF Next, Work

LEMMA PairsGiveOneCaller == IInv /\ PairsOk => OneCaller
<1> SUFFICES ASSUME IInv, PairsOk PROVE OneCaller
  OBVIOUS
<1>1. ASSUME NEW s \in Session, NEW t \in Session, <<s, t>> \in callers
      PROVE  <<t, s>> \notin callers
  <2>1. CASE s = t
    BY <1>1, <2>1 DEF PairsOk
  <2>2. CASE s # t
    BY <1>1, <2>2 DEF PairsOk, PairOk, OneHearsOther, HearsOf
  <2> QED BY <2>1, <2>2
<1>2. ASSUME Quiet, NEW s \in Session, NEW t \in Session, Together(s, t)
      PROVE  /\ <<s, t>> \in callers \/ <<t, s>> \in callers
             /\ FdOf[s] \in peers[t] /\ FdOf[t] \in peers[s]
  <2>1. /\ s # t /\ conn[s] = "open" /\ conn[t] = "open" /\ offers[s] = {} /\ offers[t] = {}
        /\ task[s].at = "idle" /\ task[t].at = "idle"
    BY <1>2, TasksMade DEF Quiet, Together
  <2>2. PairOk(s, t) /\ PairOk(t, s)
    BY <2>1 DEF PairsOk
  <2>3. <<s, t>> \in callers \/ <<t, s>> \in callers
    BY <1>2, <2>1, <2>2 DEF PairOk, SomeoneHears, HearsOf
  <2> QED BY <2>1, <2>2, <2>3 DEF PairOk, CallIsUnderWay, Ringing
<1> QED BY <1>1, <1>2 DEF OneCaller

\* As long as no two connections have a number in common, of two members exactly one
\* calls the other, however their joins, offers and cleanups overlap, and both
\* have the connection when all is quiet (useWebRTC.js:203).
THEOREM OneCallsTheOther == NumbersAreOwn => (Spec => []OneCaller)
<1> SUFFICES ASSUME NumbersAreOwn PROVE Spec => []OneCaller
  OBVIOUS
<1>1. Init => PairsOk
  BY InitPairs
<1>2. IInv /\ IInv' /\ PairsOk /\ [Next]_vars => PairsOk'
  BY NextPairs
<1>3. IInv /\ PairsOk => OneCaller
  BY PairsGiveOneCaller
<1> QED BY <1>1, <1>2, <1>3, Inductive, PTL DEF Spec
===============================================================================
