-------------------------------- MODULE Rooms --------------------------------
(***************************************************************************)
(* Rooms and what their members are told: Room.cpp, the JOIN handler        *)
(* (AppChatCommands.cpp), the relaying of signals (AppSignalCommands.cpp)   *)
(* and cleanup (AppRouter.cpp), with what the browsers make of it           *)
(* (useChat.js): their lists of members and whom they call.                 *)
(*                                                                         *)
(* Handlers of different connections overlap; those of one connection run   *)
(* one at a time, its cleanup last (module Dispatch).  A handler's section  *)
(* under the map's lock is one step, the delivery of its frames another:    *)
(* results are handed out in the order in which they are posted, so a       *)
(* browser takes the frames of one result after those of another.           *)
(***************************************************************************)
EXTENDS Naturals, FiniteSets

CONSTANTS Session,      \* connections, with the browsers at their ends
          Room,         \* room numbers
          MaxMembers,   \* kMaxMembers
          FdOf          \* the number by which frames name a connection

ASSUME RoomsAssumption == /\ MaxMembers \in Nat \ {0}
                          /\ IsFiniteSet(Session)
                          /\ DOMAIN FdOf = Session
                          /\ {"none", "outside", "gone"} \cap Room = {}

None == "none"
Fd == {FdOf[s] : s \in Session}

VARIABLES conn,       \* alive_ of each connection, and how far its cleanup is
          room,       \* Session::room_
          mapped,     \* rooms_: which object a number maps to, 0 if none
          members,    \* connections_ of each room object
          objects,    \* how many room objects there have been
          task,       \* what the worker that has a connection's event is at
          list,       \* memberList of each browser
          peers,      \* the fds in its `peers`
          offers,     \* fds to which its OFFER is on the way to the server
          callers     \* history: <<s, t>> when s called t

server  == <<conn, room, mapped, members, objects>>
browser == <<list, peers, offers, callers>>
vars    == <<server, task, browser>>

Object == 1 .. Cardinality(Session)
Idle == [at |-> "idle"]
Task == {Idle} \cup [at : {"join"}, r : Room]
               \cup [at : {"joined", "left"}, told : SUBSET Session]
               \cup [at : {"relay"}, obj : Object \cup {0}, to : Fd]

TypeOK == /\ conn \in [Session -> {"new", "open", "closed", "over"}]
          /\ room \in [Session -> Room \cup {None}]
          /\ mapped \in [Room -> Object \cup {0}]
          /\ objects \in Object \cup {0}
          /\ members \in [Object -> SUBSET Session]
          /\ \A o \in Object : Cardinality(members[o]) <= MaxMembers
          /\ task \in [Session -> Task]
          /\ list \in [Session -> SUBSET Fd]
          /\ peers \in [Session -> SUBSET Fd]
          /\ offers \in [Session -> SUBSET Fd]
          /\ callers \subseteq Session \X Session

Init == /\ conn = [s \in Session |-> "new"]
        /\ room = [s \in Session |-> None]
        /\ mapped = [r \in Room |-> 0]
        /\ objects = 0
        /\ members = [o \in Object |-> {}]
        /\ task = [s \in Session |-> Idle]
        /\ list = [s \in Session |-> {}]
        /\ peers = [s \in Session |-> {}]
        /\ offers = [s \in Session |-> {}]
        /\ callers = {}

-------------------------------------------------------------------------------
(* Room and RoomManager, under their locks *)

\* Mutant of HasPlace: one more than the limit.
HasPlaceOneMore(o) == Cardinality(members[o]) <= MaxMembers

\* add_num: a room with its limit of members takes no more.
HasPlace(o) == Cardinality(members[o]) < MaxMembers

\* get_connections of the object a handler holds, or of none.
Connections(o) == IF o = 0 THEN {} ELSE members[o]

\* del_num, and who is left then.
Remaining(o, s) == Connections(o) \ {s}

\* join_room and the JOIN handler around it: the room is found or made, the
\* member added, the snapshot taken, all under the map's lock.
JoinRoom(s) ==
    /\ task[s].at = "join"
    /\ LET r == task[s].r
           new == mapped[r] = 0
           o == IF new THEN objects + 1 ELSE mapped[r]
       IN  /\ mapped' = [mapped EXCEPT ![r] = o]
           /\ objects' = IF new THEN o ELSE objects
           /\ IF HasPlace(o)
              THEN /\ members' = [members EXCEPT ![o] = @ \cup {s}]
                   /\ room' = [room EXCEPT ![s] = r]
                   /\ task' = [task EXCEPT ![s] = [at |-> "joined", told |-> members'[o]]]
              ELSE /\ task' = [task EXCEPT ![s] = Idle]
                   /\ UNCHANGED <<members, room>>
    /\ UNCHANGED <<conn, browser>>

\* Mutant of LeaveRoom: a room is taken out of the map when one member is left.
LeaveRoomRecyclesEarly(s) ==
    /\ conn[s] = "closed" /\ task[s] = Idle
    /\ LET o == IF room[s] = None THEN 0 ELSE mapped[room[s]]
           left == Remaining(o, s)
       IN  IF o = 0 THEN /\ task' = [task EXCEPT ![s] = [at |-> "left", told |-> {}]]
                         /\ UNCHANGED <<members, mapped>>
           ELSE /\ members' = [members EXCEPT ![o] = left]
                /\ mapped' = IF Cardinality(left) <= 1 THEN [mapped EXCEPT ![room[s]] = 0] ELSE mapped
                /\ task' = [task EXCEPT ![s] = [at |-> "left", told |-> left]]
    /\ room' = [room EXCEPT ![s] = None]
    /\ conn' = [conn EXCEPT ![s] = "over"]
    /\ UNCHANGED <<objects, browser>>

\* leave_room, in the cleanup of a closed connection: the member is taken out,
\* and the room out of the map when nobody is left in it.
LeaveRoom(s) ==
    /\ conn[s] = "closed" /\ task[s] = Idle
    /\ LET o == IF room[s] = None THEN 0 ELSE mapped[room[s]]
           left == Remaining(o, s)
       IN  IF o = 0 THEN /\ task' = [task EXCEPT ![s] = [at |-> "left", told |-> {}]]
                         /\ UNCHANGED <<members, mapped>>
           ELSE /\ members' = [members EXCEPT ![o] = left]
                /\ mapped' = IF left = {} THEN [mapped EXCEPT ![room[s]] = 0] ELSE mapped
                /\ task' = [task EXCEPT ![s] = [at |-> "left", told |-> left]]
    /\ room' = [room EXCEPT ![s] = None]
    /\ conn' = [conn EXCEPT ![s] = "over"]
    /\ UNCHANGED <<objects, browser>>

-------------------------------------------------------------------------------
(* Connections *)

\* A connection is accepted; the kernel does not give out a number in use.
Open(s) == /\ conn[s] = "new"
           /\ \A t \in Session : FdOf[t] = FdOf[s] => conn[t] # "open"
           /\ conn' = [conn EXCEPT ![s] = "open"]
           /\ UNCHANGED <<room, mapped, members, objects, task, browser>>

\* close_connection: alive_ is cleared and the number is free again.
Close(s) == /\ conn[s] = "open"
            /\ conn' = [conn EXCEPT ![s] = "closed"]
            /\ offers' = [offers EXCEPT ![s] = {}]
            /\ UNCHANGED <<room, mapped, members, objects, task, list, peers, callers>>

\* Mutant of TakeJoin: a connection may join a second room.
TakeJoinAgain(s, r) == /\ conn[s] = "open" /\ task[s] = Idle
                       /\ task' = [task EXCEPT ![s] = [at |-> "join", r |-> r]]
                       /\ UNCHANGED <<server, browser>>

\* A worker takes a JOIN of a living connection that is in no room.
TakeJoin(s, r) == /\ conn[s] = "open" /\ task[s] = Idle
                  /\ room[s] = None
                  /\ task' = [task EXCEPT ![s] = [at |-> "join", r |-> r]]
                  /\ UNCHANGED <<server, browser>>

\* relay_signal, first half: the room is found, and held from here on.
TakeOffer(s) == /\ conn[s] = "open" /\ task[s] = Idle
                /\ \E fd \in offers[s] :
                      /\ offers' = [offers EXCEPT ![s] = @ \ {fd}]
                      /\ task' = [task EXCEPT ![s] =
                            [at |-> "relay", to |-> fd,
                             obj |-> IF room[s] = None THEN 0 ELSE mapped[room[s]]]]
                /\ UNCHANGED <<server, list, peers, callers>>

-------------------------------------------------------------------------------
(* What the browsers are told *)

\* Frames reach the living only.
Reached(told) == {t \in told : conn[t] = "open"}

\* connectTo, at a browser that hears of the joining of fd.
Calls(t, fd) == fd # FdOf[t] /\ fd \notin peers[t]

\* Mutant of Snapshot: taken when the frames are made, outside the lock.
SnapshotLate(s) == Connections(mapped[room[s]])

\* JoinResult::members_, as it was under the lock.
Snapshot(s) == task[s].told

\* The JOIN handler's frames: OK, then MEMBERS to all in the snapshot, then
\* JOIN to all but the one who joined; each of them calls it.
PostJoin(s) ==
    /\ task[s].at = "joined"
    /\ task' = [task EXCEPT ![s] = Idle]
    /\ LET told == Reached(Snapshot(s))
           calling == {t \in told \ {s} : Calls(t, FdOf[s])}
       IN  /\ list' = [t \in Session |-> IF t \in told THEN {FdOf[u] : u \in Snapshot(s)}
                                         ELSE list[t]]
           /\ peers' = [t \in Session |-> IF t \in calling THEN peers[t] \cup {FdOf[s]}
                                          ELSE peers[t]]
           /\ offers' = [t \in Session |-> IF t \in calling THEN offers[t] \cup {FdOf[s]}
                                           ELSE offers[t]]
           /\ callers' = callers \cup {<<t, s>> : t \in calling}
    /\ UNCHANGED server

\* Mutant of PostLeave: MEMBERS is sent, LEAVE is not.
PostLeaveMembersOnly(s) ==
    /\ task[s].at = "left"
    /\ task' = [task EXCEPT ![s] = Idle]
    /\ list' = [t \in Session |-> IF t \in Reached(task[s].told)
                                  THEN {FdOf[u] : u \in task[s].told} ELSE list[t]]
    /\ UNCHANGED <<server, peers, offers, callers>>

\* The frames of cleanup: LEAVE, at which a browser hangs up, and MEMBERS.
PostLeave(s) ==
    /\ task[s].at = "left"
    /\ task' = [task EXCEPT ![s] = Idle]
    /\ LET told == Reached(task[s].told)
       IN  /\ peers' = [t \in Session |-> IF t \in told THEN peers[t] \ {FdOf[s]} ELSE peers[t]]
           /\ list' = [t \in Session |-> IF t \in told THEN {FdOf[u] : u \in task[s].told}
                                         ELSE list[t]]
    /\ UNCHANGED <<server, offers, callers>>

\* relay_signal, second half: find_peer looks the number up among the members
\* of the room held, and that browser takes the call.
Relay(s) ==
    /\ task[s].at = "relay"
    /\ task' = [task EXCEPT ![s] = Idle]
    /\ LET called == {t \in Reached(Connections(task[s].obj)) : FdOf[t] = task[s].to}
       IN  peers' = [t \in Session |-> IF t \in called THEN peers[t] \cup {FdOf[s]} ELSE peers[t]]
    /\ UNCHANGED <<server, list, offers, callers>>

Work(s) == JoinRoom(s) \/ LeaveRoom(s) \/ TakeOffer(s) \/ PostJoin(s) \/ PostLeave(s) \/ Relay(s)

Next == \E s \in Session : \/ Open(s) \/ Close(s)
                           \/ \E r \in Room : TakeJoin(s, r)
                           \/ Work(s)

\* Workers and the control thread go on; nobody has to join or to leave.
Spec == Init /\ [][Next]_vars /\ \A s \in Session : WF_vars(Work(s))

-------------------------------------------------------------------------------
(* Properties *)

\* A number is mapped to the object its members are in, and a handler that holds a
\* room while other members come and go holds that object: what it registers
\* or relays there is not lost in a recycled one (Room.h:72, Room.cpp:82).
HeldIsMapped ==
    \A s \in Session : /\ room[s] # None => mapped[room[s]] # 0
                                            /\ s \in members[mapped[room[s]]]
                       /\ task[s].at = "relay" => /\ room[s] # None
                                                  /\ task[s].obj = mapped[room[s]]

\* Nothing is on its way any more.
Quiet == \A s \in Session : task[s] = Idle /\ offers[s] = {} /\ conn[s] # "closed"

Together(s, t) == s # t /\ conn[s] = "open" /\ conn[t] = "open"
                        /\ room[s] # None /\ room[s] = room[t]

\* Of two members exactly one calls the other, however their joins overlap: two
\* calls at once would collide, none would leave them unconnected (useWebRTC.js:203).
OneCaller ==
    /\ \A s, t \in Session : <<s, t>> \in callers => <<t, s>> \notin callers
    /\ Quiet => \A s, t \in Session :
          Together(s, t) => /\ <<s, t>> \in callers \/ <<t, s>> \in callers
                            /\ FdOf[s] \in peers[t] /\ FdOf[t] \in peers[s]

\* A member that has gone is taken off everybody's calls, also by those who were
\* joining, or being called, when it went (AppRouter.cpp:47, useChat.js:172).
GoneIsHungUp ==
    \A s \in Session : conn[s] = "closed" ~>
        \A t \in Session : conn[t] = "open" => FdOf[s] \notin peers[t]

\* The rooms are a membership relation: at most one room for a session, at most
\* MaxMembers in a room, although objects are made and recycled under the number.
Place(s) == IF conn[s] = "over" THEN "gone"
            ELSE IF \E r \in Room : s \in Connections(mapped[r])
                 THEN CHOOSE r \in Room : s \in Connections(mapped[r])
                 ELSE "outside"
Abstract == INSTANCE Membership WITH place <- [s \in Session |-> Place(s)]
ImplementsMembership == Abstract!Spec

\* When all is quiet, a browser shows the members of its room.
ListsAgree == Quiet => \A s \in Session : conn[s] = "open" /\ room[s] # None =>
                  list[s] = {FdOf[t] : t \in members[mapped[room[s]]]}
===============================================================================
