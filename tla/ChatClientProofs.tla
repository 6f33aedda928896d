--------------------------- MODULE ChatClientProofs ---------------------------
(***************************************************************************)
(* Proofs about module ChatClient, for any number of sockets, any limit of *)
(* silence and any number of breakdowns.                                   *)
(***************************************************************************)
EXTENDS ChatClient, WellFoundedInduction, SequenceTheorems, TLAPS

ServerFrame == Join \cup {"PING", "MSG", "FIN"}
ClientFrame == {"OK", "MEMBERS", "FULL", "PONG", "FIN"}

-------------------------------------------------------------------------------
(* Types *)

\* TypeOK, part by part.
LEMMA Types ==
    /\ TypeOK => /\ ws \in Socket \cup {NoSocket} /\ ws \in Nat
                 /\ connStatus \in {"connected", "reconnecting", "disconnected"}
                 /\ joined \in BOOLEAN /\ memberList \in BOOLEAN /\ isLeaving \in BOOLEAN
                 /\ reconnectTimer \in BOOLEAN /\ heartbeatTimer \in BOOLEAN
                 /\ due \in BOOLEAN /\ hidden \in BOOLEAN /\ frozen \in BOOLEAN
                 /\ wanted \in BOOLEAN
                 /\ heartbeatTimer => ws # NoSocket /\ ~isLeaving
                 /\ silence \in 0 .. SilenceLimit /\ probed \in 0 .. 2
                 /\ sock \in [Socket -> {"connecting", "open", "closed"}]
                 /\ conn \in [Socket -> {"none", "idle", "member"}]
                 /\ toServer \in [Socket -> Seq(ServerFrame)]
                 /\ toClient \in [Socket -> Seq(ClientFrame)]
                 /\ down \subseteq Socket
                 /\ faults \in 0 .. MaxFaults /\ freezes \in 0 .. MaxFreezes
    /\ MaxSocket \in Nat /\ SilenceLimit \in Nat \ {0} /\ MaxFaults \in Nat
    /\ MaxFreezes \in Nat /\ Refused \subseteq Join /\ Socket \subseteq Nat /\ 0 \notin Socket
BY ChatAssumption, SMTT(20) DEF TypeOK, ServerFrame, ClientFrame, Socket, NoSocket

\* The first of the sockets that nothing refers to is one of them.
LEMMA LeastUnused ==
    ASSUME Unused # {}
    PROVE  (CHOOSE s \in Unused : \A t \in Unused : s <= t) \in Unused
<1> DEFINE less == OpToRel(<, Nat)
<1>1. Unused \subseteq Nat /\ \A y \in Unused : y \in Nat
  BY Types DEF Unused
<1>2. IsWellFoundedOn(less, Nat)
  BY NatLessThanWellFounded
<1>3. \A x, y \in Nat : x < y => <<x, y>> \in less
  BY DEF OpToRel
<1> HIDE DEF less
<1>4. PICK k \in Unused : \A y \in Unused : ~ (<<y, k>> \in less)
  BY <1>1, <1>2, WFMin
<1>5. ASSUME NEW y \in Unused PROVE k <= y
  <2>1. k \in Nat /\ y \in Nat
    BY <1>1
  <2>2. ~ (y < k)
    BY <1>3, <1>4, <2>1
  <2> QED BY <2>1, <2>2
<1> QED BY <1>5

LEMMA ConnectFacts ==
    ASSUME TypeOK, Connect
    PROVE  /\ ws' \in Socket /\ sock[ws'] = "closed" /\ conn[ws'] = "none"
           /\ sock' = [sock EXCEPT ![ws'] = "connecting"]
           /\ down' = down \ {ws'}
           /\ reconnectTimer' = FALSE /\ heartbeatTimer' = FALSE /\ due' = FALSE
           /\ UNCHANGED <<conn, toServer, toClient, silence, probed, joined,
                          connStatus, memberList, isLeaving>>
<1>1. ws' \in Unused
  BY LeastUnused DEF Connect
<1> QED BY <1>1 DEF Connect, Unused

\* A frame sent is appended, or nothing happens.
LEMMA SentTypes ==
    ASSUME TypeOK, NEW s \in Socket, NEW frame \in ServerFrame
    PROVE  Sent(s, frame) \in [Socket -> Seq(ServerFrame)]
<1>1. toServer \in [Socket -> Seq(ServerFrame)]
  BY Types
<1>2. Append(toServer[s], frame) \in Seq(ServerFrame)
  BY <1>1, AppendProperties
<1> QED BY <1>1, <1>2 DEF Sent

LEMMA ToldTypes ==
    ASSUME TypeOK, NEW s \in Socket, NEW frames \in Seq(ClientFrame)
    PROVE  Told(s, frames) \in [Socket -> Seq(ClientFrame)]
<1>1. toClient \in [Socket -> Seq(ClientFrame)]
  BY Types
<1>2. toClient[s] \o frames \in Seq(ClientFrame)
  BY <1>1, ConcatProperties
<1> QED BY <1>1, <1>2 DEF Told

LEMMA CloseTypes ==
    ASSUME TypeOK, NEW s \in Socket, CloseSocket(s)
    PROVE  /\ sock' \in [Socket -> {"connecting", "open", "closed"}]
           /\ toServer' \in [Socket -> Seq(ServerFrame)]
           /\ toClient' \in [Socket -> Seq(ClientFrame)]
           /\ UNCHANGED <<conn, down>>
<1>1. /\ sock \in [Socket -> {"connecting", "open", "closed"}]
      /\ toClient \in [Socket -> Seq(ClientFrame)]
  BY Types
<1>2. Sent(s, "FIN") \in [Socket -> Seq(ServerFrame)]
  <2>1. "FIN" \in ServerFrame
    BY DEF ServerFrame
  <2> QED BY <2>1, SentTypes
<1>3. <<>> \in Seq(ClientFrame)
  OBVIOUS
<1> QED BY <1>1, <1>2, <1>3 DEF CloseSocket

LEMMA DisconnectTypes ==
    ASSUME TypeOK, HandleDisconnect
    PROVE  /\ connStatus' \in {"connected", "reconnecting", "disconnected"}
           /\ memberList' \in BOOLEAN /\ heartbeatTimer' = FALSE
           /\ reconnectTimer' \in BOOLEAN
BY Types DEF HandleDisconnect

\* The steps of the user.
LEMMA UserTypes ==
    ASSUME TypeOK, Login \/ Leave \/ SendMessage PROVE TypeOK'
<1>1. CASE Login
  <2>1. /\ Connect /\ wanted' = TRUE /\ UNCHANGED <<hidden, frozen, freezes, faults>>
    BY <1>1 DEF Login, page
  <2>2. /\ ws' \in Socket /\ sock' = [sock EXCEPT ![ws'] = "connecting"]
        /\ down' = down \ {ws'}
        /\ reconnectTimer' = FALSE /\ heartbeatTimer' = FALSE /\ due' = FALSE
        /\ UNCHANGED <<conn, toServer, toClient, silence, probed, joined,
                       connStatus, memberList, isLeaving>>
    BY <2>1, ConnectFacts
  <2> QED BY <2>1, <2>2 DEF TypeOK
<1>2. CASE Leave
  <2>1. /\ isLeaving' = TRUE /\ joined' = FALSE /\ memberList' = FALSE
        /\ connStatus' = "disconnected"
        /\ reconnectTimer' = FALSE /\ heartbeatTimer' = FALSE /\ due' = FALSE
        /\ ws' = NoSocket /\ wanted' = FALSE
        /\ UNCHANGED <<silence, probed, hidden, frozen, freezes, faults>>
    BY <1>2 DEF Leave, page
  <2>2. /\ sock' \in [Socket -> {"connecting", "open", "closed"}]
        /\ toServer' \in [Socket -> Seq(ServerFrame)]
        /\ toClient' \in [Socket -> Seq(ClientFrame)]
        /\ UNCHANGED <<conn, down>>
    <3>1. CASE ws = NoSocket
      BY <1>2, <3>1, Types DEF Leave, network
    <3>2. CASE ws # NoSocket
      <4>1. ws \in Socket /\ CloseSocket(ws)
        BY <1>2, <3>2, Types DEF Leave
      <4> QED BY <4>1, CloseTypes
    <3> QED BY <3>1, <3>2
  <2> QED BY <2>1, <2>2 DEF TypeOK, ServerFrame, ClientFrame
<1>3. CASE SendMessage
  <2>1. /\ ws \in Socket /\ toServer' = Sent(ws, "MSG")
        /\ UNCHANGED <<client, beat, sock, conn, toClient, down, page, wanted, faults>>
    BY <1>3, Types DEF SendMessage, IsOpen
  <2>2. toServer' \in [Socket -> Seq(ServerFrame)]
    <3>1. "MSG" \in ServerFrame
      BY DEF ServerFrame
    <3> QED BY <2>1, <3>1, SentTypes
  <2> QED BY <2>1, <2>2 DEF TypeOK, ServerFrame, client, beat, page
<1> QED BY <1>1, <1>2, <1>3

\* The events of a socket and the timers.
LEMMA BrowserTypes ==
    ASSUME TypeOK,
           \/ \E s \in Socket : OnOpen(s) \/ OnMessage(s) \/ OnClose(s)
           \/ Reconnect \/ HeartbeatTick
    PROVE  TypeOK'
<1>1. ASSUME NEW s \in Socket, OnOpen(s) PROVE TypeOK'
  <2>1. /\ sock' = [sock EXCEPT ![s] = "open"] /\ conn' = [conn EXCEPT ![s] = "idle"]
        /\ isLeaving' = FALSE /\ connStatus' = "connected"
        /\ UNCHANGED <<ws, joined, memberList, reconnectTimer, toClient, down, due,
                       page, wanted, faults>>
    BY <1>1 DEF OnOpen
  <2>2. /\ toServer' \in [Socket -> Seq(ServerFrame)]
        /\ heartbeatTimer' \in BOOLEAN /\ silence' \in 0 .. SilenceLimit /\ probed' \in 0 .. 2
        /\ heartbeatTimer' => ws # NoSocket
    <3>1. CASE UNCHANGED <<toServer, heartbeatTimer, silence, probed>>
      BY <3>1, Types
    <3>2. CASE /\ ws # NoSocket
               /\ toServer' = IF ws = s THEN [toServer EXCEPT ![s] = Append(toServer[s], JoinFrame)]
                                        ELSE Sent(ws, JoinFrame)
               /\ heartbeatTimer' = TRUE /\ silence' = 0 /\ probed' = 0
      <4>1. JoinFrame \in ServerFrame /\ ws \in Socket
        BY <3>2, Types DEF JoinFrame, ServerFrame, Join
      <4>2. Sent(ws, JoinFrame) \in [Socket -> Seq(ServerFrame)]
        BY <4>1, SentTypes
      <4>3. [toServer EXCEPT ![s] = Append(toServer[s], JoinFrame)] \in [Socket -> Seq(ServerFrame)]
        <5>1. toServer \in [Socket -> Seq(ServerFrame)]
          BY Types
        <5>2. Append(toServer[s], JoinFrame) \in Seq(ServerFrame)
          BY <4>1, <5>1, AppendProperties
        <5> QED BY <5>1, <5>2
      <4> QED BY <3>2, <4>2, <4>3, Types
    <3> QED BY <1>1, <3>1, <3>2 DEF OnOpen
  <2> QED BY <2>1, <2>2 DEF TypeOK, ServerFrame, page
<1>2. ASSUME NEW s \in Socket, OnMessage(s) PROVE TypeOK'
  <2>1. /\ toClient[s] # <<>> /\ toClient' = [toClient EXCEPT ![s] = Tail(toClient[s])]
        /\ OnText(Head(toClient[s])) /\ silence' = 0
        /\ UNCHANGED <<ws, connStatus, isLeaving, reconnectTimer, heartbeatTimer, probed, due,
                       sock, conn, toServer, down, page, wanted, faults>>
    BY <1>2 DEF OnMessage
  <2>2. toClient' \in [Socket -> Seq(ClientFrame)]
    <3>1. toClient \in [Socket -> Seq(ClientFrame)]
      BY Types
    <3>2. Tail(toClient[s]) \in Seq(ClientFrame)
      BY <2>1, <3>1, HeadTailProperties
    <3> QED BY <2>1, <3>1, <3>2
  <2>3. joined' \in BOOLEAN /\ memberList' \in BOOLEAN
    BY <2>1 DEF OnText
  <2>4. silence' \in 0 .. SilenceLimit
    BY <2>1, Types
  <2> QED BY <2>1, <2>2, <2>3, <2>4 DEF TypeOK, ClientFrame, page
<1>3. ASSUME NEW s \in Socket, OnClose(s) PROVE TypeOK'
  <2>1. /\ sock' = [sock EXCEPT ![s] = "closed"] /\ toClient' = [toClient EXCEPT ![s] = <<>>]
        /\ HandleDisconnect /\ due' = (due /\ heartbeatTimer')
        /\ UNCHANGED <<ws, joined, isLeaving, silence, probed, conn, toServer, down,
                       page, wanted, faults>>
    BY <1>3 DEF OnClose
  <2>2. /\ connStatus' \in {"connected", "reconnecting", "disconnected"}
        /\ memberList' \in BOOLEAN /\ heartbeatTimer' = FALSE
        /\ reconnectTimer' \in BOOLEAN /\ due' \in BOOLEAN
    BY <2>1, DisconnectTypes
  <2>3. toClient' \in [Socket -> Seq(ClientFrame)]
    <3>1. <<>> \in Seq(ClientFrame)
      OBVIOUS
    <3> QED BY <2>1, <3>1, Types
  <2> QED BY <2>1, <2>2, <2>3 DEF TypeOK, ClientFrame, page
<1>4. CASE Reconnect
  <2>1. Connect /\ UNCHANGED <<page, wanted, faults>>
    BY <1>4 DEF Reconnect
  <2>2. /\ ws' \in Socket /\ sock' = [sock EXCEPT ![ws'] = "connecting"]
        /\ down' = down \ {ws'}
        /\ reconnectTimer' = FALSE /\ heartbeatTimer' = FALSE /\ due' = FALSE
        /\ UNCHANGED <<conn, toServer, toClient, silence, probed, joined,
                       connStatus, memberList, isLeaving>>
    BY <2>1, ConnectFacts
  <2> QED BY <2>1, <2>2 DEF TypeOK, page
<1>5. CASE HeartbeatTick
  <2>1. /\ due' = FALSE
        /\ silence' = IF silence < SilenceLimit THEN silence + 1 ELSE silence
        /\ UNCHANGED <<page, wanted, faults>>
    BY <1>5 DEF HeartbeatTick
  <2>2. silence' \in 0 .. SilenceLimit
    BY <2>1, Types
  <2>3. CASE UNCHANGED <<client, heartbeatTimer, probed, network>>
    BY <2>1, <2>2, <2>3 DEF TypeOK, client, network, page
  <2>4. CASE /\ IsOpen
             /\ ~((~hidden /\ silence = SilenceLimit) /\ Suspect = "dead")
             /\ probed' = IF ~hidden /\ silence = SilenceLimit THEN probed + 1 ELSE 0
             /\ toServer' = Sent(ws, "PING")
             /\ UNCHANGED <<client, heartbeatTimer, sock, conn, toClient, down>>
    <3>1. toServer' \in [Socket -> Seq(ServerFrame)]
      <4>1. "PING" \in ServerFrame /\ ws \in Socket
        BY <2>4, Types DEF ServerFrame, IsOpen
      <4> QED BY <2>4, <4>1, SentTypes
    <3>2. probed' \in 0 .. 2
      <4>1. probed \in 0 .. 2
        BY Types
      <4>2. probed = 2 => Suspect = "dead"
        BY DEF Suspect
      <4> QED BY <2>4, <4>1, <4>2
    <3> QED BY <2>1, <2>2, <2>4, <3>1, <3>2 DEF TypeOK, ServerFrame, client, page
  <2>5. CASE /\ IsOpen /\ ws' = NoSocket /\ CloseSocket(ws) /\ HandleDisconnect
             /\ UNCHANGED <<joined, isLeaving, probed>>
    <3>1. ws \in Socket
      BY <2>5, Types DEF IsOpen
    <3>2. /\ sock' \in [Socket -> {"connecting", "open", "closed"}]
          /\ toServer' \in [Socket -> Seq(ServerFrame)]
          /\ toClient' \in [Socket -> Seq(ClientFrame)]
          /\ UNCHANGED <<conn, down>>
      BY <2>5, <3>1, CloseTypes
    <3>3. /\ connStatus' \in {"connected", "reconnecting", "disconnected"}
          /\ memberList' \in BOOLEAN /\ heartbeatTimer' = FALSE
          /\ reconnectTimer' \in BOOLEAN
      BY <2>5, DisconnectTypes
    <3> QED BY <2>1, <2>2, <2>5, <3>2, <3>3 DEF TypeOK, ServerFrame, ClientFrame, page
  <2> QED BY <1>5, <2>3, <2>4, <2>5 DEF HeartbeatTick
<1> QED BY <1>1, <1>2, <1>3, <1>4, <1>5

\* The server, the network and the page.
LEMMA DroppedTypes ==
    ASSUME TypeOK, NEW s \in Socket, Dropped(s), faults' \in 0 .. MaxFaults
    PROVE  TypeOK'
<1>1. /\ conn' = [conn EXCEPT ![s] = "none"] /\ toServer' = [toServer EXCEPT ![s] = <<>>]
      /\ toClient' = Told(s, <<"FIN">>)
      /\ UNCHANGED <<client, beat, sock, down, page, wanted>>
  BY DEF Dropped
<1>2. toServer' \in [Socket -> Seq(ServerFrame)]
  <2>1. <<>> \in Seq(ServerFrame)
    OBVIOUS
  <2> QED BY <1>1, <2>1, Types
<1>3. toClient' \in [Socket -> Seq(ClientFrame)]
  <2>1. <<"FIN">> \in Seq(ClientFrame)
    BY DEF ClientFrame
  <2> QED BY <1>1, <2>1, ToldTypes
<1> QED BY <1>1, <1>2, <1>3 DEF TypeOK, ServerFrame, ClientFrame, client, beat, page

LEMMA ServerTypes ==
    ASSUME TypeOK, NEW s \in Socket, ServerTakes(s) \/ ServerTimeout(s) \/ Break(s)
    PROVE  TypeOK'
<1>1. CASE ServerTakes(s)
  <2> DEFINE frame == Head(toServer[s])
  <2>1. /\ toServer[s] # <<>> /\ toServer' = [toServer EXCEPT ![s] = Tail(toServer[s])]
        /\ \/ UNCHANGED conn \/ conn' = [conn EXCEPT ![s] = "member"]
           \/ conn' = [conn EXCEPT ![s] = "none"]
        /\ \/ UNCHANGED toClient \/ toClient' = Told(s, <<"OK", "MEMBERS">>)
           \/ toClient' = Told(s, <<"FULL">>) \/ toClient' = Told(s, <<"PONG">>)
        /\ UNCHANGED <<client, beat, sock, down, page, wanted, faults>>
    BY <1>1 DEF ServerTakes
  <2>2. toServer' \in [Socket -> Seq(ServerFrame)]
    <3>1. toServer \in [Socket -> Seq(ServerFrame)]
      BY Types
    <3>2. Tail(toServer[s]) \in Seq(ServerFrame)
      BY <2>1, <3>1, HeadTailProperties
    <3> QED BY <2>1, <3>1, <3>2
  <2>3. toClient' \in [Socket -> Seq(ClientFrame)]
    <3>1. /\ <<"OK", "MEMBERS">> \in Seq(ClientFrame) /\ <<"FULL">> \in Seq(ClientFrame)
          /\ <<"PONG">> \in Seq(ClientFrame)
      BY DEF ClientFrame
    <3>2. /\ Told(s, <<"OK", "MEMBERS">>) \in [Socket -> Seq(ClientFrame)]
          /\ Told(s, <<"FULL">>) \in [Socket -> Seq(ClientFrame)]
          /\ Told(s, <<"PONG">>) \in [Socket -> Seq(ClientFrame)]
      BY <3>1, ToldTypes
    <3> QED BY <2>1, <3>2, Types
  <2>4. conn' \in [Socket -> {"none", "idle", "member"}]
    BY <2>1, Types
  <2> QED BY <2>1, <2>2, <2>3, <2>4 DEF TypeOK, ServerFrame, ClientFrame, client, beat, page
<1>2. CASE ServerTimeout(s)
  BY <1>2, Types, DroppedTypes DEF ServerTimeout
<1>3. CASE Break(s)
  <2>1. faults' \in 0 .. MaxFaults
    BY <1>3, Types DEF Break
  <2>2. CASE Dropped(s)
    BY <2>1, <2>2, DroppedTypes
  <2>3. CASE /\ down' = down \cup {s}
             /\ toServer' = [toServer EXCEPT ![s] = <<>>]
             /\ toClient' = [toClient EXCEPT ![s] = <<>>]
             /\ UNCHANGED <<client, beat, sock, conn, page, wanted>>
    <3>1. <<>> \in Seq(ServerFrame) /\ <<>> \in Seq(ClientFrame)
      OBVIOUS
    <3>2. /\ toServer' \in [Socket -> Seq(ServerFrame)]
          /\ toClient' \in [Socket -> Seq(ClientFrame)] /\ down' \subseteq Socket
      BY <2>3, <3>1, Types
    <3> QED BY <2>1, <2>3, <3>2 DEF TypeOK, ServerFrame, ClientFrame, client, beat, page
  <2>4. CASE /\ sock' = [sock EXCEPT ![s] = "closed"]
             /\ HandleDisconnect
             /\ due' = (due /\ heartbeatTimer')
             /\ UNCHANGED <<ws, joined, isLeaving, silence, probed, conn, toServer,
                            toClient, down, page, wanted>>
    <3>1. /\ connStatus' \in {"connected", "reconnecting", "disconnected"}
          /\ memberList' \in BOOLEAN /\ heartbeatTimer' = FALSE
          /\ reconnectTimer' \in BOOLEAN /\ due' \in BOOLEAN
      BY <2>4, DisconnectTypes
    <3> QED BY <2>1, <2>4, <3>1 DEF TypeOK, page
  <2> QED BY <1>3, <2>2, <2>3, <2>4 DEF Break
<1> QED BY <1>1, <1>2, <1>3

LEMMA PageTypes ==
    ASSUME TypeOK, Turn \/ Freeze \/ Thaw PROVE TypeOK'
<1>1. CASE Turn
  BY <1>1 DEF Turn, TypeOK, client, beat, network
<1>2. CASE Freeze
  BY <1>2, Types DEF Freeze, TypeOK, client, beat, network
<1>3. CASE Thaw
  <2>1. silence' \in 0 .. SilenceLimit /\ probed' \in 0 .. 2
    BY <1>3, Types DEF Thaw
  <2> QED BY <1>3, <2>1 DEF Thaw, TypeOK, client, network
<1> QED BY <1>1, <1>2, <1>3

LEMMA InitTypes == Init => TypeOK
<1> SUFFICES ASSUME Init PROVE TypeOK
  OBVIOUS
<1>1. <<>> \in Seq(ServerFrame) /\ <<>> \in Seq(ClientFrame)
  OBVIOUS
<1>2. /\ toServer \in [Socket -> Seq(ServerFrame)]
      /\ toClient \in [Socket -> Seq(ClientFrame)]
  BY <1>1 DEF Init
<1>3. /\ sock \in [Socket -> {"connecting", "open", "closed"}]
      /\ conn \in [Socket -> {"none", "idle", "member"}]
  BY DEF Init
<1>4. /\ 0 \in 0 .. SilenceLimit /\ 0 \in 0 .. 2
      /\ 0 \in 0 .. MaxFaults /\ 0 \in 0 .. MaxFreezes
  BY Types
<1>5. {FALSE} \subseteq BOOLEAN
  OBVIOUS
<1> QED BY <1>2, <1>3, <1>4, <1>5 DEF Init, TypeOK, ServerFrame, ClientFrame

LEMMA NextTypes == TypeOK /\ [Next]_vars => TypeOK'
<1> SUFFICES ASSUME TypeOK, [Next]_vars PROVE TypeOK'
  OBVIOUS
<1>1. CASE UNCHANGED vars
  BY <1>1 DEF vars, client, beat, network, page, TypeOK
<1> QED BY <1>1, UserTypes, BrowserTypes, ServerTypes, PageTypes DEF Next

-------------------------------------------------------------------------------
(* One socket at a time *)

\* What lives is in ws, of a user who has logged in, and no reconnection is due.
OneSocket == \A s \in Socket : sock[s] # "closed" => s = ws /\ ~reconnectTimer /\ wanted

\* After leave nothing is shown and no timer is set.
NothingLeft == ~wanted => ~joined /\ ~memberList /\ ~reconnectTimer /\ ~heartbeatTimer

LEMMA OneSocketMeans == OneSocket /\ NothingLeft => OneVoice /\ LeftIsLeft
BY DEF OneSocket, NothingLeft, OneVoice, LeftIsLeft, Live

LEMMA ClosedFacts ==
    ASSUME TypeOK, NEW s \in Socket, sock' = [sock EXCEPT ![s] = "closed"],
           OneSocket, s = ws \/ sock[s] # "closed"
    PROVE  \A t \in Socket : sock'[t] = "closed"
BY Types DEF OneSocket

\* A user who waits for an attempt to end before the next leaves nothing behind to
\* which connect() would add a socket.
LEMMA OneSocketStep ==
    ASSUME Careful, TypeOK, OneSocket, NothingLeft, [Next]_vars
    PROVE  OneSocket' /\ NothingLeft'
<1>1. ASSUME Connect, \A s \in Socket : sock[s] = "closed", wanted'
      PROVE  OneSocket' /\ NothingLeft'
  <2>1. /\ sock' = [sock EXCEPT ![ws'] = "connecting"] /\ reconnectTimer' = FALSE
    BY <1>1, ConnectFacts
  <2>2. \A s \in Socket : sock'[s] # "closed" => s = ws'
    BY <1>1, <2>1, Types
  <2> QED BY <1>1, <2>1, <2>2 DEF OneSocket, NothingLeft
<1>2. ASSUME NEW s \in Socket, sock[s] # "closed" \/ s = ws,
             sock' = [sock EXCEPT ![s] = "closed"], wanted, wanted'
      PROVE  OneSocket' /\ NothingLeft'
  BY <1>2, ClosedFacts DEF OneSocket, NothingLeft
<1>3. ASSUME UNCHANGED <<ws, sock, joined, memberList, reconnectTimer, heartbeatTimer, wanted>>
      PROVE  OneSocket' /\ NothingLeft'
  BY <1>3 DEF OneSocket, NothingLeft
<1>4. CASE Login
  <2>1. Connect /\ wanted' = TRUE /\ ~(ws \in Socket /\ sock[ws] # "closed")
    BY <1>4 DEF Login
  <2>2. \A s \in Socket : sock[s] = "closed"
    BY <2>1 DEF OneSocket
  <2> QED BY <1>1, <2>1, <2>2
<1>5. CASE Reconnect
  <2>1. Connect /\ reconnectTimer /\ UNCHANGED wanted
    BY <1>5 DEF Reconnect
  <2>2. wanted /\ \A s \in Socket : sock[s] = "closed"
    BY <2>1 DEF OneSocket, NothingLeft
  <2> QED BY <1>1, <2>1, <2>2
<1>6. CASE Leave
  <2>1. /\ ~joined' /\ ~memberList' /\ ~reconnectTimer' /\ ~heartbeatTimer'
        /\ IF ws = NoSocket THEN UNCHANGED network ELSE CloseSocket(ws)
    BY <1>6 DEF Leave
  <2>2. \A s \in Socket : sock'[s] = "closed"
    <3>1. CASE ws = NoSocket
      BY <2>1, <3>1, Types DEF network, OneSocket, NoSocket
    <3>2. CASE ws # NoSocket
      <4>1. ws \in Socket /\ sock' = [sock EXCEPT ![ws] = "closed"]
        BY <2>1, <3>2, Types DEF CloseSocket
      <4> QED BY <4>1, ClosedFacts
    <3> QED BY <3>1, <3>2
  <2> QED BY <2>1, <2>2 DEF OneSocket, NothingLeft
<1>7. CASE SendMessage
  BY <1>3, <1>7 DEF SendMessage, client, beat
<1>8. ASSUME NEW s \in Socket, OnOpen(s) PROVE OneSocket' /\ NothingLeft'
  <2>1. /\ sock[s] = "connecting" /\ sock' = [sock EXCEPT ![s] = "open"]
        /\ UNCHANGED <<ws, joined, memberList, reconnectTimer, wanted>>
    BY <1>8 DEF OnOpen
  <2>2. wanted
    BY <2>1 DEF OneSocket
  <2> QED BY <2>1, <2>2, Types DEF OneSocket, NothingLeft
<1>9. ASSUME NEW s \in Socket, OnMessage(s) PROVE OneSocket' /\ NothingLeft'
  <2>1. /\ sock[s] = "open" /\ UNCHANGED <<ws, sock, reconnectTimer, wanted>>
    BY <1>9 DEF OnMessage
  <2>2. wanted
    BY <2>1 DEF OneSocket
  <2> QED BY <2>1, <2>2 DEF OneSocket, NothingLeft
<1>10. ASSUME NEW s \in Socket, OnClose(s) PROVE OneSocket' /\ NothingLeft'
  <2>1. sock[s] = "open" /\ sock' = [sock EXCEPT ![s] = "closed"] /\ UNCHANGED wanted
    BY <1>10 DEF OnClose
  <2>2. wanted
    BY <2>1 DEF OneSocket
  <2> QED BY <1>2, <2>1, <2>2
<1>11. CASE HeartbeatTick
  <2>1. UNCHANGED wanted /\ heartbeatTimer
    BY <1>11 DEF HeartbeatTick
  <2>2. CASE UNCHANGED <<client, heartbeatTimer, sock>>
    BY <1>3, <2>1, <2>2 DEF client
  <2>3. CASE IsOpen /\ CloseSocket(ws)
    <3>1. ws \in Socket /\ sock' = [sock EXCEPT ![ws] = "closed"] /\ wanted
      BY <2>1, <2>3, Types DEF IsOpen, CloseSocket, NothingLeft
    <3> QED BY <1>2, <2>1, <3>1
  <2> QED BY <1>11, <2>2, <2>3 DEF HeartbeatTick, network
<1>12. ASSUME NEW s \in Socket, ServerTakes(s) \/ ServerTimeout(s)
       PROVE  OneSocket' /\ NothingLeft'
  BY <1>3, <1>12 DEF ServerTakes, ServerTimeout, Dropped, client, beat
<1>13. ASSUME NEW s \in Socket, Break(s) PROVE OneSocket' /\ NothingLeft'
  <2>1. CASE UNCHANGED <<client, beat, sock, wanted>>
    BY <1>3, <2>1 DEF client, beat
  <2>2. CASE /\ sock[s] = "connecting" /\ sock' = [sock EXCEPT ![s] = "closed"]
             /\ UNCHANGED wanted
    <3>1. wanted
      BY <2>2 DEF OneSocket
    <3> QED BY <1>2, <2>2, <3>1
  <2> QED BY <1>13, <2>1, <2>2 DEF Break, Dropped
<1>14. CASE Turn \/ Freeze \/ Thaw
  BY <1>3, <1>14 DEF Turn, Freeze, Thaw, client, beat, network
<1>15. CASE UNCHANGED vars
  BY <1>3, <1>15 DEF vars, client, beat, network
<1> QED BY <1>4, <1>5, <1>6, <1>7, <1>8, <1>9, <1>10, <1>11, <1>12, <1>13, <1>14, <1>15 DEF Next

LEMMA InitOneSocket == Init => OneSocket /\ NothingLeft
BY DEF Init, OneSocket, NothingLeft

-------------------------------------------------------------------------------
(* What a step does to one socket *)

Kept(s) == /\ toServer'[s] = toServer[s] /\ toClient'[s] = toClient[s]
           /\ conn'[s] = conn[s] /\ sock'[s] = sock[s]

\* connect() makes it anew.
Made(s) == /\ sock[s] = "closed" /\ sock'[s] = "connecting"
           /\ conn[s] = "none" /\ conn'[s] = "none"
           /\ toServer'[s] = toServer[s] /\ toClient'[s] = toClient[s]

Opened(s) == /\ sock[s] = "connecting" /\ sock'[s] = "open" /\ conn'[s] = "idle"
             /\ toServer'[s] = Append(toServer[s], JoinFrame)
             /\ toClient'[s] = toClient[s]

Spoke(s) == /\ sock[s] = "open" /\ conn[s] # "none" /\ s \notin down /\ s = ws
            /\ \/ toServer'[s] = Append(toServer[s], "PING")
               \/ joined /\ toServer'[s] = Append(toServer[s], "MSG")
            /\ toClient'[s] = toClient[s] /\ conn'[s] = conn[s] /\ sock'[s] = sock[s]

Heard(s) == /\ sock[s] = "open" /\ toClient[s] # <<>> /\ Head(toClient[s]) # "FIN"
            /\ toClient'[s] = Tail(toClient[s])
            /\ toServer'[s] = toServer[s] /\ conn'[s] = conn[s] /\ sock'[s] = sock[s]

\* Closed at this end, or found closed; the server may be told.
Shut(s) == /\ sock[s] # "closed" /\ sock'[s] = "closed"
           /\ toClient'[s] = <<>> /\ conn'[s] = conn[s]
           /\ \/ toServer'[s] = toServer[s]
              \/ /\ sock[s] = "open" /\ conn[s] # "none"
                 /\ toServer'[s] = Append(toServer[s], "FIN")

\* The server takes a frame and answers, if there is a way to.
Answer(s, frames) ==
    toClient'[s] = IF s \in down \/ sock[s] # "open" THEN toClient[s]
                   ELSE toClient[s] \o frames
Served(s) ==
    /\ toServer[s] # <<>> /\ toServer'[s] = Tail(toServer[s]) /\ sock'[s] = sock[s]
    /\ LET frame == Head(toServer[s])
       IN  \/ frame \in Join /\ conn[s] = "idle" /\ conn'[s] = "member" /\ Answer(s, <<"OK", "MEMBERS">>)
           \/ frame \in Refused /\ conn'[s] = conn[s] /\ Answer(s, <<"FULL">>)
           \/ frame \in Join /\ conn[s] # "idle" /\ conn'[s] = conn[s] /\ toClient'[s] = toClient[s]
           \/ frame = "PING" /\ conn'[s] = conn[s] /\ Answer(s, <<"PONG">>)
           \/ frame = "MSG" /\ conn'[s] = conn[s] /\ toClient'[s] = toClient[s]
           \/ frame = "FIN" /\ conn'[s] = "none" /\ toClient'[s] = toClient[s]

Lost(s) == /\ conn'[s] = "none" /\ toServer'[s] = <<>> /\ Answer(s, <<"FIN">>)
           /\ sock'[s] = sock[s]

\* The path dies.
Muted(s) == /\ s \in down' /\ toServer'[s] = <<>> /\ toClient'[s] = <<>>
            /\ conn'[s] = conn[s] /\ sock'[s] = sock[s]

SocketStep(s) == \/ Kept(s) \/ Made(s) \/ Opened(s) \/ Spoke(s) \/ Heard(s)
                 \/ Shut(s) \/ Served(s) \/ Lost(s) \/ Muted(s)

LEMMA SentFacts ==
    ASSUME TypeOK, NEW s \in Socket, NEW frame
    PROVE  \A t \in Socket :
              Sent(s, frame)[t] = IF t = s /\ sock[s] = "open" /\ conn[s] # "none" /\ s \notin down
                                  THEN Append(toServer[s], frame) ELSE toServer[t]
BY Types DEF Sent

LEMMA ToldFacts ==
    ASSUME TypeOK, NEW s \in Socket, NEW frames
    PROVE  \A t \in Socket :
              Told(s, frames)[t] = IF t = s /\ s \notin down /\ sock[s] = "open"
                                   THEN toClient[s] \o frames ELSE toClient[t]
BY Types DEF Told

LEMMA EachSocketSteps ==
    ASSUME TypeOK, OneSocket, [Next]_vars, NEW s \in Socket,
           sock[s] # "open" => toClient[s] = <<>>
    PROVE  SocketStep(s)
<1>1. ASSUME UNCHANGED <<toServer, toClient, conn, sock>> PROVE SocketStep(s)
  BY <1>1 DEF SocketStep, Kept
<1>2. ASSUME Connect PROVE SocketStep(s)
  <2>1. /\ ws' \in Socket /\ sock[ws'] = "closed" /\ conn[ws'] = "none"
        /\ sock' = [sock EXCEPT ![ws'] = "connecting"]
        /\ UNCHANGED <<conn, toServer, toClient>>
    BY <1>2, ConnectFacts
  <2>2. CASE s = ws'
    BY <2>1, <2>2, Types DEF SocketStep, Made
  <2>3. CASE s # ws'
    BY <2>1, <2>3, Types DEF SocketStep, Kept
  <2> QED BY <2>2, <2>3
<1>3. ASSUME NEW t \in Socket, CloseSocket(t) PROVE SocketStep(s)
  <2>1. /\ sock' = [sock EXCEPT ![t] = "closed"] /\ toServer' = Sent(t, "FIN")
        /\ toClient' = [toClient EXCEPT ![t] = <<>>] /\ UNCHANGED conn
    BY <1>3 DEF CloseSocket
  <2>2. toServer'[s] = IF s = t /\ sock[t] = "open" /\ conn[t] # "none" /\ t \notin down
                       THEN Append(toServer[t], "FIN") ELSE toServer[s]
    BY <2>1, SentFacts
  <2>3. CASE s # t
    BY <2>1, <2>2, <2>3, Types DEF SocketStep, Kept
  <2>4. CASE s = t /\ sock[s] = "closed"
    BY <2>1, <2>2, <2>4, Types DEF SocketStep, Kept
  <2>5. CASE s = t /\ sock[s] # "closed"
    BY <2>1, <2>2, <2>5, Types DEF SocketStep, Shut
  <2> QED BY <2>3, <2>4, <2>5
<1>4. CASE Login \/ Reconnect
  BY <1>2, <1>4 DEF Login, Reconnect
<1>5. CASE Leave
  <2>1. CASE ws = NoSocket
    BY <1>1, <1>5, <2>1 DEF Leave, network
  <2>2. CASE ws # NoSocket
    BY <1>3, <1>5, <2>2, Types DEF Leave
  <2> QED BY <2>1, <2>2
<1>6. ASSUME NEW frame \in {"PING", "MSG"}, frame = "MSG" => joined,
             ws \in Socket, toServer' = Sent(ws, frame), UNCHANGED <<sock, conn, toClient>>
      PROVE  SocketStep(s)
  <2>1. toServer'[s] = IF s = ws /\ sock[ws] = "open" /\ conn[ws] # "none" /\ ws \notin down
                       THEN Append(toServer[ws], frame) ELSE toServer[s]
    BY <1>6, SentFacts
  <2>2. CASE s = ws /\ sock[ws] = "open" /\ conn[ws] # "none" /\ ws \notin down
    <3>1. toServer'[s] = Append(toServer[s], frame)
      BY <2>1, <2>2
    <3>2. Spoke(s)
      BY <1>6, <2>2, <3>1 DEF Spoke
    <3> QED BY <3>2 DEF SocketStep
  <2>3. CASE ~(s = ws /\ sock[ws] = "open" /\ conn[ws] # "none" /\ ws \notin down)
    BY <1>6, <2>1, <2>3 DEF SocketStep, Kept
  <2> QED BY <2>2, <2>3
<1>7. CASE SendMessage
  BY <1>6, <1>7, Types DEF SendMessage, IsOpen
<1>8. ASSUME NEW t \in Socket, OnOpen(t) PROVE SocketStep(s)
  <2>1. /\ sock[t] = "connecting" /\ sock' = [sock EXCEPT ![t] = "open"]
        /\ conn' = [conn EXCEPT ![t] = "idle"] /\ UNCHANGED toClient
    BY <1>8 DEF OnOpen
  <2>2. t = ws
    BY <2>1 DEF OneSocket
  <2>3. toServer' = [toServer EXCEPT ![t] = Append(toServer[t], JoinFrame)]
    BY <1>8, <2>2, Types DEF OnOpen, NoSocket
  <2>4. CASE s = t
    BY <2>1, <2>3, <2>4, Types DEF SocketStep, Opened
  <2>5. CASE s # t
    BY <2>1, <2>3, <2>5, Types DEF SocketStep, Kept
  <2> QED BY <2>4, <2>5
<1>9. ASSUME NEW t \in Socket, OnMessage(t) PROVE SocketStep(s)
  <2>1. /\ sock[t] = "open" /\ toClient[t] # <<>> /\ Head(toClient[t]) # "FIN"
        /\ toClient' = [toClient EXCEPT ![t] = Tail(toClient[t])]
        /\ UNCHANGED <<sock, conn, toServer>>
    BY <1>9 DEF OnMessage
  <2>2. CASE s = t
    BY <2>1, <2>2, Types DEF SocketStep, Heard
  <2>3. CASE s # t
    BY <2>1, <2>3, Types DEF SocketStep, Kept
  <2> QED BY <2>2, <2>3
<1>10. ASSUME NEW t \in Socket, OnClose(t) PROVE SocketStep(s)
  <2>1. /\ sock[t] = "open" /\ sock' = [sock EXCEPT ![t] = "closed"]
        /\ toClient' = [toClient EXCEPT ![t] = <<>>] /\ UNCHANGED <<conn, toServer>>
    BY <1>10 DEF OnClose
  <2>2. CASE s = t
    BY <2>1, <2>2, Types DEF SocketStep, Shut
  <2>3. CASE s # t
    BY <2>1, <2>3, Types DEF SocketStep, Kept
  <2> QED BY <2>2, <2>3
<1>11. CASE HeartbeatTick
  <2>1. CASE UNCHANGED network
    BY <1>1, <2>1 DEF network
  <2>2. CASE IsOpen /\ toServer' = Sent(ws, "PING") /\ UNCHANGED <<sock, conn, toClient>>
    <3>1. ws \in Socket
      BY <2>2, Types DEF IsOpen
    <3>2. "PING" \in {"PING", "MSG"} /\ ("PING" = "MSG" => joined)
      OBVIOUS
    <3> QED BY <1>6, <2>2, <3>1, <3>2
  <2>3. CASE IsOpen /\ CloseSocket(ws)
    BY <1>3, <2>3, Types DEF IsOpen
  <2> QED BY <1>11, <2>1, <2>2, <2>3 DEF HeartbeatTick
<1>12. ASSUME NEW t \in Socket, ServerTakes(t) PROVE SocketStep(s)
  <2>1. /\ toServer[t] # <<>> /\ toServer' = [toServer EXCEPT ![t] = Tail(toServer[t])]
        /\ UNCHANGED sock
    BY <1>12 DEF ServerTakes
  <2>2. CASE s # t
    <3>1. conn'[s] = conn[s] /\ toServer'[s] = toServer[s]
      BY <1>12, <2>1, <2>2, Types DEF ServerTakes
    <3>2. toClient'[s] = toClient[s]
      BY <1>12, <2>2, ToldFacts DEF ServerTakes
    <3> QED BY <2>1, <3>1, <3>2 DEF SocketStep, Kept
  <2>3. CASE s = t
    <3> DEFINE frame == Head(toServer[s])
    <3>1. \/ frame \in Join /\ conn[s] = "idle" /\ conn' = [conn EXCEPT ![s] = "member"]
                            /\ toClient' = Told(s, <<"OK", "MEMBERS">>)
          \/ frame \in Refused /\ UNCHANGED conn /\ toClient' = Told(s, <<"FULL">>)
          \/ frame \in Join /\ conn[s] # "idle" /\ UNCHANGED <<conn, toClient>>
          \/ frame = "PING" /\ UNCHANGED conn /\ toClient' = Told(s, <<"PONG">>)
          \/ frame = "MSG" /\ UNCHANGED <<conn, toClient>>
          \/ frame = "FIN" /\ conn' = [conn EXCEPT ![s] = "none"] /\ UNCHANGED toClient
      BY <1>12, <2>3 DEF ServerTakes
    <3>2. \A frames : toClient' = Told(s, frames) => Answer(s, frames)
      BY ToldFacts DEF Answer
    <3>3. \/ frame \in Join /\ conn[s] = "idle" /\ conn'[s] = "member" /\ Answer(s, <<"OK", "MEMBERS">>)
          \/ frame \in Refused /\ conn'[s] = conn[s] /\ Answer(s, <<"FULL">>)
          \/ frame \in Join /\ conn[s] # "idle" /\ conn'[s] = conn[s] /\ toClient'[s] = toClient[s]
          \/ frame = "PING" /\ conn'[s] = conn[s] /\ Answer(s, <<"PONG">>)
          \/ frame = "MSG" /\ conn'[s] = conn[s] /\ toClient'[s] = toClient[s]
          \/ frame = "FIN" /\ conn'[s] = "none" /\ toClient'[s] = toClient[s]
      BY <3>1, <3>2, Types
    <3>4. toServer[s] # <<>> /\ toServer'[s] = Tail(toServer[s]) /\ sock'[s] = sock[s]
      BY <2>1, <2>3, Types
    <3>5. Served(s)
      BY <3>3, <3>4 DEF Served
    <3> QED BY <3>5 DEF SocketStep
  <2> QED BY <2>2, <2>3
<1>13. ASSUME NEW t \in Socket, Dropped(t) PROVE SocketStep(s)
  <2>1. /\ conn' = [conn EXCEPT ![t] = "none"] /\ toServer' = [toServer EXCEPT ![t] = <<>>]
        /\ toClient' = Told(t, <<"FIN">>) /\ UNCHANGED sock
    BY <1>13 DEF Dropped
  <2>2. toClient'[s] = IF s = t /\ t \notin down /\ sock[t] = "open"
                       THEN toClient[t] \o <<"FIN">> ELSE toClient[s]
    BY <2>1, ToldFacts
  <2>3. CASE s = t
    BY <2>1, <2>2, <2>3, Types DEF SocketStep, Lost, Answer
  <2>4. CASE s # t
    BY <2>1, <2>2, <2>4, Types DEF SocketStep, Kept
  <2> QED BY <2>3, <2>4
<1>14. ASSUME NEW t \in Socket, Break(t) PROVE SocketStep(s)
  <2>1. CASE Dropped(t)
    BY <1>13, <2>1
  <2>2. CASE /\ down' = down \cup {t}
             /\ toServer' = [toServer EXCEPT ![t] = <<>>]
             /\ toClient' = [toClient EXCEPT ![t] = <<>>]
             /\ UNCHANGED <<sock, conn>>
    <3>1. CASE s = t
      BY <2>2, <3>1, Types DEF SocketStep, Muted
    <3>2. CASE s # t
      BY <2>2, <3>2, Types DEF SocketStep, Kept
    <3> QED BY <3>1, <3>2
  <2>3. CASE /\ sock[t] = "connecting" /\ sock' = [sock EXCEPT ![t] = "closed"]
             /\ UNCHANGED <<conn, toServer, toClient>>
    <3>1. CASE s = t
      BY <2>3, <3>1, Types DEF SocketStep, Shut
    <3>2. CASE s # t
      BY <2>3, <3>2, Types DEF SocketStep, Kept
    <3> QED BY <3>1, <3>2
  <2> QED BY <1>14, <2>1, <2>2, <2>3 DEF Break
<1>15. CASE Turn \/ Freeze \/ Thaw \/ UNCHANGED vars
  BY <1>1, <1>15 DEF Turn, Freeze, Thaw, network, vars
<1> QED BY <1>4, <1>5, <1>7, <1>8, <1>9, <1>10, <1>11, <1>12, <1>13, <1>14, <1>15
        DEF Next, ServerTimeout

-------------------------------------------------------------------------------
(* What is under way on a socket *)

Has(q, frame) == \E i \in 1..Len(q) : q[i] = frame

LEMMA HasFacts ==
    ASSUME NEW S, NEW q \in Seq(S), NEW frame
    PROVE  /\ \A x \in S : /\ Append(q, x) \in Seq(S) /\ Len(Append(q, x)) = Len(q) + 1
                           /\ \A i \in 1..Len(q) : Append(q, x)[i] = q[i]
                           /\ Append(q, x)[Len(q) + 1] = x
           /\ q # <<>> => /\ Tail(q) \in Seq(S) /\ Len(Tail(q)) = Len(q) - 1
                          /\ Len(q) \in Nat \ {0} /\ Head(q) = q[1] /\ Head(q) \in S
                          /\ \A i \in 1..Len(Tail(q)) : Tail(q)[i] = q[i + 1]
           /\ Len(q) \in Nat /\ Len(<<>>) = 0
<1>1. Len(q) \in Nat
  BY LenProperties
<1>2. ASSUME NEW x \in S
      PROVE  /\ Append(q, x) \in Seq(S) /\ Len(Append(q, x)) = Len(q) + 1
             /\ \A i \in 1..Len(q) : Append(q, x)[i] = q[i]
             /\ Append(q, x)[Len(q) + 1] = x
  BY AppendProperties
<1>3. ASSUME q # <<>>
      PROVE  /\ Tail(q) \in Seq(S) /\ Len(Tail(q)) = Len(q) - 1
             /\ Len(q) \in Nat \ {0} /\ Head(q) = q[1] /\ Head(q) \in S
             /\ \A i \in 1..Len(Tail(q)) : Tail(q)[i] = q[i + 1]
  BY <1>1, <1>3, HeadTailProperties, EmptySeq
<1> QED BY <1>1, <1>2, <1>3

\* A connection the server does not know has nothing under way to it; the end of a connection
\* is the last thing sent, by a browser that has closed its socket; only to an open socket
\* something is under way.
LaneOK(s) ==
    /\ conn[s] = "none" => toServer[s] = <<>>
    /\ \A i \in 1..Len(toServer[s]) :
          toServer[s][i] = "FIN" => i = Len(toServer[s]) /\ sock[s] = "closed"
    /\ sock[s] # "open" => toClient[s] = <<>>
    /\ sock[s] = "connecting" => conn[s] = "none"

LEMMA LaneStep ==
    ASSUME TypeOK, TypeOK', NEW s \in Socket, LaneOK(s), SocketStep(s)
    PROVE  LaneOK(s)'
<1> DEFINE q == toServer[s]
<1>1. /\ toServer[s] \in Seq(ServerFrame) /\ toServer'[s] \in Seq(ServerFrame)
      /\ toClient[s] \in Seq(ClientFrame)
      /\ sock[s] \in {"connecting", "open", "closed"} /\ conn[s] \in {"none", "idle", "member"}
      /\ conn'[s] \in {"none", "idle", "member"}
  <2>1. toServer' \in [Socket -> Seq(ServerFrame)] /\ conn' \in [Socket -> {"none", "idle", "member"}]
    BY DEF TypeOK, ServerFrame
  <2> QED BY <2>1, Types
<1>2. /\ \A x \in ServerFrame : /\ Len(Append(q, x)) = Len(q) + 1
                                /\ \A i \in 1..Len(q) : Append(q, x)[i] = q[i]
                                /\ Append(q, x)[Len(q) + 1] = x
      /\ q # <<>> => /\ Len(Tail(q)) = Len(q) - 1 /\ Len(q) \in Nat \ {0} /\ Head(q) = q[1]
                     /\ \A i \in 1..Len(Tail(q)) : Tail(q)[i] = q[i + 1]
      /\ Len(q) \in Nat /\ Len(<<>>) = 0
  BY <1>1, HasFacts
<1>3. "PING" \in ServerFrame /\ "MSG" \in ServerFrame /\ "FIN" \in ServerFrame
      /\ JoinFrame \in ServerFrame /\ JoinFrame # "FIN"
  BY DEF ServerFrame, JoinFrame, Join
<1>4. CASE Kept(s)
  BY <1>4 DEF Kept, LaneOK
<1>5. CASE Made(s)
  BY <1>2, <1>5 DEF Made, LaneOK
<1>6. CASE Opened(s)
  <2>1. q = <<>> /\ toServer'[s] = Append(q, JoinFrame)
    BY <1>6 DEF Opened, LaneOK
  <2>2. Len(toServer'[s]) = 1 /\ toServer'[s][1] = JoinFrame
    BY <1>2, <1>3, <2>1
  <2> HIDE DEF q
  <2> QED BY <1>3, <1>6, <2>2 DEF Opened, LaneOK
<1>7. CASE Spoke(s)
  <2>1. PICK x \in {"PING", "MSG"} : toServer'[s] = Append(q, x)
    BY <1>7 DEF Spoke
  <2>2. \A i \in 1..Len(q) : q[i] # "FIN"
    BY <1>7 DEF Spoke, LaneOK
  <2>3. \A i \in 1..Len(toServer'[s]) : toServer'[s][i] # "FIN"
    <3> HIDE DEF q
    <3> QED BY <1>2, <1>3, <2>1, <2>2
  <2> QED BY <1>7, <2>3 DEF Spoke, LaneOK
<1>8. CASE Heard(s)
  BY <1>8 DEF Heard, LaneOK
<1>9. CASE Shut(s)
  <2>1. CASE toServer'[s] = toServer[s]
    BY <1>9, <2>1 DEF Shut, LaneOK
  <2>2. CASE sock[s] = "open" /\ conn[s] # "none" /\ toServer'[s] = Append(toServer[s], "FIN")
    <3>1. \A i \in 1..Len(q) : q[i] # "FIN"
      BY <2>2 DEF LaneOK
    <3>2. /\ Len(toServer'[s]) = Len(q) + 1
          /\ \A i \in 1..Len(toServer'[s]) : toServer'[s][i] = "FIN" => i = Len(toServer'[s])
      <4>1. toServer'[s] = Append(q, "FIN")
        BY <2>2
      <4> HIDE DEF q
      <4> QED BY <1>2, <1>3, <3>1, <4>1
    <3> QED BY <1>9, <2>2, <3>2 DEF Shut, LaneOK
  <2> QED BY <1>9, <2>1, <2>2 DEF Shut
<1>10. CASE Served(s)
  <2>1. /\ q # <<>> /\ toServer'[s] = Tail(q) /\ sock'[s] = sock[s] /\ conn[s] # "none"
        /\ conn'[s] # "none" \/ q[1] = "FIN"
        /\ toClient'[s] = toClient[s] \/ sock[s] = "open"
    BY <1>2, <1>10 DEF Served, LaneOK, Answer
  <2>2. \A i \in 1..Len(q) : q[i] = "FIN" => i = Len(q) /\ sock[s] = "closed"
    BY DEF LaneOK
  <2>3. \A i \in 1..Len(toServer'[s]) :
           toServer'[s][i] = "FIN" => i = Len(toServer'[s]) /\ sock'[s] = "closed"
    <3> HIDE DEF q
    <3> QED BY <1>2, <2>1, <2>2
  <2>4. conn'[s] = "none" => toServer'[s] = <<>>
    <3>1. CASE q[1] = "FIN"
      <4>1. Len(q) = 1
        <5>1. Len(q) \in Nat \ {0}
          BY <1>2, <2>1
        <5>2. 1 \in 1..Len(q)
          BY <5>1
        <5> QED BY <2>2, <3>1, <5>2
      <4>2. Len(Tail(q)) = 0 /\ Tail(q) \in Seq(ServerFrame)
        BY <1>1, <1>2, <2>1, <4>1
      <4> QED BY <2>1, <4>2, EmptySeq
    <3> QED BY <2>1, <3>1
  <2> QED BY <2>1, <2>3, <2>4 DEF LaneOK
<1>11. CASE Lost(s)
  BY <1>2, <1>11 DEF Lost, LaneOK, Answer
<1>12. CASE Muted(s)
  BY <1>2, <1>12 DEF Muted, LaneOK
<1> QED BY <1>4, <1>5, <1>6, <1>7, <1>8, <1>9, <1>10, <1>11, <1>12 DEF SocketStep

-------------------------------------------------------------------------------
(* Who speaks is in the room *)

\* A message is under way to a connection that is a member, or will be by the JOIN of one
\* who comes back, ahead of it; a browser that has been told OK, or believes it is in the
\* room, is that or has that JOIN under way.
SpokenFor(s) ==
    /\ \A i \in 1..Len(toServer[s]) : toServer[s][i] = "MSG" =>
          conn[s] = "member" \/ \E j \in 1..(i - 1) : toServer[s][j] = "RETURN"
    /\ Has(toClient[s], "OK") => conn[s] # "idle"
    /\ joined /\ s = ws /\ sock[s] = "open" /\ s \notin down
          => conn[s] # "idle" \/ Has(toServer[s], "RETURN")

OkAtHand == IsOpen /\ toClient[ws] # <<>> /\ Head(toClient[ws]) = "OK"

\* Who believes to be in the room did so before, or reads it now.
LEMMA JoinedStep ==
    ASSUME TypeOK, OneSocket, [Next]_vars
    PROVE  /\ joined' => joined \/ OkAtHand
           /\ \A s \in Socket : sock[s] = "open" /\ s \in down => s \in down'
<1> DEFINE G == /\ joined' => joined \/ OkAtHand
                /\ \A s \in Socket : sock[s] = "open" /\ s \in down => s \in down'
<1>1. ASSUME NEW s \in Socket, OnMessage(s) PROVE G
  <2>1. /\ sock[s] = "open" /\ toClient[s] # <<>> /\ UNCHANGED down
        /\ joined' = (joined \/ Head(toClient[s]) = "OK")
    BY <1>1 DEF OnMessage, OnText
  <2>2. s = ws
    BY <2>1 DEF OneSocket
  <2> QED BY <2>1, <2>2, Types DEF OkAtHand, IsOpen, NoSocket
<1>2. ASSUME Connect PROVE G
  <2>1. sock[ws'] = "closed" /\ down' = down \ {ws'} /\ UNCHANGED joined
    BY <1>2, ConnectFacts
  <2> QED BY <2>1
<1>3. ASSUME joined' => joined, down \subseteq down' PROVE G
  BY <1>3
<1> HIDE DEF G
<1>4. ASSUME NEW s \in Socket, OnOpen(s) \/ OnClose(s) PROVE G
  BY <1>3, <1>4 DEF OnOpen, OnClose
<1>5. ASSUME NEW s \in Socket, ServerTakes(s) \/ ServerTimeout(s) \/ Break(s) PROVE G
  BY <1>3, <1>5 DEF ServerTakes, ServerTimeout, Break, Dropped, client
<1>6. ASSUME Login \/ Reconnect PROVE G
  BY <1>2, <1>6 DEF Login, Reconnect
<1>7. ASSUME Leave PROVE G
  BY <1>3, <1>7 DEF Leave, network, CloseSocket
<1>8. ASSUME SendMessage \/ Turn \/ Freeze \/ Thaw \/ UNCHANGED vars PROVE G
  BY <1>3, <1>8 DEF SendMessage, Turn, Freeze, Thaw, vars, client, network
<1>9. ASSUME HeartbeatTick PROVE G
  <2>1. UNCHANGED <<joined, down>>
    BY <1>9 DEF HeartbeatTick, client, network, CloseSocket
  <2> QED BY <1>3, <2>1
<1>10. G
  BY <1>1, <1>4, <1>5, <1>6, <1>7, <1>8, <1>9 DEF Next
<1> QED BY <1>10 DEF G

LEMMA SpokenStep ==
    ASSUME Refused \subseteq {"LOGIN"}, TypeOK, TypeOK', OneSocket, OneSocket', [Next]_vars,
           NEW s \in Socket, LaneOK(s), SpokenFor(s), SocketStep(s)
    PROVE  SpokenFor(s)'
<1> DEFINE q == toServer[s]
           r == toClient[s]
<1>1. /\ toServer[s] \in Seq(ServerFrame) /\ toServer'[s] \in Seq(ServerFrame)
      /\ toClient[s] \in Seq(ClientFrame)
      /\ sock[s] \in {"connecting", "open", "closed"} /\ conn[s] \in {"none", "idle", "member"}
  <2>1. toServer' \in [Socket -> Seq(ServerFrame)]
    BY DEF TypeOK, ServerFrame
  <2> QED BY <2>1, Types
<1>2. /\ \A x \in ServerFrame : /\ Len(Append(q, x)) = Len(q) + 1
                                /\ \A i \in 1..Len(q) : Append(q, x)[i] = q[i]
                                /\ Append(q, x)[Len(q) + 1] = x
      /\ q # <<>> => /\ Len(Tail(q)) = Len(q) - 1 /\ Len(q) \in Nat \ {0} /\ Head(q) = q[1]
                     /\ \A i \in 1..Len(Tail(q)) : Tail(q)[i] = q[i + 1]
      /\ Len(q) \in Nat /\ Len(<<>>) = 0
  BY <1>1, HasFacts
<1>3. /\ r # <<>> => /\ Len(Tail(r)) = Len(r) - 1 /\ Len(r) \in Nat \ {0} /\ Head(r) = r[1]
                     /\ \A i \in 1..Len(Tail(r)) : Tail(r)[i] = r[i + 1]
      /\ Len(r) \in Nat
  BY <1>1, HasFacts
<1>4. /\ "PING" \in ServerFrame /\ "MSG" \in ServerFrame /\ "FIN" \in ServerFrame
      /\ JoinFrame \in Join /\ JoinFrame \in ServerFrame /\ (joined => JoinFrame = "RETURN")
  BY DEF ServerFrame, JoinFrame, Join
\* What is told beside OK.
<1>5. \A x \in {"FULL", "PONG", "FIN"} : Answer(s, <<x>>) => (Has(toClient'[s], "OK") => Has(r, "OK"))
  <2> SUFFICES ASSUME NEW x \in {"FULL", "PONG", "FIN"}, toClient'[s] = r \o <<x>>
               PROVE  Has(toClient'[s], "OK") => Has(r, "OK")
    BY DEF Answer
  <2>1. <<x>> \in Seq(ClientFrame) /\ Len(<<x>>) = 1 /\ <<x>>[1] = x /\ x # "OK"
    BY DEF ClientFrame
  <2>2. /\ Len(r \o <<x>>) = Len(r) + 1
        /\ \A i \in 1..(Len(r) + 1) : (r \o <<x>>)[i] = IF i <= Len(r) THEN r[i] ELSE <<x>>[i - Len(r)]
    <3> HIDE DEF r
    <3>1. r \in Seq(ClientFrame)
      BY <1>1 DEF r
    <3> QED BY <2>1, <3>1, ConcatProperties
  <2>3. ASSUME NEW i \in 1..Len(toClient'[s]), toClient'[s][i] = "OK" PROVE r[i] = "OK" /\ i \in 1..Len(r)
    <3> HIDE DEF r
    <3> QED BY <1>3, <2>1, <2>2, <2>3
  <2> QED BY <2>3 DEF Has
<1>6. joined' /\ s = ws' /\ sock'[s] = "open" => s = ws
  BY <1>1 DEF OneSocket, SocketStep, Kept, Made, Opened, Spoke, Heard, Shut, Served, Lost, Muted
\* Who believes now to be in the room has a connection that is in it, or believed so before.
<1>7. joined' /\ s = ws' /\ sock'[s] = "open" =>
         \/ joined /\ s = ws
         \/ sock[s] = "open" /\ conn[s] # "idle"
  <2>1. CASE joined
    BY <1>6, <2>1
  <2>2. CASE OkAtHand
    <3> SUFFICES ASSUME joined', s = ws', sock'[s] = "open"
                 PROVE  sock[s] = "open" /\ conn[s] # "idle"
      OBVIOUS
    <3>1. s = ws /\ sock[s] = "open" /\ r # <<>> /\ Head(r) = "OK"
      BY <1>6, <2>2 DEF OkAtHand, IsOpen
    <3>2. 1 \in 1..Len(r) /\ r[1] = "OK"
      BY <1>3, <3>1
    <3> QED BY <3>1, <3>2 DEF SpokenFor, Has
  <2>3. joined' => joined \/ OkAtHand
    BY JoinedStep
  <2> QED BY <2>1, <2>2, <2>3
<1>8. sock[s] = "open" /\ s \notin down' => s \notin down
  BY JoinedStep
<1>9. CASE Kept(s)
  BY <1>7, <1>8, <1>9 DEF Kept, SpokenFor
<1>10. CASE Made(s)
  BY <1>10 DEF Made, SpokenFor
<1>11. CASE Opened(s)
  <2>1. q = <<>> /\ r = <<>>
    BY <1>11 DEF Opened, LaneOK
  <2>2. Len(toServer'[s]) = 1 /\ toServer'[s][1] = JoinFrame
    BY <1>2, <1>4, <1>11, <2>1 DEF Opened
  <2>3. \A i \in 1..Len(toServer'[s]) : toServer'[s][i] # "MSG"
    BY <1>4, <2>2 DEF Join
  <2>4. ~Has(toClient'[s], "OK")
    BY <1>11, <2>1 DEF Opened, Has
  <2>5. joined' /\ s = ws' /\ sock'[s] = "open" => Has(toServer'[s], "RETURN")
    <3>1. 1 \in 1..Len(toServer'[s])
      BY <2>2
    <3>2. joined => toServer'[s][1] = "RETURN"
      BY <1>4, <2>2
    <3>3. sock[s] # "open"
      BY <1>11 DEF Opened
    <3> QED BY <1>7, <3>1, <3>2, <3>3 DEF Has
  <2> QED BY <2>3, <2>4, <2>5 DEF SpokenFor
<1>12. CASE Spoke(s)
  <2>1. PICK x \in {"PING", "MSG"} : toServer'[s] = Append(q, x) /\ (x = "MSG" => joined)
    BY <1>12 DEF Spoke
  <2>2. /\ conn[s] \in {"idle", "member"} /\ conn'[s] = conn[s] /\ sock[s] = "open"
        /\ s \notin down /\ s = ws /\ toClient'[s] = r
    BY <1>1, <1>12 DEF Spoke
  <2>3. x = "MSG" => conn[s] = "member" \/ Has(q, "RETURN")
    BY <2>1, <2>2 DEF SpokenFor
  <2>4. \A i \in 1..Len(q) : q[i] = "MSG" =>
           conn[s] = "member" \/ \E j \in 1..(i - 1) : q[j] = "RETURN"
    BY DEF SpokenFor
  <2>5. Has(q, "RETURN") => Has(toServer'[s], "RETURN")
    <3> HIDE DEF q
    <3> QED BY <1>2, <1>4, <2>1 DEF Has
  <2>6. ASSUME NEW i \in 1..Len(toServer'[s]), toServer'[s][i] = "MSG"
        PROVE  conn'[s] = "member" \/ \E j \in 1..(i - 1) : toServer'[s][j] = "RETURN"
    <3> HIDE DEF q
    <3>1. Len(toServer'[s]) = Len(q) + 1 /\ toServer'[s][Len(q) + 1] = x
          /\ \A j \in 1..Len(q) : toServer'[s][j] = q[j]
      BY <1>2, <1>4, <2>1
    <3>2. CASE i \in 1..Len(q)
      <4>1. conn[s] = "member" \/ \E j \in 1..(i - 1) : q[j] = "RETURN"
        BY <2>4, <2>6, <3>1, <3>2
      <4>2. \A j \in 1..(i - 1) : j \in 1..Len(q)
        BY <1>2, <3>2
      <4> QED BY <2>2, <3>1, <4>1, <4>2
    <3>3. CASE i = Len(q) + 1
      <4>1. conn[s] = "member" \/ Has(q, "RETURN")
        BY <2>3, <2>6, <3>1, <3>3
      <4> QED BY <1>2, <2>2, <3>1, <3>3, <4>1 DEF Has
    <3> QED BY <1>2, <3>1, <3>2, <3>3
  <2>7. conn[s] # "idle" \/ Has(q, "RETURN") \/ ~(joined' /\ s = ws')
    BY <1>7, <2>2, <1>12 DEF SpokenFor, Spoke
  <2> QED BY <2>2, <2>5, <2>6, <2>7 DEF SpokenFor
<1>13. CASE Heard(s)
  <2>1. r # <<>> /\ toClient'[s] = Tail(r) /\ toServer'[s] = q /\ conn'[s] = conn[s]
        /\ sock'[s] = sock[s]
    BY <1>13 DEF Heard
  <2>2. Has(Tail(r), "OK") => Has(r, "OK")
    <3> HIDE DEF r
    <3>1. \A i \in 1..Len(Tail(r)) : i + 1 \in 1..Len(r)
      BY <1>3, <2>1
    <3> QED BY <1>3, <2>1, <3>1 DEF Has
  <2> QED BY <1>7, <1>8, <2>1, <2>2 DEF SpokenFor
<1>14. CASE Shut(s)
  <2>1. \A i \in 1..Len(q) : q[i] = "MSG" =>
           conn[s] = "member" \/ \E j \in 1..(i - 1) : q[j] = "RETURN"
    BY DEF SpokenFor
  <2>2. \A i \in 1..Len(toServer'[s]) : toServer'[s][i] = "MSG" =>
           conn[s] = "member" \/ \E j \in 1..(i - 1) : toServer'[s][j] = "RETURN"
    <3>1. CASE toServer'[s] = q
      BY <2>1, <3>1
    <3>2. CASE toServer'[s] = Append(q, "FIN")
      <4> HIDE DEF q
      <4>1. ASSUME NEW i \in 1..Len(toServer'[s]), toServer'[s][i] = "MSG"
            PROVE  /\ i \in 1..Len(q) /\ q[i] = "MSG"
                   /\ \A j \in 1..(i - 1) : toServer'[s][j] = q[j]
        BY <1>2, <1>4, <3>2, <4>1
      <4> QED BY <2>1, <4>1
    <3> QED BY <1>14, <3>1, <3>2 DEF Shut
  <2>3. ~Has(toClient'[s], "OK") /\ conn'[s] = conn[s] /\ sock'[s] # "open"
    BY <1>2, <1>14 DEF Shut, Has
  <2> QED BY <2>2, <2>3 DEF SpokenFor
<1>15. CASE Served(s)
  <2>1. /\ q # <<>> /\ toServer'[s] = Tail(q) /\ sock'[s] = sock[s]
        /\ conn[s] \in {"idle", "member"} /\ Len(q) \in Nat \ {0} /\ Head(q) = q[1]
    BY <1>1, <1>2, <1>15 DEF Served, LaneOK
  \* What the frame makes of the connection.
  <2>2. /\ conn[s] = "member" => conn'[s] = "member" \/ q[1] = "FIN"
        /\ q[1] = "RETURN" => conn'[s] = "member"
        /\ q[1] = "FIN" => conn'[s] = "none"
    BY <2>1, <1>15 DEF Served, Join
  <2>3. Has(toClient'[s], "OK") => Has(r, "OK") \/ conn'[s] = "member"
    <3>1. \A x \in {"FULL", "PONG"} : Answer(s, <<x>>) => (Has(toClient'[s], "OK") => Has(r, "OK"))
      BY <1>5
    <3> QED BY <1>15, <3>1 DEF Served
  <2>4. q[1] = "FIN" => Len(q) = 1
    <3>1. 1 \in 1..Len(q)
      BY <2>1
    <3> QED BY <3>1 DEF LaneOK
  <2>5. ASSUME NEW i \in 1..Len(toServer'[s]), toServer'[s][i] = "MSG"
        PROVE  conn'[s] = "member" \/ \E j \in 1..(i - 1) : toServer'[s][j] = "RETURN"
    <3>1. \A k \in 1..Len(q) : q[k] = "MSG" =>
             conn[s] = "member" \/ \E j \in 1..(k - 1) : q[j] = "RETURN"
      BY DEF SpokenFor
    <3> HIDE DEF q
    <3>2. Len(Tail(q)) = Len(q) - 1 /\ \A k \in 1..Len(Tail(q)) : Tail(q)[k] = q[k + 1]
      BY <1>2, <2>1
    <3>3. i \in 1..(Len(q) - 1) /\ i + 1 \in 1..Len(q) /\ q[i + 1] = "MSG" /\ q[1] # "FIN"
      BY <2>1, <2>4, <2>5, <3>2
    <3>4. CASE conn[s] = "member" \/ q[1] = "RETURN"
      BY <2>2, <3>3, <3>4
    <3>5. CASE \E j \in 1..i : q[j] = "RETURN" /\ j # 1
      <4>1. PICK j \in 1..i : q[j] = "RETURN" /\ j # 1
        BY <3>5
      <4>2. j - 1 \in 1..(i - 1) /\ j - 1 \in 1..(Len(q) - 1) /\ (j - 1) + 1 = j
        BY <2>1, <3>3, <4>1
      <4>3. Tail(q)[j - 1] = "RETURN"
        BY <3>2, <4>1, <4>2
      <4> QED BY <2>1, <4>2, <4>3
    <3>6. (i + 1) - 1 = i
      BY <3>3
    <3> QED BY <3>1, <3>3, <3>4, <3>5, <3>6
  <2>6. Has(q, "RETURN") => conn'[s] # "idle" \/ Has(toServer'[s], "RETURN")
    <3> SUFFICES ASSUME Has(q, "RETURN") PROVE conn'[s] # "idle" \/ Has(toServer'[s], "RETURN")
      OBVIOUS
    <3>1. PICK j \in 1..Len(q) : q[j] = "RETURN"
      BY DEF Has
    <3>2. CASE j = 1
      BY <2>2, <3>1, <3>2
    <3>3. CASE j # 1
      <4> HIDE DEF q
      <4>1. Len(Tail(q)) = Len(q) - 1 /\ \A k \in 1..Len(Tail(q)) : Tail(q)[k] = q[k + 1]
        BY <1>2, <2>1
      <4>2. j - 1 \in 1..Len(Tail(q)) /\ (j - 1) + 1 = j
        BY <2>1, <3>1, <3>3, <4>1
      <4>3. Tail(q)[j - 1] = "RETURN"
        BY <3>1, <4>1, <4>2
      <4> QED BY <2>1, <4>2, <4>3 DEF Has
    <3> QED BY <3>2, <3>3
  <2>7. conn[s] # "idle" => conn'[s] # "idle"
    BY <2>1, <2>2
  <2> QED BY <1>7, <1>8, <2>1, <2>3, <2>5, <2>6, <2>7 DEF SpokenFor
<1>16. CASE Lost(s)
  BY <1>2, <1>16 DEF Lost, SpokenFor
<1>17. CASE Muted(s)
  <2>1. ~Has(toClient'[s], "OK") /\ Len(toServer'[s]) = 0 /\ s \in down'
    BY <1>2, <1>17 DEF Muted, Has
  <2> QED BY <2>1 DEF SpokenFor
<1> QED BY <1>9, <1>10, <1>11, <1>12, <1>13, <1>14, <1>15, <1>16, <1>17 DEF SocketStep
-------------------------------------------------------------------------------
(* The invariants of a careful user *)

Lanes == \A s \in Socket : LaneOK(s)
AllSpokenFor == \A s \in Socket : SpokenFor(s)

\* What holds of the sockets, whatever the heartbeat does.
Tidy == TypeOK /\ OneSocket /\ NothingLeft /\ Lanes

LEMMA InitLanes == Init => Lanes /\ AllSpokenFor
<1> SUFFICES ASSUME Init, NEW s \in Socket PROVE LaneOK(s) /\ SpokenFor(s)
  BY DEF Lanes, AllSpokenFor
<1>1. /\ toServer[s] = <<>> /\ toClient[s] = <<>> /\ sock[s] = "closed" /\ conn[s] = "none"
      /\ Len(<<>>) = 0
  BY DEF Init
<1> QED BY <1>1 DEF LaneOK, SpokenFor, Has

LEMMA InitTidy == Init => Tidy
BY InitTypes, InitOneSocket, InitLanes DEF Tidy

LEMMA TidyStep ==
    ASSUME Careful, Tidy, [Next]_vars
    PROVE  Tidy' /\ \A s \in Socket : SocketStep(s)
<1>1. TypeOK' /\ OneSocket' /\ NothingLeft'
  BY NextTypes, OneSocketStep DEF Tidy
<1>2. ASSUME NEW s \in Socket PROVE SocketStep(s) /\ LaneOK(s)'
  <2>1. TypeOK /\ OneSocket /\ LaneOK(s)
    BY DEF Tidy, Lanes
  <2>2. sock[s] # "open" => toClient[s] = <<>>
    BY <2>1 DEF LaneOK
  <2>3. SocketStep(s)
    BY <2>1, <2>2, EachSocketSteps
  <2> QED BY <1>1, <2>1, <2>3, LaneStep
<1> QED BY <1>1, <1>2 DEF Tidy, Lanes

LEMMA AllSpokenForStep ==
    ASSUME Careful, Refused \subseteq {"LOGIN"}, Tidy, AllSpokenFor, [Next]_vars
    PROVE  AllSpokenFor'
<1>1. Tidy' /\ \A s \in Socket : SocketStep(s)
  BY TidyStep
<1>2. ASSUME NEW s \in Socket PROVE SpokenFor(s)'
  <2>1. /\ TypeOK /\ TypeOK' /\ OneSocket /\ OneSocket' /\ LaneOK(s) /\ SpokenFor(s)
        /\ SocketStep(s)
    BY <1>1 DEF Tidy, Lanes, AllSpokenFor
  <2> QED BY <2>1, SpokenStep
<1> QED BY <1>2 DEF AllSpokenFor

LEMMA SpokenForMeans == TypeOK /\ AllSpokenFor => SpeaksInRoom
<1> SUFFICES ASSUME TypeOK, AllSpokenFor, NEW s \in Socket,
                    toServer[s] # <<>>, Head(toServer[s]) = "MSG"
             PROVE  conn[s] = "member"
  BY DEF SpeaksInRoom
<1>1. toServer[s] \in Seq(ServerFrame)
  BY Types
<1>2. toServer[s][1] = "MSG" /\ Len(toServer[s]) \in Nat \ {0}
  BY <1>1, HasFacts
<1>3. 1 \in 1..Len(toServer[s])
  BY <1>2
<1>4. conn[s] = "member" \/ \E j \in 1..(1 - 1) : toServer[s][j] = "RETURN"
  BY <1>2, <1>3 DEF AllSpokenFor, SpokenFor
<1> QED BY <1>4
-------------------------------------------------------------------------------
(* The heartbeat *)

Healthy == IsOpen /\ ws \notin down

\* Something is under way that will break the silence.
Pending == \/ conn[ws] # "none" /\ Has(toServer[ws], "PING")
           \/ toClient[ws] # <<>>

\* The heartbeat of an open socket beats.  On a path that works the end of the connection
\* is under way if the server has dropped it, and silence has a reason: a page that was
\* frozen, or an answer still to come.  The first time the page is frozen no probe is
\* under way on such a path, so that the tick it finds due sends one.
Beats == /\ IsOpen => heartbeatTimer
         /\ Healthy /\ conn[ws] = "none" => Has(toClient[ws], "FIN")
         /\ Healthy => silence = 0 \/ due \/ Pending
         /\ Healthy /\ (freezes = 0 \/ frozen \/ due) => probed = 0
         /\ freezes = 0 => ~due /\ ~frozen

LEMMA InitBeats == Init => Beats
BY Types DEF Init, Beats, Healthy, IsOpen

LEMMA HealthyFacts ==
    ASSUME TypeOK, IsOpen
    PROVE  /\ ws \in Socket /\ sock[ws] = "open"
           /\ toServer[ws] \in Seq(ServerFrame) /\ toClient[ws] \in Seq(ClientFrame)
           /\ conn[ws] \in {"none", "idle", "member"}
BY Types DEF IsOpen

\* A tick that was not missed finds a working socket answered, and so not silent; one that
\* was missed finds no probe sent.
LEMMA TickOfHealthy ==
    ASSUME TypeOK, Beats, Healthy, due \/ Answered
    PROVE  \/ silence # SilenceLimit
           \/ due /\ probed = 0
<1>1. CASE due
  BY <1>1 DEF Beats
<1>2. CASE ~due
  <2>1. toServer[ws] = <<>> /\ toClient[ws] = <<>>
    BY <1>2 DEF Answered, Healthy, IsOpen
  <2>2. ~Has(toServer[ws], "PING")
    BY <2>1 DEF Has
  <2>3. silence = 0
    BY <1>2, <2>1, <2>2 DEF Beats, Pending
  <2> QED BY <2>3, Types
<1> QED BY <1>1, <1>2

\* The heartbeat does not give up a socket whose path works, page frozen once or not at all.
LEMMA TickSpares ==
    ASSUME TypeOK, Beats, HeartbeatTick, ws' # ws
    PROVE  ws \in down
<1>1. /\ IsOpen /\ ~hidden /\ silence = SilenceLimit /\ Suspect \in {"wait", "dead"}
      /\ due \/ Answered
  BY DEF HeartbeatTick, client
<1>2. probed # 0
  BY <1>1 DEF Suspect
<1> QED BY <1>1, <1>2, TickOfHealthy DEF Healthy

LEMMA BeatsStep ==
    ASSUME Careful, MaxFreezes <= 1, Tidy, Tidy', Beats, [Next]_vars
    PROVE  Beats'
<1>0. TypeOK /\ OneSocket /\ TypeOK' /\ \A s \in Socket : LaneOK(s)
  BY DEF Tidy, Lanes
<1>1. ASSUME ~IsOpen', freezes' = 0 => ~due' /\ ~frozen' PROVE Beats'
  BY <1>1 DEF Beats, Healthy
<1>2. ASSUME UNCHANGED <<ws, sock, down, beat, frozen, freezes>>,
             Healthy /\ conn'[ws] = "none" => Has(toClient'[ws], "FIN"),
             Healthy /\ Pending => Pending'
      PROVE  Beats'
  <2>1. IsOpen' = IsOpen /\ Healthy' = Healthy
    BY <1>2 DEF Healthy, IsOpen
  <2> QED BY <1>2, <2>1 DEF Beats, beat
<1>3. CASE Login \/ Reconnect
  <2>1. Connect /\ UNCHANGED page
    BY <1>3 DEF Login, Reconnect
  <2>2. ws' \in Socket /\ sock' = [sock EXCEPT ![ws'] = "connecting"] /\ due' = FALSE
    BY <1>0, <2>1, ConnectFacts
  <2>3. ~IsOpen'
    BY <1>0, <2>2, Types DEF IsOpen
  <2> QED BY <1>1, <2>1, <2>2, <2>3 DEF page, Beats
<1>4. CASE Leave
  <2>1. ws' = NoSocket /\ due' = FALSE /\ UNCHANGED page
    BY <1>4 DEF Leave
  <2>2. ~IsOpen'
    BY <2>1 DEF IsOpen
  <2> QED BY <1>1, <2>1, <2>2 DEF page, Beats
<1>5. CASE SendMessage
  <2>1. IsOpen /\ toServer' = Sent(ws, "MSG")
        /\ UNCHANGED <<client, beat, sock, conn, toClient, down, page>>
    BY <1>5 DEF SendMessage
  <2>2. ws \in Socket /\ toServer[ws] \in Seq(ServerFrame) /\ "MSG" \in ServerFrame
    BY <1>0, <2>1, HealthyFacts DEF ServerFrame
  <2>3. toServer'[ws] = toServer[ws] \/ toServer'[ws] = Append(toServer[ws], "MSG")
    BY <1>0, <2>1, <2>2, SentFacts
  <2>4. Has(toServer[ws], "PING") => Has(toServer'[ws], "PING")
    <3> DEFINE q == toServer[ws]
    <3>1. /\ Len(Append(q, "MSG")) = Len(q) + 1 /\ Len(q) \in Nat
          /\ \A i \in 1..Len(q) : Append(q, "MSG")[i] = q[i]
      BY <2>2, HasFacts
    <3>2. toServer'[ws] = q \/ toServer'[ws] = Append(q, "MSG")
      BY <2>3
    <3> HIDE DEF q
    <3>3. Has(q, "PING") => Has(toServer'[ws], "PING")
      BY <3>1, <3>2 DEF Has
    <3> QED BY <3>3 DEF q
  <2>5. ws' = ws /\ conn' = conn /\ toClient' = toClient
    BY <2>1 DEF client
  <2>6. Pending => Pending'
    BY <2>4, <2>5 DEF Pending
  <2> QED BY <1>2, <2>1, <2>5, <2>6 DEF client, page, Beats
<1>6. ASSUME NEW s \in Socket, OnOpen(s) PROVE Beats'
  <2>1. sock[s] = "connecting" /\ conn' = [conn EXCEPT ![s] = "idle"]
        /\ UNCHANGED <<ws, due, page>>
    BY <1>6 DEF OnOpen
  <2>2. ws = s
    BY <1>0, <2>1 DEF OneSocket
  <2>3. heartbeatTimer' = TRUE /\ silence' = 0 /\ probed' = 0 /\ conn'[ws'] = "idle"
    BY <1>0, <1>6, <2>1, <2>2, Types DEF OnOpen, NoSocket
  <2>4. freezes' = 0 => ~due' /\ ~frozen'
    BY <2>1 DEF Beats, page
  <2> QED BY <2>3, <2>4 DEF Beats
<1>7. ASSUME NEW s \in Socket, OnMessage(s) PROVE Beats'
  <2>1. /\ sock[s] = "open" /\ toClient[s] # <<>> /\ Head(toClient[s]) # "FIN"
        /\ toClient' = [toClient EXCEPT ![s] = Tail(toClient[s])]
        /\ silence' = 0
        /\ UNCHANGED <<ws, heartbeatTimer, probed, due, sock, conn, down, page>>
    BY <1>7 DEF OnMessage
  <2>2. ws = s /\ toClient[s] \in Seq(ClientFrame) /\ toClient'[s] = Tail(toClient[s])
    BY <1>0, <2>1, Types DEF OneSocket
  <2>3. Has(toClient[s], "FIN") => Has(toClient'[s], "FIN")
    <3> DEFINE r == toClient[s]
    <3>1. /\ Len(Tail(r)) = Len(r) - 1 /\ Len(r) \in Nat \ {0} /\ r[1] # "FIN"
          /\ \A i \in 1..Len(Tail(r)) : Tail(r)[i] = r[i + 1]
      BY <2>1, <2>2, HasFacts
    <3> SUFFICES ASSUME Has(r, "FIN") PROVE Has(Tail(r), "FIN")
      BY <2>2
    <3>2. PICK i \in 1..Len(r) : r[i] = "FIN"
      BY DEF Has
    <3> HIDE DEF r
    <3>3. i # 1 /\ i - 1 \in 1..Len(Tail(r)) /\ (i - 1) + 1 = i
      BY <3>1, <3>2
    <3> QED BY <3>1, <3>2, <3>3 DEF Has
  <2>4. IsOpen' = IsOpen /\ Healthy' = Healthy
    BY <2>1 DEF Healthy, IsOpen
  <2> QED BY <2>1, <2>2, <2>3, <2>4 DEF Beats, page
<1>8. ASSUME NEW s \in Socket, sock[s] # "closed", sock' = [sock EXCEPT ![s] = "closed"],
             due' => due, UNCHANGED <<ws, page>>
      PROVE  Beats'
  <2>1. ws = s
    BY <1>0, <1>8 DEF OneSocket
  <2>2. ~IsOpen'
    BY <1>0, <1>8, <2>1, Types DEF IsOpen
  <2> QED BY <1>1, <1>8, <2>2 DEF Beats, page
<1>9. ASSUME NEW s \in Socket, OnClose(s) PROVE Beats'
  BY <1>8, <1>9 DEF OnClose
<1>10. CASE HeartbeatTick
  <2>1. /\ heartbeatTimer /\ ~frozen /\ (due \/ Answered) /\ due' = FALSE /\ UNCHANGED page
    BY <1>10 DEF HeartbeatTick
  <2>2. freezes' = 0 => ~due' /\ ~frozen'
    BY <2>1 DEF page
  <2>3. CASE ~IsOpen /\ UNCHANGED <<client, network>>
    BY <1>1, <2>2, <2>3 DEF IsOpen, client, network
  <2>4. CASE ws' = NoSocket
    BY <1>1, <2>2, <2>4 DEF IsOpen
  <2>5. CASE /\ IsOpen
             /\ probed' = IF ~hidden /\ silence = SilenceLimit THEN probed + 1 ELSE 0
             /\ toServer' = Sent(ws, "PING")
             /\ UNCHANGED <<client, heartbeatTimer, sock, conn, toClient, down>>
    <3>1. /\ ws \in Socket /\ sock[ws] = "open" /\ toServer[ws] \in Seq(ServerFrame)
          /\ "PING" \in ServerFrame /\ UNCHANGED <<ws, conn, toClient, sock, down>>
      BY <1>0, <2>5, HealthyFacts DEF ServerFrame, client
    <3>2. IsOpen' = IsOpen /\ Healthy' = Healthy
      BY <3>1 DEF Healthy, IsOpen
    <3>3. Healthy => Pending'
      <4> SUFFICES ASSUME Healthy PROVE Pending'
        OBVIOUS
      <4>1. CASE conn[ws] = "none"
        <5>1. Has(toClient[ws], "FIN")
          BY <4>1 DEF Beats
        <5>2. toClient[ws] # <<>>
          BY <5>1, <1>0, <2>5, HealthyFacts, HasFacts DEF Has
        <5> QED BY <3>1, <5>2 DEF Pending
      <4>2. CASE conn[ws] # "none"
        <5>1. toServer'[ws] = Append(toServer[ws], "PING")
          BY <1>0, <2>5, <3>1, <4>2, SentFacts DEF Healthy
        <5>2. /\ Len(toServer'[ws]) = Len(toServer[ws]) + 1 /\ Len(toServer[ws]) \in Nat
              /\ toServer'[ws][Len(toServer[ws]) + 1] = "PING"
          BY <3>1, <5>1, HasFacts
        <5>3. Has(toServer'[ws], "PING")
          BY <5>2 DEF Has
        <5> QED BY <3>1, <4>2, <5>3 DEF Pending
      <4> QED BY <4>1, <4>2
    <3>4. Healthy' /\ freezes' = 0 => probed' = 0
      <4> SUFFICES ASSUME Healthy, freezes = 0 PROVE probed' = 0
        BY <2>1, <3>2 DEF page
      <4>1. ~due
        BY DEF Beats
      <4>2. silence # SilenceLimit
        BY <1>0, <2>1, <4>1, TickOfHealthy
      <4> QED BY <2>5, <4>2
    <3>5. Healthy /\ conn[ws] = "none" => Has(toClient[ws], "FIN")
      BY DEF Beats
    <3>6. heartbeatTimer'
      BY <2>1, <2>5
    <3> QED BY <2>1, <2>2, <3>1, <3>2, <3>3, <3>4, <3>5, <3>6 DEF Beats, page
  <2> QED BY <1>10, <2>3, <2>4, <2>5 DEF HeartbeatTick
<1>11. ASSUME NEW s \in Socket, ServerTakes(s) PROVE Beats'
  <2>1. /\ toServer[s] # <<>> /\ toServer' = [toServer EXCEPT ![s] = Tail(toServer[s])]
        /\ UNCHANGED <<client, beat, sock, down, page>>
    BY <1>11 DEF ServerTakes
  <2>2. UNCHANGED <<ws, sock, down, beat, frozen, freezes>>
    BY <2>1 DEF client, page
  <2>3. CASE s # ws
    <3>1. IsOpen => /\ ws \in Socket /\ conn'[ws] = conn[ws] /\ toClient'[ws] = toClient[ws]
                    /\ toServer'[ws] = toServer[ws]
      <4>1. \A fs : Told(s, fs)[ws] = toClient[ws] \/ ws \notin Socket
        BY <1>0, <2>3, ToldFacts
      <4> QED BY <1>0, <1>11, <2>3, <4>1, HealthyFacts, Types DEF ServerTakes
    <3> QED BY <1>2, <2>2, <3>1 DEF Healthy, Beats, Pending
  <2>4. CASE s = ws /\ ~Healthy
    BY <1>2, <2>2, <2>4
  <2>5. CASE s = ws /\ Healthy
    <3> DEFINE q == toServer[s]
               r == toClient[s]
               frame == Head(q)
    <3>1. /\ sock[s] = "open" /\ s \notin down /\ q \in Seq(ServerFrame) /\ r \in Seq(ClientFrame)
          /\ conn[s] # "none"
      BY <1>0, <2>1, <2>5, HealthyFacts DEF Healthy, LaneOK
    <3>2. /\ Len(Tail(q)) = Len(q) - 1 /\ Len(q) \in Nat \ {0} /\ frame = q[1]
          /\ \A i \in 1..Len(Tail(q)) : Tail(q)[i] = q[i + 1]
      BY <2>1, <3>1, HasFacts
    <3>3. frame # "FIN"
      <4>1. 1 \in 1..Len(q)
        BY <3>2
      <4>2. \A i \in 1..Len(q) : q[i] = "FIN" => sock[s] = "closed"
        BY <1>0 DEF LaneOK
      <4> QED BY <3>1, <3>2, <4>1, <4>2
    <3>4. conn'[s] # "none"
      BY <1>0, <1>11, <3>1, <3>3, Types DEF ServerTakes
    <3>5. /\ r # <<>> => toClient'[s] # <<>>
          /\ frame = "PING" => toClient'[s] # <<>>
      <4>1. \A fs \in Seq(ClientFrame) : /\ r \o fs \in Seq(ClientFrame)
                                         /\ Len(r \o fs) = Len(r) + Len(fs)
        BY <3>1, ConcatProperties
      <4>2. /\ <<"OK", "MEMBERS">> \in Seq(ClientFrame) /\ <<"FULL">> \in Seq(ClientFrame)
            /\ <<"PONG">> \in Seq(ClientFrame) /\ Len(<<"OK", "MEMBERS">>) = 2
            /\ Len(<<"FULL">>) = 1 /\ Len(<<"PONG">>) = 1 /\ Len(r) \in Nat /\ Len(<<>>) = 0
        BY <3>1 DEF ClientFrame
      <4>3. \A fs : Told(s, fs)[s] = r \o fs
        BY <1>0, <3>1, ToldFacts
      <4>4. /\ r \o <<"OK", "MEMBERS">> # <<>> /\ r \o <<"FULL">> # <<>> /\ r \o <<"PONG">> # <<>>
        <5> HIDE DEF r
        <5>1. /\ Len(r \o <<"OK", "MEMBERS">>) = Len(r) + 2
              /\ Len(r \o <<"FULL">>) = Len(r) + 1 /\ Len(r \o <<"PONG">>) = Len(r) + 1
          BY <4>1, <4>2
        <5> QED BY <4>2, <5>1
      <4>5. \/ UNCHANGED toClient /\ frame # "PING"
            \/ toClient' = Told(s, <<"OK", "MEMBERS">>) \/ toClient' = Told(s, <<"FULL">>)
            \/ toClient' = Told(s, <<"PONG">>)
        <5>1. "PING" \notin Join /\ "PING" # "MSG" /\ "PING" # "FIN"
          BY DEF Join
        <5> QED BY <1>11, <5>1 DEF ServerTakes
      <4> QED BY <4>3, <4>4, <4>5
    <3>6. Has(q, "PING") /\ frame # "PING" => Has(toServer'[s], "PING")
      <4>1. toServer'[s] = Tail(q)
        BY <1>0, <2>1, Types
      <4> SUFFICES ASSUME Has(q, "PING"), q[1] # "PING" PROVE Has(Tail(q), "PING")
        BY <3>2, <4>1
      <4>2. PICK i \in 1..Len(q) : q[i] = "PING"
        BY DEF Has
      <4> HIDE DEF q
      <4>3. i # 1 /\ i - 1 \in 1..Len(Tail(q)) /\ (i - 1) + 1 = i
        BY <3>2, <4>2
      <4> QED BY <3>2, <4>2, <4>3 DEF Has
    <3>7. Pending => Pending'
      BY <2>2, <2>5, <3>4, <3>5, <3>6 DEF Pending
    <3> QED BY <1>2, <2>2, <2>5, <3>4, <3>7
  <2> QED BY <2>3, <2>4, <2>5
<1>12. ASSUME NEW s \in Socket, Dropped(s), UNCHANGED <<frozen, freezes>> PROVE Beats'
  <2>1. /\ conn' = [conn EXCEPT ![s] = "none"] /\ toServer' = [toServer EXCEPT ![s] = <<>>]
        /\ toClient' = Told(s, <<"FIN">>)
        /\ UNCHANGED <<ws, sock, down, beat, frozen, freezes>>
    BY <1>12 DEF Dropped, client
  <2>2. CASE s # ws
    <3>1. IsOpen => /\ ws \in Socket /\ conn'[ws] = conn[ws] /\ toClient'[ws] = toClient[ws]
                    /\ toServer'[ws] = toServer[ws]
      BY <1>0, <2>1, <2>2, ToldFacts, HealthyFacts, Types
    <3> QED BY <1>2, <2>1, <3>1 DEF Healthy, Beats, Pending
  <2>3. CASE s = ws /\ ~Healthy
    BY <1>2, <2>1, <2>3
  <2>4. CASE s = ws /\ Healthy
    <3> DEFINE r == toClient[s]
    <3>1. sock[s] = "open" /\ s \notin down /\ r \in Seq(ClientFrame) /\ <<"FIN">> \in Seq(ClientFrame)
          /\ Len(<<"FIN">>) = 1 /\ <<"FIN">>[1] = "FIN" /\ Len(<<>>) = 0 /\ Len(r) \in Nat
      BY <1>0, <2>4, HealthyFacts DEF Healthy, ClientFrame
    <3>2. toClient'[s] = r \o <<"FIN">>
      BY <1>0, <2>1, <3>1, ToldFacts
    <3>3. Len(toClient'[s]) = Len(r) + 1 /\ toClient'[s][Len(r) + 1] = "FIN"
      <4> HIDE DEF r
      <4>1. /\ Len(r \o <<"FIN">>) = Len(r) + Len(<<"FIN">>)
            /\ \A i \in 1..(Len(r) + Len(<<"FIN">>)) :
                  (r \o <<"FIN">>)[i] = IF i <= Len(r) THEN r[i] ELSE <<"FIN">>[i - Len(r)]
        BY <3>1, ConcatProperties
      <4>2. /\ Len(r) + 1 \in 1..(Len(r) + Len(<<"FIN">>)) /\ (Len(r) + 1) - Len(r) = 1
            /\ ~(Len(r) + 1 <= Len(r))
        BY <3>1
      <4>3. (r \o <<"FIN">>)[Len(r) + 1] = "FIN"
        BY <3>1, <4>1, <4>2
      <4> QED BY <3>1, <3>2, <4>1, <4>3
    <3>4. Has(toClient'[s], "FIN") /\ toClient'[s] # <<>>
      <4> HIDE DEF r
      <4> QED BY <3>1, <3>3 DEF Has
    <3> QED BY <1>2, <2>1, <2>4, <3>4 DEF Pending
  <2> QED BY <2>2, <2>3, <2>4
<1>13. ASSUME NEW s \in Socket, ServerTimeout(s) PROVE Beats'
  BY <1>12, <1>13 DEF ServerTimeout, Dropped, page
<1>14. ASSUME NEW s \in Socket, Break(s) PROVE Beats'
  <2>1. CASE Dropped(s)
    BY <1>12, <2>1 DEF Dropped, page
  <2>2. CASE /\ sock[s] = "open" /\ down' = down \cup {s}
             /\ UNCHANGED <<client, beat, sock, page>>
    <3>1. ws = s /\ ws' = ws
      BY <1>0, <2>2 DEF OneSocket, client
    <3>2. ~Healthy'
      BY <2>2, <3>1 DEF Healthy
    <3>3. IsOpen' = IsOpen
      BY <2>2, <3>1 DEF IsOpen
    <3> QED BY <2>2, <3>2, <3>3 DEF Beats, beat, page
  <2>3. CASE /\ sock[s] = "connecting" /\ sock' = [sock EXCEPT ![s] = "closed"]
             /\ due' = (due /\ heartbeatTimer') /\ UNCHANGED <<ws, page>>
    BY <1>8, <2>3
  <2> QED BY <1>14, <2>1, <2>2, <2>3 DEF Break
<1>15. CASE Turn \/ UNCHANGED vars
  <2>1. UNCHANGED <<client, beat, network, frozen, freezes>>
    BY <1>15 DEF Turn, vars, page
  <2> QED BY <1>2, <2>1 DEF client, network, Beats, Pending
<1>16. CASE Freeze
  <2>1. /\ freezes < MaxFreezes /\ freezes' = freezes + 1 /\ UNCHANGED <<client, beat, network>>
    BY <1>16 DEF Freeze
  <2>2. freezes = 0 /\ freezes' = 1
    BY <1>0, <2>1, Types
  <2> QED BY <2>1, <2>2 DEF Beats, Healthy, IsOpen, Pending, client, beat, network
<1>17. CASE Thaw
  <2>1. /\ frozen /\ frozen' = FALSE /\ probed' = IF probed = 0 THEN 0 ELSE 2
        /\ due' = heartbeatTimer /\ UNCHANGED <<client, heartbeatTimer, network, freezes>>
    BY <1>17 DEF Thaw
  <2>2. freezes # 0
    BY <2>1 DEF Beats
  <2>3. IsOpen' = IsOpen /\ Healthy' = Healthy
    BY <2>1 DEF IsOpen, Healthy, client, network
  <2> QED BY <2>1, <2>2, <2>3 DEF Beats, Healthy, client, network
<1> QED BY <1>3, <1>4, <1>5, <1>6, <1>7, <1>9, <1>10, <1>11, <1>13, <1>14, <1>15, <1>16, <1>17
        DEF Next
-------------------------------------------------------------------------------
(* Theorems *)

\* Every variable of the page, of its sockets and of their connections keeps its type,
\* with any number of sockets and whatever the user does.
THEOREM TypeCorrect == Spec => []TypeOK
<1>1. Init => TypeOK
  BY InitTypes
<1>2. TypeOK /\ [Next]_vars => TypeOK'
  BY NextTypes
<1> QED BY <1>1, <1>2, PTL DEF Spec, Safety

LEMMA AlwaysTidy == Careful => (Spec => []Tidy)
<1> SUFFICES ASSUME Careful PROVE Spec => []Tidy
  OBVIOUS
<1>1. Init => Tidy
  BY InitTidy
<1>2. Tidy /\ [Next]_vars => Tidy'
  BY TidyStep
<1> QED BY <1>1, <1>2, PTL DEF Spec, Safety

\* If the user waits for an attempt to end before another, connect() never leaves behind
\* a socket that is open or opening beside the one in ws, whose handlers would act on the
\* page of its successor.
THEOREM OneLiveSocket == Careful => (Spec => []OneVoice)
<1> SUFFICES ASSUME Careful PROVE Spec => []OneVoice
  OBVIOUS
<1>1. Tidy => OneVoice
  BY OneSocketMeans DEF Tidy
<1>2. Spec => []Tidy
  BY AlwaysTidy
<1> QED BY <1>1, <1>2, PTL

\* After leave() of such a user nothing acts any more: no timer of reconnection or
\* heartbeat is set, no socket is open or opening, and nobody is shown.
THEOREM LeaveIsFinal == Careful => (Spec => []LeftIsLeft)
<1> SUFFICES ASSUME Careful PROVE Spec => []LeftIsLeft
  OBVIOUS
<1>1. Tidy => LeftIsLeft
  BY OneSocketMeans DEF Tidy
<1>2. Spec => []Tidy
  BY AlwaysTidy
<1> QED BY <1>1, <1>2, PTL

\* If in addition a room has place for those who come back (only a first JOIN finds it
\* full), a message that the page has sent reaches the server on a connection that is a
\* member of the room, however often the connection broke before.
THEOREM MessagesAreMembers ==
    Careful /\ Refused \subseteq {"LOGIN"} => (Spec => []SpeaksInRoom)
<1> SUFFICES ASSUME Careful, Refused \subseteq {"LOGIN"} PROVE Spec => []SpeaksInRoom
  OBVIOUS
<1>1. Init => AllSpokenFor
  BY InitLanes
<1>2. Tidy /\ AllSpokenFor /\ [Next]_vars => AllSpokenFor'
  BY AllSpokenForStep
<1>3. Tidy /\ AllSpokenFor => SpeaksInRoom
  BY SpokenForMeans DEF Tidy
<1>4. Spec => []Tidy
  BY AlwaysTidy
<1> QED BY <1>1, <1>2, <1>3, <1>4, PTL DEF Spec, Safety

\* The heartbeat of a page that is frozen at most once gives up only a socket whose path
\* is dead, however long the page was frozen and whatever was under way meanwhile.
THEOREM HealthySurvives == Careful /\ MaxFreezes <= 1 => (Spec => NoFalseDeath)
<1> SUFFICES ASSUME Careful, MaxFreezes <= 1 PROVE Spec => NoFalseDeath
  OBVIOUS
<1> DEFINE Spared == \A s \in Socket :
              (ws = s /\ ws' = NoSocket /\ sock[s] = "open" /\ wanted') => s \in down
<1>1. Init => Beats
  BY InitBeats
<1>2. Tidy /\ Tidy' /\ Beats /\ [Next]_vars => Beats'
  BY BeatsStep
<1>3. Tidy /\ Beats /\ [Next]_vars => [Spared]_vars
  <2> SUFFICES ASSUME Tidy, Beats, [Next]_vars, NEW s \in Socket,
                      ws = s, ws' = NoSocket, wanted'
               PROVE  s \in down
    OBVIOUS
  <2>1. TypeOK /\ ws' # ws
    BY Types DEF Tidy, NoSocket
  <2>2. CASE HeartbeatTick
    BY <2>1, <2>2, TickSpares
  <2>3. ~Connect
    BY <2>1, ConnectFacts, Types DEF NoSocket
  <2>4. CASE UNCHANGED ws
    BY <2>1, <2>4
  <2> QED BY <2>1, <2>2, <2>3, <2>4
          DEF Next, Login, Leave, SendMessage, OnOpen, OnMessage, OnClose, Reconnect,
              ServerTakes, ServerTimeout, Break, Dropped, Turn, Freeze, Thaw, vars, client
<1>4. Spec => []Tidy
  BY AlwaysTidy
<1>5. [][Spared]_vars => NoFalseDeath
  BY DEF NoFalseDeath
<1> HIDE DEF Spared
<1> QED BY <1>1, <1>2, <1>3, <1>4, <1>5, PTL DEF Spec, Safety

===============================================================================
