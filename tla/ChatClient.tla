------------------------------ MODULE ChatClient ------------------------------
(***************************************************************************)
(* The browser's connection to the server: useChat.js.  The user logs in   *)
(* and leaves; a WebSocket opens, receives, closes, or goes silent; timers *)
(* ping the server, judge a silent socket dead and reconnect.  The handlers *)
(* of a socket stay on it when connect() puts another one in `ws`.         *)
(*                                                                         *)
(* Time is counted in heartbeat intervals (30 s).  A path that works        *)
(* carries a PING and its answer within one of them, so a tick waits for    *)
(* what is under way (Answered); a frozen page (background tab, sleeping    *)
(* machine) misses ticks and finds, on thawing, one tick due, before or     *)
(* after the frames that came in meanwhile.                                 *)
(***************************************************************************)
EXTENDS Naturals, Sequences, FiniteSets

CONSTANTS MaxSocket,     \* bound: WebSocket objects around at a time
          MaxFaults,     \* bound: connections broken, silenced or refused by the network
          MaxFreezes,    \* bound: times the page is frozen
          SilenceLimit,  \* kSilenceLimit, in heartbeat intervals
          Refused,       \* JOINs that may find the room full
          Careful        \* does the user wait for an attempt to end before another?

\* A JOIN frame, of one who logs in or of one who comes back.
Join == {"LOGIN", "RETURN"}

ASSUME ChatAssumption == /\ MaxSocket \in Nat \ {0}
                         /\ MaxFaults \in Nat /\ MaxFreezes \in Nat
                         /\ SilenceLimit \in Nat \ {0}
                         /\ Refused \subseteq Join /\ Careful \in BOOLEAN

Socket == 1 .. MaxSocket
NoSocket == 0            \* ws = null

VARIABLES ws, joined, connStatus, memberList, isLeaving,   \* useChat's own; memberList:
                                                           \* is anybody shown?
          reconnectTimer, heartbeatTimer,                  \* is the timer set?
          silence,       \* intervals since lastRecvAt
          probed,        \* 0: probedAt is 0; else intervals since it, plus one
          due,           \* a tick missed while the page was frozen
          sock,          \* readyState of each WebSocket
          conn,          \* its connection at the server
          toServer, toClient,  \* frames under way
          down,          \* sockets whose path is dead without anybody being told
          hidden, frozen,      \* document.hidden; the page does not run
          wanted,        \* history: the user has logged in and not left
          faults, freezes      \* history: how many there were

client  == <<ws, joined, connStatus, memberList, isLeaving, reconnectTimer>>
beat    == <<heartbeatTimer, silence, probed, due>>
network == <<sock, conn, toServer, toClient, down>>
page    == <<hidden, frozen, freezes>>
vars    == <<client, beat, network, page, wanted, faults>>

TypeOK == /\ ws \in Socket \cup {NoSocket}
          /\ connStatus \in {"connected", "reconnecting", "disconnected"}
          /\ {joined, memberList, isLeaving, reconnectTimer, heartbeatTimer,
              due, hidden, frozen, wanted} \subseteq BOOLEAN
          /\ heartbeatTimer => ws # NoSocket /\ ~isLeaving
          /\ silence \in 0 .. SilenceLimit
          /\ probed \in 0 .. 2
          /\ sock \in [Socket -> {"connecting", "open", "closed"}]
          /\ conn \in [Socket -> {"none", "idle", "member"}]
          /\ toServer \in [Socket -> Seq(Join \cup {"PING", "MSG", "FIN"})]
          /\ toClient \in [Socket -> Seq({"OK", "MEMBERS", "FULL", "PONG", "FIN"})]
          /\ down \subseteq Socket
          /\ faults \in 0 .. MaxFaults /\ freezes \in 0 .. MaxFreezes

Init == /\ ws = NoSocket /\ connStatus = "disconnected"
        /\ joined = FALSE /\ memberList = FALSE /\ isLeaving = FALSE
        /\ reconnectTimer = FALSE /\ heartbeatTimer = FALSE
        /\ silence = 0 /\ probed = 0 /\ due = FALSE
        /\ sock = [s \in Socket |-> "closed"]
        /\ conn = [s \in Socket |-> "none"]
        /\ toServer = [s \in Socket |-> <<>>]
        /\ toClient = [s \in Socket |-> <<>>]
        /\ down = {}
        /\ hidden = FALSE /\ frozen = FALSE /\ freezes = 0
        /\ wanted = FALSE /\ faults = 0

-------------------------------------------------------------------------------
(* What the client's functions do *)

Live == {s \in Socket : sock[s] # "closed"}
IsOpen == ws # NoSocket /\ sock[ws] = "open"

\* ws.send: what is sent into a dead path, or to a server that has dropped the
\* connection, is lost; on a closed socket it is discarded.
Sent(s, frame) == IF sock[s] = "open" /\ conn[s] # "none" /\ s \notin down
                  THEN [toServer EXCEPT ![s] = Append(@, frame)]
                  ELSE toServer

\* ws.close() by the client: no event of the socket is delivered any more, the
\* server is told if the path works.
CloseSocket(s) ==
    /\ sock' = [sock EXCEPT ![s] = "closed"]
    /\ toServer' = Sent(s, "FIN")
    /\ toClient' = [toClient EXCEPT ![s] = <<>>]
    /\ UNCHANGED <<conn, down>>

\* The objects that nothing refers to any more, at either end.
Unused == {s \in Socket \ {ws} : sock[s] = "closed" /\ conn[s] = "none"}

\* Mutant of Connect: a reconnection that was scheduled still takes place.
ConnectKeepsTimer ==
    /\ Unused # {}
    /\ ws' = CHOOSE s \in Unused : \A t \in Unused : s <= t
    /\ sock' = [sock EXCEPT ![ws'] = "connecting"]
    /\ down' = down \ {ws'}
    /\ heartbeatTimer' = FALSE /\ due' = FALSE
    /\ UNCHANGED <<conn, toServer, toClient, silence, probed, joined,
                   connStatus, memberList, isLeaving, reconnectTimer>>

\* connect: timers are cleared and a new socket takes the place in ws.  What
\* was there is neither closed nor relieved of its handlers.
Connect ==
    /\ Unused # {}
    /\ ws' = CHOOSE s \in Unused : \A t \in Unused : s <= t
    /\ sock' = [sock EXCEPT ![ws'] = "connecting"]
    /\ down' = down \ {ws'}
    /\ reconnectTimer' = FALSE
    /\ heartbeatTimer' = FALSE /\ due' = FALSE
    /\ UNCHANGED <<conn, toServer, toClient, silence, probed, joined,
                   connStatus, memberList, isLeaving>>

\* Mutant of HandleDisconnect: the heartbeat is not stopped.
HandleDisconnectStillBeats ==
    IF isLeaving
    THEN UNCHANGED <<connStatus, memberList, heartbeatTimer, reconnectTimer>>
    ELSE /\ connStatus' = "reconnecting"
         /\ memberList' = FALSE
         /\ reconnectTimer' = TRUE
         /\ UNCHANGED heartbeatTimer

\* handleDisconnect: nobody is shown, the calls and uploads end, the heartbeat
\* stops and a reconnection is scheduled, unless the user is leaving.
HandleDisconnect ==
    IF isLeaving
    THEN UNCHANGED <<connStatus, memberList, heartbeatTimer, reconnectTimer>>
    ELSE /\ connStatus' = "reconnecting"
         /\ memberList' = FALSE
         /\ heartbeatTimer' = FALSE
         /\ reconnectTimer' = TRUE

-------------------------------------------------------------------------------
(* The user *)

\* The join button of LoginPanel, which App shows until the server's OK.
Login == /\ ~joined /\ ~frozen
         /\ Careful => ~(ws \in Socket /\ sock[ws] # "closed")
         /\ Connect
         /\ wanted' = TRUE
         /\ UNCHANGED <<page, faults>>

\* Mutant of Leave: a reconnection that was scheduled still takes place.
LeaveKeepsTimer ==
    /\ joined /\ ~frozen
    /\ isLeaving' = TRUE /\ joined' = FALSE /\ memberList' = FALSE
    /\ connStatus' = "disconnected"
    /\ heartbeatTimer' = FALSE /\ due' = FALSE
    /\ ws' = NoSocket
    /\ IF ws = NoSocket THEN UNCHANGED network ELSE CloseSocket(ws)
    /\ wanted' = FALSE
    /\ UNCHANGED <<silence, probed, page, faults, reconnectTimer>>

\* leave.
Leave ==
    /\ joined /\ ~frozen
    /\ isLeaving' = TRUE /\ joined' = FALSE /\ memberList' = FALSE
    /\ connStatus' = "disconnected"
    /\ reconnectTimer' = FALSE /\ heartbeatTimer' = FALSE /\ due' = FALSE
    /\ ws' = NoSocket
    /\ IF ws = NoSocket THEN UNCHANGED network ELSE CloseSocket(ws)
    /\ wanted' = FALSE
    /\ UNCHANGED <<silence, probed, page, faults>>

\* sendMessage; one message under way is enough.
SendMessage == /\ joined /\ ~frozen /\ IsOpen
               /\ \A i \in DOMAIN toServer[ws] : toServer[ws][i] # "MSG"
               /\ toServer' = Sent(ws, "MSG")
               /\ UNCHANGED <<client, beat, sock, conn, toClient, down, page, wanted, faults>>

-------------------------------------------------------------------------------
(* The events of a socket and the timers *)

\* What onopen sends.
JoinFrame == IF joined THEN "RETURN" ELSE "LOGIN"

\* Mutant of OnOpen: JOIN is sent by a login, not by a reconnection.
OnOpenJoinsOnce(s) ==
    /\ ~frozen /\ sock[s] = "connecting"
    /\ sock' = [sock EXCEPT ![s] = "open"]
    /\ conn' = [conn EXCEPT ![s] = "idle"]
    /\ isLeaving' = FALSE
    /\ connStatus' = "connected"
    /\ toServer' = IF joined THEN toServer ELSE [toServer EXCEPT ![ws] = Append(@, JoinFrame)]
    /\ heartbeatTimer' = TRUE /\ silence' = 0 /\ probed' = 0
    /\ UNCHANGED <<ws, joined, memberList, reconnectTimer, toClient, down, due,
                   page, wanted, faults>>

\* Mutant of OnOpen: isLeaving stays set after a leave.
OnOpenStillLeaving(s) ==
    /\ ~frozen /\ sock[s] = "connecting"
    /\ sock' = [sock EXCEPT ![s] = "open"]
    /\ conn' = [conn EXCEPT ![s] = "idle"]
    /\ connStatus' = "connected"
    /\ toServer' = [toServer EXCEPT ![ws] = Append(@, JoinFrame)]
    /\ heartbeatTimer' = TRUE /\ silence' = 0 /\ probed' = 0
    /\ UNCHANGED <<ws, joined, memberList, isLeaving, reconnectTimer, toClient, down, due,
                   page, wanted, faults>>

\* ws.onopen: JOIN goes to the socket in ws, which need not be the one that
\* opened; if that one is missing or still connecting, send throws and the
\* heartbeat is not started.
OnOpen(s) ==
    /\ ~frozen /\ sock[s] = "connecting"
    /\ sock' = [sock EXCEPT ![s] = "open"]
    /\ conn' = [conn EXCEPT ![s] = "idle"]
    /\ isLeaving' = FALSE
    /\ connStatus' = "connected"
    /\ IF ws = NoSocket \/ (ws # s /\ sock[ws] = "connecting")
       THEN UNCHANGED <<toServer, heartbeatTimer, silence, probed>>
       ELSE /\ toServer' = IF ws = s THEN [toServer EXCEPT ![s] = Append(@, JoinFrame)]
                                     ELSE Sent(ws, JoinFrame)
            /\ heartbeatTimer' = TRUE
            /\ silence' = 0 /\ probed' = 0
    /\ UNCHANGED <<ws, joined, memberList, reconnectTimer, toClient, down, due,
                   page, wanted, faults>>

\* handleTextMessage, of the frames that the connection turns on.
OnText(frame) == /\ joined' = (joined \/ frame = "OK")
                 /\ memberList' = (memberList \/ frame = "MEMBERS")

\* ws.onmessage: any frame counts as a sign of life.
OnMessage(s) ==
    /\ ~frozen /\ sock[s] = "open"
    /\ toClient[s] # <<>>
    /\ LET frame == Head(toClient[s])
       IN  frame # "FIN" /\ OnText(frame)
    /\ toClient' = [toClient EXCEPT ![s] = Tail(@)]
    /\ silence' = 0
    /\ UNCHANGED <<ws, connStatus, isLeaving, reconnectTimer, heartbeatTimer, probed, due,
                   sock, conn, toServer, down, page, wanted, faults>>

\* ws.onclose: the server's end of the connection is gone, or the operating
\* system has found the path dead.
OnClose(s) ==
    /\ ~frozen /\ sock[s] = "open"
    /\ s \in down \/ (toClient[s] # <<>> /\ Head(toClient[s]) = "FIN")
    /\ sock' = [sock EXCEPT ![s] = "closed"]
    /\ toClient' = [toClient EXCEPT ![s] = <<>>]
    /\ HandleDisconnect
    /\ due' = (due /\ heartbeatTimer')
    /\ UNCHANGED <<ws, joined, isLeaving, silence, probed, conn, toServer, down,
                   page, wanted, faults>>

\* The reconnect timer fires, three seconds on.
Reconnect == /\ reconnectTimer /\ ~frozen
             /\ Connect
             /\ UNCHANGED <<page, wanted, faults>>

\* A working path has delivered what was sent on it by the time of a tick.
Answered == ws # NoSocket /\ ws \notin down => toServer[ws] = <<>> /\ toClient[ws] = <<>>

\* Mutant of Suspect: silence alone is enough, no probe is sent.
SuspectAtOnce == "dead"

\* What a visible page makes of a socket silent for too long: it is probed
\* first, and judged dead when the probe has had its grace of one interval (a
\* tick that comes a little early leaves it another one).
Suspect == CASE probed = 0 -> "probe"
             [] probed = 1 -> "wait"
             [] probed = 2 -> "dead"

\* heartbeatTick.  A socket given up is taken out of ws and closed before
\* handleDisconnect runs, so that it cannot come back.
HeartbeatTick ==
    /\ heartbeatTimer /\ ~frozen /\ (due \/ Answered)
    /\ due' = FALSE
    /\ silence' = IF silence < SilenceLimit THEN silence + 1 ELSE silence
    /\ LET silent == ~hidden /\ silence = SilenceLimit
       IN  \/ /\ ~IsOpen
              /\ UNCHANGED <<client, heartbeatTimer, probed, network>>
           \/ /\ IsOpen
              /\ ~(silent /\ Suspect = "dead")
              /\ probed' = IF silent THEN probed + 1 ELSE 0
              /\ toServer' = Sent(ws, "PING")
              /\ UNCHANGED <<client, heartbeatTimer, sock, conn, toClient, down>>
           \/ /\ IsOpen
              /\ silent /\ Suspect \in {"wait", "dead"}
              /\ ws' = NoSocket
              /\ CloseSocket(ws)
              /\ HandleDisconnect
              /\ UNCHANGED <<joined, isLeaving, probed>>
    /\ UNCHANGED <<page, wanted, faults>>

-------------------------------------------------------------------------------
(* The server, the network and the page *)

Told(s, frames) == IF s \in down \/ sock[s] # "open" THEN toClient
                   ELSE [toClient EXCEPT ![s] = @ \o frames]

\* The server takes the next frame of a connection: a JOIN makes it a member
\* unless it is one or the room is full, a PING is answered, a MSG goes to the
\* others, and with the end of the connection the cleanup runs.
ServerTakes(s) ==
    /\ toServer[s] # <<>>
    /\ toServer' = [toServer EXCEPT ![s] = Tail(@)]
    /\ LET frame == Head(toServer[s])
       IN  \/ /\ frame \in Join /\ conn[s] = "idle"
              /\ conn' = [conn EXCEPT ![s] = "member"]
              /\ toClient' = Told(s, <<"OK", "MEMBERS">>)
           \/ /\ frame \in Refused /\ conn[s] = "idle"
              /\ toClient' = Told(s, <<"FULL">>)
              /\ UNCHANGED conn
           \/ /\ frame \in Join /\ conn[s] # "idle"
              /\ UNCHANGED <<conn, toClient>>
           \/ /\ frame = "PING"
              /\ toClient' = Told(s, <<"PONG">>)
              /\ UNCHANGED conn
           \/ /\ frame = "MSG"
              /\ UNCHANGED <<conn, toClient>>
           \/ /\ frame = "FIN"
              /\ conn' = [conn EXCEPT ![s] = "none"]
              /\ UNCHANGED toClient
    /\ UNCHANGED <<client, beat, sock, down, page, wanted, faults>>

\* The server closes a connection, or loses it.
Dropped(s) == /\ conn' = [conn EXCEPT ![s] = "none"]
              /\ toServer' = [toServer EXCEPT ![s] = <<>>]
              /\ toClient' = Told(s, <<"FIN">>)
              /\ UNCHANGED <<client, beat, sock, down, page, wanted>>

\* The server's own heartbeat: a connection whose client does not ping it, or
\* cannot, is closed.
ServerTimeout(s) == /\ conn[s] # "none"
                    /\ toServer[s] = <<>>
                    /\ ~(s = ws /\ heartbeatTimer /\ ~frozen /\ s \notin down)
                    /\ Dropped(s)
                    /\ UNCHANGED faults

\* A connection breaks and both ends are told, or none, or it never opens.
Break(s) == /\ faults < MaxFaults
            /\ faults' = faults + 1
            /\ \/ conn[s] # "none" /\ sock[s] = "open" /\ s \notin down /\ Dropped(s)
               \/ /\ sock[s] = "open" /\ s \notin down
                  /\ down' = down \cup {s}
                  /\ toServer' = [toServer EXCEPT ![s] = <<>>]
                  /\ toClient' = [toClient EXCEPT ![s] = <<>>]
                  /\ UNCHANGED <<client, beat, sock, conn, page, wanted>>
               \/ /\ sock[s] = "connecting" /\ ~frozen
                  /\ sock' = [sock EXCEPT ![s] = "closed"]
                  /\ HandleDisconnect
                  /\ due' = (due /\ heartbeatTimer')
                  /\ UNCHANGED <<ws, joined, isLeaving, silence, probed, conn, toServer,
                                 toClient, down, page, wanted>>

\* The user turns to another tab, or back.
Turn == /\ hidden' = ~hidden
        /\ UNCHANGED <<client, beat, network, frozen, freezes, wanted, faults>>

Freeze == /\ ~frozen /\ freezes < MaxFreezes
          /\ frozen' = TRUE /\ freezes' = freezes + 1
          /\ UNCHANGED <<client, beat, network, hidden, wanted, faults>>

\* Long after, whatever was timed is overdue.
Thaw == /\ frozen
        /\ frozen' = FALSE
        /\ silence' = SilenceLimit
        /\ probed' = IF probed = 0 THEN 0 ELSE 2
        /\ due' = heartbeatTimer
        /\ UNCHANGED <<client, heartbeatTimer, network, hidden, freezes, wanted, faults>>

Next == \/ Login \/ Leave \/ SendMessage
        \/ \E s \in Socket : OnOpen(s) \/ OnMessage(s) \/ OnClose(s)
        \/ Reconnect \/ HeartbeatTick
        \/ \E s \in Socket : ServerTakes(s) \/ ServerTimeout(s) \/ Break(s)
        \/ Turn \/ Freeze \/ Thaw

\* The browser runs its handlers and timers, the page thaws, the server takes what
\* it is sent and times out who is silent.  The user and the network owe nothing.
Fairness == /\ \A s \in Socket : /\ WF_vars(OnOpen(s)) /\ WF_vars(OnMessage(s))
                                 /\ WF_vars(toClient[s] # <<>> /\ OnClose(s))
                                 /\ WF_vars(ServerTakes(s)) /\ WF_vars(ServerTimeout(s))
            /\ WF_vars(Reconnect) /\ WF_vars(HeartbeatTick) /\ WF_vars(Thaw)

Safety == Init /\ [][Next]_vars
Spec == Safety /\ Fairness

-------------------------------------------------------------------------------
(* Properties *)

\* Only the socket in ws can still say something: connect() leaves no other one
\* behind that would fill the page with frames of its own and, when it closes,
\* tear down the connection that replaced it (useChat.js:61, 98).
OneVoice == Live \subseteq {ws}

\* Once the user has left, nothing of the session is left that could act: no
\* timer that reconnects or pings, no socket, nobody shown (useChat.js:260).
LeftIsLeft == ~wanted => /\ ~joined /\ ~memberList
                         /\ ~reconnectTimer /\ ~heartbeatTimer
                         /\ Live = {}

\* A message shown to the user as sent reaches the server as one of a member,
\* also right after a reconnection: JOIN is always ahead of it (useChat.js:81, 254).
SpeaksInRoom == \A s \in Socket : (toServer[s] # <<>> /\ Head(toServer[s]) = "MSG")
                                  => conn[s] = "member"

\* The heartbeat gives up a socket only if its path is dead: a page that was
\* frozen past the limit finds its stamps overdue and its connection alive
\* (useChat.js:127).
NoFalseDeath == [][\A s \in Socket :
                     (ws = s /\ ws' = NoSocket /\ sock[s] = "open" /\ wanted') => s \in down]_vars

InRoom == IsOpen /\ conn[ws] = "member" /\ ws \notin down

\* Whatever happens to the connection of a user who is in a room, silence
\* included, the client brings the user back into it while the page is in
\* view (useChat.js:103, 125).
BackInRoom == <>[]~hidden => []<>(~joined \/ InRoom)
===============================================================================
