--------------------------------- MODULE Call ---------------------------------
(***************************************************************************)
(* A video call of two members of a room: useWebRTC.js at both ends, with   *)
(* the server relaying between them.  "a" is in the room and hears that "b" *)
(* has joined.  Cameras and microphones are switched on and off, tracks are *)
(* added, browsers negotiate, members leave.                               *)
(*                                                                         *)
(* The RTCPeerConnection is the browser's and modelled from how it is used: *)
(* an offer that meets one's own rolls it back; an answer is taken only by  *)
(* one who has offered; the lines of a description keep their order and kind *)
(* for good; operations pending when a connection is closed never end; who   *)
(* answers first takes the active part of the handshake.  A browser is done *)
(* with an offer before it takes the next frame of the same member.  ICE    *)
(* candidates are left out: they go by the same way, after the description  *)
(* they belong to.                                                         *)
(***************************************************************************)
EXTENDS Naturals, Sequences

CONSTANTS MaxSwitch,    \* bound: how often devices are switched
          MaxPC,        \* bound: connections made by a browser
          MaxAsked      \* bound: dialogs for the camera open at a time

ASSUME CallAssumption == /\ MaxSwitch \in Nat /\ MaxPC \in Nat \ {0}
                         /\ MaxAsked \in {1, 2}

Browser == {"a", "b"}
Other(x) == IF x = "a" THEN "b" ELSE "a"
Kind == {"video", "audio"}

\* The tracks of a browser, and the lines they are negotiated on: the first line of a
\* kind is for the first track of that kind at either end, the second for the second.
Track == {"cam", "cam2", "mic"}
TracksOf(k) == IF k = "audio" THEN {"mic"} ELSE {"cam", "cam2"}

VARIABLES inRoom,    \* is a member, and has not left
          wire,      \* frames on the way to each browser, from the server
          peer,      \* does `peers` have the other member?
          media,     \* its mediaState
          pc,        \* the connection of that entry, or NoPC
          made,      \* how many connections each browser has made
          live,      \* the live tracks in myStream, in their order
          on,        \* camOn and micOn
          opening,   \* how often getUserMedia is being asked for a kind
          switched,  \* history: how often devices were switched
          mishaps    \* history: have offers crossed, was a working connection cut?

vars == <<inRoom, wire, peer, media, pc, made, live, on, opening, switched, mishaps>>

Among(seq) == {seq[i] : i \in DOMAIN seq}
Lines == {q \in {<<>>} \cup [1 .. 1 -> Track] \cup [1 .. 2 -> Track] \cup [1 .. 3 -> Track] :
             \A i, j \in DOMAIN q : q[i] = q[j] => i = j}

NoPC == [id |-> 0, run |-> "none"]
NewPC(n) == [id     |-> n,
             sig    |-> "stable",   \* signalingState
             run    |-> "none",     \* what is under way: an offer, an answer
             tracks |-> <<>>,       \* tracks handed to addTrack
             lines  |-> <<>>,       \* negotiated lines
             local  |-> <<>>,       \* lines of the offer made last
             offers |-> {},         \* tracks it offers to send
             sent   |-> {},         \* tracks whose sending is negotiated
             recv   |-> {},         \* tracks that ontrack has brought
             remote |-> 0,          \* the other end, as its description named it
             role   |-> "none"]     \* part in the handshake
PC == [id : 1 .. MaxPC, sig : {"stable", "offered", "remote"},
       run : {"none", "offer", "accept", "accept new"}, tracks : Lines, lines : Lines,
       local : Lines, offers : SUBSET Track, sent : SUBSET Track, recv : SUBSET Track,
       remote : 0 .. MaxPC, role : {"none", "active", "passive"}]

Descr == [type : {"OFFER", "ANSWER"}, from : 1 .. MaxPC, lines : Lines, sends : SUBSET Track]
Frame == Descr \cup [type : {"MEDIA"}, kind : Kind, state : {"on", "off"}]
               \cup [type : {"JOIN", "LEAVE"}]

TypeOK == /\ inRoom \subseteq Browser
          /\ wire \in [Browser -> Seq(Frame)]
          /\ peer \in [Browser -> BOOLEAN]
          /\ media \in [Browser -> [Kind -> {"unknown", "on", "off"}]]
          /\ pc \in [Browser -> PC \cup {NoPC}]
          /\ made \in [Browser -> 0 .. MaxPC]
          /\ live \in [Browser -> Lines]
          /\ on \in [Browser -> [Kind -> BOOLEAN]]
          /\ opening \in [Browser -> [Kind -> 0 .. 2]]
          /\ switched \in 0 .. MaxSwitch
          /\ mishaps \subseteq {"crossing", "cut"}
          /\ \A x \in Browser : opening[x]["audio"] = 1 => "mic" \notin Among(live[x])
          /\ \A x \in Browser : pc[x] # NoPC => /\ peer[x]
                                                /\ pc[x].sent \subseteq Among(pc[x].tracks)
                                                /\ pc[x].recv \subseteq Among(pc[x].lines)

Unknown == [k \in Kind |-> "unknown"]

\* Only the members that were there before are told of the joining of "b".
Init == /\ inRoom = Browser
        /\ wire = [x \in Browser |-> IF x = "a" THEN <<[type |-> "JOIN"]>> ELSE <<>>]
        /\ peer = [x \in Browser |-> FALSE]
        /\ media = [x \in Browser |-> Unknown]
        /\ pc = [x \in Browser |-> NoPC]
        /\ made = [x \in Browser |-> 0]
        /\ live = [x \in Browser |-> <<>>]
        /\ on = [x \in Browser |-> [k \in Kind |-> FALSE]]
        /\ opening = [x \in Browser |-> [k \in Kind |-> 0]]
        /\ switched = 0
        /\ mishaps = {}

-------------------------------------------------------------------------------
(* sendCommand and what is sent *)

\* The server relays to a member of the room, frames of one sender in order.
Sent(x, frames) == IF Other(x) \in inRoom
                   THEN [wire EXCEPT ![Other(x)] = @ \o frames] ELSE wire

Media(k, v) == [type |-> "MEDIA", kind |-> k, state |-> IF v THEN "on" ELSE "off"]

\* notifyMediaState.
MediaState(x) == <<Media("video", on[x]["video"]), Media("audio", on[x]["audio"])>>

\* setTrackEnabled: everybody in peers is told.
SetTrackEnabled(x, k, v) ==
    /\ on' = [on EXCEPT ![x][k] = v]
    /\ wire' = IF peer[x] THEN Sent(x, <<Media(k, v)>>) ELSE wire

-------------------------------------------------------------------------------
(* RTCPeerConnection *)

\* What more has and old has not, in the order it has there.
New(old, more) ==
    CHOOSE q \in Lines : /\ Among(q) = Among(more) \ Among(old)
                         /\ \A i, j \in DOMAIN q : i < j =>
                               \E k, l \in DOMAIN more : k < l /\ more[k] = q[i] /\ more[l] = q[j]

\* addMyTracksToPC, addTrack.
AddTracks(p, tracks) == [p EXCEPT !.tracks = @ \o New(@, tracks)]

\* createOffer: the lines there are, then one for each track without a line.
CreateOffer(p) == [p EXCEPT !.run = "offer",
                            !.local = p.lines \o New(p.lines, p.tracks),
                            !.offers = Among(p.tracks)]

\* setRemoteDescription takes an offer whose lines go on from those there are.
Fits(p, d) == /\ Len(p.lines) <= Len(d.lines)
              /\ SubSeq(d.lines, 1, Len(p.lines)) = p.lines

\* Another end than before starts another handshake.
Part(p, d, part) == IF d.lines = <<>> THEN p.role
                    ELSE IF p.role = "none" \/ p.remote # d.from THEN part
                    ELSE p.role

\* setRemoteDescription of an offer; an offer of one's own is rolled back.
Remote(p, d, run) == [p EXCEPT !.sig = "remote", !.run = run,
                               !.lines = d.lines, !.recv = d.sends, !.offers = {},
                               !.role = Part(p, d, "active"), !.remote = d.from]

\* createAnswer and setLocalDescription: what has a line is sent.
Answered(p) == [p EXCEPT !.sig = "stable", !.run = "none",
                         !.sent = Among(p.tracks) \cap Among(p.lines)]

\* setRemoteDescription of an answer.
Accepted(p, d) == [p EXCEPT !.sig = "stable", !.lines = p.local, !.sent = p.offers,
                            !.recv = d.sends,
                            !.role = Part(p, d, "passive"), !.remote = d.from]

Description(p, type, lines, sends) ==
    [type |-> type, from |-> p.id, lines |-> lines, sends |-> sends]

\* closePeer: the entry goes, with what it says of the other's media.
ClosePeer(x) == /\ peer' = [peer EXCEPT ![x] = FALSE]
                /\ media' = [media EXCEPT ![x] = Unknown]
                /\ pc' = [pc EXCEPT ![x] = NoPC]

-------------------------------------------------------------------------------
(* Devices *)

\* Mutant of Asks: the microphone is asked for again while its dialog is open.
AsksAgain(x, k) == opening[x][k] < 2

\* ensureMicOn asks once at a time; toggleMedia("video") each time it is called.
Asks(x, k) == opening[x][k] < IF k = "audio" THEN 1 ELSE MaxAsked

\* toggleMedia, and setMicGain above zero: a device that is there is enabled, another
\* one is asked for.
SwitchOn(x, k) ==
    /\ x \in inRoom /\ ~on[x][k]
    /\ switched < MaxSwitch /\ switched' = switched + 1
    /\ IF TracksOf(k) \cap Among(live[x]) # {}
       THEN SetTrackEnabled(x, k, TRUE) /\ UNCHANGED opening
       ELSE /\ Asks(x, k)
            /\ opening' = [opening EXCEPT ![x][k] = @ + 1]
            /\ UNCHANGED <<on, wire>>
    /\ UNCHANGED <<inRoom, peer, media, pc, made, live, mishaps>>

\* The place of one more track among those of its kind, and the first of a kind.
NewTrack(x, k) == IF k = "audio" THEN "mic" ELSE IF "cam" \in Among(live[x]) THEN "cam2" ELSE "cam"
FirstTrack(k) == IF k = "audio" THEN "mic" ELSE "cam"

\* getUserMedia has a track: it goes into myStream, and the first of its kind there to
\* the peers' connections; a second camera is for those made later.
GotMedia(x, k) ==
    /\ opening[x][k] > 0
    /\ opening' = [opening EXCEPT ![x][k] = @ - 1]
    /\ live' = [live EXCEPT ![x] = Append(@, NewTrack(x, k))]
    /\ pc' = IF pc[x] = NoPC THEN pc ELSE [pc EXCEPT ![x] = AddTracks(@, <<FirstTrack(k)>>)]
    /\ SetTrackEnabled(x, k, TRUE)
    /\ UNCHANGED <<inRoom, peer, media, made, switched, mishaps>>

\* getUserMedia fails.
NoMedia(x, k) == /\ opening[x][k] > 0
                 /\ opening' = [opening EXCEPT ![x][k] = @ - 1]
                 /\ UNCHANGED <<inRoom, wire, peer, media, pc, made, live, on, switched, mishaps>>

\* toggleMedia of a camera that is on, and setMicGain to zero at any time, once there
\* is a stream: the track stays, disabled.
SwitchOff(x, k) ==
    /\ IF k = "video" THEN on[x][k] ELSE live[x] # <<>>
    /\ switched < MaxSwitch /\ switched' = switched + 1
    /\ SetTrackEnabled(x, k, FALSE)
    /\ UNCHANGED <<inRoom, peer, media, pc, made, live, opening, mishaps>>

\* leave and hangupAll, by one whom no permission dialog keeps waiting; the
\* server tells the other one.
Leave(x) ==
    /\ x \in inRoom /\ \A k \in Kind : opening[x][k] = 0
    /\ inRoom' = inRoom \ {x}
    /\ wire' = [Sent(x, <<[type |-> "LEAVE"]>>) EXCEPT ![x] = <<>>]
    /\ ClosePeer(x)
    /\ live' = [live EXCEPT ![x] = <<>>]
    /\ on' = [on EXCEPT ![x] = [k \in Kind |-> FALSE]]
    /\ UNCHANGED <<made, opening, switched, mishaps>>

-------------------------------------------------------------------------------
(* Frames *)

Idle(x) == pc[x].run \in {"none", "offer"}

\* The next frame of the other member, with nothing of it still being dealt with.
Next1(x, type) == /\ wire[x] # <<>> /\ Head(wire[x]).type = type
                  /\ Idle(x)
Taken(x) == [wire EXCEPT ![x] = Tail(@)]

\* JOIN, connectTo: an empty entry, what is on, and the offer begun.
TakeJoin(x) ==
    /\ Next1(x, "JOIN")
    /\ wire' = [Taken(x) EXCEPT ![Other(x)] =
                   IF Other(x) \in inRoom /\ ~peer[x] THEN @ \o MediaState(x) ELSE @]
    /\ IF peer[x] THEN UNCHANGED <<peer, pc, made>>
       ELSE /\ peer' = [peer EXCEPT ![x] = TRUE]
            /\ made' = [made EXCEPT ![x] = @ + 1]
            /\ pc' = [pc EXCEPT ![x] = CreateOffer(AddTracks(NewPC(made'[x]), live[x]))]
    /\ UNCHANGED <<inRoom, media, live, on, opening, switched, mishaps>>

\* handleMedia.
TakeMedia(x) ==
    /\ Next1(x, "MEDIA")
    /\ wire' = Taken(x)
    /\ peer' = [peer EXCEPT ![x] = TRUE]
    /\ media' = [media EXCEPT ![x][Head(wire[x]).kind] = Head(wire[x]).state]
    /\ UNCHANGED <<inRoom, pc, made, live, on, opening, switched, mishaps>>

\* Mutant of TakeLeave: an entry without a connection is not removed.
TakeLeaveKeepsEntry(x) ==
    /\ wire[x] # <<>> /\ Head(wire[x]).type = "LEAVE"
    /\ wire' = Taken(x)
    /\ peer' = [peer EXCEPT ![x] = @ /\ pc[x] = NoPC]
    /\ media' = [media EXCEPT ![x] = Unknown]
    /\ pc' = [pc EXCEPT ![x] = NoPC]
    /\ UNCHANGED <<inRoom, made, live, on, opening, switched, mishaps>>

\* LEAVE, removePeer.
TakeLeave(x) ==
    /\ wire[x] # <<>> /\ Head(wire[x]).type = "LEAVE"
    /\ wire' = Taken(x)
    /\ ClosePeer(x)
    /\ UNCHANGED <<inRoom, made, live, on, opening, switched, mishaps>>

\* An offer that meets one's own.
Crossing(x) == IF pc[x] # NoPC /\ pc[x].sig = "offered" THEN {"crossing"} ELSE {}

\* Mutant of TakeOffer: createPC does not keep what MEDIA has said before the offer.
TakeOfferForgetsMedia(x) ==
    /\ Next1(x, "OFFER")
    /\ wire' = Taken(x)
    /\ peer' = [peer EXCEPT ![x] = TRUE]
    /\ LET d == Head(wire[x])
       IN  IF pc[x] # NoPC /\ Fits(pc[x], d)
           THEN /\ pc' = [pc EXCEPT ![x] = Remote(@, d, "accept")]
                /\ UNCHANGED <<made, media>>
           ELSE /\ made[x] < MaxPC
                /\ made' = [made EXCEPT ![x] = @ + 1]
                /\ pc' = [pc EXCEPT ![x] = Remote(NewPC(made'[x]), d, "accept new")]
                /\ media' = [media EXCEPT ![x] = Unknown]
    /\ mishaps' = mishaps \cup Crossing(x)
    /\ UNCHANGED <<inRoom, live, on, opening, switched>>

\* handleOffer up to createAnswer.  A connection that cannot take the offer is
\* closed, entry and all, and one made that can.
TakeOffer(x) ==
    /\ Next1(x, "OFFER")
    /\ wire' = Taken(x)
    /\ peer' = [peer EXCEPT ![x] = TRUE]
    /\ LET d == Head(wire[x])
       IN  IF pc[x] # NoPC /\ Fits(pc[x], d)
           THEN /\ pc' = [pc EXCEPT ![x] = Remote(@, d, "accept")]
                /\ UNCHANGED <<made, media>>
           ELSE /\ made[x] < MaxPC
                /\ made' = [made EXCEPT ![x] = @ + 1]
                /\ pc' = [pc EXCEPT ![x] = Remote(NewPC(made'[x]), d, "accept new")]
                /\ media' = IF pc[x] = NoPC THEN media ELSE [media EXCEPT ![x] = Unknown]
    /\ mishaps' = mishaps \cup Crossing(x)
    /\ UNCHANGED <<inRoom, live, on, opening, switched>>

\* handleAnswer: an answer that cannot be taken is passed over.
HandleAnswer(x) ==
    /\ Next1(x, "ANSWER")
    /\ wire' = Taken(x)
    /\ LET d == Head(wire[x])
       IN  pc' = IF pc[x] # NoPC /\ pc[x].sig = "offered" /\ d.lines = pc[x].local
                 THEN [pc EXCEPT ![x] = Accepted(@, d)] ELSE pc
    /\ UNCHANGED <<inRoom, peer, media, made, live, on, opening, switched, mishaps>>

-------------------------------------------------------------------------------
(* The connection's own steps *)

\* The end of acceptOffer; a connection made for the offer gets the tracks only
\* now, and the other member is told what is on.
SendAnswer(x) ==
    /\ pc[x].run \in {"accept", "accept new"}
    /\ LET p == Answered(pc[x])
           new == pc[x].run = "accept new"
           answer == Description(p, "ANSWER", p.lines, p.sent)
       IN  /\ pc' = [pc EXCEPT ![x] = IF new THEN AddTracks(p, live[x]) ELSE p]
           /\ wire' = Sent(x, IF new THEN <<answer>> \o MediaState(x) ELSE <<answer>>)
    /\ UNCHANGED <<inRoom, peer, media, made, live, on, opening, switched, mishaps>>

\* onnegotiationneeded: a stable connection with a track the other end does not know of.
Negotiate(x) ==
    /\ pc[x] # NoPC /\ pc[x].sig = "stable" /\ pc[x].run = "none"
    /\ ~(Among(pc[x].tracks) \subseteq pc[x].sent)
    /\ pc' = [pc EXCEPT ![x] = CreateOffer(@)]
    /\ UNCHANGED <<inRoom, wire, peer, media, made, live, on, opening, switched, mishaps>>

\* setLocalDescription of the offer made, which is then sent.
SendOffer(x) ==
    /\ pc[x].run = "offer"
    /\ pc[x].sig = "stable"
    /\ pc' = [pc EXCEPT ![x].sig = "offered", ![x].run = "none"]
    /\ wire' = Sent(x, <<Description(pc[x], "OFFER", pc[x].local, pc[x].offers)>>)
    /\ UNCHANGED <<inRoom, peer, media, made, live, on, opening, switched, mishaps>>

\* The two connections mean each other and play different parts.
Linked == LET p == pc["a"]
              q == pc["b"]
          IN  /\ p # NoPC /\ q # NoPC
              /\ p.remote = q.id /\ q.remote = p.id
              /\ {p.role, q.role} = {"active", "passive"}

\* The transport finds that the other end is gone or does not play its part.
Lost(x) == LET p == pc[x]
               q == pc[Other(x)]
           IN  /\ p # NoPC /\ p.role # "none"
               /\ \/ q.id # p.remote
                  \/ q # NoPC /\ p.sig = "stable" /\ q.sig = "stable" /\ ~Linked

\* Mutant of ConnectionFails: every state but "connected" is taken for a failure.
ConnectionFailsAtOnce(x) ==
    /\ pc[x] # NoPC /\ pc[x].role # "none"
    /\ ClosePeer(x)
    /\ mishaps' = IF Linked THEN mishaps \cup {"cut"} ELSE mishaps
    /\ UNCHANGED <<inRoom, wire, made, live, on, opening, switched>>

\* onconnectionstatechange, closePeer: any transport may break down, even where both
\* ends are well.
ConnectionFails(x) ==
    /\ pc[x] # NoPC /\ pc[x].role # "none"
    /\ ClosePeer(x)
    /\ mishaps' = IF Lost(x) THEN mishaps ELSE mishaps \cup {"cut"}
    /\ UNCHANGED <<inRoom, wire, made, live, on, opening, switched>>

Step(x) == \/ TakeJoin(x) \/ TakeMedia(x) \/ TakeLeave(x) \/ TakeOffer(x) \/ HandleAnswer(x)
           \/ SendAnswer(x) \/ Negotiate(x) \/ SendOffer(x)
           \/ Lost(x) /\ ConnectionFails(x)

Next == \E x \in Browser : \/ Step(x) \/ ConnectionFails(x) \/ Leave(x)
                           \/ \E k \in Kind : \/ SwitchOn(x, k) \/ SwitchOff(x, k)
                                              \/ GotMedia(x, k) \/ NoMedia(x, k)

\* Frames arrive and browsers go on; users and their devices owe nothing.
Spec == Init /\ [][Next]_vars /\ \A x \in Browser : WF_vars(Step(x))

-------------------------------------------------------------------------------
(* Properties *)

\* x has nothing to take and nothing to say.
Quiet(x) == /\ wire[x] = <<>>
            /\ pc[x] # NoPC => /\ pc[x].sig = "stable" /\ pc[x].run = "none"
                               /\ Among(pc[x].tracks) \subseteq pc[x].sent

\* What two connections agree on: they mean each other, have the same lines, and one
\* sends what the other receives.
Agree(p, q) == /\ p # NoPC /\ q # NoPC
               /\ p.remote = q.id /\ q.remote = p.id
               /\ p.lines = q.lines
               /\ p.sent = q.recv /\ q.sent = p.recv
               /\ p.lines # <<>> => Linked

\* When two members have nothing left to say, their connections agree; none was closed
\* or replaced behind the other's back - unless offers have crossed or a working
\* connection was cut (useWebRTC.js:190, 311, 331).
CallAgrees ==
    inRoom = Browser /\ Quiet("a") /\ Quiet("b") /\ mishaps = {} => Agree(pc["a"], pc["b"])

\* Of a member that has left nothing is kept, although frames it sent before may
\* bring its entry back after the connection was found closed (useWebRTC.js:47, 190, 353).
NoGhost == \A x \in Browser :
    Other(x) \notin inRoom /\ wire[x] = <<>> => ~peer[x] /\ pc[x] = NoPC

\* hasLiveVideo, micOpen: what x is shown of the other member.  A track that no
\* working connection brings is muted; the microphone is shown as announced.
Shown(x, k) == IF k = "audio" THEN media[x][k] = "on"
               ELSE media[x][k] # "off" /\ Linked /\ TracksOf(k) \cap pc[x].recv # {}

\* In the end one is shown the other's devices that are on, and no other, whatever
\* the order of joining, dialogs, offers and switches (useWebRTC.js:56, 149, 303).
ShownAsIs(x, k) == Shown(x, k) <=> inRoom = Browser /\ on[Other(x)][k]
ViewsSettle == \A x \in Browser, k \in Kind : <>[](mishaps = {} => ShownAsIs(x, k))

\* "An occasional conflict of states can be ignored" (useWebRTC.js:338): what one is
\* shown settles also if offers have crossed, as long as no connection is cut.
ConflictsCanBeIgnored ==
    \A x \in Browser, k \in Kind : <>[]("cut" \notin mishaps => ShownAsIs(x, k))
===============================================================================
