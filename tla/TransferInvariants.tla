-------------------------- MODULE TransferInvariants --------------------------
(***************************************************************************)
(* What the proofs about module Transfer are made of: the inductive        *)
(* invariants IInv (types), JInv (every file handed over is whole), Desks, *)
(* Flows and Flagged (no transfer stalls), in their parts, and the ways in *)
(* which a step may change what they are about.                            *)
(***************************************************************************)
EXTENDS Transfer

-------------------------------------------------------------------------------
(* What every table and queue holds *)

\* The tables of the manager and their indices.
Manager == ManagerTypeOK /\ IndexesAgree

\* A frame that carries a chunk carries one of the file's, and a browser holds none but
\* those.
GoodFrame    == {x \in Frame : x.kind = "DWDATA" => x.off < Size}
GoodDownload == [chunks : SUBSET (0..(Size - 1)), paused : BOOLEAN]

\* The state of the lanes, the queues and the requests.
ServerTypes ==
    /\ handling \in [Client -> Handling]
    /\ \A c \in Client : handling[c].step # "idle" => handling[c].file \in File
    /\ departed \subseteq {c \in Client : ~alive[c]}
    /\ toServer \in [Client -> Seq(Command)]
    /\ toClient \in [Client -> Seq(GoodFrame)]
    /\ requested \subseteq Chunk

\* The uploading side of the browsers.
UploadTypes ==
    /\ DOMAIN uploaded \subseteq File
    /\ uploaded \in [DOMAIN uploaded -> Content]
    /\ pendingFile \in [Client -> Content \cup {NoFile}]
    /\ uploadSessions = [c \in Client |-> uploadSessions[c]]
    /\ \A c \in Client : /\ DOMAIN uploadSessions[c] \subseteq File
                         /\ uploadSessions[c] \in [DOMAIN uploadSessions[c] -> Content]
    /\ cancelUpload \in [Client -> BOOLEAN]

\* The downloading side.
DownloadsGood ==
    /\ downloads = [c \in Client |-> downloads[c]]
    /\ \A c \in Client : /\ DOMAIN downloads[c] \subseteq File
                         /\ downloads[c] \in [DOMAIN downloads[c] -> GoodDownload]

DownloadTypes ==
    /\ fileSenders \in [Client -> SUBSET File]
    /\ DownloadsGood
    /\ asked \in 0..MaxDownload
    /\ \A s \in saved : s.file \in File /\ s.chunks \subseteq 0..(Size - 1)

\* The cleanup of a client came last on its lane.
LanesEnd == \A c \in departed : handling[c].step = "idle"

\* The inductive invariant that the theorems about types and the departed follow from.
IInv == /\ Manager /\ ServerTypes /\ UploadTypes /\ DownloadTypes
        /\ LanesEnd /\ GoneForGood

\* The DWERR frames about files of c.
Farewells(c) == {x \in GoodFrame : x.kind = "DWERR" /\ Owner[x.file] = c}

-------------------------------------------------------------------------------
(* Commands on their way *)

\* Commands of a client about file f, on their way in q.
IsStart(m, f) == m.kind = "DOWNLOAD" /\ m.file = f
IsStop(m, f)  == m.kind \in {"DWNPAUSE", "DWNCANCEL"} /\ m.file = f
IsAck(m, i)   == m.kind = "DWACK" /\ m.id = i

\* Whether a stop, or a start, of f is on its way.
StopIn(q, f) == \E n \in 1..Len(q) : IsStop(q[n], f)
StartIn(q, f) == \E n \in 1..Len(q) : IsStart(q[n], f)

\* A stop between any two starts, before every start, after every start.
Alternate(q, f) == \A l, n \in 1..Len(q) :
    l < n /\ IsStart(q[l], f) /\ IsStart(q[n], f) => \E m \in 1..Len(q) : l < m /\ m < n /\ IsStop(q[m], f)
Fenced(q, f) == \A n \in 1..Len(q) : IsStart(q[n], f) => \E m \in 1..Len(q) : m < n /\ IsStop(q[m], f)
Ended(q, f)  == \A n \in 1..Len(q) : IsStart(q[n], f) => \E m \in 1..Len(q) : n < m /\ IsStop(q[m], f)

\* A start that no stop follows is one from within kept, or from its end.
Resumes(q, f, kept) == \A n \in 1..Len(q) :
    IsStart(q[n], f) /\ ~(\E m \in 1..Len(q) : n < m /\ IsStop(q[m], f)) => 0..(q[n].off - 1) \subseteq kept

\* Chunks of session i acknowledged, and those of them that no stop comes before.
Acks(q, i) == {q[n].off : n \in {l \in 1..Len(q) : IsAck(q[l], i)}}
InTime(q, f, i) == {q[n].off : n \in {l \in 1..Len(q) : /\ IsAck(q[l], i)
                        /\ \A m \in 1..Len(q) : IsStop(q[m], f) => l < m}}

-------------------------------------------------------------------------------
(* Frames on their way *)

IsOf(x, kind, f) == x.kind = kind /\ x.file = f
IsData(x, i) == x.kind = "DWDATA" /\ x.id = i

\* Frames of a kind about f, and the chunks of session i among them.
In(w, kind, f) == \E n \in 1..Len(w) : IsOf(w[n], kind, f)
Sent(w, i) == {w[n].off : n \in {l \in 1..Len(w) : IsData(w[l], i)}}

\* No chunk of a session twice; DWSTART before the session's chunks, and behind an earlier
\* DWNDONE of the file; chunks under the name of their file.
Once(w, i) == \A m, n \in 1..Len(w) : m < n /\ IsData(w[m], i) /\ IsData(w[n], i) => w[m].off # w[n].off
DataLast(w, f, i) == \A m, n \in 1..Len(w) : IsOf(w[m], "DWSTART", f) /\ IsData(w[n], i) => m < n
DoneFirst(w, f) == \A m, n \in 1..Len(w) : IsOf(w[m], "DWSTART", f) /\ IsOf(w[n], "DWNDONE", f) => n < m
DataOf(w, i, f) == \A n \in 1..Len(w) : IsData(w[n], i) => w[n].file = f

-------------------------------------------------------------------------------
(* A client and a file *)

\* The chunks of session i asked of its uploader, or about to be.
Asks(c, i) == {x.off : x \in {y \in requested \cup handling[c].requests : y.id = i}}

\* The chunks of f that c keeps, and whether that is all of them.
Kept(c, f) == IF Holds(c, f) THEN downloads[c][f].chunks ELSE {}
Whole(c, f) == 0..(Size - 1) \subseteq Kept(c, f)

\* The file can no longer be had: its uploader closed, or it was withdrawn.
Gone(f) == ~alive[Owner[f]] \/ (f \in DOMAIN uploaded /\ f \notin registrations)

\* The sessions that bring f to c.
Ours(c, f) == {i \in DOMAIN sessions : sessions[i].file = f /\ sessions[i].downloader = c}

\* A transfer of f to c has been ended, or will be by what c has sent.
Settled(c, f) == Ended(toServer[c], f) /\ (handling[c].file = f => StopIn(toServer[c], f))

\* A download that the browser has ended or will: paused, or its DWNDONE on the way.
Over(c, f) == Holds(c, f) /\ (downloads[c][f].paused \/ In(toClient[c], "DWNDONE", f))

\* What holds of c and f whatever sessions there are: c starts f again only behind a stop of the
\* last start; a DWNDONE on its way to a browser that holds f finds it whole; an error means that
\* the file is gone; a start that no stop follows leaves out only chunks kept; one session at most.
Pair(c, f) ==
    /\ Alternate(toServer[c], f)
    /\ handling[c].file = f => Fenced(toServer[c], f)
    /\ Over(c, f) => Settled(c, f)
    /\ DoneFirst(toClient[c], f)
    /\ Holds(c, f) /\ In(toClient[c], "DWNDONE", f) => Whole(c, f)
    /\ In(toClient[c], "DWERR", f) => Gone(f)
    /\ Resumes(toServer[c], f, Kept(c, f)) \/ Gone(f)
    /\ handling[c].step = "found" /\ handling[c].file = f =>
          StopIn(toServer[c], f) \/ Gone(f) \/ 0..(handling[c].off - 1) \subseteq Kept(c, f)
    /\ \A i, j \in Ours(c, f) : i = j

\* Where the chunks of session i are: acknowledged (B), asked for, on the way to c, acknowledged by it.
Placed(c, i, B) == B \cup Asks(c, i) \cup Sent(toClient[c], i) \cup Acks(toServer[c], i)

\* Some chunk is nowhere and nobody will bring it: its turn has passed, or the uploader is gone.
\* Then the session never completes; it is doomed if the uploader is gone as well.
Lost(c, i, B) == \E k \in 0..(Size - 1) :
    k \notin Placed(c, i, B) /\ (k < sessions[i].next \/ ~alive[Uploader(i)])
Doomed(c, i, B) == ~alive[Uploader(i)] /\ Lost(c, i, B)

\* What a session counts: chunks on their way or pending come before next, a chunk is asked for
\* only until it is received, and received is at most the chunks acknowledged and those pending.
Counts(c, i, B) ==
    /\ sessions[i].next <= Size
    /\ Placed(c, i, B) \cup sessions[i].pending \subseteq 0..(sessions[i].next - 1)
    /\ B \cap sessions[i].pending = {}
    /\ sessions[i].received <= Cardinality(B) + Cardinality(sessions[i].pending)
    /\ Asks(c, i) \cap (B \cup Sent(toClient[c], i) \cup Acks(toServer[c], i)) = {}
    /\ Once(toClient[c], i)

\* A session whose DWSTART is on its way, or whose answer is not yet posted, has no chunk
\* acknowledged; one whose requests are not yet posted has none on its way either.
Stage(c, f, i, B) ==
    LET starting == handling[c].step = "started" /\ handling[c].file = f
    IN  /\ In(toClient[c], "DWSTART", f) \/ starting =>
              Acks(toServer[c], i) = {} /\ ~(0..(Size - 1) \subseteq B)
        /\ starting => /\ Sent(toClient[c], i) = {}
                       /\ \A x \in requested : x.id # i
                       /\ \E x \in handling[c].requests : x.id = i
        /\ DataLast(toClient[c], f, i)
        /\ DataOf(toClient[c], i, f)

\* Whatever ends a download in the browser stops its session, or leaves it doomed.
Course(c, f, i, B) ==
    /\ Over(c, f) \/ (~Holds(c, f) /\ ~Awaiting(c, f)) => StopIn(toServer[c], f) \/ Doomed(c, i, B)
    /\ Fenced(toServer[c], f) \/ Doomed(c, i, B)
    /\ handling[c].step = "found" /\ handling[c].file = f => Doomed(c, i, B)
    /\ In(toClient[c], "DWERR", f) => Doomed(c, i, B)

\* With a stop on its way, the session does not complete before the stop is handled, or the
\* browser has what it needs; without one, every chunk acknowledged is kept, or one is lost.
Safe(c, f, i, B) ==
    IF StopIn(toServer[c], f)
    THEN \/ ~(0..(Size - 1) \subseteq B \cup InTime(toServer[c], f, i))
         \/ Holds(c, f) => Whole(c, f) /\ Settled(c, f)
    ELSE B \cup Acks(toServer[c], i) \subseteq Kept(c, f) \/ Lost(c, i, B)

\* A session of the pair, for the chunks B it has had acknowledged.
Session(c, f, i, B) == Counts(c, i, B) /\ Stage(c, f, i, B) /\ Course(c, f, i, B) /\ Safe(c, f, i, B)

\* All that is said of a client and a file.
Line(c, f) == /\ Pair(c, f)
              /\ \A i \in Ours(c, f) : \E B \in SUBSET (0..(Size - 1)) : Session(c, f, i, B)

-------------------------------------------------------------------------------
(* Every file handed over is whole *)

\* The sessions there are, or were.
Issued == 1..(nextSession - 1)

\* Who handles a DOWNLOAD has requests only for the session it started; requests are for
\* sessions that there are, or were.
Lane(c) == /\ handling[c].step = "idle" => handling[c] = Idle
           /\ handling[c].step = "found" => handling[c].requests = {}
           /\ \A x \in handling[c].requests :
                 /\ x.file = handling[c].file /\ x.id \in Issued
                 /\ x.id \in DOMAIN sessions => x.id \in Ours(c, x.file)
Request(x) == x.id \in Issued /\ (x.id \in DOMAIN sessions => sessions[x.id].file = x.file)

\* All of them.
Lanes == (\A c \in Client : Lane(c)) /\ (\A x \in requested : Request(x))

\* Commands and frames on their way name what there is, or was.
Known(m) == /\ m.kind = "DWACK" => m.id \in Issued
            /\ m.kind = "UPCANCEL" => m.file \in DOMAIN uploaded

KnownFrame(x) == /\ x.kind = "DWDATA" => x.id \in Issued
                 /\ x.kind = "UPOK" => x.file \in DOMAIN uploaded
                 /\ x.kind = "LEAVE" => x.who \in departed
Messages == \A c \in Client : /\ \A m \in ToSet(toServer[c]) : Known(m)
                              /\ \A x \in ToSet(toClient[c]) : KnownFrame(x)

\* Only files offered in an UPLOAD are registered, have sessions or are being uploaded.
Offers == /\ registrations \subseteq DOMAIN uploaded
          /\ \A i \in DOMAIN sessions : sessions[i].file \in registrations
          /\ \A c \in Client : DOMAIN uploadSessions[c] \subseteq DOMAIN uploaded

\* The inductive invariant, beside IInv, that every file handed over is whole.
Lines == \A c \in Client : alive[c] => \A f \in File : Line(c, f)
JInv == Lanes /\ Messages /\ Offers /\ Lines

-------------------------------------------------------------------------------
(* What a step changes of what is on its way *)

\* What is on its way says no more of f, and of the sessions in ids.
Alike(q, r, f, ids) ==
    /\ StopIn(r, f) <=> StopIn(q, f)
    /\ StartIn(r, f) <=> StartIn(q, f)
    /\ Alternate(r, f) <=> Alternate(q, f)
    /\ Fenced(r, f) <=> Fenced(q, f)
    /\ Ended(r, f) <=> Ended(q, f)
    /\ \A kept : Resumes(r, f, kept) <=> Resumes(q, f, kept)
    /\ \A i \in ids : Acks(r, i) \subseteq Acks(q, i) /\ InTime(r, f, i) \subseteq InTime(q, f, i)

\* v says no more about f and the sessions ids than w does.
AlikeFrames(w, v, f, ids) ==
    /\ \A kind \in {"DWSTART", "DWNDONE"} : In(v, kind, f) => In(w, kind, f)
    /\ DoneFirst(w, f) => DoneFirst(v, f)
    /\ \A i \in ids : /\ Sent(v, i) \subseteq Sent(w, i)
                      /\ Once(w, i) => Once(v, i)
                      /\ DataLast(w, f, i) => DataLast(v, f, i)
                      /\ DataOf(w, i, f) => DataOf(v, i, f)

\* Commands, and frames, that do say something about f or the sessions ids.
Orders(m, f) == IsStart(m, f) \/ IsStop(m, f)
AboutFrame(x, f, ids) == \/ \E kind \in {"DWSTART", "DWNDONE"} : IsOf(x, kind, f)
                         \/ \E i \in ids : IsData(x, i)

\* A step that is not about f: what it does to what c has sent, and is sent.
QuietLane(c, f) ==
    \/ toServer'[c] = toServer[c]
    \/ toServer[c] # <<>> /\ ~Orders(Head(toServer[c]), f) /\ toServer'[c] = Tail(toServer[c])
    \/ \E m \in Command : ~Orders(m, f) /\ m.kind # "DWACK" /\ toServer'[c] = Append(toServer[c], m)

\* The same for frames.
QuietWire(c, f, ids) ==
    \/ toClient'[c] = toClient[c]
    \/ \E x \in GoodFrame : /\ ~AboutFrame(x, f, ids) /\ ~IsOf(x, "DWERR", f)
                            /\ toClient'[c] = toClient[c] \o <<x>>

\* What the answer to a DOWNLOAD of g changes.
Answered(w, v, g, dead) ==
    /\ In(v, "DWSTART", g)
    /\ In(v, "DWNDONE", g) <=> In(w, "DWNDONE", g)
    /\ In(v, "DWERR", g) => In(w, "DWERR", g) \/ dead
    /\ DoneFirst(v, g) <=> DoneFirst(w, g)
    /\ \A i : /\ Sent(v, i) = Sent(w, i)
              /\ Once(v, i) <=> Once(w, i)
              /\ DataLast(v, g, i) <=> (DataLast(w, g, i) /\ Sent(w, i) = {})
              /\ DataOf(v, i, g) <=> DataOf(w, i, g)
    /\ \A f, ids : f # g => /\ AlikeFrames(w, v, f, ids)
                            /\ In(w, "DWSTART", f) => In(v, "DWSTART", f)
                            /\ In(v, "DWERR", f) => In(w, "DWERR", f)

-------------------------------------------------------------------------------
(* What a step does to a session, or from a browser *)

\* A chunk received: it is on its way to the downloader, and the next may be asked for.
ChunkMoved(c, i, k, s, t, N) ==
    /\ s = sessions[i] /\ t = sessions'[i] /\ k \in Asks(c, i) /\ k \notin s.pending
    /\ t.pending = s.pending \cup {k} /\ t.received = s.received + 1
    /\ t.file = s.file /\ t.downloader = s.downloader
    /\ \/ s.next < Size /\ t.next = s.next + 1 /\ N = {s.next}
       \/ t.next = s.next /\ N = {}
    /\ \A j : j \in Asks(c, i)' <=> (j \in Asks(c, i) /\ j # k) \/ j \in N
    /\ Sent(toClient'[c], i) = Sent(toClient[c], i) \cup {k}
    /\ Acks(toServer'[c], i) = Acks(toServer[c], i)
    /\ Once(toClient'[c], i)

\* An acknowledgement counted: chunk k of session i is done with, and the next may be
\* asked for, of an uploader that is there.
AckMoved(c, i, k, s, t, N) ==
    /\ s = sessions[i] /\ t = sessions'[i] /\ k \in s.pending
    /\ t.pending = s.pending \ {k} /\ t.received = s.received
    /\ t.file = s.file /\ t.downloader = s.downloader
    /\ UNCHANGED alive
    /\ \/ s.next < Size /\ t.next = s.next + 1 /\ N = IF alive[Owner[s.file]] THEN {s.next} ELSE {}
       \/ t.next = s.next /\ N = {}
    /\ t.next = s.next /\ t.pending = {} => s.next >= Size
    /\ \A j : j \in Asks(c, i)' <=> j \in Asks(c, i) \/ j \in N
    /\ Sent(toClient'[c], i) = Sent(toClient[c], i)
    /\ Acks(toServer[c], i) = Acks(toServer'[c], i) \cup {k}
    /\ Once(toClient[c], i) => Once(toClient'[c], i)

\* A session that goes on.
GoesOn(a, i, k, t, asked2) ==
    /\ Takes(a, {"DWACK"}) /\ i = Head(toServer[a]).id /\ k = Head(toServer[a]).off
    /\ TakesAck(a, i, k) /\ t = Requesting(WithAck(i, k))
    /\ sessions' = [sessions EXCEPT ![i] = t] /\ UNCHANGED <<registrations, nextSession>>
    /\ asked2 = NextRequest(i, WithAck(i, k)) /\ PostRequests(asked2)
    /\ Post(OnlyTo(a, IF asked2 # {} /\ ~alive[Owner[sessions[i].file]]
                      THEN <<[kind |-> "DWERR", file |-> sessions[i].file]>> ELSE <<>>))
    /\ UNCHANGED <<alive, handling, departed, browserVars>>

\* A session that its last acknowledgement ends.
Completes(a, i, k) ==
    /\ Takes(a, {"DWACK"}) /\ i = Head(toServer[a]).id /\ k = Head(toServer[a]).off
    /\ TakesAck(a, i, k) /\ IsComplete(WithAck(i, k))
    /\ sessions' = [j \in DOMAIN sessions \ {i} |-> sessions[j]]
    /\ UNCHANGED <<registrations, nextSession, requested>>
    /\ Post(OnlyTo(a, <<[kind |-> "DWNDONE", file |-> sessions[i].file]>>))
    /\ UNCHANGED <<alive, handling, departed, browserVars>>

\* A step of the browser of a, or of its user, that is of no news to the server.
BrowserMove(a) ==
    /\ alive[a] /\ UNCHANGED <<serverVars, requested, uploaded>>
    /\ \A c \in Client \ {a} : /\ toServer'[c] = toServer[c] /\ toClient'[c] = toClient[c]
                               /\ downloads'[c] = downloads[c]
    /\ \A c \in Client : /\ \A m \in ToSet(toServer'[c]) : m \in ToSet(toServer[c]) \/ Known(m)
                         /\ \A x \in ToSet(toClient'[c]) : x \in ToSet(toClient[c])
                         /\ DOMAIN uploadSessions'[c] \subseteq DOMAIN uploaded

\* A button of the card of file g in the browser of a: it sends command m.
Clicks(a, g, m) ==
    /\ alive[a] /\ UNCHANGED <<serverVars, toClient, requested, uploaded, uploadVars>>
    /\ m \in Command /\ m.kind \in {"DOWNLOAD", "DWNPAUSE", "DWNCANCEL"} /\ m.file = g
    /\ Send(a, m)
    /\ \A c \in Client \ {a} : downloads'[c] = downloads[c]
    /\ \A f : f # g => /\ Holds(a, f)' <=> Holds(a, f)
                       /\ Kept(a, f)' = Kept(a, f)
                       /\ Holds(a, f) => downloads'[a][f].paused = downloads[a][f].paused

\* The browser of a takes the oldest frame posted to it.
Delivers(a, x) ==
    /\ alive[a] /\ toClient[a] # <<>> /\ x = Head(toClient[a])
    /\ toClient' = [toClient EXCEPT ![a] = Tail(toClient[a])]
    /\ UNCHANGED <<serverVars, requested, uploaded>>

-------------------------------------------------------------------------------
(* Uploads *)

\* The messages of a kind in r are in q, further back by a number of places; at most one of them.
Behind(q, r, kind) == \E d \in Nat : \A n \in 1..Len(r) :
    r[n].kind = kind => n + d \in 1..Len(q) /\ r[n] = q[n + d]
One(q, kind) == \A m, n \in 1..Len(q) : q[m].kind = kind /\ q[n].kind = kind => m = n
NoneOf(q, kind) == \A x \in ToSet(q) : x.kind # kind

\* At most one UPLOAD of c, or the UPOK that answers it, is on its way: for the file selected, and
\* not bound yet.
Desk(c) ==
    /\ One(toServer[c], "UPLOAD") /\ One(toClient[c], "UPOK")
    /\ \A m \in ToSet(toServer[c]) :
          m.kind = "UPLOAD" => m.what = pendingFile[c] /\ NoneOf(toClient[c], "UPOK")
    /\ \A x \in ToSet(toClient[c]) : x.kind = "UPOK" =>
          /\ x.file \in DOMAIN uploaded /\ Owner[x.file] = c
          /\ uploaded[x.file] = pendingFile[c] /\ x.file \notin DOMAIN uploadSessions[c]

\* The handles bound are c's, each to the file it was given out for.
Bound(c) == \A f \in DOMAIN uploadSessions[c] :
               f \in DOMAIN uploaded /\ Owner[f] = c /\ uploadSessions[c][f] = uploaded[f]

\* The inductive invariant of uploads.
Desks == \A c \in Client : (alive[c] => Desk(c)) /\ Bound(c)

-------------------------------------------------------------------------------
(* No transfer stalls *)

\* cancelUploadFile leaves a flag behind that has handleDWREQ ignore every request until a file is
\* selected: it does no harm to a browser that has no other file on offer.
CancelsAlone == \A c \in Client : cancelUpload[c] => DOMAIN uploadSessions[c] = {}

\* A file on offer is served by the browser that offers it, unless its UPOK or an UPCANCEL is on
\* its way.
Answering(f) == \E x \in ToSet(toClient[Owner[f]]) : IsOf(x, "UPOK", f)
Cancelled(f) == \E m \in ToSet(toServer[Owner[f]]) : IsOf(m, "UPCANCEL", f)
Serves(f) == f \in DOMAIN uploadSessions[Owner[f]] /\ ~cancelUpload[Owner[f]]
Served(f) == alive[Owner[f]] /\ f \in registrations /\ ~Answering(f) => Cancelled(f) \/ Serves(f)

\* Nothing has begun to end the transfer of f to c.
Busy(c, f) == alive[c] /\ alive[Owner[f]] /\ ~Cancelled(f) /\ ~StopIn(toServer[c], f)

\* Such a transfer has on its way the data, or the acknowledgement, of every chunk pending, and a
\* request for every chunk due and not received; one that has nothing pending has such a request.
Flowing(s, asks, way) == /\ s.pending \subseteq way
                         /\ s.next <= s.received + Cardinality(asks)
                         /\ s.pending = {} => asks # {}

\* Session i flows while nothing has begun to end it.
Flow(i) == LET c == sessions[i].downloader
           IN  Busy(c, sessions[i].file) =>
                  Flowing(sessions[i], Asks(c, i), Sent(toClient[c], i) \cup Acks(toServer[c], i))

\* The inductive invariant, beside IInv, JInv and Desks, that no transfer stalls.
Flows == (\A f \in File : Served(f)) /\ (\A i \in DOMAIN sessions : Flow(i))

\* Who has cancelled an upload, and selected none since, has a file that is withdrawn for good.
Withdrawn(c, f) == f \in DOMAIN uploaded /\ Owner[f] = c /\ f \notin DOMAIN uploadSessions[c] /\ ~Answering(f)
Flagged == \A c \in Client : cancelUpload[c] => alive[c] /\ \E f \in File : Withdrawn(c, f)

\* When everyone offers one file at most, no cancelled upload does harm.
OneFileEach == \A f, g \in File : Owner[f] = Owner[g] => f = g
=============================================================================
