------------------------------- MODULE Transfer -------------------------------
(***************************************************************************)
(* A file transfer end to end: the browsers of uploader and downloader     *)
(* (useFileTransfer), the command handlers that run on the pool's workers  *)
(* (AppTransferCommands, AppRouter::cleanup) and the room's                *)
(* TransferManager.                                                        *)
(*                                                                         *)
(* What module Dispatch shows of the way between them is taken from there: *)
(* a client's commands, which are texts, are handled one at a time, in the *)
(* order it sent them; its chunks, which are binaries and may fall behind  *)
(* later texts, between any of them; its cleanup comes last; frames reach  *)
(* a client in the order they were posted, and not once its connection is  *)
(* dead.  That the pool refuses a batch is left to Dispatch.  Handlers of  *)
(* different clients overlap: DOWNLOAD, with its two sections under mtx_   *)
(* and its looks at alive_, is three steps, the others have one section    *)
(* and are one step, which posts their frames.  DWDATA stands for its      *)
(* header frame and the chunk that follows it.                             *)
(***************************************************************************)
EXTENDS TransferManager, Sequences, SequencesExt

CONSTANTS NoFile,
          Content,      \* files on the disks of those who upload
          MaxDownload,  \* bound: DOWNLOAD commands in a run
          Patient       \* who has sent an UPLOAD or a DOWNLOAD waits for the answer

ASSUME ClientAssumption == /\ MaxDownload \in Nat /\ Patient \in BOOLEAN
                           /\ NoFile \notin File \cup Content

VARIABLES handling,      \* where the DOWNLOAD handler on each client's lane is
          departed,      \* clients whose cleanup has run
          toServer,      \* commands a client sent, oldest first
          toClient,      \* frames posted to a client, oldest first
          requested,     \* chunks asked of an uploader's browser, not yet handled
          uploaded,      \* history: the handles given out, and the file each is of
          pendingFile, uploadSessions, cancelUpload,  \* of useFileTransfer
          fileSenders,   \* the files a client knows of and may download
          downloads,     \* useFileTransfer: downloadSessions
          asked,         \* how many DOWNLOADs were sent
          saved          \* history: files handed to a user, and their chunks

serverVars  == <<managerVars, alive, handling, departed>>
uploadVars  == <<pendingFile, uploadSessions, cancelUpload>>
downloadVars == <<fileSenders, downloads, asked, saved>>
browserVars == <<uploaded, uploadVars, downloadVars>>
vars == <<serverVars, toServer, toClient, requested, browserVars>>

\* A chunk asked of a client.
Chunk   == [file : File, id : Nat, off : Nat]
Command == [kind : {"UPLOAD"}, what : Content] \cup
           [kind : {"UPCANCEL"}, file : File] \cup
           [kind : {"DOWNLOAD"}, file : File, off : Nat] \cup
           [kind : {"DWACK"}, id : Nat, off : Nat] \cup
           [kind : {"DWNPAUSE", "DWNCANCEL"}, file : File]
Frame   == [kind : {"UPOK", "FILE", "DWSTART", "DWNDONE", "DWERR"}, file : File] \cup
           [kind : {"DWDATA"}, file : File, id : Nat, off : Nat] \cup
           [kind : {"LEAVE"}, who : Client]

\* downloadSessions[f]: the chunks a browser holds and whether its user paused.
Download == [chunks : SUBSET Nat, paused : BOOLEAN]

Handling == [step : {"idle", "found", "started"}, file : File \cup {NoFile}, off : Nat,
             requests : SUBSET Chunk]

TypeOK == /\ ManagerTypeOK
          /\ handling \in [Client -> Handling]
          /\ departed \subseteq {c \in Client : ~alive[c]}
          /\ toServer \in [Client -> Seq(Command)]
          /\ toClient \in [Client -> Seq(Frame)]
          /\ requested \subseteq Chunk
          /\ DOMAIN uploaded \subseteq File
          /\ uploaded \in [DOMAIN uploaded -> Content]
          /\ pendingFile \in [Client -> Content \cup {NoFile}]
          /\ \A c \in Client : /\ DOMAIN uploadSessions[c] \subseteq File
                               /\ uploadSessions[c] \in [DOMAIN uploadSessions[c] -> Content]
          /\ cancelUpload \in [Client -> BOOLEAN]
          /\ fileSenders \in [Client -> SUBSET File]
          /\ \A c \in Client : /\ DOMAIN downloads[c] \subseteq File
                               /\ downloads[c] \in [DOMAIN downloads[c] -> Download]
          /\ asked \in 0..MaxDownload
          /\ \A s \in saved : s.file \in File /\ s.chunks \subseteq 0..(Size - 1)

Silent == [c \in Client |-> <<>>]
Idle   == [step |-> "idle", file |-> NoFile, off |-> 0, requests |-> {}]

Init == /\ ManagerInit
        /\ handling = [c \in Client |-> Idle]
        /\ departed = {}
        /\ toServer = Silent /\ toClient = Silent
        /\ requested = {}
        /\ uploaded = <<>>
        /\ pendingFile = [c \in Client |-> NoFile]
        /\ uploadSessions = [c \in Client |-> <<>>]
        /\ cancelUpload = [c \in Client |-> FALSE]
        /\ fileSenders = [c \in Client |-> {}]
        /\ downloads = [c \in Client |-> <<>>]
        /\ asked = 0 /\ saved = {}

-------------------------------------------------------------------------------
(* Command handlers *)

\* The frames of one to, and of everyone in the room but c.
OnlyTo(c, frames)  == [Silent EXCEPT ![c] = frames]
ToOthers(c, frame) == [d \in Client |-> IF d \in departed \cup {c} THEN <<>> ELSE <<frame>>]

\* A handler posts its frames, and the control thread hands them on, to the living.
Post(frames) == toClient' = [d \in Client |-> IF alive[d] THEN toClient[d] \o frames[d]
                                                         ELSE toClient[d]]
PostRequests(chunks) == requested' = requested \cup {x \in chunks : alive[Owner[x.file]]}

\* A handler of c may start.
LaneFree(c) == handling[c].step = "idle"

\* AppHandler::route lets a command of a living session through to its handler.
Takes(c, kinds) == /\ alive[c] /\ LaneFree(c)
                   /\ toServer[c] # <<>> /\ Head(toServer[c]).kind \in kinds
                   /\ toServer' = [toServer EXCEPT ![c] = Tail(@)]

\* DOWNLOAD, to the first look at the uploader.  SYS|ERR the client only shows.
FindFile(c) ==
    LET f == Head(toServer[c]).file
    IN  /\ Takes(c, {"DOWNLOAD"})
        /\ \/ f \notin registrations /\ UNCHANGED <<toClient, handling>>
           \/ /\ f \in registrations /\ ~alive[Owner[f]]
              /\ Post(OnlyTo(c, <<[kind |-> "DWERR", file |-> f]>>))
              /\ UNCHANGED handling
           \/ /\ f \in registrations /\ alive[Owner[f]]
              /\ handling' = [handling EXCEPT ![c] =
                     [Idle EXCEPT !.step = "found", !.file = f, !.off = Head(toServer[c]).off]]
              /\ UNCHANGED toClient
        /\ UNCHANGED <<managerVars, alive, departed, requested, browserVars>>

\* DOWNLOAD, start_transfer: a session with its first window, or SYS|ERR.
StartDownload(c) ==
    LET h == handling[c]
    IN  /\ h.step = "found"
        /\ \/ /\ CanStart(h.file, h.off)
              /\ StartTransfer(h.file, c, h.off)
              /\ handling' = [handling EXCEPT ![c] = [h EXCEPT !.step = "started",
                     !.requests = [file : {h.file}, id : {nextSession},
                                    off : FirstWindow(h.off)]]]
           \/ /\ ~CanStart(h.file, h.off)
              /\ handling' = [handling EXCEPT ![c] = Idle]
              /\ UNCHANGED managerVars
        /\ UNCHANGED <<alive, departed, toServer, toClient, requested, browserVars>>

\* DOWNLOAD, the answer: with the requests, or with DWERR if the uploader has gone.
AnswerDownload(c) ==
    LET h == handling[c]
        start == [kind |-> "DWSTART", file |-> h.file]
        error == [kind |-> "DWERR", file |-> h.file]
    IN  /\ h.step = "started"
        /\ Post(OnlyTo(c, IF alive[Owner[h.file]] THEN <<start>> ELSE <<start, error>>))
        /\ PostRequests(h.requests)
        /\ handling' = [handling EXCEPT ![c] = Idle]
        /\ UNCHANGED <<managerVars, alive, departed, toServer, browserVars>>

\* The requests c's browser has got: a file's DWREQs come after its UPOK.
Asked(c) == {x \in requested :
                Owner[x.file] = c /\ ~Contains(toClient[c], [kind |-> "UPOK", file |-> x.file])}

\* handleDWREQ answers, unless the file is not in uploadSessions or cancelUpload is set.
Answers(c, chunk) == chunk.file \in DOMAIN uploadSessions[c] /\ ~cancelUpload[c]

\* handle_chunk, and handleDWREQ of the browser that read and sent the chunk: it goes
\* on to the downloader, and may bring the next request.
HandleChunk(c) ==
    /\ alive[c] /\ LaneFree(c)
    /\ \E chunk \in {x \in Asked(c) : Answers(c, x)} :
          LET i == chunk.id
              k == chunk.off
          IN  \/ /\ TakesChunk(c, i, k)
                 /\ ReceiveChunk(i, k)
                 /\ Post(OnlyTo(sessions[i].downloader,
                       <<[kind |-> "DWDATA", file |-> sessions[i].file, id |-> i, off |-> k]>>))
                 /\ requested' = (requested \ {chunk}) \cup NextRequest(i, WithChunk(i, k))
              \/ /\ ~TakesChunk(c, i, k)
                 /\ requested' = requested \ {chunk}
                 /\ UNCHANGED <<managerVars, toClient>>
    /\ UNCHANGED <<alive, handling, departed, toServer, browserVars>>

\* DWACK: DWNDONE with the last one, else perhaps the next request, or DWERR if
\* there is no uploader left to ask.
HandleAck(c) ==
    LET i == Head(toServer[c]).id
        k == Head(toServer[c]).off
        f == sessions[i].file
        done == IsComplete(WithAck(i, k))
        next == IF done THEN {} ELSE NextRequest(i, WithAck(i, k))
    IN  /\ Takes(c, {"DWACK"})
        /\ \/ /\ TakesAck(c, i, k)
              /\ Acknowledge(i, k)
              /\ PostRequests(next)
              /\ Post(OnlyTo(c,
                    IF done THEN <<[kind |-> "DWNDONE", file |-> f]>>
                    ELSE IF next # {} /\ ~alive[Owner[f]]
                         THEN <<[kind |-> "DWERR", file |-> f]>> ELSE <<>>))
           \/ /\ ~TakesAck(c, i, k)
              /\ UNCHANGED <<managerVars, toClient, requested>>
        /\ UNCHANGED <<alive, handling, departed, browserVars>>

\* UPLOAD: the handle is new, and everyone is told.
HandleUpload(c) ==
    /\ Takes(c, {"UPLOAD"})
    /\ \E f \in File \ DOMAIN uploaded :
          /\ Owner[f] = c
          /\ RegisterFile(f)
          /\ uploaded' = [g \in DOMAIN uploaded \cup {f} |->
                 IF g = f THEN Head(toServer[c]).what ELSE uploaded[g]]
          /\ Post([ToOthers(c, [kind |-> "FILE", file |-> f])
                      EXCEPT ![c] = <<[kind |-> "UPOK", file |-> f]>>])
    /\ UNCHANGED <<alive, handling, departed, requested, uploadVars, downloadVars>>

\* UPCANCEL: it finds the file registered and the client its owner, since only the
\* owner's own events end a registration.  DONE the client ignores.
HandleUpCancel(c) ==
    LET f == Head(toServer[c]).file
    IN  /\ Takes(c, {"UPCANCEL"})
        /\ CancelFile(f)
        /\ Post(ToOthers(c, [kind |-> "DWERR", file |-> f]))
        /\ UNCHANGED <<alive, handling, departed, requested, browserVars>>

\* DWNPAUSE and DWNCANCEL.
HandleStop(c) == /\ Takes(c, {"DWNPAUSE", "DWNCANCEL"})
                 /\ CancelSession(Head(toServer[c]).file, c)
                 /\ UNCHANGED <<alive, handling, departed, toClient, requested, browserVars>>

-------------------------------------------------------------------------------
(* Connections *)

\* The connection ends, and the page with it: what is on its way to and from the browser
\* is gone, and so is what the page kept.  A page that outlives its connection (useChat
\* only resets the upload form, and connects again) is not modelled: what it still keeps
\* is of handles the server withdraws or sessions it drops with the connection, and its
\* connection is a new one, so one more client.
Close(c) == /\ alive[c]
            /\ alive' = [alive EXCEPT ![c] = FALSE]
            /\ toClient' = [toClient EXCEPT ![c] = <<>>]
            /\ requested' = {x \in requested : Owner[x.file] # c}
            /\ pendingFile' = [pendingFile EXCEPT ![c] = NoFile]
            /\ uploadSessions' = [uploadSessions EXCEPT ![c] = <<>>]
            /\ cancelUpload' = [cancelUpload EXCEPT ![c] = FALSE]
            /\ fileSenders' = [fileSenders EXCEPT ![c] = {}]
            /\ downloads' = [downloads EXCEPT ![c] = <<>>]
            /\ UNCHANGED <<managerVars, handling, departed, toServer, uploaded, asked, saved>>

\* Mutant of Cleanup: it does not wait for the handler in flight.
CleanupAtOnce(c) ==
    LET lost(d) == {sessions[i].file : i \in {j \in OrphanedBy(c) : DownloaderOf(j) = d}}
        errors(d) == SetToSeq({[kind |-> "DWERR", file |-> f] : f \in lost(d)})
        leave == <<[kind |-> "LEAVE", who |-> c]>>
    IN  /\ ~alive[c] /\ c \notin departed
        /\ CancelBySession(c)
        /\ departed' = departed \cup {c}
        /\ Post([d \in Client |-> IF d \in departed' THEN <<>> ELSE errors(d) \o leave])
        /\ toServer' = [toServer EXCEPT ![c] = <<>>]
        /\ UNCHANGED <<alive, handling, requested, browserVars>>

\* AppRouter::cleanup, once nothing of c is in flight: what waits in its lane is
\* dropped, the downloaders it leaves are told, then everyone who stays.
Cleanup(c) ==
    LET lost(d) == {sessions[i].file : i \in {j \in OrphanedBy(c) : DownloaderOf(j) = d}}
        errors(d) == SetToSeq({[kind |-> "DWERR", file |-> f] : f \in lost(d)})
        leave == <<[kind |-> "LEAVE", who |-> c]>>
    IN  /\ ~alive[c] /\ c \notin departed /\ LaneFree(c)
        /\ CancelBySession(c)
        /\ departed' = departed \cup {c}
        /\ Post([d \in Client |-> IF d \in departed' THEN <<>> ELSE errors(d) \o leave])
        /\ toServer' = [toServer EXCEPT ![c] = <<>>]
        /\ UNCHANGED <<alive, handling, requested, browserVars>>

-------------------------------------------------------------------------------
(* The uploader's browser *)

\* The handles c may still be given: as many files it offers in a run.
Unused(c) == {f \in File \ DOMAIN uploaded : Owner[f] = c}

\* The UPLOADs of c on their way, and whether one is not answered yet.
Uploads(c) == {n \in 1..Len(toServer[c]) : toServer[c][n].kind = "UPLOAD"}
Uploading(c) == \/ Uploads(c) # {}
                \/ \E f \in File : Contains(toClient[c], [kind |-> "UPOK", file |-> f])

\* selectFile, and resetUpload while a file is selected.
Select(c) == /\ alive[c] /\ Unused(c) # {}
             /\ Patient => ~Uploading(c)
             /\ \/ pendingFile' \in {[pendingFile EXCEPT ![c] = x] : x \in Content}
                \/ /\ pendingFile[c] # NoFile
                   /\ pendingFile' = [pendingFile EXCEPT ![c] = NoFile]
             /\ cancelUpload' = [cancelUpload EXCEPT ![c] = FALSE]
             /\ UNCHANGED <<serverVars, toServer, toClient, requested, uploaded,
                            uploadSessions, downloadVars>>

Send(c, command) == toServer' = [toServer EXCEPT ![c] = Append(@, command)]

\* sendUpload
SendUpload(c) == /\ alive[c] /\ pendingFile[c] # NoFile
                 /\ Patient => ~Uploading(c)
                 /\ Cardinality(Uploads(c)) < Cardinality(Unused(c))
                 /\ Send(c, [kind |-> "UPLOAD", what |-> pendingFile[c]])
                 /\ UNCHANGED <<serverVars, toClient, requested, browserVars>>

\* handleUPOK takes the file that is selected now for the one the handle is of.
BindUpload(c, f) ==
    IF pendingFile[c] = NoFile
    THEN UNCHANGED <<pendingFile, uploadSessions>>
    ELSE /\ uploadSessions' = [uploadSessions EXCEPT ![c] =
                [g \in DOMAIN @ \cup {f} |-> IF g = f THEN pendingFile[c] ELSE @[g]]]
         /\ pendingFile' = [pendingFile EXCEPT ![c] = NoFile]

\* cancelUploadFile
ClickCancelUpload(c, f) ==
    /\ alive[c] /\ f \in DOMAIN uploadSessions[c]
    /\ cancelUpload' = [cancelUpload EXCEPT ![c] = TRUE]
    /\ uploadSessions' = [uploadSessions EXCEPT ![c] = [g \in DOMAIN @ \ {f} |-> @[g]]]
    /\ Send(c, [kind |-> "UPCANCEL", file |-> f])
    /\ UNCHANGED <<serverVars, toClient, requested, uploaded, pendingFile, downloadVars>>

IgnoreRequest(c) ==
    /\ alive[c]
    /\ \E chunk \in {x \in Asked(c) : ~Answers(c, x)} : requested' = requested \ {chunk}
    /\ UNCHANGED <<serverVars, toServer, toClient, browserVars>>

-------------------------------------------------------------------------------
(* The downloader's browser: the buttons of FileCard, disabled once the file has expired *)

Holds(c, f) == f \in DOMAIN downloads[c]

\* downloadSessions with an entry put in, or taken out.
WithDownload(c, f, d) == downloads' = [downloads EXCEPT ![c] =
    [g \in DOMAIN @ \cup {f} |-> IF g = f THEN d ELSE @[g]]]
WithoutDownloads(c, files) ==
    downloads' = [downloads EXCEPT ![c] = [g \in DOMAIN @ \ files |-> @[g]]]

\* A DOWNLOAD of f by c has been sent and the browser has no answer yet.
Awaiting(c, f) ==
    \/ \E i \in 1..Len(toServer[c]) : /\ toServer[c][i].kind = "DOWNLOAD"
                                       /\ toServer[c][i].file = f
    \/ handling[c].file = f
    \/ \E i \in 1..Len(toClient[c]) : toClient[c][i] = [kind |-> "DWSTART", file |-> f]

SendDownload(c, f, off) == /\ asked < MaxDownload
                           /\ asked' = asked + 1
                           /\ Send(c, [kind |-> "DOWNLOAD", file |-> f, off |-> off])

\* The download button, shown while there is no download of the file.
ClickDownload(c, f) ==
    /\ alive[c] /\ f \in fileSenders[c] /\ ~Holds(c, f)
    /\ Patient => ~Awaiting(c, f)
    /\ SendDownload(c, f, 0)
    /\ UNCHANGED <<serverVars, toClient, requested, uploaded, uploadVars, fileSenders,
                   downloads, saved>>

\* pauseDownload, while the download runs.
ClickPause(c, f) ==
    /\ alive[c] /\ f \in fileSenders[c] /\ Holds(c, f) /\ ~downloads[c][f].paused
    /\ Send(c, [kind |-> "DWNPAUSE", file |-> f])
    /\ WithDownload(c, f, [downloads[c][f] EXCEPT !.paused = TRUE])
    /\ UNCHANGED <<serverVars, toClient, requested, uploaded, uploadVars, fileSenders,
                   asked, saved>>

\* Mutant of Checkpoint: where to resume is the number of chunks held.
CheckpointCount(chunks) == Cardinality(chunks)

\* The first chunk a browser does not hold.
Checkpoint(chunks) == CHOOSE k \in 0..Size : 0..(k - 1) \subseteq chunks /\ k \notin chunks

FinishDownload(c, f) ==
    /\ WithoutDownloads(c, {f})
    /\ saved' = saved \cup {[file |-> f, chunks |-> downloads[c][f].chunks]}

\* resumeDownload: from the first gap on, what lies behind it is fetched again.
ClickResume(c, f) ==
    LET k == Checkpoint(downloads[c][f].chunks)
    IN  /\ alive[c] /\ f \in fileSenders[c] /\ Holds(c, f) /\ downloads[c][f].paused
        /\ \/ /\ k = Size
              /\ FinishDownload(c, f)
              /\ UNCHANGED <<toServer, asked>>
           \/ /\ k < Size
              /\ WithDownload(c, f, [chunks |-> {x \in downloads[c][f].chunks : x < k},
                                  paused |-> FALSE])
              /\ SendDownload(c, f, k)
              /\ UNCHANGED saved
        /\ UNCHANGED <<serverVars, toClient, requested, uploaded, uploadVars, fileSenders>>

\* cancelDownloadFile, offered while the download is paused.
ClickCancel(c, f) ==
    /\ alive[c] /\ f \in fileSenders[c] /\ Holds(c, f) /\ downloads[c][f].paused
    /\ Send(c, [kind |-> "DWNCANCEL", file |-> f])
    /\ WithoutDownloads(c, {f})
    /\ UNCHANGED <<serverVars, toClient, requested, uploaded, uploadVars, fileSenders,
                   asked, saved>>

\* expireFileCard
Expire(c, files) == /\ WithoutDownloads(c, files)
                    /\ fileSenders' = [fileSenders EXCEPT ![c] = @ \ files]

\* handleBinary keeps the chunk of a download it holds, and acknowledges it.
ReceiveData(c, frame) ==
    IF Holds(c, frame.file)
    THEN /\ WithDownload(c, frame.file,
                [downloads[c][frame.file] EXCEPT !.chunks = @ \cup {frame.off}])
         /\ Send(c, [kind |-> "DWACK", id |-> frame.id, off |-> frame.off])
    ELSE UNCHANGED <<downloads, toServer>>

\* useChat hands a frame to handleUPOK, handleFILE, handleDWSTART, handleDWDATA and handleBinary,
\* handleDWNDONE, handleDWERR or handleLeave.
Receive(c) ==
    LET frame == Head(toClient[c])
    IN  /\ alive[c] /\ toClient[c] # <<>>
        /\ toClient' = [toClient EXCEPT ![c] = Tail(@)]
        /\ \/ /\ frame.kind = "UPOK"
              /\ BindUpload(c, frame.file)
              /\ UNCHANGED <<cancelUpload, fileSenders, downloads, toServer, saved>>
           \/ /\ frame.kind = "FILE"
              /\ fileSenders' = [fileSenders EXCEPT ![c] = @ \cup {frame.file}]
              /\ UNCHANGED <<uploadVars, downloads, toServer, saved>>
           \/ /\ frame.kind = "DWSTART"
              /\ IF Holds(c, frame.file)
                 THEN UNCHANGED downloads
                 ELSE WithDownload(c, frame.file, [chunks |-> {}, paused |-> FALSE])
              /\ UNCHANGED <<uploadVars, fileSenders, toServer, saved>>
           \/ /\ frame.kind = "DWDATA"
              /\ ReceiveData(c, frame)
              /\ UNCHANGED <<uploadVars, fileSenders, saved>>
           \/ /\ frame.kind = "DWNDONE"
              /\ IF Holds(c, frame.file) THEN FinishDownload(c, frame.file)
                                         ELSE UNCHANGED <<downloads, saved>>
              /\ UNCHANGED <<uploadVars, fileSenders, toServer>>
           \/ /\ frame.kind = "DWERR"
              /\ Expire(c, {frame.file})
              /\ UNCHANGED <<uploadVars, toServer, saved>>
           \/ /\ frame.kind = "LEAVE"
              /\ Expire(c, {f \in fileSenders[c] : Owner[f] = frame.who})
              /\ UNCHANGED <<uploadVars, toServer, saved>>
        /\ UNCHANGED <<serverVars, requested, uploaded, asked>>

-------------------------------------------------------------------------------
Server(c) == \/ FindFile(c) \/ StartDownload(c) \/ AnswerDownload(c)
             \/ HandleChunk(c) \/ HandleAck(c) \/ HandleStop(c)
             \/ HandleUpload(c) \/ HandleUpCancel(c)
             \/ Cleanup(c)

Browser(c) == IgnoreRequest(c) \/ Receive(c)

User(c) == \/ Select(c) \/ SendUpload(c)
           \/ \E f \in File : \/ ClickCancelUpload(c, f)
                             \/ ClickDownload(c, f) \/ ClickPause(c, f)
                             \/ ClickResume(c, f) \/ ClickCancel(c, f)
           \/ Close(c)

Next == \E c \in Client : Server(c) \/ Browser(c) \/ User(c)

Spec == Init /\ [][Next]_vars

-------------------------------------------------------------------------------
(* Properties *)

\* A client whose cleanup has run is a party of no session and offers no file, and
\* never does again: the handlers of other clients, half way through a DOWNLOAD
\* when it went, set nothing up with it.
GoneForGood == \A c \in departed :
                  /\ \A f \in registrations : Owner[f] # c
                  /\ \A i \in DOMAIN sessions : Uploader(i) # c /\ DownloaderOf(i) # c

\* What a browser hands its user as a finished file has every chunk, through pauses,
\* resumed downloads and chunks of abandoned sessions that arrive late.
DoneMeansAll == \A s \in saved : s.chunks = 0..(Size - 1)

\* Something will move session i on: a request, a chunk or an acknowledgement under
\* way, a command that ends it, or the cleanup of a party.
Moves(i) ==
    LET c == DownloaderOf(i)
        InRange(s, Test(_)) == \E n \in 1..Len(s) : Test(s[n])
        Ends(m) == m.kind \in {"DWNPAUSE", "DWNCANCEL"} /\ m.file = sessions[i].file
        Cancels(m) == m.kind = "UPCANCEL" /\ m.file = sessions[i].file
        IsAck(m) == m.kind = "DWACK" /\ m.id = i
        IsData(m) == m.kind = "DWDATA" /\ m.id = i
    IN  \/ \E x \in requested \cup handling[c].requests : x.id = i
        \/ InRange(toClient[c], IsData)
        \/ InRange(toServer[c], IsAck) \/ InRange(toServer[c], Ends)
        \/ InRange(toServer[Uploader(i)], Cancels)
        \/ ~alive[c] \/ ~alive[Uploader(i)]

\* No transfer is left waiting for nothing: whatever window, losses and overlaps of
\* handlers, there is an event under way that moves it on or ends it.
NeverStalls == \A i \in DOMAIN sessions : Moves(i)

\* At most Window chunks of a session are in the server and the downloader's
\* connection at a time, received and not acknowledged.
WindowHolds == \A i \in DOMAIN sessions : Cardinality(sessions[i].pending) <= Window

\* A download that a browser shows as running is served: it has a session, or is being
\* given one, or a frame that ends it is on its way, or the uploader's leaving is.
\* A card whose file has expired is shown as that, whatever downloadSessions says.
Running(c, f) == /\ alive[c] /\ f \in fileSenders[c]
                 /\ Holds(c, f) /\ ~downloads[c][f].paused
Ending(c, f) == \E n \in 1..Len(toClient[c]) :
                    toClient[c][n] \in {[kind |-> "DWNDONE", file |-> f],
                                       [kind |-> "DWERR", file |-> f],
                                       [kind |-> "LEAVE", who |-> Owner[f]]}
ShownIsServed ==
    \A c \in Client, f \in File :
       Running(c, f) => \/ NewestSession(f, c) # {} \/ Awaiting(c, f)
                        \/ Ending(c, f) \/ ~alive[Owner[f]]
===============================================================================
