--------------------------- MODULE TransferManager ---------------------------
(***************************************************************************)
(* chatroom/TransferManager: the files a room's members offer and the      *)
(* transfers under way, with the indices by uploader and by downloader.    *)
(* Every operation runs under mtx_ and is one step.  Offsets and sizes are *)
(* counted in chunks; a file's handle is never given out twice, so the     *)
(* uploader of a handle is a constant.                                     *)
(***************************************************************************)
EXTENDS Naturals, FiniteSets

CONSTANTS Client,   \* sessions of the room's members
          File,     \* file handles
          Owner,    \* Owner[f]: the client that uploads f
          Size,     \* chunks of every file (register_file refuses none)
          Window    \* TransferSession::kWindowSize

ASSUME TransferAssumption == /\ Owner \in [File -> Client]
                             /\ Size \in Nat \ {0} /\ Window \in Nat \ {0}

VARIABLES registrations,       \* handles of the files on offer
          uploaderFiles,       \* uploader_files_
          sessions,            \* sessions_, by session id
          nextSession,         \* next_session_id_
          uploaderSessions,    \* uploader_sessions_
          downloaderSessions,  \* downloader_sessions_
          alive                \* Session::alive_, which io may end at any moment

fileVars == <<registrations, uploaderFiles>>
sessionVars == <<sessions, nextSession, uploaderSessions, downloaderSessions>>
managerVars == <<fileVars, sessionVars>>

\* TransferSession: the next chunk to request, the chunks received (those before the
\* start offset included), and the received ones not acknowledged yet.
TransferSession == [file : File, downloader : Client, next : Nat, received : Nat,
                    pending : SUBSET Nat]

ManagerTypeOK == /\ registrations \subseteq File
                 /\ uploaderFiles \in [Client -> SUBSET File]
                 /\ DOMAIN sessions \subseteq 1..(nextSession - 1)
                 /\ sessions \in [DOMAIN sessions -> TransferSession]
                 /\ nextSession \in Nat \ {0}
                 /\ uploaderSessions \in [Client -> SUBSET Nat]
                 /\ downloaderSessions \in [Client -> SUBSET Nat]
                 /\ alive \in [Client -> BOOLEAN]

ManagerInit == /\ registrations = {}
               /\ uploaderFiles = [c \in Client |-> {}]
               /\ sessions = <<>>
               /\ nextSession = 1
               /\ uploaderSessions = [c \in Client |-> {}]
               /\ downloaderSessions = [c \in Client |-> {}]
               /\ alive = [c \in Client |-> TRUE]

Uploader(i) == Owner[sessions[i].file]

-------------------------------------------------------------------------------
(* Windows *)

\* Mutant of IsComplete: > for >=.
IsCompleteLate(ts) == ts.pending = {} /\ ts.received > Size

IsComplete(ts) == ts.pending = {} /\ ts.received >= Size

\* try_send_next_request has something to ask for, and then moves on.
CanRequest(ts) == ts.next < Size /\ Cardinality(ts.pending) < Window
Requesting(ts) == IF CanRequest(ts) THEN [ts EXCEPT !.next = @ + 1] ELSE ts

\* The DWREQ it makes for session i, if any.
NextRequest(i, ts) ==
    IF CanRequest(ts) THEN {[file |-> ts.file, id |-> i, off |-> ts.next]} ELSE {}

-------------------------------------------------------------------------------
(* Operations *)

RegisterFile(f) ==
    /\ registrations' = registrations \cup {f}
    /\ uploaderFiles' = [uploaderFiles EXCEPT ![Owner[f]] = @ \cup {f}]
    /\ UNCHANGED sessionVars

\* unregister_file, of several files.
UnregisterFiles(files) ==
    /\ registrations' = registrations \ files
    /\ uploaderFiles' = [c \in Client |->
           uploaderFiles[c] \ {f \in files \cap registrations : Owner[f] = c}]

CanStart(f, off) == f \in registrations /\ alive[Owner[f]] /\ off < Size

\* The chunks start_transfer asks for at once.
FirstWindow(off) == {k \in off..(Size - 1) : k < off + Window}

\* Mutant of StartTransfer: next_session_id_ is not counted up.
StartTransferSameId(f, c, off) ==
    /\ sessions' = [i \in DOMAIN sessions \cup {nextSession} |->
           IF i = nextSession
           THEN [file |-> f, downloader |-> c, received |-> off, pending |-> {},
                 next |-> off + Cardinality(FirstWindow(off))]
           ELSE sessions[i]]
    /\ UNCHANGED nextSession
    /\ uploaderSessions' = [uploaderSessions EXCEPT ![Owner[f]] = @ \cup {nextSession}]
    /\ downloaderSessions' = [downloaderSessions EXCEPT ![c] = @ \cup {nextSession}]
    /\ UNCHANGED fileVars

StartTransfer(f, c, off) ==
    /\ sessions' = [i \in DOMAIN sessions \cup {nextSession} |->
           IF i = nextSession
           THEN [file |-> f, downloader |-> c, received |-> off, pending |-> {},
                 next |-> off + Cardinality(FirstWindow(off))]
           ELSE sessions[i]]
    /\ nextSession' = nextSession + 1
    /\ uploaderSessions' = [uploaderSessions EXCEPT ![Owner[f]] = @ \cup {nextSession}]
    /\ downloaderSessions' = [downloaderSessions EXCEPT ![c] = @ \cup {nextSession}]
    /\ UNCHANGED fileVars

\* handle_chunk_data takes a chunk from the uploader of its session, once while the
\* chunk is in the window.
TakesChunk(c, i, off) == /\ i \in DOMAIN sessions /\ Uploader(i) = c
                         /\ off < Size /\ off \notin sessions[i].pending

\* The session with the chunk received, before the next request.
WithChunk(i, off) ==
    [sessions[i] EXCEPT !.pending = @ \cup {off}, !.received = @ + 1]

ReceiveChunk(i, off) ==
    /\ sessions' = [sessions EXCEPT ![i] = Requesting(WithChunk(i, off))]
    /\ UNCHANGED <<fileVars, nextSession, uploaderSessions, downloaderSessions>>

\* handle_ack counts an acknowledgement by the session's downloader of a chunk in
\* the window.
TakesAck(c, i, off) == /\ i \in DOMAIN sessions /\ sessions[i].downloader = c
                       /\ off \in sessions[i].pending

WithAck(i, off) == [sessions[i] EXCEPT !.pending = @ \ {off}]

\* An index without the sessions of ids: remove_session_ref looks under the party
\* that party gives.
Unreferenced(index, ids, party) ==
    [c \in Client |-> index[c] \ {i \in ids \cap DOMAIN sessions : party[i] = c}]

DownloaderOf(i) == sessions[i].downloader

Uploaders == [i \in DOMAIN sessions |-> Uploader(i)]
Downloaders == [i \in DOMAIN sessions |-> DownloaderOf(i)]

\* Mutant of CleanupSessions: the reference under the downloader is forgotten.
CleanupSessionsHalf(ids) ==
    /\ sessions' = [i \in DOMAIN sessions \ ids |-> sessions[i]]
    /\ uploaderSessions' = Unreferenced(uploaderSessions, ids, Uploaders)
    /\ UNCHANGED <<nextSession, downloaderSessions>>

\* cleanup_session, of several sessions.
CleanupSessions(ids) ==
    /\ sessions' = [i \in DOMAIN sessions \ ids |-> sessions[i]]
    /\ uploaderSessions' = Unreferenced(uploaderSessions, ids, Uploaders)
    /\ downloaderSessions' = Unreferenced(downloaderSessions, ids, Downloaders)
    /\ UNCHANGED nextSession

Acknowledge(i, off) ==
    IF IsComplete(WithAck(i, off))
    THEN CleanupSessions({i}) /\ UNCHANGED fileVars
    ELSE /\ sessions' = [sessions EXCEPT ![i] = Requesting(WithAck(i, off))]
         /\ UNCHANGED <<fileVars, nextSession, uploaderSessions, downloaderSessions>>

\* cancel_by_session: what the indices say is c's goes, and c's entries with it.
CancelBySession(c) ==
    LET ids == uploaderSessions[c] \cup downloaderSessions[c]
    IN  /\ UnregisterFiles(uploaderFiles[c])
        /\ sessions' = [i \in DOMAIN sessions \ ids |-> sessions[i]]
        /\ uploaderSessions' =
               [Unreferenced(uploaderSessions, ids, Uploaders) EXCEPT ![c] = {}]
        /\ downloaderSessions' =
               [Unreferenced(downloaderSessions, ids, Downloaders) EXCEPT ![c] = {}]
        /\ UNCHANGED nextSession

\* The sessions that lose their uploader when c's are cancelled.
OrphanedBy(c) == uploaderSessions[c] \cap DOMAIN sessions

CancelFile(f) ==
    /\ CleanupSessions({i \in OrphanedBy(Owner[f]) : sessions[i].file = f})
    /\ UnregisterFiles({f})

\* find_session_id: the newest session of this file and downloader, if any.
NewestSession(f, c) ==
    LET mine == {i \in DOMAIN sessions : /\ sessions[i].file = f
                                         /\ sessions[i].downloader = c}
    IN  {i \in mine : \A j \in mine : j <= i}

CancelSession(f, c) == CleanupSessions(NewestSession(f, c)) /\ UNCHANGED fileVars

-------------------------------------------------------------------------------
\* The indices say what the tables say: a session is listed under its uploader and
\* its downloader and nowhere else, a file under its owner.  cancel_by_session and
\* cancel_file find what to cancel through the indices alone.
IndexesAgree ==
    \A c \in Client :
       /\ uploaderFiles[c] = {f \in registrations : Owner[f] = c}
       /\ uploaderSessions[c] = {i \in DOMAIN sessions : Uploader(i) = c}
       /\ downloaderSessions[c] = {i \in DOMAIN sessions : sessions[i].downloader = c}
===============================================================================
