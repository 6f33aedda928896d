---------------------------- MODULE TransferProofs ----------------------------
(***************************************************************************)
(* Proofs about module Transfer and the TransferManager in it, for any     *)
(* clients, files, sizes and windows.                                      *)
(***************************************************************************)
EXTENDS TransferInvariants, FiniteSetTheorems, SequenceTheorems, WellFoundedInduction, TLAPS

-------------------------------------------------------------------------------
(* The tables and their indices: what each operation of the manager keeps *)

LEMMA RegisterKeeps ==
    ASSUME Manager, NEW f \in File, RegisterFile(f), UNCHANGED alive
    PROVE  Manager'
<1>1. UNCHANGED <<sessions, nextSession, uploaderSessions, downloaderSessions>>
  BY DEF RegisterFile, sessionVars
<1>2. Owner \in [File -> Client] BY TransferAssumption
<1>3. /\ registrations' = registrations \cup {f}
      /\ uploaderFiles' = [uploaderFiles EXCEPT ![Owner[f]] = uploaderFiles[Owner[f]] \cup {f}]
      /\ uploaderFiles \in [Client -> SUBSET File] /\ registrations \subseteq File
  BY DEF RegisterFile, Manager, ManagerTypeOK
<1>4. uploaderFiles' \in [Client -> SUBSET File] /\ registrations' \subseteq File BY <1>2, <1>3
<1>5. ManagerTypeOK' BY <1>1, <1>4 DEF Manager, ManagerTypeOK
<1>6. ASSUME NEW c \in Client
      PROVE  uploaderFiles'[c] = {g \in registrations' : Owner[g] = c}
  <2>1. uploaderFiles[c] = {g \in registrations : Owner[g] = c} BY DEF Manager, IndexesAgree
  <2> QED BY <1>2, <1>3, <2>1
<1>7. IndexesAgree' BY <1>1, <1>6 DEF Manager, IndexesAgree, Uploader
<1> QED BY <1>5, <1>7 DEF Manager

LEMMA UnregisterKeeps ==
    ASSUME Manager, NEW files, UnregisterFiles(files)
    PROVE  /\ registrations' \subseteq File /\ uploaderFiles' \in [Client -> SUBSET File]
           /\ registrations' \subseteq registrations
           /\ \A c \in Client : uploaderFiles'[c] = {g \in registrations' : Owner[g] = c}
<1>1. \A c \in Client : /\ uploaderFiles[c] = {g \in registrations : Owner[g] = c}
                        /\ uploaderFiles[c] \subseteq File
  BY DEF Manager, ManagerTypeOK, IndexesAgree
<1> QED BY <1>1 DEF UnregisterFiles, Manager, ManagerTypeOK

\* A new session is listed under both of its parties.
LEMMA StartKeeps ==
    ASSUME Manager, NEW f \in File, NEW c \in Client, NEW off \in Nat,
           StartTransfer(f, c, off), UNCHANGED alive
    PROVE  /\ Manager'
           /\ DOMAIN sessions' = DOMAIN sessions \cup {nextSession}
           /\ nextSession \notin DOMAIN sessions
           /\ \A i \in DOMAIN sessions : sessions'[i] = sessions[i]
           /\ sessions'[nextSession].file = f /\ sessions'[nextSession].downloader = c
<1> DEFINE ts == [file |-> f, downloader |-> c, received |-> off, pending |-> {},
                  next |-> off + Cardinality(FirstWindow(off))]
<1>1. /\ UNCHANGED <<registrations, uploaderFiles>>
      /\ sessions' = [i \in DOMAIN sessions \cup {nextSession} |->
                         IF i = nextSession THEN ts ELSE sessions[i]]
      /\ nextSession' = nextSession + 1
      /\ uploaderSessions' = [uploaderSessions EXCEPT ![Owner[f]] =
                                  uploaderSessions[Owner[f]] \cup {nextSession}]
      /\ downloaderSessions' = [downloaderSessions EXCEPT ![c] =
                                  downloaderSessions[c] \cup {nextSession}]
  BY DEF StartTransfer, fileVars
<1>2. Owner \in [File -> Client] /\ Size \in Nat BY TransferAssumption
<1>3. /\ DOMAIN sessions \subseteq 1..(nextSession - 1) /\ nextSession \in Nat \ {0}
      /\ \A i \in DOMAIN sessions : sessions[i] \in TransferSession
      /\ uploaderSessions \in [Client -> SUBSET Nat]
      /\ downloaderSessions \in [Client -> SUBSET Nat]
  BY DEF Manager, ManagerTypeOK
<1>4. nextSession \notin DOMAIN sessions BY <1>3
<1>5. off + Cardinality(FirstWindow(off)) \in Nat
  <2>1. IsFiniteSet(off..(Size - 1)) /\ FirstWindow(off) \subseteq off..(Size - 1)
    BY <1>2, FS_Interval DEF FirstWindow
  <2>2. Cardinality(FirstWindow(off)) \in Nat BY <2>1, FS_Subset, FS_CardinalityType
  <2> QED BY <2>2
<1>6. ts \in TransferSession BY <1>5 DEF TransferSession
<1> HIDE DEF ts
<1>7. /\ DOMAIN sessions' = DOMAIN sessions \cup {nextSession}
      /\ \A i \in DOMAIN sessions : sessions'[i] = sessions[i]
      /\ sessions'[nextSession] = ts
  BY <1>1, <1>4
<1>8. ManagerTypeOK'
  <2>1. sessions' \in [DOMAIN sessions' -> TransferSession] BY <1>1, <1>3, <1>6
  <2>2. DOMAIN sessions' \subseteq 1..(nextSession' - 1) /\ nextSession' \in Nat \ {0}
    BY <1>1, <1>3, <1>7
  <2>3. /\ uploaderSessions' \in [Client -> SUBSET Nat]
        /\ downloaderSessions' \in [Client -> SUBSET Nat]
    BY <1>1, <1>2, <1>3
  <2> QED BY <1>1, <2>1, <2>2, <2>3 DEF Manager, ManagerTypeOK
<1>9. IndexesAgree'
  <2>1. ts.file = f /\ ts.downloader = c BY DEF ts
  <2>2. ASSUME NEW d \in Client
        PROVE  /\ uploaderSessions'[d] = {i \in DOMAIN sessions' : Owner[sessions'[i].file] = d}
               /\ downloaderSessions'[d] = {i \in DOMAIN sessions' : sessions'[i].downloader = d}
    <3>1. /\ uploaderSessions[d] = {i \in DOMAIN sessions : Owner[sessions[i].file] = d}
          /\ downloaderSessions[d] = {i \in DOMAIN sessions : sessions[i].downloader = d}
      BY DEF Manager, IndexesAgree, Uploader
    <3>2. uploaderSessions'[d] = IF d = Owner[f] THEN uploaderSessions[d] \cup {nextSession}
                                 ELSE uploaderSessions[d]
      BY <1>1, <1>2, <1>3
    <3>3. downloaderSessions'[d] = IF d = c THEN downloaderSessions[d] \cup {nextSession}
                                   ELSE downloaderSessions[d]
      BY <1>1, <1>3
    <3> QED BY <1>4, <1>7, <2>1, <3>1, <3>2, <3>3
  <2> QED BY <1>1, <2>2 DEF Manager, IndexesAgree, Uploader
<1> QED BY <1>4, <1>7, <1>8, <1>9 DEF Manager, ts

\* A step that moves a session on, and neither its file nor its downloader.
LEMMA UpdateKeeps ==
    ASSUME Manager, NEW i \in DOMAIN sessions, NEW ts \in TransferSession,
           ts.file = sessions[i].file, ts.downloader = sessions[i].downloader,
           sessions' = [sessions EXCEPT ![i] = ts],
           UNCHANGED <<fileVars, nextSession, uploaderSessions, downloaderSessions, alive>>
    PROVE  /\ Manager' /\ DOMAIN sessions' = DOMAIN sessions
           /\ \A j \in DOMAIN sessions : /\ sessions'[j].file = sessions[j].file
                                         /\ sessions'[j].downloader = sessions[j].downloader
<1>1. sessions \in [DOMAIN sessions -> TransferSession] BY DEF Manager, ManagerTypeOK
<1>2. /\ DOMAIN sessions' = DOMAIN sessions
      /\ sessions' \in [DOMAIN sessions' -> TransferSession]
      /\ \A j \in DOMAIN sessions : /\ sessions'[j].file = sessions[j].file
                                    /\ sessions'[j].downloader = sessions[j].downloader
  BY <1>1
<1>3. ManagerTypeOK' BY <1>2 DEF Manager, ManagerTypeOK, fileVars
<1>4. IndexesAgree' BY <1>2 DEF Manager, IndexesAgree, Uploader, fileVars
<1> QED BY <1>2, <1>3, <1>4 DEF Manager

\* Sessions removed: the references of each are under its own two parties.
LEMMA RemovalKeeps ==
    ASSUME Manager, NEW ids,
           sessions' = [i \in DOMAIN sessions \ ids |-> sessions[i]],
           UNCHANGED nextSession
    PROVE  /\ DOMAIN sessions' = DOMAIN sessions \ ids
           /\ \A i \in DOMAIN sessions' : sessions'[i] = sessions[i]
           /\ DOMAIN sessions' \subseteq 1..(nextSession' - 1)
           /\ sessions' \in [DOMAIN sessions' -> TransferSession]
           /\ Unreferenced(uploaderSessions, ids, Uploaders) \in [Client -> SUBSET Nat]
           /\ Unreferenced(downloaderSessions, ids, Downloaders) \in [Client -> SUBSET Nat]
           /\ \A c \in Client :
                 /\ Unreferenced(uploaderSessions, ids, Uploaders)[c]
                       = {i \in DOMAIN sessions' : Owner[sessions'[i].file] = c}
                 /\ Unreferenced(downloaderSessions, ids, Downloaders)[c]
                       = {i \in DOMAIN sessions' : sessions'[i].downloader = c}
<1>1. /\ DOMAIN sessions \subseteq 1..(nextSession - 1) /\ nextSession \in Nat \ {0}
      /\ sessions \in [DOMAIN sessions -> TransferSession]
      /\ uploaderSessions \in [Client -> SUBSET Nat]
      /\ downloaderSessions \in [Client -> SUBSET Nat]
  BY DEF Manager, ManagerTypeOK
<1>2. /\ DOMAIN sessions' = DOMAIN sessions \ ids
      /\ \A i \in DOMAIN sessions' : sessions'[i] = sessions[i]
      /\ DOMAIN sessions' \subseteq 1..(nextSession' - 1)
      /\ sessions' \in [DOMAIN sessions' -> TransferSession]
  BY <1>1
<1>3. /\ Unreferenced(uploaderSessions, ids, Uploaders) \in [Client -> SUBSET Nat]
      /\ Unreferenced(downloaderSessions, ids, Downloaders) \in [Client -> SUBSET Nat]
  BY <1>1 DEF Unreferenced
<1>4. ASSUME NEW c \in Client
      PROVE  /\ Unreferenced(uploaderSessions, ids, Uploaders)[c]
                   = {i \in DOMAIN sessions' : Owner[sessions'[i].file] = c}
             /\ Unreferenced(downloaderSessions, ids, Downloaders)[c]
                   = {i \in DOMAIN sessions' : sessions'[i].downloader = c}
  <2>1. /\ uploaderSessions[c] = {i \in DOMAIN sessions : Owner[sessions[i].file] = c}
        /\ downloaderSessions[c] = {i \in DOMAIN sessions : sessions[i].downloader = c}
    BY DEF Manager, IndexesAgree, Uploader
  <2>2. Unreferenced(uploaderSessions, ids, Uploaders)[c]
           = uploaderSessions[c] \ {i \in ids \cap DOMAIN sessions : Owner[sessions[i].file] = c}
    BY DEF Unreferenced, Uploaders, Uploader
  <2>3. Unreferenced(downloaderSessions, ids, Downloaders)[c]
           = downloaderSessions[c] \ {i \in ids \cap DOMAIN sessions : sessions[i].downloader = c}
    BY DEF Unreferenced, Downloaders, DownloaderOf
  <2>4. Unreferenced(uploaderSessions, ids, Uploaders)[c]
           = {i \in DOMAIN sessions' : Owner[sessions'[i].file] = c}
    BY <1>2, <2>1, <2>2
  <2>5. Unreferenced(downloaderSessions, ids, Downloaders)[c]
           = {i \in DOMAIN sessions' : sessions'[i].downloader = c}
    BY <1>2, <2>1, <2>3
  <2> QED BY <2>4, <2>5
<1> QED BY <1>2, <1>3, <1>4

\* Sessions that end, with or without files withdrawn, leave the indices true.
LEMMA CleanupKeeps ==
    ASSUME Manager, NEW ids, CleanupSessions(ids), UNCHANGED alive,
           \/ UNCHANGED fileVars
           \/ \E files : UnregisterFiles(files)
    PROVE  /\ Manager'
           /\ registrations' \subseteq registrations
           /\ DOMAIN sessions' = DOMAIN sessions \ ids
           /\ \A i \in DOMAIN sessions' : sessions'[i] = sessions[i]
<1>1. /\ DOMAIN sessions' = DOMAIN sessions \ ids
      /\ \A i \in DOMAIN sessions' : sessions'[i] = sessions[i]
      /\ DOMAIN sessions' \subseteq 1..(nextSession' - 1)
      /\ sessions' \in [DOMAIN sessions' -> TransferSession]
      /\ uploaderSessions' \in [Client -> SUBSET Nat]
      /\ downloaderSessions' \in [Client -> SUBSET Nat]
      /\ \A c \in Client :
            /\ uploaderSessions'[c] = {i \in DOMAIN sessions' : Owner[sessions'[i].file] = c}
            /\ downloaderSessions'[c] = {i \in DOMAIN sessions' : sessions'[i].downloader = c}
  <2>1. /\ sessions' = [i \in DOMAIN sessions \ ids |-> sessions[i]] /\ UNCHANGED nextSession
        /\ uploaderSessions' = Unreferenced(uploaderSessions, ids, Uploaders)
        /\ downloaderSessions' = Unreferenced(downloaderSessions, ids, Downloaders)
    BY DEF CleanupSessions
  <2>2. /\ DOMAIN sessions' = DOMAIN sessions \ ids
        /\ \A i \in DOMAIN sessions' : sessions'[i] = sessions[i]
        /\ DOMAIN sessions' \subseteq 1..(nextSession' - 1)
        /\ sessions' \in [DOMAIN sessions' -> TransferSession]
    BY <2>1, RemovalKeeps
  <2>3. /\ Unreferenced(uploaderSessions, ids, Uploaders) \in [Client -> SUBSET Nat]
        /\ Unreferenced(downloaderSessions, ids, Downloaders) \in [Client -> SUBSET Nat]
        /\ \A c \in Client :
              /\ Unreferenced(uploaderSessions, ids, Uploaders)[c]
                    = {i \in DOMAIN sessions' : Owner[sessions'[i].file] = c}
              /\ Unreferenced(downloaderSessions, ids, Downloaders)[c]
                    = {i \in DOMAIN sessions' : sessions'[i].downloader = c}
    BY <2>1, RemovalKeeps, ZenonT(40)
  <2> QED BY <2>1, <2>2, <2>3
<1>2. /\ registrations' \subseteq registrations /\ registrations' \subseteq File
      /\ uploaderFiles' \in [Client -> SUBSET File]
      /\ \A c \in Client : uploaderFiles'[c] = {g \in registrations' : Owner[g] = c}
  <2>1. CASE UNCHANGED fileVars BY <2>1 DEF fileVars, Manager, ManagerTypeOK, IndexesAgree
  <2>2. CASE \E files : UnregisterFiles(files) BY <2>2, UnregisterKeeps
  <2> QED BY <2>1, <2>2
<1>3. ManagerTypeOK'
  <2>1. UNCHANGED nextSession BY DEF CleanupSessions
  <2> QED BY <1>1, <1>2, <2>1 DEF Manager, ManagerTypeOK
<1>4. IndexesAgree' BY <1>1, <1>2 DEF IndexesAgree, Uploader
<1> QED BY <1>1, <1>2, <1>3, <1>4 DEF Manager

\* What the indices say is c's is all of it, so nothing of c is left.
LEMMA CancelKeeps ==
    ASSUME Manager, NEW c \in Client, CancelBySession(c), UNCHANGED alive
    PROVE  /\ Manager'
           /\ registrations' \subseteq registrations
           /\ DOMAIN sessions' \subseteq DOMAIN sessions
           /\ \A i \in DOMAIN sessions' : sessions'[i] = sessions[i]
           /\ \A f \in registrations' : Owner[f] # c
           /\ \A i \in DOMAIN sessions' : /\ Owner[sessions'[i].file] # c
                                          /\ sessions'[i].downloader # c
<1> DEFINE ids == uploaderSessions[c] \cup downloaderSessions[c]
           up == Unreferenced(uploaderSessions, ids, Uploaders)
           down == Unreferenced(downloaderSessions, ids, Downloaders)
<1>1. /\ sessions' = [i \in DOMAIN sessions \ ids |-> sessions[i]]
      /\ UNCHANGED nextSession /\ UnregisterFiles(uploaderFiles[c])
      /\ uploaderSessions' = [up EXCEPT ![c] = {}]
      /\ downloaderSessions' = [down EXCEPT ![c] = {}]
  BY DEF CancelBySession
<1>2. /\ DOMAIN sessions' = DOMAIN sessions \ ids
      /\ \A i \in DOMAIN sessions' : sessions'[i] = sessions[i]
      /\ DOMAIN sessions' \subseteq 1..(nextSession' - 1)
      /\ sessions' \in [DOMAIN sessions' -> TransferSession]
      /\ up \in [Client -> SUBSET Nat] /\ down \in [Client -> SUBSET Nat]
      /\ \A d \in Client :
            /\ up[d] = {i \in DOMAIN sessions' : Owner[sessions'[i].file] = d}
            /\ down[d] = {i \in DOMAIN sessions' : sessions'[i].downloader = d}
  <2> HIDE DEF ids
  <2> QED BY <1>1, RemovalKeeps
<1>3. /\ registrations' \subseteq registrations /\ registrations' \subseteq File
      /\ uploaderFiles' \in [Client -> SUBSET File]
      /\ \A d \in Client : uploaderFiles'[d] = {g \in registrations' : Owner[g] = d}
  BY <1>1, UnregisterKeeps
<1>4. /\ uploaderSessions[c] = {i \in DOMAIN sessions : Owner[sessions[i].file] = c}
      /\ downloaderSessions[c] = {i \in DOMAIN sessions : sessions[i].downloader = c}
      /\ uploaderFiles[c] = {g \in registrations : Owner[g] = c}
  BY DEF Manager, IndexesAgree, Uploader
<1>5. \A i \in DOMAIN sessions' : Owner[sessions'[i].file] # c /\ sessions'[i].downloader # c
  BY <1>2, <1>4
<1>6. \A f \in registrations' : Owner[f] # c BY <1>1, <1>4 DEF UnregisterFiles
<1> HIDE DEF ids, up, down
<1>7. /\ uploaderSessions' \in [Client -> SUBSET Nat]
      /\ downloaderSessions' \in [Client -> SUBSET Nat]
      /\ \A d \in Client :
            /\ uploaderSessions'[d] = {i \in DOMAIN sessions' : Owner[sessions'[i].file] = d}
            /\ downloaderSessions'[d] = {i \in DOMAIN sessions' : sessions'[i].downloader = d}
  <2>1. /\ uploaderSessions' \in [Client -> SUBSET Nat]
        /\ downloaderSessions' \in [Client -> SUBSET Nat]
        /\ uploaderSessions'[c] = {} /\ downloaderSessions'[c] = {}
        /\ \A d \in Client \ {c} : uploaderSessions'[d] = up[d] /\ downloaderSessions'[d] = down[d]
    BY <1>1, <1>2
  <2> QED BY <1>2, <1>5, <2>1
<1>8. ManagerTypeOK' BY <1>1, <1>2, <1>3, <1>7 DEF Manager, ManagerTypeOK
<1>9. IndexesAgree' BY <1>3, <1>7 DEF IndexesAgree, Uploader
<1> QED BY <1>2, <1>3, <1>5, <1>6, <1>8, <1>9 DEF Manager

-------------------------------------------------------------------------------
(* The types: the inductive invariant IInv *)

LEMMA TypesAreTypes == IInv => TypeOK
<1> SUFFICES ASSUME IInv PROVE TypeOK OBVIOUS
<1>1. toClient \in [Client -> Seq(Frame)]
  <2>1. toClient \in [Client -> Seq(GoodFrame)] /\ GoodFrame \subseteq Frame
    BY DEF IInv, ServerTypes, GoodFrame
  <2>2. \A s \in Seq(GoodFrame) : s \in Seq(Frame) BY <2>1
  <2> QED BY <2>1, <2>2
<1>2. \A c \in Client : downloads[c] \in [DOMAIN downloads[c] -> Download]
  <2>1. GoodDownload \subseteq Download BY TransferAssumption DEF GoodDownload, Download
  <2> QED BY <2>1 DEF IInv, DownloadTypes, DownloadsGood
<1> QED BY <1>1, <1>2
        DEF IInv, Manager, ServerTypes, UploadTypes, DownloadTypes, DownloadsGood, TypeOK

-------------------------------------------------------------------------------
(* Messages *)

\* What is taken, sent and posted is of its type, and the queues are as well.
LEMMA TakesTypes ==
    ASSUME ServerTypes, NEW c \in Client, NEW kinds, Takes(c, kinds)
    PROVE  /\ alive[c] /\ handling[c].step = "idle"
           /\ Head(toServer[c]) \in Command /\ Head(toServer[c]).kind \in kinds
           /\ toServer' \in [Client -> Seq(Command)]
<1>1. toServer[c] \in Seq(Command) /\ toServer[c] # <<>> BY DEF ServerTypes, Takes
<1>2. Head(toServer[c]) \in Command /\ Tail(toServer[c]) \in Seq(Command)
  BY <1>1, HeadTailProperties
<1> QED BY <1>2 DEF Takes, ServerTypes, LaneFree

LEMMA SendTypes ==
    ASSUME ServerTypes, NEW c \in Client, NEW m \in Command, Send(c, m)
    PROVE  toServer' \in [Client -> Seq(Command)]
<1>1. toServer[c] \in Seq(Command) BY DEF ServerTypes
<1>2. Append(toServer[c], m) \in Seq(Command) BY <1>1, AppendProperties
<1> QED BY <1>2 DEF Send, ServerTypes

LEMMA PostTypes ==
    ASSUME ServerTypes, NEW frames \in [Client -> Seq(GoodFrame)], Post(frames)
    PROVE  toClient' \in [Client -> Seq(GoodFrame)]
<1>1. \A d \in Client : toClient[d] \o frames[d] \in Seq(GoodFrame)
  BY ConcatProperties DEF ServerTypes
<1> QED BY <1>1 DEF Post, ServerTypes

LEMMA OnlyToTypes ==
    ASSUME NEW c \in Client, NEW s \in Seq(GoodFrame)
    PROVE  OnlyTo(c, s) \in [Client -> Seq(GoodFrame)]
<1>1. <<>> \in Seq(GoodFrame) OBVIOUS
<1> QED BY <1>1 DEF OnlyTo, Silent

LEMMA ToOthersTypes ==
    ASSUME NEW c \in Client, NEW x \in GoodFrame
    PROVE  ToOthers(c, x) \in [Client -> Seq(GoodFrame)]
<1>1. <<>> \in Seq(GoodFrame) /\ <<x>> \in Seq(GoodFrame) OBVIOUS
<1> QED BY <1>1 DEF ToOthers

LEMMA FrameTypes ==
    /\ \A f \in File, k \in {"UPOK", "FILE", "DWSTART", "DWNDONE", "DWERR"} :
          [kind |-> k, file |-> f] \in GoodFrame
    /\ \A f \in File, i, n \in Nat :
          n < Size => [kind |-> "DWDATA", file |-> f, id |-> i, off |-> n] \in GoodFrame
    /\ \A c \in Client : [kind |-> "LEAVE", who |-> c] \in GoodFrame
<1>1. ASSUME NEW f \in File, NEW k \in {"UPOK", "FILE", "DWSTART", "DWNDONE", "DWERR"}
      PROVE  [kind |-> k, file |-> f] \in GoodFrame
  <2>1. [kind |-> k, file |-> f] \in [kind : {"UPOK", "FILE", "DWSTART", "DWNDONE", "DWERR"}, file : File]
    OBVIOUS
  <2> QED BY <2>1 DEF GoodFrame, Frame
<1>2. ASSUME NEW f \in File, NEW i \in Nat, NEW n \in Nat, n < Size
      PROVE  [kind |-> "DWDATA", file |-> f, id |-> i, off |-> n] \in GoodFrame
  <2>1. [kind |-> "DWDATA", file |-> f, id |-> i, off |-> n]
           \in [kind : {"DWDATA"}, file : File, id : Nat, off : Nat]
    OBVIOUS
  <2> QED BY <1>2, <2>1 DEF GoodFrame, Frame
<1>3. ASSUME NEW c \in Client PROVE [kind |-> "LEAVE", who |-> c] \in GoodFrame
  <2>1. [kind |-> "LEAVE", who |-> c] \in [kind : {"LEAVE"}, who : Client] OBVIOUS
  <2> QED BY <2>1 DEF GoodFrame, Frame
<1> QED BY <1>1, <1>2, <1>3

LEMMA CommandTypes ==
    ASSUME NEW m \in Command
    PROVE  /\ m.kind = "UPLOAD" => m.what \in Content
           /\ m.kind \in {"UPCANCEL", "DOWNLOAD", "DWNPAUSE", "DWNCANCEL"} => m.file \in File
           /\ m.kind = "DOWNLOAD" => m.off \in Nat
           /\ m.kind = "DWACK" => m.id \in Nat /\ m.off \in Nat
BY DEF Command

\* A step that changes nothing of the manager's, and starts no handler of a client
\* that is gone.
LEMMA QuietStep ==
    ASSUME IInv, UNCHANGED <<managerVars, departed>>,
           alive' \in [Client -> BOOLEAN], \A c \in Client : alive'[c] => alive[c],
           \A c \in departed : handling'[c] = handling[c],
           handling' \in [Client -> Handling],
           \A c \in Client : handling'[c].step # "idle" => handling'[c].file \in File,
           toServer' \in [Client -> Seq(Command)],
           toClient' \in [Client -> Seq(GoodFrame)],
           requested' \subseteq Chunk,
           UploadTypes', DownloadTypes'
    PROVE  IInv'
<1>1. UNCHANGED <<registrations, uploaderFiles, sessions, nextSession, uploaderSessions,
                  downloaderSessions>>
  BY DEF managerVars, fileVars, sessionVars
<1>2. Manager' BY <1>1 DEF IInv, Manager, ManagerTypeOK, IndexesAgree, Uploader
<1>3. ServerTypes'
  <2>1. departed' \subseteq {c \in Client : ~alive'[c]} BY DEF IInv, ServerTypes
  <2> QED BY <2>1 DEF ServerTypes
<1>4. LanesEnd' /\ GoneForGood' BY <1>1 DEF IInv, LanesEnd, GoneForGood, Uploader, DownloaderOf
<1> QED BY <1>2, <1>3, <1>4 DEF IInv

\* A step of a handler that changes the manager's tables.
LEMMA ManagerStep ==
    ASSUME IInv, Manager', UNCHANGED <<alive, departed>>,
           \A f \in registrations' : f \in registrations \/ Owner[f] \notin departed,
           \A i \in DOMAIN sessions' :
              \/ /\ i \in DOMAIN sessions
                 /\ sessions'[i].file = sessions[i].file
                 /\ sessions'[i].downloader = sessions[i].downloader
              \/ /\ Owner[sessions'[i].file] \notin departed
                 /\ sessions'[i].downloader \notin departed,
           \A c \in departed : handling'[c] = handling[c],
           handling' \in [Client -> Handling],
           \A c \in Client : handling'[c].step # "idle" => handling'[c].file \in File,
           toServer' \in [Client -> Seq(Command)],
           toClient' \in [Client -> Seq(GoodFrame)],
           requested' \subseteq Chunk,
           UploadTypes', DownloadTypes'
    PROVE  IInv'
<1>1. ServerTypes' BY DEF IInv, ServerTypes
<1>2. LanesEnd' BY DEF IInv, LanesEnd
<1>3. GoneForGood' BY DEF IInv, GoneForGood, Uploader, DownloaderOf
<1> QED BY <1>1, <1>2, <1>3 DEF IInv

\* The browsers are not touched by a handler.
LEMMA BrowserUnchanged ==
    /\ IInv /\ UNCHANGED downloadVars => DownloadTypes'
    /\ IInv /\ UNCHANGED <<uploaded, uploadVars>> => UploadTypes'
    /\ UNCHANGED browserVars => UNCHANGED <<uploaded, uploadVars, downloadVars>>
<1>1. ASSUME IInv, UNCHANGED downloadVars PROVE DownloadTypes'
  BY <1>1 DEF IInv, DownloadTypes, DownloadsGood, downloadVars
<1>2. ASSUME IInv, UNCHANGED <<uploaded, uploadVars>> PROVE UploadTypes'
  BY <1>2 DEF IInv, UploadTypes, uploadVars
<1> QED BY <1>1, <1>2 DEF browserVars

-------------------------------------------------------------------------------
(* The handlers *)

LEMMA FindFileStep ==
    ASSUME IInv, NEW c \in Client, FindFile(c) PROVE IInv'
<1> DEFINE m == Head(toServer[c])
<1>1. /\ Takes(c, {"DOWNLOAD"}) /\ ServerTypes
      /\ UNCHANGED <<managerVars, alive, departed, requested, browserVars>>
  BY DEF FindFile, IInv
<1>2. /\ alive[c] /\ handling[c].step = "idle" /\ m \in Command /\ m.kind = "DOWNLOAD"
      /\ toServer' \in [Client -> Seq(Command)]
  BY <1>1, TakesTypes
<1>3. m.file \in File /\ m.off \in Nat BY <1>2, CommandTypes
<1>4. c \notin departed /\ alive' \in [Client -> BOOLEAN]
  BY <1>1, <1>2 DEF ServerTypes, IInv, Manager, ManagerTypeOK
<1>5. UploadTypes' /\ DownloadTypes' BY <1>1, BrowserUnchanged
<1>6. toClient' \in [Client -> Seq(GoodFrame)]
  <2>1. CASE UNCHANGED toClient BY <1>1, <2>1 DEF ServerTypes
  <2>2. CASE Post(OnlyTo(c, <<[kind |-> "DWERR", file |-> m.file]>>))
    <3>1. [kind |-> "DWERR", file |-> m.file] \in GoodFrame BY <1>3, FrameTypes
    <3>2. <<[kind |-> "DWERR", file |-> m.file]>> \in Seq(GoodFrame) BY <3>1
    <3> QED BY <1>1, <2>2, <3>2, OnlyToTypes, PostTypes
  <2> QED BY <2>1, <2>2 DEF FindFile
<1>7. /\ handling' \in [Client -> Handling]
      /\ \A d \in Client : handling'[d].step # "idle" => handling'[d].file \in File
      /\ \A d \in departed : handling'[d] = handling[d]
  <2>1. CASE UNCHANGED handling BY <1>1, <2>1 DEF ServerTypes
  <2>2. CASE handling' = [handling EXCEPT ![c] =
                 [Idle EXCEPT !.step = "found", !.file = m.file, !.off = m.off]]
    <3> DEFINE h == [Idle EXCEPT !.step = "found", !.file = m.file, !.off = m.off]
    <3>1. h \in Handling /\ h.file \in File BY <1>3 DEF Idle, Handling
    <3> HIDE DEF h
    <3>2. handling' = [handling EXCEPT ![c] = h] BY <2>2 DEF h
    <3> QED BY <1>1, <1>4, <3>1, <3>2 DEF ServerTypes
  <2> QED BY <2>1, <2>2 DEF FindFile
<1> QED BY <1>1, <1>2, <1>4, <1>5, <1>6, <1>7, QuietStep DEF ServerTypes

\* The uploader of a registered file is not gone while it is alive, nor is the client
\* whose handler this is.
LEMMA StartDownloadStep ==
    ASSUME IInv, NEW c \in Client, StartDownload(c) PROVE IInv'
<1> DEFINE h == handling[c]
<1>1. /\ h.step = "found" /\ h \in Handling /\ h.file \in File /\ ServerTypes
      /\ UNCHANGED <<alive, departed, toServer, toClient, requested, browserVars>>
  BY DEF StartDownload, IInv, ServerTypes
<1>2. h.off \in Nat BY <1>1 DEF Handling
<1>3. c \notin departed BY <1>1 DEF IInv, LanesEnd
<1>4. UploadTypes' /\ DownloadTypes' BY <1>1, BrowserUnchanged
<1>5. alive \in [Client -> BOOLEAN] /\ nextSession \in Nat /\ Size \in Nat
      /\ Owner \in [File -> Client]
  BY TransferAssumption DEF IInv, Manager, ManagerTypeOK
<1>6. CASE ~CanStart(h.file, h.off)
  <2>1. handling' = [handling EXCEPT ![c] = Idle] /\ UNCHANGED managerVars BY <1>6 DEF StartDownload
  <2>2. Idle \in Handling /\ Idle.step = "idle" BY DEF Idle, Handling
  <2>3. /\ handling' \in [Client -> Handling]
        /\ \A d \in Client : handling'[d].step # "idle" => handling'[d].file \in File
        /\ \A d \in departed : handling'[d] = handling[d]
    BY <1>1, <1>3, <2>1, <2>2 DEF ServerTypes
  <2> QED BY <1>1, <1>4, <1>5, <2>1, <2>3, QuietStep DEF ServerTypes
<1>7. CASE CanStart(h.file, h.off)
  <2> DEFINE asks == [file : {h.file}, id : {nextSession}, off : FirstWindow(h.off)]
             g == [h EXCEPT !.step = "started", !.requests = asks]
  <2>1. StartTransfer(h.file, c, h.off) /\ handling' = [handling EXCEPT ![c] = g]
    BY <1>7 DEF StartDownload
  <2>2. FirstWindow(h.off) \subseteq Nat BY <1>2, <1>5 DEF FirstWindow
  <2>3. g \in Handling /\ g.file \in File
    <3>1. asks \subseteq Chunk BY <1>1, <1>5, <2>2 DEF Chunk
    <3> HIDE DEF asks
    <3> QED BY <1>1, <3>1 DEF Handling
  <2> HIDE DEF g
  <2>4. /\ handling' \in [Client -> Handling]
        /\ \A d \in Client : handling'[d].step # "idle" => handling'[d].file \in File
        /\ \A d \in departed : handling'[d] = handling[d]
    BY <1>1, <1>3, <2>1, <2>3 DEF ServerTypes
  <2>5. /\ Manager'
        /\ DOMAIN sessions' = DOMAIN sessions \cup {nextSession}
        /\ \A i \in DOMAIN sessions : sessions'[i] = sessions[i]
        /\ sessions'[nextSession].file = h.file /\ sessions'[nextSession].downloader = c
    <3>1. Manager /\ UNCHANGED alive BY <1>1 DEF IInv
    <3> HIDE DEF h
    <3> QED BY <1>1, <1>2, <2>1, <3>1, StartKeeps
  <2>6. Owner[h.file] \notin departed BY <1>1, <1>7 DEF CanStart, ServerTypes
  <2>7. \A i \in DOMAIN sessions' :
           \/ /\ i \in DOMAIN sessions
              /\ sessions'[i].file = sessions[i].file
              /\ sessions'[i].downloader = sessions[i].downloader
           \/ /\ Owner[sessions'[i].file] \notin departed
              /\ sessions'[i].downloader \notin departed
    BY <1>3, <2>5, <2>6
  <2>8. UNCHANGED registrations BY <2>1 DEF StartTransfer, fileVars
  <2> QED BY <1>1, <1>4, <2>4, <2>5, <2>7, <2>8, ManagerStep DEF ServerTypes
<1> QED BY <1>6, <1>7

LEMMA AnswerDownloadStep ==
    ASSUME IInv, NEW c \in Client, AnswerDownload(c) PROVE IInv'
<1> DEFINE h == handling[c]
           start == [kind |-> "DWSTART", file |-> h.file]
           error == [kind |-> "DWERR", file |-> h.file]
           answer == IF alive[Owner[h.file]] THEN <<start>> ELSE <<start, error>>
<1>1. /\ h.step = "started" /\ h \in Handling /\ h.file \in File /\ ServerTypes
      /\ Post(OnlyTo(c, answer)) /\ PostRequests(h.requests)
      /\ handling' = [handling EXCEPT ![c] = Idle]
      /\ UNCHANGED <<managerVars, alive, departed, toServer, browserVars>>
  BY DEF AnswerDownload, IInv, ServerTypes
<1>2. c \notin departed /\ alive \in [Client -> BOOLEAN]
  BY <1>1 DEF IInv, LanesEnd, Manager, ManagerTypeOK
<1>3. UploadTypes' /\ DownloadTypes' BY <1>1, BrowserUnchanged
<1>4. toClient' \in [Client -> Seq(GoodFrame)]
  <2>1. start \in GoodFrame /\ error \in GoodFrame BY <1>1, FrameTypes
  <2> HIDE DEF start, error
  <2>2. answer \in Seq(GoodFrame) BY <2>1
  <2> HIDE DEF answer
  <2> QED BY <1>1, <2>2, OnlyToTypes, PostTypes
<1>5. requested' \subseteq Chunk
  <2>1. h.requests \subseteq Chunk BY <1>1 DEF Handling
  <2> QED BY <1>1, <2>1 DEF PostRequests, ServerTypes
<1>6. /\ handling' \in [Client -> Handling]
      /\ \A d \in Client : handling'[d].step # "idle" => handling'[d].file \in File
      /\ \A d \in departed : handling'[d] = handling[d]
  <2>1. Idle \in Handling /\ Idle.step = "idle" BY DEF Idle, Handling
  <2> QED BY <1>1, <1>2, <2>1 DEF ServerTypes
<1> QED BY <1>1, <1>2, <1>3, <1>4, <1>5, <1>6, QuietStep DEF ServerTypes

\* What a session asks for next is one of its file's chunks.
LEMMA RequestTypes ==
    ASSUME NEW i \in Nat, NEW ts \in TransferSession
    PROVE  /\ NextRequest(i, ts) \subseteq Chunk
           /\ Requesting(ts) \in TransferSession
           /\ Requesting(ts).file = ts.file /\ Requesting(ts).downloader = ts.downloader
<1>1. NextRequest(i, ts) \subseteq Chunk BY DEF NextRequest, Chunk, TransferSession
<1>2. /\ [ts EXCEPT !.next = ts.next + 1] \in TransferSession
      /\ [ts EXCEPT !.next = ts.next + 1].file = ts.file
      /\ [ts EXCEPT !.next = ts.next + 1].downloader = ts.downloader
  BY DEF TransferSession
<1> QED BY <1>1, <1>2 DEF Requesting

LEMMA SessionFacts ==
    ASSUME Manager, NEW i \in DOMAIN sessions
    PROVE  /\ i \in Nat /\ sessions[i] \in TransferSession
           /\ sessions[i].file \in File /\ sessions[i].downloader \in Client
           /\ \A off \in Nat :
                 /\ WithChunk(i, off) \in TransferSession
                 /\ WithChunk(i, off).file = sessions[i].file
                 /\ WithChunk(i, off).downloader = sessions[i].downloader
                 /\ WithAck(i, off) \in TransferSession
                 /\ WithAck(i, off).file = sessions[i].file
                 /\ WithAck(i, off).downloader = sessions[i].downloader
<1>1. i \in Nat /\ sessions[i] \in TransferSession BY DEF Manager, ManagerTypeOK
<1>2. sessions[i].file \in File /\ sessions[i].downloader \in Client BY <1>1 DEF TransferSession
<1>3. ASSUME NEW off \in Nat
      PROVE  /\ WithChunk(i, off) \in TransferSession
             /\ WithChunk(i, off).file = sessions[i].file
             /\ WithChunk(i, off).downloader = sessions[i].downloader
  <2> DEFINE r == sessions[i]
             p == r.pending \cup {off}
             n == r.received + 1
  <2>1. /\ r \in TransferSession /\ p \in SUBSET Nat /\ n \in Nat
        /\ WithChunk(i, off) = [r EXCEPT !.pending = p, !.received = n]
    BY <1>1 DEF WithChunk, TransferSession
  <2> HIDE DEF r, p, n
  <2>2. /\ [r EXCEPT !.pending = p, !.received = n] \in TransferSession
        /\ [r EXCEPT !.pending = p, !.received = n].file = r.file
        /\ [r EXCEPT !.pending = p, !.received = n].downloader = r.downloader
    BY <2>1 DEF TransferSession
  <2> QED BY <2>1, <2>2 DEF r
<1>4. ASSUME NEW off \in Nat
      PROVE  /\ WithAck(i, off) \in TransferSession
             /\ WithAck(i, off).file = sessions[i].file
             /\ WithAck(i, off).downloader = sessions[i].downloader
  BY <1>1 DEF WithAck, TransferSession
<1> QED BY <1>1, <1>2, <1>3, <1>4

LEMMA HandleChunkStep ==
    ASSUME IInv, NEW c \in Client, HandleChunk(c) PROVE IInv'
<1>1. PICK chunk \in requested :
          \/ /\ TakesChunk(c, chunk.id, chunk.off)
             /\ ReceiveChunk(chunk.id, chunk.off)
             /\ Post(OnlyTo(sessions[chunk.id].downloader,
                   <<[kind |-> "DWDATA", file |-> sessions[chunk.id].file, id |-> chunk.id,
                      off |-> chunk.off]>>))
             /\ requested' = (requested \ {chunk})
                                \cup NextRequest(chunk.id, WithChunk(chunk.id, chunk.off))
          \/ /\ requested' = requested \ {chunk}
             /\ UNCHANGED <<managerVars, toClient>>
  BY DEF HandleChunk, Asked
<1> DEFINE i == chunk.id
           k == chunk.off
<1>2. /\ ServerTypes /\ UNCHANGED <<alive, handling, departed, toServer, browserVars>>
      /\ alive \in [Client -> BOOLEAN] /\ Manager
  BY DEF HandleChunk, IInv, Manager, ManagerTypeOK
<1>3. UploadTypes' /\ DownloadTypes' BY <1>2, BrowserUnchanged
<1>4. chunk \in Chunk /\ i \in Nat /\ k \in Nat BY <1>2 DEF ServerTypes, Chunk
<1>5. CASE requested' = requested \ {chunk} /\ UNCHANGED <<managerVars, toClient>>
  BY <1>2, <1>3, <1>5, QuietStep DEF ServerTypes
<1>6. CASE /\ TakesChunk(c, i, k)
           /\ ReceiveChunk(i, k)
           /\ Post(OnlyTo(sessions[i].downloader,
                 <<[kind |-> "DWDATA", file |-> sessions[i].file, id |-> i, off |-> k]>>))
           /\ requested' = (requested \ {chunk}) \cup NextRequest(i, WithChunk(i, k))
  <2> HIDE DEF i, k
  <2>1. i \in DOMAIN sessions /\ k < Size BY <1>6 DEF TakesChunk
  <2>2. /\ sessions[i].file \in File /\ sessions[i].downloader \in Client
        /\ WithChunk(i, k) \in TransferSession
        /\ WithChunk(i, k).file = sessions[i].file
        /\ WithChunk(i, k).downloader = sessions[i].downloader
    BY <1>2, <1>4, <2>1, SessionFacts
  <2> DEFINE ts == Requesting(WithChunk(i, k))
  <2>3. /\ NextRequest(i, WithChunk(i, k)) \subseteq Chunk /\ ts \in TransferSession
        /\ ts.file = sessions[i].file /\ ts.downloader = sessions[i].downloader
    BY <1>4, <2>2, RequestTypes
  <2>4. /\ sessions' = [sessions EXCEPT ![i] = ts]
        /\ UNCHANGED <<fileVars, nextSession, uploaderSessions, downloaderSessions>>
    BY <1>6 DEF ReceiveChunk
  <2> HIDE DEF ts
  <2>5. /\ Manager' /\ DOMAIN sessions' = DOMAIN sessions
        /\ \A j \in DOMAIN sessions : /\ sessions'[j].file = sessions[j].file
                                      /\ sessions'[j].downloader = sessions[j].downloader
    BY <1>2, <2>1, <2>3, <2>4, UpdateKeeps
  <2>6. requested' \subseteq Chunk BY <1>2, <1>6, <2>3 DEF ServerTypes
  <2>7. toClient' \in [Client -> Seq(GoodFrame)]
    <3> DEFINE frame == [kind |-> "DWDATA", file |-> sessions[i].file, id |-> i, off |-> k]
    <3>1. frame \in GoodFrame BY <1>4, <2>1, <2>2, FrameTypes
    <3> HIDE DEF frame
    <3>2. Post(OnlyTo(sessions[i].downloader, <<frame>>)) /\ <<frame>> \in Seq(GoodFrame)
      BY <1>6, <3>1 DEF frame
    <3> QED BY <1>2, <2>2, <3>2, OnlyToTypes, PostTypes
  <2>8. UNCHANGED registrations BY <2>4 DEF fileVars
  <2> QED BY <1>2, <1>3, <2>5, <2>6, <2>7, <2>8, ManagerStep DEF ServerTypes
<1> QED BY <1>1, <1>5, <1>6

LEMMA HandleAckStep ==
    ASSUME IInv, NEW c \in Client, HandleAck(c) PROVE IInv'
<1> DEFINE m == Head(toServer[c])
           i == m.id
           k == m.off
           f == sessions[i].file
           done == IsComplete(WithAck(i, k))
           next == IF done THEN {} ELSE NextRequest(i, WithAck(i, k))
           answer == IF done THEN <<[kind |-> "DWNDONE", file |-> f]>>
                     ELSE IF next # {} /\ ~alive[Owner[f]]
                          THEN <<[kind |-> "DWERR", file |-> f]>> ELSE <<>>
<1>1. /\ Takes(c, {"DWACK"}) /\ ServerTypes /\ Manager /\ alive \in [Client -> BOOLEAN]
      /\ UNCHANGED <<alive, handling, departed, browserVars>>
      /\ \/ /\ TakesAck(c, i, k) /\ Acknowledge(i, k)
            /\ PostRequests(next) /\ Post(OnlyTo(c, answer))
         \/ UNCHANGED <<managerVars, toClient, requested>>
  BY ZenonT(30) DEF HandleAck, IInv, Manager, ManagerTypeOK
<1>2. m \in Command /\ m.kind = "DWACK" /\ toServer' \in [Client -> Seq(Command)]
  <2>1. ServerTypes /\ Takes(c, {"DWACK"}) BY <1>1
  <2>2. /\ Head(toServer[c]) \in Command /\ Head(toServer[c]).kind \in {"DWACK"}
        /\ toServer' \in [Client -> Seq(Command)]
    BY <2>1, TakesTypes
  <2> QED BY <2>2
<1>3. i \in Nat /\ k \in Nat BY <1>2, CommandTypes
<1>4. UploadTypes' /\ DownloadTypes' BY <1>1, BrowserUnchanged
<1>5. CASE UNCHANGED <<managerVars, toClient, requested>>
  BY <1>1, <1>2, <1>4, <1>5, QuietStep DEF ServerTypes
<1> HIDE DEF i, k
<1>6. CASE /\ TakesAck(c, i, k) /\ Acknowledge(i, k)
           /\ PostRequests(next) /\ Post(OnlyTo(c, answer))
  <2>1. i \in DOMAIN sessions BY <1>6 DEF TakesAck
  <2>2. /\ f \in File /\ WithAck(i, k) \in TransferSession
        /\ WithAck(i, k).file = sessions[i].file
        /\ WithAck(i, k).downloader = sessions[i].downloader
    BY <1>1, <1>3, <2>1, SessionFacts
  <2>3. /\ NextRequest(i, WithAck(i, k)) \subseteq Chunk
        /\ Requesting(WithAck(i, k)) \in TransferSession
        /\ Requesting(WithAck(i, k)).file = sessions[i].file
        /\ Requesting(WithAck(i, k)).downloader = sessions[i].downloader
    BY <1>3, <2>2, RequestTypes
  <2>4. requested' \subseteq Chunk BY <1>1, <1>6, <2>3 DEF PostRequests, ServerTypes
  <2>5. toClient' \in [Client -> Seq(GoodFrame)]
    <3>1. [kind |-> "DWNDONE", file |-> f] \in GoodFrame /\ [kind |-> "DWERR", file |-> f] \in GoodFrame
      BY <2>2, FrameTypes
    <3>2. answer \in Seq(GoodFrame)
      <4> DEFINE a == [kind |-> "DWNDONE", file |-> f]
                 b == [kind |-> "DWERR", file |-> f]
      <4>1. a \in GoodFrame /\ b \in GoodFrame BY <3>1
      <4> HIDE DEF a, b
      <4>2. <<a>> \in Seq(GoodFrame) /\ <<b>> \in Seq(GoodFrame) /\ <<>> \in Seq(GoodFrame) BY <4>1
      <4> QED BY <4>2 DEF a, b
    <3> HIDE DEF answer
    <3> QED BY <1>1, <1>6, <3>2, OnlyToTypes, PostTypes
  <2>6. /\ Manager' /\ registrations' \subseteq registrations
        /\ \A j \in DOMAIN sessions' : /\ j \in DOMAIN sessions
                                       /\ sessions'[j].file = sessions[j].file
                                       /\ sessions'[j].downloader = sessions[j].downloader
    <3>1. CASE done
      <4>1. CleanupSessions({i}) /\ UNCHANGED fileVars /\ UNCHANGED alive
        BY <1>1, <1>6, <3>1 DEF Acknowledge
      <4> QED BY <1>1, <4>1, CleanupKeeps
    <3>2. CASE ~done
      <4> DEFINE ts == Requesting(WithAck(i, k))
      <4>1. /\ sessions' = [sessions EXCEPT ![i] = ts] /\ UNCHANGED alive
            /\ UNCHANGED <<fileVars, nextSession, uploaderSessions, downloaderSessions>>
            /\ ts \in TransferSession
            /\ ts.file = sessions[i].file /\ ts.downloader = sessions[i].downloader
        BY <1>1, <1>6, <2>3, <3>2 DEF Acknowledge
      <4> HIDE DEF ts
      <4>2. /\ Manager' /\ DOMAIN sessions' = DOMAIN sessions
            /\ \A j \in DOMAIN sessions : /\ sessions'[j].file = sessions[j].file
                                          /\ sessions'[j].downloader = sessions[j].downloader
        BY <1>1, <2>1, <4>1, UpdateKeeps
      <4> QED BY <4>1, <4>2 DEF fileVars
    <3> QED BY <3>1, <3>2
  <2> QED BY <1>1, <1>2, <1>4, <2>4, <2>5, <2>6, ManagerStep DEF ServerTypes
<1> QED BY <1>1, <1>5, <1>6

LEMMA HandleUploadStep ==
    ASSUME IInv, NEW c \in Client, HandleUpload(c) PROVE IInv'
<1> DEFINE m == Head(toServer[c])
<1>1. /\ Takes(c, {"UPLOAD"}) /\ ServerTypes /\ UploadTypes /\ Manager
      /\ UNCHANGED <<alive, handling, departed, requested, uploadVars, downloadVars>>
  BY DEF HandleUpload, IInv
<1>2. PICK f \in File \ DOMAIN uploaded :
          /\ Owner[f] = c
          /\ RegisterFile(f)
          /\ uploaded' = [g \in DOMAIN uploaded \cup {f} |->
                 IF g = f THEN m.what ELSE uploaded[g]]
          /\ Post([ToOthers(c, [kind |-> "FILE", file |-> f])
                      EXCEPT ![c] = <<[kind |-> "UPOK", file |-> f]>>])
  BY DEF HandleUpload
<1>3. /\ alive[c] /\ m \in Command /\ m.kind = "UPLOAD" /\ toServer' \in [Client -> Seq(Command)]
  BY <1>1, TakesTypes
<1>4. m.what \in Content BY <1>3, CommandTypes
<1>5. c \notin departed BY <1>1, <1>3 DEF ServerTypes
<1>6. DownloadTypes' BY <1>1, BrowserUnchanged
<1>7. UploadTypes'
  <2> HIDE DEF m
  <2>1. DOMAIN uploaded' \subseteq File /\ uploaded' \in [DOMAIN uploaded' -> Content]
    BY <1>1, <1>2, <1>4 DEF UploadTypes
  <2> QED BY <1>1, <2>1 DEF UploadTypes, uploadVars
<1>8. Manager' BY <1>1, <1>2, RegisterKeeps
<1>9. toClient' \in [Client -> Seq(GoodFrame)]
  <2> DEFINE ok == [kind |-> "UPOK", file |-> f]
             told == [kind |-> "FILE", file |-> f]
             frames == [ToOthers(c, told) EXCEPT ![c] = <<ok>>]
  <2>1. ok \in GoodFrame /\ told \in GoodFrame BY FrameTypes
  <2>2. Post(frames) BY <1>2
  <2> HIDE DEF ok, told
  <2>3. ToOthers(c, told) \in [Client -> Seq(GoodFrame)] /\ <<ok>> \in Seq(GoodFrame)
    BY <2>1, ToOthersTypes
  <2>4. frames \in [Client -> Seq(GoodFrame)] BY <2>3
  <2> HIDE DEF frames
  <2> QED BY <1>1, <2>2, <2>4, PostTypes
<1>10. /\ \A g \in registrations' : g \in registrations \/ Owner[g] \notin departed
       /\ UNCHANGED sessions
  BY <1>2, <1>5 DEF RegisterFile, sessionVars
<1> QED BY <1>1, <1>3, <1>6, <1>7, <1>8, <1>9, <1>10, ManagerStep DEF ServerTypes

LEMMA HandleUpCancelStep ==
    ASSUME IInv, NEW c \in Client, HandleUpCancel(c) PROVE IInv'
<1> DEFINE m == Head(toServer[c])
           ids == {i \in OrphanedBy(Owner[m.file]) : sessions[i].file = m.file}
<1>1. /\ Takes(c, {"UPCANCEL"}) /\ ServerTypes /\ Manager
      /\ CleanupSessions(ids) /\ UnregisterFiles({m.file})
      /\ Post(ToOthers(c, [kind |-> "DWERR", file |-> m.file]))
      /\ UNCHANGED <<alive, handling, departed, requested, browserVars>>
  BY DEF HandleUpCancel, CancelFile, IInv
<1>2. m \in Command /\ m.kind = "UPCANCEL" /\ toServer' \in [Client -> Seq(Command)]
  BY <1>1, TakesTypes
<1>3. m.file \in File BY <1>2, CommandTypes
<1>4. UploadTypes' /\ DownloadTypes' BY <1>1, BrowserUnchanged
<1>5. toClient' \in [Client -> Seq(GoodFrame)]
  <2>1. [kind |-> "DWERR", file |-> m.file] \in GoodFrame BY <1>3, FrameTypes
  <2>2. ToOthers(c, [kind |-> "DWERR", file |-> m.file]) \in [Client -> Seq(GoodFrame)]
    BY <2>1, ToOthersTypes
  <2> QED BY <1>1, <2>2, PostTypes
<1> HIDE DEF ids
<1>6. /\ Manager' /\ registrations' \subseteq registrations
      /\ DOMAIN sessions' = DOMAIN sessions \ ids
      /\ \A i \in DOMAIN sessions' : sessions'[i] = sessions[i]
  BY <1>1, CleanupKeeps
<1>7. \A i \in DOMAIN sessions' : /\ i \in DOMAIN sessions
                                  /\ sessions'[i].file = sessions[i].file
                                  /\ sessions'[i].downloader = sessions[i].downloader
  BY <1>6
<1> QED BY <1>1, <1>2, <1>4, <1>5, <1>6, <1>7, ManagerStep DEF ServerTypes

LEMMA HandleStopStep ==
    ASSUME IInv, NEW c \in Client, HandleStop(c) PROVE IInv'
<1> DEFINE m == Head(toServer[c])
<1> DEFINE ids == NewestSession(m.file, c)
<1>1. /\ Takes(c, {"DWNPAUSE", "DWNCANCEL"}) /\ ServerTypes /\ Manager
      /\ CleanupSessions(ids) /\ UNCHANGED fileVars
      /\ UNCHANGED <<alive, handling, departed, toClient, requested, browserVars>>
  BY DEF HandleStop, CancelSession, IInv
<1>2. toServer' \in [Client -> Seq(Command)] BY <1>1, TakesTypes
<1>3. UploadTypes' /\ DownloadTypes' BY <1>1, BrowserUnchanged
<1> HIDE DEF ids
<1>4. /\ Manager' /\ registrations' \subseteq registrations
      /\ DOMAIN sessions' = DOMAIN sessions \ ids
      /\ \A i \in DOMAIN sessions' : sessions'[i] = sessions[i]
  BY <1>1, CleanupKeeps
<1>5. \A i \in DOMAIN sessions' : /\ i \in DOMAIN sessions
                                  /\ sessions'[i].file = sessions[i].file
                                  /\ sessions'[i].downloader = sessions[i].downloader
  BY <1>4
<1> QED BY <1>1, <1>2, <1>3, <1>4, <1>5, ManagerStep DEF ServerTypes

-------------------------------------------------------------------------------
(* Connections *)

LEMMA CloseStep ==
    ASSUME IInv, NEW c \in Client, Close(c) PROVE IInv'
<1>1. ServerTypes /\ UploadTypes /\ DownloadTypes /\ alive \in [Client -> BOOLEAN]
  BY DEF IInv, Manager, ManagerTypeOK
<1>2. /\ alive' = [alive EXCEPT ![c] = FALSE]
      /\ toClient' = [toClient EXCEPT ![c] = <<>>]
      /\ requested' = {x \in requested : Owner[x.file] # c}
      /\ UNCHANGED <<managerVars, handling, departed, toServer>>
  BY DEF Close
<1>3. UploadTypes'
  <2>1. /\ pendingFile' = [pendingFile EXCEPT ![c] = NoFile]
        /\ uploadSessions' = [uploadSessions EXCEPT ![c] = <<>>]
        /\ cancelUpload' = [cancelUpload EXCEPT ![c] = FALSE]
        /\ UNCHANGED uploaded
    BY DEF Close
  <2>2. DOMAIN <<>> = {} /\ <<>> \in [{} -> Content] OBVIOUS
  <2>3. ASSUME NEW d \in Client
        PROVE  /\ DOMAIN uploadSessions'[d] \subseteq File
               /\ uploadSessions'[d] \in [DOMAIN uploadSessions'[d] -> Content]
    BY <1>1, <2>1, <2>2 DEF UploadTypes
  <2>4. uploadSessions' = [d \in Client |-> uploadSessions'[d]] BY <1>1, <2>1 DEF UploadTypes
  <2> QED BY <1>1, <2>1, <2>3, <2>4 DEF UploadTypes
<1>4. DownloadTypes'
  <2>1. /\ fileSenders' = [fileSenders EXCEPT ![c] = {}]
        /\ downloads' = [downloads EXCEPT ![c] = <<>>]
        /\ UNCHANGED <<asked, saved>>
    BY DEF Close
  <2>2. DOMAIN <<>> = {} /\ <<>> \in [{} -> GoodDownload] OBVIOUS
  <2>3. ASSUME NEW d \in Client
        PROVE  /\ DOMAIN downloads'[d] \subseteq File
               /\ downloads'[d] \in [DOMAIN downloads'[d] -> GoodDownload]
    BY <1>1, <2>1, <2>2 DEF DownloadTypes, DownloadsGood
  <2>4. downloads' = [d \in Client |-> downloads'[d]] BY <1>1, <2>1 DEF DownloadTypes, DownloadsGood
  <2> QED BY <1>1, <2>1, <2>3, <2>4 DEF DownloadTypes, DownloadsGood
<1>5. toClient' \in [Client -> Seq(GoodFrame)] /\ requested' \subseteq Chunk
  <2>1. <<>> \in Seq(GoodFrame) OBVIOUS
  <2> QED BY <1>1, <1>2, <2>1 DEF ServerTypes
<1>6. alive' \in [Client -> BOOLEAN] /\ \A d \in Client : alive'[d] => alive[d] BY <1>1, <1>2
<1> QED BY <1>1, <1>2, <1>3, <1>4, <1>5, <1>6, QuietStep DEF ServerTypes

\* A finite set put into some order is a sequence of its members.
LEMMA SetToSeqType ==
    ASSUME NEW S, IsFiniteSet(S) PROVE SetToSeq(S) \in Seq(S)
<1>1. Cardinality(S) \in Nat /\ ExistsBijection(1..Cardinality(S), S) BY FS_CardinalityType
<1>2. PICK f \in [1..Cardinality(S) -> S] : IsInjective(f)
  BY <1>1 DEF ExistsBijection, Bijection, Injection, IsInjective
<1>3. SetToSeq(S) \in [1..Cardinality(S) -> S] BY <1>2 DEF SetToSeq
<1> QED BY <1>1, <1>3

\* The downloaders that lose c are finitely many, as the sessions are, and are told of its
\* files.
LEMMA ErrorFrames ==
    ASSUME Manager, NEW c \in Client, NEW d \in Client
    PROVE  SetToSeq({[kind |-> "DWERR", file |-> f] : f \in
               {sessions[i].file : i \in {j \in OrphanedBy(c) : DownloaderOf(j) = d}}})
                  \in Seq(Farewells(c))
<1> DEFINE mine == {j \in OrphanedBy(c) : DownloaderOf(j) = d}
           lost == {sessions[i].file : i \in mine}
           errors == {[kind |-> "DWERR", file |-> f] : f \in lost}
           error == [i \in mine |-> [kind |-> "DWERR", file |-> sessions[i].file]]
<1>1. mine \subseteq DOMAIN sessions /\ \A i \in mine : Owner[sessions[i].file] = c
  BY DEF OrphanedBy, Manager, IndexesAgree, Uploader
<1>2. IsFiniteSet(mine)
  <2>1. DOMAIN sessions \subseteq 1..(nextSession - 1) /\ nextSession - 1 \in Int
    BY DEF Manager, ManagerTypeOK
  <2>2. IsFiniteSet(1..(nextSession - 1)) BY <2>1, FS_Interval
  <2>3. mine \subseteq 1..(nextSession - 1) BY <1>1, <2>1
  <2> QED BY <2>2, <2>3, FS_Subset
<1>3. errors \subseteq Farewells(c)
  <2>1. ASSUME NEW i \in mine PROVE sessions[i].file \in File /\ Owner[sessions[i].file] = c
    BY <1>1, SessionFacts
  <2>2. \A f \in lost : f \in File /\ Owner[f] = c BY <2>1
  <2> HIDE DEF lost
  <2>3. ASSUME NEW f \in lost PROVE [kind |-> "DWERR", file |-> f] \in Farewells(c)
    BY <2>2, FrameTypes DEF Farewells
  <2> QED BY <2>3
<1>4. error \in Surjection(mine, errors) BY DEF Surjection
<1>5. IsFiniteSet(errors) BY <1>2, <1>4, FS_Surjection
<1> HIDE DEF errors
<1>6. SetToSeq(errors) \in Seq(errors) BY <1>5, SetToSeqType
<1>7. SetToSeq(errors) \in Seq(Farewells(c)) BY <1>3, <1>6
<1> QED BY <1>7 DEF errors

LEMMA ErrorTypes ==
    ASSUME Manager, NEW c \in Client, NEW d \in Client
    PROVE  SetToSeq({[kind |-> "DWERR", file |-> f] : f \in
               {sessions[i].file : i \in {j \in OrphanedBy(c) : DownloaderOf(j) = d}}})
                  \in Seq(GoodFrame)
<1> DEFINE errors == SetToSeq({[kind |-> "DWERR", file |-> f] : f \in
               {sessions[i].file : i \in {j \in OrphanedBy(c) : DownloaderOf(j) = d}}})
<1>1. errors \in Seq(Farewells(c)) BY ErrorFrames
<1>2. Farewells(c) \subseteq GoodFrame BY DEF Farewells
<1> HIDE DEF errors
<1>3. errors \in Seq(GoodFrame) BY <1>1, <1>2
<1> QED BY <1>3 DEF errors

\* Cleanup waits for c's lane, and takes every session and every file of c away.
LEMMA CleanupStep ==
    ASSUME IInv, NEW c \in Client, Cleanup(c) PROVE IInv'
<1> DEFINE errors(d) == SetToSeq({[kind |-> "DWERR", file |-> f] : f \in
               {sessions[i].file : i \in {j \in OrphanedBy(c) : DownloaderOf(j) = d}}})
           leave == <<[kind |-> "LEAVE", who |-> c]>>
           frames == [d \in Client |-> IF d \in departed' THEN <<>> ELSE errors(d) \o leave]
<1>1. /\ ~alive[c] /\ handling[c].step = "idle" /\ CancelBySession(c)
      /\ departed' = departed \cup {c} /\ Post(frames)
      /\ toServer' = [toServer EXCEPT ![c] = <<>>]
      /\ UNCHANGED <<alive, handling, requested, browserVars>>
  BY DEF Cleanup, LaneFree
<1>2. Manager /\ ServerTypes BY DEF IInv
<1>3. UploadTypes' /\ DownloadTypes' BY <1>1, BrowserUnchanged
<1>4. toClient' \in [Client -> Seq(GoodFrame)]
  <2>1. \A d \in Client : errors(d) \in Seq(GoodFrame) BY <1>2, ErrorTypes
  <2>2. leave \in Seq(GoodFrame) /\ <<>> \in Seq(GoodFrame)
    <3>1. [kind |-> "LEAVE", who |-> c] \in GoodFrame BY FrameTypes
    <3> QED BY <3>1
  <2> HIDE DEF errors, leave
  <2>3. \A d \in Client : errors(d) \o leave \in Seq(GoodFrame) BY <2>1, <2>2, ConcatProperties
  <2>4. frames \in [Client -> Seq(GoodFrame)] BY <2>2, <2>3
  <2> HIDE DEF frames
  <2> QED BY <1>1, <1>2, <2>4, PostTypes
<1> HIDE DEF frames
<1>5. /\ Manager' /\ registrations' \subseteq registrations
      /\ DOMAIN sessions' \subseteq DOMAIN sessions
      /\ \A i \in DOMAIN sessions' : sessions'[i] = sessions[i]
      /\ \A f \in registrations' : Owner[f] # c
      /\ \A i \in DOMAIN sessions' : /\ Owner[sessions'[i].file] # c
                                     /\ sessions'[i].downloader # c
  BY <1>1, <1>2, CancelKeeps
<1>6. ServerTypes'
  <2>1. toServer' \in [Client -> Seq(Command)]
    <3>1. <<>> \in Seq(Command) OBVIOUS
    <3> QED BY <1>1, <1>2, <3>1 DEF ServerTypes
  <2>2. departed' \subseteq {d \in Client : ~alive'[d]} BY <1>1, <1>2 DEF ServerTypes
  <2> QED BY <1>1, <1>2, <1>4, <2>1, <2>2 DEF ServerTypes
<1>7. LanesEnd' BY <1>1 DEF IInv, LanesEnd
<1>8. GoneForGood'
  <2>1. GoneForGood BY DEF IInv
  <2> QED BY <1>1, <1>5, <2>1 DEF GoneForGood, Uploader, DownloaderOf
<1> QED BY <1>3, <1>5, <1>6, <1>7, <1>8 DEF IInv

-------------------------------------------------------------------------------
(* The browsers *)

\* A step of a browser or its user, which the server does not see before its command
\* comes.
LEMMA BrowserStep ==
    ASSUME IInv, UNCHANGED serverVars,
           toServer' \in [Client -> Seq(Command)],
           toClient' \in [Client -> Seq(GoodFrame)],
           requested' \subseteq Chunk,
           UploadTypes', DownloadTypes'
    PROVE  IInv'
<1>1. UNCHANGED <<managerVars, alive, handling, departed>> BY DEF serverVars
<1>2. ServerTypes /\ alive \in [Client -> BOOLEAN] BY DEF IInv, Manager, ManagerTypeOK
<1> QED BY <1>1, <1>2, QuietStep DEF ServerTypes

LEMMA SelectStep ==
    ASSUME IInv, NEW c \in Client, Select(c) PROVE IInv'
<1>1. /\ ServerTypes /\ UploadTypes
      /\ \/ pendingFile' \in {[pendingFile EXCEPT ![c] = x] : x \in Content}
         \/ pendingFile' = [pendingFile EXCEPT ![c] = NoFile]
      /\ cancelUpload' = [cancelUpload EXCEPT ![c] = FALSE]
      /\ UNCHANGED <<serverVars, toServer, toClient, requested, uploaded,
                     uploadSessions, downloadVars>>
  BY DEF Select, IInv
<1>2. DownloadTypes' BY <1>1, BrowserUnchanged
<1>3. UploadTypes'
  <2>1. pendingFile' \in [Client -> Content \cup {NoFile}] BY <1>1 DEF UploadTypes
  <2> QED BY <1>1, <2>1 DEF UploadTypes
<1> QED BY <1>1, <1>2, <1>3, BrowserStep DEF ServerTypes

LEMMA SendUploadStep ==
    ASSUME IInv, NEW c \in Client, SendUpload(c) PROVE IInv'
<1> DEFINE m == [kind |-> "UPLOAD", what |-> pendingFile[c]]
<1>1. /\ ServerTypes /\ UploadTypes /\ pendingFile[c] # NoFile /\ Send(c, m)
      /\ UNCHANGED <<serverVars, toClient, requested, browserVars>>
  BY DEF SendUpload, IInv
<1>2. m \in Command
  <2>1. m \in [kind : {"UPLOAD"}, what : Content] BY <1>1 DEF UploadTypes
  <2> QED BY <2>1 DEF Command
<1> HIDE DEF m
<1>3. toServer' \in [Client -> Seq(Command)] BY <1>1, <1>2, SendTypes
<1>4. UploadTypes' /\ DownloadTypes' BY <1>1, BrowserUnchanged
<1> QED BY <1>1, <1>3, <1>4, BrowserStep DEF ServerTypes

LEMMA ClickCancelUploadStep ==
    ASSUME IInv, NEW c \in Client, NEW f \in File, ClickCancelUpload(c, f) PROVE IInv'
<1> DEFINE m == [kind |-> "UPCANCEL", file |-> f]
           fewer == [g \in DOMAIN uploadSessions[c] \ {f} |-> uploadSessions[c][g]]
<1>1. /\ ServerTypes /\ UploadTypes /\ Send(c, m)
      /\ cancelUpload' = [cancelUpload EXCEPT ![c] = TRUE]
      /\ uploadSessions' = [uploadSessions EXCEPT ![c] = fewer]
      /\ UNCHANGED <<serverVars, toClient, requested, uploaded, pendingFile, downloadVars>>
  BY DEF ClickCancelUpload, IInv
<1>2. m \in Command
  <2>1. m \in [kind : {"UPCANCEL"}, file : File] OBVIOUS
  <2> QED BY <2>1 DEF Command
<1>3. DOMAIN fewer \subseteq File /\ fewer \in [DOMAIN fewer -> Content] BY <1>1 DEF UploadTypes
<1> HIDE DEF m, fewer
<1>4. toServer' \in [Client -> Seq(Command)] BY <1>1, <1>2, SendTypes
<1>5. DownloadTypes' BY <1>1, BrowserUnchanged
<1>6. UploadTypes' BY <1>1, <1>3 DEF UploadTypes
<1> QED BY <1>1, <1>4, <1>5, <1>6, BrowserStep DEF ServerTypes

LEMMA IgnoreRequestStep ==
    ASSUME IInv, NEW c \in Client, IgnoreRequest(c) PROVE IInv'
<1>1. /\ ServerTypes /\ requested' \subseteq requested
      /\ UNCHANGED <<serverVars, toServer, toClient, browserVars>>
  BY DEF IgnoreRequest, IInv
<1>2. UploadTypes' /\ DownloadTypes' BY <1>1, BrowserUnchanged
<1> QED BY <1>1, <1>2, BrowserStep DEF ServerTypes

\* downloadSessions with an entry put in, or some taken out.
LEMMA WithTypes ==
    ASSUME DownloadsGood, NEW c \in Client, NEW f \in File, NEW d \in GoodDownload,
           WithDownload(c, f, d)
    PROVE  DownloadsGood'
<1> DEFINE more == [g \in DOMAIN downloads[c] \cup {f} |-> IF g = f THEN d ELSE downloads[c][g]]
<1>1. downloads' = [downloads EXCEPT ![c] = more] BY DEF WithDownload
<1>2. DOMAIN more \subseteq File /\ more \in [DOMAIN more -> GoodDownload] BY DEF DownloadsGood
<1> HIDE DEF more
<1> QED BY <1>1, <1>2 DEF DownloadsGood

LEMMA WithoutTypes ==
    ASSUME DownloadsGood, NEW c \in Client, NEW files, WithoutDownloads(c, files)
    PROVE  DownloadsGood'
<1> DEFINE fewer == [g \in DOMAIN downloads[c] \ files |-> downloads[c][g]]
<1>1. downloads' = [downloads EXCEPT ![c] = fewer] BY DEF WithoutDownloads
<1>2. DOMAIN fewer \subseteq File /\ fewer \in [DOMAIN fewer -> GoodDownload] BY DEF DownloadsGood
<1> HIDE DEF fewer
<1> QED BY <1>1, <1>2 DEF DownloadsGood

LEMMA HeldTypes ==
    ASSUME DownloadsGood, NEW c \in Client, NEW f \in File, Holds(c, f)
    PROVE  /\ downloads[c][f] \in GoodDownload
           /\ downloads[c][f].chunks \subseteq 0..(Size - 1)
<1>1. downloads[c][f] \in GoodDownload BY DEF DownloadsGood, Holds
<1> QED BY <1>1 DEF GoodDownload

\* The first chunk a browser does not hold, or Size: the least of the numbers it does not.
LEMMA CheckpointIsFirstGap ==
    ASSUME NEW chunks \in SUBSET (0..(Size - 1))
    PROVE  /\ Checkpoint(chunks) \in 0..Size
           /\ 0..(Checkpoint(chunks) - 1) \subseteq chunks /\ Checkpoint(chunks) \notin chunks
<1> DEFINE less == OpToRel(<, Nat)
           gaps == Nat \ chunks
<1>1. Size \in Nat \ {0} /\ Size \in gaps BY TransferAssumption
<1>2. IsWellFoundedOn(less, Nat) BY NatLessThanWellFounded, Zenon
<1>3. \A x, y \in Nat : x < y => <<x, y>> \in less BY DEF OpToRel
<1> HIDE DEF less
<1>4. PICK k \in gaps : \A y \in gaps : ~ (<<y, k>> \in less) BY <1>1, <1>2, WFMin
<1>5. \A y \in gaps : ~ (y < k) BY <1>3, <1>4
<1>6. k \in 0..Size /\ 0..(k - 1) \subseteq chunks /\ k \notin chunks BY <1>1, <1>5
<1> QED BY <1>6 DEF Checkpoint

LEMMA ClickDownloadStep ==
    ASSUME IInv, NEW c \in Client, NEW f \in File, ClickDownload(c, f) PROVE IInv'
<1> DEFINE m == [kind |-> "DOWNLOAD", file |-> f, off |-> 0]
<1>1. /\ ServerTypes /\ DownloadTypes /\ Send(c, m)
      /\ asked < MaxDownload /\ asked' = asked + 1
      /\ UNCHANGED <<serverVars, toClient, requested, uploaded, uploadVars, fileSenders,
                     downloads, saved>>
  BY DEF ClickDownload, SendDownload, IInv
<1>2. m \in Command
  <2>1. m \in [kind : {"DOWNLOAD"}, file : File, off : Nat] OBVIOUS
  <2> QED BY <2>1 DEF Command
<1> HIDE DEF m
<1>3. toServer' \in [Client -> Seq(Command)] BY <1>1, <1>2, SendTypes
<1>4. UploadTypes' BY <1>1, BrowserUnchanged
<1>5. DownloadTypes' BY <1>1, ClientAssumption DEF DownloadTypes, DownloadsGood
<1> QED BY <1>1, <1>3, <1>4, <1>5, BrowserStep DEF ServerTypes

LEMMA ClickPauseStep ==
    ASSUME IInv, NEW c \in Client, NEW f \in File, ClickPause(c, f) PROVE IInv'
<1> DEFINE m == [kind |-> "DWNPAUSE", file |-> f]
           d == [downloads[c][f] EXCEPT !.paused = TRUE]
<1>1. /\ ServerTypes /\ DownloadTypes /\ Holds(c, f) /\ Send(c, m) /\ WithDownload(c, f, d)
      /\ UNCHANGED <<serverVars, toClient, requested, uploaded, uploadVars, fileSenders,
                     asked, saved>>
  BY DEF ClickPause, IInv
<1>2. m \in Command
  <2>1. m \in [kind : {"DWNPAUSE", "DWNCANCEL"}, file : File] OBVIOUS
  <2> QED BY <2>1 DEF Command
<1>3. d \in GoodDownload
  <2>1. downloads[c][f] \in GoodDownload BY <1>1, HeldTypes DEF DownloadTypes
  <2> QED BY <2>1 DEF GoodDownload
<1> HIDE DEF m, d
<1>4. toServer' \in [Client -> Seq(Command)] BY <1>1, <1>2, SendTypes
<1>5. UploadTypes' BY <1>1, BrowserUnchanged
<1>6. DownloadTypes'
  <2>1. DownloadsGood' BY <1>1, <1>3, WithTypes DEF DownloadTypes
  <2> QED BY <1>1, <2>1 DEF DownloadTypes
<1> QED BY <1>1, <1>4, <1>5, <1>6, BrowserStep DEF ServerTypes

LEMMA ClickCancelStep ==
    ASSUME IInv, NEW c \in Client, NEW f \in File, ClickCancel(c, f) PROVE IInv'
<1> DEFINE m == [kind |-> "DWNCANCEL", file |-> f]
<1>1. /\ ServerTypes /\ DownloadTypes /\ Send(c, m) /\ WithoutDownloads(c, {f})
      /\ UNCHANGED <<serverVars, toClient, requested, uploaded, uploadVars, fileSenders,
                     asked, saved>>
  BY DEF ClickCancel, IInv
<1>2. m \in Command
  <2>1. m \in [kind : {"DWNPAUSE", "DWNCANCEL"}, file : File] OBVIOUS
  <2> QED BY <2>1 DEF Command
<1> HIDE DEF m
<1>3. toServer' \in [Client -> Seq(Command)] BY <1>1, <1>2, SendTypes
<1>4. UploadTypes' BY <1>1, BrowserUnchanged
<1>5. DownloadTypes'
  <2>1. DownloadsGood' BY <1>1, WithoutTypes DEF DownloadTypes
  <2> QED BY <1>1, <2>1 DEF DownloadTypes
<1> QED BY <1>1, <1>3, <1>4, <1>5, BrowserStep DEF ServerTypes

\* What a browser saves has no chunk from outside the file.
LEMMA FinishTypes ==
    ASSUME DownloadTypes, NEW c \in Client, NEW f \in File, Holds(c, f),
           FinishDownload(c, f), UNCHANGED <<fileSenders, asked>>
    PROVE  DownloadTypes'
<1>1. DownloadsGood' BY WithoutTypes DEF DownloadTypes, FinishDownload
<1>2. downloads[c][f].chunks \subseteq 0..(Size - 1) BY HeldTypes DEF DownloadTypes
<1>3. saved' = saved \cup {[file |-> f, chunks |-> downloads[c][f].chunks]} BY DEF FinishDownload
<1>4. \A s \in saved' : s.file \in File /\ s.chunks \subseteq 0..(Size - 1)
  BY <1>2, <1>3 DEF DownloadTypes
<1> QED BY <1>1, <1>4 DEF DownloadTypes

LEMMA ClickResumeStep ==
    ASSUME IInv, NEW c \in Client, NEW f \in File, ClickResume(c, f) PROVE IInv'
<1> DEFINE chunks == downloads[c][f].chunks
           k == Checkpoint(chunks)
           m == [kind |-> "DOWNLOAD", file |-> f, off |-> k]
           d == [chunks |-> {x \in chunks : x < k}, paused |-> FALSE]
<1>1. /\ ServerTypes /\ DownloadTypes /\ Holds(c, f)
      /\ UNCHANGED <<serverVars, toClient, requested, uploaded, uploadVars, fileSenders>>
  BY DEF ClickResume, IInv
<1>2. UploadTypes' BY <1>1, BrowserUnchanged
<1>3. chunks \subseteq 0..(Size - 1) BY <1>1, HeldTypes DEF DownloadTypes
<1>4. k \in 0..Size
  <2> HIDE DEF chunks
  <2> QED BY <1>3, CheckpointIsFirstGap
<1>5. CASE FinishDownload(c, f) /\ UNCHANGED <<toServer, asked>>
  <2>1. DownloadTypes' BY <1>1, <1>5, FinishTypes
  <2> QED BY <1>1, <1>2, <1>5, <2>1, BrowserStep DEF ServerTypes
<1>6. CASE WithDownload(c, f, d) /\ SendDownload(c, f, k) /\ UNCHANGED saved
  <2>1. m \in Command
    <3>1. Size \in Nat BY TransferAssumption
    <3>2. k \in Nat BY <1>4, <3>1
    <3> HIDE DEF k
    <3>3. m \in [kind : {"DOWNLOAD"}, file : File, off : Nat] BY <3>2
    <3> QED BY <3>3 DEF Command
  <2>2. d \in GoodDownload
    <3> HIDE DEF chunks, k
    <3> QED BY <1>3 DEF GoodDownload
  <2>3. /\ Send(c, m) /\ WithDownload(c, f, d)
        /\ asked < MaxDownload /\ asked' = asked + 1 /\ UNCHANGED saved
    BY <1>6 DEF SendDownload
  <2> HIDE DEF m, d
  <2>4. toServer' \in [Client -> Seq(Command)] BY <1>1, <2>1, <2>3, SendTypes
  <2>5. DownloadTypes'
    <3>1. DownloadsGood' BY <1>1, <2>2, <2>3, WithTypes DEF DownloadTypes
    <3> QED BY <1>1, <2>3, <3>1, ClientAssumption DEF DownloadTypes
  <2> QED BY <1>1, <1>2, <2>4, <2>5, BrowserStep DEF ServerTypes
<1> QED BY <1>5, <1>6 DEF ClickResume

LEMMA GoodFrameTypes ==
    ASSUME NEW x \in GoodFrame
    PROVE  /\ x.kind \in {"UPOK", "FILE", "DWSTART", "DWDATA", "DWNDONE", "DWERR"} => x.file \in File
           /\ x.kind = "DWDATA" => x.id \in Nat /\ x.off \in 0..(Size - 1)
<1>1. Size \in Nat BY TransferAssumption
<1> QED BY <1>1 DEF GoodFrame, Frame

LEMMA ReceiveStep ==
    ASSUME IInv, NEW c \in Client, Receive(c) PROVE IInv'
<1> DEFINE x == Head(toClient[c])
<1>1. /\ ServerTypes /\ UploadTypes /\ DownloadTypes /\ toClient[c] # <<>>
      /\ toClient' = [toClient EXCEPT ![c] = Tail(toClient[c])]
      /\ UNCHANGED <<serverVars, requested, uploaded, asked>>
  BY DEF Receive, IInv
<1>2. x \in GoodFrame /\ toClient' \in [Client -> Seq(GoodFrame)]
  <2>1. toClient[c] \in Seq(GoodFrame) BY <1>1 DEF ServerTypes
  <2>2. x \in GoodFrame /\ Tail(toClient[c]) \in Seq(GoodFrame) BY <1>1, <2>1, HeadTailProperties
  <2> QED BY <1>1, <2>2 DEF ServerTypes
<1>3. /\ x.kind \in {"UPOK", "FILE", "DWSTART", "DWDATA", "DWNDONE", "DWERR"} => x.file \in File
      /\ x.kind = "DWDATA" => x.id \in Nat /\ x.off \in 0..(Size - 1)
  BY <1>2, GoodFrameTypes
<1>4. ASSUME NEW files, Expire(c, files), UNCHANGED <<uploadVars, toServer, saved>>
      PROVE  IInv'
  <2>1. DownloadsGood' BY <1>1, <1>4, WithoutTypes DEF DownloadTypes, Expire
  <2>2. fileSenders' \in [Client -> SUBSET File] BY <1>1, <1>4 DEF DownloadTypes, Expire
  <2>3. DownloadTypes' BY <1>1, <1>4, <2>1, <2>2 DEF DownloadTypes
  <2>4. UploadTypes' BY <1>1, <1>4, BrowserUnchanged
  <2> QED BY <1>1, <1>2, <1>4, <2>3, <2>4, BrowserStep DEF ServerTypes
<1>5. CASE /\ x.kind = "UPOK" /\ BindUpload(c, x.file)
           /\ UNCHANGED <<cancelUpload, fileSenders, downloads, toServer, saved>>
  <2>1. DownloadTypes' BY <1>1, <1>5 DEF DownloadTypes, DownloadsGood
  <2>2. UploadTypes'
    <3>1. CASE UNCHANGED <<pendingFile, uploadSessions>> BY <1>1, <1>5, <3>1 DEF UploadTypes
    <3>2. CASE pendingFile[c] # NoFile
      <4> DEFINE more == [g \in DOMAIN uploadSessions[c] \cup {x.file} |->
                             IF g = x.file THEN pendingFile[c] ELSE uploadSessions[c][g]]
      <4>1. /\ uploadSessions' = [uploadSessions EXCEPT ![c] = more]
            /\ pendingFile' = [pendingFile EXCEPT ![c] = NoFile]
        BY <1>5, <3>2 DEF BindUpload
      <4>2. pendingFile[c] \in Content BY <1>1, <3>2 DEF UploadTypes
      <4>3. DOMAIN more \subseteq File /\ more \in [DOMAIN more -> Content]
        <5> HIDE DEF x
        <5> QED BY <1>1, <1>3, <1>5, <4>2 DEF UploadTypes
      <4> HIDE DEF more
      <4> QED BY <1>1, <1>5, <4>1, <4>3 DEF UploadTypes
    <3> QED BY <1>5, <3>1, <3>2 DEF BindUpload
  <2> QED BY <1>1, <1>2, <1>5, <2>1, <2>2, BrowserStep DEF ServerTypes
<1>6. CASE /\ x.kind = "FILE"
           /\ fileSenders' = [fileSenders EXCEPT ![c] = fileSenders[c] \cup {x.file}]
           /\ UNCHANGED <<uploadVars, downloads, toServer, saved>>
  <2> HIDE DEF x
  <2>1. fileSenders' \in [Client -> SUBSET File] BY <1>1, <1>3, <1>6 DEF DownloadTypes
  <2>2. DownloadTypes' BY <1>1, <1>6, <2>1 DEF DownloadTypes, DownloadsGood
  <2>3. UploadTypes' BY <1>1, <1>6, BrowserUnchanged
  <2> QED BY <1>1, <1>2, <1>6, <2>2, <2>3, BrowserStep DEF ServerTypes
<1>7. CASE /\ x.kind = "DWSTART"
           /\ IF Holds(c, x.file) THEN UNCHANGED downloads
              ELSE WithDownload(c, x.file, [chunks |-> {}, paused |-> FALSE])
           /\ UNCHANGED <<uploadVars, fileSenders, toServer, saved>>
  <2>1. DownloadsGood'
    <3>1. CASE UNCHANGED downloads BY <1>1, <3>1 DEF DownloadTypes, DownloadsGood
    <3>2. CASE WithDownload(c, x.file, [chunks |-> {}, paused |-> FALSE])
      <4>1. [chunks |-> {}, paused |-> FALSE] \in GoodDownload BY DEF GoodDownload
      <4>2. DownloadsGood /\ x.file \in File BY <1>1, <1>3, <1>7 DEF DownloadTypes
      <4> QED BY <3>2, <4>1, <4>2, WithTypes
    <3> QED BY <1>7, <3>1, <3>2
  <2>2. DownloadTypes' BY <1>1, <1>7, <2>1 DEF DownloadTypes
  <2>3. UploadTypes' BY <1>1, <1>7, BrowserUnchanged
  <2> QED BY <1>1, <1>2, <1>7, <2>2, <2>3, BrowserStep DEF ServerTypes
<1>8. CASE /\ x.kind = "DWDATA" /\ ReceiveData(c, x)
           /\ UNCHANGED <<uploadVars, fileSenders, saved>>
  <2>1. UploadTypes' BY <1>1, <1>8, BrowserUnchanged
  <2>2. CASE UNCHANGED <<downloads, toServer>>
    <3>1. DownloadTypes' BY <1>1, <1>8, <2>2 DEF DownloadTypes, DownloadsGood
    <3> QED BY <1>1, <1>2, <2>1, <2>2, <3>1, BrowserStep DEF ServerTypes
  <2>3. CASE Holds(c, x.file)
    <3> DEFINE m == [kind |-> "DWACK", id |-> x.id, off |-> x.off]
               r == downloads[c][x.file]
               d == [r EXCEPT !.chunks = r.chunks \cup {x.off}]
    <3>1. WithDownload(c, x.file, d) /\ Send(c, m) BY <1>8, <2>3 DEF ReceiveData
    <3>2. m \in Command
      <4>1. x.id \in Nat /\ x.off \in Nat BY <1>3, <1>8
      <4> HIDE DEF x
      <4>2. m \in [kind : {"DWACK"}, id : Nat, off : Nat] BY <4>1
      <4> QED BY <4>2 DEF Command
    <3>3. d \in GoodDownload
      <4>1. r \in GoodDownload BY <1>1, <1>3, <1>8, <2>3, HeldTypes DEF DownloadTypes
      <4>2. x.off \in 0..(Size - 1) BY <1>3, <1>8
      <4> HIDE DEF x, r
      <4> QED BY <4>1, <4>2 DEF GoodDownload
    <3> HIDE DEF m, d
    <3>4. toServer' \in [Client -> Seq(Command)] BY <1>1, <3>1, <3>2, SendTypes
    <3>5. DownloadsGood' BY <1>1, <1>3, <1>8, <3>1, <3>3, WithTypes DEF DownloadTypes
    <3>6. DownloadTypes' BY <1>1, <1>8, <3>5 DEF DownloadTypes
    <3> QED BY <1>1, <1>2, <2>1, <3>4, <3>6, BrowserStep DEF ServerTypes
  <2> QED BY <1>8, <2>2, <2>3 DEF ReceiveData
<1>9. CASE /\ x.kind = "DWNDONE"
           /\ IF Holds(c, x.file) THEN FinishDownload(c, x.file)
              ELSE UNCHANGED <<downloads, saved>>
           /\ UNCHANGED <<uploadVars, fileSenders, toServer>>
  <2>1. DownloadTypes'
    <3>1. CASE UNCHANGED <<downloads, saved>> BY <1>1, <1>9, <3>1 DEF DownloadTypes, DownloadsGood
    <3>2. CASE Holds(c, x.file) /\ FinishDownload(c, x.file) BY <1>1, <1>3, <1>9, <3>2, FinishTypes
    <3> QED BY <1>9, <3>1, <3>2
  <2>2. UploadTypes' BY <1>1, <1>9, BrowserUnchanged
  <2> QED BY <1>1, <1>2, <1>9, <2>1, <2>2, BrowserStep DEF ServerTypes
<1> QED BY <1>4, <1>5, <1>6, <1>7, <1>8, <1>9 DEF Receive

-------------------------------------------------------------------------------
(* The theorems *)

\* The invariant holds at the start.
LEMMA InitIInv == Init => IInv
<1> SUFFICES ASSUME Init PROVE IInv OBVIOUS
<1>1. /\ ManagerInit /\ handling = [c \in Client |-> Idle] /\ departed = {}
      /\ toServer = [c \in Client |-> <<>>] /\ toClient = [c \in Client |-> <<>>]
      /\ requested = {} /\ uploaded = <<>> /\ pendingFile = [c \in Client |-> NoFile]
      /\ uploadSessions = [c \in Client |-> <<>>] /\ cancelUpload = [c \in Client |-> FALSE]
      /\ fileSenders = [c \in Client |-> {}] /\ downloads = [c \in Client |-> <<>>]
      /\ asked = 0 /\ saved = {}
  BY DEF Init, Silent
<1>2. DOMAIN <<>> = {} /\ \A S : <<>> \in [{} -> S] /\ <<>> \in Seq(S) OBVIOUS
<1>3. Manager
  <2>1. DOMAIN sessions = {} /\ sessions \in [{} -> TransferSession] BY <1>1, <1>2 DEF ManagerInit
  <2>2. ManagerTypeOK BY <1>1, <2>1 DEF ManagerInit, ManagerTypeOK
  <2>3. IndexesAgree BY <1>1, <2>1 DEF ManagerInit, IndexesAgree
  <2> QED BY <2>2, <2>3 DEF Manager
<1>4. ServerTypes
  <2>1. Idle \in Handling /\ Idle.step = "idle" BY DEF Idle, Handling
  <2>2. handling \in [Client -> Handling] /\ \A c \in Client : handling[c].step = "idle"
    BY <1>1, <2>1
  <2>3. toServer \in [Client -> Seq(Command)] /\ toClient \in [Client -> Seq(GoodFrame)]
    BY <1>1, <1>2
  <2> QED BY <1>1, <2>2, <2>3 DEF ServerTypes
<1>5. UploadTypes BY <1>1, <1>2 DEF UploadTypes
<1>6. DownloadTypes BY <1>1, <1>2, ClientAssumption DEF DownloadTypes, DownloadsGood
<1>7. LanesEnd /\ GoneForGood BY <1>1 DEF LanesEnd, GoneForGood
<1> QED BY <1>3, <1>4, <1>5, <1>6, <1>7 DEF IInv

\* Every step keeps the types and the indices.
LEMMA NextIInv == IInv /\ [Next]_vars => IInv'
<1> SUFFICES ASSUME IInv, [Next]_vars PROVE IInv' OBVIOUS
<1>1. ASSUME NEW c \in Client, Server(c) PROVE IInv'
  BY <1>1, FindFileStep, StartDownloadStep, AnswerDownloadStep, HandleChunkStep,
     HandleAckStep, HandleStopStep, HandleUploadStep, HandleUpCancelStep, CleanupStep
     DEF Server
<1>2. ASSUME NEW c \in Client, Browser(c) PROVE IInv'
  BY <1>2, IgnoreRequestStep, ReceiveStep DEF Browser
<1>3. ASSUME NEW c \in Client, User(c) PROVE IInv'
  BY <1>3, SelectStep, SendUploadStep, ClickCancelUploadStep, ClickDownloadStep,
     ClickPauseStep, ClickResumeStep, ClickCancelStep, CloseStep DEF User
<1>4. CASE UNCHANGED vars
  <2>1. UNCHANGED <<serverVars, toServer, toClient, requested, browserVars>> BY <1>4 DEF vars
  <2>2. UploadTypes' /\ DownloadTypes' BY <2>1, BrowserUnchanged
  <2>3. ServerTypes BY DEF IInv
  <2> QED BY <2>1, <2>2, <2>3, BrowserStep DEF ServerTypes
<1> QED BY <1>1, <1>2, <1>3, <1>4 DEF Next

LEMMA Inductive == Spec => []IInv
BY InitIInv, NextIInv, PTL DEF Spec

\* The manager's tables, what is on the way and what the browsers keep have their types; what
\* a user is handed holds no chunk from outside the file, wherever a resumed download began.
THEOREM TypeCorrect == Spec => []TypeOK
BY Inductive, TypesAreTypes, PTL

\* cancel_by_session and cancel_file, which go by the indices alone, miss nothing: after any
\* interleaving of handlers, closes and cleanups the indices list each session under its two
\* parties and each file under its owner.
THEOREM IndexesStayTrue == Spec => []IndexesAgree
<1>1. IInv => IndexesAgree BY DEF IInv, Manager
<1> QED BY <1>1, Inductive, PTL

\* AppRouter::cleanup is final: no DOWNLOAD half way through its handler, of this client or of
\* another, puts a session or a file of a client back once its cleanup has run.
THEOREM GoneStaysGone == Spec => []GoneForGood
<1>1. IInv => GoneForGood BY DEF IInv
<1> QED BY <1>1, Inductive, PTL

-------------------------------------------------------------------------------
(* What a browser hands over is whole: what appending to a queue changes *)

\* What a command appended to a queue changes.
LEMMA Appended ==
    ASSUME NEW q \in Seq(Command), NEW m \in Command, NEW f
    PROVE  /\ StopIn(Append(q, m), f) <=> (StopIn(q, f) \/ IsStop(m, f))
           /\ StartIn(Append(q, m), f) <=> (StartIn(q, f) \/ IsStart(m, f))
           /\ Alternate(Append(q, m), f) <=> (Alternate(q, f) /\ (IsStart(m, f) => Ended(q, f)))
           /\ Fenced(Append(q, m), f) <=> (Fenced(q, f) /\ (IsStart(m, f) => StopIn(q, f)))
           /\ Ended(Append(q, m), f) <=> (IsStop(m, f) \/ (Ended(q, f) /\ ~IsStart(m, f)))
<1> DEFINE r == Append(q, m)
<1>1. /\ Len(r) = Len(q) + 1 /\ Len(q) \in Nat /\ r[Len(q) + 1] = m
      /\ \A n \in 1..Len(q) : r[n] = q[n]
  OBVIOUS
<1> HIDE DEF r
<1>2. \A x : IsStart(x, f) => ~IsStop(x, f) BY DEF IsStart, IsStop
<1>3. StopIn(r, f) <=> (StopIn(q, f) \/ IsStop(m, f)) BY <1>1 DEF StopIn
<1>4. StartIn(r, f) <=> (StartIn(q, f) \/ IsStart(m, f)) BY <1>1 DEF StartIn
<1>5. Alternate(r, f) <=> (Alternate(q, f) /\ (IsStart(m, f) => Ended(q, f)))
  BY <1>1, <1>2 DEF Alternate, Ended
<1>6. Fenced(r, f) <=> (Fenced(q, f) /\ (IsStart(m, f) => StopIn(q, f))) BY <1>1 DEF Fenced, StopIn
<1>7. Ended(r, f) <=> (IsStop(m, f) \/ (Ended(q, f) /\ ~IsStart(m, f))) BY <1>1, <1>2 DEF Ended
<1> QED BY <1>3, <1>4, <1>5, <1>6, <1>7 DEF r

\* The same, of where starts resume.
LEMMA AppendedResumes ==
    ASSUME NEW q \in Seq(Command), NEW m \in Command, NEW f, NEW kept
    PROVE  Resumes(Append(q, m), f, kept) <=>
              (IsStop(m, f) \/ (Resumes(q, f, kept) /\ (IsStart(m, f) => 0..(m.off - 1) \subseteq kept)))
<1> DEFINE r == Append(q, m)
           Within(x) == 0..(x.off - 1) \subseteq kept
<1>1. /\ Len(r) = Len(q) + 1 /\ Len(q) \in Nat /\ r[Len(q) + 1] = m
      /\ \A n \in 1..Len(q) : r[n] = q[n]
  OBVIOUS
<1>2. \A s : Resumes(s, f, kept) <=> \A n \in 1..Len(s) :
          IsStart(s[n], f) /\ ~(\E l \in 1..Len(s) : n < l /\ IsStop(s[l], f)) => Within(s[n])
  BY DEF Resumes
<1>3. \A x : IsStart(x, f) => ~IsStop(x, f) BY DEF IsStart, IsStop
<1> HIDE DEF r, Within
<1>4. Resumes(r, f, kept) <=> (IsStop(m, f) \/ (Resumes(q, f, kept) /\ (IsStart(m, f) => Within(m))))
  BY <1>1, <1>2, <1>3
<1> QED BY <1>4 DEF r, Within

\* The same, of the acknowledgements.
LEMMA AppendedAcks ==
    ASSUME NEW q \in Seq(Command), NEW m \in Command, NEW f, NEW i
    PROVE  /\ IsAck(m, i) => Acks(Append(q, m), i) = Acks(q, i) \cup {m.off}
           /\ ~IsAck(m, i) => Acks(Append(q, m), i) = Acks(q, i)
           /\ ~StopIn(q, f) => InTime(q, f, i) = Acks(q, i)
           /\ InTime(q, f, i) \subseteq Acks(q, i)
           /\ StopIn(q, f) \/ ~IsAck(m, i) => InTime(Append(q, m), f, i) = InTime(q, f, i)
<1> DEFINE r == Append(q, m)
<1>1. /\ Len(r) = Len(q) + 1 /\ Len(q) \in Nat /\ r[Len(q) + 1] = m
      /\ \A n \in 1..Len(q) : r[n] = q[n]
  OBVIOUS
<1> HIDE DEF r
<1>2. \A s, k : k \in Acks(s, i) <=> \E n \in 1..Len(s) : IsAck(s[n], i) /\ k = s[n].off BY DEF Acks
<1>3. \A s, k : k \in InTime(s, f, i) <=> \E n \in 1..Len(s) :
          IsAck(s[n], i) /\ k = s[n].off /\ \A l \in 1..Len(s) : IsStop(s[l], f) => n < l
  BY DEF InTime
<1>4. ASSUME NEW k
      PROVE  k \in Acks(r, i) <=> (k \in Acks(q, i) \/ (IsAck(m, i) /\ k = m.off))
  <2>1. k \in Acks(r, i) <=> \E n \in 1..Len(r) : IsAck(r[n], i) /\ k = r[n].off BY <1>2
  <2>2. k \in Acks(q, i) <=> \E n \in 1..Len(q) : IsAck(q[n], i) /\ k = q[n].off BY <1>2
  <2> QED BY <1>1, <2>1, <2>2
<1>5. /\ IsAck(m, i) => Acks(r, i) = Acks(q, i) \cup {m.off}
      /\ ~IsAck(m, i) => Acks(r, i) = Acks(q, i)
  <2> DEFINE new == Acks(r, i)
             old == Acks(q, i)
  <2>1. \A k : k \in new <=> (k \in old \/ (IsAck(m, i) /\ k = m.off)) BY <1>4
  <2> HIDE DEF new, old
  <2>2. /\ IsAck(m, i) => new = old \cup {m.off}
        /\ ~IsAck(m, i) => new = old
    BY <2>1
  <2> QED BY <2>2 DEF new, old
<1>6. ASSUME ~StopIn(q, f) PROVE InTime(q, f, i) = Acks(q, i)
  <2>1. \A n \in 1..Len(q) : ~IsStop(q[n], f) BY <1>6 DEF StopIn
  <2>2. ASSUME NEW k PROVE k \in InTime(q, f, i) <=> k \in Acks(q, i) BY <1>2, <1>3, <2>1
  <2> DEFINE a == InTime(q, f, i)
             b == Acks(q, i)
  <2>3. \A k : k \in a <=> k \in b BY <2>2
  <2> HIDE DEF a, b
  <2>4. a = b BY <2>3
  <2> QED BY <2>4 DEF a, b
<1>7. InTime(q, f, i) \subseteq Acks(q, i) BY <1>2, <1>3
<1>8. ASSUME StopIn(q, f) \/ ~IsAck(m, i) PROVE InTime(r, f, i) = InTime(q, f, i)
  <2>1. IsAck(m, i) => ~IsStop(m, f) BY DEF IsAck, IsStop
  <2>2. ASSUME NEW k PROVE k \in InTime(r, f, i) => k \in InTime(q, f, i)
    <3> SUFFICES ASSUME k \in InTime(r, f, i) PROVE k \in InTime(q, f, i) OBVIOUS
    <3>1. PICK n \in 1..Len(r) : /\ IsAck(r[n], i) /\ k = r[n].off
                                 /\ \A l \in 1..Len(r) : IsStop(r[l], f) => n < l
      BY <1>3
    <3>2. n # Len(q) + 1 BY <1>1, <1>8, <3>1 DEF StopIn
    <3>3. n \in 1..Len(q) /\ r[n] = q[n] BY <1>1, <3>2
    <3>4. \A l \in 1..Len(q) : IsStop(q[l], f) => n < l BY <1>1, <3>1
    <3> QED BY <1>3, <3>1, <3>3, <3>4
  <2>3. ASSUME NEW k PROVE k \in InTime(q, f, i) => k \in InTime(r, f, i)
    <3> SUFFICES ASSUME k \in InTime(q, f, i) PROVE k \in InTime(r, f, i) OBVIOUS
    <3>1. PICK n \in 1..Len(q) : /\ IsAck(q[n], i) /\ k = q[n].off
                                 /\ \A l \in 1..Len(q) : IsStop(q[l], f) => n < l
      BY <1>3
    <3>2. n \in 1..Len(r) /\ r[n] = q[n] BY <1>1
    <3>3. \A l \in 1..Len(r) : IsStop(r[l], f) => n < l BY <1>1, <3>1
    <3> QED BY <1>3, <3>1, <3>2, <3>3
  <2> DEFINE a == InTime(r, f, i)
             b == InTime(q, f, i)
  <2>4. \A k : k \in a <=> k \in b BY <2>2, <2>3
  <2> HIDE DEF a, b
  <2>5. a = b BY <2>4
  <2> QED BY <2>5 DEF a, b
<1> QED BY <1>5, <1>6, <1>7, <1>8 DEF r

\* The head and the tail of a queue, by their indices.
LEMMA TailIndices ==
    ASSUME NEW S, NEW q \in Seq(S), q # <<>>
    PROVE  /\ Head(q) = q[1] /\ Head(q) \in S /\ Tail(q) \in Seq(S)
           /\ Len(q) \in Nat \ {0} /\ Len(Tail(q)) = Len(q) - 1
           /\ \A n \in 1..Len(Tail(q)) : Tail(q)[n] = q[n + 1]
OBVIOUS

\* What taking the first command off a queue changes.
LEMMA Handled ==
    ASSUME NEW q \in Seq(Command), q # <<>>, NEW f
    PROVE  /\ StopIn(q, f) <=> (IsStop(Head(q), f) \/ StopIn(Tail(q), f))
           /\ StartIn(q, f) <=> (IsStart(Head(q), f) \/ StartIn(Tail(q), f))
           /\ Alternate(q, f) <=> (Alternate(Tail(q), f) /\ (IsStart(Head(q), f) => Fenced(Tail(q), f)))
           /\ Fenced(q, f) <=> (IsStop(Head(q), f) \/ (Fenced(Tail(q), f) /\ ~IsStart(Head(q), f)))
           /\ Ended(q, f) <=> (Ended(Tail(q), f) /\ (IsStart(Head(q), f) => StopIn(Tail(q), f)))
<1> DEFINE m == Head(q)
           t == Tail(q)
<1>1. /\ m = q[1] /\ Len(q) \in Nat \ {0} /\ Len(t) = Len(q) - 1
      /\ \A n \in 1..Len(t) : t[n] = q[n + 1]
  BY TailIndices
<1> HIDE DEF m, t
<1>a. \A n \in 2..Len(q) : n - 1 \in 1..Len(t) /\ t[n - 1] = q[n] BY <1>1
<1>b. \A n \in 1..Len(t) : n + 1 \in 1..Len(q) /\ q[n + 1] = t[n] BY <1>1
<1>2. \A x : IsStart(x, f) => ~IsStop(x, f) BY DEF IsStart, IsStop
<1>3. StopIn(q, f) <=> (IsStop(m, f) \/ StopIn(t, f)) BY <1>1, <1>a, <1>b DEF StopIn
<1>4. StartIn(q, f) <=> (IsStart(m, f) \/ StartIn(t, f)) BY <1>1, <1>a, <1>b DEF StartIn
<1>5. Alternate(q, f) <=> (Alternate(t, f) /\ (IsStart(m, f) => Fenced(t, f)))
  <2>1. ASSUME Alternate(q, f) PROVE Alternate(t, f)
    <3> SUFFICES ASSUME NEW l \in 1..Len(t), NEW n \in 1..Len(t), l < n,
                        IsStart(t[l], f), IsStart(t[n], f)
                 PROVE  \E j \in 1..Len(t) : l < j /\ j < n /\ IsStop(t[j], f)
      BY DEF Alternate
    <3>1. /\ l + 1 \in 1..Len(q) /\ n + 1 \in 1..Len(q) /\ l + 1 < n + 1
          /\ IsStart(q[l + 1], f) /\ IsStart(q[n + 1], f)
      BY <1>b
    <3>2. PICK j \in 1..Len(q) : l + 1 < j /\ j < n + 1 /\ IsStop(q[j], f)
      BY <2>1, <3>1 DEF Alternate
    <3>3. j - 1 \in 1..Len(t) /\ t[j - 1] = q[j] /\ l < j - 1 /\ j - 1 < n BY <1>1, <1>a, <3>2
    <3> QED BY <3>2, <3>3
  <2>2. ASSUME Alternate(q, f), IsStart(m, f) PROVE Fenced(t, f)
    BY <1>1, <1>a, <1>b, <2>2 DEF Alternate, Fenced
  <2>3. ASSUME Alternate(t, f), IsStart(m, f) => Fenced(t, f) PROVE Alternate(q, f)
    BY <1>1, <1>a, <1>b, <2>3 DEF Alternate, Fenced
  <2> QED BY <2>1, <2>2, <2>3
<1>6. Fenced(q, f) <=> (IsStop(m, f) \/ (Fenced(t, f) /\ ~IsStart(m, f)))
  <2>1. ASSUME Fenced(q, f), ~IsStop(m, f) PROVE Fenced(t, f) /\ ~IsStart(m, f)
    <3>1. ~IsStart(m, f) BY <1>1, <2>1 DEF Fenced
    <3>2. ASSUME NEW n \in 1..Len(t), IsStart(t[n], f)
          PROVE  \E l \in 1..Len(t) : l < n /\ IsStop(t[l], f)
      <4>1. n + 1 \in 1..Len(q) /\ IsStart(q[n + 1], f) BY <1>b, <3>2
      <4>2. PICK l \in 1..Len(q) : l < n + 1 /\ IsStop(q[l], f) BY <2>1, <4>1 DEF Fenced
      <4>3. l - 1 \in 1..Len(t) /\ t[l - 1] = q[l] /\ l - 1 < n BY <1>1, <1>a, <2>1, <4>2
      <4> QED BY <4>2, <4>3
    <3> QED BY <3>1, <3>2 DEF Fenced
  <2>2. ASSUME IsStop(m, f) PROVE Fenced(q, f) BY <1>1, <1>2, <2>2 DEF Fenced
  <2>3. ASSUME Fenced(t, f), ~IsStart(m, f) PROVE Fenced(q, f) BY <1>1, <1>a, <1>b, <2>3 DEF Fenced
  <2> QED BY <2>1, <2>2, <2>3
<1>7. Ended(q, f) <=> (Ended(t, f) /\ (IsStart(m, f) => StopIn(t, f)))
  <2>1. ASSUME Ended(q, f) PROVE Ended(t, f) BY <1>1, <1>a, <1>b, <2>1 DEF Ended
  <2>2. ASSUME Ended(q, f), IsStart(m, f) PROVE StopIn(t, f)
    BY <1>1, <1>a, <1>b, <2>2 DEF Ended, StopIn
  <2>3. ASSUME Ended(t, f), IsStart(m, f) => StopIn(t, f) PROVE Ended(q, f)
    BY <1>1, <1>a, <1>b, <2>3 DEF Ended, StopIn
  <2> QED BY <2>1, <2>2, <2>3
<1> QED BY <1>3, <1>4, <1>5, <1>6, <1>7 DEF m, t

\* The same, of where starts resume.
LEMMA HandledResumes ==
    ASSUME NEW q \in Seq(Command), q # <<>>, NEW f, NEW kept
    PROVE  Resumes(q, f, kept) <=>
              (/\ Resumes(Tail(q), f, kept)
               /\ (IsStart(Head(q), f) /\ ~StopIn(Tail(q), f) => 0..(Head(q).off - 1) \subseteq kept))
<1> DEFINE m == Head(q)
           t == Tail(q)
           Within(x) == 0..(x.off - 1) \subseteq kept
           Unstopped(s, n) == ~(\E l \in 1..Len(s) : n < l /\ IsStop(s[l], f))
<1>1. /\ m = q[1] /\ Len(q) \in Nat \ {0} /\ Len(t) = Len(q) - 1
      /\ \A n \in 1..Len(t) : t[n] = q[n + 1]
  BY TailIndices
<1>2. \A s : Resumes(s, f, kept) <=> \A n \in 1..Len(s) : IsStart(s[n], f) /\ Unstopped(s, n) => Within(s[n])
  BY DEF Resumes
<1> HIDE DEF m, t, Within
<1>3. \A n \in 2..Len(q) : n - 1 \in 1..Len(t) /\ t[n - 1] = q[n] BY <1>1
<1>4. \A n \in 1..Len(t) : n + 1 \in 1..Len(q) /\ q[n + 1] = t[n] BY <1>1
<1>5. \A n \in 1..Len(t) : Unstopped(q, n + 1) <=> Unstopped(t, n) BY <1>1, <1>3, <1>4
<1>6. Unstopped(q, 1) <=> ~StopIn(t, f) BY <1>1, <1>3, <1>4 DEF StopIn
<1> HIDE DEF Unstopped
<1>7. ASSUME Resumes(q, f, kept)
      PROVE  Resumes(t, f, kept) /\ (IsStart(m, f) /\ ~StopIn(t, f) => Within(m))
  <2>1. Resumes(t, f, kept) BY <1>2, <1>4, <1>5, <1>7
  <2>2. IsStart(m, f) /\ ~StopIn(t, f) => Within(m) BY <1>1, <1>2, <1>6, <1>7
  <2> QED BY <2>1, <2>2
<1>8. ASSUME Resumes(t, f, kept), IsStart(m, f) /\ ~StopIn(t, f) => Within(m)
      PROVE  Resumes(q, f, kept)
  <2> SUFFICES ASSUME NEW n \in 1..Len(q), IsStart(q[n], f), Unstopped(q, n) PROVE Within(q[n])
    BY <1>2
  <2>1. CASE n = 1 BY <1>1, <1>6, <1>8, <2>1
  <2>2. CASE n # 1
    <3>1. n - 1 \in 1..Len(t) /\ t[n - 1] = q[n] /\ (n - 1) + 1 = n BY <1>1, <1>3, <2>2
    <3>2. Unstopped(t, n - 1) BY <1>5, <3>1
    <3> QED BY <1>2, <1>8, <3>1, <3>2
  <2> QED BY <2>1, <2>2
<1> QED BY <1>7, <1>8 DEF m, t, Within

\* The same, of the acknowledgements.
LEMMA HandledAcks ==
    ASSUME NEW q \in Seq(Command), q # <<>>, NEW f, NEW i
    PROVE  /\ IsAck(Head(q), i) => Acks(q, i) = Acks(Tail(q), i) \cup {Head(q).off}
           /\ ~IsAck(Head(q), i) => Acks(q, i) = Acks(Tail(q), i)
           /\ IsAck(Head(q), i) => InTime(q, f, i) = InTime(Tail(q), f, i) \cup {Head(q).off}
           /\ ~IsAck(Head(q), i) /\ ~IsStop(Head(q), f) => InTime(q, f, i) = InTime(Tail(q), f, i)
           /\ ~StopIn(q, f) => InTime(q, f, i) = Acks(q, i)
<1> DEFINE m == Head(q)
           t == Tail(q)
<1>1. /\ m = q[1] /\ Len(q) \in Nat \ {0} /\ Len(t) = Len(q) - 1
      /\ \A n \in 1..Len(t) : t[n] = q[n + 1]
  BY TailIndices
<1> HIDE DEF m, t
<1>2. \A s, k : k \in Acks(s, i) <=> \E n \in 1..Len(s) : IsAck(s[n], i) /\ k = s[n].off BY DEF Acks
<1>3. \A s, k : k \in InTime(s, f, i) <=> \E n \in 1..Len(s) :
          IsAck(s[n], i) /\ k = s[n].off /\ \A l \in 1..Len(s) : IsStop(s[l], f) => n < l
  BY DEF InTime
<1>4. \A n \in 2..Len(q) : n - 1 \in 1..Len(t) /\ t[n - 1] = q[n] BY <1>1
<1>5. \A n \in 1..Len(t) : n + 1 \in 1..Len(q) /\ q[n + 1] = t[n] BY <1>1
<1>6. ASSUME NEW k
      PROVE  k \in Acks(q, i) <=> ((IsAck(m, i) /\ k = m.off) \/ k \in Acks(t, i))
  <2>1. ASSUME k \in Acks(t, i) PROVE k \in Acks(q, i) BY <1>2, <1>5, <2>1
  <2>2. ASSUME IsAck(m, i), k = m.off PROVE k \in Acks(q, i) BY <1>1, <1>2, <2>2
  <2>3. ASSUME k \in Acks(q, i), ~(IsAck(m, i) /\ k = m.off) PROVE k \in Acks(t, i)
    <3>1. PICK n \in 1..Len(q) : IsAck(q[n], i) /\ k = q[n].off BY <1>2, <2>3
    <3>2. n \in 2..Len(q) BY <1>1, <2>3, <3>1
    <3> QED BY <1>2, <1>4, <3>1, <3>2
  <2> QED BY <2>1, <2>2, <2>3
<1>7. ASSUME ~IsStop(m, f), NEW k
      PROVE  k \in InTime(q, f, i) <=> ((IsAck(m, i) /\ k = m.off) \/ k \in InTime(t, f, i))
  <2>1. ASSUME k \in InTime(t, f, i) PROVE k \in InTime(q, f, i)
    <3>1. PICK n \in 1..Len(t) : /\ IsAck(t[n], i) /\ k = t[n].off
                                 /\ \A l \in 1..Len(t) : IsStop(t[l], f) => n < l
      BY <1>3, <2>1
    <3>2. n + 1 \in 1..Len(q) /\ q[n + 1] = t[n] BY <1>5
    <3>3. ASSUME NEW l \in 1..Len(q), IsStop(q[l], f) PROVE n + 1 < l
      <4>1. l - 1 \in 1..Len(t) /\ IsStop(t[l - 1], f) BY <1>1, <1>4, <1>7, <3>3
      <4> QED BY <3>1, <4>1
    <3> QED BY <1>3, <3>1, <3>2, <3>3
  <2>2. ASSUME IsAck(m, i), k = m.off PROVE k \in InTime(q, f, i)
    <3>1. \A l \in 1..Len(q) : IsStop(q[l], f) => 1 < l BY <1>1, <1>7
    <3>2. 1 \in 1..Len(q) /\ IsAck(q[1], i) /\ k = q[1].off BY <1>1, <2>2
    <3> QED BY <1>3, <3>1, <3>2
  <2>3. ASSUME k \in InTime(q, f, i), ~(IsAck(m, i) /\ k = m.off) PROVE k \in InTime(t, f, i)
    <3>1. PICK n \in 1..Len(q) : /\ IsAck(q[n], i) /\ k = q[n].off
                                 /\ \A l \in 1..Len(q) : IsStop(q[l], f) => n < l
      BY <1>3, <2>3
    <3>2. n - 1 \in 1..Len(t) /\ t[n - 1] = q[n] BY <1>1, <1>4, <2>3, <3>1
    <3>3. ASSUME NEW l \in 1..Len(t), IsStop(t[l], f) PROVE n - 1 < l
      <4>1. l + 1 \in 1..Len(q) /\ IsStop(q[l + 1], f) BY <1>5, <3>3
      <4> QED BY <3>1, <4>1
    <3> QED BY <1>3, <3>1, <3>2, <3>3
  <2> QED BY <2>1, <2>2, <2>3
<1>8. ASSUME ~StopIn(q, f), NEW k PROVE k \in InTime(q, f, i) <=> k \in Acks(q, i)
  <2>1. \A n \in 1..Len(q) : ~IsStop(q[n], f) BY <1>8 DEF StopIn
  <2> QED BY <1>2, <1>3, <2>1
<1>9. IsAck(m, i) => ~IsStop(m, f) BY DEF IsAck, IsStop
<1> DEFINE all == Acks(q, i)
           rest == Acks(t, i)
           timely == InTime(q, f, i)
           later == InTime(t, f, i)
<1>10. /\ \A k : k \in all <=> ((IsAck(m, i) /\ k = m.off) \/ k \in rest)
       /\ ~IsStop(m, f) => \A k : k \in timely <=> ((IsAck(m, i) /\ k = m.off) \/ k \in later)
       /\ ~StopIn(q, f) => \A k : k \in timely <=> k \in all
  BY <1>6, <1>7, <1>8
<1> HIDE DEF all, rest, timely, later
<1>11. /\ IsAck(m, i) => all = rest \cup {m.off}
       /\ ~IsAck(m, i) => all = rest
       /\ IsAck(m, i) => timely = later \cup {m.off}
       /\ ~IsAck(m, i) /\ ~IsStop(m, f) => timely = later
       /\ ~StopIn(q, f) => timely = all
  BY <1>9, <1>10
<1> QED BY <1>11 DEF m, t, all, rest, timely, later

\* What a frame appended changes, and then of the chunks on their way.
LEMMA Posted ==
    ASSUME NEW w \in Seq(GoodFrame), NEW x \in GoodFrame, NEW f
    PROVE  /\ \A kind : In(Append(w, x), kind, f) <=> (In(w, kind, f) \/ IsOf(x, kind, f))
           /\ DoneFirst(Append(w, x), f) <=>
                 (DoneFirst(w, f) /\ (IsOf(x, "DWNDONE", f) => ~In(w, "DWSTART", f)))
<1> DEFINE v == Append(w, x)
<1>1. /\ Len(v) = Len(w) + 1 /\ Len(w) \in Nat /\ v[Len(w) + 1] = x
      /\ \A n \in 1..Len(w) : v[n] = w[n]
  OBVIOUS
<1> HIDE DEF v
<1>2. ASSUME NEW kind PROVE In(v, kind, f) <=> (In(w, kind, f) \/ IsOf(x, kind, f)) BY <1>1 DEF In
<1>3. ~(IsOf(x, "DWSTART", f) /\ IsOf(x, "DWNDONE", f)) BY DEF IsOf
<1>4. DoneFirst(v, f) <=> (DoneFirst(w, f) /\ (IsOf(x, "DWNDONE", f) => ~In(w, "DWSTART", f)))
  <2>1. ASSUME DoneFirst(v, f) PROVE DoneFirst(w, f) /\ (IsOf(x, "DWNDONE", f) => ~In(w, "DWSTART", f))
    BY <1>1, <2>1 DEF DoneFirst, In
  <2>2. ASSUME DoneFirst(w, f), IsOf(x, "DWNDONE", f) => ~In(w, "DWSTART", f) PROVE DoneFirst(v, f)
    BY <1>1, <1>3, <2>2 DEF DoneFirst, In
  <2> QED BY <2>1, <2>2
<1> QED BY <1>2, <1>4 DEF v

LEMMA PostedData ==
    ASSUME NEW w \in Seq(GoodFrame), NEW x \in GoodFrame, NEW f, NEW i
    PROVE  /\ IsData(x, i) => Sent(Append(w, x), i) = Sent(w, i) \cup {x.off}
           /\ ~IsData(x, i) => Sent(Append(w, x), i) = Sent(w, i)
           /\ Once(Append(w, x), i) <=> (Once(w, i) /\ (IsData(x, i) => x.off \notin Sent(w, i)))
           /\ DataLast(Append(w, x), f, i) <=>
                 (DataLast(w, f, i) /\ (IsOf(x, "DWSTART", f) => Sent(w, i) = {}))
           /\ DataOf(Append(w, x), i, f) <=> (DataOf(w, i, f) /\ (IsData(x, i) => x.file = f))
<1> DEFINE v == Append(w, x)
<1>1. /\ Len(v) = Len(w) + 1 /\ Len(w) \in Nat /\ v[Len(w) + 1] = x
      /\ \A n \in 1..Len(w) : v[n] = w[n]
  OBVIOUS
<1> HIDE DEF v
<1>2. \A s, k : k \in Sent(s, i) <=> \E n \in 1..Len(s) : IsData(s[n], i) /\ k = s[n].off
  BY DEF Sent
<1>3. ASSUME NEW k
      PROVE  k \in Sent(v, i) <=> (k \in Sent(w, i) \/ (IsData(x, i) /\ k = x.off))
  <2>1. k \in Sent(v, i) <=> \E n \in 1..Len(v) : IsData(v[n], i) /\ k = v[n].off BY <1>2
  <2>2. k \in Sent(w, i) <=> \E n \in 1..Len(w) : IsData(w[n], i) /\ k = w[n].off BY <1>2
  <2> QED BY <1>1, <2>1, <2>2
<1>4. /\ IsData(x, i) => Sent(v, i) = Sent(w, i) \cup {x.off}
      /\ ~IsData(x, i) => Sent(v, i) = Sent(w, i)
  <2> DEFINE new == Sent(v, i)
             old == Sent(w, i)
  <2>1. \A k : k \in new <=> (k \in old \/ (IsData(x, i) /\ k = x.off)) BY <1>3
  <2> HIDE DEF new, old
  <2>2. /\ IsData(x, i) => new = old \cup {x.off}
        /\ ~IsData(x, i) => new = old
    BY <2>1
  <2> QED BY <2>2 DEF new, old
<1>5. Once(v, i) <=> (Once(w, i) /\ (IsData(x, i) => x.off \notin Sent(w, i)))
  <2>1. ASSUME Once(v, i) PROVE Once(w, i) /\ (IsData(x, i) => x.off \notin Sent(w, i))
    <3>1. Once(w, i) BY <1>1, <2>1 DEF Once
    <3>2. ASSUME IsData(x, i), x.off \in Sent(w, i) PROVE FALSE
      <4>1. PICK n \in 1..Len(w) : IsData(w[n], i) /\ x.off = w[n].off BY <1>2, <3>2
      <4> QED BY <1>1, <2>1, <3>2, <4>1 DEF Once
    <3> QED BY <3>1, <3>2
  <2>2. ASSUME Once(w, i), IsData(x, i) => x.off \notin Sent(w, i) PROVE Once(v, i)
    <3> SUFFICES ASSUME NEW m \in 1..Len(v), NEW n \in 1..Len(v), m < n,
                        IsData(v[m], i), IsData(v[n], i), v[m].off = v[n].off
                 PROVE  FALSE
      BY DEF Once
    <3>1. m \in 1..Len(w) /\ v[m] = w[m] BY <1>1
    <3>2. CASE n = Len(w) + 1 BY <1>1, <1>2, <2>2, <3>1, <3>2
    <3>3. CASE n # Len(w) + 1 BY <1>1, <2>2, <3>1, <3>3 DEF Once
    <3> QED BY <3>2, <3>3
  <2> QED BY <2>1, <2>2
<1>6. Sent(w, i) = {} <=> \A n \in 1..Len(w) : ~IsData(w[n], i) BY <1>2
<1>7. ~(IsOf(x, "DWSTART", f) /\ IsData(x, i)) BY DEF IsOf, IsData
<1>8. DataLast(v, f, i) <=> (DataLast(w, f, i) /\ (IsOf(x, "DWSTART", f) => Sent(w, i) = {}))
  <2>1. ASSUME DataLast(v, f, i) PROVE DataLast(w, f, i) /\ (IsOf(x, "DWSTART", f) => Sent(w, i) = {})
    BY <1>1, <1>6, <2>1 DEF DataLast
  <2>2. ASSUME DataLast(w, f, i), IsOf(x, "DWSTART", f) => Sent(w, i) = {} PROVE DataLast(v, f, i)
    BY <1>1, <1>6, <1>7, <2>2 DEF DataLast
  <2> QED BY <2>1, <2>2
<1>9. DataOf(v, i, f) <=> (DataOf(w, i, f) /\ (IsData(x, i) => x.file = f)) BY <1>1 DEF DataOf
<1> QED BY <1>4, <1>5, <1>8, <1>9 DEF v

\* What taking the first frame off changes, and then of the chunks on their way.
LEMMA Received ==
    ASSUME NEW w \in Seq(GoodFrame), w # <<>>, NEW f
    PROVE  /\ \A kind : In(w, kind, f) <=> (IsOf(Head(w), kind, f) \/ In(Tail(w), kind, f))
           /\ DoneFirst(w, f) =>
                 (DoneFirst(Tail(w), f) /\ (IsOf(Head(w), "DWSTART", f) => ~In(Tail(w), "DWNDONE", f)))
<1> DEFINE x == Head(w)
           t == Tail(w)
<1>1. /\ x = w[1] /\ Len(w) \in Nat \ {0} /\ Len(t) = Len(w) - 1
      /\ \A n \in 1..Len(t) : t[n] = w[n + 1]
  BY TailIndices
<1> HIDE DEF x, t
<1>2. \A n \in 2..Len(w) : n - 1 \in 1..Len(t) /\ t[n - 1] = w[n] BY <1>1
<1>3. \A n \in 1..Len(t) : n + 1 \in 1..Len(w) /\ w[n + 1] = t[n] BY <1>1
<1>4. ASSUME NEW kind PROVE In(w, kind, f) <=> (IsOf(x, kind, f) \/ In(t, kind, f))
  BY <1>1, <1>2, <1>3 DEF In
<1>5. ASSUME DoneFirst(w, f) PROVE DoneFirst(t, f) /\ (IsOf(x, "DWSTART", f) => ~In(t, "DWNDONE", f))
  <2>1. DoneFirst(t, f) BY <1>1, <1>3, <1>5 DEF DoneFirst
  <2>2. IsOf(x, "DWSTART", f) => ~In(t, "DWNDONE", f) BY <1>1, <1>3, <1>5 DEF DoneFirst, In
  <2> QED BY <2>1, <2>2
<1> QED BY <1>4, <1>5 DEF x, t

LEMMA ReceivedData ==
    ASSUME NEW w \in Seq(GoodFrame), w # <<>>, NEW f, NEW i
    PROVE  /\ IsData(Head(w), i) => Sent(w, i) = Sent(Tail(w), i) \cup {Head(w).off}
           /\ ~IsData(Head(w), i) => Sent(w, i) = Sent(Tail(w), i)
           /\ Once(w, i) => Once(Tail(w), i) /\ (IsData(Head(w), i) => Head(w).off \notin Sent(Tail(w), i))
           /\ DataLast(w, f, i) =>
                 DataLast(Tail(w), f, i) /\ (IsData(Head(w), i) => ~In(Tail(w), "DWSTART", f))
           /\ DataOf(w, i, f) => DataOf(Tail(w), i, f) /\ (IsData(Head(w), i) => Head(w).file = f)
<1> DEFINE x == Head(w)
           t == Tail(w)
<1>1. /\ x = w[1] /\ Len(w) \in Nat \ {0} /\ Len(t) = Len(w) - 1
      /\ \A n \in 1..Len(t) : t[n] = w[n + 1]
  BY TailIndices
<1> HIDE DEF x, t
<1>2. \A n \in 2..Len(w) : n - 1 \in 1..Len(t) /\ t[n - 1] = w[n] BY <1>1
<1>3. \A n \in 1..Len(t) : n + 1 \in 1..Len(w) /\ w[n + 1] = t[n] BY <1>1
<1>4. \A s, k : k \in Sent(s, i) <=> \E n \in 1..Len(s) : IsData(s[n], i) /\ k = s[n].off
  BY DEF Sent
<1>5. ASSUME NEW k
      PROVE  k \in Sent(w, i) <=> (k \in Sent(t, i) \/ (IsData(x, i) /\ k = x.off))
  <2>1. ASSUME k \in Sent(t, i) PROVE k \in Sent(w, i) BY <1>3, <1>4, <2>1
  <2>2. ASSUME IsData(x, i), k = x.off PROVE k \in Sent(w, i) BY <1>1, <1>4, <2>2
  <2>3. ASSUME k \in Sent(w, i), ~(IsData(x, i) /\ k = x.off) PROVE k \in Sent(t, i)
    <3>1. PICK n \in 1..Len(w) : IsData(w[n], i) /\ k = w[n].off BY <1>4, <2>3
    <3>2. n \in 2..Len(w) BY <1>1, <2>3, <3>1
    <3> QED BY <1>2, <1>4, <3>1, <3>2
  <2> QED BY <2>1, <2>2, <2>3
<1>6. /\ IsData(x, i) => Sent(w, i) = Sent(t, i) \cup {x.off}
      /\ ~IsData(x, i) => Sent(w, i) = Sent(t, i)
  <2> DEFINE new == Sent(t, i)
             old == Sent(w, i)
  <2>1. \A k : k \in old <=> (k \in new \/ (IsData(x, i) /\ k = x.off)) BY <1>5
  <2> HIDE DEF new, old
  <2>2. /\ IsData(x, i) => old = new \cup {x.off}
        /\ ~IsData(x, i) => old = new
    BY <2>1
  <2> QED BY <2>2 DEF new, old
<1>7. ASSUME Once(w, i) PROVE Once(t, i) /\ (IsData(x, i) => x.off \notin Sent(t, i))
  <2>1. Once(t, i)
    <3> SUFFICES ASSUME NEW m \in 1..Len(t), NEW n \in 1..Len(t), m < n,
                        IsData(t[m], i), IsData(t[n], i)
                 PROVE  t[m].off # t[n].off
      BY DEF Once
    <3>1. /\ m + 1 \in 1..Len(w) /\ w[m + 1] = t[m]
          /\ n + 1 \in 1..Len(w) /\ w[n + 1] = t[n] /\ m + 1 < n + 1
      BY <1>3
    <3>2. \A l, o \in 1..Len(w) : l < o /\ IsData(w[l], i) /\ IsData(w[o], i) => w[l].off # w[o].off
      BY <1>7 DEF Once
    <3> QED BY <3>1, <3>2
  <2>2. ASSUME IsData(x, i), x.off \in Sent(t, i) PROVE FALSE
    <3>1. PICK n \in 1..Len(t) : IsData(t[n], i) /\ x.off = t[n].off BY <1>4, <2>2
    <3> QED BY <1>1, <1>3, <1>7, <2>2, <3>1 DEF Once
  <2> QED BY <2>1, <2>2
<1>8. ASSUME DataLast(w, f, i) PROVE DataLast(t, f, i) /\ (IsData(x, i) => ~In(t, "DWSTART", f))
  <2>1. DataLast(t, f, i)
    <3> SUFFICES ASSUME NEW m \in 1..Len(t), NEW n \in 1..Len(t),
                        IsOf(t[m], "DWSTART", f), IsData(t[n], i)
                 PROVE  m < n
      BY DEF DataLast
    <3>1. m + 1 \in 1..Len(w) /\ n + 1 \in 1..Len(w) /\ w[m + 1] = t[m] /\ w[n + 1] = t[n] BY <1>3
    <3>2. m + 1 < n + 1 BY <1>8, <3>1 DEF DataLast
    <3> QED BY <3>2
  <2>2. IsData(x, i) => ~In(t, "DWSTART", f) BY <1>1, <1>3, <1>8 DEF DataLast, In
  <2> QED BY <2>1, <2>2
<1>9. ASSUME DataOf(w, i, f) PROVE DataOf(t, i, f) /\ (IsData(x, i) => x.file = f)
  BY <1>1, <1>3, <1>9 DEF DataOf
<1> QED BY <1>6, <1>7, <1>8, <1>9 DEF x, t

-------------------------------------------------------------------------------
(* Queues that say the same about a file *)

\* Queues are alike that are the same, or that differ by a command or a frame about other
\* files; frames received leave no more to say than before.
LEMMA AlikeItself ==
    /\ \A q, f, ids : Alike(q, q, f, ids)
    /\ \A w, f, ids : AlikeFrames(w, w, f, ids)
BY DEF Alike, AlikeFrames

LEMMA AlikeAppended ==
    ASSUME NEW q \in Seq(Command), NEW m \in Command, NEW f, NEW ids, ~Orders(m, f),
           \A i \in ids : ~IsAck(m, i)
    PROVE  Alike(q, Append(q, m), f, ids)
<1>1. ~IsStart(m, f) /\ ~IsStop(m, f) /\ \A i \in ids : ~IsAck(m, i) BY DEF Orders
<1>2. \A kept : Resumes(Append(q, m), f, kept) <=> Resumes(q, f, kept) BY <1>1, AppendedResumes
<1>3. \A i \in ids : Acks(Append(q, m), i) = Acks(q, i) /\ InTime(Append(q, m), f, i) = InTime(q, f, i)
  BY <1>1, AppendedAcks
<1>4. /\ StopIn(Append(q, m), f) <=> StopIn(q, f)
      /\ StartIn(Append(q, m), f) <=> StartIn(q, f)
      /\ Alternate(Append(q, m), f) <=> Alternate(q, f)
      /\ Fenced(Append(q, m), f) <=> Fenced(q, f)
      /\ Ended(Append(q, m), f) <=> Ended(q, f)
  BY <1>1, Appended
<1> QED BY <1>2, <1>3, <1>4 DEF Alike

LEMMA AlikeHandled ==
    ASSUME NEW q \in Seq(Command), q # <<>>, NEW f, NEW ids, ~Orders(Head(q), f)
    PROVE  Alike(q, Tail(q), f, ids)
<1>1. ~IsStart(Head(q), f) /\ ~IsStop(Head(q), f) BY DEF Orders
<1>2. \A kept : Resumes(Tail(q), f, kept) <=> Resumes(q, f, kept) BY <1>1, HandledResumes
<1>3. ASSUME NEW i \in ids
      PROVE  Acks(Tail(q), i) \subseteq Acks(q, i) /\ InTime(Tail(q), f, i) \subseteq InTime(q, f, i)
  BY <1>1, HandledAcks
<1>4. /\ StopIn(Tail(q), f) <=> StopIn(q, f)
      /\ StartIn(Tail(q), f) <=> StartIn(q, f)
      /\ Alternate(Tail(q), f) <=> Alternate(q, f)
      /\ Fenced(Tail(q), f) <=> Fenced(q, f)
      /\ Ended(Tail(q), f) <=> Ended(q, f)
  BY <1>1, Handled
<1> QED BY <1>2, <1>3, <1>4 DEF Alike

LEMMA AlikePosted ==
    ASSUME NEW w \in Seq(GoodFrame), NEW fs \in Seq(GoodFrame), NEW f, NEW ids,
           \A n \in 1..Len(fs) : ~AboutFrame(fs[n], f, ids)
    PROVE  /\ AlikeFrames(w, w \o fs, f, ids)
           /\ In(w, "DWSTART", f) => In(w \o fs, "DWSTART", f)
           /\ In(w \o fs, "DWERR", f) => (In(w, "DWERR", f) \/ \E n \in 1..Len(fs) : IsOf(fs[n], "DWERR", f))
<1> DEFINE v == w \o fs
<1>1. /\ Len(v) = Len(w) + Len(fs) /\ Len(w) \in Nat /\ Len(fs) \in Nat
      /\ \A n \in 1..Len(w) : v[n] = w[n]
      /\ \A n \in 1..Len(v) : n > Len(w) => n - Len(w) \in 1..Len(fs) /\ v[n] = fs[n - Len(w)]
  OBVIOUS
<1> HIDE DEF v
<1>2. ASSUME NEW n \in 1..Len(v)
      PROVE  (n \in 1..Len(w) /\ v[n] = w[n]) \/ ~AboutFrame(v[n], f, ids)
  <2>1. CASE n > Len(w) BY <1>1, <2>1
  <2>2. CASE ~(n > Len(w)) BY <1>1, <2>2
  <2> QED BY <2>1, <2>2
<1>3. \A n \in 1..Len(w) : n \in 1..Len(v) /\ v[n] = w[n] BY <1>1
<1>4. /\ \A n \in 1..Len(v), kind \in {"DWSTART", "DWNDONE"} :
            IsOf(v[n], kind, f) => n \in 1..Len(w) /\ v[n] = w[n]
      /\ \A n \in 1..Len(v), i \in ids : IsData(v[n], i) => n \in 1..Len(w) /\ v[n] = w[n]
  BY <1>2 DEF AboutFrame
<1>5. \A kind \in {"DWSTART", "DWNDONE"} : In(v, kind, f) <=> In(w, kind, f) BY <1>3, <1>4 DEF In
<1>6. DoneFirst(w, f) => DoneFirst(v, f) BY <1>4 DEF DoneFirst
<1>7. ASSUME NEW i \in ids
      PROVE  /\ Sent(v, i) = Sent(w, i)
             /\ Once(w, i) => Once(v, i)
             /\ DataLast(w, f, i) => DataLast(v, f, i)
             /\ DataOf(w, i, f) => DataOf(v, i, f)
  <2>1. Sent(v, i) = Sent(w, i)
    <3>1. \A s, k : k \in Sent(s, i) <=> \E n \in 1..Len(s) : IsData(s[n], i) /\ k = s[n].off
      BY DEF Sent
    <3> DEFINE new == Sent(v, i)
               old == Sent(w, i)
    <3>2. \A k : k \in new <=> k \in old BY <1>3, <1>4, <3>1
    <3> HIDE DEF new, old
    <3>3. new = old BY <3>2
    <3> QED BY <3>3 DEF new, old
  <2>2. Once(w, i) => Once(v, i) BY <1>4 DEF Once
  <2>3. DataLast(w, f, i) => DataLast(v, f, i) BY <1>4 DEF DataLast
  <2>4. DataOf(w, i, f) => DataOf(v, i, f) BY <1>4 DEF DataOf
  <2> QED BY <2>1, <2>2, <2>3, <2>4
<1>8. In(v, "DWERR", f) => (In(w, "DWERR", f) \/ \E n \in 1..Len(fs) : IsOf(fs[n], "DWERR", f))
  <2> SUFFICES ASSUME NEW n \in 1..Len(v), IsOf(v[n], "DWERR", f)
               PROVE  In(w, "DWERR", f) \/ \E m \in 1..Len(fs) : IsOf(fs[m], "DWERR", f)
    BY DEF In
  <2>1. CASE n > Len(w) BY <1>1, <2>1
  <2>2. CASE ~(n > Len(w))
    <3>1. n \in 1..Len(w) /\ v[n] = w[n] BY <1>1, <2>2
    <3> QED BY <3>1 DEF In
  <2> QED BY <2>1, <2>2
<1>9. AlikeFrames(w, v, f, ids) BY <1>5, <1>6, <1>7 DEF AlikeFrames
<1> QED BY <1>5, <1>8, <1>9 DEF v

LEMMA AlikeReceived ==
    ASSUME NEW w \in Seq(GoodFrame), w # <<>>, NEW f, NEW ids
    PROVE  /\ AlikeFrames(w, Tail(w), f, ids)
           /\ ~IsOf(Head(w), "DWSTART", f) => (In(w, "DWSTART", f) => In(Tail(w), "DWSTART", f))
           /\ In(Tail(w), "DWERR", f) => In(w, "DWERR", f)
<1>1. /\ \A kind : In(Tail(w), kind, f) => In(w, kind, f)
      /\ DoneFirst(w, f) => DoneFirst(Tail(w), f)
      /\ ~IsOf(Head(w), "DWSTART", f) => (In(w, "DWSTART", f) => In(Tail(w), "DWSTART", f))
  BY Received
<1>2. ASSUME NEW i \in ids
      PROVE  /\ Sent(Tail(w), i) \subseteq Sent(w, i)
             /\ Once(w, i) => Once(Tail(w), i)
             /\ DataLast(w, f, i) => DataLast(Tail(w), f, i)
             /\ DataOf(w, i, f) => DataOf(Tail(w), i, f)
  BY ReceivedData
<1>3. AlikeFrames(w, Tail(w), f, ids) BY <1>1, <1>2 DEF AlikeFrames
<1> QED BY <1>1, <1>3

\* Data on the way in a sequence.
LEMMA MembersOf ==
    ASSUME NEW S, NEW q \in Seq(S), NEW m \in S
    PROVE  /\ ToSet(Append(q, m)) = ToSet(q) \cup {m}
           /\ \A n \in 1..Len(q) : q[n] \in ToSet(q)
           /\ q # <<>> => Head(q) \in ToSet(q) /\ ToSet(Tail(q)) \subseteq ToSet(q)
<1>1. ASSUME NEW s \in Seq(S) PROVE ToSet(s) = {s[n] : n \in 1..Len(s)} BY DEF ToSet
<1>2. ToSet(Append(q, m)) = ToSet(q) \cup {m}
  <2>1. /\ Len(Append(q, m)) = Len(q) + 1 /\ Append(q, m) \in Seq(S) /\ Len(q) \in Nat
        /\ Append(q, m)[Len(q) + 1] = m /\ \A n \in 1..Len(q) : Append(q, m)[n] = q[n]
    OBVIOUS
  <2>2. ToSet(Append(q, m)) = {Append(q, m)[n] : n \in 1..(Len(q) + 1)} BY <1>1, <2>1
  <2>3. ToSet(q) = {q[n] : n \in 1..Len(q)} BY <1>1
  <2> DEFINE a == Append(q, m)
  <2>4. {a[n] : n \in 1..(Len(q) + 1)} = {q[n] : n \in 1..Len(q)} \cup {m}
    <3>1. /\ Len(q) \in Nat /\ a[Len(q) + 1] = m /\ \A n \in 1..Len(q) : a[n] = q[n] BY <2>1
    <3> HIDE DEF a
    <3> QED BY <3>1
  <2> QED BY <2>2, <2>3, <2>4
<1>3. \A n \in 1..Len(q) : q[n] \in ToSet(q) BY <1>1
<1>4. ASSUME q # <<>> PROVE Head(q) \in ToSet(q) /\ ToSet(Tail(q)) \subseteq ToSet(q)
  <2>1. /\ Head(q) = q[1] /\ Tail(q) \in Seq(S)
        /\ Len(q) \in Nat \ {0} /\ Len(Tail(q)) = Len(q) - 1
        /\ \A n \in 1..Len(Tail(q)) : Tail(q)[n] = q[n + 1]
    BY <1>4, TailIndices
  <2>2. ToSet(Tail(q)) = {Tail(q)[n] : n \in 1..Len(Tail(q))} BY <1>1, <2>1
  <2>3. \A n \in 1..Len(Tail(q)) : n + 1 \in 1..Len(q) BY <2>1
  <2> QED BY <1>3, <2>1, <2>2, <2>3
<1> QED BY <1>2, <1>3, <1>4

\* The members of a concatenation.
LEMMA MembersOfAll ==
    ASSUME NEW S, NEW q \in Seq(S), NEW r \in Seq(S)
    PROVE  \A x \in ToSet(q \o r) : x \in ToSet(q) \/ x \in ToSet(r)
<1> SUFFICES ASSUME NEW x \in ToSet(q \o r) PROVE x \in ToSet(q) \/ x \in ToSet(r) OBVIOUS
<1> DEFINE v == q \o r
<1>1. /\ DOMAIN v = 1..(Len(q) + Len(r)) /\ Len(q) \in Nat /\ Len(r) \in Nat
      /\ \A n \in 1..Len(q) : v[n] = q[n]
      /\ \A n \in DOMAIN v : n > Len(q) => n - Len(q) \in 1..Len(r) /\ v[n] = r[n - Len(q)]
  OBVIOUS
<1>2. PICK n \in DOMAIN v : x = v[n] BY DEF ToSet
<1> HIDE DEF v
<1>3. DOMAIN q = 1..Len(q) /\ DOMAIN r = 1..Len(r) OBVIOUS
<1>4. CASE n > Len(q) BY <1>1, <1>2, <1>3, <1>4 DEF ToSet
<1>5. CASE ~(n > Len(q)) BY <1>1, <1>2, <1>3, <1>5 DEF ToSet
<1> QED BY <1>4, <1>5

\* A start from within what was kept is one from within what is kept now.
LEMMA ResumesMore ==
    ASSUME NEW q, NEW f, NEW kept, NEW more, kept \subseteq more, Resumes(q, f, kept)
    PROVE  Resumes(q, f, more)
BY DEF Resumes

\* How the orders of starts and stops follow from one another.
LEMMA Unopened ==
    ASSUME NEW q, NEW f
    PROVE  /\ Ended(q, f) => \A kept : Resumes(q, f, kept)
           /\ ~StartIn(q, f) => Ended(q, f) /\ Fenced(q, f)
           /\ Fenced(q, f) /\ ~StopIn(q, f) => Ended(q, f)
<1>1. Ended(q, f) => \A kept : Resumes(q, f, kept) BY DEF Ended, Resumes
<1>2. ~StartIn(q, f) => Ended(q, f) /\ Fenced(q, f) BY DEF StartIn, Ended, Fenced
<1>3. Fenced(q, f) /\ ~StopIn(q, f) => Ended(q, f) BY DEF Fenced, StopIn, Ended
<1> QED BY <1>1, <1>2, <1>3

\* A frame is about a start exactly if it is the DWSTART of the file.
LEMMA StartFrame ==
    ASSUME NEW w \in Seq(GoodFrame), NEW f \in File
    PROVE  (\E n \in 1..Len(w) : w[n] = [kind |-> "DWSTART", file |-> f]) <=> In(w, "DWSTART", f)
<1>1. ASSUME NEW x \in GoodFrame
      PROVE  x = [kind |-> "DWSTART", file |-> f] <=> IsOf(x, "DWSTART", f)
  <2>1. ASSUME IsOf(x, "DWSTART", f) PROVE x = [kind |-> "DWSTART", file |-> f]
    <3>1. x.kind = "DWSTART" /\ x.file = f /\ x \in Frame BY <2>1 DEF IsOf, GoodFrame
    <3>2. x \in [kind : {"UPOK", "FILE", "DWSTART", "DWNDONE", "DWERR"}, file : File]
      BY <3>1 DEF Frame
    <3> QED BY <3>1, <3>2
  <2> QED BY <2>1 DEF IsOf
<1>2. \A n \in 1..Len(w) : w[n] \in GoodFrame OBVIOUS
<1> QED BY <1>1, <1>2 DEF In

\* What a user waits for, in terms of the queues; before a step and after it.
LEMMA AwaitingIs ==
    ASSUME ServerTypes, NEW c \in Client, NEW f \in File
    PROVE  Awaiting(c, f) <=> (\/ StartIn(toServer[c], f) \/ handling[c].file = f
                               \/ In(toClient[c], "DWSTART", f))
<1>1. toClient[c] \in Seq(GoodFrame) BY DEF ServerTypes
<1>2. (\E n \in 1..Len(toClient[c]) : toClient[c][n] = [kind |-> "DWSTART", file |-> f])
         <=> In(toClient[c], "DWSTART", f)
  BY <1>1, StartFrame
<1> QED BY <1>2 DEF Awaiting, StartIn, IsStart

\* Awaiting an answer, said of the queues and the lane after a step.
LEMMA AwaitingNext ==
    ASSUME ServerTypes', NEW c \in Client, NEW f \in File
    PROVE  Awaiting(c, f)' <=> (\/ StartIn(toServer'[c], f) \/ handling'[c].file = f
                                \/ In(toClient'[c], "DWSTART", f))
<1>1. toClient'[c] \in Seq(GoodFrame) BY DEF ServerTypes
<1>2. (\E n \in 1..Len(toClient'[c]) : toClient'[c][n] = [kind |-> "DWSTART", file |-> f])
         <=> In(toClient'[c], "DWSTART", f)
  BY <1>1, StartFrame
<1> QED BY <1>2 DEF Awaiting, StartIn, IsStart

-------------------------------------------------------------------------------
(* What keeps a line *)

\* A session that did not change, with fewer chunks on their way than before.
LEMMA CountsShrink ==
    ASSUME NEW c \in Client, NEW f \in File, NEW i, NEW B \in SUBSET (0..(Size - 1)),
           Counts(c, i, B), sessions'[i] = sessions[i], sessions[i].file = f,
           Asks(c, i)' \subseteq Asks(c, i),
           Acks(toServer'[c], i) \subseteq Acks(toServer[c], i),
           Sent(toClient'[c], i) \subseteq Sent(toClient[c], i),
           Once(toClient[c], i) => Once(toClient'[c], i),
           alive'[Owner[f]] => alive[Owner[f]]
    PROVE  /\ Counts(c, i, B)'
           /\ Lost(c, i, B) => Lost(c, i, B)'
           /\ Doomed(c, i, B) => Doomed(c, i, B)'
<1>1. Uploader(i) = Owner[f] /\ Uploader(i)' = Owner[f] BY DEF Uploader
<1>2. Placed(c, i, B)' \subseteq Placed(c, i, B) BY DEF Placed
<1>3. Lost(c, i, B) => Lost(c, i, B)' BY <1>1, <1>2 DEF Lost
<1>4. Doomed(c, i, B) => Doomed(c, i, B)' BY <1>1, <1>3 DEF Doomed
<1>5. Counts(c, i, B)' BY <1>2 DEF Counts
<1> QED BY <1>3, <1>4, <1>5

\* The frame condition of the proof: a step keeps a line if it ends sessions of the pair or leaves
\* them alone, and says no more about the file, on either queue, than was said before.
LEMMA LineKept ==
    ASSUME ServerTypes, ServerTypes', NEW c \in Client, NEW f \in File, Line(c, f),
           NEW mine, mine = Ours(c, f)', mine \subseteq Ours(c, f),
           \A i \in mine : sessions'[i] = sessions[i],
           Alike(toServer[c], toServer'[c], f, mine),
           AlikeFrames(toClient[c], toClient'[c], f, mine),
           In(toClient[c], "DWSTART", f) => (In(toClient'[c], "DWSTART", f) \/ Holds(c, f)),
           In(toClient'[c], "DWERR", f) => (In(toClient[c], "DWERR", f) \/ (Gone(f)' /\ mine = {})),
           \/ handling'[c] = handling[c]
           \/ /\ handling[c].file # f /\ handling'[c].file # f
              /\ \A x \in handling'[c].requests : x.id \notin mine,
           \A x \in requested' : x.id \in mine => x \in requested,
           Holds(c, f)' <=> Holds(c, f), Kept(c, f) \subseteq Kept(c, f)',
           Holds(c, f) => downloads'[c][f].paused = downloads[c][f].paused,
           alive'[Owner[f]] => alive[Owner[f]],
           Gone(f) => Gone(f)'
    PROVE  Line(c, f)'
<1>1. /\ StopIn(toServer'[c], f) <=> StopIn(toServer[c], f)
      /\ StartIn(toServer'[c], f) <=> StartIn(toServer[c], f)
      /\ Alternate(toServer'[c], f) <=> Alternate(toServer[c], f)
      /\ Fenced(toServer'[c], f) <=> Fenced(toServer[c], f)
      /\ Ended(toServer'[c], f) <=> Ended(toServer[c], f)
  BY DEF Alike
<1>2. /\ \A kept : Resumes(toServer'[c], f, kept) <=> Resumes(toServer[c], f, kept)
      /\ \A i \in mine : /\ Acks(toServer'[c], i) \subseteq Acks(toServer[c], i)
                         /\ InTime(toServer'[c], f, i) \subseteq InTime(toServer[c], f, i)
  BY DEF Alike
<1>3. /\ In(toClient'[c], "DWSTART", f) => In(toClient[c], "DWSTART", f)
      /\ In(toClient'[c], "DWNDONE", f) => In(toClient[c], "DWNDONE", f)
      /\ DoneFirst(toClient[c], f) => DoneFirst(toClient'[c], f)
      /\ \A i \in mine : /\ Sent(toClient'[c], i) \subseteq Sent(toClient[c], i)
                         /\ Once(toClient[c], i) => Once(toClient'[c], i)
                         /\ DataLast(toClient[c], f, i) => DataLast(toClient'[c], f, i)
                         /\ DataOf(toClient[c], i, f) => DataOf(toClient'[c], i, f)
  BY DEF AlikeFrames
<1>4. /\ handling'[c].file = f <=> handling[c].file = f
      /\ handling[c].file = f => handling'[c] = handling[c]
  OBVIOUS
<1>5. /\ Over(c, f)' => Over(c, f)
      /\ Whole(c, f) => Whole(c, f)'
      /\ Settled(c, f)' <=> Settled(c, f)
  <2>1. Over(c, f)' => Over(c, f) BY <1>3 DEF Over
  <2>2. Whole(c, f) => Whole(c, f)' BY DEF Whole
  <2>3. Settled(c, f)' <=> Settled(c, f) BY <1>1, <1>4 DEF Settled
  <2> QED BY <2>1, <2>2, <2>3
<1>6. ~Holds(c, f) => (Awaiting(c, f)' <=> Awaiting(c, f))
  BY <1>1, <1>3, <1>4, AwaitingIs, AwaitingNext
<1>7. Pair(c, f)'
  <2>1. Pair(c, f) BY DEF Line
  <2>2. Resumes(toServer'[c], f, Kept(c, f)') \/ Gone(f)'
    <3>1. Resumes(toServer[c], f, Kept(c, f)) \/ Gone(f) BY <2>1 DEF Pair
    <3>2. Resumes(toServer[c], f, Kept(c, f)) => Resumes(toServer[c], f, Kept(c, f)') BY ResumesMore
    <3> QED BY <1>2, <3>1, <3>2
  <2>3. handling'[c].step = "found" /\ handling'[c].file = f =>
          StopIn(toServer'[c], f) \/ Gone(f)' \/ 0..(handling'[c].off - 1) \subseteq Kept(c, f)'
    BY <1>1, <1>4, <2>1 DEF Pair
  <2>4. /\ Alternate(toServer'[c], f)
        /\ handling'[c].file = f => Fenced(toServer'[c], f)
        /\ Over(c, f)' => Settled(c, f)'
        /\ DoneFirst(toClient'[c], f)
        /\ Holds(c, f)' /\ In(toClient'[c], "DWNDONE", f) => Whole(c, f)'
        /\ In(toClient'[c], "DWERR", f) => Gone(f)'
    BY <1>1, <1>3, <1>4, <1>5, <2>1 DEF Pair
  <2>5. \A i, j \in mine : i = j BY <2>1 DEF Pair
  <2> QED BY <2>2, <2>3, <2>4, <2>5 DEF Pair
<1>8. ASSUME NEW i \in mine
      PROVE  \E B \in SUBSET (0..(Size - 1)) : Session(c, f, i, B)'
  <2>1. PICK B \in SUBSET (0..(Size - 1)) : Session(c, f, i, B) BY DEF Line
  <2>2. sessions'[i] = sessions[i] /\ sessions[i].file = f BY DEF Ours
  <2>3. Asks(c, i)' \subseteq Asks(c, i)
    <3>1. \A x \in handling'[c].requests : x.id = i => x \in handling[c].requests OBVIOUS
    <3> QED BY <3>1 DEF Asks
  <2>4. /\ Acks(toServer'[c], i) \subseteq Acks(toServer[c], i)
        /\ InTime(toServer'[c], f, i) \subseteq InTime(toServer[c], f, i)
        /\ Sent(toClient'[c], i) \subseteq Sent(toClient[c], i)
        /\ Once(toClient[c], i) => Once(toClient'[c], i)
    BY <1>2, <1>3
  <2>5. Counts(c, i, B) BY <2>1 DEF Session
  <2>6. /\ Counts(c, i, B)'
        /\ Lost(c, i, B) => Lost(c, i, B)'
        /\ Doomed(c, i, B) => Doomed(c, i, B)'
    BY <2>2, <2>3, <2>4, <2>5, CountsShrink
  <2>8. Stage(c, f, i, B)'
    <3>1. Stage(c, f, i, B) BY <2>1 DEF Session
    <3>2. \A x \in requested' : x.id = i => x \in requested OBVIOUS
    <3> QED BY <1>3, <1>4, <2>4, <3>1, <3>2 DEF Stage
  <2>9. Course(c, f, i, B)'
    <3>1. Course(c, f, i, B) BY <2>1 DEF Session
    <3> QED BY <1>1, <1>3, <1>4, <1>5, <1>6, <2>6, <3>1 DEF Course
  <2>10. Safe(c, f, i, B)'
    <3>1. Safe(c, f, i, B) BY <2>1 DEF Session
    <3>2. CASE StopIn(toServer[c], f) BY <1>1, <1>5, <2>4, <3>1, <3>2 DEF Safe
    <3>3. CASE ~StopIn(toServer[c], f) BY <1>1, <2>4, <2>6, <3>1, <3>3 DEF Safe
    <3> QED BY <3>2, <3>3
  <2> QED BY <2>6, <2>8, <2>9, <2>10 DEF Session
<1> QED BY <1>7, <1>8 DEF Line

\* What Post appends to each client's frames.
LEMMA PostedTo ==
    ASSUME ServerTypes, NEW a \in Client, NEW c \in Client, NEW s \in Seq(GoodFrame),
           Post(OnlyTo(a, s)), alive[c]
    PROVE  /\ c = a => toClient'[c] = toClient[c] \o s
           /\ c # a => toClient'[c] = toClient[c]
<1>1. toClient[c] \in Seq(GoodFrame) /\ toClient[c] \o <<>> = toClient[c]
  <2>1. toClient[c] \in Seq(GoodFrame) BY DEF ServerTypes
  <2> QED BY <2>1, ConcatEmptySeq
<1>2. OnlyTo(a, s)[c] = IF c = a THEN s ELSE <<>> BY DEF OnlyTo, Silent
<1>3. toClient'[c] = toClient[c] \o OnlyTo(a, s)[c] BY DEF Post
<1> QED BY <1>1, <1>2, <1>3

LEMMA OneFrame ==
    ASSUME NEW s \in Seq(GoodFrame), NEW x \in GoodFrame
    PROVE  s \o <<x>> = Append(s, x)
OBVIOUS

\* The parts of the invariant other than the lines, kept by a step that adds known messages,
\* sessions not there before, and requests for those there are.
LEMMA MessagesKept ==
    ASSUME Messages, Issued \subseteq Issued', DOMAIN uploaded \subseteq DOMAIN uploaded',
           departed \subseteq departed',
           \A c \in Client : \A m \in ToSet(toServer'[c]) : m \in ToSet(toServer[c]) \/ Known(m)',
           \A c \in Client : \A x \in ToSet(toClient'[c]) : x \in ToSet(toClient[c]) \/ KnownFrame(x)'
    PROVE  Messages'
<1>1. ASSUME NEW m, Known(m) PROVE Known(m)' BY <1>1 DEF Known
<1>2. ASSUME NEW x, KnownFrame(x) PROVE KnownFrame(x)' BY <1>2 DEF KnownFrame
<1>3. ASSUME NEW c \in Client, NEW m \in ToSet(toServer'[c]) PROVE Known(m)' BY <1>1 DEF Messages
<1>4. ASSUME NEW c \in Client, NEW x \in ToSet(toClient'[c]) PROVE KnownFrame(x)'
  BY <1>2 DEF Messages
<1> QED BY <1>3, <1>4 DEF Messages

LEMMA LanesKept ==
    ASSUME Lanes, Issued \subseteq Issued',
           \A i \in DOMAIN sessions' : i \in Issued =>
              /\ i \in DOMAIN sessions /\ sessions'[i].file = sessions[i].file
              /\ sessions'[i].downloader = sessions[i].downloader,
           \A c \in Client : handling'[c] = handling[c] \/ handling'[c] = Idle \/ Lane(c)',
           \A x \in requested' : x \in requested \/ Request(x)'
    PROVE  Lanes'
<1>1. ASSUME NEW c \in Client PROVE Lane(c)'
  <2>1. CASE handling'[c] = handling[c]
    <3>1. Lane(c) BY DEF Lanes
    <3>2. ASSUME NEW x \in handling[c].requests, x.id \in DOMAIN sessions'
          PROVE  x.id \in Ours(c, x.file)'
      BY <3>1, <3>2 DEF Lane, Ours
    <3> QED BY <2>1, <3>1, <3>2 DEF Lane
  <2>2. CASE handling'[c] = Idle BY <2>2 DEF Idle, Lane
  <2> QED BY <2>1, <2>2
<1>2. ASSUME NEW x \in requested' PROVE Request(x)' BY DEF Lanes, Request
<1> QED BY <1>1, <1>2 DEF Lanes

\* What Takes, Send and Post leave in the queues.
LEMMA TakesMembers ==
    ASSUME ServerTypes, NEW a \in Client, NEW kinds, Takes(a, kinds)
    PROVE  /\ \A c \in Client : \A m \in ToSet(toServer'[c]) : m \in ToSet(toServer[c])
           /\ toServer'[a] = Tail(toServer[a]) /\ \A c \in Client \ {a} : toServer'[c] = toServer[c]
           /\ toServer[a] \in Seq(Command) /\ toServer[a] # <<>>
           /\ Head(toServer[a]) \in ToSet(toServer[a]) /\ Head(toServer[a]) \in Command
           /\ Head(toServer[a]).kind \in kinds /\ handling[a].step = "idle" /\ alive[a]
<1>1. /\ toServer[a] \in Seq(Command) /\ toServer[a] # <<>>
      /\ toServer' = [toServer EXCEPT ![a] = Tail(toServer[a])]
      /\ toServer \in [Client -> Seq(Command)]
  BY DEF Takes, ServerTypes
<1>2. /\ toServer'[a] = Tail(toServer[a]) /\ \A c \in Client \ {a} : toServer'[c] = toServer[c]
  BY <1>1
<1>3. Head(toServer[a]) \in Command BY <1>1, HeadTailProperties
<1>4. Head(toServer[a]) \in ToSet(toServer[a]) /\ ToSet(Tail(toServer[a])) \subseteq ToSet(toServer[a])
  BY <1>1, <1>3, MembersOf
<1>5. ASSUME NEW c \in Client, NEW m \in ToSet(toServer'[c]) PROVE m \in ToSet(toServer[c])
  BY <1>2, <1>4
<1> QED BY <1>1, <1>2, <1>3, <1>4, <1>5 DEF Takes, LaneFree

LEMMA SendMembers ==
    ASSUME ServerTypes, NEW a \in Client, NEW m \in Command, Send(a, m)
    PROVE  /\ \A c \in Client : \A x \in ToSet(toServer'[c]) : x \in ToSet(toServer[c]) \/ x = m
           /\ toServer'[a] = Append(toServer[a], m) /\ toServer[a] \in Seq(Command)
           /\ \A c \in Client \ {a} : toServer'[c] = toServer[c]
<1>1. /\ toServer[a] \in Seq(Command)
      /\ toServer' = [toServer EXCEPT ![a] = Append(toServer[a], m)]
      /\ toServer \in [Client -> Seq(Command)]
  BY DEF Send, ServerTypes
<1>2. toServer'[a] = Append(toServer[a], m) /\ \A c \in Client \ {a} : toServer'[c] = toServer[c]
  BY <1>1
<1>3. ToSet(Append(toServer[a], m)) = ToSet(toServer[a]) \cup {m} BY <1>1, MembersOf
<1> QED BY <1>1, <1>2, <1>3

LEMMA PostMembers ==
    ASSUME ServerTypes, NEW frames \in [Client -> Seq(GoodFrame)], Post(frames)
    PROVE  \A c \in Client : \A x \in ToSet(toClient'[c]) : x \in ToSet(toClient[c]) \/ x \in ToSet(frames[c])
<1> SUFFICES ASSUME NEW c \in Client, NEW x \in ToSet(toClient'[c])
             PROVE  x \in ToSet(toClient[c]) \/ x \in ToSet(frames[c])
  OBVIOUS
<1>1. toClient[c] \in Seq(GoodFrame) /\ frames[c] \in Seq(GoodFrame) BY DEF ServerTypes
<1>2. toClient'[c] = toClient[c] \o frames[c] \/ toClient'[c] = toClient[c] BY DEF Post
<1>3. \A y \in ToSet(toClient[c] \o frames[c]) : y \in ToSet(toClient[c]) \/ y \in ToSet(frames[c])
  BY <1>1, MembersOfAll
<1> QED BY <1>2, <1>3

LEMMA OnlyToMembers ==
    ASSUME ServerTypes, NEW a \in Client, NEW s \in Seq(GoodFrame), Post(OnlyTo(a, s))
    PROVE  \A c \in Client : \A x \in ToSet(toClient'[c]) : x \in ToSet(toClient[c]) \/ x \in ToSet(s)
<1>1. OnlyTo(a, s) \in [Client -> Seq(GoodFrame)] BY OnlyToTypes
<1>2. ASSUME NEW c \in Client PROVE ToSet(OnlyTo(a, s)[c]) \subseteq ToSet(s)
  <2>1. OnlyTo(a, s)[c] = IF c = a THEN s ELSE <<>> BY DEF OnlyTo, Silent
  <2>2. ToSet(<<>>) = {} BY DEF ToSet
  <2> QED BY <2>1, <2>2
<1> QED BY <1>1, <1>2, PostMembers

\* Sessions are numbered as they are issued.
LEMMA IssuedGrows ==
    ASSUME Manager
    PROVE  /\ UNCHANGED nextSession => Issued' = Issued
           /\ nextSession' = nextSession + 1 => Issued \subseteq Issued' /\ nextSession \in Issued'
           /\ nextSession \notin Issued /\ DOMAIN sessions \subseteq Issued /\ nextSession \in Nat
<1>1. nextSession \in Nat \ {0} /\ DOMAIN sessions \subseteq 1..(nextSession - 1)
  BY DEF Manager, ManagerTypeOK
<1> QED BY <1>1 DEF Issued

\* The types the steps below need most.
LEMMA FileFacts ==
    ASSUME IInv, IInv', NEW c \in Client, NEW f \in File
    PROVE  /\ ServerTypes /\ ServerTypes'
           /\ NoFile # f /\ Idle.file = NoFile /\ Idle.step = "idle" /\ Idle.requests = {}
           /\ Owner[f] \in Client
           /\ alive \in [Client -> BOOLEAN] /\ alive' \in [Client -> BOOLEAN]
BY TransferAssumption, ClientAssumption DEF IInv, Idle, Manager, ManagerTypeOK

\* One frame, about another file, posted.
LEMMA AlikePostedOne ==
    ASSUME NEW w \in Seq(GoodFrame), NEW x \in GoodFrame, NEW f, NEW ids, ~AboutFrame(x, f, ids)
    PROVE  /\ AlikeFrames(w, w \o <<x>>, f, ids)
           /\ In(w, "DWSTART", f) => In(w \o <<x>>, "DWSTART", f)
           /\ In(w \o <<x>>, "DWERR", f) => (In(w, "DWERR", f) \/ IsOf(x, "DWERR", f))
<1> DEFINE fs == <<x>>
<1>1. fs \in Seq(GoodFrame) /\ Len(fs) = 1 /\ fs[1] = x OBVIOUS
<1> HIDE DEF fs
<1>2. \A n \in 1..Len(fs) : fs[n] = x BY <1>1
<1>3. \A n \in 1..Len(fs) : ~AboutFrame(fs[n], f, ids) BY <1>2
<1>4. /\ AlikeFrames(w, w \o fs, f, ids)
      /\ In(w, "DWSTART", f) => In(w \o fs, "DWSTART", f)
      /\ In(w \o fs, "DWERR", f) => (In(w, "DWERR", f) \/ \E n \in 1..Len(fs) : IsOf(fs[n], "DWERR", f))
  BY <1>1, <1>3, AlikePosted
<1> QED BY <1>2, <1>4 DEF fs

-------------------------------------------------------------------------------
(* Steps that are not about the file *)

\* What a step leaves alone.
LEMMA Unmoved ==
    ASSUME NEW c, NEW f
    PROVE  /\ UNCHANGED sessions => Ours(c, f)' = Ours(c, f)
           /\ UNCHANGED downloads =>
                 /\ Holds(c, f)' <=> Holds(c, f)
                 /\ Kept(c, f)' = Kept(c, f)
                 /\ downloads'[c][f].paused = downloads[c][f].paused
           /\ UNCHANGED <<registrations, alive, uploaded>> => (Gone(f)' <=> Gone(f))
<1>1. UNCHANGED sessions => Ours(c, f)' = Ours(c, f) BY DEF Ours
<1>2. UNCHANGED downloads => (Holds(c, f)' <=> Holds(c, f)) /\ Kept(c, f)' = Kept(c, f)
  BY DEF Holds, Kept
<1>3. UNCHANGED <<registrations, alive, uploaded>> => (Gone(f)' <=> Gone(f)) BY DEF Gone
<1> QED BY <1>1, <1>2, <1>3

\* A queue left alone, or moved by a command or a frame about other files, is alike.
LEMMA QuietAlike ==
    ASSUME ServerTypes, NEW c \in Client, NEW f, NEW ids
    PROVE  /\ QuietLane(c, f) => Alike(toServer[c], toServer'[c], f, ids)
           /\ QuietWire(c, f, ids) =>
                 /\ AlikeFrames(toClient[c], toClient'[c], f, ids)
                 /\ In(toClient[c], "DWSTART", f) => In(toClient'[c], "DWSTART", f)
                 /\ In(toClient'[c], "DWERR", f) => In(toClient[c], "DWERR", f)
<1>1. toServer[c] \in Seq(Command) /\ toClient[c] \in Seq(GoodFrame) BY DEF ServerTypes
<1>2. ASSUME QuietLane(c, f) PROVE Alike(toServer[c], toServer'[c], f, ids)
  <2>1. CASE toServer'[c] = toServer[c] BY <2>1, AlikeItself
  <2>2. CASE toServer[c] # <<>> /\ ~Orders(Head(toServer[c]), f) /\ toServer'[c] = Tail(toServer[c])
    BY <1>1, <2>2, AlikeHandled
  <2>3. ASSUME NEW m \in Command, ~Orders(m, f), m.kind # "DWACK", toServer'[c] = Append(toServer[c], m)
        PROVE  Alike(toServer[c], toServer'[c], f, ids)
    <3>1. \A i \in ids : ~IsAck(m, i) BY <2>3 DEF IsAck
    <3> QED BY <1>1, <2>3, <3>1, AlikeAppended
  <2> QED BY <1>2, <2>1, <2>2, <2>3 DEF QuietLane
<1>3. ASSUME QuietWire(c, f, ids)
      PROVE  /\ AlikeFrames(toClient[c], toClient'[c], f, ids)
             /\ In(toClient[c], "DWSTART", f) => In(toClient'[c], "DWSTART", f)
             /\ In(toClient'[c], "DWERR", f) => In(toClient[c], "DWERR", f)
  <2>1. CASE toClient'[c] = toClient[c] BY <2>1, AlikeItself
  <2>2. ASSUME NEW x \in GoodFrame, ~AboutFrame(x, f, ids), ~IsOf(x, "DWERR", f),
               toClient'[c] = toClient[c] \o <<x>>
        PROVE  /\ AlikeFrames(toClient[c], toClient'[c], f, ids)
               /\ In(toClient[c], "DWSTART", f) => In(toClient'[c], "DWSTART", f)
               /\ In(toClient'[c], "DWERR", f) => In(toClient[c], "DWERR", f)
    BY <1>1, <2>2, AlikePostedOne
  <2> QED BY <1>3, <2>1, <2>2 DEF QuietWire
<1> QED BY <1>2, <1>3

\* LineKept, for a step that is quiet about the file.
LEMMA QuietLine ==
    ASSUME IInv, IInv', NEW c \in Client, NEW f \in File, Line(c, f),
           NEW mine, mine = Ours(c, f)', mine \subseteq Ours(c, f),
           \A i \in mine : sessions'[i] = sessions[i],
           QuietLane(c, f), QuietWire(c, f, mine),
           \/ handling'[c] = handling[c]
           \/ /\ handling[c].file # f /\ handling'[c].file # f
              /\ \A x \in handling'[c].requests : x.id \notin mine,
           \A x \in requested' : x.id \in mine => x \in requested,
           Holds(c, f)' <=> Holds(c, f), Kept(c, f) \subseteq Kept(c, f)',
           Holds(c, f) => downloads'[c][f].paused = downloads[c][f].paused,
           alive'[Owner[f]] => alive[Owner[f]],
           Gone(f) => Gone(f)'
    PROVE  Line(c, f)'
<1>1. ServerTypes /\ ServerTypes' BY DEF IInv
<1>2. Alike(toServer[c], toServer'[c], f, mine) BY <1>1, QuietAlike
<1>3. /\ AlikeFrames(toClient[c], toClient'[c], f, mine)
      /\ In(toClient[c], "DWSTART", f) => In(toClient'[c], "DWSTART", f)
      /\ In(toClient'[c], "DWERR", f) => In(toClient[c], "DWERR", f)
  BY <1>1, QuietAlike
<1> QED BY <1>1, <1>2, <1>3, LineKept

\* A step that leaves the tables, the browsers and what is asked for alone.
LEMMA PassingBy ==
    ASSUME IInv, IInv', Lines, NEW c \in Client, alive'[c], NEW f \in File,
           UNCHANGED <<sessions, registrations, alive, uploaded, downloads>>,
           requested' \subseteq requested,
           QuietLane(c, f), QuietWire(c, f, Ours(c, f)),
           \/ handling'[c] = handling[c]
           \/ handling[c].file # f /\ handling'[c].file # f /\ handling'[c].requests = {}
    PROVE  Line(c, f)'
<1>1. Line(c, f) BY DEF Lines
<1>2. PICK mine : mine = Ours(c, f)' /\ mine = Ours(c, f) BY Unmoved
<1>3. /\ Holds(c, f)' <=> Holds(c, f)
      /\ Kept(c, f)' = Kept(c, f)
      /\ downloads'[c][f].paused = downloads[c][f].paused
      /\ Gone(f)' <=> Gone(f)
  BY Unmoved
<1>4. /\ \A x \in requested' : x.id \in mine => x \in requested
      /\ \A i \in mine : sessions'[i] = sessions[i]
      /\ alive'[Owner[f]] => alive[Owner[f]]
  OBVIOUS
<1>5. QuietWire(c, f, mine) BY <1>2
<1>6. \/ handling'[c] = handling[c]
      \/ /\ handling[c].file # f /\ handling'[c].file # f
         /\ \A x \in handling'[c].requests : x.id \notin mine
  OBVIOUS
<1> QED BY <1>1, <1>2, <1>3, <1>4, <1>5, <1>6, QuietLine

\* find_file and start_dwn read the registrations for a DOWNLOAD: the handler of g takes the
\* start off the queue, and holds it.
LEMMA FindFileKeeps ==
    ASSUME IInv, IInv', JInv, NEW a \in Client, FindFile(a) PROVE JInv'
<1> DEFINE m == Head(toServer[a])
<1>1. /\ Takes(a, {"DOWNLOAD"}) /\ ServerTypes /\ ServerTypes' /\ Manager
      /\ UNCHANGED <<managerVars, alive, departed, requested, browserVars>>
      /\ Lanes /\ Messages /\ Offers /\ Lines
  BY DEF FindFile, IInv, JInv
<1>2. /\ UNCHANGED <<registrations, uploaderFiles, sessions, nextSession, uploaderSessions,
                     downloaderSessions, uploaded, uploadSessions, downloads>>
  BY <1>1 DEF managerVars, fileVars, sessionVars, browserVars, uploadVars, downloadVars
<1>3. /\ \A c \in Client : \A x \in ToSet(toServer'[c]) : x \in ToSet(toServer[c])
      /\ toServer'[a] = Tail(toServer[a]) /\ \A c \in Client \ {a} : toServer'[c] = toServer[c]
      /\ toServer[a] \in Seq(Command) /\ toServer[a] # <<>>
      /\ m \in Command /\ m.kind = "DOWNLOAD" /\ handling[a].step = "idle" /\ alive[a]
  BY <1>1, TakesMembers
<1>4. m.file \in File /\ m.off \in Nat BY <1>3, CommandTypes
<1>5. PICK g \in File, o \in Nat : g = m.file /\ o = m.off BY <1>4
<1>6. PICK e \in GoodFrame : e = [kind |-> "DWERR", file |-> g] BY FrameTypes
<1>7. \/ g \notin registrations /\ UNCHANGED <<toClient, handling>>
      \/ /\ g \in registrations /\ ~alive[Owner[g]] /\ UNCHANGED handling
         /\ Post(OnlyTo(a, <<e>>))
      \/ /\ g \in registrations /\ alive[Owner[g]] /\ UNCHANGED toClient
         /\ handling' = [handling EXCEPT ![a] = [Idle EXCEPT !.step = "found", !.file = g, !.off = o]]
  BY <1>5, <1>6 DEF FindFile
<1>8. IsStart(m, g) /\ ~IsStop(m, g) /\ \A i : ~IsAck(m, i) BY <1>3, <1>5 DEF IsStart, IsStop, IsAck
<1>9. e.kind = "DWERR" /\ e.file = g /\ <<e>> \in Seq(GoodFrame) /\ ToSet(<<e>>) = {e}
  BY <1>6 DEF ToSet
<1>10. handling[a] = Idle BY <1>1, <1>3 DEF Lanes, Lane
<1>11. Issued' = Issued BY <1>1, <1>2, IssuedGrows
<1>12. Messages'
  <2>1. \A c \in Client : \A x \in ToSet(toClient'[c]) : x \in ToSet(toClient[c]) \/ x = e
    <3>1. CASE UNCHANGED toClient BY <3>1
    <3>2. CASE Post(OnlyTo(a, <<e>>)) BY <1>1, <1>9, <3>2, OnlyToMembers
    <3> QED BY <1>7, <3>1, <3>2
  <2>2. KnownFrame(e)' BY <1>9 DEF KnownFrame
  <2> QED BY <1>1, <1>2, <1>3, <1>11, <2>1, <2>2, MessagesKept
<1>13. Lanes'
  <2>1. ASSUME NEW c \in Client PROVE handling'[c] = handling[c] \/ Lane(c)'
    <3>1. CASE UNCHANGED handling BY <3>1
    <3>2. CASE handling' = [handling EXCEPT ![a] = [Idle EXCEPT !.step = "found", !.file = g, !.off = o]]
      <4>1. handling \in [Client -> Handling] BY <1>1 DEF ServerTypes
      <4>2. CASE c = a
        <5>1. handling'[c].step = "found" /\ handling'[c].requests = {} BY <3>2, <4>1, <4>2 DEF Idle
        <5> QED BY <5>1 DEF Lane
      <4>3. CASE c # a BY <3>2, <4>1, <4>3
      <4> QED BY <4>2, <4>3
    <3> QED BY <1>7, <3>1, <3>2
  <2> QED BY <1>1, <1>2, <1>11, <2>1, LanesKept
<1>14. Offers' BY <1>1, <1>2 DEF Offers
<1>15. ASSUME NEW c \in Client, alive'[c], NEW f \in File PROVE Line(c, f)'
  <2>1. alive[c] /\ Line(c, f) BY <1>1, <1>15 DEF Lines
  <2>2. PICK mine : mine = Ours(c, f)' /\ mine = Ours(c, f) BY <1>2, Unmoved
  <2>3. /\ Holds(c, f)' <=> Holds(c, f)
        /\ Kept(c, f)' = Kept(c, f)
        /\ downloads'[c][f].paused = downloads[c][f].paused
        /\ Gone(f)' <=> Gone(f)
    BY <1>1, <1>2, Unmoved
  <2>4. NoFile # f /\ Idle.file = NoFile /\ Idle.requests = {} BY FileFacts
  <2>5. handling \in [Client -> Handling] BY <1>1 DEF ServerTypes
  <2>6. toClient[c] \in Seq(GoodFrame) BY <1>1 DEF ServerTypes
  <2>7. CASE ~(c = a /\ f = g)
    <3>1. QuietLane(c, f)
      <4>1. CASE c # a BY <1>3, <4>1 DEF QuietLane
      <4>2. CASE c = a
        <5>1. ~Orders(m, f) BY <1>3, <1>5, <2>7, <4>2 DEF Orders, IsStart, IsStop
        <5> QED BY <1>3, <4>2, <5>1 DEF QuietLane
      <4> QED BY <4>1, <4>2
    <3>2. QuietWire(c, f, Ours(c, f))
      <4>1. CASE toClient'[c] = toClient[c] BY <4>1 DEF QuietWire
      <4>2. CASE c = a /\ Post(OnlyTo(a, <<e>>))
        <5>1. toClient'[c] = toClient[c] \o <<e>> BY <1>1, <1>9, <2>1, <4>2, PostedTo
        <5>2. ~AboutFrame(e, f, Ours(c, f)) /\ ~IsOf(e, "DWERR", f)
          BY <1>9, <2>7, <4>2 DEF AboutFrame, IsOf, IsData
        <5> QED BY <5>1, <5>2 DEF QuietWire
      <4>3. CASE c # a /\ Post(OnlyTo(a, <<e>>))
        <5>1. toClient'[c] = toClient[c] BY <1>1, <1>9, <2>1, <4>3, PostedTo
        <5> QED BY <5>1 DEF QuietWire
      <4> QED BY <1>7, <4>1, <4>2, <4>3
    <3>3. \/ handling'[c] = handling[c]
          \/ handling[c].file # f /\ handling'[c].file # f /\ handling'[c].requests = {}
      <4>1. CASE UNCHANGED handling BY <4>1
      <4>2. CASE handling' = [handling EXCEPT ![a] = [Idle EXCEPT !.step = "found", !.file = g, !.off = o]]
        <5>1. CASE c # a BY <2>5, <4>2, <5>1
        <5>2. CASE c = a
          <6>1. handling'[c].file = g /\ handling'[c].requests = {} BY <2>5, <4>2, <5>2 DEF Idle
          <6> QED BY <1>10, <2>4, <2>7, <5>2, <6>1
        <5> QED BY <5>1, <5>2
      <4> QED BY <1>7, <4>1, <4>2
    <3> QED BY <1>1, <1>2, <1>15, <3>1, <3>2, <3>3, PassingBy
  <2>8. CASE c = a /\ f = g
    <3> DEFINE q == toServer[c]
    <3>1. /\ q \in Seq(Command) /\ q # <<>> /\ toServer'[c] = Tail(q)
          /\ IsStart(Head(q), f) /\ ~IsStop(Head(q), f) /\ \A i : ~IsAck(Head(q), i)
          /\ Head(q).off = o
      BY <1>3, <1>5, <1>8, <2>8
    <3> HIDE DEF q
    <3>2. /\ StopIn(q, f) <=> StopIn(toServer'[c], f)
          /\ StartIn(q, f)
          /\ Alternate(q, f) => Alternate(toServer'[c], f) /\ Fenced(toServer'[c], f)
          /\ ~Fenced(q, f)
          /\ Ended(q, f) => Ended(toServer'[c], f) /\ StopIn(toServer'[c], f)
      BY <3>1, Handled
    <3>3. ASSUME NEW kept, Resumes(q, f, kept)
          PROVE  Resumes(toServer'[c], f, kept) /\ (StopIn(q, f) \/ 0..(o - 1) \subseteq kept)
      BY <3>1, <3>2, <3>3, HandledResumes
    <3>4. \A i : Acks(q, i) = Acks(toServer'[c], i) /\ InTime(q, f, i) = InTime(toServer'[c], f, i)
      BY <3>1, HandledAcks
    <3>5. /\ AlikeFrames(toClient[c], toClient'[c], f, mine)
          /\ In(toClient[c], "DWSTART", f) => In(toClient'[c], "DWSTART", f)
          /\ In(toClient'[c], "DWERR", f) => In(toClient[c], "DWERR", f) \/ ~alive[Owner[f]]
      <4>1. CASE toClient'[c] = toClient[c] BY <4>1, AlikeItself
      <4>2. CASE ~alive[Owner[g]] /\ Post(OnlyTo(a, <<e>>))
        <5>1. toClient'[c] = toClient[c] \o <<e>> BY <1>1, <1>9, <2>1, <2>8, <4>2, PostedTo
        <5>2. ~AboutFrame(e, f, mine) BY <1>9 DEF AboutFrame, IsOf, IsData
        <5> QED BY <2>6, <2>8, <4>2, <5>1, <5>2, AlikePostedOne
      <4> QED BY <1>7, <4>1, <4>2
    <3>6. /\ In(toClient'[c], "DWSTART", f) <=> In(toClient[c], "DWSTART", f)
          /\ In(toClient'[c], "DWNDONE", f) => In(toClient[c], "DWNDONE", f)
          /\ DoneFirst(toClient[c], f) => DoneFirst(toClient'[c], f)
          /\ \A i \in mine : /\ Sent(toClient'[c], i) \subseteq Sent(toClient[c], i)
                             /\ Once(toClient[c], i) => Once(toClient'[c], i)
                             /\ DataLast(toClient[c], f, i) => DataLast(toClient'[c], f, i)
                             /\ DataOf(toClient[c], i, f) => DataOf(toClient'[c], i, f)
      BY <3>5 DEF AlikeFrames
    <3>7. handling[c] = Idle /\ handling[c].file # f BY <1>10, <2>4, <2>8
    <3>8. \/ handling'[c] = handling[c]
          \/ alive[Owner[f]] /\ handling'[c].step = "found" /\ handling'[c].file = f /\ handling'[c].off = o
      <4>1. CASE UNCHANGED handling BY <4>1
      <4>2. CASE /\ alive[Owner[g]]
                 /\ handling' = [handling EXCEPT ![a] = [Idle EXCEPT !.step = "found", !.file = g, !.off = o]]
        BY <2>5, <2>8, <4>2 DEF Idle
      <4> QED BY <1>7, <4>1, <4>2
    <3>9. Pair(c, f) BY <2>1 DEF Line
    <3>10. Over(c, f)' => Over(c, f) BY <2>3, <3>6 DEF Over
    <3>11. Ended(q, f) => Settled(c, f)' BY <3>2 DEF Settled
    <3>12. Over(c, f) => Ended(q, f) BY <3>9 DEF Pair, Settled, q
    <3>13. Pair(c, f)'
      <4>1. Alternate(toServer'[c], f) /\ Fenced(toServer'[c], f) BY <3>2, <3>9 DEF Pair, q
      <4>2. /\ DoneFirst(toClient'[c], f)
            /\ Holds(c, f)' /\ In(toClient'[c], "DWNDONE", f) => Whole(c, f)'
        BY <2>3, <3>6, <3>9 DEF Pair, Whole
      <4>3. In(toClient'[c], "DWERR", f) => Gone(f)' BY <2>3, <3>5, <3>9 DEF Pair, Gone
      <4>4. /\ Resumes(toServer'[c], f, Kept(c, f)') \/ Gone(f)'
            /\ StopIn(toServer'[c], f) \/ Gone(f)' \/ 0..(o - 1) \subseteq Kept(c, f)'
        <5>1. PICK kept : kept = Kept(c, f) /\ kept = Kept(c, f)' BY <2>3
        <5>2. Resumes(q, f, kept) \/ Gone(f) BY <3>9, <5>1 DEF Pair, q
        <5>3. CASE Resumes(q, f, kept) BY <2>3, <3>2, <3>3, <5>1, <5>3
        <5>4. CASE Gone(f) BY <2>3, <5>4
        <5> QED BY <5>2, <5>3, <5>4
      <4>5. handling'[c].step = "found" /\ handling'[c].file = f =>
              StopIn(toServer'[c], f) \/ Gone(f)' \/ 0..(handling'[c].off - 1) \subseteq Kept(c, f)'
        BY <3>7, <3>8, <4>4
      <4>6. \A i, j \in mine : i = j BY <2>2, <3>9 DEF Pair
      <4> QED BY <2>2, <3>10, <3>11, <3>12, <4>1, <4>2, <4>3, <4>4, <4>5, <4>6 DEF Pair
    <3>14. ASSUME NEW i \in mine
           PROVE  \E B \in SUBSET (0..(Size - 1)) : Session(c, f, i, B)'
      <4>1. PICK B \in SUBSET (0..(Size - 1)) : Session(c, f, i, B) BY <2>1, <2>2 DEF Line
      <4>2. sessions'[i] = sessions[i] /\ sessions[i].file = f BY <1>2, <2>2 DEF Ours
      <4>3. Doomed(c, i, B) BY <3>2, <4>1 DEF Session, Course, q
      <4>4. ~alive[Owner[f]] BY <4>2, <4>3 DEF Doomed, Uploader
      <4>5. handling'[c] = handling[c] BY <3>8, <4>4
      <4>6. Asks(c, i)' = Asks(c, i) BY <1>1, <4>5 DEF Asks
      <4>7. /\ Counts(c, i, B)'
            /\ Lost(c, i, B) => Lost(c, i, B)'
            /\ Doomed(c, i, B)'
        <5>1. Counts(c, i, B) BY <4>1 DEF Session
        <5>2. /\ Acks(toServer'[c], i) \subseteq Acks(toServer[c], i)
              /\ Sent(toClient'[c], i) \subseteq Sent(toClient[c], i)
              /\ Once(toClient[c], i) => Once(toClient'[c], i)
              /\ Asks(c, i)' \subseteq Asks(c, i)
              /\ alive'[Owner[f]] => alive[Owner[f]]
          BY <1>1, <3>4, <3>6, <4>6 DEF q
        <5> QED BY <4>2, <4>3, <5>1, <5>2, CountsShrink
      <4>8. Stage(c, f, i, B)'
        <5>1. Stage(c, f, i, B) BY <4>1 DEF Session
        <5> QED BY <1>1, <3>4, <3>6, <4>5, <5>1 DEF Stage, q
      <4>9. Course(c, f, i, B)' BY <4>7 DEF Course
      <4>10. Safe(c, f, i, B)'
        <5>1. Safe(c, f, i, B) BY <4>1 DEF Session
        <5>2. Settled(c, f) => Settled(c, f)' BY <3>11 DEF Settled, q
        <5> QED BY <2>3, <3>2, <3>4, <4>7, <5>1, <5>2 DEF Safe, Whole, q
      <4> QED BY <4>7, <4>8, <4>9, <4>10 DEF Session
    <3> QED BY <2>2, <3>13, <3>14 DEF Line
  <2> QED BY <2>7, <2>8
<1> QED BY <1>12, <1>13, <1>14, <1>15 DEF Lines, JInv

\* A browser that sends nothing about a download, and drops requests if it changes any.
LEMMA BrowserPasses ==
    ASSUME IInv, IInv', JInv, NEW a \in Client,
           UNCHANGED <<serverVars, toClient, uploaded, downloads>>,
           requested' \subseteq requested,
           \A c \in Client : DOMAIN uploadSessions'[c] \subseteq DOMAIN uploadSessions[c],
           \/ UNCHANGED toServer
           \/ \E m \in Command : /\ m.kind \in {"UPLOAD", "UPCANCEL"} /\ Send(a, m)
                                 /\ m.kind = "UPCANCEL" => m.file \in DOMAIN uploaded
    PROVE  JInv'
<1>1. /\ UNCHANGED <<registrations, sessions, nextSession, alive, handling, departed>>
      /\ ServerTypes /\ Manager /\ Lanes /\ Messages /\ Offers /\ Lines
  BY DEF serverVars, managerVars, fileVars, sessionVars, IInv, JInv
<1>2. Issued' = Issued BY <1>1, IssuedGrows
<1>3. Messages'
  <2>1. ASSUME NEW m \in Command, m.kind \in {"UPLOAD", "UPCANCEL"}, Send(a, m),
               m.kind = "UPCANCEL" => m.file \in DOMAIN uploaded
        PROVE  \A c \in Client : \A x \in ToSet(toServer'[c]) : x \in ToSet(toServer[c]) \/ Known(x)'
    <3>1. Known(m)' BY <2>1 DEF Known
    <3> QED BY <1>1, <2>1, <3>1, SendMembers
  <2> QED BY <1>1, <1>2, <2>1, MessagesKept
<1>4. Lanes' BY <1>1, <1>2, LanesKept
<1>5. Offers' BY <1>1 DEF Offers
<1>6. ASSUME NEW c \in Client, alive'[c], NEW f \in File PROVE Line(c, f)'
  <2>1. QuietLane(c, f)
    <3>1. ASSUME NEW m \in Command, m.kind \in {"UPLOAD", "UPCANCEL"}, Send(a, m)
          PROVE  QuietLane(c, f)
      <4>1. ~Orders(m, f) /\ m.kind # "DWACK" BY <3>1 DEF Orders, IsStart, IsStop
      <4> QED BY <1>1, <3>1, <4>1, SendMembers DEF QuietLane
    <3> QED BY <3>1 DEF QuietLane
  <2>2. QuietWire(c, f, Ours(c, f)) BY DEF QuietWire
  <2> QED BY <1>1, <1>6, <2>1, <2>2, PassingBy
<1> QED BY <1>3, <1>4, <1>5, <1>6 DEF Lines, JInv

\* What users and browsers do that is not about a download.
LEMMA SelectKeeps ==
    ASSUME IInv, IInv', JInv, NEW a \in Client, Select(a) PROVE JInv'
BY BrowserPasses DEF Select, downloadVars

LEMMA IgnoreRequestKeeps ==
    ASSUME IInv, IInv', JInv, NEW a \in Client, IgnoreRequest(a) PROVE JInv'
<1>1. requested' \subseteq requested /\ UNCHANGED <<serverVars, toServer, toClient, browserVars>>
  BY DEF IgnoreRequest
<1> QED BY <1>1, BrowserPasses DEF browserVars, uploadVars, downloadVars

LEMMA SendUploadKeeps ==
    ASSUME IInv, IInv', JInv, NEW a \in Client, SendUpload(a) PROVE JInv'
<1> DEFINE m == [kind |-> "UPLOAD", what |-> pendingFile[a]]
<1>1. /\ Send(a, m) /\ pendingFile[a] # NoFile
      /\ UNCHANGED <<serverVars, toClient, requested, browserVars>>
  BY DEF SendUpload
<1>2. m \in Command /\ m.kind = "UPLOAD" BY <1>1 DEF Command, IInv, UploadTypes
<1> HIDE DEF m
<1> QED BY <1>1, <1>2, BrowserPasses DEF browserVars, uploadVars, downloadVars

LEMMA ClickCancelUploadKeeps ==
    ASSUME IInv, IInv', JInv, NEW a \in Client, NEW g \in File, ClickCancelUpload(a, g) PROVE JInv'
<1> DEFINE m == [kind |-> "UPCANCEL", file |-> g]
<1>1. /\ Send(a, m) /\ g \in DOMAIN uploadSessions[a]
      /\ uploadSessions' = [uploadSessions EXCEPT ![a] =
             [x \in DOMAIN uploadSessions[a] \ {g} |-> uploadSessions[a][x]]]
      /\ UNCHANGED <<serverVars, toClient, requested, uploaded, downloads>>
  BY DEF ClickCancelUpload, downloadVars
<1>2. m \in Command /\ m.kind = "UPCANCEL" /\ m.file = g BY DEF Command
<1>3. g \in DOMAIN uploaded BY <1>1 DEF JInv, Offers
<1>4. \A c \in Client : DOMAIN uploadSessions'[c] \subseteq DOMAIN uploadSessions[c]
  <2>1. DOMAIN uploadSessions = Client BY DEF IInv, UploadTypes
  <2> QED BY <1>1, <2>1
<1> HIDE DEF m
<1> QED BY <1>1, <1>2, <1>3, <1>4, BrowserPasses

\* A file registered: one more can be had.
LEMMA HandleUploadKeeps ==
    ASSUME IInv, IInv', JInv, NEW a \in Client, HandleUpload(a) PROVE JInv'
<1>1. /\ Takes(a, {"UPLOAD"}) /\ ServerTypes /\ ServerTypes' /\ Manager
      /\ UNCHANGED <<alive, handling, departed, requested, uploadVars, downloadVars>>
      /\ Lanes /\ Messages /\ Offers /\ Lines
  BY DEF HandleUpload, IInv, JInv
<1>2. PICK g \in File \ DOMAIN uploaded :
          /\ Owner[g] = a
          /\ RegisterFile(g)
          /\ uploaded' = [h \in DOMAIN uploaded \cup {g} |->
                 IF h = g THEN Head(toServer[a]).what ELSE uploaded[h]]
          /\ Post([ToOthers(a, [kind |-> "FILE", file |-> g])
                      EXCEPT ![a] = <<[kind |-> "UPOK", file |-> g]>>])
  BY DEF HandleUpload
<1>3. /\ registrations' = registrations \cup {g} /\ DOMAIN uploaded' = DOMAIN uploaded \cup {g}
      /\ UNCHANGED <<sessions, nextSession, uploadSessions, downloads>>
  BY <1>1, <1>2 DEF RegisterFile, sessionVars, uploadVars, downloadVars
<1>4. /\ \A c \in Client : \A x \in ToSet(toServer'[c]) : x \in ToSet(toServer[c])
      /\ toServer'[a] = Tail(toServer[a]) /\ \A c \in Client \ {a} : toServer'[c] = toServer[c]
      /\ toServer[a] # <<>> /\ Head(toServer[a]).kind = "UPLOAD"
      /\ handling[a].step = "idle" /\ alive[a]
  BY <1>1, TakesMembers
<1>5. PICK ok \in GoodFrame, new \in GoodFrame :
          ok = [kind |-> "UPOK", file |-> g] /\ new = [kind |-> "FILE", file |-> g]
  BY FrameTypes
<1>6. PICK frames : frames = [ToOthers(a, new) EXCEPT ![a] = <<ok>>] OBVIOUS
<1>7. Post(frames) BY <1>2, <1>5, <1>6
<1>8. ASSUME NEW c \in Client PROVE frames[c] = <<>> \/ frames[c] = <<ok>> \/ frames[c] = <<new>>
  BY <1>6 DEF ToOthers
<1>9. frames \in [Client -> Seq(GoodFrame)]
  <2>1. <<ok>> \in Seq(GoodFrame) OBVIOUS
  <2>2. PICK others : others = ToOthers(a, new) /\ others \in [Client -> Seq(GoodFrame)]
    BY ToOthersTypes
  <2> QED BY <1>6, <2>1, <2>2
<1>10. Issued' = Issued BY <1>1, <1>3, IssuedGrows
<1>11. Messages'
  <2>1. ASSUME NEW c \in Client, NEW x \in ToSet(toClient'[c])
        PROVE  x \in ToSet(toClient[c]) \/ KnownFrame(x)'
    <3>1. x \in ToSet(toClient[c]) \/ x \in ToSet(frames[c]) BY <1>1, <1>7, <1>9, PostMembers
    <3>2. ToSet(<<>>) = {} /\ \A y : ToSet(<<y>>) = {y}
      <4>1. ToSet(<<>>) = {} BY DEF ToSet
      <4>2. ASSUME NEW y PROVE ToSet(<<y>>) = {y} BY DEF ToSet
      <4> QED BY <4>1, <4>2
    <3>3. x \in ToSet(toClient[c]) \/ x = ok \/ x = new
      <4>1. frames[c] \in {<<>>, <<ok>>, <<new>>} BY <1>8
      <4> QED BY <3>1, <3>2, <4>1
    <3>4. KnownFrame(ok)' /\ KnownFrame(new)' BY <1>3, <1>5 DEF KnownFrame
    <3> QED BY <3>3, <3>4
  <2> QED BY <1>1, <1>3, <1>4, <1>10, <2>1, MessagesKept
<1>12. Lanes' BY <1>1, <1>3, <1>10, LanesKept
<1>13. Offers' BY <1>1, <1>3 DEF Offers
<1>14. ASSUME NEW c \in Client, alive'[c], NEW f \in File PROVE Line(c, f)'
  <2>1. alive[c] /\ Line(c, f) BY <1>1, <1>14 DEF Lines
  <2>2. PICK mine : mine = Ours(c, f)' /\ mine = Ours(c, f) BY <1>3, Unmoved
  <2>3. /\ Holds(c, f)' <=> Holds(c, f)
        /\ Kept(c, f)' = Kept(c, f)
        /\ downloads'[c][f].paused = downloads[c][f].paused
    BY <1>3, Unmoved
  <2>4. Gone(f) => Gone(f)' BY <1>1, <1>2, <1>3, <1>4 DEF Gone
  <2>5. QuietLane(c, f)
    <3>1. ~Orders(Head(toServer[a]), f) BY <1>4 DEF Orders, IsStart, IsStop
    <3> QED BY <1>4, <3>1 DEF QuietLane
  <2>6. QuietWire(c, f, mine)
    <3>1. toClient[c] \in Seq(GoodFrame) BY <1>1 DEF ServerTypes
    <3>2. toClient[c] \o <<>> = toClient[c] BY <3>1, ConcatEmptySeq
    <3>3. toClient'[c] = toClient[c] \o frames[c] BY <1>7, <2>1 DEF Post
    <3>4. /\ ~AboutFrame(ok, f, mine) /\ ~IsOf(ok, "DWERR", f)
          /\ ~AboutFrame(new, f, mine) /\ ~IsOf(new, "DWERR", f)
      BY <1>5 DEF AboutFrame, IsOf, IsData
    <3> QED BY <1>8, <3>2, <3>3, <3>4 DEF QuietWire
  <2>7. /\ \A x \in requested' : x.id \in mine => x \in requested
        /\ \A i \in mine : sessions'[i] = sessions[i]
        /\ alive'[Owner[f]] => alive[Owner[f]]
        /\ handling'[c] = handling[c]
        /\ mine \subseteq Ours(c, f)
    BY <1>1, <1>3, <2>2
  <2> QED BY <2>1, <2>2, <2>3, <2>4, <2>5, <2>6, <2>7, QuietLine
<1> QED BY <1>11, <1>12, <1>13, <1>14 DEF Lines, JInv

-------------------------------------------------------------------------------
(* Sessions that end *)

\* Sessions that end, and no others change.
LEMMA OursRemoved ==
    ASSUME Manager, NEW ids, sessions' = [i \in DOMAIN sessions \ ids |-> sessions[i]],
           NEW c, NEW f
    PROVE  /\ Ours(c, f)' = Ours(c, f) \ ids
           /\ \A i \in Ours(c, f)' : sessions'[i] = sessions[i]
           /\ DOMAIN sessions' = DOMAIN sessions \ ids
           /\ \A i \in DOMAIN sessions' : sessions'[i] = sessions[i]
<1>1. DOMAIN sessions' = DOMAIN sessions \ ids /\ \A i \in DOMAIN sessions' : sessions'[i] = sessions[i]
  OBVIOUS
<1> QED BY <1>1 DEF Ours

LEMMA LanesFewer ==
    ASSUME Manager, Lanes, NEW ids, sessions' = [i \in DOMAIN sessions \ ids |-> sessions[i]],
           UNCHANGED <<nextSession, handling>>, requested' \subseteq requested
    PROVE  Lanes'
<1>1. /\ DOMAIN sessions' = DOMAIN sessions \ ids
      /\ \A i \in DOMAIN sessions' : sessions'[i] = sessions[i]
  BY OursRemoved
<1>2. Issued' = Issued BY IssuedGrows
<1> QED BY <1>1, <1>2, LanesKept

LEMMA OffersFewer ==
    ASSUME Manager, Offers, NEW ids, sessions' = [i \in DOMAIN sessions \ ids |-> sessions[i]],
           UNCHANGED <<registrations, uploaded, uploadSessions>>
    PROVE  Offers'
<1>1. /\ DOMAIN sessions' = DOMAIN sessions \ ids
      /\ \A i \in DOMAIN sessions' : sessions'[i] = sessions[i]
  BY OursRemoved
<1> QED BY <1>1 DEF Offers

\* Where there is one session at most, the newest is all there are.
LEMMA NewestIsAll ==
    ASSUME Manager, NEW c, NEW f, \A i, j \in Ours(c, f) : i = j
    PROVE  NewestSession(f, c) = Ours(c, f)
<1>1. Ours(c, f) \subseteq Nat BY DEF Ours, Manager, ManagerTypeOK
<1> QED BY <1>1 DEF NewestSession, Ours

\* A stop handled: the session of the pair ends with it.
LEMMA HandleStopKeeps ==
    ASSUME IInv, IInv', JInv, NEW a \in Client, HandleStop(a) PROVE JInv'
<1> DEFINE m == Head(toServer[a])
<1>1. /\ Takes(a, {"DWNPAUSE", "DWNCANCEL"}) /\ ServerTypes /\ ServerTypes' /\ Manager
      /\ CancelSession(m.file, a)
      /\ UNCHANGED <<alive, handling, departed, toClient, requested, browserVars>>
      /\ Lanes /\ Messages /\ Offers /\ Lines
  BY DEF HandleStop, IInv, JInv
<1>2. /\ \A c \in Client : \A x \in ToSet(toServer'[c]) : x \in ToSet(toServer[c])
      /\ toServer'[a] = Tail(toServer[a]) /\ \A c \in Client \ {a} : toServer'[c] = toServer[c]
      /\ toServer[a] \in Seq(Command) /\ toServer[a] # <<>>
      /\ m \in Command /\ m.kind \in {"DWNPAUSE", "DWNCANCEL"} /\ handling[a].step = "idle" /\ alive[a]
  BY <1>1, TakesMembers
<1>3. PICK g \in File : g = m.file BY <1>2, CommandTypes
<1>4. PICK ids : /\ ids = Ours(a, g)
                 /\ sessions' = [i \in DOMAIN sessions \ ids |-> sessions[i]]
                 /\ UNCHANGED <<nextSession, registrations>>
  <2>1. Line(a, g) BY <1>1, <1>2 DEF Lines
  <2>2. NewestSession(g, a) = Ours(a, g) BY <1>1, <2>1, NewestIsAll DEF Line, Pair
  <2> QED BY <1>1, <1>3, <2>2 DEF CancelSession, CleanupSessions, fileVars
<1>5. UNCHANGED <<uploaded, uploadSessions, downloads>>
  BY <1>1 DEF browserVars, uploadVars, downloadVars
<1>6. IsStop(m, g) /\ ~IsStart(m, g) BY <1>2, <1>3 DEF IsStart, IsStop
<1>7. handling[a].file # g BY <1>1, <1>2, FileFacts DEF Lanes, Lane
<1>8. Issued' = Issued BY <1>1, <1>4, IssuedGrows
<1>9. Messages' BY <1>1, <1>2, <1>5, <1>8, MessagesKept
<1>10. Lanes' /\ Offers' BY <1>1, <1>4, <1>5, LanesFewer, OffersFewer
<1>11. ASSUME NEW c \in Client, alive'[c], NEW f \in File PROVE Line(c, f)'
  <2>1. alive[c] /\ Line(c, f) BY <1>1, <1>11 DEF Lines
  <2>2. PICK mine : /\ mine = Ours(c, f)' /\ mine = Ours(c, f) \ ids
                    /\ \A i \in mine : sessions'[i] = sessions[i]
    <3>1. /\ Ours(c, f)' = Ours(c, f) \ ids
          /\ \A i \in Ours(c, f)' : sessions'[i] = sessions[i]
      <4>1. Manager /\ sessions' = [i \in DOMAIN sessions \ ids |-> sessions[i]] BY <1>1, <1>4
      <4> QED BY <4>1, OursRemoved
    <3> QED BY <3>1, Zenon
  <2>3. /\ Holds(c, f)' <=> Holds(c, f)
        /\ Kept(c, f)' = Kept(c, f)
        /\ downloads'[c][f].paused = downloads[c][f].paused
        /\ Gone(f)' <=> Gone(f)
    BY <1>1, <1>4, <1>5, Unmoved
  <2>4. CASE ~(c = a /\ f = g)
    <3>1. QuietLane(c, f)
      <4>1. CASE c # a BY <1>2, <4>1 DEF QuietLane
      <4>2. CASE c = a
        <5>1. ~Orders(m, f) BY <1>2, <1>3, <2>4, <4>2 DEF Orders, IsStart, IsStop
        <5> QED BY <1>2, <4>2, <5>1 DEF QuietLane
      <4> QED BY <4>1, <4>2
    <3>2. QuietWire(c, f, mine) BY <1>1 DEF QuietWire
    <3>3. /\ \A x \in requested' : x.id \in mine => x \in requested
          /\ alive'[Owner[f]] => alive[Owner[f]]
          /\ handling'[c] = handling[c]
          /\ mine \subseteq Ours(c, f)
      BY <1>1, <2>2
    <3> QED BY <2>1, <2>2, <2>3, <3>1, <3>2, <3>3, QuietLine
  <2>5. CASE c = a /\ f = g
    <3> DEFINE q == toServer[c]
    <3>1. mine = {} BY <1>4, <2>2, <2>5
    <3>2. q \in Seq(Command) /\ q # <<>> /\ toServer'[c] = Tail(q) /\ IsStop(Head(q), f) /\ ~IsStart(Head(q), f)
      BY <1>2, <1>6, <2>5
    <3> HIDE DEF q
    <3>3. /\ Alternate(q, f) => Alternate(toServer'[c], f)
          /\ Ended(q, f) => Ended(toServer'[c], f)
      BY <3>2, Handled
    <3>4. ASSUME NEW kept, Resumes(q, f, kept) PROVE Resumes(toServer'[c], f, kept)
      BY <3>2, <3>4, HandledResumes
    <3>5. Pair(c, f) BY <2>1 DEF Line
    <3>6. handling'[c] = handling[c] /\ handling[c].file # f /\ toClient'[c] = toClient[c]
      BY <1>1, <1>7, <2>5
    <3>7. Over(c, f)' => Settled(c, f)'
      <4>1. Over(c, f)' => Over(c, f) BY <2>3, <3>6 DEF Over
      <4>2. Over(c, f) => Ended(q, f) BY <3>5 DEF Pair, Settled, q
      <4> QED BY <3>3, <3>6, <4>1, <4>2 DEF Settled
    <3>8. Resumes(toServer'[c], f, Kept(c, f)') \/ Gone(f)'
      <4>1. PICK kept : kept = Kept(c, f) /\ kept = Kept(c, f)' BY <2>3
      <4>2. Resumes(q, f, kept) \/ Gone(f) BY <3>5, <4>1 DEF Pair, q
      <4> QED BY <2>3, <3>4, <4>1, <4>2
    <3>9. /\ Alternate(toServer'[c], f)
          /\ DoneFirst(toClient'[c], f)
          /\ Holds(c, f)' /\ In(toClient'[c], "DWNDONE", f) => Whole(c, f)'
          /\ In(toClient'[c], "DWERR", f) => Gone(f)'
      BY <2>3, <3>3, <3>5, <3>6 DEF Pair, Whole, q
    <3> QED BY <2>2, <3>1, <3>6, <3>7, <3>8, <3>9 DEF Line, Pair
  <2> QED BY <2>4, <2>5
<1> QED BY <1>9, <1>10, <1>11 DEF Lines, JInv

\* A file withdrawn: its sessions end, and everyone else is told.
LEMMA HandleUpCancelKeeps ==
    ASSUME IInv, IInv', JInv, NEW a \in Client, HandleUpCancel(a) PROVE JInv'
<1> DEFINE m == Head(toServer[a])
<1>1. /\ Takes(a, {"UPCANCEL"}) /\ ServerTypes /\ ServerTypes' /\ Manager
      /\ CancelFile(m.file)
      /\ UNCHANGED <<alive, handling, departed, requested, browserVars>>
      /\ Lanes /\ Messages /\ Offers /\ Lines
  BY DEF HandleUpCancel, IInv, JInv
<1>2. /\ \A c \in Client : \A x \in ToSet(toServer'[c]) : x \in ToSet(toServer[c])
      /\ toServer'[a] = Tail(toServer[a]) /\ \A c \in Client \ {a} : toServer'[c] = toServer[c]
      /\ toServer[a] # <<>>
      /\ m \in Command /\ m \in ToSet(toServer[a]) /\ m.kind = "UPCANCEL"
  BY <1>1, TakesMembers
<1>3. PICK g \in File : g = m.file /\ g \in DOMAIN uploaded
  <2>1. m.file \in File BY <1>2, CommandTypes
  <2>2. m.file \in DOMAIN uploaded BY <1>1, <1>2 DEF Messages, Known
  <2> QED BY <2>1, <2>2
<1>4. PICK e \in GoodFrame : e = [kind |-> "DWERR", file |-> g] BY FrameTypes
<1>5. PICK frames : frames = ToOthers(a, e) /\ Post(frames) BY <1>3, <1>4 DEF HandleUpCancel
<1>6. frames \in [Client -> Seq(GoodFrame)] /\ \A c \in Client : frames[c] = <<>> \/ frames[c] = <<e>>
  BY <1>5, ToOthersTypes DEF ToOthers
<1>7. PICK ids : /\ ids = {i \in DOMAIN sessions : sessions[i].file = g}
                 /\ sessions' = [i \in DOMAIN sessions \ ids |-> sessions[i]]
                 /\ UNCHANGED nextSession /\ registrations' = registrations \ {g}
  <2>1. PICK ids : ids = {i \in OrphanedBy(Owner[g]) : sessions[i].file = g} OBVIOUS
  <2>2. CleanupSessions(ids) /\ UnregisterFiles({g}) BY <1>1, <1>3, <2>1 DEF CancelFile
  <2>3. OrphanedBy(Owner[g]) = {i \in DOMAIN sessions : Owner[sessions[i].file] = Owner[g]}
    <3>1. Owner[g] \in Client BY TransferAssumption
    <3> QED BY <1>1, <3>1 DEF OrphanedBy, Manager, IndexesAgree, Uploader
  <2>4. ids = {i \in DOMAIN sessions : sessions[i].file = g} BY <2>1, <2>3
  <2> QED BY <2>2, <2>4 DEF CleanupSessions, UnregisterFiles
<1>8. UNCHANGED <<uploaded, uploadSessions, downloads>>
  BY <1>1 DEF browserVars, uploadVars, downloadVars
<1>9. Issued' = Issued BY <1>1, <1>7, IssuedGrows
<1>10. Messages'
  <2>1. ASSUME NEW c \in Client, NEW x \in ToSet(toClient'[c])
        PROVE  x \in ToSet(toClient[c]) \/ KnownFrame(x)'
    <3>1. x \in ToSet(toClient[c]) \/ x \in ToSet(frames[c]) BY <1>1, <1>5, <1>6, PostMembers
    <3>2. ToSet(<<>>) = {} /\ ToSet(<<e>>) = {e}
      <4>1. ToSet(<<>>) = {} BY DEF ToSet
      <4>2. ToSet(<<e>>) = {e} BY DEF ToSet
      <4> QED BY <4>1, <4>2
    <3>3. x \in ToSet(toClient[c]) \/ x = e BY <1>6, <3>1, <3>2
    <3>4. KnownFrame(e)' BY <1>4 DEF KnownFrame
    <3> QED BY <3>3, <3>4
  <2> QED BY <1>1, <1>2, <1>8, <1>9, <2>1, MessagesKept
<1>11. Lanes' BY <1>1, <1>7, LanesFewer
<1>12. Offers'
  <2>1. /\ DOMAIN sessions' = DOMAIN sessions \ ids
        /\ \A i \in DOMAIN sessions' : sessions'[i] = sessions[i]
    BY <1>1, <1>7, OursRemoved
  <2> QED BY <1>1, <1>7, <1>8, <2>1 DEF Offers
<1>13. ASSUME NEW c \in Client, alive'[c], NEW f \in File PROVE Line(c, f)'
  <2>1. alive[c] /\ Line(c, f) /\ toClient[c] \in Seq(GoodFrame)
    BY <1>1, <1>13 DEF Lines, ServerTypes
  <2>2. PICK mine : /\ mine = Ours(c, f)' /\ mine = Ours(c, f) \ ids
                    /\ \A i \in mine : sessions'[i] = sessions[i]
    <3>1. /\ Ours(c, f)' = Ours(c, f) \ ids
          /\ \A i \in Ours(c, f)' : sessions'[i] = sessions[i]
      <4>1. Manager /\ sessions' = [i \in DOMAIN sessions \ ids |-> sessions[i]] BY <1>1, <1>7
      <4> QED BY <4>1, OursRemoved
    <3> QED BY <3>1, Zenon
  <2>3. /\ Holds(c, f)' <=> Holds(c, f)
        /\ Kept(c, f)' = Kept(c, f)
        /\ downloads'[c][f].paused = downloads[c][f].paused
    BY <1>8, Unmoved
  <2>4. Gone(f) => Gone(f)' BY <1>1, <1>7, <1>8 DEF Gone
  <2>5. Alike(toServer[c], toServer'[c], f, mine)
    <3>1. ~Orders(m, f) BY <1>2 DEF Orders, IsStart, IsStop
    <3> QED BY <1>1, <1>2, <3>1, QuietAlike DEF QuietLane
  <2>6. /\ AlikeFrames(toClient[c], toClient'[c], f, mine)
        /\ In(toClient[c], "DWSTART", f) => In(toClient'[c], "DWSTART", f)
        /\ In(toClient'[c], "DWERR", f) => In(toClient[c], "DWERR", f) \/ f = g
    <3>1. toClient'[c] = toClient[c] \o frames[c] /\ toClient[c] \o <<>> = toClient[c]
      BY <1>5, <2>1, ConcatEmptySeq DEF Post
    <3>2. ~AboutFrame(e, f, mine) /\ (IsOf(e, "DWERR", f) => f = g)
      BY <1>4 DEF AboutFrame, IsOf, IsData
    <3>3. CASE toClient'[c] = toClient[c] BY <3>3, AlikeItself
    <3>4. CASE toClient'[c] = toClient[c] \o <<e>> BY <2>1, <3>2, <3>4, AlikePostedOne
    <3> QED BY <1>6, <3>1, <3>3, <3>4
  <2>7. f = g => mine = {} /\ Gone(f)' BY <1>3, <1>7, <1>8, <2>2 DEF Ours, Gone
  <2>8. /\ \A x \in requested' : x.id \in mine => x \in requested
        /\ alive'[Owner[f]] => alive[Owner[f]]
        /\ handling'[c] = handling[c]
        /\ mine \subseteq Ours(c, f)
    BY <1>1, <2>2
  <2> QED BY <1>1, <2>1, <2>2, <2>3, <2>4, <2>5, <2>6, <2>7, <2>8, LineKept
<1> QED BY <1>10, <1>11, <1>12, <1>13 DEF Lines, JInv

\* A connection closed: nobody is alive there for a line to be about, and its files are gone.
LEMMA CloseKeeps ==
    ASSUME IInv, IInv', JInv, NEW a \in Client, Close(a) PROVE JInv'
<1>1. /\ alive' = [alive EXCEPT ![a] = FALSE]
      /\ toClient' = [toClient EXCEPT ![a] = <<>>]
      /\ requested' \subseteq requested
      /\ uploadSessions' = [uploadSessions EXCEPT ![a] = <<>>]
      /\ downloads' = [downloads EXCEPT ![a] = <<>>]
      /\ UNCHANGED <<managerVars, handling, departed, toServer, uploaded>>
      /\ ServerTypes /\ Manager /\ Lanes /\ Messages /\ Offers /\ Lines
  BY DEF Close, IInv, JInv
<1>2. UNCHANGED <<registrations, sessions, nextSession>>
  BY <1>1 DEF managerVars, fileVars, sessionVars
<1>3. /\ alive \in [Client -> BOOLEAN] /\ DOMAIN toClient = Client
      /\ DOMAIN uploadSessions = Client /\ DOMAIN downloads = Client
  BY DEF IInv, Manager, ManagerTypeOK, ServerTypes, UploadTypes, DownloadTypes, DownloadsGood
<1>4. Issued' = Issued BY <1>1, <1>2, IssuedGrows
<1>5. Messages'
  <2>1. ASSUME NEW c \in Client, NEW x \in ToSet(toClient'[c]) PROVE x \in ToSet(toClient[c])
    <3>1. ToSet(<<>>) = {} BY DEF ToSet
    <3>2. toClient'[c] = <<>> \/ toClient'[c] = toClient[c] BY <1>1, <1>3
    <3> QED BY <3>1, <3>2
  <2> QED BY <1>1, <1>4, <2>1, MessagesKept
<1>6. Lanes' BY <1>1, <1>2, <1>4, LanesKept
<1>7. Offers'
  <2>1. DOMAIN <<>> = {} OBVIOUS
  <2>2. \A c \in Client : DOMAIN uploadSessions'[c] \subseteq DOMAIN uploadSessions[c]
    BY <1>1, <1>3, <2>1
  <2> QED BY <1>1, <1>2, <2>2 DEF Offers
<1>8. ASSUME NEW c \in Client, alive'[c], NEW f \in File PROVE Line(c, f)'
  <2>1. c # a /\ alive[c] /\ alive' \in [Client -> BOOLEAN] BY <1>1, <1>3, <1>8
  <2>2. Line(c, f) BY <1>1, <2>1 DEF Lines
  <2>3. PICK mine : mine = Ours(c, f)' /\ mine = Ours(c, f) BY <1>2, Unmoved
  <2>4. toClient'[c] = toClient[c] /\ downloads'[c] = downloads[c] BY <1>1, <1>3, <2>1
  <2>5. /\ Holds(c, f)' <=> Holds(c, f)
        /\ Kept(c, f)' = Kept(c, f)
        /\ downloads'[c][f].paused = downloads[c][f].paused
    BY <2>4 DEF Holds, Kept
  <2>6. alive'[Owner[f]] => alive[Owner[f]]
    <3>1. Owner[f] \in Client BY TransferAssumption
    <3> QED BY <1>1, <1>3, <3>1
  <2>7. Gone(f) => Gone(f)' BY <1>1, <1>2, <2>6 DEF Gone
  <2>8. QuietLane(c, f) /\ QuietWire(c, f, mine) BY <1>1, <2>4 DEF QuietLane, QuietWire
  <2>9. /\ \A x \in requested' : x.id \in mine => x \in requested
        /\ \A i \in mine : sessions'[i] = sessions[i]
        /\ handling'[c] = handling[c]
    BY <1>1, <1>2
  <2> QED BY <2>2, <2>3, <2>5, <2>6, <2>7, <2>8, <2>9, QuietLine
<1> QED BY <1>5, <1>6, <1>7, <1>8 DEF Lines, JInv

\* A cleanup: sessions of the client end, and the files it offered are gone.
LEMMA CleanupLines ==
    ASSUME IInv, IInv', JInv, NEW a \in Client, Cleanup(a) PROVE JInv'
<1> DEFINE errors(d) == SetToSeq({[kind |-> "DWERR", file |-> f] : f \in
               {sessions[i].file : i \in {j \in OrphanedBy(a) : DownloaderOf(j) = d}}})
           leave == [kind |-> "LEAVE", who |-> a]
           frames == [d \in Client |-> IF d \in departed' THEN <<>> ELSE errors(d) \o <<leave>>]
<1>1. /\ ~alive[a] /\ CancelBySession(a)
      /\ departed' = departed \cup {a} /\ Post(frames)
      /\ toServer' = [toServer EXCEPT ![a] = <<>>]
      /\ UNCHANGED <<alive, handling, requested, browserVars>>
  BY DEF Cleanup
<1>2. ServerTypes /\ ServerTypes' /\ Manager /\ Lanes /\ Messages /\ Offers /\ Lines
  BY DEF IInv, JInv
<1>3. PICK ids : /\ sessions' = [i \in DOMAIN sessions \ ids |-> sessions[i]]
                 /\ UNCHANGED nextSession /\ UnregisterFiles(uploaderFiles[a])
  BY <1>1 DEF CancelBySession
<1>4. /\ \A i \in DOMAIN sessions' : Owner[sessions'[i].file] # a
      /\ registrations' = {f \in registrations : Owner[f] # a}
  <2>1. uploaderFiles[a] = {f \in registrations : Owner[f] = a} BY <1>2 DEF Manager, IndexesAgree
  <2> QED BY <1>1, <1>2, <1>3, <2>1, CancelKeeps DEF UnregisterFiles
<1>5. UNCHANGED <<uploaded, uploadSessions, downloads>>
  BY <1>1 DEF browserVars, uploadVars, downloadVars
<1>6. Issued' = Issued BY <1>2, <1>3, IssuedGrows
<1>7. ASSUME NEW c \in Client
      PROVE  \/ frames[c] = <<>>
             \/ /\ frames[c] \in Seq(GoodFrame)
                /\ \A n \in 1..Len(frames[c]) : frames[c][n] \in Farewells(a) \cup {leave}
  <2>1. errors(c) \in Seq(Farewells(a)) BY <1>2, ErrorFrames
  <2>2. leave \in GoodFrame BY FrameTypes
  <2>3. frames[c] = IF c \in departed' THEN <<>> ELSE errors(c) \o <<leave>> OBVIOUS
  <2> HIDE DEF frames, errors, leave
  <2>4. PICK es \in Seq(Farewells(a)) : es = errors(c) BY <2>1
  <2>5. PICK all : all = Farewells(a) \cup {leave} OBVIOUS
  <2>6. es \in Seq(all) /\ <<leave>> \in Seq(all) BY <2>5
  <2>7. es \o <<leave>> \in Seq(all) BY <2>6, ConcatProperties
  <2>8. all \subseteq GoodFrame BY <2>2, <2>5 DEF Farewells
  <2> QED BY <2>3, <2>4, <2>5, <2>7, <2>8
<1>8. frames \in [Client -> Seq(GoodFrame)]
  <2>1. <<>> \in Seq(GoodFrame) OBVIOUS
  <2>2. \A c \in Client : frames[c] \in Seq(GoodFrame) BY <1>7, <2>1
  <2>3. frames = [c \in Client |-> frames[c]] OBVIOUS
  <2> HIDE DEF frames
  <2> QED BY <2>2, <2>3
<1>9. leave.kind = "LEAVE" /\ leave.who = a /\ \A x \in Farewells(a) : x.kind = "DWERR" /\ Owner[x.file] = a
  BY DEF Farewells
<1> HIDE DEF frames, errors, leave
<1>10. Messages'
  <2>1. ASSUME NEW c \in Client, NEW x \in ToSet(toClient'[c])
        PROVE  x \in ToSet(toClient[c]) \/ KnownFrame(x)'
    <3>1. x \in ToSet(toClient[c]) \/ x \in ToSet(frames[c]) BY <1>1, <1>2, <1>8, PostMembers
    <3>2. ToSet(<<>>) = {} BY DEF ToSet
    <3>3. x \in ToSet(frames[c]) => x \in Farewells(a) \cup {leave}
      <4>1. \A s : x \in ToSet(s) => \E n \in 1..Len(s) : x = s[n] BY DEF ToSet
      <4> QED BY <1>7, <3>2, <4>1
    <3>4. x \in Farewells(a) \cup {leave} => KnownFrame(x)' BY <1>1, <1>9 DEF KnownFrame
    <3> QED BY <3>1, <3>3, <3>4
  <2>2. ASSUME NEW c \in Client, NEW m \in ToSet(toServer'[c]) PROVE m \in ToSet(toServer[c])
    <3>1. ToSet(<<>>) = {} BY DEF ToSet
    <3>2. toServer'[c] = <<>> \/ toServer'[c] = toServer[c] BY <1>1, <1>2 DEF ServerTypes
    <3> QED BY <3>1, <3>2
  <2> QED BY <1>1, <1>2, <1>5, <1>6, <2>1, <2>2, MessagesKept
<1>11. Lanes' BY <1>1, <1>2, <1>3, LanesFewer
<1>12. Offers'
  <2>1. /\ DOMAIN sessions' = DOMAIN sessions \ ids
        /\ \A i \in DOMAIN sessions' : sessions'[i] = sessions[i]
    BY <1>2, <1>3, OursRemoved
  <2> QED BY <1>2, <1>4, <1>5, <2>1 DEF Offers
<1>13. ASSUME NEW c \in Client, alive'[c], NEW f \in File PROVE Line(c, f)'
  <2>1. alive[c] /\ c # a /\ Line(c, f) /\ toClient[c] \in Seq(GoodFrame)
    BY <1>1, <1>2, <1>13 DEF Lines, ServerTypes
  <2>2. PICK mine : /\ mine = Ours(c, f)' /\ mine = Ours(c, f) \ ids
                    /\ \A i \in mine : sessions'[i] = sessions[i]
    <3>1. /\ Ours(c, f)' = Ours(c, f) \ ids
          /\ \A i \in Ours(c, f)' : sessions'[i] = sessions[i]
      <4>1. Manager /\ sessions' = [i \in DOMAIN sessions \ ids |-> sessions[i]] BY <1>2, <1>3
      <4> QED BY <4>1, OursRemoved
    <3> QED BY <3>1, Zenon
  <2>3. /\ Holds(c, f)' <=> Holds(c, f)
        /\ Kept(c, f)' = Kept(c, f)
        /\ downloads'[c][f].paused = downloads[c][f].paused
    BY <1>5, Unmoved
  <2>4. Gone(f) => Gone(f)' BY <1>1, <1>4, <1>5 DEF Gone
  <2>5. Alike(toServer[c], toServer'[c], f, mine)
    <3>1. toServer'[c] = toServer[c] BY <1>1, <1>2, <2>1 DEF ServerTypes
    <3> QED BY <3>1, AlikeItself
  <2>6. /\ AlikeFrames(toClient[c], toClient'[c], f, mine)
        /\ In(toClient[c], "DWSTART", f) => In(toClient'[c], "DWSTART", f)
        /\ In(toClient'[c], "DWERR", f) => In(toClient[c], "DWERR", f) \/ Owner[f] = a
    <3>1. toClient'[c] = toClient[c] \o frames[c] /\ toClient[c] \o <<>> = toClient[c]
      BY <1>1, <2>1, ConcatEmptySeq DEF Post
    <3>2. CASE frames[c] = <<>> BY <3>1, <3>2, AlikeItself
    <3>3. CASE /\ frames[c] \in Seq(GoodFrame)
               /\ \A n \in 1..Len(frames[c]) : frames[c][n] \in Farewells(a) \cup {leave}
      <4>1. PICK fs \in Seq(GoodFrame) : fs = frames[c] BY <3>3
      <4>2. ASSUME NEW n \in 1..Len(fs)
            PROVE  ~AboutFrame(fs[n], f, mine) /\ (IsOf(fs[n], "DWERR", f) => Owner[f] = a)
        <5>1. PICK x : x = fs[n] /\ x \in Farewells(a) \cup {leave} BY <3>3, <4>1
        <5>2. x.kind \in {"DWERR", "LEAVE"} /\ (x.kind = "DWERR" => Owner[x.file] = a) BY <1>9, <5>1
        <5> QED BY <5>1, <5>2 DEF AboutFrame, IsOf, IsData
      <4>3. /\ AlikeFrames(toClient[c], toClient[c] \o fs, f, mine)
            /\ In(toClient[c], "DWSTART", f) => In(toClient[c] \o fs, "DWSTART", f)
            /\ In(toClient[c] \o fs, "DWERR", f) =>
                 (In(toClient[c], "DWERR", f) \/ \E n \in 1..Len(fs) : IsOf(fs[n], "DWERR", f))
        BY <2>1, <4>2, AlikePosted
      <4> QED BY <3>1, <4>1, <4>2, <4>3
    <3> QED BY <1>7, <3>2, <3>3
  <2>7. Owner[f] = a => mine = {} /\ Gone(f)'
    <3>1. Owner[f] = a => Gone(f)' BY <1>1 DEF Gone
    <3>2. \A i \in mine : i \in DOMAIN sessions' /\ sessions'[i].file = f BY <2>2 DEF Ours
    <3> QED BY <1>4, <3>1, <3>2
  <2>8. /\ \A x \in requested' : x.id \in mine => x \in requested
        /\ alive'[Owner[f]] => alive[Owner[f]]
        /\ handling'[c] = handling[c]
        /\ mine \subseteq Ours(c, f)
    BY <1>1, <2>2
  <2> QED BY <1>2, <2>1, <2>2, <2>3, <2>4, <2>5, <2>6, <2>7, <2>8, LineKept
<1> QED BY <1>10, <1>11, <1>12, <1>13 DEF Lines, JInv

-------------------------------------------------------------------------------
(* A DOWNLOAD, from its start to its answer *)

\* A frame that answers a DOWNLOAD of g, posted.
LEMMA AnswerFrame ==
    ASSUME NEW w \in Seq(GoodFrame), NEW g, NEW x \in GoodFrame,
           x.kind \in {"DWSTART", "DWERR"}, x.file = g
    PROVE  /\ In(Append(w, x), "DWSTART", g) <=> (In(w, "DWSTART", g) \/ x.kind = "DWSTART")
           /\ In(Append(w, x), "DWNDONE", g) <=> In(w, "DWNDONE", g)
           /\ In(Append(w, x), "DWERR", g) <=> (In(w, "DWERR", g) \/ x.kind = "DWERR")
           /\ DoneFirst(Append(w, x), g) <=> DoneFirst(w, g)
           /\ \A i : /\ Sent(Append(w, x), i) = Sent(w, i)
                     /\ Once(Append(w, x), i) <=> Once(w, i)
                     /\ DataLast(Append(w, x), g, i) <=>
                           (DataLast(w, g, i) /\ (x.kind = "DWSTART" => Sent(w, i) = {}))
                     /\ DataOf(Append(w, x), i, g) <=> DataOf(w, i, g)
           /\ \A f, ids : f # g => /\ AlikeFrames(w, Append(w, x), f, ids)
                                   /\ In(w, "DWSTART", f) => In(Append(w, x), "DWSTART", f)
                                   /\ In(Append(w, x), "DWERR", f) => In(w, "DWERR", f)
<1>1. /\ IsOf(x, "DWSTART", g) <=> x.kind = "DWSTART"
      /\ IsOf(x, "DWERR", g) <=> x.kind = "DWERR"
      /\ ~IsOf(x, "DWNDONE", g) /\ \A i : ~IsData(x, i)
  BY DEF IsOf, IsData
<1>2. /\ In(Append(w, x), "DWSTART", g) <=> (In(w, "DWSTART", g) \/ x.kind = "DWSTART")
      /\ In(Append(w, x), "DWNDONE", g) <=> In(w, "DWNDONE", g)
      /\ In(Append(w, x), "DWERR", g) <=> (In(w, "DWERR", g) \/ x.kind = "DWERR")
      /\ DoneFirst(Append(w, x), g) <=> DoneFirst(w, g)
  BY <1>1, Posted
<1>3. ASSUME NEW i
      PROVE  /\ Sent(Append(w, x), i) = Sent(w, i)
             /\ Once(Append(w, x), i) <=> Once(w, i)
             /\ DataLast(Append(w, x), g, i) <=>
                   (DataLast(w, g, i) /\ (x.kind = "DWSTART" => Sent(w, i) = {}))
             /\ DataOf(Append(w, x), i, g) <=> DataOf(w, i, g)
  BY <1>1, PostedData
<1>4. ASSUME NEW f, NEW ids, f # g
      PROVE  /\ AlikeFrames(w, Append(w, x), f, ids)
             /\ In(w, "DWSTART", f) => In(Append(w, x), "DWSTART", f)
             /\ In(Append(w, x), "DWERR", f) => In(w, "DWERR", f)
  <2>1. ~AboutFrame(x, f, ids) /\ ~IsOf(x, "DWERR", f) BY <1>4 DEF AboutFrame, IsOf, IsData
  <2>2. w \o <<x>> = Append(w, x) BY OneFrame
  <2> QED BY <2>1, <2>2, AlikePostedOne
<1> QED BY <1>2, <1>3, <1>4

\* Alike is transitive.
LEMMA AlikeTwice ==
    ASSUME NEW u, NEW v, NEW w, NEW f, NEW ids, AlikeFrames(u, v, f, ids), AlikeFrames(v, w, f, ids)
    PROVE  AlikeFrames(u, w, f, ids)
BY DEF AlikeFrames

\* DWSTART, and DWERR behind it where the uploader is gone, answer a DOWNLOAD.
LEMMA AnswerPosted ==
    ASSUME NEW w \in Seq(GoodFrame), NEW g, NEW start \in GoodFrame, NEW error \in GoodFrame,
           start.kind = "DWSTART", start.file = g, error.kind = "DWERR", error.file = g,
           NEW dead \in BOOLEAN, NEW v \in Seq(GoodFrame), NEW u \in Seq(GoodFrame),
           u = Append(w, start), v = IF dead THEN Append(u, error) ELSE u
    PROVE  Answered(w, v, g, dead)
<1>1. /\ In(u, "DWSTART", g)
      /\ In(u, "DWNDONE", g) <=> In(w, "DWNDONE", g)
      /\ In(u, "DWERR", g) => In(w, "DWERR", g)
      /\ DoneFirst(u, g) <=> DoneFirst(w, g)
  BY AnswerFrame, Zenon
<1>i. \A i : /\ Sent(u, i) = Sent(w, i)
             /\ Once(u, i) <=> Once(w, i)
             /\ DataLast(u, g, i) <=> (DataLast(w, g, i) /\ Sent(w, i) = {})
             /\ DataOf(u, i, g) <=> DataOf(w, i, g)
  <2> TAKE i
  <2>1. Sent(u, i) = Sent(w, i) BY AnswerFrame
  <2>2. Once(u, i) <=> Once(w, i) BY AnswerFrame
  <2>3. DataLast(u, g, i) <=> (DataLast(w, g, i) /\ Sent(w, i) = {}) BY AnswerFrame
  <2>4. DataOf(u, i, g) <=> DataOf(w, i, g) BY AnswerFrame
  <2> QED BY <2>1, <2>2, <2>3, <2>4
<1>f. \A f, ids : f # g => /\ AlikeFrames(w, u, f, ids)
                           /\ In(w, "DWSTART", f) => In(u, "DWSTART", f)
                           /\ In(u, "DWERR", f) => In(w, "DWERR", f)
  BY AnswerFrame, Zenon
<1>2. CASE ~dead BY <1>1, <1>i, <1>f, <1>2, Zenon DEF Answered
<1>3. CASE dead
  <2>1. PICK e : e = Append(u, error) OBVIOUS
  <2>2. /\ In(e, "DWSTART", g) <=> In(u, "DWSTART", g)
        /\ In(e, "DWNDONE", g) <=> In(u, "DWNDONE", g)
        /\ DoneFirst(e, g) <=> DoneFirst(u, g)
        /\ \A i : /\ Sent(e, i) = Sent(u, i)
                  /\ Once(e, i) <=> Once(u, i)
                  /\ DataLast(e, g, i) <=> DataLast(u, g, i)
                  /\ DataOf(e, i, g) <=> DataOf(u, i, g)
        /\ \A f, ids : f # g => /\ AlikeFrames(u, e, f, ids)
                                /\ In(u, "DWSTART", f) => In(e, "DWSTART", f)
                                /\ In(e, "DWERR", f) => In(u, "DWERR", f)
    <3>1. error.kind # "DWSTART" /\ error.kind \in {"DWSTART", "DWERR"} OBVIOUS
    <3> QED BY <2>1, <3>1, AnswerFrame, Zenon
  <2>3. v = e BY <1>3, <2>1
  <2>4. \A f, ids : f # g => AlikeFrames(w, e, f, ids) BY <1>f, <2>2, AlikeTwice
  <2>5. \A i : /\ Sent(e, i) = Sent(w, i)
               /\ Once(e, i) <=> Once(w, i)
               /\ DataLast(e, g, i) <=> (DataLast(w, g, i) /\ Sent(w, i) = {})
               /\ DataOf(e, i, g) <=> DataOf(w, i, g)
    BY <1>i, <2>2
  <2>6. \A f, ids : f # g => /\ AlikeFrames(w, e, f, ids)
                             /\ In(w, "DWSTART", f) => In(e, "DWSTART", f)
                             /\ In(e, "DWERR", f) => In(w, "DWERR", f)
    BY <1>f, <2>2, <2>4
  <2> QED BY <1>1, <1>3, <2>2, <2>3, <2>5, <2>6 DEF Answered
<1> QED BY <1>2, <1>3

\* The answer to a DOWNLOAD: the session is what the browser waited for.
LEMMA AnswerDownloadKeeps ==
    ASSUME IInv, IInv', JInv, NEW a \in Client, AnswerDownload(a) PROVE JInv'
<1> DEFINE h == handling[a]
<1>1. /\ h.step = "started" /\ h.file \in File /\ PostRequests(h.requests)
      /\ handling' = [handling EXCEPT ![a] = Idle]
      /\ UNCHANGED <<managerVars, alive, departed, toServer, browserVars>>
      /\ ServerTypes /\ ServerTypes' /\ Manager /\ Lanes /\ Messages /\ Offers /\ Lines
  BY DEF AnswerDownload, IInv, JInv, ServerTypes
<1>2. UNCHANGED <<registrations, sessions, nextSession, uploaded, uploadSessions, downloads>>
  BY <1>1 DEF managerVars, fileVars, sessionVars, browserVars, uploadVars, downloadVars
<1>3. PICK g \in File : g = h.file BY <1>1
<1>4. PICK start \in GoodFrame, error \in GoodFrame :
          start = [kind |-> "DWSTART", file |-> g] /\ error = [kind |-> "DWERR", file |-> g]
  BY FrameTypes
<1>5. PICK dead \in BOOLEAN : dead = ~alive[Owner[g]] OBVIOUS
<1>6. PICK answer : /\ answer = IF dead THEN <<start, error>> ELSE <<start>>
                    /\ answer \in Seq(GoodFrame) /\ Post(OnlyTo(a, answer))
  <2>1. <<start>> \in Seq(GoodFrame) /\ <<start, error>> \in Seq(GoodFrame)

    <3> QED OBVIOUS
  <2>2. Post(OnlyTo(a, IF alive[Owner[g]] THEN <<start>> ELSE <<start, error>>))
    BY <1>3, <1>4 DEF AnswerDownload
  <2> QED BY <1>5, <2>1, <2>2
<1>7. /\ handling'[a] = Idle /\ \A c \in Client \ {a} : handling'[c] = handling[c]
      /\ Idle.step = "idle" /\ Idle.requests = {} /\ Idle.file = NoFile
      /\ \A f \in File : NoFile # f
  <2>1. handling \in [Client -> Handling] BY <1>1 DEF ServerTypes
  <2> QED BY <1>1, <2>1, FileFacts
<1>8. ASSUME NEW x \in h.requests
      PROVE  /\ x.file = g /\ x.id \in Issued
             /\ x.id \in DOMAIN sessions => x.id \in Ours(a, g)
  BY <1>1, <1>3 DEF Lanes, Lane
<1>9. /\ \A x \in requested' : x \in requested \/ (~dead /\ x \in h.requests)
      /\ ~dead => requested' = requested \cup h.requests
      /\ requested \subseteq requested'
  <2>1. requested' = requested \cup {x \in h.requests : alive[Owner[x.file]]}
    BY <1>1 DEF PostRequests
  <2>2. \A x \in h.requests : alive[Owner[x.file]] <=> ~dead BY <1>5, <1>8
  <2> QED BY <2>1, <2>2
<1>10. Issued' = Issued BY <1>1, <1>2, IssuedGrows
<1>11. Messages'
  <2>1. ASSUME NEW c \in Client, NEW x \in ToSet(toClient'[c])
        PROVE  x \in ToSet(toClient[c]) \/ KnownFrame(x)'
    <3>1. x \in ToSet(toClient[c]) \/ x \in ToSet(answer) BY <1>1, <1>6, OnlyToMembers
    <3>2. x \in ToSet(answer) => x = start \/ x = error
      <4>1. ToSet(<<start>>) = {start} BY DEF ToSet
      <4>2. ToSet(<<start, error>>) = {start, error} BY DEF ToSet
      <4> QED BY <1>6, <4>1, <4>2
    <3>3. KnownFrame(start)' /\ KnownFrame(error)' BY <1>4 DEF KnownFrame
    <3> QED BY <3>1, <3>2, <3>3
  <2> QED BY <1>1, <1>2, <1>10, <2>1, MessagesKept
<1>12. Lanes'
  <2>1. ASSUME NEW x \in requested' PROVE x \in requested \/ Request(x)'
    BY <1>2, <1>8, <1>9, <1>10 DEF Request, Ours
  <2> QED BY <1>1, <1>2, <1>7, <1>10, <2>1, LanesKept
<1>13. Offers' BY <1>1, <1>2 DEF Offers
<1>14. ASSUME NEW c \in Client, alive'[c], NEW f \in File PROVE Line(c, f)'
  <2>1. alive[c] /\ Line(c, f) /\ toClient[c] \in Seq(GoodFrame)
    BY <1>1, <1>14 DEF Lines, ServerTypes
  <2>2. PICK mine : mine = Ours(c, f)' /\ mine = Ours(c, f) BY <1>2, Unmoved
  <2>3. /\ Holds(c, f)' <=> Holds(c, f)
        /\ Kept(c, f)' = Kept(c, f)
        /\ downloads'[c][f].paused = downloads[c][f].paused
        /\ Gone(f)' <=> Gone(f)
    BY <1>1, <1>2, Unmoved
  <2>4. /\ c = a => toClient'[c] = toClient[c] \o answer
        /\ c # a => toClient'[c] = toClient[c]
    BY <1>1, <1>6, <2>1, PostedTo
  <2>a. /\ start.kind = "DWSTART" /\ start.file = g /\ error.kind = "DWERR" /\ error.file = g
    BY <1>4
  <2>b. PICK u \in Seq(GoodFrame) :
            /\ u = Append(toClient[c], start)
            /\ c = a => toClient'[c] = IF dead THEN Append(u, error) ELSE u
    <3>1. \A s \in Seq(GoodFrame) : /\ s \o <<start>> = Append(s, start)
                                    /\ s \o <<start, error>> = Append(Append(s, start), error)
      OBVIOUS
    <3>2. Append(toClient[c], start) \in Seq(GoodFrame) BY <2>1
    <3> QED BY <1>6, <2>1, <2>4, <3>1, <3>2
  <2>c. PICK w \in Seq(GoodFrame) : w = toClient[c] BY <2>1
  <2>d. PICK v \in Seq(GoodFrame) : v = toClient'[c] BY <1>1 DEF ServerTypes
  <2>e. ASSUME c = a
        PROVE  Answered(w, v, g, dead)
    <3>1. u = Append(w, start) /\ v = IF dead THEN Append(u, error) ELSE u BY <2>b, <2>c, <2>d, <2>e
    <3> QED BY <2>a, <3>1, AnswerPosted
  <2>5. toServer'[c] = toServer[c] /\ \A ids : Alike(toServer[c], toServer'[c], f, ids)
    BY <1>1, AlikeItself
  <2>6. CASE ~(c = a /\ f = g)
    <3>1. /\ AlikeFrames(toClient[c], toClient'[c], f, mine)
          /\ In(toClient[c], "DWSTART", f) => In(toClient'[c], "DWSTART", f)
          /\ In(toClient'[c], "DWERR", f) => In(toClient[c], "DWERR", f)
      <4>1. CASE c # a BY <2>4, <4>1, AlikeItself
      <4>2. CASE c = a BY <2>6, <2>c, <2>d, <2>e, <4>2, Zenon DEF Answered
      <4> QED BY <4>1, <4>2
    <3>2. \A x \in requested' : x.id \in mine => x \in requested
      <4>1. \A x \in h.requests : x.id \notin mine BY <1>8, <2>2, <2>6 DEF Ours
      <4> QED BY <1>9, <4>1
    <3>3. \/ handling'[c] = handling[c]
          \/ /\ handling[c].file # f /\ handling'[c].file # f
             /\ \A x \in handling'[c].requests : x.id \notin mine
      BY <1>3, <1>7, <2>6
    <3>4. /\ alive'[Owner[f]] => alive[Owner[f]]
          /\ mine \subseteq Ours(c, f)
          /\ \A i \in mine : sessions'[i] = sessions[i]
      BY <1>1, <1>2, <2>2
    <3> QED BY <1>1, <2>1, <2>2, <2>3, <2>5, <3>1, <3>2, <3>3, <3>4, LineKept
  <2>7. CASE c = a /\ f = g
    <3>1. /\ handling[c].step = "started" /\ handling[c].file = f
          /\ handling'[c].step = "idle" /\ handling'[c].file # f /\ handling'[c].requests = {}
          /\ dead = ~alive[Owner[f]] /\ handling[c] = h
      BY <1>1, <1>3, <1>5, <1>7, <2>7
    <3>2. /\ In(toClient'[c], "DWSTART", f)
          /\ In(toClient'[c], "DWNDONE", f) <=> In(toClient[c], "DWNDONE", f)
          /\ In(toClient'[c], "DWERR", f) => In(toClient[c], "DWERR", f) \/ dead
          /\ DoneFirst(toClient'[c], f) <=> DoneFirst(toClient[c], f)
          /\ \A i : /\ Sent(toClient'[c], i) = Sent(toClient[c], i)
                    /\ Once(toClient'[c], i) <=> Once(toClient[c], i)
                    /\ DataLast(toClient'[c], f, i) <=> DataLast(toClient[c], f, i) /\ Sent(toClient[c], i) = {}
                    /\ DataOf(toClient'[c], i, f) <=> DataOf(toClient[c], i, f)
      BY <2>7, <2>c, <2>d, <2>e, Zenon DEF Answered
    <3>3. Pair(c, f) BY <2>1 DEF Line
    <3>4. Over(c, f)' => Over(c, f) BY <2>3, <3>2 DEF Over
    <3>5. Settled(c, f) => Settled(c, f)' BY <2>5, <3>1 DEF Settled
    <3>6. Pair(c, f)'
      <4>1. Resumes(toServer'[c], f, Kept(c, f)') \/ Gone(f)' BY <2>3, <2>5, <3>3 DEF Pair
      <4>2. /\ Alternate(toServer'[c], f)
            /\ Over(c, f)' => Settled(c, f)'
            /\ DoneFirst(toClient'[c], f)
        BY <2>5, <3>2, <3>3, <3>4, <3>5 DEF Pair
      <4>3. Holds(c, f)' /\ In(toClient'[c], "DWNDONE", f) => Whole(c, f)'
        BY <2>3, <3>2, <3>3 DEF Pair, Whole
      <4>4. In(toClient'[c], "DWERR", f) => Gone(f)' BY <2>3, <3>1, <3>2, <3>3 DEF Pair, Gone
      <4>5. \A i, j \in mine : i = j BY <2>2, <3>3 DEF Pair
      <4> QED BY <2>2, <3>1, <4>1, <4>2, <4>3, <4>4, <4>5 DEF Pair
    <3>7. ASSUME NEW i \in mine
          PROVE  \E B \in SUBSET (0..(Size - 1)) : Session(c, f, i, B)'
      <4>1. PICK B \in SUBSET (0..(Size - 1)) : Session(c, f, i, B) BY <2>1, <2>2 DEF Line
      <4>2. sessions'[i] = sessions[i] /\ sessions[i].file = f BY <1>2, <2>2 DEF Ours
      <4>3. /\ Acks(toServer[c], i) = {} /\ ~(0..(Size - 1) \subseteq B)
            /\ Sent(toClient[c], i) = {}
            /\ \A x \in requested : x.id # i
            /\ \E x \in h.requests : x.id = i
            /\ DataLast(toClient[c], f, i)
            /\ DataOf(toClient[c], i, f)
        BY <3>1, <4>1 DEF Session, Stage
      <4>4. Asks(c, i)' \subseteq Asks(c, i) /\ (dead => Asks(c, i)' = {})
        <5>1. \A x \in requested' \cup handling'[c].requests : x.id = i => x \in h.requests /\ ~dead
          BY <1>9, <3>1, <4>3
        <5> QED BY <3>1, <5>1 DEF Asks
      <4>5. Counts(c, i, B) BY <4>1 DEF Session
      <4>6. /\ Counts(c, i, B)'
            /\ Lost(c, i, B) => Lost(c, i, B)'
            /\ Doomed(c, i, B) => Doomed(c, i, B)'
        <5>1. /\ Acks(toServer'[c], i) \subseteq Acks(toServer[c], i)
              /\ Sent(toClient'[c], i) \subseteq Sent(toClient[c], i)
              /\ Once(toClient[c], i) => Once(toClient'[c], i)
              /\ alive'[Owner[f]] => alive[Owner[f]]
          BY <1>1, <2>5, <3>2
        <5> QED BY <4>2, <4>4, <4>5, <5>1, CountsShrink
      <4>7. ASSUME dead PROVE Doomed(c, i, B)'
        <5>1. PICK x \in h.requests : x.id = i BY <4>3
        <5>2. x.off \in Asks(c, i) BY <3>1, <5>1 DEF Asks
        <5>3. x.off \in 0..(Size - 1) /\ x.off < sessions[i].next /\ x.off \notin B
          <6>1. i \in DOMAIN sessions BY <2>2 DEF Ours
          <6>2. sessions[i].next \in Nat /\ Size \in Nat
            BY <1>1, <6>1, SessionFacts, TransferAssumption DEF TransferSession
          <6> QED BY <4>5, <5>2, <6>2 DEF Counts, Placed
        <5>4. x.off \notin Placed(c, i, B)' BY <2>5, <3>2, <4>3, <4>4, <4>7, <5>3 DEF Placed
        <5> QED BY <1>1, <3>1, <4>2, <4>7, <5>3, <5>4 DEF Doomed, Lost, Uploader
      <4>8. Stage(c, f, i, B)' BY <2>5, <3>1, <3>2, <4>3 DEF Stage
      <4>9. Course(c, f, i, B)'
        <5>1. Course(c, f, i, B) BY <4>1 DEF Session
        <5>2. Awaiting(c, f)' BY <1>1, <3>2, AwaitingNext
        <5> QED BY <2>5, <3>1, <3>2, <3>4, <4>6, <4>7, <5>1, <5>2 DEF Course
      <4>10. Safe(c, f, i, B)'
        <5>1. Safe(c, f, i, B) BY <4>1 DEF Session
        <5>2. CASE StopIn(toServer[c], f) BY <2>3, <2>5, <3>5, <5>1, <5>2 DEF Safe, Whole
        <5>3. CASE ~StopIn(toServer[c], f) BY <2>3, <2>5, <4>6, <5>1, <5>3 DEF Safe
        <5> QED BY <5>2, <5>3
      <4> QED BY <4>6, <4>8, <4>9, <4>10 DEF Session
    <3> QED BY <2>2, <3>6, <3>7 DEF Line
  <2> QED BY <2>6, <2>7
<1> QED BY <1>11, <1>12, <1>13, <1>14 DEF Lines, JInv

\* A session starts with the requests for the chunks from off up to some next one.
LEMMA FirstWindowIs ==
    ASSUME NEW off \in Nat, off < Size
    PROVE  \E next \in Nat : /\ off < next /\ next <= Size
                             /\ FirstWindow(off) = off..(next - 1)
                             /\ off + Cardinality(FirstWindow(off)) = next
<1>1. Size \in Nat /\ Window \in Nat \ {0} BY TransferAssumption
<1>2. PICK next \in Nat : next = IF off + Window <= Size THEN off + Window ELSE Size BY <1>1
<1>3. off < next /\ next <= Size BY <1>1, <1>2
<1>4. FirstWindow(off) = off..(next - 1) BY <1>1, <1>2 DEF FirstWindow
<1>5. Cardinality(off..(next - 1)) = next - off BY <1>3, FS_Interval
<1> QED BY <1>3, <1>4, <1>5

\* A DOWNLOAD that finds the file but comes too late to start.
LEMMA StartFails ==
    ASSUME IInv, IInv', JInv, NEW a \in Client, StartDownload(a),
           handling' = [handling EXCEPT ![a] = Idle], UNCHANGED managerVars
    PROVE  JInv'
<1>1. /\ handling[a].step = "found" /\ handling[a].file \in File
      /\ UNCHANGED <<alive, departed, toServer, toClient, requested, browserVars>>
      /\ ServerTypes /\ ServerTypes' /\ Manager /\ Lanes /\ Messages /\ Offers /\ Lines
  BY DEF StartDownload, IInv, JInv, ServerTypes
<1>2. UNCHANGED <<registrations, sessions, nextSession, uploaded, uploadSessions, downloads>>
  BY <1>1 DEF managerVars, fileVars, sessionVars, browserVars, uploadVars, downloadVars
<1>3. /\ handling'[a] = Idle /\ \A c \in Client \ {a} : handling'[c] = handling[c]
      /\ Idle.step = "idle" /\ Idle.requests = {} /\ Idle.file = NoFile
      /\ \A f \in File : NoFile # f
  <2>1. handling \in [Client -> Handling] BY <1>1 DEF ServerTypes
  <2> QED BY <1>1, <2>1, FileFacts
<1>4. Issued' = Issued BY <1>1, <1>2, IssuedGrows
<1>5. Messages' BY <1>1, <1>2, <1>4, MessagesKept
<1>6. Lanes' BY <1>1, <1>2, <1>3, <1>4, LanesKept
<1>7. Offers' BY <1>1, <1>2 DEF Offers
<1>8. ASSUME NEW c \in Client, alive'[c], NEW f \in File PROVE Line(c, f)'
  <2>1. alive[c] /\ Line(c, f) BY <1>1, <1>8 DEF Lines
  <2>2. CASE ~(c = a /\ f = handling[a].file)
    <3>1. QuietLane(c, f) /\ QuietWire(c, f, Ours(c, f)) BY <1>1 DEF QuietLane, QuietWire
    <3>2. \/ handling'[c] = handling[c]
          \/ handling[c].file # f /\ handling'[c].file # f /\ handling'[c].requests = {}
      BY <1>3, <2>2
    <3> QED BY <1>1, <1>2, <1>8, <3>1, <3>2, PassingBy
  <2>3. CASE c = a /\ f = handling[a].file
    <3>1. PICK mine : mine = Ours(c, f)' /\ mine = Ours(c, f) BY <1>2, Unmoved
    <3>2. /\ Holds(c, f)' <=> Holds(c, f)
          /\ Kept(c, f)' = Kept(c, f)
          /\ downloads'[c][f].paused = downloads[c][f].paused
          /\ Gone(f)' <=> Gone(f)
      BY <1>1, <1>2, Unmoved
    <3>3. /\ handling[c].step = "found" /\ handling[c].file = f
          /\ handling'[c].step = "idle" /\ handling'[c].file # f /\ handling'[c].requests = {}
          /\ toServer'[c] = toServer[c] /\ toClient'[c] = toClient[c] /\ requested' = requested
      BY <1>1, <1>3, <2>3
    <3>4. Pair(c, f) BY <2>1 DEF Line
    <3>5. (Over(c, f)' => Over(c, f)) /\ (Settled(c, f) => Settled(c, f)')
      BY <3>2, <3>3 DEF Over, Settled
    <3>6. Pair(c, f)'
      <4>1. Resumes(toServer'[c], f, Kept(c, f)') \/ Gone(f)' BY <3>2, <3>3, <3>4 DEF Pair
      <4>2. /\ Alternate(toServer'[c], f)
            /\ Over(c, f)' => Settled(c, f)'
            /\ DoneFirst(toClient'[c], f)
            /\ Holds(c, f)' /\ In(toClient'[c], "DWNDONE", f) => Whole(c, f)'
            /\ In(toClient'[c], "DWERR", f) => Gone(f)'
        BY <3>2, <3>3, <3>4, <3>5 DEF Pair, Whole
      <4>3. \A i, j \in mine : i = j BY <3>1, <3>4 DEF Pair
      <4> QED BY <3>1, <3>3, <4>1, <4>2, <4>3 DEF Pair
    <3>7. ASSUME NEW i \in mine
          PROVE  \E B \in SUBSET (0..(Size - 1)) : Session(c, f, i, B)'
      <4>1. PICK B \in SUBSET (0..(Size - 1)) : Session(c, f, i, B) BY <2>1, <3>1 DEF Line
      <4>2. sessions'[i] = sessions[i] /\ sessions[i].file = f BY <1>2, <3>1 DEF Ours
      <4>3. Doomed(c, i, B) /\ Counts(c, i, B) BY <3>3, <4>1 DEF Session, Course
      <4>4. /\ Counts(c, i, B)'
            /\ Lost(c, i, B) => Lost(c, i, B)'
            /\ Doomed(c, i, B)'
        <5>1. Asks(c, i)' \subseteq Asks(c, i) BY <3>3 DEF Asks
        <5>2. /\ Acks(toServer'[c], i) \subseteq Acks(toServer[c], i)
              /\ Sent(toClient'[c], i) \subseteq Sent(toClient[c], i)
              /\ Once(toClient[c], i) => Once(toClient'[c], i)
              /\ alive'[Owner[f]] => alive[Owner[f]]
          BY <1>1, <3>3
        <5> QED BY <4>2, <4>3, <5>1, <5>2, CountsShrink
      <4>5. Stage(c, f, i, B)'
        <5>1. Stage(c, f, i, B) BY <4>1 DEF Session
        <5> QED BY <3>3, <5>1 DEF Stage
      <4>6. Course(c, f, i, B)' BY <4>4 DEF Course
      <4>7. Safe(c, f, i, B)'
        <5>1. Safe(c, f, i, B) BY <4>1 DEF Session
        <5>2. CASE StopIn(toServer[c], f) BY <3>2, <3>3, <3>5, <5>1, <5>2 DEF Safe, Whole
        <5>3. CASE ~StopIn(toServer[c], f) BY <3>2, <3>3, <4>4, <5>1, <5>3 DEF Safe
        <5> QED BY <5>2, <5>3
      <4> QED BY <4>4, <4>5, <4>6, <4>7 DEF Session
    <3> QED BY <3>1, <3>6, <3>7 DEF Line
  <2> QED BY <2>2, <2>3
<1> QED BY <1>5, <1>6, <1>7, <1>8 DEF Lines, JInv

\* What is on its way about sessions is about those there are, or were.
LEMMA NotIssued ==
    ASSUME JInv, NEW c \in Client, NEW i, i \notin Issued
    PROVE  /\ Acks(toServer[c], i) = {} /\ Sent(toClient[c], i) = {}
           /\ \A n \in 1..Len(toClient[c]) : ~IsData(toClient[c][n], i)
           /\ \A x \in requested : x.id # i
<1>1. \A n \in 1..Len(toServer[c]) : ~IsAck(toServer[c][n], i)
  <2>1. \A n \in 1..Len(toServer[c]) : toServer[c][n] \in ToSet(toServer[c]) BY DEF ToSet
  <2> QED BY <2>1 DEF JInv, Messages, Known, IsAck
<1>2. \A n \in 1..Len(toClient[c]) : ~IsData(toClient[c][n], i)
  <2>1. \A n \in 1..Len(toClient[c]) : toClient[c][n] \in ToSet(toClient[c]) BY DEF ToSet
  <2> QED BY <2>1 DEF JInv, Messages, KnownFrame, IsData
<1>3. \A x \in requested : x.id # i BY DEF JInv, Lanes, Request
<1> QED BY <1>1, <1>2, <1>3 DEF Acks, Sent

\* A session started: none of its chunks is acknowledged, and those before its first are kept.
LEMMA StartSucceeds ==
    ASSUME IInv, IInv', JInv, NEW a \in Client, StartDownload(a),
           CanStart(handling[a].file, handling[a].off)
    PROVE  JInv'
<1>1. /\ handling[a].step = "found" /\ handling[a].file \in File /\ handling[a].off \in Nat
      /\ UNCHANGED <<alive, departed, toServer, toClient, requested, browserVars>>
      /\ ServerTypes /\ ServerTypes' /\ Manager /\ Lanes /\ Messages /\ Offers /\ Lines
  <2>1. handling[a] \in Handling BY DEF IInv, ServerTypes
  <2> QED BY <2>1 DEF StartDownload, IInv, JInv, ServerTypes, Handling
<1>2. PICK g \in File, o \in Nat, n \in Nat :
          g = handling[a].file /\ o = handling[a].off /\ n = nextSession
  BY <1>1 DEF Manager, ManagerTypeOK
<1>w. PICK next \in Nat : /\ FirstWindow(o) = o..(next - 1) /\ o < next /\ next <= Size
                          /\ o + Cardinality(FirstWindow(o)) = next
  <2>1. o < Size BY <1>2 DEF CanStart
  <2> QED BY <2>1, FirstWindowIs
<1>3. PICK first : /\ first = FirstWindow(o) /\ first = o..(next - 1)
                   /\ o < next /\ next <= Size /\ o + Cardinality(first) = next
  BY <1>w
<1>4. PICK asks : asks = [file : {g}, id : {n}, off : first] OBVIOUS
<1>5. /\ g \in registrations /\ alive[Owner[g]]
      /\ StartTransfer(g, a, o)
      /\ handling' = [handling EXCEPT ![a] = [handling[a] EXCEPT !.step = "started", !.requests = asks]]
  BY <1>2, <1>3, <1>4 DEF StartDownload, CanStart
<1>6. PICK ts : ts = [file |-> g, downloader |-> a, received |-> o, pending |-> {}, next |-> next]
  OBVIOUS
<1>7. /\ DOMAIN sessions' = DOMAIN sessions \cup {n} /\ n \notin DOMAIN sessions
      /\ sessions'[n] = ts /\ nextSession' = nextSession + 1
      /\ \A i \in DOMAIN sessions : sessions'[i] = sessions[i]
      /\ UNCHANGED registrations
  <2>1. n \notin DOMAIN sessions BY <1>1, <1>2, StartKeeps, <1>5
  <2>2. /\ sessions' = [i \in DOMAIN sessions \cup {n} |-> IF i = n THEN ts ELSE sessions[i]]
        /\ nextSession' = nextSession + 1 /\ UNCHANGED registrations
    BY <1>2, <1>3, <1>5, <1>6 DEF StartTransfer, fileVars
  <2> QED BY <2>1, <2>2
<1>8. UNCHANGED <<uploaded, uploadSessions, downloads>>
  BY <1>1 DEF browserVars, uploadVars, downloadVars
<1>9. /\ \A c \in Client \ {a} : handling'[c] = handling[c]
      /\ handling'[a].step = "started" /\ handling'[a].file = g /\ handling'[a].requests = asks
  <2>1. handling \in [Client -> Handling] /\ handling[a] \in Handling BY <1>1 DEF ServerTypes
  <2> QED BY <1>2, <1>5, <2>1 DEF Handling
<1>10. /\ \A x : x \in asks => x.file = g /\ x.id = n /\ x.off \in first
       /\ \A k \in first : \E x \in asks : x.off = k /\ x.id = n
  <2>1. \A x \in asks : x.file = g /\ x.id = n /\ x.off \in first BY <1>4
  <2>2. ASSUME NEW k \in first PROVE \E x \in asks : x.off = k /\ x.id = n
    <3>1. [file |-> g, id |-> n, off |-> k] \in asks BY <1>4
    <3> QED BY <3>1
  <2> QED BY <2>1, <2>2
<1>11. Issued \subseteq Issued' /\ n \in Issued' /\ n \notin Issued /\ DOMAIN sessions \subseteq Issued
  BY <1>1, <1>2, <1>7, IssuedGrows
<1>12. \A c \in Client, f \in File :
          /\ Ours(c, f)' = Ours(c, f) \cup (IF c = a /\ f = g THEN {n} ELSE {})
          /\ Ours(c, f) \subseteq DOMAIN sessions
  BY <1>6, <1>7 DEF Ours
<1>13. Messages' BY <1>1, <1>8, <1>11, MessagesKept
<1>14. Lanes'
  <2>1. Lane(a)'
    <3>1. n \in Ours(a, g)' BY <1>12
    <3> QED BY <1>9, <1>10, <1>11, <3>1 DEF Lane
  <2> QED BY <1>1, <1>7, <1>9, <1>11, <2>1, LanesKept
<1>15. Offers' BY <1>1, <1>5, <1>6, <1>7, <1>8 DEF Offers
<1>16. ASSUME NEW c \in Client, alive'[c], NEW f \in File PROVE Line(c, f)'
  <2>1. alive[c] /\ Line(c, f) BY <1>1, <1>16 DEF Lines
  <2>2. /\ Holds(c, f)' <=> Holds(c, f)
        /\ Kept(c, f)' = Kept(c, f)
        /\ downloads'[c][f].paused = downloads[c][f].paused
        /\ Gone(f)' <=> Gone(f)
    BY <1>1, <1>7, <1>8, Unmoved
  <2>3. CASE ~(c = a /\ f = g)
    <3>1. PICK mine : mine = Ours(c, f)' /\ mine = Ours(c, f) BY <1>12, <2>3
    <3>2. QuietLane(c, f) /\ QuietWire(c, f, mine) BY <1>1 DEF QuietLane, QuietWire
    <3>3. \/ handling'[c] = handling[c]
          \/ /\ handling[c].file # f /\ handling'[c].file # f
             /\ \A x \in handling'[c].requests : x.id \notin mine
      BY <1>2, <1>7, <1>9, <1>10, <1>12, <2>3, <3>1
    <3>4. /\ \A x \in requested' : x.id \in mine => x \in requested
          /\ alive'[Owner[f]] => alive[Owner[f]]
          /\ \A i \in mine : sessions'[i] = sessions[i]
          /\ mine \subseteq Ours(c, f)
      BY <1>1, <1>7, <1>12, <3>1
    <3> QED BY <2>1, <2>2, <3>1, <3>2, <3>3, <3>4, QuietLine
  <2>4. CASE c = a /\ f = g
    <3>1. /\ handling[c].step = "found" /\ handling[c].file = f /\ handling[c].off = o
          /\ handling'[c].step = "started" /\ handling'[c].file = f /\ handling'[c].requests = asks
          /\ toServer'[c] = toServer[c] /\ toClient'[c] = toClient[c] /\ requested' = requested
      BY <1>1, <1>2, <1>9, <2>4
    <3>2. ~Gone(f) BY <1>5, <2>4 DEF Gone
    <3>3. Ours(c, f)' = {n}
      <4>1. ASSUME NEW i \in Ours(c, f) PROVE FALSE
        <5>1. PICK B \in SUBSET (0..(Size - 1)) : Session(c, f, i, B) BY <2>1 DEF Line
        <5>2. Doomed(c, i, B) BY <3>1, <5>1 DEF Session, Course
        <5> QED BY <1>5, <2>4, <5>2 DEF Doomed, Uploader, Ours
      <4> QED BY <1>12, <2>4, <4>1
    <3>4. Pair(c, f) BY <2>1 DEF Line
    <3>5. (Over(c, f)' => Over(c, f)) /\ (Settled(c, f) => Settled(c, f)')
      BY <2>2, <3>1 DEF Over, Settled
    <3>6. Pair(c, f)'
      <4>1. Resumes(toServer'[c], f, Kept(c, f)') \/ Gone(f)' BY <2>2, <3>1, <3>4 DEF Pair
      <4>2. /\ Alternate(toServer'[c], f) /\ Fenced(toServer'[c], f)
            /\ Over(c, f)' => Settled(c, f)'
            /\ DoneFirst(toClient'[c], f)
            /\ Holds(c, f)' /\ In(toClient'[c], "DWNDONE", f) => Whole(c, f)'
            /\ In(toClient'[c], "DWERR", f) => Gone(f)'
        BY <2>2, <3>1, <3>4, <3>5 DEF Pair, Whole
      <4>3. \A i, j \in Ours(c, f)' : i = j BY <3>3
      <4> QED BY <3>1, <4>1, <4>2, <4>3 DEF Pair
    <3>7. PICK B \in SUBSET (0..(Size - 1)) : B = 0..(o - 1)
      <4>1. 0..(o - 1) \in SUBSET (0..(Size - 1)) BY <1>3, TransferAssumption
      <4> QED BY <4>1
    <3>8. /\ Acks(toServer'[c], n) = {} /\ Sent(toClient'[c], n) = {}
          /\ \A l \in 1..Len(toClient'[c]) : ~IsData(toClient'[c][l], n)
          /\ \A x \in requested' : x.id # n
      BY <1>11, <3>1, NotIssued
    <3>9. Asks(c, n)' = first
      <4>1. \A x \in requested' \cup asks : x.id = n <=> x \in asks BY <1>10, <3>8
      <4>2. \A k \in first : \E x \in asks : x.off = k /\ x.id = n BY <1>10
      <4>3. \A k : k \in Asks(c, n)' <=> \E x \in requested' \cup asks : x.id = n /\ k = x.off
        BY <3>1 DEF Asks
      <4>4. \A k : k \in Asks(c, n)' <=> k \in first BY <1>10, <4>1, <4>2, <4>3
      <4>5. PICK now : now = Asks(c, n)' OBVIOUS
      <4>6. now = first BY <4>4, <4>5
      <4> QED BY <4>5, <4>6
    <3>10. Counts(c, n, B)'
      <4>1. sessions'[n].next = next /\ sessions'[n].pending = {} /\ sessions'[n].received = o
        BY <1>6, <1>7
      <4>2. Placed(c, n, B)' = B \cup first BY <3>8, <3>9 DEF Placed
      <4>3. Cardinality(B) = o /\ Cardinality({}) = 0 BY <3>7, FS_Interval, FS_EmptySet
      <4>4. B \cup first \subseteq 0..(next - 1) /\ first \cap B = {} /\ Size \in Nat
        BY <1>3, <3>7, TransferAssumption
      <4>5. Once(toClient'[c], n) BY <3>8 DEF Once
      <4>6. sessions'[n].received <= Cardinality(B) + Cardinality(sessions'[n].pending)
        BY <4>1, <4>3
      <4> QED BY <1>3, <3>8, <3>9, <4>1, <4>2, <4>4, <4>5, <4>6 DEF Counts
    <3>11. ~(0..(Size - 1) \subseteq B) BY <1>3, <3>7, TransferAssumption
    <3>12. Stage(c, f, n, B)'
      <4>1. \E x \in asks : x.id = n
        <5>1. o \in first BY <1>3
        <5> QED BY <1>10, <5>1
      <4>2. DataLast(toClient'[c], f, n) /\ DataOf(toClient'[c], n, f) BY <3>8 DEF DataLast, DataOf
      <4> QED BY <3>1, <3>8, <3>11, <4>1, <4>2 DEF Stage
    <3>13. Course(c, f, n, B)'
      <4>1. Awaiting(c, f)' BY <1>1, <3>1, AwaitingNext
      <4>2. Over(c, f)' => StopIn(toServer'[c], f) BY <3>1, <3>4, <3>5 DEF Pair, Settled
      <4>3. Fenced(toServer'[c], f) /\ ~In(toClient'[c], "DWERR", f) BY <3>1, <3>2, <3>4 DEF Pair
      <4> QED BY <3>1, <4>1, <4>2, <4>3 DEF Course
    <3>14. Safe(c, f, n, B)'
      <4>1. InTime(toServer'[c], f, n) = {}
        <5>1. InTime(toServer'[c], f, n) \subseteq Acks(toServer'[c], n) BY DEF InTime, Acks
        <5> QED BY <3>8, <5>1
      <4>2. StopIn(toServer'[c], f) \/ B \subseteq Kept(c, f)'
        BY <2>2, <3>1, <3>2, <3>4, <3>7 DEF Pair
      <4> QED BY <3>8, <3>11, <4>1, <4>2 DEF Safe
    <3>15. Session(c, f, n, B)' BY <3>10, <3>12, <3>13, <3>14 DEF Session
    <3>16. PICK mine : mine = Ours(c, f)' /\ mine = {n} BY <3>3
    <3> QED BY <3>6, <3>15, <3>16 DEF Line
  <2> QED BY <2>3, <2>4
<1> QED BY <1>13, <1>14, <1>15, <1>16 DEF Lines, JInv

LEMMA StartDownloadKeeps ==
    ASSUME IInv, IInv', JInv, NEW a \in Client, StartDownload(a) PROVE JInv'
<1>1. CASE CanStart(handling[a].file, handling[a].off) BY <1>1, StartSucceeds
<1>2. CASE ~CanStart(handling[a].file, handling[a].off)
  <2>1. handling' = [handling EXCEPT ![a] = Idle] /\ UNCHANGED managerVars BY <1>2 DEF StartDownload
  <2> QED BY <2>1, StartFails
<1> QED BY <1>1, <1>2

-------------------------------------------------------------------------------
(* Chunks and acknowledgements *)

\* What try_send_next_request makes of a session.
LEMMA RequestNext ==
    ASSUME NEW ts \in TransferSession, NEW i
    PROVE  /\ Requesting(ts).pending = ts.pending /\ Requesting(ts).received = ts.received
           /\ Requesting(ts).file = ts.file /\ Requesting(ts).downloader = ts.downloader
           /\ \/ /\ ts.next < Size /\ Requesting(ts).next = ts.next + 1
                 /\ NextRequest(i, ts) = {[file |-> ts.file, id |-> i, off |-> ts.next]}
              \/ /\ Requesting(ts).next = ts.next /\ NextRequest(i, ts) = {}
                 /\ ts.pending = {} => ts.next >= Size
<1>1. CASE CanRequest(ts)
  <2>1. Requesting(ts) = [ts EXCEPT !.next = ts.next + 1] BY <1>1 DEF Requesting
  <2> QED BY <1>1, <2>1 DEF CanRequest, NextRequest, TransferSession
<1>2. CASE ~CanRequest(ts)
  <2>1. Cardinality({}) = 0 BY FS_EmptySet
  <2>2. Requesting(ts) = ts /\ NextRequest(i, ts) = {} BY <1>2 DEF Requesting, NextRequest
  <2>3. ts.next \in Nat /\ Window \in Nat \ {0} /\ Size \in Nat
    BY TransferAssumption DEF TransferSession
  <2>4. ts.pending = {} => ts.next >= Size BY <1>2, <2>1, <2>3 DEF CanRequest
  <2> QED BY <2>2, <2>4
<1> QED BY <1>1, <1>2

\* A step that leaves a pair's queue alike and brings no news but of an uploader gone.
LEMMA PairKept ==
    ASSUME NEW c \in Client, NEW f \in File, Pair(c, f), NEW mine, mine = Ours(c, f)',
           NEW ids, Alike(toServer[c], toServer'[c], f, ids),
           handling'[c] = handling[c],
           Holds(c, f)' <=> Holds(c, f), Kept(c, f) \subseteq Kept(c, f)',
           Holds(c, f) => downloads'[c][f].paused = downloads[c][f].paused,
           In(toClient'[c], "DWNDONE", f) => In(toClient[c], "DWNDONE", f),
           DoneFirst(toClient'[c], f),
           In(toClient'[c], "DWERR", f) => Gone(f)',
           Gone(f) => Gone(f)', \A i, j \in mine : i = j
    PROVE  /\ Pair(c, f)'
           /\ Over(c, f)' => Over(c, f)
           /\ Whole(c, f) => Whole(c, f)'
           /\ Settled(c, f)' <=> Settled(c, f)
<1>1. /\ StopIn(toServer'[c], f) <=> StopIn(toServer[c], f)
      /\ Alternate(toServer'[c], f) <=> Alternate(toServer[c], f)
      /\ Fenced(toServer'[c], f) <=> Fenced(toServer[c], f)
      /\ Ended(toServer'[c], f) <=> Ended(toServer[c], f)
      /\ \A kept : Resumes(toServer'[c], f, kept) <=> Resumes(toServer[c], f, kept)
  BY DEF Alike
<1>2. Over(c, f)' => Over(c, f) BY DEF Over
<1>3. Whole(c, f) => Whole(c, f)' BY DEF Whole
<1>4. Settled(c, f)' <=> Settled(c, f) BY <1>1 DEF Settled
<1>5. Resumes(toServer'[c], f, Kept(c, f)') \/ Gone(f)'
  <2>1. Resumes(toServer[c], f, Kept(c, f)) \/ Gone(f) BY DEF Pair
  <2>2. Resumes(toServer[c], f, Kept(c, f)) => Resumes(toServer[c], f, Kept(c, f)') BY ResumesMore
  <2> QED BY <1>1, <2>1, <2>2
<1>6. handling'[c].step = "found" /\ handling'[c].file = f =>
        StopIn(toServer'[c], f) \/ Gone(f)' \/ 0..(handling'[c].off - 1) \subseteq Kept(c, f)'
  BY <1>1 DEF Pair
<1>7. /\ Alternate(toServer'[c], f)
      /\ handling'[c].file = f => Fenced(toServer'[c], f)
      /\ Over(c, f)' => Settled(c, f)'
      /\ Holds(c, f)' /\ In(toClient'[c], "DWNDONE", f) => Whole(c, f)'
  BY <1>1, <1>2, <1>3, <1>4 DEF Pair
<1> QED BY <1>2, <1>3, <1>4, <1>5, <1>6, <1>7 DEF Pair

\* Which requests under way are for a session that is not being started.
LEMMA AskedFor ==
    ASSUME JInv, ServerTypes, NEW i \in DOMAIN sessions, NEW c \in Client, NEW f \in File, i \in Ours(c, f),
           ~(handling[c].step = "started" /\ handling[c].file = f)
    PROVE  /\ \A x \in handling[c].requests : x.id # i
           /\ \A x \in requested : x.id = i => x.file = f
           /\ \A k : k \in Asks(c, i) <=> \E x \in requested : x.id = i /\ x.off = k
<1>1. ASSUME NEW x \in handling[c].requests, x.id = i PROVE FALSE
  <2>1. Lane(c) BY DEF JInv, Lanes
  <2>2. x.file = handling[c].file /\ i \in Ours(c, x.file) BY <1>1, <2>1 DEF Lane
  <2>3. handling[c].file = f BY <2>2 DEF Ours
  <2>4. handling[c].step # "idle" /\ handling[c].step # "found" BY <1>1, <2>1 DEF Lane, Idle
  <2>5. handling[c].step \in {"idle", "found", "started"} BY DEF ServerTypes, Handling
  <2> QED BY <2>3, <2>4, <2>5
<1>2. \A x \in requested : x.id = i => x.file = f BY DEF JInv, Lanes, Request, Ours
<1>3. \A k : k \in Asks(c, i) <=> \E x \in requested : x.id = i /\ x.off = k BY <1>1 DEF Asks
<1> QED BY <1>1, <1>2, <1>3

\* The counts of a session that received a chunk.
LEMMA ChunkCounts ==
    ASSUME NEW c \in Client, NEW i, NEW B \in SUBSET (0..(Size - 1)), Counts(c, i, B),
           NEW s \in TransferSession, NEW t, NEW k, NEW N, ChunkMoved(c, i, k, s, t, N)
    PROVE  /\ Counts(c, i, B)'
           /\ alive[Uploader(i)] /\ Lost(c, i, B) => Lost(c, i, B)'
<1>a. /\ s = sessions[i] /\ t = sessions'[i] /\ k \in Asks(c, i) /\ k \notin s.pending
      /\ t.pending = s.pending \cup {k} /\ t.received = s.received + 1
      /\ \/ s.next < Size /\ t.next = s.next + 1 /\ N = {s.next}
         \/ t.next = s.next /\ N = {}
      /\ Once(toClient'[c], i)
  BY DEF ChunkMoved
<1>b. PICK asks : asks = Asks(c, i)' /\ \A j : j \in asks <=> (j \in Asks(c, i) /\ j # k) \/ j \in N
  BY DEF ChunkMoved
<1>c. PICK sent, acks : /\ sent = Sent(toClient'[c], i) /\ sent = Sent(toClient[c], i) \cup {k}
                        /\ acks = Acks(toServer'[c], i) /\ acks = Acks(toServer[c], i)
  BY DEF ChunkMoved
<1> USE <1>a, <1>b, <1>c
<1> DEFINE p == Placed(c, i, B)
           r == B \cup asks \cup sent \cup acks
<1>1. /\ s.next \in Nat /\ s.next <= Size /\ s.received \in Nat /\ Size \in Nat
      /\ p \cup s.pending \subseteq 0..(s.next - 1)
      /\ B \cap s.pending = {}
      /\ s.received <= Cardinality(B) + Cardinality(s.pending)
      /\ Asks(c, i) \cap (B \cup Sent(toClient[c], i) \cup Acks(toServer[c], i)) = {}
      /\ p = B \cup Asks(c, i) \cup Sent(toClient[c], i) \cup Acks(toServer[c], i)
  BY TransferAssumption DEF Counts, TransferSession, Placed
<1>2. Placed(c, i, B)' = r BY DEF Placed
<1> HIDE DEF p
<1>3. \A j : j \in r <=> j \in p \/ j \in N BY <1>1
<1>4. N \subseteq 0..(t.next - 1) /\ s.next <= t.next /\ t.next <= Size /\ t.next \in Nat
      /\ \A j \in N : j \notin 0..(s.next - 1)
  BY <1>1
<1>5. r \cup t.pending \subseteq 0..(t.next - 1) /\ B \cap t.pending = {}
      /\ asks \cap (B \cup sent \cup acks) = {}
  <2>1. PICK old, wired, counted :
            old = Asks(c, i) /\ wired = Sent(toClient[c], i) /\ counted = Acks(toServer[c], i)
    OBVIOUS
  <2>2. /\ \A j \in p \cup s.pending : j \in 0..(s.next - 1)
        /\ \A j \in old : j \notin B /\ j \notin wired /\ j \notin counted
        /\ \A j : j \in p <=> j \in B \/ j \in old \/ j \in wired \/ j \in counted
        /\ k \in old
        /\ \A j : j \in asks <=> (j \in old /\ j # k) \/ j \in N
        /\ \A j : j \in sent <=> j \in wired \/ j = k
        /\ \A j : j \in acks <=> j \in counted
    BY <1>1, <2>1
  <2>3. 0..(s.next - 1) \subseteq 0..(t.next - 1) BY <1>1, <1>4
  <2>4. \A j \in r : j \in 0..(t.next - 1) BY <1>3, <1>4, <2>2, <2>3
  <2>5. \A j \in t.pending : j \in 0..(t.next - 1) BY <2>2, <2>3
  <2>6. ASSUME NEW j \in B, j \in t.pending PROVE FALSE BY <1>1, <2>2, <2>6
  <2>7. ASSUME NEW j \in asks PROVE j \notin B /\ j \notin sent /\ j \notin acks BY <1>4, <2>2, <2>7
  <2> QED BY <2>4, <2>5, <2>6, <2>7
<1>6. t.received <= Cardinality(B) + Cardinality(t.pending)
  <2>1. s.pending \subseteq 0..(s.next - 1) /\ s.next - 1 \in Int /\ B \subseteq 0..(Size - 1) /\ Size - 1 \in Int
    BY <1>1
  <2>2. PICK pend : pend = s.pending OBVIOUS
  <2>3. IsFiniteSet(0..(s.next - 1)) /\ IsFiniteSet(0..(Size - 1)) BY <2>1, FS_Interval
  <2>4. IsFiniteSet(pend) /\ IsFiniteSet(B)
    <3>1. pend \in SUBSET (0..(s.next - 1)) /\ B \in SUBSET (0..(Size - 1)) BY <2>1, <2>2
    <3> QED BY <2>3, <3>1, FS_Subset
  <2>5. Cardinality(pend \cup {k}) = Cardinality(pend) + 1 BY <2>2, <2>4, FS_AddElement
  <2>6. Cardinality(B) \in Nat /\ Cardinality(pend) \in Nat BY <2>4, FS_CardinalityType
  <2>7. Cardinality(t.pending) = Cardinality(s.pending) + 1 BY <2>2, <2>5
  <2> QED BY <1>1, <2>2, <2>6, <2>7
<1>7. Counts(c, i, B)' BY <1>2, <1>4, <1>5, <1>6 DEF Counts
<1>8. ASSUME alive[Uploader(i)], Lost(c, i, B) PROVE Lost(c, i, B)'
  <2>1. PICK j \in 0..(Size - 1) : j \notin p /\ j < s.next BY <1>8 DEF Lost, p
  <2>2. j \notin r /\ j < t.next BY <1>1, <1>3, <1>4, <2>1
  <2> QED BY <1>2, <2>2 DEF Lost
<1> QED BY <1>7, <1>8

\* A chunk that a session takes: handleUPCHUNK posts it, and asks for the next.
LEMMA ChunkPasses ==
    ASSUME IInv, IInv', JInv, NEW a \in Client, HandleChunk(a), NEW x \in Asked(a),
           TakesChunk(a, x.id, x.off), ReceiveChunk(x.id, x.off),
           Post(OnlyTo(sessions[x.id].downloader,
               <<[kind |-> "DWDATA", file |-> sessions[x.id].file, id |-> x.id, off |-> x.off]>>)),
           requested' = (requested \ {x}) \cup NextRequest(x.id, WithChunk(x.id, x.off))
    PROVE  /\ JInv'
           /\ alive[sessions[x.id].downloader] => \E N :
                 ChunkMoved(sessions[x.id].downloader, x.id, x.off, sessions[x.id], sessions'[x.id], N)
<1>1. /\ alive[a] /\ UNCHANGED <<alive, handling, departed, toServer, browserVars>>
      /\ ServerTypes /\ ServerTypes' /\ Manager /\ Lanes /\ Messages /\ Offers /\ Lines
  BY DEF HandleChunk, IInv, JInv
<1>2. x \in requested /\ x \in Chunk /\ requested \subseteq Chunk BY <1>1 DEF Asked, ServerTypes
<1>3. PICK i \in Nat, k \in Nat : i = x.id /\ k = x.off BY <1>2 DEF Chunk
<1>4. i \in DOMAIN sessions /\ Uploader(i) = a /\ k < Size /\ k \notin sessions[i].pending
  BY <1>3 DEF TakesChunk
<1>5. PICK s \in TransferSession : s = sessions[i] BY <1>1, <1>4, SessionFacts
<1>6. PICK d \in Client, g \in File : d = s.downloader /\ g = s.file /\ Owner[g] = a
  BY <1>4, <1>5 DEF TransferSession, Uploader
<1>7. PICK w \in TransferSession : /\ w = WithChunk(i, k) /\ w.file = g /\ w.next = s.next
                                   /\ w.pending = s.pending \cup {k} /\ w.received = s.received + 1
  <2>1. WithChunk(i, k) \in TransferSession BY <1>1, <1>4, SessionFacts
  <2>2. PICK p, n : p = s.pending \cup {k} /\ n = s.received + 1 OBVIOUS
  <2>3. WithChunk(i, k) = [s EXCEPT !.pending = p, !.received = n] BY <1>5, <2>2 DEF WithChunk
  <2>4. /\ [s EXCEPT !.pending = p, !.received = n].file = s.file
        /\ [s EXCEPT !.pending = p, !.received = n].next = s.next
        /\ [s EXCEPT !.pending = p, !.received = n].pending = p
        /\ [s EXCEPT !.pending = p, !.received = n].received = n
    BY DEF TransferSession
  <2> QED BY <1>6, <2>1, <2>2, <2>3, <2>4
<1>8. PICK t, asked2 : t = Requesting(w) /\ asked2 = NextRequest(i, w) OBVIOUS
<1>9. /\ t.pending = s.pending \cup {k} /\ t.received = s.received + 1
      /\ t.file = g /\ t.downloader = w.downloader
      /\ \/ s.next < Size /\ t.next = s.next + 1 /\ asked2 = {[file |-> g, id |-> i, off |-> s.next]}
         \/ t.next = s.next /\ asked2 = {}
  BY <1>7, <1>8, RequestNext
<1>10. /\ sessions' = [sessions EXCEPT ![i] = t]
       /\ UNCHANGED <<registrations, nextSession>>
       /\ requested' = (requested \ {x}) \cup asked2
  BY <1>3, <1>7, <1>8 DEF ReceiveChunk, fileVars
<1>11. w.downloader = d BY <1>1, <1>3, <1>4, <1>5, <1>6, <1>7, SessionFacts
<1>12. /\ DOMAIN sessions' = DOMAIN sessions /\ sessions'[i] = t
       /\ \A j \in DOMAIN sessions : /\ j # i => sessions'[j] = sessions[j]
                                     /\ sessions'[j].file = sessions[j].file
                                     /\ sessions'[j].downloader = sessions[j].downloader
  BY <1>4, <1>5, <1>6, <1>9, <1>10, <1>11
<1>13. \A c \in Client, f \in File : Ours(c, f)' = Ours(c, f) BY <1>12 DEF Ours
<1>14. UNCHANGED <<uploaded, uploadSessions, downloads>>
  BY <1>1 DEF browserVars, uploadVars, downloadVars
<1>15. PICK e \in GoodFrame : /\ e = [kind |-> "DWDATA", file |-> g, id |-> i, off |-> k]
                              /\ e.kind = "DWDATA" /\ e.file = g /\ e.id = i /\ e.off = k
  BY <1>4, FrameTypes
<1>16. Post(OnlyTo(d, <<e>>)) /\ <<e>> \in Seq(GoodFrame)
  <2>1. <<e>> \in Seq(GoodFrame) OBVIOUS
  <2> QED BY <1>3, <1>5, <1>6, <1>15, <2>1
<1>17. Issued' = Issued /\ i \in Issued BY <1>1, <1>4, <1>10, IssuedGrows
<1>18. \A y \in asked2 : y.file = g /\ y.id = i /\ y.off = s.next BY <1>9
<1>19. Messages'
  <2>1. ASSUME NEW c \in Client, NEW y \in ToSet(toClient'[c])
        PROVE  y \in ToSet(toClient[c]) \/ KnownFrame(y)'
    <3>1. ToSet(<<e>>) = {e} BY DEF ToSet
    <3>2. y \in ToSet(toClient[c]) \/ y = e BY <1>1, <1>16, <3>1, OnlyToMembers
    <3> QED BY <1>15, <1>17, <3>2 DEF KnownFrame
  <2> QED BY <1>1, <1>14, <1>17, <2>1, MessagesKept
<1>20. Lanes'
  <2>1. ASSUME NEW y \in requested' PROVE y \in requested \/ Request(y)'
    BY <1>9, <1>10, <1>12, <1>17, <1>18 DEF Request
  <2> QED BY <1>1, <1>12, <1>17, <2>1, LanesKept
<1>21. Offers' BY <1>1, <1>10, <1>12, <1>14 DEF Offers
<1>22. ASSUME NEW c \in Client, alive'[c], NEW f \in File
       PROVE  Line(c, f)' /\ (c = d /\ f = g => \E N : ChunkMoved(c, i, k, s, t, N))
  <2>1. alive[c] /\ Line(c, f) BY <1>1, <1>22 DEF Lines
  <2>2. PICK mine : mine = Ours(c, f)' /\ mine = Ours(c, f) BY <1>13
  <2>3. /\ Holds(c, f)' <=> Holds(c, f)
        /\ Kept(c, f)' = Kept(c, f)
        /\ downloads'[c][f].paused = downloads[c][f].paused
        /\ Gone(f)' <=> Gone(f)
    BY <1>1, <1>10, <1>14, Unmoved
  <2>4. /\ c = d => toClient'[c] = toClient[c] \o <<e>>
        /\ c # d => toClient'[c] = toClient[c]
    BY <1>1, <1>16, <2>1, PostedTo
  <2>5. CASE ~(c = d /\ f = g)
    <3>1. i \notin mine BY <1>5, <1>6, <2>2, <2>5 DEF Ours
    <3>2. QuietLane(c, f) BY <1>1 DEF QuietLane
    <3>3. QuietWire(c, f, mine)
      <4>1. ~AboutFrame(e, f, mine) /\ ~IsOf(e, "DWERR", f)
        BY <1>15, <3>1 DEF AboutFrame, IsOf, IsData
      <4> QED BY <2>4, <4>1 DEF QuietWire
    <3>4. /\ \A y \in requested' : y.id \in mine => y \in requested
          /\ \A j \in mine : sessions'[j] = sessions[j]
      BY <1>10, <1>12, <1>18, <2>2, <3>1 DEF Ours
    <3>5. handling'[c] = handling[c] /\ alive'[Owner[f]] = alive[Owner[f]] BY <1>1
    <3> QED BY <2>1, <2>2, <2>3, <2>5, <3>2, <3>3, <3>4, <3>5, QuietLine
  <2>6. CASE c = d /\ f = g
    <3>1. toClient[c] \in Seq(GoodFrame) /\ toClient'[c] = Append(toClient[c], e)
      <4>1. toClient[c] \in Seq(GoodFrame) BY <1>1 DEF ServerTypes
      <4> QED BY <2>4, <2>6, <4>1, OneFrame
    <3>2. /\ IsData(e, i) /\ \A kind \in {"DWSTART", "DWNDONE", "DWERR"} : ~IsOf(e, kind, f)
      BY <1>15 DEF IsData, IsOf
    <3>3. /\ \A kind \in {"DWSTART", "DWNDONE", "DWERR"} : In(toClient'[c], kind, f) <=> In(toClient[c], kind, f)
          /\ DoneFirst(toClient'[c], f) <=> DoneFirst(toClient[c], f)
      BY <3>1, <3>2, Posted
    <3>4. /\ Sent(toClient'[c], i) = Sent(toClient[c], i) \cup {k}
          /\ Once(toClient'[c], i) <=> (Once(toClient[c], i) /\ k \notin Sent(toClient[c], i))
          /\ DataLast(toClient'[c], f, i) <=> DataLast(toClient[c], f, i)
          /\ DataOf(toClient'[c], i, f) <=> DataOf(toClient[c], i, f)
      <4>1. PICK w0 \in Seq(GoodFrame) : w0 = toClient[c] /\ toClient'[c] = Append(w0, e) BY <3>1
      <4>2. /\ IsData(e, i) /\ ~IsOf(e, "DWSTART", f) /\ e.off = k /\ e.file = f
        BY <1>15, <2>6, <3>2
      <4>3. /\ Sent(Append(w0, e), i) = Sent(w0, i) \cup {e.off}
            /\ Once(Append(w0, e), i) <=> (Once(w0, i) /\ e.off \notin Sent(w0, i))
            /\ DataLast(Append(w0, e), f, i) <=> DataLast(w0, f, i)
            /\ DataOf(Append(w0, e), i, f) <=> DataOf(w0, i, f)
        <5>1. IsData(e, i) => Sent(Append(w0, e), i) = Sent(w0, i) \cup {e.off} BY PostedData
        <5>2. Once(Append(w0, e), i) <=> (Once(w0, i) /\ (IsData(e, i) => e.off \notin Sent(w0, i)))
          BY PostedData
        <5>3. DataLast(Append(w0, e), f, i) <=>
                 (DataLast(w0, f, i) /\ (IsOf(e, "DWSTART", f) => Sent(w0, i) = {}))
          BY PostedData
        <5>4. DataOf(Append(w0, e), i, f) <=> (DataOf(w0, i, f) /\ (IsData(e, i) => e.file = f))
          BY PostedData
        <5> QED BY <4>2, <5>1, <5>2, <5>3, <5>4
      <4> QED BY <4>1, <4>2, <4>3
    <3>5. toServer'[c] = toServer[c] /\ handling'[c] = handling[c] /\ Alike(toServer[c], toServer'[c], f, mine)
      BY <1>1, AlikeItself
    <3>6. Pair(c, f) BY <2>1 DEF Line
    <3>7. i \in mine /\ \A j \in mine : j = i
      <4>1. i \in mine BY <1>4, <1>5, <1>6, <2>2, <2>6 DEF Ours
      <4> QED BY <2>2, <3>6, <4>1 DEF Pair
    <3>8. /\ Pair(c, f)'
          /\ Over(c, f)' => Over(c, f)
          /\ Whole(c, f) => Whole(c, f)'
          /\ Settled(c, f)' <=> Settled(c, f)
      <4>1. /\ DoneFirst(toClient'[c], f)
            /\ In(toClient'[c], "DWERR", f) => Gone(f)'
            /\ In(toClient'[c], "DWNDONE", f) => In(toClient[c], "DWNDONE", f)
        BY <2>3, <3>3, <3>6 DEF Pair
      <4>2. /\ \A j, l \in mine : j = l
            /\ Kept(c, f) \subseteq Kept(c, f)'
            /\ Holds(c, f) => downloads'[c][f].paused = downloads[c][f].paused
            /\ Gone(f) => Gone(f)'
            /\ mine = Ours(c, f)'
            /\ handling'[c] = handling[c]
        BY <2>2, <2>3, <3>5, <3>7
      <4> QED BY <2>3, <3>5, <3>6, <4>1, <4>2, PairKept
    <3>9. PICK B \in SUBSET (0..(Size - 1)) : Session(c, f, i, B) BY <2>1, <2>2, <3>7 DEF Line
    <3>10. ~Doomed(c, i, B) /\ alive[Uploader(i)] BY <1>1, <1>4 DEF Doomed
    <3>11. ~(handling[c].step = "started" /\ handling[c].file = f)
      BY <1>2, <1>3, <3>9 DEF Session, Stage
    <3>12. /\ \A y \in handling[c].requests : y.id # i
           /\ \A y \in requested : y.id = i => y.file = f
           /\ \A j : j \in Asks(c, i) <=> \E y \in requested : y.id = i /\ y.off = j
      BY <1>1, <1>4, <2>2, <3>7, <3>11, AskedFor
    <3>13. k \in Asks(c, i) BY <1>2, <1>3, <3>12
    <3>14. PICK N : /\ \/ s.next < Size /\ t.next = s.next + 1 /\ N = {s.next}
                       \/ t.next = s.next /\ N = {}
                    /\ \A j : j \in N <=> \E y \in asked2 : y.off = j
      <4>1. CASE s.next < Size /\ t.next = s.next + 1 /\ asked2 = {[file |-> g, id |-> i, off |-> s.next]}
        <5>1. \A j : j \in {s.next} <=> \E y \in asked2 : y.off = j BY <4>1
        <5> QED BY <4>1, <5>1
      <4>2. CASE t.next = s.next /\ asked2 = {}
        <5>1. \A j : j \in {} <=> \E y \in asked2 : y.off = j BY <4>2
        <5> QED BY <4>2, <5>1
      <4> QED BY <1>9, <4>1, <4>2
    <3>15. PICK asks : /\ asks = Asks(c, i)'
                       /\ \A j : j \in asks <=> (j \in Asks(c, i) /\ j # k) \/ j \in N
      <4>1. \A j : j \in Asks(c, i)' <=> \E y \in requested' \cup handling'[c].requests : y.id = i /\ y.off = j
        BY DEF Asks
      <4>2. \A j : j \in Asks(c, i)' <=> \E y \in requested' : y.id = i /\ y.off = j
        BY <3>5, <3>12, <4>1
      <4>3. ASSUME NEW y \in requested, y.id = i PROVE y.off = k <=> y = x
        <5>1. y.file = f /\ x.file = f BY <1>2, <1>3, <3>12, <4>3
        <5>2. /\ y = [file |-> y.file, id |-> y.id, off |-> y.off]
              /\ x = [file |-> x.file, id |-> x.id, off |-> x.off]
          BY <1>2 DEF Chunk
        <5> QED BY <1>3, <4>3, <5>1, <5>2
      <4>4. ASSUME NEW j
            PROVE  (\E y \in requested' : y.id = i /\ y.off = j) <=> (j \in Asks(c, i) /\ j # k) \/ j \in N
        BY <1>10, <1>18, <3>12, <3>14, <4>3
      <4> QED BY <4>2, <4>4
    <3>16. Counts(c, i, B) /\ Stage(c, f, i, B) /\ Course(c, f, i, B) /\ Safe(c, f, i, B)
      BY <3>9 DEF Session
    <3>17. k \notin Sent(toClient[c], i) BY <3>13, <3>16 DEF Counts
    <3>18. /\ Counts(c, i, B)'
           /\ Lost(c, i, B) => Lost(c, i, B)'
           /\ ChunkMoved(c, i, k, s, t, N)
      <4>1. Once(toClient'[c], i) BY <3>4, <3>16, <3>17 DEF Counts
      <4>2. t = sessions'[i] /\ k \notin s.pending BY <1>4, <1>5, <1>12
      <4>3. ChunkMoved(c, i, k, s, t, N)
        BY <1>5, <1>6, <1>9, <1>11, <3>4, <3>5, <3>13, <3>14, <3>15, <4>1, <4>2 DEF ChunkMoved
      <4>4. /\ Counts(c, i, B)'
            /\ alive[Uploader(i)] /\ Lost(c, i, B) => Lost(c, i, B)'
        BY <3>16, <4>3, ChunkCounts
      <4> QED BY <3>10, <4>3, <4>4
    <3>19. Stage(c, f, i, B)' BY <3>3, <3>4, <3>5, <3>11, <3>16 DEF Stage
    <3>20. Course(c, f, i, B)'
      <4>1. Awaiting(c, f)' <=> Awaiting(c, f) BY <1>1, <3>3, <3>5, AwaitingIs, AwaitingNext
      <4>2. Over(c, f)' \/ (~Holds(c, f)' /\ ~Awaiting(c, f)') => StopIn(toServer'[c], f)
        BY <2>3, <3>5, <3>8, <3>10, <3>16, <4>1 DEF Course
      <4> QED BY <3>3, <3>5, <3>10, <3>16, <4>2 DEF Course
    <3>21. Safe(c, f, i, B)'
      <4>1. CASE StopIn(toServer[c], f) BY <2>3, <3>5, <3>8, <3>16, <4>1 DEF Safe
      <4>2. CASE ~StopIn(toServer[c], f) BY <2>3, <3>5, <3>16, <3>18, <4>2 DEF Safe
      <4> QED BY <4>1, <4>2
    <3>22. Session(c, f, i, B)' BY <3>18, <3>19, <3>20, <3>21 DEF Session
    <3>23. Line(c, f)' BY <2>2, <3>7, <3>8, <3>22 DEF Line
    <3> QED BY <3>18, <3>23
  <2> QED BY <2>5, <2>6
<1>23. JInv' BY <1>19, <1>20, <1>21, <1>22 DEF Lines, JInv
<1>24. alive[d] => \E N : ChunkMoved(d, i, k, s, t, N) BY <1>1, <1>22
<1> QED BY <1>3, <1>5, <1>6, <1>12, <1>23, <1>24

LEMMA HandleChunkKeeps ==
    ASSUME IInv, IInv', JInv, NEW a \in Client, HandleChunk(a) PROVE JInv'
<1>1. UNCHANGED <<alive, handling, departed, toServer, browserVars>> BY DEF HandleChunk
<1>2. PICK x \in Asked(a) :
          \/ /\ TakesChunk(a, x.id, x.off)
             /\ ReceiveChunk(x.id, x.off)
             /\ Post(OnlyTo(sessions[x.id].downloader,
                  <<[kind |-> "DWDATA", file |-> sessions[x.id].file, id |-> x.id, off |-> x.off]>>))
             /\ requested' = (requested \ {x}) \cup NextRequest(x.id, WithChunk(x.id, x.off))
          \/ /\ requested' = requested \ {x}
             /\ UNCHANGED <<managerVars, toClient>>
  BY DEF HandleChunk
<1>3. CASE requested' = requested \ {x} /\ UNCHANGED <<managerVars, toClient>>
  BY <1>1, <1>3, BrowserPasses DEF serverVars, browserVars, uploadVars, downloadVars
<1> QED BY <1>2, <1>3, ChunkPasses

\* The counts of a session that had a chunk acknowledged.
LEMMA AckCounts ==
    ASSUME NEW c \in Client, NEW i, NEW B \in SUBSET (0..(Size - 1)), Counts(c, i, B),
           NEW s \in TransferSession, NEW t, NEW k, NEW N, AckMoved(c, i, k, s, t, N),
           NEW D, D = B \cup {k}
    PROVE  /\ D \in SUBSET (0..(Size - 1))
           /\ Counts(c, i, D)'
           /\ Lost(c, i, B) => Lost(c, i, D)'
           /\ Doomed(c, i, B) => Doomed(c, i, D)'
           /\ t.next = s.next + 1 /\ ~alive[Owner[s.file]] => Doomed(c, i, D)'
<1>1. /\ s = sessions[i] /\ t = sessions'[i] /\ k \in s.pending
      /\ t.pending = s.pending \ {k} /\ t.received = s.received
      /\ UNCHANGED alive
      /\ \/ s.next < Size /\ t.next = s.next + 1 /\ N = IF alive[Owner[s.file]] THEN {s.next} ELSE {}
         \/ t.next = s.next /\ N = {}
      /\ Once(toClient[c], i) => Once(toClient'[c], i)
      /\ Uploader(i) = Owner[s.file] /\ Uploader(i)' = Owner[s.file]
  BY DEF AckMoved, Uploader
<1>2. PICK old, asks : /\ old = Asks(c, i) /\ asks = Asks(c, i)'
                       /\ \A j : j \in asks <=> j \in old \/ j \in N
  BY DEF AckMoved
<1>3. PICK sent, acks, counted :
          /\ sent = Sent(toClient'[c], i) /\ sent = Sent(toClient[c], i)
          /\ acks = Acks(toServer'[c], i) /\ counted = Acks(toServer[c], i)
          /\ counted = acks \cup {k}
  BY DEF AckMoved
<1>4. PICK p : p = Placed(c, i, B) /\ p = B \cup old \cup sent \cup counted BY <1>2, <1>3 DEF Placed
<1>5. PICK r : r = Placed(c, i, D)' /\ r = D \cup asks \cup sent \cup acks BY <1>2, <1>3 DEF Placed
<1>6. /\ s.next \in Nat /\ s.next <= Size /\ s.received \in Nat /\ Size \in Nat
      /\ p \cup s.pending \subseteq 0..(s.next - 1)
      /\ B \cap s.pending = {}
      /\ s.received <= Cardinality(B) + Cardinality(s.pending)
      /\ old \cap (B \cup sent \cup counted) = {}
      /\ Once(toClient[c], i)
  BY <1>1, <1>2, <1>3, <1>4, TransferAssumption DEF Counts, TransferSession
<1>7. \A j : j \in r <=> j \in p \/ j \in N BY <1>2, <1>3, <1>4, <1>5
<1>8. N \subseteq 0..(t.next - 1) /\ s.next <= t.next /\ t.next <= Size /\ t.next \in Nat
      /\ \A j \in N : j \notin 0..(s.next - 1)
  BY <1>1, <1>6
<1>9. 0..(s.next - 1) \subseteq 0..(t.next - 1) /\ 0..(s.next - 1) \subseteq 0..(Size - 1)
  BY <1>6, <1>8
<1>10. D \in SUBSET (0..(Size - 1)) /\ k \notin B /\ k \in 0..(s.next - 1) BY <1>1, <1>6, <1>9
<1>11. r \cup t.pending \subseteq 0..(t.next - 1) /\ D \cap t.pending = {}
  <2>1. \A j \in r : j \in 0..(t.next - 1) BY <1>6, <1>7, <1>8, <1>9
  <2>2. \A j \in t.pending : j \in 0..(t.next - 1) BY <1>1, <1>6, <1>9
  <2>3. \A j \in t.pending : j \notin D BY <1>1, <1>6
  <2> QED BY <2>1, <2>2, <2>3
<1>12. asks \cap (D \cup sent \cup acks) = {}
  <2>1. ASSUME NEW j \in asks PROVE j \notin D /\ j \notin sent /\ j \notin acks
    <3>1. CASE j \in old BY <1>3, <1>6, <3>1
    <3>2. CASE j \in N
      <4>1. j \notin p BY <1>6, <1>8, <3>2
      <4> QED BY <1>3, <1>4, <4>1
    <3> QED BY <1>2, <2>1, <3>1, <3>2
  <2> QED BY <2>1
<1>13. t.received <= Cardinality(D) + Cardinality(t.pending)
  <2>1. PICK pend, rest : pend = s.pending /\ rest = t.pending OBVIOUS
  <2>2. s.next - 1 \in Int /\ Size - 1 \in Int BY <1>6
  <2>3. IsFiniteSet(0..(s.next - 1)) /\ IsFiniteSet(0..(Size - 1)) BY <2>2, FS_Interval
  <2>4. pend \subseteq 0..(s.next - 1) BY <1>6, <2>1
  <2>5. IsFiniteSet(pend) /\ IsFiniteSet(B) BY <2>3, <2>4, FS_Subset
  <2>6. Cardinality(B \cup {k}) = Cardinality(B) + 1 BY <1>10, <2>5, FS_AddElement
  <2>7. rest = pend \ {k} /\ k \in pend BY <1>1, <2>1
  <2>8. Cardinality(pend \ {k}) = Cardinality(pend) - 1 BY <2>5, <2>7, FS_RemoveElement
  <2>9. Cardinality(B) \in Nat /\ Cardinality(pend) \in Nat BY <2>5, FS_CardinalityType
  <2>10. Cardinality(D) = Cardinality(B) + 1 /\ Cardinality(t.pending) = Cardinality(s.pending) - 1
    BY <2>1, <2>6, <2>7, <2>8
  <2> QED BY <1>1, <1>6, <2>1, <2>9, <2>10
<1>14. Counts(c, i, D)' BY <1>1, <1>2, <1>3, <1>5, <1>6, <1>8, <1>11, <1>12, <1>13 DEF Counts
<1>15. ASSUME Lost(c, i, B) PROVE Lost(c, i, D)'
  <2>1. PICK j \in 0..(Size - 1) : j \notin p /\ (j < s.next \/ ~alive[Uploader(i)])
    BY <1>1, <1>4, <1>15 DEF Lost
  <2>2. j \notin r BY <1>1, <1>6, <1>7, <2>1
  <2>3. j < t.next \/ ~alive[Uploader(i)] BY <1>6, <1>8, <2>1
  <2> QED BY <1>1, <1>5, <2>2, <2>3 DEF Lost
<1>16. Doomed(c, i, B) => Doomed(c, i, D)' BY <1>1, <1>15 DEF Doomed
<1>17. ASSUME t.next = s.next + 1, ~alive[Owner[s.file]] PROVE Doomed(c, i, D)'
  <2>1. N = {} /\ s.next < Size BY <1>1, <1>6, <1>17
  <2>2. s.next \notin r /\ s.next \in 0..(Size - 1) BY <1>6, <1>7, <2>1
  <2> QED BY <1>1, <1>5, <1>17, <2>2 DEF Lost, Doomed
<1> QED BY <1>10, <1>14, <1>15, <1>16, <1>17

\* The last acknowledgement of a session.
LEMMA AckCompletes ==
    ASSUME NEW c \in Client, NEW i, NEW B \in SUBSET (0..(Size - 1)), Counts(c, i, B),
           sessions[i] \in TransferSession,
           NEW k \in sessions[i].pending, sessions[i].pending \ {k} = {},
           sessions[i].received >= Size, k \in Acks(toServer[c], i)
    PROVE  0..(Size - 1) \subseteq B \cup {k} /\ ~Lost(c, i, B) /\ ~Doomed(c, i, B)
<1>1. PICK pend, n, m : pend = sessions[i].pending /\ n = sessions[i].received /\ m = sessions[i].next
  OBVIOUS
<1>2. /\ n \in Nat /\ m \in Nat /\ Size \in Nat /\ m <= Size
      /\ pend = {k} /\ k \in 0..(m - 1) /\ k \notin B
      /\ n <= Cardinality(B) + Cardinality(pend) /\ n >= Size
  BY <1>1, TransferAssumption DEF Counts, TransferSession
<1>3. k \in 0..(Size - 1) /\ Size - 1 \in Int BY <1>2
<1>4. IsFiniteSet(0..(Size - 1)) /\ Cardinality(0..(Size - 1)) = Size
  <2>1. IsFiniteSet(0..(Size - 1)) /\ Cardinality(0..(Size - 1)) = IF 0 > Size - 1 THEN 0 ELSE (Size - 1) - 0 + 1
    BY <1>3, FS_Interval
  <2> QED BY <1>2, <1>3, <2>1
<1>5. IsFiniteSet(B) BY <1>4, FS_Subset
<1>6. Cardinality({k}) = 1 BY FS_Singleton
<1>7. PICK D \in SUBSET (0..(Size - 1)) : D = B \cup {k} BY <1>3
<1>8. Cardinality(D) = Cardinality(B) + 1 /\ Cardinality(B) \in Nat
  BY <1>2, <1>5, <1>7, FS_AddElement, FS_CardinalityType
<1>9. Cardinality(D) <= Size
  <2>1. Cardinality(D) <= Cardinality(0..(Size - 1)) BY <1>4, <1>7, FS_Subset
  <2> QED BY <1>4, <2>1
<1>10. Cardinality(D) = Size BY <1>2, <1>6, <1>8, <1>9
<1>11. D = 0..(Size - 1) BY <1>4, <1>10, FS_Subset
<1>12. 0..(Size - 1) \subseteq Placed(c, i, B) BY <1>7, <1>11 DEF Placed
<1> QED BY <1>7, <1>11, <1>12 DEF Lost, Doomed

\* What an acknowledgement taken from the lane of a says of the session it names.
LEMMA AckTaken ==
    ASSUME IInv, IInv', JInv, NEW a \in Client, Takes(a, {"DWACK"}),
           NEW i, NEW k, i = Head(toServer[a]).id, k = Head(toServer[a]).off
    PROVE  /\ i \in Nat /\ k \in Nat /\ i \in Issued /\ alive[a] /\ handling[a] = Idle
           /\ toServer[a] \in Seq(Command) /\ toServer[a] # <<>>
           /\ toServer'[a] = Tail(toServer[a]) /\ \A c \in Client \ {a} : toServer'[c] = toServer[c]
           /\ \A c \in Client : \A m \in ToSet(toServer'[c]) : m \in ToSet(toServer[c])
           /\ \A f : ~Orders(Head(toServer[a]), f)
           /\ IsAck(Head(toServer[a]), i)
           /\ \A c \in Client, f \in File : QuietLane(c, f)
<1> DEFINE m == Head(toServer[a])
<1>1. /\ \A c \in Client : \A x \in ToSet(toServer'[c]) : x \in ToSet(toServer[c])
      /\ toServer'[a] = Tail(toServer[a]) /\ \A c \in Client \ {a} : toServer'[c] = toServer[c]
      /\ toServer[a] \in Seq(Command) /\ toServer[a] # <<>>
      /\ m \in ToSet(toServer[a]) /\ m \in Command /\ m.kind = "DWACK"
      /\ handling[a].step = "idle" /\ alive[a]
  BY TakesMembers DEF IInv
<1>2. i \in Nat /\ k \in Nat BY <1>1, CommandTypes
<1>3. i \in Issued BY <1>1 DEF JInv, Messages, Known
<1>4. handling[a] = Idle BY <1>1 DEF JInv, Lanes, Lane
<1>5. \A f : ~Orders(m, f) BY <1>1 DEF Orders, IsStart, IsStop
<1>6. IsAck(m, i) BY <1>1 DEF IsAck
<1>7. ASSUME NEW c \in Client, NEW f \in File PROVE QuietLane(c, f) BY <1>1, <1>5 DEF QuietLane
<1> QED BY <1>1, <1>2, <1>3, <1>4, <1>5, <1>6, <1>7

\* An acknowledgement that no session takes.
LEMMA AckIgnored ==
    ASSUME IInv, IInv', JInv, NEW a \in Client, Takes(a, {"DWACK"}),
           UNCHANGED <<managerVars, toClient, requested, alive, handling, departed, browserVars>>
    PROVE  JInv'
<1>1. /\ ServerTypes /\ ServerTypes' /\ Manager /\ Lanes /\ Messages /\ Offers /\ Lines
  BY DEF IInv, JInv
<1>2. UNCHANGED <<registrations, sessions, nextSession, uploaded, uploadSessions, downloads>>
  BY DEF managerVars, fileVars, sessionVars, browserVars, uploadVars, downloadVars
<1>3. /\ \A c \in Client, f \in File : QuietLane(c, f)
      /\ \A c \in Client : \A m \in ToSet(toServer'[c]) : m \in ToSet(toServer[c])
  BY AckTaken
<1>4. Issued' = Issued BY <1>1, <1>2, IssuedGrows
<1>5. Messages' BY <1>1, <1>2, <1>3, <1>4, MessagesKept
<1>6. Lanes' BY <1>1, <1>2, <1>4, LanesKept
<1>7. Offers' BY <1>1, <1>2 DEF Offers
<1>8. ASSUME NEW c \in Client, alive'[c], NEW f \in File PROVE Line(c, f)'
  <2>1. QuietWire(c, f, Ours(c, f)) BY DEF QuietWire
  <2> QED BY <1>1, <1>2, <1>3, <1>8, <2>1, PassingBy
<1> QED BY <1>5, <1>6, <1>7, <1>8 DEF Lines, JInv

\* An acknowledgement that leaves its session going.
LEMMA AckMoves ==
    ASSUME IInv, IInv', JInv, NEW a \in Client, NEW i, NEW k, NEW t, NEW asked2, GoesOn(a, i, k, t, asked2)
    PROVE  JInv' /\ \E N : AckMoved(a, i, k, sessions[i], t, N)
<1>1. /\ UNCHANGED <<alive, handling, departed, browserVars>>
      /\ ServerTypes /\ ServerTypes' /\ Manager /\ Lanes /\ Messages /\ Offers /\ Lines
      /\ Takes(a, {"DWACK"}) /\ i = Head(toServer[a]).id /\ k = Head(toServer[a]).off
      /\ TakesAck(a, i, k)
      /\ sessions' = [sessions EXCEPT ![i] = t] /\ UNCHANGED <<registrations, nextSession>>
  BY Zenon DEF GoesOn, IInv, JInv
<1>2. /\ i \in Nat /\ k \in Nat /\ i \in Issued /\ alive[a] /\ handling[a] = Idle
      /\ toServer[a] \in Seq(Command) /\ toServer[a] # <<>>
      /\ toServer'[a] = Tail(toServer[a])
      /\ \A c \in Client : \A m \in ToSet(toServer'[c]) : m \in ToSet(toServer[c])
      /\ \A f : ~Orders(Head(toServer[a]), f)
      /\ IsAck(Head(toServer[a]), i)
      /\ \A c \in Client, f \in File : QuietLane(c, f)
      /\ k = Head(toServer[a]).off
  BY <1>1, AckTaken
<1>3. i \in DOMAIN sessions /\ sessions[i].downloader = a /\ k \in sessions[i].pending
  BY <1>1 DEF TakesAck
<1>4. PICK s \in TransferSession : s = sessions[i] BY <1>1, <1>3, SessionFacts
<1>5. PICK g \in File : g = s.file BY <1>4 DEF TransferSession
<1>6. PICK w \in TransferSession : /\ w = WithAck(i, k) /\ w.file = g /\ w.next = s.next
                                   /\ w.pending = s.pending \ {k} /\ w.received = s.received
                                   /\ w.downloader = a
  <2>1. WithAck(i, k) \in TransferSession /\ WithAck(i, k).downloader = a
    BY <1>1, <1>2, <1>3, SessionFacts
  <2>2. PICK p : p = s.pending \ {k} OBVIOUS
  <2>3. WithAck(i, k) = [s EXCEPT !.pending = p] BY <1>4, <2>2 DEF WithAck
  <2>4. /\ [s EXCEPT !.pending = p].file = s.file /\ [s EXCEPT !.pending = p].next = s.next
        /\ [s EXCEPT !.pending = p].pending = p /\ [s EXCEPT !.pending = p].received = s.received
    BY DEF TransferSession
  <2> QED BY <1>5, <2>1, <2>2, <2>3, <2>4
<1>7. /\ t.pending = s.pending \ {k} /\ t.received = s.received
      /\ t.file = g /\ t.downloader = a
      /\ \/ s.next < Size /\ t.next = s.next + 1 /\ asked2 = {[file |-> g, id |-> i, off |-> s.next]}
         \/ t.next = s.next /\ asked2 = {}
      /\ t.next = s.next /\ t.pending = {} => s.next >= Size
  <2>1. t = Requesting(w) /\ asked2 = NextRequest(i, w) BY <1>6, Zenon DEF GoesOn
  <2>2. t.next = s.next => t.next # s.next + 1 BY DEF TransferSession
  <2> QED BY <1>6, <2>1, <2>2, RequestNext
<1>8. /\ DOMAIN sessions' = DOMAIN sessions /\ sessions'[i] = t
      /\ \A j \in DOMAIN sessions : /\ j # i => sessions'[j] = sessions[j]
                                    /\ sessions'[j].file = sessions[j].file
                                    /\ sessions'[j].downloader = sessions[j].downloader
  BY <1>1, <1>3, <1>4, <1>5, <1>7
<1>9. \A c \in Client, f \in File : Ours(c, f)' = Ours(c, f) BY <1>8 DEF Ours
<1>10. UNCHANGED <<uploaded, uploadSessions, downloads>>
  BY <1>1 DEF browserVars, uploadVars, downloadVars
<1>11. PICK e \in GoodFrame : e = [kind |-> "DWERR", file |-> g] /\ e.kind = "DWERR" /\ e.file = g
  BY FrameTypes, ZenonT(30)
<1>12. \/ /\ t.next = s.next + 1 /\ ~alive[Owner[g]] /\ Post(OnlyTo(a, <<e>>)) /\ requested' = requested
       \/ /\ t.next = s.next + 1 /\ alive[Owner[g]] /\ Post(OnlyTo(a, <<>>))
          /\ requested' = requested \cup asked2
       \/ t.next = s.next /\ Post(OnlyTo(a, <<>>)) /\ requested' = requested
  <2>1. requested' = requested \cup {x \in asked2 : alive[Owner[x.file]]}
    BY ZenonT(30) DEF PostRequests, GoesOn
  <2>2. Post(OnlyTo(a, IF asked2 # {} /\ ~alive[Owner[g]] THEN <<e>> ELSE <<>>))
    BY <1>4, <1>5, <1>11, Zenon DEF GoesOn
  <2>3. \A x \in asked2 : x.file = g BY <1>7
  <2>4. alive[Owner[g]] => requested' = requested \cup asked2 BY <2>1, <2>3
  <2>5. ~alive[Owner[g]] \/ asked2 = {} => requested' = requested BY <2>1, <2>3
  <2>6. s.next \in Nat /\ (t.next = s.next => t.next # s.next + 1) BY DEF TransferSession
  <2> QED BY <1>7, <2>2, <2>4, <2>5, <2>6, ZenonT(30)
<1>13. /\ <<e>> \in Seq(GoodFrame) /\ <<>> \in Seq(GoodFrame)
       /\ ToSet(<<e>>) = {e}
  <2>1. ToSet(<<e>>) = {e} BY DEF ToSet
  <2> QED BY <2>1
<1>14. Issued' = Issued BY <1>1, IssuedGrows
<1>15. \A y \in asked2 : y.file = g /\ y.id = i /\ y.off = s.next BY <1>7
<1>16. \A y \in requested' : y \in requested \/ y \in asked2 BY <1>12
<1>17. Messages'
  <2>1. \A c \in Client : \A y \in ToSet(toClient'[c]) : y \in ToSet(toClient[c]) \/ y = e
    <3>1. CASE Post(OnlyTo(a, <<e>>)) BY <1>1, <1>13, <3>1, OnlyToMembers
    <3>2. CASE Post(OnlyTo(a, <<>>))
      <4>1. ToSet(<<>>) = {} BY DEF ToSet
      <4> QED BY <1>1, <1>13, <3>2, <4>1, OnlyToMembers
    <3> QED BY <1>12, <3>1, <3>2
  <2>2. KnownFrame(e)' BY <1>11 DEF KnownFrame
  <2> QED BY <1>1, <1>2, <1>10, <1>14, <2>1, <2>2, MessagesKept
<1>18. Lanes'
  <2>1. ASSUME NEW y \in requested' PROVE y \in requested \/ Request(y)'
    BY <1>2, <1>7, <1>8, <1>14, <1>15, <1>16 DEF Request
  <2> QED BY <1>1, <1>8, <1>14, <2>1, LanesKept
<1>19. Offers' BY <1>1, <1>8, <1>10 DEF Offers
<1>20. ASSUME NEW c \in Client, alive'[c], NEW f \in File
       PROVE  Line(c, f)' /\ (c = a /\ f = g => \E N : AckMoved(c, i, k, s, t, N))
  <2>1. alive[c] /\ Line(c, f) /\ toClient[c] \in Seq(GoodFrame)
    BY <1>1, <1>20 DEF Lines, ServerTypes
  <2>2. PICK mine : mine = Ours(c, f)' /\ mine = Ours(c, f) BY <1>9
  <2>3. /\ Holds(c, f)' <=> Holds(c, f)
        /\ Kept(c, f)' = Kept(c, f)
        /\ downloads'[c][f].paused = downloads[c][f].paused
        /\ Gone(f)' <=> Gone(f)
    BY <1>1, <1>10, Unmoved
  <2>4. \/ toClient'[c] = toClient[c]
        \/ /\ c = a /\ toClient'[c] = toClient[c] \o <<e>>
           /\ t.next = s.next + 1 /\ ~alive[Owner[g]]
    <3>1. CASE t.next = s.next + 1 /\ ~alive[Owner[g]] /\ Post(OnlyTo(a, <<e>>))
      <4>1. /\ c = a => toClient'[c] = toClient[c] \o <<e>>
            /\ c # a => toClient'[c] = toClient[c]
        BY <1>1, <1>13, <2>1, <3>1, PostedTo
      <4> QED BY <3>1, <4>1
    <3>2. CASE Post(OnlyTo(a, <<>>))
      <4>1. toClient'[c] = toClient[c] \o <<>> \/ toClient'[c] = toClient[c]
        BY <1>1, <1>13, <2>1, <3>2, PostedTo
      <4> QED BY <2>1, <4>1, ConcatEmptySeq
    <3> QED BY <1>12, <3>1, <3>2
  <2>5. CASE ~(c = a /\ f = g)
    <3>1. i \notin mine BY <1>3, <1>4, <1>5, <2>2, <2>5 DEF Ours
    <3>2. QuietLane(c, f) BY <1>2
    <3>3. QuietWire(c, f, mine)
      <4>1. c = a => ~AboutFrame(e, f, mine) /\ ~IsOf(e, "DWERR", f)
        BY <1>11, <2>5 DEF AboutFrame, IsOf, IsData
      <4> QED BY <2>4, <4>1 DEF QuietWire
    <3>4. /\ \A y \in requested' : y.id \in mine => y \in requested
          /\ \A j \in mine : sessions'[j] = sessions[j]
      BY <1>8, <1>15, <1>16, <2>2, <3>1 DEF Ours
    <3>5. handling'[c] = handling[c] /\ alive'[Owner[f]] = alive[Owner[f]] BY <1>1
    <3> QED BY <2>1, <2>2, <2>3, <2>5, <3>2, <3>3, <3>4, <3>5, QuietLine
  <2>6. CASE c = a /\ f = g
    <3> DEFINE q == toServer[c]
    <3>1. /\ q \in Seq(Command) /\ q # <<>> /\ toServer'[c] = Tail(q) /\ ~Orders(Head(q), f)
          /\ IsAck(Head(q), i) /\ Head(q).off = k
      BY <1>2, <2>6
    <3> HIDE DEF q
    <3>2. Alike(q, toServer'[c], f, mine) BY <3>1, AlikeHandled
    <3>3. /\ StopIn(toServer'[c], f) <=> StopIn(toServer[c], f)
          /\ StartIn(toServer'[c], f) <=> StartIn(toServer[c], f)
          /\ Fenced(toServer'[c], f) <=> Fenced(toServer[c], f)
      BY <3>2 DEF Alike, q
    <3>4. /\ Acks(toServer[c], i) = Acks(toServer'[c], i) \cup {k}
          /\ InTime(toServer[c], f, i) = InTime(toServer'[c], f, i) \cup {k}
      <4>1. /\ Acks(q, i) = Acks(Tail(q), i) \cup {Head(q).off}
            /\ InTime(q, f, i) = InTime(Tail(q), f, i) \cup {Head(q).off}
        BY <3>1, HandledAcks
      <4> QED BY <3>1, <4>1 DEF q
    <3>5. /\ \A kind \in {"DWSTART", "DWNDONE"} : In(toClient'[c], kind, f) <=> In(toClient[c], kind, f)
          /\ In(toClient'[c], "DWERR", f) =>
                In(toClient[c], "DWERR", f) \/ (t.next = s.next + 1 /\ ~alive[Owner[g]])
          /\ DoneFirst(toClient'[c], f) <=> DoneFirst(toClient[c], f)
          /\ Sent(toClient'[c], i) = Sent(toClient[c], i)
          /\ Once(toClient'[c], i) <=> Once(toClient[c], i)
          /\ DataLast(toClient'[c], f, i) <=> DataLast(toClient[c], f, i)
          /\ DataOf(toClient'[c], i, f) <=> DataOf(toClient[c], i, f)
      <4>1. CASE toClient'[c] = toClient[c] BY <4>1
      <4>2. CASE /\ toClient'[c] = toClient[c] \o <<e>>
                 /\ t.next = s.next + 1 /\ ~alive[Owner[g]]
        <5>1. PICK v \in Seq(GoodFrame) : v = toClient[c] /\ toClient'[c] = Append(v, e)
          BY <2>1, <4>2, OneFrame
        <5>2. e.kind = "DWERR" /\ e.file = f /\ e.kind # "DWSTART" BY <1>11, <2>6
        <5>3. /\ In(Append(v, e), "DWSTART", f) <=> In(v, "DWSTART", f)
              /\ In(Append(v, e), "DWNDONE", f) <=> In(v, "DWNDONE", f)
              /\ DoneFirst(Append(v, e), f) <=> DoneFirst(v, f)
              /\ Sent(Append(v, e), i) = Sent(v, i)
              /\ Once(Append(v, e), i) <=> Once(v, i)
              /\ DataLast(Append(v, e), f, i) <=> DataLast(v, f, i)
              /\ DataOf(Append(v, e), i, f) <=> DataOf(v, i, f)
          BY <5>2, AnswerFrame, Zenon
        <5> QED BY <4>2, <5>1, <5>3
      <4> QED BY <2>4, <4>1, <4>2
    <3>6. Pair(c, f) /\ handling'[c] = handling[c] BY <1>1, <2>1 DEF Line
    <3>7. i \in mine /\ \A j \in mine : j = i
      <4>1. i \in mine BY <1>3, <1>4, <1>5, <2>2, <2>6 DEF Ours
      <4> QED BY <2>2, <3>6, <4>1 DEF Pair
    <3>8. /\ Pair(c, f)'
          /\ Over(c, f)' => Over(c, f)
          /\ Whole(c, f) => Whole(c, f)'
          /\ Settled(c, f)' <=> Settled(c, f)
      <4>1. In(toClient'[c], "DWERR", f) => Gone(f)' BY <2>3, <2>6, <3>5, <3>6 DEF Pair, Gone
      <4>2. /\ \A j, l \in mine : j = l
            /\ Kept(c, f) \subseteq Kept(c, f)'
            /\ Holds(c, f) => downloads'[c][f].paused = downloads[c][f].paused
            /\ Gone(f) => Gone(f)'
            /\ mine = Ours(c, f)'
            /\ Alike(toServer[c], toServer'[c], f, mine)
            /\ DoneFirst(toClient'[c], f)
            /\ In(toClient'[c], "DWNDONE", f) => In(toClient[c], "DWNDONE", f)
        BY <2>2, <2>3, <3>2, <3>5, <3>6, <3>7 DEF Pair, q
      <4> QED BY <2>3, <3>6, <4>1, <4>2, PairKept
    <3>9. PICK B \in SUBSET (0..(Size - 1)) : Session(c, f, i, B) BY <2>1, <2>2, <3>7 DEF Line
    <3>10. Counts(c, i, B) /\ Stage(c, f, i, B) /\ Course(c, f, i, B) /\ Safe(c, f, i, B)
      BY <3>9 DEF Session
    <3>11. k \in Acks(toServer[c], i) BY <3>4
    <3>12. /\ ~(handling[c].step = "started" /\ handling[c].file = f)
           /\ ~In(toClient[c], "DWSTART", f)
      BY <3>10, <3>11 DEF Stage
    <3>13. /\ \A y \in handling[c].requests : y.id # i
           /\ \A j : j \in Asks(c, i) <=> \E y \in requested : y.id = i /\ y.off = j
      BY <1>1, <1>3, <2>2, <3>7, <3>12, AskedFor
    <3>14. PICK N : /\ \/ s.next < Size /\ t.next = s.next + 1 /\ N = IF alive[Owner[s.file]] THEN {s.next} ELSE {}
                       \/ t.next = s.next /\ N = {}
                    /\ \A j : j \in Asks(c, i)' <=> j \in Asks(c, i) \/ j \in N
      <4>1. \A j : j \in Asks(c, i)' <=> \E y \in requested' \cup handling'[c].requests : y.id = i /\ y.off = j
        BY DEF Asks
      <4>2. \A j : j \in Asks(c, i)' <=> \E y \in requested' : y.id = i /\ y.off = j
        BY <3>6, <3>13, <4>1
      <4>3. s.next \in Nat BY DEF TransferSession
      <4>4. CASE t.next = s.next + 1 /\ alive[Owner[g]] /\ requested' = requested \cup asked2
        <5>1. s.next < Size /\ asked2 = {[file |-> g, id |-> i, off |-> s.next]} BY <1>7, <4>3, <4>4
        <5>2. PICK y \in asked2 : y.id = i /\ y.off = s.next /\ \A x \in asked2 : x = y BY <5>1
        <5>3. ASSUME NEW j
              PROVE  (\E x \in requested' : x.id = i /\ x.off = j) <=>
                        (\E x \in requested : x.id = i /\ x.off = j) \/ j = s.next
          <6>1. requested' = requested \cup asked2 BY <4>4
          <6> HIDE <5>1
          <6> QED BY <5>2, <6>1
        <5>4. \A j : j \in Asks(c, i)' <=> j \in Asks(c, i) \/ j \in {s.next} BY <3>13, <4>2, <5>3
        <5>5. PICK M : M = {s.next} /\ M = IF alive[Owner[s.file]] THEN {s.next} ELSE {}
          BY <1>5, <4>4
        <5>6. \A j : j \in Asks(c, i)' <=> j \in Asks(c, i) \/ j \in M BY <5>4, <5>5
        <5>7. s.next < Size /\ t.next = s.next + 1 BY <4>4, <5>1
        <5> QED BY <5>5, <5>6, <5>7
      <4>5. CASE t.next = s.next + 1 /\ ~alive[Owner[g]] /\ requested' = requested
        <5>1. s.next < Size BY <1>7, <4>3, <4>5
        <5>2. \A j : j \in Asks(c, i)' <=> j \in Asks(c, i) \/ j \in {} BY <3>13, <4>2, <4>5
        <5>3. PICK M : M = {} /\ M = IF alive[Owner[s.file]] THEN {s.next} ELSE {} BY <1>5, <4>5
        <5>4. \A j : j \in Asks(c, i)' <=> j \in Asks(c, i) \/ j \in M BY <5>2, <5>3
        <5>5. s.next < Size /\ t.next = s.next + 1 BY <4>5, <5>1
        <5> HIDE <4>5
        <5> QED BY <5>3, <5>4, <5>5, Zenon
      <4>6. CASE t.next = s.next /\ requested' = requested
        <5>1. \A j : j \in Asks(c, i)' <=> j \in Asks(c, i) \/ j \in {} BY <3>13, <4>2, <4>6
        <5>2. PICK M : M = {} BY Zenon
        <5>3. \A j : j \in Asks(c, i)' <=> j \in Asks(c, i) \/ j \in M BY <5>1, <5>2
        <5> QED BY <4>6, <5>2, <5>3, Zenon
      <4> QED BY <1>12, <4>4, <4>5, <4>6
    <3>15. AckMoved(c, i, k, s, t, N)
      BY <1>1, <1>3, <1>4, <1>5, <1>7, <1>8, <3>4, <3>5, <3>14, Zenon DEF AckMoved
    <3>16. PICK D : D = B \cup {k} OBVIOUS
    <3>17. /\ D \in SUBSET (0..(Size - 1))
           /\ Counts(c, i, D)'
           /\ Lost(c, i, B) => Lost(c, i, D)'
           /\ Doomed(c, i, B) => Doomed(c, i, D)'
           /\ t.next = s.next + 1 /\ ~alive[Owner[s.file]] => Doomed(c, i, D)'
      BY <3>10, <3>15, <3>16, AckCounts
    <3>18. Stage(c, f, i, D)' BY <3>5, <3>6, <3>10, <3>12 DEF Stage
    <3>19. Course(c, f, i, D)'
      <4>1. Awaiting(c, f)' <=> Awaiting(c, f) BY <1>1, <3>3, <3>5, <3>6, AwaitingIs, AwaitingNext
      <4>2. Over(c, f)' \/ (~Holds(c, f)' /\ ~Awaiting(c, f)') => StopIn(toServer'[c], f) \/ Doomed(c, i, D)'
        BY <2>3, <3>3, <3>8, <3>10, <3>17, <4>1 DEF Course
      <4>3. In(toClient'[c], "DWERR", f) => Doomed(c, i, D)' BY <1>5, <3>5, <3>10, <3>17 DEF Course
      <4> QED BY <3>3, <3>6, <3>10, <3>17, <4>2, <4>3 DEF Course
    <3>20. Safe(c, f, i, D)'
      <4>1. CASE StopIn(toServer[c], f)
        <5>1. D \cup InTime(toServer'[c], f, i) = B \cup InTime(toServer[c], f, i) BY <3>4, <3>16
        <5> QED BY <2>3, <3>3, <3>8, <3>10, <4>1, <5>1 DEF Safe
      <4>2. CASE ~StopIn(toServer[c], f)
        <5>1. D \cup Acks(toServer'[c], i) = B \cup Acks(toServer[c], i) BY <3>4, <3>16
        <5> QED BY <2>3, <3>3, <3>10, <3>17, <4>2, <5>1 DEF Safe
      <4> QED BY <4>1, <4>2
    <3>21. Session(c, f, i, D)' BY <3>17, <3>18, <3>19, <3>20 DEF Session
    <3>22. Line(c, f)' BY <2>2, <3>7, <3>8, <3>17, <3>21 DEF Line
    <3> QED BY <3>15, <3>22
  <2> QED BY <2>5, <2>6
<1>21. JInv' BY <1>17, <1>18, <1>19, <1>20 DEF Lines, JInv
<1>22. \E N : AckMoved(a, i, k, s, t, N) BY <1>1, <1>2, <1>20
<1> QED BY <1>4, <1>21, <1>22

\* The acknowledgement that completes a session: every chunk is kept, so DWNDONE finds the
\* file whole in a browser that still holds it.
LEMMA AckEnds ==
    ASSUME IInv, IInv', JInv, NEW a \in Client, NEW i, NEW k, Completes(a, i, k)
    PROVE  JInv'
<1>1. /\ UNCHANGED <<alive, handling, departed, requested, browserVars>>
      /\ ServerTypes /\ ServerTypes' /\ Manager /\ Lanes /\ Messages /\ Offers /\ Lines
      /\ Takes(a, {"DWACK"}) /\ i = Head(toServer[a]).id /\ k = Head(toServer[a]).off
      /\ TakesAck(a, i, k) /\ IsComplete(WithAck(i, k))
      /\ UNCHANGED <<registrations, nextSession>>
  BY DEF Completes, IInv, JInv
<1>2. /\ i \in Nat /\ k \in Nat /\ i \in Issued /\ alive[a] /\ handling[a] = Idle
      /\ toServer[a] \in Seq(Command) /\ toServer[a] # <<>>
      /\ toServer'[a] = Tail(toServer[a])
      /\ \A c \in Client : \A m \in ToSet(toServer'[c]) : m \in ToSet(toServer[c])
      /\ \A f : ~Orders(Head(toServer[a]), f)
      /\ IsAck(Head(toServer[a]), i)
      /\ \A c \in Client, f \in File : QuietLane(c, f)
      /\ k = Head(toServer[a]).off
  BY <1>1, AckTaken
<1>3. i \in DOMAIN sessions /\ sessions[i].downloader = a /\ k \in sessions[i].pending
  BY <1>1 DEF TakesAck
<1>4. PICK s \in TransferSession : s = sessions[i] BY <1>1, <1>3, SessionFacts
<1>5. PICK g \in File : g = s.file BY <1>4 DEF TransferSession
<1>6. s.pending \ {k} = {} /\ s.received >= Size
  <2>1. PICK p : p = s.pending \ {k} OBVIOUS
  <2>2. WithAck(i, k) = [s EXCEPT !.pending = p] BY <1>4, <2>1 DEF WithAck
  <2>3. [s EXCEPT !.pending = p].pending = p /\ [s EXCEPT !.pending = p].received = s.received
    BY DEF TransferSession
  <2> QED BY <1>1, <2>1, <2>2, <2>3 DEF IsComplete
<1>7. PICK ids : ids = {i} /\ sessions' = [j \in DOMAIN sessions \ ids |-> sessions[j]]
  BY DEF Completes
<1>8. UNCHANGED <<uploaded, uploadSessions, downloads>>
  BY <1>1 DEF browserVars, uploadVars, downloadVars
<1>9. PICK e \in GoodFrame : e = [kind |-> "DWNDONE", file |-> g] /\ e.kind = "DWNDONE" /\ e.file = g
  BY FrameTypes
<1>10. Post(OnlyTo(a, <<e>>)) BY <1>4, <1>5, <1>9 DEF Completes
<1>11. <<e>> \in Seq(GoodFrame) /\ ToSet(<<e>>) = {e}
  <2>1. ToSet(<<e>>) = {e} BY DEF ToSet
  <2> QED BY <2>1
<1>12. Issued' = Issued BY <1>1, IssuedGrows
<1>13. Messages'
  <2>1. \A c \in Client : \A y \in ToSet(toClient'[c]) : y \in ToSet(toClient[c]) \/ y = e
    BY <1>1, <1>10, <1>11, OnlyToMembers
  <2>2. KnownFrame(e)' BY <1>9 DEF KnownFrame
  <2> QED BY <1>1, <1>2, <1>8, <1>12, <2>1, <2>2, MessagesKept
<1>14. Lanes' /\ Offers' BY <1>1, <1>7, <1>8, LanesFewer, OffersFewer
<1>15. ASSUME NEW c \in Client, alive'[c], NEW f \in File PROVE Line(c, f)'
  <2>1. alive[c] /\ Line(c, f) /\ toClient[c] \in Seq(GoodFrame)
    BY <1>1, <1>15 DEF Lines, ServerTypes
  <2>2. PICK mine : /\ mine = Ours(c, f)' /\ mine = Ours(c, f) \ ids
                    /\ \A j \in mine : sessions'[j] = sessions[j]
    <3>1. /\ Ours(c, f)' = Ours(c, f) \ ids
          /\ \A j \in Ours(c, f)' : sessions'[j] = sessions[j]
      <4>1. Manager /\ sessions' = [j \in DOMAIN sessions \ ids |-> sessions[j]] BY <1>1, <1>7
      <4> QED BY <4>1, OursRemoved
    <3> QED BY <3>1, Zenon
  <2>3. /\ Holds(c, f)' <=> Holds(c, f)
        /\ Kept(c, f)' = Kept(c, f)
        /\ downloads'[c][f].paused = downloads[c][f].paused
        /\ Gone(f)' <=> Gone(f)
    BY <1>1, <1>8, Unmoved
  <2>4. /\ c = a => toClient'[c] = toClient[c] \o <<e>>
        /\ c # a => toClient'[c] = toClient[c]
    BY <1>1, <1>10, <1>11, <2>1, PostedTo
  <2>5. CASE ~(c = a /\ f = g)
    <3>1. QuietLane(c, f) BY <1>2
    <3>2. QuietWire(c, f, mine)
      <4>1. c = a => ~AboutFrame(e, f, mine) /\ ~IsOf(e, "DWERR", f)
        BY <1>9, <2>5 DEF AboutFrame, IsOf, IsData
      <4> QED BY <2>4, <4>1 DEF QuietWire
    <3>3. /\ \A y \in requested' : y.id \in mine => y \in requested
          /\ handling'[c] = handling[c] /\ alive'[Owner[f]] = alive[Owner[f]]
          /\ mine \subseteq Ours(c, f)
      BY <1>1, <2>2
    <3> QED BY <2>1, <2>2, <2>3, <3>1, <3>2, <3>3, QuietLine
  <2>6. CASE c = a /\ f = g
    <3> DEFINE q == toServer[c]
    <3>1. /\ q \in Seq(Command) /\ q # <<>> /\ toServer'[c] = Tail(q) /\ ~Orders(Head(q), f)
          /\ IsAck(Head(q), i) /\ Head(q).off = k
      BY <1>2, <2>6
    <3> HIDE DEF q
    <3>2. Alike(q, toServer'[c], f, mine) BY <3>1, AlikeHandled
    <3>3. /\ StopIn(toServer'[c], f) <=> StopIn(toServer[c], f)
          /\ Alternate(toServer'[c], f) <=> Alternate(toServer[c], f)
          /\ Fenced(toServer'[c], f) <=> Fenced(toServer[c], f)
          /\ Ended(toServer'[c], f) <=> Ended(toServer[c], f)
          /\ \A kept : Resumes(toServer'[c], f, kept) <=> Resumes(toServer[c], f, kept)
      BY <3>2 DEF Alike, q
    <3>4. k \in Acks(toServer[c], i) /\ k \in InTime(toServer[c], f, i)
      <4>1. /\ Acks(q, i) = Acks(Tail(q), i) \cup {Head(q).off}
            /\ InTime(q, f, i) = InTime(Tail(q), f, i) \cup {Head(q).off}
        BY <3>1, HandledAcks
      <4> QED BY <3>1, <4>1 DEF q
    <3>5. Pair(c, f) /\ handling'[c] = handling[c] /\ handling[c] = Idle /\ handling[c].file # f
      BY <1>1, <1>2, <2>1, <2>6, FileFacts DEF Line
    <3>6. i \in Ours(c, f) /\ mine = {}
      <4>1. i \in Ours(c, f) BY <1>3, <1>4, <1>5, <2>6 DEF Ours
      <4> QED BY <1>7, <2>2, <3>5, <4>1 DEF Pair
    <3>7. PICK B \in SUBSET (0..(Size - 1)) : Session(c, f, i, B) BY <2>1, <3>6 DEF Line
    <3>8. Counts(c, i, B) /\ Stage(c, f, i, B) /\ Course(c, f, i, B) /\ Safe(c, f, i, B)
      BY <3>7 DEF Session
    <3>9. 0..(Size - 1) \subseteq B \cup {k} /\ ~Lost(c, i, B) /\ ~Doomed(c, i, B)
      BY <1>3, <1>4, <1>6, <3>4, <3>8, AckCompletes
    <3>10. ~In(toClient[c], "DWSTART", f) BY <3>4, <3>8 DEF Stage
    <3>11. Holds(c, f) => Whole(c, f) /\ Settled(c, f)
      <4>1. CASE StopIn(toServer[c], f)
        <5>1. 0..(Size - 1) \subseteq B \cup InTime(toServer[c], f, i) BY <3>4, <3>9
        <5> QED BY <3>8, <4>1, <5>1 DEF Safe
      <4>2. CASE ~StopIn(toServer[c], f)
        <5>1. B \cup Acks(toServer[c], i) \subseteq Kept(c, f) BY <3>8, <3>9, <4>2 DEF Safe
        <5>2. Whole(c, f) BY <3>4, <3>9, <5>1 DEF Whole
        <5>3. Fenced(toServer[c], f) BY <3>8, <3>9 DEF Course
        <5>4. Ended(toServer[c], f) BY <4>2, <5>3, Unopened
        <5> QED BY <3>5, <5>2, <5>4 DEF Settled
      <4> QED BY <4>1, <4>2
    <3>12. PICK v \in Seq(GoodFrame) : v = toClient[c] /\ toClient'[c] = Append(v, e)
      BY <2>1, <2>4, <2>6, OneFrame
    <3>13. /\ In(toClient'[c], "DWERR", f) => In(toClient[c], "DWERR", f)
           /\ DoneFirst(toClient'[c], f) <=> DoneFirst(toClient[c], f)
      <4>1. ~IsOf(e, "DWERR", f) /\ ~In(v, "DWSTART", f) BY <1>9, <3>10, <3>12 DEF IsOf
      <4>2. /\ In(Append(v, e), "DWERR", f) <=> (In(v, "DWERR", f) \/ IsOf(e, "DWERR", f))
            /\ DoneFirst(Append(v, e), f) <=>
                 (DoneFirst(v, f) /\ (IsOf(e, "DWNDONE", f) => ~In(v, "DWSTART", f)))
        BY Posted
      <4> QED BY <3>12, <4>1, <4>2
    <3>14. Settled(c, f) => Settled(c, f)' BY <3>3, <3>5 DEF Settled
    <3>15. Over(c, f)' => Settled(c, f)' BY <2>3, <3>11, <3>14 DEF Over
    <3>16. /\ Alternate(toServer'[c], f)
           /\ DoneFirst(toClient'[c], f)
           /\ In(toClient'[c], "DWERR", f) => Gone(f)'
           /\ Resumes(toServer'[c], f, Kept(c, f)') \/ Gone(f)'
      BY <2>3, <3>3, <3>5, <3>13 DEF Pair
    <3>17. Holds(c, f)' => Whole(c, f)' BY <2>3, <3>11 DEF Whole
    <3> QED BY <2>2, <3>5, <3>6, <3>15, <3>16, <3>17 DEF Line, Pair
  <2> QED BY <2>5, <2>6
<1> QED BY <1>13, <1>14, <1>15 DEF Lines, JInv

LEMMA HandleAckKeeps ==
    ASSUME IInv, IInv', JInv, NEW a \in Client, HandleAck(a) PROVE JInv'
<1> DEFINE i == Head(toServer[a]).id
           k == Head(toServer[a]).off
<1>1. Takes(a, {"DWACK"}) /\ UNCHANGED <<alive, handling, departed, browserVars>> BY DEF HandleAck
<1>2. CASE ~TakesAck(a, i, k)
  <2>1. UNCHANGED <<managerVars, toClient, requested>> BY <1>2 DEF HandleAck
  <2> QED BY <1>1, <2>1, AckIgnored
<1>3. CASE TakesAck(a, i, k) /\ IsComplete(WithAck(i, k))
  <2>1. /\ Acknowledge(i, k) /\ PostRequests({})
        /\ Post(OnlyTo(a, <<[kind |-> "DWNDONE", file |-> sessions[i].file]>>))
    BY <1>3 DEF HandleAck
  <2>2. /\ sessions' = [j \in DOMAIN sessions \ {i} |-> sessions[j]]
        /\ UNCHANGED <<registrations, nextSession>>
    BY <1>3, <2>1 DEF Acknowledge, CleanupSessions, fileVars
  <2>3. requested' = requested BY <2>1 DEF PostRequests
  <2>4. Completes(a, i, k) BY <1>1, <1>3, <2>1, <2>2, <2>3 DEF Completes
  <2> QED BY <2>4, AckEnds
<1>4. CASE TakesAck(a, i, k) /\ ~IsComplete(WithAck(i, k))
  <2> DEFINE asked2 == NextRequest(i, WithAck(i, k))
             t == Requesting(WithAck(i, k))
  <2>1. /\ Acknowledge(i, k) /\ PostRequests(asked2)
        /\ Post(OnlyTo(a, IF asked2 # {} /\ ~alive[Owner[sessions[i].file]]
                          THEN <<[kind |-> "DWERR", file |-> sessions[i].file]>> ELSE <<>>))
    BY <1>4 DEF HandleAck
  <2>2. sessions' = [sessions EXCEPT ![i] = t] /\ UNCHANGED <<registrations, nextSession>>
    BY <1>4, <2>1, ZenonT(30) DEF Acknowledge, fileVars
  <2>3. GoesOn(a, i, k, t, asked2) BY <1>1, <1>4, <2>1, <2>2, Zenon DEF GoesOn
  <2> HIDE DEF i, k, asked2, t
  <2> QED BY <2>3, AckMoves
<1> QED BY <1>2, <1>3, <1>4

-------------------------------------------------------------------------------
(* What users and browsers do *)

\* What a step of a browser leaves alone.
LEMMA Still ==
    ASSUME UNCHANGED <<serverVars, requested>>, NEW c, NEW f
    PROVE  /\ Ours(c, f)' = Ours(c, f)
           /\ UNCHANGED uploaded => (Gone(f)' <=> Gone(f))
           /\ \A i : Asks(c, i)' = Asks(c, i)
           /\ handling' = handling /\ sessions' = sessions /\ alive' = alive
           /\ registrations' = registrations /\ nextSession' = nextSession /\ departed' = departed
           /\ Issued' = Issued
<1>1. /\ handling' = handling /\ sessions' = sessions /\ alive' = alive /\ requested' = requested
      /\ registrations' = registrations /\ nextSession' = nextSession /\ departed' = departed
  BY DEF serverVars, managerVars, fileVars, sessionVars
<1>2. Ours(c, f)' = Ours(c, f) BY <1>1 DEF Ours
<1>3. UNCHANGED uploaded => (Gone(f)' <=> Gone(f)) BY <1>1 DEF Gone
<1>4. \A i : Asks(c, i)' = Asks(c, i) BY <1>1 DEF Asks
<1> QED BY <1>1, <1>2, <1>3, <1>4 DEF Issued

\* So it keeps the invariant if it keeps the lines of its client.
LEMMA BrowserMoves ==
    ASSUME IInv, IInv', JInv, NEW a \in Client, BrowserMove(a), \A f \in File : Line(a, f)'
    PROVE  JInv'
<1>1. /\ UNCHANGED <<serverVars, requested, uploaded>> /\ Lanes /\ Messages /\ Offers /\ Lines
      /\ handling' = handling /\ sessions' = sessions /\ alive' = alive
      /\ registrations' = registrations /\ nextSession' = nextSession /\ departed' = departed
      /\ Issued' = Issued /\ ServerTypes /\ ServerTypes'
  BY Still DEF BrowserMove, JInv, IInv
<1>2. Messages'
  <2>1. \A m : Known(m)' <=> Known(m) BY <1>1 DEF Known
  <2>2. \A c \in Client : \A m \in ToSet(toServer'[c]) : m \in ToSet(toServer[c]) \/ Known(m)'
    BY <2>1 DEF BrowserMove
  <2>3. \A c \in Client : \A x \in ToSet(toClient'[c]) : x \in ToSet(toClient[c]) \/ KnownFrame(x)'
    BY DEF BrowserMove
  <2> QED BY <1>1, <2>2, <2>3, MessagesKept
<1>3. Lanes' BY <1>1, LanesKept
<1>4. Offers' BY <1>1 DEF Offers, BrowserMove
<1>5. ASSUME NEW c \in Client, alive'[c], NEW f \in File PROVE Line(c, f)'
  <2>1. CASE c = a BY <2>1
  <2>2. CASE c # a
    <3>1. alive[c] /\ Line(c, f) BY <1>1, <1>5 DEF Lines
    <3>2. /\ toServer'[c] = toServer[c] /\ toClient'[c] = toClient[c] /\ downloads'[c] = downloads[c]
      BY <2>2 DEF BrowserMove
    <3>3. PICK mine : mine = Ours(c, f)' /\ mine = Ours(c, f) BY <1>1, Still
    <3>4. QuietLane(c, f) /\ QuietWire(c, f, mine) BY <3>2 DEF QuietLane, QuietWire
    <3>5. /\ Holds(c, f)' <=> Holds(c, f)
          /\ Kept(c, f)' = Kept(c, f)
          /\ downloads'[c][f].paused = downloads[c][f].paused
      BY <3>2 DEF Holds, Kept
    <3>6. /\ \A x \in requested' : x.id \in mine => x \in requested
          /\ alive'[Owner[f]] => alive[Owner[f]]
          /\ handling'[c] = handling[c]
          /\ mine \subseteq Ours(c, f) /\ \A i \in mine : sessions'[i] = sessions[i]
          /\ Gone(f) => Gone(f)'
      BY <1>1, <3>3 DEF Gone
    <3> QED BY <3>1, <3>3, <3>4, <3>5, <3>6, QuietLine
  <2> QED BY <2>1, <2>2
<1> QED BY <1>2, <1>3, <1>4, <1>5 DEF Lines, JInv

\* A browser that gives up a download that is ended, or that the uploader has left.
LEMMA LineDropped ==
    ASSUME ServerTypes, NEW c \in Client, NEW f \in File, Line(c, f),
           UNCHANGED <<serverVars, requested, uploaded>>,
           toServer'[c] = toServer[c],
           AlikeFrames(toClient[c], toClient'[c], f, Ours(c, f)),
           In(toClient'[c], "DWERR", f) => In(toClient[c], "DWERR", f),
           ~Holds(c, f)', Gone(f) \/ Settled(c, f),
           \A i \in Ours(c, f), B \in SUBSET (0..(Size - 1)) :
              Course(c, f, i, B) => StopIn(toServer[c], f) \/ Doomed(c, i, B)
    PROVE  Line(c, f)'
<1>1. /\ Gone(f)' <=> Gone(f)
      /\ \A i : Asks(c, i)' = Asks(c, i)
      /\ handling' = handling /\ sessions' = sessions /\ alive' = alive
  BY Still
<1>m. PICK mine : mine = Ours(c, f)' /\ mine = Ours(c, f) BY Still
<1>2. /\ In(toClient'[c], "DWSTART", f) => In(toClient[c], "DWSTART", f)
      /\ DoneFirst(toClient[c], f) => DoneFirst(toClient'[c], f)
      /\ \A i \in Ours(c, f) : /\ Sent(toClient'[c], i) \subseteq Sent(toClient[c], i)
                               /\ Once(toClient[c], i) => Once(toClient'[c], i)
                               /\ DataLast(toClient[c], f, i) => DataLast(toClient'[c], f, i)
                               /\ DataOf(toClient[c], i, f) => DataOf(toClient'[c], i, f)
  BY DEF AlikeFrames
<1>3. Pair(c, f)'
  <2>1. Pair(c, f) BY DEF Line
  <2>2. ~Over(c, f)' BY DEF Over
  <2>3. Settled(c, f) => \A kept : Resumes(toServer[c], f, kept) BY Unopened DEF Settled
  <2>4. Resumes(toServer'[c], f, Kept(c, f)') \/ Gone(f)' BY <1>1, <2>3
  <2>5. handling'[c].file = f => StopIn(toServer'[c], f) \/ Gone(f)' BY <1>1 DEF Settled
  <2>6. /\ Alternate(toServer'[c], f)
        /\ handling'[c].file = f => Fenced(toServer'[c], f)
        /\ DoneFirst(toClient'[c], f)
        /\ In(toClient'[c], "DWERR", f) => Gone(f)'
    BY <1>1, <1>2, <2>1 DEF Pair
  <2>7. \A i, j \in mine : i = j BY <1>m, <2>1 DEF Pair
  <2> QED BY <1>m, <2>2, <2>4, <2>5, <2>6, <2>7 DEF Pair
<1>4. ASSUME NEW i \in mine
      PROVE  \E B \in SUBSET (0..(Size - 1)) : Session(c, f, i, B)'
  <2>1. PICK B \in SUBSET (0..(Size - 1)) : Session(c, f, i, B) BY <1>m DEF Line
  <2>2. Counts(c, i, B) /\ Stage(c, f, i, B) /\ Course(c, f, i, B) /\ Safe(c, f, i, B)
    BY <2>1 DEF Session
  <2>3. sessions'[i] = sessions[i] /\ sessions[i].file = f BY <1>1, <1>m DEF Ours
  <2>4. /\ Counts(c, i, B)'
        /\ Lost(c, i, B) => Lost(c, i, B)'
        /\ Doomed(c, i, B) => Doomed(c, i, B)'
    BY <1>1, <1>2, <1>m, <2>2, <2>3, CountsShrink
  <2>5. Stage(c, f, i, B)' BY <1>1, <1>2, <1>m, <2>2 DEF Stage
  <2>6. StopIn(toServer[c], f) \/ Doomed(c, i, B) BY <1>m, <2>2
  <2>7. Course(c, f, i, B)' BY <1>1, <2>2, <2>4, <2>6 DEF Course
  <2>8. Safe(c, f, i, B)'
    <3>1. Doomed(c, i, B) => Lost(c, i, B) BY DEF Doomed
    <3> QED BY <2>4, <2>6, <3>1 DEF Safe
  <2> QED BY <2>4, <2>5, <2>7, <2>8 DEF Session
<1> QED BY <1>3, <1>4, <1>m DEF Line

\* A user ends a download: what comes of it, the browser keeps or throws away.
LEMMA LineStopped ==
    ASSUME ServerTypes, NEW c \in Client, NEW f \in File, Line(c, f),
           UNCHANGED <<serverVars, requested, uploaded>>,
           NEW m \in Command, IsStop(m, f), toServer'[c] = Append(toServer[c], m),
           toClient'[c] = toClient[c],
           Holds(c, f)' => Holds(c, f) /\ Kept(c, f)' = Kept(c, f)
    PROVE  Line(c, f)'
<1>1. /\ Gone(f)' <=> Gone(f)
      /\ \A i : Asks(c, i)' = Asks(c, i)
      /\ handling' = handling /\ sessions' = sessions /\ alive' = alive /\ requested' = requested
  BY Still
<1>m. PICK mine : mine = Ours(c, f)' /\ mine = Ours(c, f) BY Still
<1>q. PICK q \in Seq(Command) : q = toServer[c] /\ toServer'[c] = Append(q, m) BY DEF ServerTypes
<1>2. ~IsStart(m, f) /\ \A i : ~IsAck(m, i) BY DEF IsStart, IsStop, IsAck
<1>3. /\ StopIn(toServer'[c], f) /\ Ended(toServer'[c], f)
      /\ Alternate(toServer'[c], f) <=> Alternate(q, f)
      /\ Fenced(toServer'[c], f) <=> Fenced(q, f)
  BY <1>q, <1>2, Appended
<1>4. \A kept : Resumes(toServer'[c], f, kept) BY <1>q, AppendedResumes
<1>5. Settled(c, f)' BY <1>3 DEF Settled
<1>6. Holds(c, f)' => (Whole(c, f)' <=> Whole(c, f)) BY DEF Whole
<1>7. Pair(c, f)'
  <2>1. Pair(c, f) BY DEF Line
  <2>2. /\ Alternate(toServer'[c], f)
        /\ handling'[c].file = f => Fenced(toServer'[c], f)
        /\ DoneFirst(toClient'[c], f)
        /\ Holds(c, f)' /\ In(toClient'[c], "DWNDONE", f) => Whole(c, f)'
        /\ In(toClient'[c], "DWERR", f) => Gone(f)'
    BY <1>1, <1>q, <1>3, <1>6, <2>1 DEF Pair
  <2>3. \A i, j \in mine : i = j BY <1>m, <2>1 DEF Pair
  <2> QED BY <1>m, <1>3, <1>4, <1>5, <2>2, <2>3 DEF Pair
<1>8. ASSUME NEW i \in mine
      PROVE  \E B \in SUBSET (0..(Size - 1)) : Session(c, f, i, B)'
  <2>1. PICK B \in SUBSET (0..(Size - 1)) : Session(c, f, i, B) BY <1>m DEF Line
  <2>2. Counts(c, i, B) /\ Stage(c, f, i, B) /\ Course(c, f, i, B) /\ Safe(c, f, i, B)
    BY <2>1 DEF Session
  <2>3. sessions'[i] = sessions[i] /\ sessions[i].file = f BY <1>1, <1>m DEF Ours
  <2>4. /\ Acks(toServer'[c], i) = Acks(q, i)
        /\ InTime(toServer'[c], f, i) = InTime(q, f, i)
        /\ ~StopIn(q, f) => InTime(q, f, i) = Acks(q, i)
    BY <1>q, <1>2, AppendedAcks
  <2>5. /\ Counts(c, i, B)'
        /\ Lost(c, i, B) => Lost(c, i, B)'
        /\ Doomed(c, i, B) => Doomed(c, i, B)'
    BY <1>1, <1>q, <2>2, <2>3, <2>4, CountsShrink
  <2>6. Stage(c, f, i, B)' BY <1>1, <1>q, <2>2, <2>4 DEF Stage
  <2>7. Course(c, f, i, B)' BY <1>1, <1>q, <1>3, <2>2, <2>5 DEF Course
  <2>8. \/ ~(0..(Size - 1) \subseteq B \cup InTime(q, f, i))
        \/ Holds(c, f)' => Whole(c, f)
    <3>1. CASE StopIn(q, f) BY <1>q, <2>2, <3>1 DEF Safe
    <3>2. CASE ~StopIn(q, f) /\ Lost(c, i, B)
      <4>1. B \cup Acks(q, i) \subseteq Placed(c, i, B) BY <1>q DEF Placed
      <4> QED BY <2>4, <3>2, <4>1 DEF Lost
    <3>3. CASE ~StopIn(q, f) /\ ~Lost(c, i, B)
      <4>1. B \cup Acks(q, i) \subseteq Kept(c, f) BY <1>q, <2>2, <3>3 DEF Safe
      <4> QED BY <2>4, <3>3, <4>1 DEF Whole
    <3> QED BY <3>1, <3>2, <3>3
  <2>9. Safe(c, f, i, B)' BY <1>3, <1>5, <1>6, <2>4, <2>8 DEF Safe
  <2> QED BY <2>5, <2>6, <2>7, <2>9 DEF Session
<1> QED BY <1>7, <1>8, <1>m DEF Line

\* A user asks for a file, from the first chunk the browser does not hold, when what it
\* had of it before is settled.
LEMMA LineAsked ==
    ASSUME ServerTypes, NEW c \in Client, NEW f \in File, Line(c, f),
           UNCHANGED <<serverVars, requested, uploaded>>,
           NEW m \in Command, IsStart(m, f), toServer'[c] = Append(toServer[c], m),
           toClient'[c] = toClient[c], Settled(c, f),
           0..(m.off - 1) \subseteq Kept(c, f)',
           ~Over(c, f)', Holds(c, f)' => Holds(c, f) /\ ~Whole(c, f),
           \A i \in Ours(c, f), B \in SUBSET (0..(Size - 1)) :
              Course(c, f, i, B) => StopIn(toServer[c], f) \/ Doomed(c, i, B)
    PROVE  Line(c, f)'
<1>1. /\ Gone(f)' <=> Gone(f)
      /\ \A i : Asks(c, i)' = Asks(c, i)
      /\ handling' = handling /\ sessions' = sessions /\ alive' = alive /\ requested' = requested
  BY Still
<1>m. PICK mine : mine = Ours(c, f)' /\ mine = Ours(c, f) BY Still
<1>q. PICK q \in Seq(Command) : q = toServer[c] /\ toServer'[c] = Append(q, m) BY DEF ServerTypes
<1>2. ~IsStop(m, f) /\ \A i : ~IsAck(m, i) BY DEF IsStart, IsStop, IsAck
<1>3. Ended(q, f) /\ (handling[c].file = f => StopIn(q, f)) BY <1>q DEF Settled
<1>4. /\ StopIn(toServer'[c], f) <=> StopIn(q, f)
      /\ Alternate(q, f) => Alternate(toServer'[c], f)
      /\ StopIn(q, f) /\ Fenced(q, f) => Fenced(toServer'[c], f)
  BY <1>q, <1>2, <1>3, Appended
<1>5. Resumes(toServer'[c], f, Kept(c, f)')
  <2>1. \A kept : Resumes(q, f, kept) BY <1>3, Unopened
  <2>2. PICK kept : kept = Kept(c, f)' OBVIOUS
  <2>3. Resumes(Append(q, m), f, kept) BY <2>1, <2>2, AppendedResumes
  <2> QED BY <1>q, <2>2, <2>3
<1>6. Pair(c, f)'
  <2>1. Pair(c, f) BY DEF Line
  <2>2. /\ Alternate(toServer'[c], f)
        /\ handling'[c].file = f => Fenced(toServer'[c], f) /\ StopIn(toServer'[c], f)
        /\ DoneFirst(toClient'[c], f)
        /\ In(toClient'[c], "DWERR", f) => Gone(f)'
    BY <1>1, <1>q, <1>3, <1>4, <2>1 DEF Pair
  <2>3. ~(Holds(c, f)' /\ In(toClient'[c], "DWNDONE", f)) BY <2>1 DEF Pair
  <2>4. \A i, j \in mine : i = j BY <1>m, <2>1 DEF Pair
  <2> QED BY <1>m, <1>5, <2>2, <2>3, <2>4 DEF Pair
<1>7. ASSUME NEW i \in mine
      PROVE  \E B \in SUBSET (0..(Size - 1)) : Session(c, f, i, B)'
  <2>1. PICK B \in SUBSET (0..(Size - 1)) : Session(c, f, i, B) BY <1>m DEF Line
  <2>2. Counts(c, i, B) /\ Stage(c, f, i, B) /\ Course(c, f, i, B) /\ Safe(c, f, i, B)
    BY <2>1 DEF Session
  <2>3. sessions'[i] = sessions[i] /\ sessions[i].file = f BY <1>1, <1>m DEF Ours
  <2>4. /\ Acks(toServer'[c], i) = Acks(q, i)
        /\ InTime(toServer'[c], f, i) = InTime(q, f, i)
    BY <1>q, <1>2, AppendedAcks
  <2>5. /\ Counts(c, i, B)'
        /\ Lost(c, i, B) => Lost(c, i, B)'
        /\ Doomed(c, i, B) => Doomed(c, i, B)'
    BY <1>1, <1>q, <2>2, <2>3, <2>4, CountsShrink
  <2>6. Stage(c, f, i, B)' BY <1>1, <1>q, <2>2, <2>4 DEF Stage
  <2>7. StopIn(q, f) \/ Doomed(c, i, B) BY <1>m, <1>q, <2>2
  <2>8. Course(c, f, i, B)' BY <1>1, <1>q, <1>4, <2>2, <2>5, <2>7 DEF Course
  <2>9. Safe(c, f, i, B)'
    <3>1. Doomed(c, i, B) => Lost(c, i, B) BY DEF Doomed
    <3>2. CASE ~StopIn(q, f) BY <1>4, <2>5, <2>7, <3>1, <3>2 DEF Safe
    <3>3. CASE StopIn(q, f)
      <4>1. ~Holds(c, f)' \/ ~(0..(Size - 1) \subseteq B \cup InTime(q, f, i))
        BY <1>q, <2>2, <3>3 DEF Safe
      <4> QED BY <1>4, <2>4, <3>3, <4>1 DEF Safe
    <3> QED BY <3>2, <3>3
  <2> QED BY <2>5, <2>6, <2>8, <2>9 DEF Session
<1> QED BY <1>6, <1>7, <1>m DEF Line

\* The downloads of a browser with one put in, or some taken out.
LEMMA WithIs ==
    ASSUME DownloadsGood, NEW c \in Client, NEW g \in File, NEW d, WithDownload(c, g, d)
    PROVE  /\ Holds(c, g)' /\ downloads'[c][g] = d
           /\ \A f : f # g => /\ Holds(c, f)' <=> Holds(c, f)
                              /\ Kept(c, f)' = Kept(c, f)
                              /\ Holds(c, f) => downloads'[c][f].paused = downloads[c][f].paused
           /\ \A e \in Client \ {c} : downloads'[e] = downloads[e]
<1> DEFINE new == [h \in DOMAIN downloads[c] \cup {g} |-> IF h = g THEN d ELSE downloads[c][h]]
<1>1. downloads' = [downloads EXCEPT ![c] = new] BY DEF WithDownload
<1>2. downloads'[c] = new /\ \A e \in Client \ {c} : downloads'[e] = downloads[e]
  <2> HIDE DEF new
  <2> QED BY <1>1 DEF DownloadsGood
<1>3. DOMAIN downloads'[c] = DOMAIN downloads[c] \cup {g} BY <1>2
<1>4. downloads'[c][g] = d /\ \A f \in DOMAIN downloads[c] : f # g => downloads'[c][f] = downloads[c][f]
  BY <1>2
<1> QED BY <1>2, <1>3, <1>4 DEF Holds, Kept

LEMMA WithoutIs ==
    ASSUME DownloadsGood, NEW c \in Client, NEW files, WithoutDownloads(c, files)
    PROVE  /\ \A f \in files : ~Holds(c, f)'
           /\ \A f : f \notin files => /\ Holds(c, f)' <=> Holds(c, f)
                                       /\ Kept(c, f)' = Kept(c, f)
                                       /\ Holds(c, f) => downloads'[c][f].paused = downloads[c][f].paused
           /\ \A e \in Client \ {c} : downloads'[e] = downloads[e]
<1> DEFINE new == [h \in DOMAIN downloads[c] \ files |-> downloads[c][h]]
<1>1. downloads' = [downloads EXCEPT ![c] = new] BY DEF WithoutDownloads
<1>2. downloads'[c] = new /\ \A e \in Client \ {c} : downloads'[e] = downloads[e]
  <2> HIDE DEF new
  <2> QED BY <1>1 DEF DownloadsGood
<1>3. DOMAIN downloads'[c] = DOMAIN downloads[c] \ files BY <1>2
<1>4. \A f \in DOMAIN downloads[c] \ files : downloads'[c][f] = downloads[c][f] BY <1>2
<1> QED BY <1>2, <1>3, <1>4 DEF Holds, Kept

\* What the browser of c does about other files of its is nothing to the transfer of f.
LEMMA LinePassed ==
    ASSUME IInv, IInv', NEW c \in Client, NEW f \in File, Line(c, f),
           UNCHANGED <<serverVars, requested, uploaded>>,
           Alike(toServer[c], toServer'[c], f, Ours(c, f)),
           AlikeFrames(toClient[c], toClient'[c], f, Ours(c, f)),
           In(toClient[c], "DWSTART", f) => (In(toClient'[c], "DWSTART", f) \/ Holds(c, f)),
           In(toClient'[c], "DWERR", f) => In(toClient[c], "DWERR", f),
           Holds(c, f)' <=> Holds(c, f), Kept(c, f) \subseteq Kept(c, f)',
           Holds(c, f) => downloads'[c][f].paused = downloads[c][f].paused
    PROVE  Line(c, f)'
<1>1. /\ Gone(f)' <=> Gone(f)
      /\ handling' = handling /\ sessions' = sessions /\ alive' = alive /\ requested' = requested
      /\ ServerTypes /\ ServerTypes'
  BY Still DEF IInv
<1>m. PICK mine : mine = Ours(c, f)' /\ mine = Ours(c, f) BY Still
<1>2. /\ \A x \in requested' : x.id \in mine => x \in requested
      /\ alive'[Owner[f]] => alive[Owner[f]]
      /\ handling'[c] = handling[c]
      /\ mine \subseteq Ours(c, f) /\ \A i \in mine : sessions'[i] = sessions[i]
  BY <1>1, <1>m
<1>3. /\ Alike(toServer[c], toServer'[c], f, mine)
      /\ AlikeFrames(toClient[c], toClient'[c], f, mine)
  BY <1>m
<1> QED BY <1>1, <1>2, <1>3, <1>m, LineKept

\* A click is a move of a browser, and keeps the lines of the other files.
LEMMA ClickIsMove ==
    ASSUME IInv, IInv', JInv, NEW a \in Client, NEW g \in File, NEW m, Clicks(a, g, m)
    PROVE  /\ BrowserMove(a) /\ Line(a, g) /\ toServer'[a] = Append(toServer[a], m)
           /\ toClient'[a] = toClient[a] /\ ServerTypes /\ DownloadsGood
           /\ \A f \in File : f # g => Line(a, f)'
<1>1. /\ alive[a] /\ UNCHANGED <<serverVars, toClient, requested, uploaded, uploadVars>>
      /\ m \in Command /\ m.kind \in {"DOWNLOAD", "DWNPAUSE", "DWNCANCEL"} /\ m.file = g
      /\ Send(a, m) /\ \A c \in Client \ {a} : downloads'[c] = downloads[c]
  BY DEF Clicks
<1>2. ServerTypes /\ DownloadsGood /\ Offers /\ Lines BY DEF IInv, JInv, DownloadTypes
<1>3. /\ \A c \in Client : \A x \in ToSet(toServer'[c]) : x \in ToSet(toServer[c]) \/ x = m
      /\ toServer'[a] = Append(toServer[a], m) /\ toServer[a] \in Seq(Command)
      /\ \A c \in Client \ {a} : toServer'[c] = toServer[c]
  BY <1>1, <1>2, SendMembers
<1>4. Known(m) BY <1>1 DEF Known
<1>5. BrowserMove(a) BY <1>1, <1>2, <1>3, <1>4 DEF BrowserMove, Offers, uploadVars
<1>6. ASSUME NEW f \in File, f # g PROVE Line(a, f)'
  <2>1. Line(a, f) BY <1>1, <1>2 DEF Lines
  <2>2. ~Orders(m, f) /\ \A i : ~IsAck(m, i) BY <1>1, <1>6 DEF Orders, IsStart, IsStop, IsAck
  <2>3. Alike(toServer[a], toServer'[a], f, Ours(a, f)) BY <1>1, <1>3, <2>2, AlikeAppended
  <2>4. toClient'[a] = toClient[a] /\ AlikeFrames(toClient[a], toClient[a], f, Ours(a, f))
    BY <1>1, AlikeItself
  <2>5. /\ Holds(a, f)' <=> Holds(a, f)
        /\ Kept(a, f)' = Kept(a, f)
        /\ Holds(a, f) => downloads'[a][f].paused = downloads[a][f].paused
    BY <1>6 DEF Clicks
  <2> QED BY <1>1, <2>1, <2>3, <2>4, <2>5, LinePassed
<1>7. Line(a, g) BY <1>1, <1>2 DEF Lines
<1> QED BY <1>1, <1>2, <1>3, <1>5, <1>6, <1>7

\* The four clicks of a downloader.
LEMMA ClickPauseKeeps ==
    ASSUME IInv, IInv', JInv, NEW a \in Client, NEW g \in File, ClickPause(a, g) PROVE JInv'
<1> DEFINE d == [downloads[a][g] EXCEPT !.paused = TRUE]
<1>1. PICK m : m = [kind |-> "DWNPAUSE", file |-> g] OBVIOUS
<1>2. /\ alive[a] /\ Holds(a, g) /\ Send(a, m) /\ WithDownload(a, g, d) /\ DownloadsGood
      /\ UNCHANGED <<serverVars, toClient, requested, uploaded, uploadVars>>
  BY <1>1 DEF ClickPause, IInv, DownloadTypes
<1>3. m \in Command /\ m.kind = "DWNPAUSE" /\ m.file = g BY <1>1 DEF Command
<1>4. d.chunks = downloads[a][g].chunks
  <2>1. downloads[a][g] \in GoodDownload BY <1>2, HeldTypes
  <2> QED BY <2>1 DEF GoodDownload
<1> HIDE DEF d
<1>5. /\ Holds(a, g)' /\ downloads'[a][g] = d
      /\ \A f : f # g => /\ Holds(a, f)' <=> Holds(a, f)
                         /\ Kept(a, f)' = Kept(a, f)
                         /\ Holds(a, f) => downloads'[a][f].paused = downloads[a][f].paused
      /\ \A c \in Client \ {a} : downloads'[c] = downloads[c]
  BY <1>2, WithIs
<1>6. Clicks(a, g, m) BY <1>2, <1>3, <1>5 DEF Clicks
<1>7. /\ BrowserMove(a) /\ Line(a, g) /\ toServer'[a] = Append(toServer[a], m)
      /\ toClient'[a] = toClient[a] /\ ServerTypes
      /\ \A f \in File : f # g => Line(a, f)'
  BY <1>6, ClickIsMove
<1>8. Kept(a, g)' = Kept(a, g) BY <1>2, <1>4, <1>5 DEF Kept
<1>9. IsStop(m, g) BY <1>3 DEF IsStop
<1>10. Line(a, g)' BY <1>2, <1>3, <1>7, <1>8, <1>9, LineStopped
<1> QED BY <1>7, <1>10, BrowserMoves

LEMMA ClickCancelKeeps ==
    ASSUME IInv, IInv', JInv, NEW a \in Client, NEW g \in File, ClickCancel(a, g) PROVE JInv'
<1>1. PICK m : m = [kind |-> "DWNCANCEL", file |-> g] OBVIOUS
<1>2. /\ alive[a] /\ Send(a, m) /\ WithoutDownloads(a, {g}) /\ DownloadsGood
      /\ UNCHANGED <<serverVars, toClient, requested, uploaded, uploadVars>>
  BY <1>1 DEF ClickCancel, IInv, DownloadTypes
<1>3. m \in Command /\ m.kind = "DWNCANCEL" /\ m.file = g BY <1>1 DEF Command
<1>5. /\ ~Holds(a, g)'
      /\ \A f : f # g => /\ Holds(a, f)' <=> Holds(a, f)
                         /\ Kept(a, f)' = Kept(a, f)
                         /\ Holds(a, f) => downloads'[a][f].paused = downloads[a][f].paused
      /\ \A c \in Client \ {a} : downloads'[c] = downloads[c]
  BY <1>2, WithoutIs
<1>6. Clicks(a, g, m) BY <1>2, <1>3, <1>5 DEF Clicks
<1>7. /\ BrowserMove(a) /\ Line(a, g) /\ toServer'[a] = Append(toServer[a], m)
      /\ toClient'[a] = toClient[a] /\ ServerTypes
      /\ \A f \in File : f # g => Line(a, f)'
  BY <1>6, ClickIsMove
<1>9. IsStop(m, g) BY <1>3 DEF IsStop
<1>10. Line(a, g)' BY <1>2, <1>3, <1>5, <1>7, <1>9, LineStopped
<1> QED BY <1>7, <1>10, BrowserMoves

\* Only here is a user patient: nobody asks for a file while an answer about it is due.
LEMMA ClickDownloadKeeps ==
    ASSUME IInv, IInv', JInv, Patient, NEW a \in Client, NEW g \in File, ClickDownload(a, g) PROVE JInv'
<1>1. PICK m : m = [kind |-> "DOWNLOAD", file |-> g, off |-> 0] OBVIOUS
<1>2. /\ alive[a] /\ Send(a, m) /\ ~Holds(a, g) /\ ~Awaiting(a, g) /\ ServerTypes
      /\ UNCHANGED <<serverVars, toClient, requested, uploaded, uploadVars, downloads>>
  BY <1>1 DEF ClickDownload, SendDownload, IInv
<1>3. m \in Command /\ m.kind = "DOWNLOAD" /\ m.file = g /\ m.off = 0
  <2>1. m \in [kind : {"DOWNLOAD"}, file : File, off : Nat] BY <1>1
  <2> QED BY <1>1, <2>1 DEF Command
<1>4. Clicks(a, g, m)
  <2>1. downloads' = downloads BY <1>2
  <2> QED BY <1>2, <1>3, <2>1 DEF Clicks, Holds, Kept
<1>5. /\ BrowserMove(a) /\ Line(a, g) /\ toServer'[a] = Append(toServer[a], m)
      /\ toClient'[a] = toClient[a]
      /\ \A f \in File : f # g => Line(a, f)'
  BY <1>4, ClickIsMove
<1>6. ~StartIn(toServer[a], g) /\ handling[a].file # g BY <1>2, AwaitingIs
<1>7. Settled(a, g) BY <1>6, Unopened DEF Settled
<1>8. ASSUME NEW i \in Ours(a, g), NEW B \in SUBSET (0..(Size - 1)), Course(a, g, i, B)
      PROVE  StopIn(toServer[a], g) \/ Doomed(a, i, B)
  BY <1>2, <1>8 DEF Course
<1>9. ~Holds(a, g)' BY <1>2 DEF Holds
<1>10. ~Over(a, g)' /\ 0..(m.off - 1) \subseteq Kept(a, g)' BY <1>3, <1>9 DEF Over
<1>11. IsStart(m, g) BY <1>3 DEF IsStart
<1>12. Line(a, g)' BY <1>2, <1>3, <1>5, <1>7, <1>8, <1>9, <1>10, <1>11, LineAsked
<1> QED BY <1>5, <1>12, BrowserMoves

LEMMA ClickResumeKeeps ==
    ASSUME IInv, IInv', JInv, NEW a \in Client, NEW g \in File, ClickResume(a, g) PROVE JInv'
<1>1. /\ alive[a] /\ Holds(a, g) /\ downloads[a][g].paused /\ ServerTypes /\ DownloadsGood
      /\ UNCHANGED <<serverVars, toClient, requested, uploaded, uploadVars>>
      /\ Line(a, g)
  BY DEF ClickResume, IInv, JInv, DownloadTypes, Lines
<1>2. PICK chunks : chunks = downloads[a][g].chunks OBVIOUS
<1>3. Kept(a, g) = chunks /\ chunks \in SUBSET (0..(Size - 1)) BY <1>1, <1>2, HeldTypes DEF Kept
<1>4. PICK k \in 0..Size : k = Checkpoint(chunks) /\ 0..(k - 1) \subseteq chunks /\ k \notin chunks
  BY <1>3, CheckpointIsFirstGap
<1>5. Over(a, g) /\ Settled(a, g)
  <2>1. Over(a, g) BY <1>1 DEF Over
  <2> QED BY <1>1, <2>1 DEF Line, Pair
<1>6. ASSUME NEW i \in Ours(a, g), NEW B \in SUBSET (0..(Size - 1)), Course(a, g, i, B)
      PROVE  StopIn(toServer[a], g) \/ Doomed(a, i, B)
  BY <1>5, <1>6 DEF Course
<1>7. CASE k = Size /\ WithoutDownloads(a, {g}) /\ UNCHANGED toServer
  <2>1. /\ ~Holds(a, g)'
        /\ \A f : f # g => /\ Holds(a, f)' <=> Holds(a, f)
                           /\ Kept(a, f)' = Kept(a, f)
                           /\ Holds(a, f) => downloads'[a][f].paused = downloads[a][f].paused
        /\ \A c \in Client \ {a} : downloads'[c] = downloads[c]
    BY <1>1, <1>7, WithoutIs
  <2>2. BrowserMove(a) BY <1>1, <1>7, <2>1 DEF BrowserMove, JInv, Offers, uploadVars
  <2>3. toServer'[a] = toServer[a] /\ toClient'[a] = toClient[a] BY <1>1, <1>7
  <2>4. \A f, ids : Alike(toServer[a], toServer'[a], f, ids) /\ AlikeFrames(toClient[a], toClient'[a], f, ids)
    BY <2>3, AlikeItself
  <2>5. Line(a, g)' BY <1>1, <1>5, <1>6, <2>1, <2>3, <2>4, LineDropped
  <2>6. ASSUME NEW f \in File, f # g PROVE Line(a, f)'
    <3>1. Line(a, f) BY <1>1 DEF JInv, Lines
    <3> QED BY <1>1, <2>1, <2>3, <2>4, <2>6, <3>1, LinePassed
  <2> QED BY <2>2, <2>5, <2>6, BrowserMoves
<1>8. CASE /\ k < Size /\ SendDownload(a, g, k)
           /\ WithDownload(a, g, [chunks |-> {x \in chunks : x < k}, paused |-> FALSE])
  <2>1. PICK d : d = [chunks |-> {x \in chunks : x < k}, paused |-> FALSE] OBVIOUS
  <2>2. PICK m : m = [kind |-> "DOWNLOAD", file |-> g, off |-> k] OBVIOUS
  <2>3. m \in Command /\ m.kind = "DOWNLOAD" /\ m.file = g /\ m.off = k
    <3>1. k \in Nat BY TransferAssumption
    <3>2. m \in [kind : {"DOWNLOAD"}, file : File, off : Nat] BY <2>2, <3>1
    <3> QED BY <2>2, <3>2 DEF Command
  <2>4. Send(a, m) /\ WithDownload(a, g, d) BY <1>8, <2>1, <2>2 DEF SendDownload
  <2>5. d.chunks = {x \in chunks : x < k} /\ d.paused = FALSE BY <2>1
  <2>6. /\ Holds(a, g)' /\ downloads'[a][g] = d
        /\ \A f : f # g => /\ Holds(a, f)' <=> Holds(a, f)
                           /\ Kept(a, f)' = Kept(a, f)
                           /\ Holds(a, f) => downloads'[a][f].paused = downloads[a][f].paused
        /\ \A c \in Client \ {a} : downloads'[c] = downloads[c]
    BY <1>1, <2>4, WithIs
  <2>7. Clicks(a, g, m) BY <1>1, <2>3, <2>4, <2>6 DEF Clicks
  <2>8. /\ BrowserMove(a) /\ toServer'[a] = Append(toServer[a], m)
        /\ toClient'[a] = toClient[a]
        /\ \A f \in File : f # g => Line(a, f)'
    BY <2>7, ClickIsMove
  <2>9. ~Whole(a, g)
    <3>1. k \in 0..(Size - 1) BY <1>8, TransferAssumption
    <3> QED BY <1>3, <1>4, <3>1 DEF Whole
  <2>10. 0..(k - 1) \subseteq Kept(a, g)'
    <3>1. Kept(a, g)' = d.chunks BY <2>6 DEF Kept
    <3>2. \A x \in 0..(k - 1) : x < k OBVIOUS
    <3> QED BY <1>4, <2>5, <3>1, <3>2
  <2>11. ~Over(a, g)'
    <3>1. ~In(toClient[a], "DWNDONE", g) BY <1>1, <2>9 DEF Line, Pair
    <3> QED BY <2>5, <2>6, <2>8, <3>1 DEF Over
  <2>12. IsStart(m, g) BY <2>3 DEF IsStart
  <2>13. Line(a, g)' BY <1>1, <1>5, <1>6, <2>3, <2>8, <2>9, <2>10, <2>11, <2>12, LineAsked
  <2> QED BY <2>8, <2>13, BrowserMoves
<1> QED BY <1>2, <1>4, <1>7, <1>8 DEF ClickResume, FinishDownload

\* What is known of the frame and of what is behind it.
LEMMA Delivered ==
    ASSUME IInv, IInv', JInv, NEW a \in Client, NEW x, Delivers(a, x)
    PROVE  /\ toClient[a] \in Seq(GoodFrame) /\ toClient[a] # <<>> /\ x \in GoodFrame
           /\ x = Head(toClient[a]) /\ toClient'[a] = Tail(toClient[a]) /\ KnownFrame(x)
           /\ \A c \in Client \ {a} : toClient'[c] = toClient[c]
           /\ \A c \in Client : \A y \in ToSet(toClient'[c]) : y \in ToSet(toClient[c])
           /\ \A f : /\ ~IsOf(x, "DWSTART", f) =>
                           (In(toClient[a], "DWSTART", f) => In(toClient'[a], "DWSTART", f))
                     /\ In(toClient'[a], "DWERR", f) => In(toClient[a], "DWERR", f)
                     /\ \A kind : IsOf(x, kind, f) => In(toClient[a], kind, f)
           /\ \A f, ids : AlikeFrames(toClient[a], toClient'[a], f, ids)
           /\ alive[a] /\ UNCHANGED <<serverVars, requested, uploaded>>
           /\ ServerTypes /\ DownloadsGood /\ Manager
           /\ \A f \in File : Line(a, f)
<1>1. /\ alive[a] /\ toClient[a] # <<>> /\ x = Head(toClient[a])
      /\ toClient' = [toClient EXCEPT ![a] = Tail(toClient[a])]
      /\ UNCHANGED <<serverVars, requested, uploaded>>
      /\ ServerTypes /\ DownloadsGood /\ Manager /\ Messages /\ Lines
  BY DEF Delivers, IInv, JInv, DownloadTypes
<1>2. toClient \in [Client -> Seq(GoodFrame)] BY <1>1 DEF ServerTypes
<1>3. PICK w \in Seq(GoodFrame) : w = toClient[a] /\ w # <<>> /\ x = Head(w) /\ toClient'[a] = Tail(w)
  BY <1>1, <1>2
<1>4. x \in GoodFrame BY <1>3, TailIndices
<1>5. x \in ToSet(w) /\ ToSet(Tail(w)) \subseteq ToSet(w) BY <1>3, <1>4, MembersOf
<1>6. KnownFrame(x) BY <1>1, <1>3, <1>5 DEF Messages
<1>7. \A c \in Client \ {a} : toClient'[c] = toClient[c] BY <1>1, <1>2
<1>8. \A c \in Client : \A y \in ToSet(toClient'[c]) : y \in ToSet(toClient[c])
  <2> TAKE c \in Client
  <2>1. CASE c = a BY <1>3, <1>5, <2>1
  <2>2. CASE c # a BY <1>7, <2>2
  <2> QED BY <2>1, <2>2
<1>9. ASSUME NEW f
      PROVE  /\ ~IsOf(x, "DWSTART", f) => (In(w, "DWSTART", f) => In(Tail(w), "DWSTART", f))
             /\ In(Tail(w), "DWERR", f) => In(w, "DWERR", f)
             /\ \A kind : IsOf(x, kind, f) => In(w, kind, f)
  BY <1>3, Received, AlikeReceived
<1>10. \A f, ids : AlikeFrames(w, Tail(w), f, ids) BY <1>3, AlikeReceived
<1>11. \A f \in File : Line(a, f) BY <1>1 DEF Lines
<1> QED BY <1>1, <1>3, <1>4, <1>6, <1>7, <1>8, <1>9, <1>10, <1>11

\* DWSTART: a browser that holds nothing of f opens a download.
LEMMA LineOpened ==
    ASSUME ServerTypes, NEW c \in Client, NEW f \in File, Line(c, f),
           UNCHANGED <<serverVars, requested, uploaded>>,
           toServer'[c] = toServer[c],
           toClient[c] # <<>>, IsOf(Head(toClient[c]), "DWSTART", f),
           toClient'[c] = Tail(toClient[c]),
           ~Holds(c, f), Holds(c, f)', Kept(c, f)' = {}, ~downloads'[c][f].paused
    PROVE  Line(c, f)'
<1>1. /\ Gone(f)' <=> Gone(f)
      /\ \A i : Asks(c, i)' = Asks(c, i)
      /\ handling' = handling /\ sessions' = sessions /\ alive' = alive /\ requested' = requested
  BY Still
<1>m. PICK mine : mine = Ours(c, f)' /\ mine = Ours(c, f) BY Still
<1>w. PICK w \in Seq(GoodFrame) : /\ w = toClient[c] /\ w # <<>> /\ IsOf(Head(w), "DWSTART", f)
                                  /\ toClient'[c] = Tail(w)
  BY DEF ServerTypes
<1>p. Pair(c, f) BY DEF Line
<1>2. /\ In(w, "DWSTART", f)
      /\ DoneFirst(Tail(w), f) /\ ~In(Tail(w), "DWNDONE", f)
      /\ In(Tail(w), "DWERR", f) => In(w, "DWERR", f)
  BY <1>w, <1>p, Received DEF Pair
<1>3. AlikeFrames(w, Tail(w), f, mine) BY <1>w, AlikeReceived
<1>4. \A i \in mine : /\ Sent(Tail(w), i) \subseteq Sent(w, i)
                      /\ Once(w, i) => Once(Tail(w), i)
                      /\ DataLast(w, f, i) => DataLast(Tail(w), f, i)
                      /\ DataOf(w, i, f) => DataOf(Tail(w), i, f)
  BY <1>3 DEF AlikeFrames
<1>5. ~Over(c, f)' /\ Kept(c, f) = {} BY <1>w, <1>2 DEF Over, Kept
<1>6. Pair(c, f)'
  <2>1. Resumes(toServer'[c], f, Kept(c, f)') \/ Gone(f)' BY <1>1, <1>5, <1>p DEF Pair
  <2>2. handling'[c].step = "found" /\ handling'[c].file = f =>
          StopIn(toServer'[c], f) \/ Gone(f)' \/ 0..(handling'[c].off - 1) \subseteq Kept(c, f)'
    BY <1>1, <1>5, <1>p DEF Pair
  <2>3. /\ Alternate(toServer'[c], f)
        /\ handling'[c].file = f => Fenced(toServer'[c], f)
        /\ DoneFirst(toClient'[c], f)
        /\ In(toClient'[c], "DWERR", f) => Gone(f)'
    BY <1>1, <1>w, <1>2, <1>p DEF Pair
  <2>4. \A i, j \in mine : i = j BY <1>m, <1>p DEF Pair
  <2> QED BY <1>m, <1>w, <1>2, <1>5, <2>1, <2>2, <2>3, <2>4 DEF Pair
<1>7. ASSUME NEW i \in mine
      PROVE  \E B \in SUBSET (0..(Size - 1)) : Session(c, f, i, B)'
  <2>1. PICK B \in SUBSET (0..(Size - 1)) : Session(c, f, i, B) BY <1>m DEF Line
  <2>2. Counts(c, i, B) /\ Stage(c, f, i, B) /\ Course(c, f, i, B) /\ Safe(c, f, i, B)
    BY <2>1 DEF Session
  <2>3. sessions'[i] = sessions[i] /\ sessions[i].file = f BY <1>1, <1>m DEF Ours
  <2>4. /\ Counts(c, i, B)'
        /\ Lost(c, i, B) => Lost(c, i, B)'
        /\ Doomed(c, i, B) => Doomed(c, i, B)'
    BY <1>1, <1>w, <1>4, <2>2, <2>3, CountsShrink
  <2>5. Stage(c, f, i, B)' BY <1>1, <1>w, <1>2, <1>4, <2>2 DEF Stage
  <2>6. Course(c, f, i, B)' BY <1>1, <1>w, <1>2, <1>5, <2>2, <2>4 DEF Course
  <2>7. Safe(c, f, i, B)'
    <3>1. Acks(toServer[c], i) = {} /\ ~(0..(Size - 1) \subseteq B) BY <1>w, <1>2, <2>2 DEF Stage
    <3>2. InTime(toServer[c], f, i) = {}
      <4>1. toServer[c] \in Seq(Command) BY DEF ServerTypes
      <4>2. InTime(toServer[c], f, i) \subseteq Acks(toServer[c], i) BY DEF InTime, Acks
      <4> QED BY <3>1, <4>2
    <3>3. CASE StopIn(toServer[c], f) BY <3>1, <3>2, <3>3 DEF Safe
    <3>4. CASE ~StopIn(toServer[c], f) BY <1>5, <2>2, <2>4, <3>4 DEF Safe
    <3> QED BY <3>3, <3>4
  <2> QED BY <2>4, <2>5, <2>6, <2>7 DEF Session
<1> QED BY <1>6, <1>7, <1>m DEF Line

\* DWDATA: a chunk of the session, kept and acknowledged.
LEMMA LineFilled ==
    ASSUME ServerTypes, NEW c \in Client, NEW f \in File, Line(c, f),
           UNCHANGED <<serverVars, requested, uploaded>>,
           NEW x \in GoodFrame, NEW m \in Command, NEW i \in Ours(c, f),
           toClient[c] # <<>>, x = Head(toClient[c]), toClient'[c] = Tail(toClient[c]),
           IsData(x, i), IsAck(m, i), m.off = x.off, toServer'[c] = Append(toServer[c], m),
           Holds(c, f), Holds(c, f)', Kept(c, f)' = Kept(c, f) \cup {x.off},
           downloads'[c][f].paused = downloads[c][f].paused
    PROVE  Line(c, f)'
<1>1. /\ Gone(f)' <=> Gone(f)
      /\ \A j : Asks(c, j)' = Asks(c, j)
      /\ handling' = handling /\ sessions' = sessions /\ alive' = alive /\ requested' = requested
  BY Still
<1>m. PICK mine : mine = Ours(c, f)' /\ mine = Ours(c, f) BY Still
<1>k. PICK k : k = x.off OBVIOUS
<1>w. PICK w \in Seq(GoodFrame) : /\ w = toClient[c] /\ w # <<>> /\ x = Head(w)
                                  /\ toClient'[c] = Tail(w)
  BY DEF ServerTypes
<1>q. PICK q \in Seq(Command) : q = toServer[c] /\ toServer'[c] = Append(q, m) BY DEF ServerTypes
<1>p. Pair(c, f) BY DEF Line
<1>2. /\ DoneFirst(Tail(w), f)
      /\ In(Tail(w), "DWNDONE", f) => In(w, "DWNDONE", f)
      /\ In(Tail(w), "DWERR", f) => In(w, "DWERR", f)
  BY <1>w, <1>p, Received DEF Pair
<1>3. /\ Sent(w, i) = Sent(Tail(w), i) \cup {k}
      /\ Once(w, i) => Once(Tail(w), i)
      /\ DataLast(w, f, i) => DataLast(Tail(w), f, i) /\ ~In(Tail(w), "DWSTART", f)
      /\ DataOf(w, i, f) => DataOf(Tail(w), i, f)
  <2>1. IsData(Head(w), i) /\ Head(w).off = k /\ w # <<>> BY <1>w, <1>k
  <2>2. /\ Sent(w, i) = Sent(Tail(w), i) \cup {Head(w).off}
        /\ Once(w, i) => Once(Tail(w), i)
        /\ DataLast(w, f, i) => DataLast(Tail(w), f, i) /\ ~In(Tail(w), "DWSTART", f)
        /\ DataOf(w, i, f) => DataOf(Tail(w), i, f)
    BY <2>1, ReceivedData, Zenon
  <2> QED BY <2>1, <2>2
<1>4. ~Orders(m, f) BY DEF IsAck, Orders, IsStart, IsStop
<1>5. Alike(toServer[c], toServer'[c], f, {}) BY <1>q, <1>4, AlikeAppended
<1>6. /\ Acks(toServer'[c], i) = Acks(q, i) \cup {k}
      /\ StopIn(q, f) => InTime(toServer'[c], f, i) = InTime(q, f, i)
  <2>1. IsAck(m, i) => Acks(Append(q, m), i) = Acks(q, i) \cup {m.off} BY AppendedAcks, Zenon
  <2>2. StopIn(q, f) \/ ~IsAck(m, i) => InTime(Append(q, m), f, i) = InTime(q, f, i) BY AppendedAcks
  <2> QED BY <1>q, <1>k, <2>1, <2>2
<1>7. /\ StopIn(toServer'[c], f) <=> StopIn(q, f)
      /\ Fenced(toServer'[c], f) <=> Fenced(q, f)
  BY <1>q, <1>5 DEF Alike
<1>8. /\ Pair(c, f)'
      /\ Over(c, f)' => Over(c, f)
      /\ Whole(c, f) => Whole(c, f)'
      /\ Settled(c, f)' <=> Settled(c, f)
  <2>1. In(toClient'[c], "DWERR", f) => Gone(f)' BY <1>1, <1>w, <1>2, <1>p DEF Pair
  <2>2. \A j, l \in mine : j = l BY <1>m, <1>p DEF Pair
  <2>3. Kept(c, f) \subseteq Kept(c, f)' /\ handling'[c] = handling[c] BY <1>1
  <2> QED BY <1>1, <1>m, <1>p, <1>w, <1>2, <1>5, <2>1, <2>2, <2>3, PairKept
<1>9. \E B \in SUBSET (0..(Size - 1)) : Session(c, f, i, B)'
  <2>1. PICK B \in SUBSET (0..(Size - 1)) : Session(c, f, i, B) BY DEF Line
  <2>2. Counts(c, i, B) /\ Stage(c, f, i, B) /\ Course(c, f, i, B) /\ Safe(c, f, i, B)
    BY <2>1 DEF Session
  <2>3. Placed(c, i, B)' = Placed(c, i, B)
    <3>1. Placed(c, i, B)' = B \cup Asks(c, i) \cup Sent(Tail(w), i) \cup (Acks(q, i) \cup {k})
      BY <1>1, <1>w, <1>6 DEF Placed
    <3>2. Placed(c, i, B) = B \cup Asks(c, i) \cup (Sent(Tail(w), i) \cup {k}) \cup Acks(q, i)
      BY <1>w, <1>q, <1>3 DEF Placed
    <3> QED BY <3>1, <3>2
  <2>4. /\ Lost(c, i, B)' <=> Lost(c, i, B)
        /\ Doomed(c, i, B)' <=> Doomed(c, i, B)
    <3>1. alive'[Uploader(i)'] = alive[Uploader(i)] BY <1>1 DEF Uploader
    <3>2. Lost(c, i, B)' <=> Lost(c, i, B) BY <1>1, <2>3, <3>1 DEF Lost
    <3> QED BY <3>1, <3>2 DEF Doomed
  <2>5. Counts(c, i, B)'
    <3>1. Once(toClient'[c], i) BY <1>w, <1>3, <2>2 DEF Counts
    <3>2. Asks(c, i)' \cap (B \cup Sent(toClient'[c], i) \cup Acks(toServer'[c], i)) = {}
      <4>1. Asks(c, i) \cap (B \cup (Sent(Tail(w), i) \cup {k}) \cup Acks(q, i)) = {}
        BY <1>w, <1>q, <1>3, <2>2 DEF Counts
      <4> QED BY <1>1, <1>w, <1>6, <4>1
    <3> QED BY <1>1, <2>2, <2>3, <3>1, <3>2 DEF Counts
  <2>6. Stage(c, f, i, B)'
    <3>1. DataLast(Tail(w), f, i) /\ ~In(Tail(w), "DWSTART", f) /\ DataOf(Tail(w), i, f)
      BY <1>w, <1>3, <2>2 DEF Stage
    <3>2. ~(handling[c].step = "started" /\ handling[c].file = f) BY <1>w, <1>3, <2>2 DEF Stage
    <3> QED BY <1>1, <1>w, <3>1, <3>2 DEF Stage
  <2>7. Course(c, f, i, B)' BY <1>1, <1>w, <1>q, <1>2, <1>7, <1>8, <2>2, <2>4 DEF Course
  <2>8. Safe(c, f, i, B)'
    <3>1. CASE StopIn(q, f) BY <1>q, <1>6, <1>7, <1>8, <2>2, <3>1 DEF Safe
    <3>2. CASE ~StopIn(q, f)
      <4>1. B \cup Acks(q, i) \subseteq Kept(c, f) \/ Lost(c, i, B) BY <1>q, <2>2, <3>2 DEF Safe
      <4> QED BY <1>k, <1>6, <1>7, <2>4, <3>2, <4>1 DEF Safe
    <3> QED BY <3>1, <3>2
  <2> QED BY <2>5, <2>6, <2>7, <2>8 DEF Session
<1>10. \A j \in mine : j = i BY <1>m, <1>p DEF Pair
<1> QED BY <1>8, <1>9, <1>10, <1>m DEF Line

\* A frame that changes no download of f, nor asks for one.
LEMMA DeliveredPasses ==
    ASSUME IInv, IInv', JInv, NEW a \in Client, NEW x, Delivers(a, x), NEW f \in File,
           toServer'[a] = toServer[a], IsOf(x, "DWSTART", f) => Holds(a, f),
           Holds(a, f)' <=> Holds(a, f), Kept(a, f)' = Kept(a, f),
           Holds(a, f) => downloads'[a][f].paused = downloads[a][f].paused
    PROVE  Line(a, f)'
<1>1. /\ ~IsOf(x, "DWSTART", f) =>
            (In(toClient[a], "DWSTART", f) => In(toClient'[a], "DWSTART", f))
      /\ In(toClient'[a], "DWERR", f) => In(toClient[a], "DWERR", f)
      /\ AlikeFrames(toClient[a], toClient'[a], f, Ours(a, f))
      /\ UNCHANGED <<serverVars, requested, uploaded>> /\ Line(a, f)
  BY Delivered
<1>2. Alike(toServer[a], toServer'[a], f, Ours(a, f)) BY AlikeItself
<1> QED BY <1>1, <1>2, LinePassed

\* A frame on which the browser sends nothing.
LEMMA DeliveredMove ==
    ASSUME IInv, IInv', JInv, NEW a \in Client, NEW x, Delivers(a, x), UNCHANGED toServer,
           \A c \in Client \ {a} : downloads'[c] = downloads[c],
           \A c \in Client : DOMAIN uploadSessions'[c] \subseteq DOMAIN uploaded,
           \A f \in File : Line(a, f)'
    PROVE  JInv'
<1>1. BrowserMove(a) BY Delivered DEF BrowserMove
<1> QED BY <1>1, BrowserMoves

\* A frame that changes no download.
LEMMA DeliveredQuietly ==
    ASSUME IInv, IInv', JInv, NEW a \in Client, NEW x, Delivers(a, x),
           UNCHANGED <<toServer, downloads>>, x.kind = "DWSTART" => Holds(a, x.file),
           \A c \in Client : DOMAIN uploadSessions'[c] \subseteq DOMAIN uploaded
    PROVE  JInv'
<1>1. ASSUME NEW f \in File PROVE Line(a, f)'
  <2>1. IsOf(x, "DWSTART", f) => Holds(a, f) BY DEF IsOf
  <2>2. /\ Holds(a, f)' <=> Holds(a, f)
        /\ Kept(a, f)' = Kept(a, f)
        /\ downloads'[a][f].paused = downloads[a][f].paused
    BY Unmoved
  <2> QED BY <2>1, <2>2, DeliveredPasses
<1> QED BY <1>1, DeliveredMove

\* A frame on which the browser gives up some downloads.
LEMMA DeliveredDrops ==
    ASSUME IInv, IInv', JInv, NEW a \in Client, NEW x, Delivers(a, x), x.kind # "DWSTART",
           UNCHANGED <<toServer, uploadSessions>>, NEW files, WithoutDownloads(a, files),
           \A f \in files \cap File :
              /\ Gone(f) \/ Settled(a, f)
              /\ \A i \in Ours(a, f), B \in SUBSET (0..(Size - 1)) :
                    Course(a, f, i, B) => StopIn(toServer[a], f) \/ Doomed(a, i, B)
    PROVE  JInv'
<1>1. /\ UNCHANGED <<serverVars, requested, uploaded>> /\ ServerTypes /\ DownloadsGood
      /\ \A f : In(toClient'[a], "DWERR", f) => In(toClient[a], "DWERR", f)
      /\ \A f, ids : AlikeFrames(toClient[a], toClient'[a], f, ids)
      /\ \A f \in File : Line(a, f)
  BY Delivered
<1>2. /\ \A f \in files : ~Holds(a, f)'
      /\ \A f : f \notin files => /\ Holds(a, f)' <=> Holds(a, f)
                                  /\ Kept(a, f)' = Kept(a, f)
                                  /\ Holds(a, f) => downloads'[a][f].paused = downloads[a][f].paused
      /\ \A c \in Client \ {a} : downloads'[c] = downloads[c]
  BY <1>1, WithoutIs
<1>3. ASSUME NEW f \in File PROVE Line(a, f)'
  <2>1. CASE f \in files BY <1>1, <1>2, <2>1, LineDropped
  <2>2. CASE f \notin files
    <3>1. ~IsOf(x, "DWSTART", f) BY DEF IsOf
    <3> QED BY <1>2, <2>2, <3>1, DeliveredPasses
  <2> QED BY <2>1, <2>2
<1>4. \A c \in Client : DOMAIN uploadSessions'[c] \subseteq DOMAIN uploaded BY DEF JInv, Offers
<1> QED BY <1>2, <1>3, <1>4, DeliveredMove

\* DWSTART opens a download, DWDATA fills it.
LEMMA DeliveredStart ==
    ASSUME IInv, IInv', JInv, NEW a \in Client, NEW x, Delivers(a, x), x.kind = "DWSTART",
           UNCHANGED <<toServer, uploadSessions>>, ~Holds(a, x.file), x.file \in File,
           NEW d, WithDownload(a, x.file, d), d.chunks = {}, d.paused = FALSE
    PROVE  JInv'
<1>1. /\ UNCHANGED <<serverVars, requested, uploaded>> /\ ServerTypes /\ DownloadsGood
      /\ toClient[a] # <<>> /\ x = Head(toClient[a]) /\ toClient'[a] = Tail(toClient[a])
      /\ \A f \in File : Line(a, f)
  BY Delivered
<1>g. PICK g \in File : g = x.file OBVIOUS
<1>2. /\ Holds(a, g)' /\ downloads'[a][g] = d
      /\ \A f : f # g => /\ Holds(a, f)' <=> Holds(a, f)
                         /\ Kept(a, f)' = Kept(a, f)
                         /\ Holds(a, f) => downloads'[a][f].paused = downloads[a][f].paused
      /\ \A c \in Client \ {a} : downloads'[c] = downloads[c]
  BY <1>1, <1>g, WithIs
<1>3. ASSUME NEW f \in File PROVE Line(a, f)'
  <2>1. CASE f = g
    <3>1. Kept(a, g)' = {} /\ ~downloads'[a][g].paused BY <1>2 DEF Kept
    <3>2. IsOf(Head(toClient[a]), "DWSTART", g) /\ ~Holds(a, g) BY <1>1, <1>g DEF IsOf
    <3>3. Line(a, g) /\ toServer'[a] = toServer[a] BY <1>1
    <3> QED BY <1>1, <1>2, <2>1, <3>1, <3>2, <3>3, LineOpened
  <2>2. CASE f # g
    <3>1. ~IsOf(x, "DWSTART", f) BY <1>g, <2>2 DEF IsOf
    <3> QED BY <1>2, <2>2, <3>1, DeliveredPasses
  <2> QED BY <2>1, <2>2
<1>4. \A c \in Client : DOMAIN uploadSessions'[c] \subseteq DOMAIN uploaded BY DEF JInv, Offers
<1> QED BY <1>2, <1>3, <1>4, DeliveredMove

LEMMA DeliveredData ==
    ASSUME IInv, IInv', JInv, NEW a \in Client, NEW x, Delivers(a, x), x.kind = "DWDATA",
           UNCHANGED uploadSessions, Holds(a, x.file), x.file \in File, x.id \in Nat, x.off \in Nat,
           NEW d, WithDownload(a, x.file, d), d.paused = downloads[a][x.file].paused,
           d.chunks = downloads[a][x.file].chunks \cup {x.off},
           NEW m \in Command, m.kind = "DWACK", m.id = x.id, m.off = x.off, Send(a, m)
    PROVE  JInv'
<1>1. /\ UNCHANGED <<serverVars, requested, uploaded>> /\ ServerTypes /\ DownloadsGood
      /\ toClient[a] # <<>> /\ x = Head(toClient[a]) /\ toClient'[a] = Tail(toClient[a])
      /\ x \in GoodFrame /\ KnownFrame(x) /\ toClient[a] \in Seq(GoodFrame)
      /\ \A f \in File : Line(a, f)
  BY Delivered
<1>o. DownloadsGood BY <1>1
<1>d. /\ \A c \in Client \ {a} : toClient'[c] = toClient[c]
      /\ \A c \in Client : \A y \in ToSet(toClient'[c]) : y \in ToSet(toClient[c])
      /\ \A f : In(toClient[a], "DWSTART", f) => In(toClient'[a], "DWSTART", f)
      /\ \A f : In(toClient'[a], "DWERR", f) => In(toClient[a], "DWERR", f)
      /\ \A f, ids : AlikeFrames(toClient[a], toClient'[a], f, ids)
      /\ alive[a]
  BY Delivered DEF IsOf
<1>g. PICK g \in File : g = x.file OBVIOUS
<1>2. /\ Holds(a, g)' /\ downloads'[a][g] = d
      /\ \A f : f # g => /\ Holds(a, f)' <=> Holds(a, f)
                         /\ Kept(a, f)' = Kept(a, f)
                         /\ Holds(a, f) => downloads'[a][f].paused = downloads[a][f].paused
      /\ \A c \in Client \ {a} : downloads'[c] = downloads[c]
  BY <1>o, <1>g, WithIs
<1>3. /\ \A c \in Client : \A y \in ToSet(toServer'[c]) : y \in ToSet(toServer[c]) \/ y = m
      /\ toServer'[a] = Append(toServer[a], m) /\ toServer[a] \in Seq(Command)
      /\ \A c \in Client \ {a} : toServer'[c] = toServer[c]
  BY <1>1, SendMembers
<1>4. Known(m) BY <1>1 DEF Known, KnownFrame
<1>5. BrowserMove(a) BY <1>1, <1>d, <1>2, <1>3, <1>4 DEF BrowserMove, JInv, Offers
<1>6. /\ Holds(a, g) /\ Kept(a, g)' = Kept(a, g) \cup {x.off}
      /\ downloads'[a][g].paused = downloads[a][g].paused
  BY <1>g, <1>2 DEF Kept
<1>7. ASSUME NEW f \in File PROVE Line(a, f)'
  <2>1. CASE f = g /\ x.id \in Ours(a, g)
    <3>1. IsData(x, x.id) /\ IsAck(m, x.id) BY DEF IsData, IsAck
    <3>2. Line(a, g) BY <1>1
    <3> QED BY <1>1, <1>2, <1>3, <1>6, <2>1, <3>1, <3>2, LineFilled
  <2>2. CASE ~(f = g /\ x.id \in Ours(a, g))
    <3>1. x.id \notin Ours(a, f)
      <4>1. CASE f = g BY <2>2, <4>1
      <4>2. ASSUME f # g, x.id \in Ours(a, f) PROVE FALSE
        <5>1. PICK B \in SUBSET (0..(Size - 1)) : Session(a, f, x.id, B) BY <1>1, <4>2 DEF Line
        <5>2. DataOf(toClient[a], x.id, f) BY <5>1 DEF Session, Stage
        <5>3. IsData(Head(toClient[a]), x.id) BY <1>1 DEF IsData
        <5>4. Head(toClient[a]).file = f
          <6>1. PICK w \in Seq(GoodFrame) : w = toClient[a] /\ w # <<>> BY <1>1
          <6> QED BY <5>2, <5>3, <6>1, ReceivedData
        <5> QED BY <1>1, <1>g, <4>2, <5>4
      <4> QED BY <4>1, <4>2
    <3>2. ~Orders(m, f) /\ \A i \in Ours(a, f) : ~IsAck(m, i)
      BY <3>1 DEF Orders, IsStart, IsStop, IsAck
    <3>3. Alike(toServer[a], toServer'[a], f, Ours(a, f)) BY <1>3, <3>2, AlikeAppended
    <3>4. /\ Holds(a, f)' <=> Holds(a, f)
          /\ Kept(a, f) \subseteq Kept(a, f)'
          /\ Holds(a, f) => downloads'[a][f].paused = downloads[a][f].paused
      <4>1. CASE f = g BY <1>2, <1>6, <4>1
      <4>2. CASE f # g BY <1>2, <4>2
      <4> QED BY <4>1, <4>2
    <3>5. Line(a, f) BY <1>1
    <3> QED BY <1>1, <1>d, <3>3, <3>4, <3>5, LinePassed
  <2> QED BY <2>1, <2>2
<1> QED BY <1>5, <1>7, BrowserMoves

\* Whatever frame a browser receives.
LEMMA ReceiveKeeps ==
    ASSUME IInv, IInv', JInv, NEW a \in Client, Receive(a) PROVE JInv'
<1>1. PICK x : x = Head(toClient[a]) OBVIOUS
<1>2. Delivers(a, x) BY <1>1 DEF Receive, Delivers
<1>3. /\ x \in GoodFrame /\ KnownFrame(x) /\ Manager /\ DownloadsGood /\ GoneForGood
      /\ departed \subseteq {c \in Client : ~alive[c]}
      /\ \A f \in File : Line(a, f)
      /\ \A kind, f : IsOf(x, kind, f) => In(toClient[a], kind, f)
  BY <1>2, Delivered DEF IInv, ServerTypes
<1>4. /\ x.kind \in {"UPOK", "FILE", "DWSTART", "DWDATA", "DWNDONE", "DWERR"} => x.file \in File
      /\ x.kind = "DWDATA" => x.id \in Nat /\ x.off \in 0..(Size - 1)
  BY <1>3, GoodFrameTypes
<1>5. Offers /\ \A c \in Client : DOMAIN uploadSessions[c] \subseteq DOMAIN uploaded
  BY DEF JInv, Offers
<1>6. CASE x.kind = "UPOK" /\ BindUpload(a, x.file) /\ UNCHANGED <<downloads, toServer>>
  <2>1. x.file \in DOMAIN uploaded BY <1>3, <1>6 DEF KnownFrame
  <2>2. CASE UNCHANGED uploadSessions BY <1>2, <1>5, <1>6, <2>2, DeliveredQuietly
  <2>3. CASE pendingFile[a] # NoFile
    <3> DEFINE new == [g \in DOMAIN uploadSessions[a] \cup {x.file} |->
                          IF g = x.file THEN pendingFile[a] ELSE uploadSessions[a][g]]
    <3>1. uploadSessions' = [uploadSessions EXCEPT ![a] = new] BY <1>6, <2>3 DEF BindUpload
    <3>2. uploadSessions = [c \in Client |-> uploadSessions[c]] BY DEF IInv, UploadTypes
    <3>3. DOMAIN new \subseteq DOMAIN uploaded BY <1>5, <2>1
    <3> HIDE DEF new
    <3>4. \A c \in Client : uploadSessions'[c] = IF c = a THEN new ELSE uploadSessions[c]
      BY <3>1, <3>2
    <3>5. \A c \in Client : DOMAIN uploadSessions'[c] \subseteq DOMAIN uploaded BY <1>5, <3>3, <3>4
    <3> QED BY <1>2, <1>6, <3>5, DeliveredQuietly
  <2> QED BY <1>6, <2>2, <2>3 DEF BindUpload
<1>7. CASE x.kind = "FILE" /\ UNCHANGED <<uploadVars, downloads, toServer>>
  BY <1>2, <1>5, <1>7, DeliveredQuietly DEF uploadVars
<1>8. CASE /\ x.kind = "DWSTART" /\ UNCHANGED <<uploadVars, toServer>>
           /\ IF Holds(a, x.file)
              THEN UNCHANGED downloads
              ELSE WithDownload(a, x.file, [chunks |-> {}, paused |-> FALSE])
  <2>1. uploadSessions' = uploadSessions /\ toServer' = toServer BY <1>8 DEF uploadVars
  <2>2. CASE Holds(a, x.file) BY <1>2, <1>5, <1>8, <2>1, <2>2, DeliveredQuietly
  <2>3. CASE ~Holds(a, x.file)
    <3>1. PICK d : d = [chunks |-> {}, paused |-> FALSE] OBVIOUS
    <3>2. WithDownload(a, x.file, d) /\ d.chunks = {} /\ d.paused = FALSE BY <1>8, <2>3, <3>1
    <3> QED BY <1>2, <1>4, <1>8, <2>1, <2>3, <3>2, DeliveredStart
  <2> QED BY <2>2, <2>3
<1>9. CASE x.kind = "DWDATA" /\ ReceiveData(a, x) /\ UNCHANGED uploadVars
  <2>1. uploadSessions' = uploadSessions BY <1>9 DEF uploadVars
  <2>2. CASE ~Holds(a, x.file)
    <3>1. UNCHANGED <<downloads, toServer>> BY <1>9, <2>2 DEF ReceiveData
    <3> QED BY <1>2, <1>5, <1>9, <2>1, <3>1, DeliveredQuietly
  <2>3. CASE Holds(a, x.file)
    <3>1. PICK r : r = downloads[a][x.file] OBVIOUS
    <3>2. PICK d : d = [r EXCEPT !.chunks = r.chunks \cup {x.off}] OBVIOUS
    <3>3. PICK m : m = [kind |-> "DWACK", id |-> x.id, off |-> x.off] OBVIOUS
    <3>4. WithDownload(a, x.file, d) /\ Send(a, m) BY <1>9, <2>3, <3>1, <3>2, <3>3 DEF ReceiveData
    <3>5. d.paused = r.paused /\ d.chunks = r.chunks \cup {x.off}
      <4>1. r \in GoodDownload BY <1>3, <1>4, <1>9, <2>3, <3>1, HeldTypes
      <4> QED BY <3>2, <4>1 DEF GoodDownload
    <3>6. x.id \in Nat /\ x.off \in Nat /\ x.file \in File BY <1>4, <1>9
    <3>7. m \in Command /\ m.kind = "DWACK" /\ m.id = x.id /\ m.off = x.off
      <4>1. m \in [kind : {"DWACK"}, id : Nat, off : Nat] BY <3>3, <3>6
      <4> QED BY <3>3, <4>1 DEF Command
    <3> QED BY <1>2, <1>9, <2>1, <2>3, <3>1, <3>4, <3>5, <3>6, <3>7, DeliveredData
  <2> QED BY <2>2, <2>3
<1>10. CASE /\ x.kind = "DWNDONE" /\ UNCHANGED <<uploadVars, toServer>>
            /\ IF Holds(a, x.file) THEN FinishDownload(a, x.file) ELSE UNCHANGED <<downloads, saved>>
  <2>1. uploadSessions' = uploadSessions /\ toServer' = toServer BY <1>10 DEF uploadVars
  <2>2. CASE ~Holds(a, x.file)
    <3>1. downloads' = downloads BY <1>10, <2>2
    <3> QED BY <1>2, <1>5, <1>10, <2>1, <3>1, DeliveredQuietly
  <2>3. CASE Holds(a, x.file)
    <3>g. PICK g \in File : g = x.file BY <1>4, <1>10
    <3>1. WithoutDownloads(a, {g}) BY <1>10, <2>3, <3>g DEF FinishDownload
    <3>2. Over(a, g) BY <1>3, <1>10, <2>3, <3>g DEF Over, IsOf
    <3>3. Settled(a, g) BY <1>3, <3>2 DEF Line, Pair
    <3>4. ASSUME NEW i \in Ours(a, g), NEW B \in SUBSET (0..(Size - 1)), Course(a, g, i, B)
          PROVE  StopIn(toServer[a], g) \/ Doomed(a, i, B)
      BY <3>2, <3>4 DEF Course
    <3> QED BY <1>2, <1>10, <2>1, <3>1, <3>3, <3>4, DeliveredDrops
  <2> QED BY <2>2, <2>3
<1>11. CASE x.kind = "DWERR" /\ Expire(a, {x.file}) /\ UNCHANGED <<uploadVars, toServer>>
  <2>1. uploadSessions' = uploadSessions /\ toServer' = toServer BY <1>11 DEF uploadVars
  <2>g. PICK g \in File : g = x.file BY <1>4, <1>11
  <2>2. WithoutDownloads(a, {g}) BY <1>11, <2>g DEF Expire
  <2>3. In(toClient[a], "DWERR", g) BY <1>3, <1>11, <2>g DEF IsOf
  <2>4. Gone(g) BY <1>3, <2>3 DEF Line, Pair
  <2>5. ASSUME NEW i \in Ours(a, g), NEW B \in SUBSET (0..(Size - 1)), Course(a, g, i, B)
        PROVE  StopIn(toServer[a], g) \/ Doomed(a, i, B)
    BY <2>3, <2>5 DEF Course
  <2> QED BY <1>2, <1>11, <2>1, <2>2, <2>4, <2>5, DeliveredDrops
<1>12. CASE /\ x.kind = "LEAVE" /\ UNCHANGED <<uploadVars, toServer>>
            /\ Expire(a, {f \in fileSenders[a] : Owner[f] = x.who})
  <2>1. uploadSessions' = uploadSessions /\ toServer' = toServer BY <1>12 DEF uploadVars
  <2>2. PICK files : files = {f \in fileSenders[a] : Owner[f] = x.who} /\ WithoutDownloads(a, files)
    BY <1>12 DEF Expire
  <2>3. x.who \in departed /\ ~alive[x.who] BY <1>3, <1>12 DEF KnownFrame
  <2>4. ASSUME NEW f \in files \cap File
        PROVE  Gone(f) /\ Ours(a, f) = {}
    <3>1. Owner[f] = x.who BY <2>2
    <3>2. Gone(f) BY <2>3, <3>1 DEF Gone
    <3>3. ASSUME NEW i \in Ours(a, f) PROVE FALSE
      <4>1. i \in DOMAIN sessions /\ Uploader(i) = x.who BY <3>1 DEF Ours, Uploader
      <4> QED BY <1>3, <2>3, <4>1 DEF GoneForGood
    <3> QED BY <3>2, <3>3
  <2>5. \A f \in files \cap File :
           /\ Gone(f) \/ Settled(a, f)
           /\ \A i \in Ours(a, f), B \in SUBSET (0..(Size - 1)) :
                 Course(a, f, i, B) => StopIn(toServer[a], f) \/ Doomed(a, i, B)
    BY <2>4
  <2> QED BY <1>2, <1>12, <2>1, <2>2, <2>5, DeliveredDrops
<1> QED BY <1>1, <1>6, <1>7, <1>8, <1>9, <1>10, <1>11, <1>12 DEF Receive

-------------------------------------------------------------------------------
(* The theorem *)

\* The inductive invariant: it holds at first, and every step keeps it.
LEMMA InitJInv == Init => JInv
<1> SUFFICES ASSUME Init PROVE JInv OBVIOUS
<1>1. /\ sessions = <<>> /\ registrations = {} /\ handling = [c \in Client |-> Idle]
      /\ toServer = [c \in Client |-> <<>>] /\ toClient = [c \in Client |-> <<>>]
      /\ requested = {} /\ uploadSessions = [c \in Client |-> <<>>]
      /\ downloads = [c \in Client |-> <<>>]
  BY DEF Init, Silent, ManagerInit
<1>2. Len(<<>>) = 0 /\ DOMAIN <<>> = {} /\ ToSet(<<>>) = {} BY DEF ToSet
<1>3. DOMAIN sessions = {} BY <1>1, <1>2
<1>4. Lanes
  <2>1. Idle.requests = {} /\ Idle.step = "idle" BY DEF Idle
  <2> QED BY <1>1, <2>1 DEF Lanes, Lane
<1>5. Messages BY <1>1, <1>2 DEF Messages
<1>6. Offers BY <1>1, <1>2, <1>3 DEF Offers
<1>7. ASSUME NEW c \in Client, NEW f \in File PROVE Line(c, f)
  <2>1. \A n : n \notin 1..Len(toServer[c]) /\ n \notin 1..Len(toClient[c]) BY <1>1, <1>2
  <2>2. ~Holds(c, f) /\ Ours(c, f) = {} BY <1>1, <1>2, <1>3 DEF Holds, Ours
  <2>3. handling[c].file # f
    <3>1. handling[c].file = NoFile BY <1>1 DEF Idle
    <3> QED BY <3>1, ClientAssumption
  <2>4. Pair(c, f)
    <3>1. Alternate(toServer[c], f) /\ \A kept : Resumes(toServer[c], f, kept)
      BY <2>1 DEF Alternate, Resumes
    <3>2. /\ DoneFirst(toClient[c], f) /\ ~Over(c, f) /\ ~In(toClient[c], "DWERR", f)
      BY <2>1, <2>2 DEF DoneFirst, Over, In
    <3> QED BY <2>2, <2>3, <3>1, <3>2 DEF Pair
  <2> QED BY <2>2, <2>4 DEF Line
<1> QED BY <1>4, <1>5, <1>6, <1>7 DEF JInv, Lines

LEMMA StutterKeeps ==
    ASSUME IInv, IInv', JInv, UNCHANGED vars PROVE JInv'
<1>1. UNCHANGED <<serverVars, toServer, toClient, requested, uploaded, uploadSessions, downloads>>
  BY DEF vars, browserVars, uploadVars, downloadVars
<1>2. /\ UNCHANGED <<registrations, sessions, nextSession, alive, handling, departed>>
      /\ Manager /\ Lanes /\ Messages /\ Offers /\ Lines
  BY <1>1 DEF serverVars, managerVars, fileVars, sessionVars, IInv, JInv
<1>3. Issued' = Issued BY <1>2, IssuedGrows
<1>4. Messages' /\ Lanes' /\ Offers' BY <1>1, <1>2, <1>3, MessagesKept, LanesKept DEF Offers
<1>5. ASSUME NEW c \in Client, alive'[c], NEW f \in File PROVE Line(c, f)'
  <2>1. QuietLane(c, f) /\ QuietWire(c, f, Ours(c, f)) BY <1>1 DEF QuietLane, QuietWire
  <2> QED BY <1>1, <1>2, <1>5, <2>1, PassingBy
<1> QED BY <1>4, <1>5 DEF JInv, Lines

\* Every step keeps all that is said of every client and file.
LEMMA NextJInv == Patient /\ IInv /\ IInv' /\ JInv /\ [Next]_vars => JInv'
<1> SUFFICES ASSUME Patient, IInv, IInv', JInv, [Next]_vars PROVE JInv' OBVIOUS
<1>1. ASSUME NEW c \in Client, Server(c) PROVE JInv'
  BY <1>1, FindFileKeeps, StartDownloadKeeps, AnswerDownloadKeeps, HandleChunkKeeps,
     HandleAckKeeps, HandleStopKeeps, HandleUploadKeeps, HandleUpCancelKeeps, CleanupLines
     DEF Server
<1>2. ASSUME NEW c \in Client, Browser(c) PROVE JInv'
  BY <1>2, IgnoreRequestKeeps, ReceiveKeeps DEF Browser
<1>3. ASSUME NEW c \in Client, User(c) PROVE JInv'
  BY <1>3, SelectKeeps, SendUploadKeeps, ClickCancelUploadKeeps, ClickDownloadKeeps,
     ClickPauseKeeps, ClickResumeKeeps, ClickCancelKeeps, CloseKeeps DEF User
<1> QED BY <1>1, <1>2, <1>3, StutterKeeps DEF Next

\* What a browser hands over holds every chunk, if what it held did.
LEMMA HandedOver ==
    ASSUME DownloadsGood, DoneMeansAll, NEW c \in Client, NEW f \in File, Holds(c, f), Whole(c, f),
           FinishDownload(c, f)
    PROVE  DoneMeansAll'
<1>1. PICK chunks : chunks = downloads[c][f].chunks OBVIOUS
<1>2. chunks = 0..(Size - 1) BY <1>1, HeldTypes DEF Whole, Kept
<1>3. saved' = saved \cup {[file |-> f, chunks |-> chunks]} BY <1>1 DEF FinishDownload
<1> QED BY <1>2, <1>3 DEF DoneMeansAll

\* And a step from it hands over only whole files.
LEMMA NextDone == IInv /\ JInv /\ DoneMeansAll /\ [Next]_vars => DoneMeansAll'
<1> SUFFICES ASSUME IInv, JInv, DoneMeansAll, [Next]_vars PROVE DoneMeansAll' OBVIOUS
<1>1. DownloadsGood /\ ServerTypes BY DEF IInv, DownloadTypes
<1>2. CASE UNCHANGED saved BY <1>2 DEF DoneMeansAll
<1>3. ASSUME NEW c \in Client, Receive(c) PROVE DoneMeansAll'
  <2>1. PICK x : x = Head(toClient[c]) OBVIOUS
  <2>2. CASE x.kind = "DWNDONE" /\ Holds(c, x.file) /\ FinishDownload(c, x.file)
    <3>1. toClient[c] \in Seq(GoodFrame) /\ toClient[c] # <<>> /\ alive[c]
      BY <1>1, <1>3 DEF Receive, ServerTypes
    <3>2. x \in GoodFrame BY <2>1, <3>1, TailIndices
    <3>3. PICK g \in File : g = x.file BY <2>2, <3>2, GoodFrameTypes
    <3>4. IsOf(Head(toClient[c]), "DWNDONE", g) BY <2>1, <2>2, <3>3 DEF IsOf
    <3>5. In(toClient[c], "DWNDONE", g) BY <3>1, <3>4, Received
    <3>6. Whole(c, g) BY <2>2, <3>1, <3>3, <3>5 DEF JInv, Lines, Line, Pair
    <3> QED BY <1>1, <2>2, <3>3, <3>6, HandedOver
  <2> QED BY <1>2, <1>3, <2>1, <2>2 DEF Receive
<1>4. ASSUME NEW c \in Client, NEW f \in File, ClickResume(c, f) PROVE DoneMeansAll'
  <2>1. PICK chunks : chunks = downloads[c][f].chunks OBVIOUS
  <2>2. CASE Checkpoint(chunks) = Size /\ FinishDownload(c, f)
    <3>1. Holds(c, f) BY <1>4 DEF ClickResume
    <3>2. chunks \in SUBSET (0..(Size - 1)) BY <1>1, <2>1, <3>1, HeldTypes
    <3>3. 0..(Size - 1) \subseteq chunks BY <2>2, <3>2, CheckpointIsFirstGap
    <3>4. Whole(c, f) BY <2>1, <3>1, <3>3 DEF Whole, Kept
    <3> QED BY <1>1, <2>2, <3>1, <3>4, HandedOver
  <2> QED BY <1>2, <1>4, <2>1, <2>2 DEF ClickResume
<1>5. ASSUME NEW c \in Client, Server(c) \/ IgnoreRequest(c) PROVE UNCHANGED saved
  BY <1>5 DEF Server, FindFile, StartDownload, AnswerDownload, HandleChunk, HandleAck, HandleStop,
     HandleUpload, HandleUpCancel, Cleanup, IgnoreRequest, browserVars, downloadVars
<1>6. ASSUME NEW c \in Client, User(c), ~(\E f \in File : ClickResume(c, f)) PROVE UNCHANGED saved
  BY <1>6 DEF User, Select, SendUpload, ClickCancelUpload, ClickDownload, ClickPause, ClickCancel,
     Close, browserVars, downloadVars
<1>7. UNCHANGED vars => UNCHANGED saved BY DEF vars, browserVars, downloadVars
<1> QED BY <1>2, <1>3, <1>4, <1>5, <1>6, <1>7 DEF Next, Browser

\* handleDWNDONE and resumeDownload: what a browser hands its user as finished is the whole file,
\* whatever was paused, resumed, cancelled or late on the way - if nobody asks for a file again
\* before the browser has the answer to the last time.
THEOREM DoneIsWhole == Patient => (Spec => []DoneMeansAll)
<1> SUFFICES ASSUME Patient PROVE Spec => []DoneMeansAll OBVIOUS
<1>1. Init => IInv /\ JInv /\ DoneMeansAll
  <2>1. Init => DoneMeansAll BY DEF Init, DoneMeansAll
  <2> QED BY <2>1, InitIInv, InitJInv
<1>2. IInv /\ JInv /\ DoneMeansAll /\ [Next]_vars => IInv' /\ JInv' /\ DoneMeansAll'
  BY NextIInv, NextJInv, NextDone
<1> QED BY <1>1, <1>2, PTL DEF Spec

-------------------------------------------------------------------------------
(* Uploads: an UPOK finds the file it was asked for *)

\* A queue is behind itself, its tail, and itself with a message of another kind appended.
LEMMA BehindAll ==
    ASSUME NEW S, NEW q \in Seq(S), NEW kind
    PROVE  /\ Behind(q, q, kind) /\ Behind(q, <<>>, kind)
           /\ q # <<>> => Behind(q, Tail(q), kind)
           /\ \A m \in S : m.kind # kind => Behind(q, Append(q, m), kind)
           /\ \A s \in Seq(S) : NoneOf(s, kind) => Behind(q, q \o s, kind)
<1>1. Behind(q, q, kind) /\ Behind(q, <<>>, kind)
  <2>1. Len(q) \in Nat /\ Len(<<>>) = 0 OBVIOUS
  <2> QED BY <2>1 DEF Behind
<1>2. ASSUME q # <<>> PROVE Behind(q, Tail(q), kind)
  <2>1. /\ Len(q) \in Nat \ {0} /\ Len(Tail(q)) = Len(q) - 1
        /\ \A n \in 1..Len(Tail(q)) : Tail(q)[n] = q[n + 1]
    BY <1>2, TailIndices
  <2>2. \A n \in 1..Len(Tail(q)) : n + 1 \in 1..Len(q) /\ Tail(q)[n] = q[n + 1] BY <2>1
  <2> QED BY <2>2 DEF Behind
<1>3. ASSUME NEW s \in Seq(S), NoneOf(s, kind) PROVE Behind(q, q \o s, kind)
  <2> DEFINE v == q \o s
  <2>1. /\ Len(v) = Len(q) + Len(s) /\ Len(q) \in Nat /\ Len(s) \in Nat
        /\ \A n \in 1..Len(q) : v[n] = q[n]
        /\ \A n \in 1..Len(v) : n > Len(q) => n - Len(q) \in 1..Len(s) /\ v[n] = s[n - Len(q)]
    OBVIOUS
  <2>2. \A n \in 1..Len(s) : s[n].kind # kind BY <1>3 DEF NoneOf, ToSet
  <2> HIDE DEF v
  <2>3. \A n \in 1..Len(v) : v[n].kind = kind => n + 0 \in 1..Len(q) /\ v[n] = q[n + 0]
    BY <2>1, <2>2
  <2> QED BY <2>3 DEF Behind, v
<1>4. ASSUME NEW m \in S, m.kind # kind PROVE Behind(q, Append(q, m), kind)
  <2> DEFINE v == Append(q, m)
  <2>1. /\ Len(v) = Len(q) + 1 /\ Len(q) \in Nat /\ v[Len(q) + 1] = m
        /\ \A n \in 1..Len(q) : v[n] = q[n]
    OBVIOUS
  <2> HIDE DEF v
  <2>2. \A n \in 1..Len(v) : v[n].kind = kind => n + 0 \in 1..Len(q) /\ v[n] = q[n + 0]
    BY <1>4, <2>1
  <2> QED BY <2>2 DEF Behind, v
<1> QED BY <1>1, <1>2, <1>3, <1>4

\* What is behind a queue has no message of the kind that the queue has not, and none twice.
LEMMA BehindOne ==
    ASSUME NEW q, NEW r, NEW S, q \in Seq(S), NEW T, r \in Seq(T), NEW kind, Behind(q, r, kind)
    PROVE  /\ One(q, kind) => One(r, kind)
           /\ \A x \in ToSet(r) : x.kind = kind => x \in ToSet(q)
<1>1. PICK d \in Nat : \A n \in 1..Len(r) : r[n].kind = kind => n + d \in 1..Len(q) /\ r[n] = q[n + d]
  BY DEF Behind
<1>2. ASSUME One(q, kind), NEW m \in 1..Len(r), NEW n \in 1..Len(r), r[m].kind = kind, r[n].kind = kind
      PROVE  m = n
  <2>1. m + d \in 1..Len(q) /\ n + d \in 1..Len(q) /\ q[m + d].kind = kind /\ q[n + d].kind = kind BY <1>1, <1>2
  <2>2. m + d = n + d BY <1>2, <2>1, Zenon DEF One
  <2>3. m \in Int /\ n \in Int OBVIOUS
  <2> QED BY <2>2, <2>3
<1>3. ASSUME NEW x \in ToSet(r), x.kind = kind PROVE x \in ToSet(q)
  <2>1. PICK n \in 1..Len(r) : x = r[n] BY DEF ToSet
  <2>2. n + d \in 1..Len(q) /\ x = q[n + d] BY <1>1, <1>3, <2>1
  <2> QED BY <2>2 DEF ToSet
<1> QED BY <1>2, <1>3 DEF One

\* A message is the only one of its kind if there was none, and none is left if it was the only one.
LEMMA OneMore ==
    ASSUME NEW S, NEW q \in Seq(S), NEW m \in S, NEW kind, NoneOf(q, kind)
    PROVE  One(Append(q, m), kind)
<1> DEFINE v == Append(q, m)
<1>1. /\ Len(v) = Len(q) + 1 /\ Len(q) \in Nat
      /\ \A n \in 1..Len(q) : v[n] = q[n]
  OBVIOUS
<1> HIDE DEF v
<1>2. \A n \in 1..Len(q) : q[n].kind # kind BY DEF NoneOf, ToSet
<1>3. \A n \in 1..Len(v) : v[n].kind = kind => n = Len(q) + 1 BY <1>1, <1>2
<1> QED BY <1>3 DEF One, v

\* Once the only message of a kind is taken, none of it is left.
LEMMA OneLess ==
    ASSUME NEW S, NEW q \in Seq(S), q # <<>>, NEW kind, One(q, kind), Head(q).kind = kind
    PROVE  NoneOf(Tail(q), kind)
<1>1. /\ Head(q) = q[1] /\ Tail(q) \in Seq(S)
      /\ Len(q) \in Nat \ {0} /\ Len(Tail(q)) = Len(q) - 1
      /\ \A n \in 1..Len(Tail(q)) : Tail(q)[n] = q[n + 1]
  BY TailIndices
<1>2. ASSUME NEW n \in 1..Len(Tail(q)) PROVE Tail(q)[n].kind # kind
  <2>1. n + 1 \in 1..Len(q) /\ 1 \in 1..Len(q) /\ n + 1 # 1 /\ Tail(q)[n] = q[n + 1] BY <1>1
  <2> QED BY <1>1, <2>1 DEF One
<1> QED BY <1>2 DEF NoneOf, ToSet

\* What is left of a sequence.
LEMMA StillIn ==
    ASSUME NEW S, NEW q \in Seq(S)
    PROVE  /\ q # <<>> => \A x \in ToSet(q) : x = Head(q) \/ x \in ToSet(Tail(q))
           /\ \A s \in Seq(S) : ToSet(q) \subseteq ToSet(q \o s)
<1>1. ASSUME q # <<>>, NEW x \in ToSet(q), x # Head(q) PROVE x \in ToSet(Tail(q))
  <2>1. /\ Head(q) = q[1] /\ Len(q) \in Nat \ {0} /\ Len(Tail(q)) = Len(q) - 1
        /\ Tail(q) \in Seq(S) /\ \A n \in 1..Len(Tail(q)) : Tail(q)[n] = q[n + 1]
    BY <1>1, TailIndices
  <2>2. PICK n \in 1..Len(q) : x = q[n] BY <1>1 DEF ToSet
  <2>3. n # 1 BY <1>1, <2>1, <2>2
  <2>4. PICK l \in 1..Len(Tail(q)) : n = l + 1 BY <2>1, <2>2, <2>3
  <2>5. x = Tail(q)[l] /\ l \in DOMAIN Tail(q) BY <2>1, <2>2, <2>4
  <2> QED BY <2>5 DEF ToSet
<1>2. ASSUME NEW s \in Seq(S), NEW x \in ToSet(q) PROVE x \in ToSet(q \o s)
  <2>1. PICK n \in 1..Len(q) : x = q[n] BY DEF ToSet
  <2>2. n \in 1..Len(q \o s) /\ (q \o s)[n] = q[n] OBVIOUS
  <2> QED BY <2>1, <2>2 DEF ToSet
<1> QED BY <1>1, <1>2

\* What taking, sending and posting do to the queues.
LEMMA TakesSheds ==
    ASSUME ServerTypes, NEW a \in Client, NEW kinds, Takes(a, kinds), NEW c \in Client
    PROVE  /\ Behind(toServer[c], toServer'[c], "UPLOAD")
           /\ \A m \in ToSet(toServer[c]) : m \in ToSet(toServer'[c]) \/ (c = a /\ m = Head(toServer[a]))
<1>1. PICK q \in Seq(Command) : q = toServer[c] BY DEF ServerTypes
<1>2. \/ c # a /\ toServer'[c] = q
      \/ c = a /\ q # <<>> /\ toServer'[c] = Tail(q)
  BY <1>1, TakesMembers
<1> QED BY <1>1, <1>2, BehindAll, StillIn

\* What is sent and posted puts no UPLOAD, and no UPOK, on the way unless it is one.
LEMMA SendSheds ==
    ASSUME ServerTypes, NEW a \in Client, NEW m \in Command, Send(a, m), NEW c \in Client
    PROVE  /\ m.kind # "UPLOAD" => Behind(toServer[c], toServer'[c], "UPLOAD")
           /\ ToSet(toServer[c]) \subseteq ToSet(toServer'[c])
<1>1. PICK q \in Seq(Command) : q = toServer[c] BY DEF ServerTypes
<1>2. toServer'[c] = q \/ toServer'[c] = Append(q, m) BY <1>1, SendMembers
<1>3. Behind(q, q, "UPLOAD") /\ (m.kind # "UPLOAD" => Behind(q, Append(q, m), "UPLOAD"))
  BY BehindAll
<1>4. ToSet(Append(q, m)) = ToSet(q) \cup {m} BY MembersOf
<1> QED BY <1>1, <1>2, <1>3, <1>4

LEMMA PostSheds ==
    ASSUME ServerTypes, NEW frames \in [Client -> Seq(GoodFrame)], Post(frames), NEW c \in Client
    PROVE  /\ NoneOf(frames[c], "UPOK") => Behind(toClient[c], toClient'[c], "UPOK")
           /\ ToSet(toClient[c]) \subseteq ToSet(toClient'[c])
<1>1. PICK w \in Seq(GoodFrame), s \in Seq(GoodFrame) : w = toClient[c] /\ s = frames[c]
  BY DEF ServerTypes
<1>2. toClient'[c] = w \/ toClient'[c] = w \o s BY <1>1 DEF Post
<1> QED BY <1>1, <1>2, BehindAll, StillIn

\* A kind that a sequence of one, or of none, has not.
LEMMA NoneIn ==
    ASSUME NEW kind
    PROVE  /\ NoneOf(<<>>, kind) /\ <<>> \in Seq(GoodFrame)
           /\ \A x \in GoodFrame : x.kind # kind => NoneOf(<<x>>, kind) /\ <<x>> \in Seq(GoodFrame)
<1>1. ToSet(<<>>) = {} /\ \A x : ToSet(<<x>>) = {x} BY DEF ToSet
<1>2. <<>> \in Seq(GoodFrame) /\ \A x \in GoodFrame : <<x>> \in Seq(GoodFrame) OBVIOUS
<1> QED BY <1>1, <1>2 DEF NoneOf

LEMMA OnlyToSheds ==
    ASSUME ServerTypes, NEW a \in Client, NEW s \in Seq(GoodFrame), Post(OnlyTo(a, s)),
           NoneOf(s, "UPOK"), NEW c \in Client
    PROVE  Behind(toClient[c], toClient'[c], "UPOK") /\ ToSet(toClient[c]) \subseteq ToSet(toClient'[c])
<1>1. OnlyTo(a, s) \in [Client -> Seq(GoodFrame)] BY OnlyToTypes
<1>2. OnlyTo(a, s)[c] = IF c = a THEN s ELSE <<>> BY DEF OnlyTo, Silent
<1> QED BY <1>1, <1>2, NoneIn, PostSheds

\* A step of the server takes the first command of a client, and of uploads says what HandleUpload
\* does.
LEMMA ServerQueues ==
    ASSUME IInv, NEW a \in Client, Server(a), NEW c \in Client, alive'[c]
    PROVE  /\ alive[c]
           /\ Behind(toServer[c], toServer'[c], "UPLOAD")
           /\ HandleUpload(a) \/ Behind(toClient[c], toClient'[c], "UPOK")
           /\ \A m \in ToSet(toServer[c]) : m \in ToSet(toServer'[c]) \/ (c = a /\ m = Head(toServer[a]))
           /\ ToSet(toClient[c]) \subseteq ToSet(toClient'[c])
<1>1. /\ ServerTypes /\ Manager /\ toServer[c] \in Seq(Command) /\ toClient[c] \in Seq(GoodFrame)
      /\ handling[a] \in Handling
  BY DEF IInv, ServerTypes
<1>2. /\ Behind(toServer[c], toServer[c], "UPLOAD") /\ Behind(toClient[c], toClient[c], "UPOK")
      /\ Behind(toServer[c], <<>>, "UPLOAD")
  BY <1>1, BehindAll
<1>3. CASE FindFile(a)
  <2>1. Takes(a, {"DOWNLOAD"}) /\ alive' = alive /\ Head(toServer[a]).file \in File
    <3>1. Takes(a, {"DOWNLOAD"}) /\ alive' = alive BY <1>3 DEF FindFile
    <3> QED BY <1>1, <3>1, TakesTypes, CommandTypes
  <2>2. PICK x \in GoodFrame : x = [kind |-> "DWERR", file |-> Head(toServer[a]).file] /\ x.kind # "UPOK"
    BY <2>1, FrameTypes
  <2>3. UNCHANGED toClient \/ Post(OnlyTo(a, <<x>>)) BY <1>3, <2>2 DEF FindFile
  <2>4. <<x>> \in Seq(GoodFrame) /\ NoneOf(<<x>>, "UPOK") BY <2>2, NoneIn
  <2>5. Behind(toClient[c], toClient'[c], "UPOK") /\ ToSet(toClient[c]) \subseteq ToSet(toClient'[c])
    BY <1>1, <1>2, <2>3, <2>4, OnlyToSheds
  <2> QED BY <1>1, <2>1, <2>5, TakesSheds
<1>4. CASE StartDownload(a) BY <1>2, <1>4 DEF StartDownload
<1>5. CASE AnswerDownload(a)
  <2> DEFINE f == handling[a].file
             s == IF alive[Owner[f]] THEN <<[kind |-> "DWSTART", file |-> f]>>
                  ELSE <<[kind |-> "DWSTART", file |-> f], [kind |-> "DWERR", file |-> f]>>
  <2>1. Post(OnlyTo(a, s)) /\ UNCHANGED <<alive, toServer>> /\ f \in File
    BY <1>1, <1>5 DEF AnswerDownload, ServerTypes
  <2>2. PICK x \in GoodFrame, y \in GoodFrame :
            /\ x = [kind |-> "DWSTART", file |-> f] /\ x.kind # "UPOK"
            /\ y = [kind |-> "DWERR", file |-> f] /\ y.kind # "UPOK"
    BY <2>1, FrameTypes
  <2>3. s \in Seq(GoodFrame) /\ NoneOf(s, "UPOK")
    <3>1. s = <<x>> \/ s = <<x, y>> BY <2>2
    <3>2. ToSet(<<x>>) = {x} /\ ToSet(<<x, y>>) = {x, y} BY DEF ToSet
    <3> QED BY <2>2, <3>1, <3>2 DEF NoneOf
  <2> HIDE DEF f, s
  <2> QED BY <1>1, <1>2, <2>1, <2>3, OnlyToSheds
<1>6. CASE HandleChunk(a)
  <2>1. UNCHANGED <<alive, toServer>> BY <1>6 DEF HandleChunk
  <2>2. PICK x \in Asked(a) :
           \/ /\ TakesChunk(a, x.id, x.off)
              /\ Post(OnlyTo(sessions[x.id].downloader,
                   <<[kind |-> "DWDATA", file |-> sessions[x.id].file, id |-> x.id, off |-> x.off]>>))
           \/ UNCHANGED toClient
    BY <1>6 DEF HandleChunk
  <2>3. CASE UNCHANGED toClient BY <1>2, <2>1, <2>3
  <2>4. CASE /\ TakesChunk(a, x.id, x.off)
             /\ Post(OnlyTo(sessions[x.id].downloader,
                   <<[kind |-> "DWDATA", file |-> sessions[x.id].file, id |-> x.id, off |-> x.off]>>))
    <3>1. x.id \in Nat /\ x.off \in Nat /\ x.id \in DOMAIN sessions /\ x.off < Size
      BY <1>1, <2>4 DEF Asked, ServerTypes, Chunk, TakesChunk
    <3>2. sessions[x.id].file \in File /\ sessions[x.id].downloader \in Client
      BY <1>1, <3>1, SessionFacts
    <3>3. PICK e \in GoodFrame : /\ e = [kind |-> "DWDATA", file |-> sessions[x.id].file, id |-> x.id, off |-> x.off]
                                 /\ e.kind # "UPOK"
      BY <3>1, <3>2, FrameTypes
    <3>4. <<e>> \in Seq(GoodFrame) /\ NoneOf(<<e>>, "UPOK") BY <3>3, NoneIn
    <3> QED BY <1>1, <1>2, <2>1, <2>4, <3>2, <3>3, <3>4, OnlyToSheds
  <2> QED BY <2>2, <2>3, <2>4
<1>7. CASE HandleAck(a)
  <2> DEFINE i == Head(toServer[a]).id
  <2>1. Takes(a, {"DWACK"}) /\ alive' = alive BY <1>7 DEF HandleAck
  <2>2. \/ UNCHANGED toClient
        \/ i \in DOMAIN sessions /\ \E s \in {<<[kind |-> "DWNDONE", file |-> sessions[i].file]>>,
                      <<[kind |-> "DWERR", file |-> sessions[i].file]>>, <<>>} : Post(OnlyTo(a, s))
    BY <1>7 DEF HandleAck, TakesAck
  <2> HIDE DEF i
  <2>3. CASE UNCHANGED toClient BY <1>1, <1>2, <2>1, <2>3, TakesSheds
  <2>4. ASSUME i \in DOMAIN sessions,
               NEW s \in {<<[kind |-> "DWNDONE", file |-> sessions[i].file]>>,
                      <<[kind |-> "DWERR", file |-> sessions[i].file]>>, <<>>}, Post(OnlyTo(a, s))
        PROVE  Behind(toClient[c], toClient'[c], "UPOK") /\ ToSet(toClient[c]) \subseteq ToSet(toClient'[c])
    <3>1. sessions[i].file \in File BY <1>1, <2>4, SessionFacts
    <3>2. PICK x \in GoodFrame, y \in GoodFrame :
            /\ x = [kind |-> "DWNDONE", file |-> sessions[i].file] /\ x.kind # "UPOK"
            /\ y = [kind |-> "DWERR", file |-> sessions[i].file] /\ y.kind # "UPOK"
      BY <3>1, FrameTypes
    <3>3. s \in Seq(GoodFrame) /\ NoneOf(s, "UPOK")
      <4>1. s = <<x>> \/ s = <<y>> \/ s = <<>> BY <3>2
      <4>2. \A v \in {<<x>>, <<y>>, <<>>} : v \in Seq(GoodFrame) /\ NoneOf(v, "UPOK")
        BY <3>2, NoneIn
      <4> QED BY <4>1, <4>2
    <3> QED BY <1>1, <2>4, <3>3, OnlyToSheds
  <2> QED BY <1>1, <2>1, <2>2, <2>3, <2>4, TakesSheds
<1>8. CASE HandleStop(a)
  <2>1. Takes(a, {"DWNPAUSE", "DWNCANCEL"}) /\ UNCHANGED <<alive, toClient>> BY <1>8 DEF HandleStop
  <2> QED BY <1>1, <1>2, <2>1, TakesSheds
<1>9. CASE HandleUpload(a)
  <2>1. Takes(a, {"UPLOAD"}) /\ alive' = alive BY <1>9 DEF HandleUpload
  <2>2. PICK f \in File : Post([ToOthers(a, [kind |-> "FILE", file |-> f])
                                   EXCEPT ![a] = <<[kind |-> "UPOK", file |-> f]>>])
    BY <1>9 DEF HandleUpload
  <2>3. PICK frames : /\ frames = [ToOthers(a, [kind |-> "FILE", file |-> f])
                                      EXCEPT ![a] = <<[kind |-> "UPOK", file |-> f]>>]
                      /\ frames \in [Client -> Seq(GoodFrame)]
    <3>1. PICK x \in GoodFrame, y \in GoodFrame :
              x = [kind |-> "FILE", file |-> f] /\ y = [kind |-> "UPOK", file |-> f]
      BY FrameTypes
    <3>2. ToOthers(a, x) \in [Client -> Seq(GoodFrame)] /\ <<y>> \in Seq(GoodFrame) BY ToOthersTypes
    <3>3. [ToOthers(a, x) EXCEPT ![a] = <<y>>] \in [Client -> Seq(GoodFrame)] BY <3>2
    <3> QED BY <3>1, <3>3
  <2> QED BY <1>1, <1>9, <2>1, <2>2, <2>3, TakesSheds, PostSheds
<1>10. CASE HandleUpCancel(a)
  <2>1. Takes(a, {"UPCANCEL"}) /\ alive' = alive /\ Head(toServer[a]).file \in File
    <3>1. Takes(a, {"UPCANCEL"}) /\ alive' = alive BY <1>10 DEF HandleUpCancel
    <3> QED BY <1>1, <3>1, TakesTypes, CommandTypes
  <2>2. PICK x \in GoodFrame : x = [kind |-> "DWERR", file |-> Head(toServer[a]).file] /\ x.kind # "UPOK"
    BY <2>1, FrameTypes
  <2>3. Post(ToOthers(a, x)) /\ ToOthers(a, x) \in [Client -> Seq(GoodFrame)]
    BY <1>10, <2>2, ToOthersTypes DEF HandleUpCancel
  <2>4. NoneOf(ToOthers(a, x)[c], "UPOK") BY <2>2, NoneIn DEF ToOthers
  <2> QED BY <1>1, <2>1, <2>3, <2>4, TakesSheds, PostSheds
<1>11. CASE Cleanup(a)
  <2> DEFINE errors(d) == SetToSeq({[kind |-> "DWERR", file |-> f] : f \in
               {sessions[i].file : i \in {j \in OrphanedBy(a) : DownloaderOf(j) = d}}})
             leave == [kind |-> "LEAVE", who |-> a]
             frames == [d \in Client |-> IF d \in departed' THEN <<>> ELSE errors(d) \o <<leave>>]
  <2>1. /\ ~alive[a] /\ alive' = alive /\ Post(frames)
        /\ toServer' = [toServer EXCEPT ![a] = <<>>]
    BY <1>11 DEF Cleanup
  <2>2. toServer'[c] = toServer[c] BY <1>1, <2>1 DEF ServerTypes
  <2>3. \A d \in Client : errors(d) \in Seq(Farewells(a)) BY <1>1, ErrorFrames
  <2> HIDE DEF errors
  <2>4. leave \in GoodFrame /\ leave.kind # "UPOK" /\ Farewells(a) \subseteq GoodFrame
        /\ \A x \in Farewells(a) : x.kind # "UPOK"
    BY FrameTypes DEF Farewells
  <2> HIDE DEF leave
  <2>5. ASSUME NEW d \in Client
        PROVE  errors(d) \o <<leave>> \in Seq(GoodFrame) /\ NoneOf(errors(d) \o <<leave>>, "UPOK")
    <3>1. PICK S : S = {x \in GoodFrame : x.kind # "UPOK"} OBVIOUS
    <3>2. errors(d) \in Seq(S) /\ <<leave>> \in Seq(S) BY <2>3, <2>4, <3>1
    <3>3. errors(d) \o <<leave>> \in Seq(S) BY <3>2, ConcatProperties
    <3>4. ASSUME NEW s \in Seq(S) PROVE s \in Seq(GoodFrame) /\ NoneOf(s, "UPOK")
      BY <3>1 DEF NoneOf, ToSet
    <3> QED BY <3>3, <3>4
  <2>6. frames \in [Client -> Seq(GoodFrame)] /\ \A d \in Client : NoneOf(frames[d], "UPOK")
    BY <2>5, NoneIn
  <2> HIDE DEF frames
  <2> QED BY <1>1, <1>2, <2>1, <2>2, <2>6, PostSheds
<1> QED BY <1>3, <1>4, <1>5, <1>6, <1>7, <1>8, <1>9, <1>10, <1>11 DEF Server

\* A step of a browser takes the first frame of a client; one of a user takes nothing, and of
\* uploads says what SendUpload does.
LEMMA ClientQueues ==
    ASSUME IInv, NEW a \in Client, Browser(a) \/ User(a), NEW c \in Client, alive'[c]
    PROVE  /\ alive[c]
           /\ SendUpload(a) \/ Behind(toServer[c], toServer'[c], "UPLOAD")
           /\ Behind(toClient[c], toClient'[c], "UPOK")
           /\ ToSet(toServer[c]) \subseteq ToSet(toServer'[c])
           /\ \A x \in ToSet(toClient[c]) : x \in ToSet(toClient'[c]) \/ (c = a /\ x = Head(toClient[a]))
<1>1. /\ ServerTypes /\ UploadTypes /\ Manager /\ toServer[c] \in Seq(Command) /\ toClient[c] \in Seq(GoodFrame)
      /\ alive \in [Client -> BOOLEAN] /\ toClient \in [Client -> Seq(GoodFrame)]
  BY DEF IInv, ServerTypes, Manager, ManagerTypeOK
<1>2. /\ Behind(toServer[c], toServer[c], "UPLOAD") /\ Behind(toClient[c], toClient[c], "UPOK")
  BY <1>1, BehindAll
<1>3. CASE IgnoreRequest(a) \/ Select(a) BY <1>2, <1>3 DEF IgnoreRequest, Select, serverVars
<1>4. CASE Receive(a)
  <2>1. PICK x : Delivers(a, x) BY <1>4 DEF Receive, Delivers
  <2>2. /\ toClient[a] \in Seq(GoodFrame) /\ toClient[a] # <<>> /\ alive' = alive /\ x = Head(toClient[a])
        /\ toClient'[a] = Tail(toClient[a]) /\ \A d \in Client \ {a} : toClient'[d] = toClient[d]
    BY <1>1, <2>1 DEF Delivers, serverVars
  <2>3. /\ Behind(toClient[c], toClient'[c], "UPOK")
        /\ \A y \in ToSet(toClient[c]) : y \in ToSet(toClient'[c]) \/ (c = a /\ y = Head(toClient[a]))
    <3>1. PICK w \in Seq(GoodFrame) : w = toClient[c] BY <1>1
    <3>2. (c = a /\ w # <<>> /\ toClient'[c] = Tail(w)) \/ toClient'[c] = w BY <2>2, <3>1
    <3> QED BY <3>1, <3>2, BehindAll, StillIn
  <2>4. PICK m : m = [kind |-> "DWACK", id |-> x.id, off |-> x.off] OBVIOUS
  <2>k. m.kind # "UPLOAD" BY <2>4
  <2>5. UNCHANGED toServer \/ (x.kind = "DWDATA" /\ Send(a, m))
    BY <1>4, <2>2, <2>4 DEF Receive, ReceiveData
  <2>6. x.kind = "DWDATA" => m \in Command
    <3>1. x \in GoodFrame BY <2>2, TailIndices
    <3>2. x.kind = "DWDATA" => x.id \in Nat /\ x.off \in Nat BY <3>1, GoodFrameTypes
    <3> QED BY <2>4, <3>2 DEF Command
  <2> QED BY <1>1, <1>2, <2>2, <2>3, <2>k, <2>5, <2>6, SendSheds
<1>5. ASSUME NEW m \in Command, Send(a, m), UNCHANGED <<alive, toClient>>, m.kind # "UPLOAD" \/ SendUpload(a)
      PROVE  /\ alive[c]
             /\ SendUpload(a) \/ Behind(toServer[c], toServer'[c], "UPLOAD")
             /\ Behind(toClient[c], toClient'[c], "UPOK")
             /\ ToSet(toServer[c]) \subseteq ToSet(toServer'[c])
             /\ toClient'[c] = toClient[c]
  BY <1>1, <1>2, <1>5, SendSheds
<1>6. CASE SendUpload(a)
  <2>1. PICK m : m = [kind |-> "UPLOAD", what |-> pendingFile[a]] OBVIOUS
  <2>2. pendingFile[a] \in Content /\ Send(a, m) /\ UNCHANGED <<alive, toClient>>
    BY <1>1, <1>6, <2>1 DEF SendUpload, UploadTypes, serverVars
  <2>3. m \in Command BY <2>1, <2>2 DEF Command
  <2> QED BY <1>5, <1>6, <2>2, <2>3
<1>7. ASSUME NEW f \in File, \/ ClickCancelUpload(a, f) \/ ClickDownload(a, f) \/ ClickPause(a, f)
                             \/ ClickResume(a, f) \/ ClickCancel(a, f)
      PROVE  /\ alive[c]
             /\ SendUpload(a) \/ Behind(toServer[c], toServer'[c], "UPLOAD")
             /\ Behind(toClient[c], toClient'[c], "UPOK")
             /\ ToSet(toServer[c]) \subseteq ToSet(toServer'[c])
             /\ toClient'[c] = toClient[c]
  <2>1. UNCHANGED <<alive, toClient>>
    BY <1>7 DEF ClickCancelUpload, ClickDownload, ClickPause, ClickResume, ClickCancel, serverVars
  <2>2. \/ UNCHANGED toServer
        \/ \E kind \in {"UPCANCEL", "DWNPAUSE", "DWNCANCEL"} : Send(a, [kind |-> kind, file |-> f])
        \/ \E k \in Nat : Send(a, [kind |-> "DOWNLOAD", file |-> f, off |-> k])
    <3>1. CASE ClickCancelUpload(a, f) BY <3>1 DEF ClickCancelUpload
    <3>2. CASE ClickPause(a, f) \/ ClickCancel(a, f) BY <3>2 DEF ClickPause, ClickCancel
    <3>3. CASE ClickDownload(a, f) BY <3>3 DEF ClickDownload, SendDownload
    <3>4. CASE ClickResume(a, f)
      <4>1. Holds(a, f) BY <3>4 DEF ClickResume
      <4>2. downloads[a][f].chunks \in SUBSET (0..(Size - 1))
        BY <4>1, HeldTypes DEF IInv, DownloadTypes
      <4>3. Checkpoint(downloads[a][f].chunks) \in Nat BY <4>2, CheckpointIsFirstGap
      <4> QED BY <3>4, <4>3 DEF ClickResume, SendDownload
    <3> QED BY <1>7, <3>1, <3>2, <3>3, <3>4
  <2>3. CASE UNCHANGED toServer BY <1>2, <2>1, <2>3
  <2>4. ASSUME NEW kind \in {"UPCANCEL", "DWNPAUSE", "DWNCANCEL"}
        PROVE  [kind |-> kind, file |-> f] \in Command
    BY DEF Command
  <2>5. ASSUME NEW k \in Nat PROVE [kind |-> "DOWNLOAD", file |-> f, off |-> k] \in Command
    BY DEF Command
  <2> QED BY <1>5, <2>1, <2>2, <2>3, <2>4, <2>5
<1>8. CASE Close(a)
  <2>1. c # a /\ UNCHANGED toServer /\ toClient'[c] = toClient[c] /\ alive[c]
    BY <1>1, <1>8 DEF Close
  <2> QED BY <1>2, <2>1
<1> QED BY <1>3, <1>4, <1>6, <1>7, <1>8 DEF Browser, User

\* A step that offers nothing new keeps the desk of a client.
LEMMA DeskKept ==
    ASSUME ServerTypes, ServerTypes', NEW c \in Client, Desk(c),
           Behind(toServer[c], toServer'[c], "UPLOAD"), Behind(toClient[c], toClient'[c], "UPOK"),
           pendingFile'[c] = pendingFile[c],
           \A f \in DOMAIN uploaded : f \in DOMAIN uploaded' /\ uploaded'[f] = uploaded[f],
           DOMAIN uploadSessions'[c] \subseteq DOMAIN uploadSessions[c]
    PROVE  Desk(c)'
<1>1. /\ toServer[c] \in Seq(Command) /\ toServer'[c] \in Seq(Command)
      /\ toClient[c] \in Seq(GoodFrame) /\ toClient'[c] \in Seq(GoodFrame)
  BY DEF ServerTypes
<1>2. One(toServer'[c], "UPLOAD") /\ One(toClient'[c], "UPOK") BY <1>1, BehindOne DEF Desk
<1>3. \A m \in ToSet(toServer'[c]) : m.kind = "UPLOAD" => m \in ToSet(toServer[c])
  BY <1>1, BehindOne
<1>4. \A x \in ToSet(toClient'[c]) : x.kind = "UPOK" => x \in ToSet(toClient[c]) BY <1>1, BehindOne
<1>5. NoneOf(toClient[c], "UPOK") => NoneOf(toClient'[c], "UPOK") BY <1>4 DEF NoneOf
<1> QED BY <1>2, <1>3, <1>4, <1>5 DEF Desk

\* And a desk with nothing on its way is kept by a step that sends nothing.
LEMMA DeskClear ==
    ASSUME NEW c, ~Uploading(c), ServerTypes, c \in Client
    PROVE  NoneOf(toServer[c], "UPLOAD") /\ NoneOf(toClient[c], "UPOK")
<1>1. toServer[c] \in Seq(Command) /\ toClient[c] \in Seq(GoodFrame) BY DEF ServerTypes
<1>2. NoneOf(toServer[c], "UPLOAD") BY <1>1 DEF Uploading, Uploads, NoneOf, ToSet
<1>3. ASSUME NEW x \in ToSet(toClient[c]), x.kind = "UPOK" PROVE FALSE
  <2>1. PICK n \in 1..Len(toClient[c]) : x = toClient[c][n] BY <1>1 DEF ToSet
  <2>2. x \in GoodFrame BY <1>1, <2>1
  <2>3. x.file \in File /\ x = [kind |-> "UPOK", file |-> x.file] BY <1>3, <2>2 DEF GoodFrame, Frame
  <2>4. Contains(toClient[c], [kind |-> "UPOK", file |-> x.file]) BY <1>1, <2>1, <2>3 DEF Contains
  <2> QED BY <2>3, <2>4 DEF Uploading
<1> QED BY <1>2, <1>3 DEF NoneOf

\* HandleUpload answers the one UPLOAD with the one UPOK.
LEMMA UploadAnswered ==
    ASSUME IInv, IInv', Desks, NEW a \in Client, HandleUpload(a) PROVE Desks'
<1>1. /\ ServerTypes /\ ServerTypes' /\ UploadTypes /\ Takes(a, {"UPLOAD"})
      /\ UNCHANGED <<alive, pendingFile, uploadSessions>>
  BY DEF HandleUpload, IInv, uploadVars
<1>2. PICK f \in File \ DOMAIN uploaded :
          /\ Owner[f] = a
          /\ uploaded' = [g \in DOMAIN uploaded \cup {f} |->
                 IF g = f THEN Head(toServer[a]).what ELSE uploaded[g]]
          /\ Post([ToOthers(a, [kind |-> "FILE", file |-> f])
                      EXCEPT ![a] = <<[kind |-> "UPOK", file |-> f]>>])
  BY DEF HandleUpload
<1>3. PICK x \in GoodFrame, y \in GoodFrame :
          /\ x = [kind |-> "UPOK", file |-> f] /\ y = [kind |-> "FILE", file |-> f]
          /\ x.kind = "UPOK" /\ x.file = f /\ y.kind # "UPOK"
  BY FrameTypes
<1>4. PICK frames \in [Client -> Seq(GoodFrame)] :
          /\ Post(frames) /\ frames[a] = <<x>>
          /\ \A c \in Client \ {a} : NoneOf(frames[c], "UPOK")
  <2>1. ToOthers(a, y) \in [Client -> Seq(GoodFrame)] /\ <<x>> \in Seq(GoodFrame) BY ToOthersTypes
  <2>2. PICK fs : fs = [ToOthers(a, y) EXCEPT ![a] = <<x>>] OBVIOUS
  <2>3. fs \in [Client -> Seq(GoodFrame)] /\ fs[a] = <<x>> /\ \A c \in Client \ {a} : fs[c] = ToOthers(a, y)[c]
    BY <2>1, <2>2
  <2>4. \A c \in Client : NoneOf(ToOthers(a, y)[c], "UPOK") BY <1>3, NoneIn DEF ToOthers
  <2> QED BY <1>2, <1>3, <2>2, <2>3, <2>4
<1>5. /\ toServer[a] \in Seq(Command) /\ toServer[a] # <<>> /\ Head(toServer[a]).kind = "UPLOAD"
      /\ toServer'[a] = Tail(toServer[a]) /\ alive[a] /\ Head(toServer[a]) \in ToSet(toServer[a])
  BY <1>1, TakesMembers
<1>6. Desk(a) /\ toClient[a] \in Seq(GoodFrame) /\ NoneOf(toClient[a], "UPOK")
      /\ Head(toServer[a]).what = pendingFile[a]
  BY <1>1, <1>5 DEF Desks, Desk, ServerTypes
<1>7. NoneOf(toServer'[a], "UPLOAD") BY <1>5, <1>6, OneLess DEF Desk
<1>8. toClient'[a] = Append(toClient[a], x)
  <2>1. toClient'[a] = toClient[a] \o <<x>> BY <1>4, <1>5 DEF Post
  <2> QED BY <1>6, <2>1, OneFrame
<1>9. /\ One(toClient'[a], "UPOK") /\ \A z \in ToSet(toClient'[a]) : z.kind = "UPOK" => z = x
  <2>1. PICK w \in Seq(GoodFrame) : w = toClient[a] /\ toClient'[a] = Append(w, x) /\ NoneOf(w, "UPOK")
    BY <1>6, <1>8
  <2>2. One(Append(w, x), "UPOK") BY <2>1, OneMore
  <2>3. ToSet(Append(w, x)) = ToSet(w) \cup {x} BY MembersOf
  <2> QED BY <2>1, <2>2, <2>3 DEF NoneOf
<1>10. One(toServer'[a], "UPLOAD")
  <2>1. toServer'[a] \in Seq(Command) BY <1>1 DEF ServerTypes
  <2> QED BY <1>7, <2>1 DEF One, NoneOf, ToSet
<1>11. f \notin DOMAIN uploadSessions[a] /\ f \notin DOMAIN uploaded BY DEF Desks, Bound
<1>12. /\ f \in DOMAIN uploaded' /\ uploaded'[f] = pendingFile[a]
       /\ \A g \in DOMAIN uploaded : g \in DOMAIN uploaded' /\ uploaded'[g] = uploaded[g]
  BY <1>2, <1>6
<1>13. Desk(a)' BY <1>1, <1>2, <1>3, <1>7, <1>9, <1>10, <1>11, <1>12 DEF Desk, NoneOf
<1>14. ASSUME NEW c \in Client \ {a}, alive'[c] PROVE Desk(c)'
  <2>1. Desk(c) /\ Behind(toServer[c], toServer'[c], "UPLOAD") BY <1>1, <1>14, TakesSheds DEF Desks
  <2>2. Behind(toClient[c], toClient'[c], "UPOK") BY <1>1, <1>4, PostSheds
  <2> QED BY <1>1, <1>12, <2>1, <2>2, DeskKept
<1>15. ASSUME NEW c \in Client PROVE Bound(c)' BY <1>1, <1>12 DEF Desks, Bound
<1> QED BY <1>13, <1>14, <1>15 DEF Desks

\* handleUPOK binds the handle to the file it was given out for.
LEMMA UploadBound ==
    ASSUME IInv, IInv', Desks, NEW a \in Client, Receive(a), Head(toClient[a]).kind = "UPOK"
    PROVE  /\ Desks' /\ Head(toClient[a]).file \in DOMAIN uploadSessions'[a]
           /\ DOMAIN uploadSessions[a] \subseteq DOMAIN uploadSessions'[a]
           /\ \A c \in Client \ {a} : uploadSessions'[c] = uploadSessions[c]
           /\ UNCHANGED cancelUpload
<1>1. PICK x : x = Head(toClient[a]) /\ x.kind = "UPOK" /\ Delivers(a, x) BY DEF Receive, Delivers
<1>2. /\ ServerTypes /\ ServerTypes' /\ UploadTypes /\ alive[a] /\ toClient[a] # <<>>
      /\ UNCHANGED <<alive, toServer, uploaded, cancelUpload>> /\ BindUpload(a, x.file)
      /\ toClient' = [toClient EXCEPT ![a] = Tail(@)]
  BY <1>1 DEF Receive, IInv, serverVars
<1>3. /\ toClient[a] \in Seq(GoodFrame) /\ toClient'[a] = Tail(toClient[a]) /\ x \in ToSet(toClient[a])
      /\ \A c \in Client \ {a} : toClient'[c] = toClient[c]
  <2>1. PICK w \in Seq(GoodFrame) : w = toClient[a] /\ w # <<>> BY <1>2 DEF ServerTypes
  <2>2. Head(w) \in GoodFrame BY <2>1, TailIndices
  <2>3. Head(w) \in ToSet(w) BY <2>1, <2>2, MembersOf
  <2> QED BY <1>1, <1>2, <2>1, <2>3 DEF ServerTypes
<1>4. /\ Desk(a) /\ x.file \in DOMAIN uploaded /\ Owner[x.file] = a
      /\ uploaded[x.file] = pendingFile[a] /\ NoneOf(toServer[a], "UPLOAD")
  BY <1>1, <1>2, <1>3 DEF Desks, Desk, NoneOf
<1>5. pendingFile[a] # NoFile BY <1>2, <1>4, ClientAssumption DEF UploadTypes
<1>6. /\ uploadSessions'[a] = [g \in DOMAIN uploadSessions[a] \cup {x.file} |->
             IF g = x.file THEN pendingFile[a] ELSE uploadSessions[a][g]]
      /\ \A c \in Client \ {a} : uploadSessions'[c] = uploadSessions[c]
      /\ \A c \in Client \ {a} : pendingFile'[c] = pendingFile[c]
  BY <1>2, <1>5 DEF BindUpload, UploadTypes
<1>7. NoneOf(toClient'[a], "UPOK") /\ toServer'[a] \in Seq(Command) /\ toClient'[a] \in Seq(GoodFrame)
  BY <1>1, <1>2, <1>3, <1>4, OneLess DEF Desk, ServerTypes
<1>8. Desk(a)' BY <1>2, <1>4, <1>7 DEF Desk, One, NoneOf, ToSet
<1>9. ASSUME NEW c \in Client \ {a}, alive'[c] PROVE Desk(c)'
  <2>1. toServer[c] \in Seq(Command) /\ toClient[c] \in Seq(GoodFrame) BY <1>2 DEF ServerTypes
  <2>2. Behind(toServer[c], toServer[c], "UPLOAD") /\ Behind(toClient[c], toClient[c], "UPOK")
    BY <2>1, BehindAll
  <2> QED BY <1>2, <1>3, <1>6, <1>9, <2>2, DeskKept DEF Desks
<1>10. ASSUME NEW c \in Client PROVE Bound(c)'
  <2>1. Bound(c) BY DEF Desks
  <2>2. CASE c = a BY <1>2, <1>4, <1>6, <2>1, <2>2 DEF Bound
  <2>3. CASE c # a BY <1>2, <1>6, <2>1, <2>3 DEF Bound
  <2> QED BY <2>2, <2>3
<1> QED BY <1>1, <1>2, <1>6, <1>8, <1>9, <1>10 DEF Desks

\* A step that neither offers nor binds anything keeps them all.
LEMMA DesksKept ==
    ASSUME ServerTypes, ServerTypes', Desks, UNCHANGED uploaded,
           \A c \in Client : alive'[c] =>
              /\ alive[c] /\ pendingFile'[c] = pendingFile[c]
              /\ Behind(toServer[c], toServer'[c], "UPLOAD")
              /\ Behind(toClient[c], toClient'[c], "UPOK"),
           \A c \in Client : /\ DOMAIN uploadSessions'[c] \subseteq DOMAIN uploadSessions[c]
                             /\ \A f \in DOMAIN uploadSessions'[c] : uploadSessions'[c][f] = uploadSessions[c][f]
    PROVE  Desks'
<1>1. ASSUME NEW c \in Client, alive'[c] PROVE Desk(c)' BY <1>1, DeskKept DEF Desks
<1>2. ASSUME NEW c \in Client PROVE Bound(c)'
  <2>1. Bound(c) BY DEF Desks
  <2> QED BY <2>1 DEF Bound
<1> QED BY <1>1, <1>2 DEF Desks

\* selectFile and sendUpload, while nothing is on its way.
LEMMA DeskUsed ==
    ASSUME Patient, IInv, IInv', Desks, NEW a \in Client, Select(a) \/ SendUpload(a) PROVE Desks'
<1>1. /\ ServerTypes /\ ServerTypes' /\ UploadTypes /\ alive[a] /\ ~Uploading(a)
      /\ UNCHANGED <<alive, toClient, uploaded, uploadSessions>>
      /\ \A c \in Client \ {a} : pendingFile'[c] = pendingFile[c]
      /\ toServer \in [Client -> Seq(Command)]
  BY DEF Select, SendUpload, serverVars, browserVars, uploadVars, IInv, UploadTypes, ServerTypes
<1>2. NoneOf(toServer[a], "UPLOAD") /\ NoneOf(toClient[a], "UPOK") /\ toServer[a] \in Seq(Command)
  BY <1>1, DeskClear
<1>3. \/ toServer'[a] = toServer[a]
      \/ \E m \in Command : /\ m.what = pendingFile'[a] /\ toServer'[a] = Append(toServer[a], m)
                            /\ \A x \in ToSet(toServer'[a]) : x \in ToSet(toServer[a]) \/ x = m
  <2>1. CASE Select(a) BY <2>1 DEF Select
  <2>2. CASE SendUpload(a)
    <3>1. PICK m : m = [kind |-> "UPLOAD", what |-> pendingFile[a]] OBVIOUS
    <3>2. pendingFile[a] \in Content /\ Send(a, m) /\ pendingFile' = pendingFile
      BY <1>1, <2>2, <3>1 DEF SendUpload, UploadTypes, browserVars, uploadVars
    <3>3. m \in Command /\ m.what = pendingFile'[a] BY <3>1, <3>2 DEF Command
    <3>4. /\ toServer'[a] = Append(toServer[a], m)
          /\ \A x \in ToSet(toServer'[a]) : x \in ToSet(toServer[a]) \/ x = m
      BY <1>1, <3>2, <3>3, SendMembers
    <3> QED BY <3>3, <3>4
  <2> QED BY <2>1, <2>2
<1>4. One(toServer'[a], "UPLOAD")
  <2>1. CASE toServer'[a] = toServer[a] BY <1>1, <2>1 DEF Desks, Desk
  <2>2. ASSUME NEW m \in Command, toServer'[a] = Append(toServer[a], m) PROVE One(toServer'[a], "UPLOAD")
    BY <1>2, <2>2, OneMore
  <2> QED BY <1>3, <2>1, <2>2
<1>5. Desk(a)'
  <2>1. \A m \in ToSet(toServer'[a]) : m.kind = "UPLOAD" => m.what = pendingFile'[a]
    BY <1>2, <1>3 DEF NoneOf
  <2>2. One(toClient[a], "UPOK") BY <1>1 DEF Desks, Desk
  <2> QED BY <1>1, <1>2, <1>4, <2>1, <2>2 DEF Desk, NoneOf
<1>6. ASSUME NEW c \in Client \ {a}, alive'[c] PROVE Desk(c)'
  <2>1. toServer'[c] = toServer[c] /\ toServer[c] \in Seq(Command) /\ toClient[c] \in Seq(GoodFrame)
    BY <1>1 DEF Select, SendUpload, Send, ServerTypes
  <2>2. Behind(toServer[c], toServer'[c], "UPLOAD") /\ Behind(toClient[c], toClient'[c], "UPOK")
    BY <1>1, <2>1, BehindAll
  <2> QED BY <1>1, <1>6, <2>2, DeskKept DEF Desks
<1>7. ASSUME NEW c \in Client PROVE Bound(c)' BY <1>1 DEF Desks, Bound
<1> QED BY <1>5, <1>6, <1>7 DEF Desks

\* What of the desks a step leaves alone.
LEMMA UploadsLeft ==
    ASSUME IInv, NEW a \in Client, Server(a) \/ Browser(a) \/ User(a), ~HandleUpload(a), ~Select(a), ~SendUpload(a),
           ~(Receive(a) /\ Head(toClient[a]).kind = "UPOK")
    PROVE  /\ UNCHANGED uploaded
           /\ \A c \in Client : alive'[c] => pendingFile'[c] = pendingFile[c]
           /\ \A c \in Client : /\ DOMAIN uploadSessions'[c] \subseteq DOMAIN uploadSessions[c]
                                /\ \A f \in DOMAIN uploadSessions'[c] : uploadSessions'[c][f] = uploadSessions[c][f]
<1>1. UploadTypes /\ alive \in [Client -> BOOLEAN] BY DEF IInv, Manager, ManagerTypeOK
<1>2. CASE UNCHANGED <<uploaded, pendingFile, uploadSessions>> BY <1>2
<1>3. CASE Server(a)
  <2>1. UNCHANGED browserVars
    BY <1>3, Zenon DEF Server, FindFile, StartDownload, AnswerDownload, HandleChunk, HandleAck, HandleStop,
       HandleUpCancel, Cleanup
  <2> QED BY <1>2, <2>1 DEF browserVars, uploadVars
<1>4. CASE Browser(a)
  <2>1. UNCHANGED <<uploaded, uploadVars>> BY <1>4 DEF Browser, IgnoreRequest, Receive, browserVars
  <2> QED BY <1>2, <2>1 DEF uploadVars
<1>5. CASE Close(a)
  <2>1. /\ alive' = [alive EXCEPT ![a] = FALSE] /\ UNCHANGED uploaded
        /\ pendingFile' = [pendingFile EXCEPT ![a] = NoFile]
        /\ uploadSessions' = [uploadSessions EXCEPT ![a] = <<>>]
    BY <1>5 DEF Close
  <2>2. DOMAIN <<>> = {} /\ DOMAIN uploadSessions = Client BY <1>1 DEF UploadTypes
  <2> QED BY <1>1, <2>1, <2>2 DEF UploadTypes
<1>6. ASSUME NEW f \in File, ClickCancelUpload(a, f)
      PROVE  /\ UNCHANGED <<uploaded, pendingFile>>
             /\ \A c \in Client : /\ DOMAIN uploadSessions'[c] \subseteq DOMAIN uploadSessions[c]
                                  /\ \A g \in DOMAIN uploadSessions'[c] : uploadSessions'[c][g] = uploadSessions[c][g]
  <2>1. PICK fewer : fewer = [g \in DOMAIN uploadSessions[a] \ {f} |-> uploadSessions[a][g]] OBVIOUS
  <2>2. uploadSessions' = [uploadSessions EXCEPT ![a] = fewer] /\ DOMAIN uploadSessions = Client
        /\ UNCHANGED <<uploaded, pendingFile>>
    BY <1>1, <1>6, <2>1 DEF ClickCancelUpload, UploadTypes
  <2> QED BY <2>1, <2>2
<1>7. ASSUME NEW f \in File, ClickDownload(a, f) \/ ClickPause(a, f) \/ ClickResume(a, f) \/ ClickCancel(a, f)
      PROVE  UNCHANGED <<uploaded, pendingFile, uploadSessions>>
  BY <1>7 DEF ClickDownload, ClickPause, ClickResume, ClickCancel, uploadVars
<1> QED BY <1>2, <1>3, <1>4, <1>5, <1>6, <1>7 DEF User

\* Every step keeps Desks, if users wait for an answer before they select again.
LEMMA NextDesks == Patient /\ IInv /\ IInv' /\ Desks /\ [Next]_vars => Desks'
<1> SUFFICES ASSUME Patient, IInv, IInv', Desks, [Next]_vars PROVE Desks' OBVIOUS
<1>1. ServerTypes /\ ServerTypes' BY DEF IInv
<1>2. CASE UNCHANGED vars
  BY <1>2 DEF vars, serverVars, browserVars, uploadVars, Desks, Desk, Bound, managerVars
<1>3. ASSUME NEW a \in Client, Server(a) \/ Browser(a) \/ User(a) PROVE Desks'
  <2>1. CASE HandleUpload(a) BY <2>1, UploadAnswered
  <2>2. CASE Select(a) \/ SendUpload(a) BY <2>2, DeskUsed
  <2>3. CASE Receive(a) /\ Head(toClient[a]).kind = "UPOK" BY <2>3, UploadBound
  <2>4. CASE /\ ~HandleUpload(a) /\ ~Select(a) /\ ~SendUpload(a)
             /\ ~(Receive(a) /\ Head(toClient[a]).kind = "UPOK")
    <3>1. \A c \in Client : alive'[c] => /\ alive[c]
                                        /\ Behind(toServer[c], toServer'[c], "UPLOAD")
                                        /\ Behind(toClient[c], toClient'[c], "UPOK")
      BY <1>3, <2>4, ServerQueues, ClientQueues
    <3> QED BY <1>1, <1>3, <2>4, <3>1, UploadsLeft, DesksKept
  <2> QED BY <2>1, <2>2, <2>3, <2>4
<1> QED BY <1>2, <1>3 DEF Next

LEMMA InitDesks == Init => Desks
<1> SUFFICES ASSUME Init PROVE Desks OBVIOUS
<1>1. /\ toServer = [c \in Client |-> <<>>] /\ toClient = [c \in Client |-> <<>>]
      /\ uploadSessions = [c \in Client |-> <<>>]
  BY DEF Init, Silent
<1>2. Len(<<>>) = 0 /\ DOMAIN <<>> = {} /\ ToSet(<<>>) = {} BY DEF ToSet
<1> QED BY <1>1, <1>2 DEF Desks, Desk, Bound, One

-------------------------------------------------------------------------------
(* No transfer stalls: the file is served, every chunk due is asked for or on its way *)

\* The step of a lane loses an UPCANCEL of no file but the one that is withdrawn, and frames none.
LEMMA CancelStays ==
    ASSUME IInv, NEW a \in Client, Server(a), NEW f \in File, alive'[Owner[f]], f \in registrations'
    PROVE  /\ alive[Owner[f]] /\ (Cancelled(f) => Cancelled(f)') /\ (Answering(f) => Answering(f)')
           /\ f \in registrations \/ (HandleUpload(a) /\ Answering(f)')
           /\ UNCHANGED <<uploadSessions, cancelUpload>>
<1>1. /\ ServerTypes /\ Owner[f] \in Client /\ toClient[a] \in Seq(GoodFrame)
      /\ \A c \in Client, m \in Command : toServer[c] \in Seq(Command)
  BY TransferAssumption DEF IInv, ServerTypes
<1>2. /\ alive[Owner[f]]
      /\ \A m \in ToSet(toServer[Owner[f]]) : m \in ToSet(toServer'[Owner[f]]) \/ (Owner[f] = a /\ m = Head(toServer[a]))
      /\ ToSet(toClient[Owner[f]]) \subseteq ToSet(toClient'[Owner[f]])
  BY <1>1, ServerQueues, Zenon
<1>3. Answering(f) => Answering(f)' BY <1>2 DEF Answering
<1>4. UNCHANGED <<uploadSessions, cancelUpload>>
  BY Zenon DEF Server, FindFile, StartDownload, AnswerDownload, HandleChunk, HandleAck, HandleStop, HandleUpload,
     HandleUpCancel, Cleanup, browserVars, uploadVars
<1>5. CASE HandleUpCancel(a)
  <2>1. Head(toServer[a]).file # f /\ f \in registrations
    BY <1>5 DEF HandleUpCancel, CancelFile, UnregisterFiles
  <2> QED BY <1>2, <1>3, <1>4, <2>1 DEF Cancelled, IsOf
<1>6. CASE HandleUpload(a)
  <2>1. Takes(a, {"UPLOAD"}) BY <1>6 DEF HandleUpload
  <2>2. Head(toServer[a]).kind = "UPLOAD" /\ alive[a] BY <1>1, <2>1, TakesMembers
  <2>3. Cancelled(f) => Cancelled(f)' BY <1>2, <2>2 DEF Cancelled, IsOf
  <2>4. PICK g \in File : /\ Owner[g] = a /\ registrations' = registrations \cup {g}
                          /\ Post([ToOthers(a, [kind |-> "FILE", file |-> g])
                                EXCEPT ![a] = <<[kind |-> "UPOK", file |-> g]>>])
    BY <1>6 DEF HandleUpload, RegisterFile
  <2>5. f = g => Answering(f)'
    <3>1. PICK x \in GoodFrame : x = [kind |-> "UPOK", file |-> g] /\ IsOf(x, "UPOK", g)
      BY FrameTypes DEF IsOf
    <3>2. [ToOthers(a, [kind |-> "FILE", file |-> g]) EXCEPT ![a] = <<x>>][a] = <<x>>
      BY DEF ToOthers
    <3>3. toClient'[a] = toClient[a] \o <<x>> BY <2>2, <2>4, <3>1, <3>2 DEF Post
    <3>4. toClient'[a] = Append(toClient[a], x) BY <1>1, <3>3, OneFrame
    <3>5. x \in ToSet(toClient'[a]) BY <1>1, <3>4, MembersOf
    <3> QED BY <2>4, <3>1, <3>5 DEF Answering
  <2> QED BY <1>2, <1>3, <1>4, <1>6, <2>3, <2>4, <2>5
<1>7. CASE ~HandleUpCancel(a) /\ ~HandleUpload(a)
  <2>1. f \in registrations
    BY <1>7, ZenonT(30) DEF Server, FindFile, StartDownload, AnswerDownload, HandleChunk, HandleAck, HandleStop, Cleanup,
       managerVars, fileVars, StartTransfer, ReceiveChunk, Acknowledge, CancelSession, CancelBySession,
       UnregisterFiles
  <2>2. \/ UNCHANGED toServer \/ (Cleanup(a) /\ Owner[f] # a)
        \/ Takes(a, {"DOWNLOAD"}) \/ Takes(a, {"DWACK"}) \/ Takes(a, {"DWNPAUSE", "DWNCANCEL"})
    <3>1. Cleanup(a) => ~alive'[a] BY DEF Cleanup
    <3> QED BY <1>7, <3>1 DEF Server, FindFile, StartDownload, AnswerDownload, HandleChunk, HandleAck, HandleStop
  <2>3. Cancelled(f) => Cancelled(f)'
    <3>1. CASE UNCHANGED toServer BY <3>1 DEF Cancelled
    <3>2. CASE Owner[f] # a BY <1>2, <3>2 DEF Cancelled
    <3>3. CASE \E kinds \in {{"DOWNLOAD"}, {"DWACK"}, {"DWNPAUSE", "DWNCANCEL"}} : Takes(a, kinds)
      <4>1. Head(toServer[a]).kind # "UPCANCEL" BY <1>1, <3>3, TakesMembers
      <4> QED BY <1>2, <4>1 DEF Cancelled, IsOf
    <3> QED BY <2>2, <3>1, <3>2, <3>3
  <2> QED BY <1>2, <1>3, <1>4, <2>1, <2>3
<1> QED BY <1>5, <1>6, <1>7

\* Nor does one of a browser or a user end the service of a file, unless it is withdrawn.
LEMMA ServiceStays ==
    ASSUME IInv, IInv', Desks, CancelsAlone', NEW a \in Client, Browser(a) \/ User(a),
           NEW f \in File, alive'[Owner[f]], f \in registrations'
    PROVE  /\ alive[Owner[f]] /\ f \in registrations /\ (Cancelled(f) => Cancelled(f)')
           /\ Answering(f) => Answering(f)' \/ Serves(f)'
           /\ Serves(f) => Serves(f)' \/ Cancelled(f)'
<1> DEFINE u == Owner[f]
<1>1. ServerTypes /\ UploadTypes /\ u \in Client BY TransferAssumption DEF IInv
<1>2. /\ alive[u] /\ ToSet(toServer[u]) \subseteq ToSet(toServer'[u])
      /\ \A x \in ToSet(toClient[u]) : x \in ToSet(toClient'[u]) \/ (u = a /\ x = Head(toClient[a]))
  BY <1>1, ClientQueues
<1>3. Cancelled(f) => Cancelled(f)' BY <1>2 DEF Cancelled
<1>4. f \in registrations
  BY DEF Browser, User, IgnoreRequest, Receive, Select, SendUpload, ClickCancelUpload, ClickDownload, ClickPause,
     ClickResume, ClickCancel, Close, serverVars, managerVars, fileVars
<1> SUFFICES /\ Answering(f) => Answering(f)' \/ Serves(f)'
             /\ Serves(f) => Serves(f)' \/ Cancelled(f)'
  BY <1>2, <1>3, <1>4
<1>5. CASE Receive(a) /\ Head(toClient[a]).kind = "UPOK"
  <2>1. /\ Head(toClient[a]).file \in DOMAIN uploadSessions'[a]
        /\ DOMAIN uploadSessions[a] \subseteq DOMAIN uploadSessions'[a]
        /\ \A c \in Client \ {a} : uploadSessions'[c] = uploadSessions[c]
        /\ UNCHANGED cancelUpload
    BY <1>5, UploadBound
  <2>2. ~cancelUpload'[a] BY <2>1 DEF CancelsAlone
  <2>3. Serves(f) => Serves(f)' BY <1>1, <2>1 DEF Serves
  <2>4. ASSUME u = a, IsOf(Head(toClient[a]), "UPOK", f) PROVE Serves(f)'
    BY <2>1, <2>2, <2>4 DEF Serves, IsOf
  <2> QED BY <1>2, <2>3, <2>4 DEF Answering
<1>6. ASSUME NEW g \in File, ClickCancelUpload(a, g)
      PROVE  /\ Answering(f) => Answering(f)'
             /\ Serves(f) => Serves(f)' \/ Cancelled(f)'
  <2>1. PICK m \in Command : m = [kind |-> "UPCANCEL", file |-> g] /\ IsOf(m, "UPCANCEL", g)
    <3>1. [kind |-> "UPCANCEL", file |-> g] \in Command BY DEF Command
    <3> QED BY <3>1 DEF IsOf
  <2>2. /\ Send(a, m) /\ UNCHANGED toClient
        /\ cancelUpload' = [cancelUpload EXCEPT ![a] = TRUE]
        /\ uploadSessions' = [uploadSessions EXCEPT ![a] = [h \in DOMAIN uploadSessions[a] \ {g} |-> uploadSessions[a][h]]]
    BY <1>6, <2>1 DEF ClickCancelUpload
  <2>3. CASE u = a /\ f = g
    <3>1. toServer'[a] = Append(toServer[a], m) /\ toServer[a] \in Seq(Command)
      BY <1>1, <2>2, SendMembers
    <3>2. m \in ToSet(toServer'[a]) BY <3>1, MembersOf
    <3> QED BY <2>1, <2>2, <2>3, <3>2 DEF Answering, Cancelled
  <2>4. CASE u = a /\ f # g
    <3>1. cancelUpload'[a] /\ DOMAIN uploadSessions'[a] = DOMAIN uploadSessions[a] \ {g}
      BY <1>1, <2>2 DEF UploadTypes
    <3>2. DOMAIN uploadSessions'[a] = {} BY <3>1 DEF CancelsAlone
    <3> QED BY <2>2, <2>4, <3>1, <3>2 DEF Answering, Serves
  <2>5. CASE u # a
    <3>1. cancelUpload'[u] = cancelUpload[u] /\ uploadSessions'[u] = uploadSessions[u]
      BY <1>1, <2>2, <2>5 DEF UploadTypes
    <3> QED BY <2>2, <3>1 DEF Answering, Serves
  <2> QED BY <2>3, <2>4, <2>5
<1>7. CASE ~(Receive(a) /\ Head(toClient[a]).kind = "UPOK") /\ ~(\E g \in File : ClickCancelUpload(a, g))
  <2>1. Answering(f) => Answering(f)'
    <3>1. Receive(a) \/ toClient'[u] = toClient[u]
      <4>1. Close(a) => u # a /\ toClient'[u] = toClient[u]
        BY <1>1 DEF Close, ServerTypes, IInv, Manager, ManagerTypeOK
      <4> QED BY <1>7, <4>1 DEF Browser, User, IgnoreRequest, Select, SendUpload, ClickDownload, ClickPause,
              ClickResume, ClickCancel
    <3> QED BY <1>2, <1>7, <3>1 DEF Answering, IsOf
  <2>2. Serves(f) => Serves(f)'
    <3>1. CASE UNCHANGED uploadVars BY <3>1 DEF Serves, uploadVars
    <3>2. CASE Select(a)
      <4>1. cancelUpload' = [cancelUpload EXCEPT ![a] = FALSE] /\ UNCHANGED uploadSessions
        BY <3>2 DEF Select
      <4> QED BY <1>1, <4>1 DEF Serves, UploadTypes
    <3>3. CASE Close(a)
      <4>1. u # a /\ cancelUpload'[u] = cancelUpload[u] /\ uploadSessions'[u] = uploadSessions[u]
        BY <1>1, <3>3 DEF Close, UploadTypes, IInv, Manager, ManagerTypeOK
      <4> QED BY <4>1 DEF Serves
    <3>4. UNCHANGED uploadVars \/ Select(a) \/ Close(a)
      BY <1>7 DEF Browser, User, IgnoreRequest, Receive, SendUpload, ClickDownload, ClickPause,
         ClickResume, ClickCancel, browserVars
    <3> QED BY <3>1, <3>2, <3>3, <3>4
  <2> QED BY <2>1, <2>2
<1> QED BY <1>5, <1>6, <1>7

\* Every step keeps a file on offer served, while a cancelled upload does no harm.
LEMMA NextServed ==
    ASSUME IInv, IInv', Desks, CancelsAlone', [Next]_vars, NEW f \in File, Served(f) PROVE Served(f)'
<1>1. CASE UNCHANGED vars
  BY <1>1 DEF vars, serverVars, managerVars, fileVars, browserVars, uploadVars, Served, Answering, Cancelled, Serves
<1>2. ASSUME NEW a \in Client, Server(a) PROVE Served(f)'
  <2>1. UNCHANGED <<uploadSessions, cancelUpload>> => (Serves(f)' <=> Serves(f)) BY DEF Serves
  <2> QED BY <1>2, <2>1, CancelStays DEF Served
<1>3. ASSUME NEW a \in Client, Browser(a) \/ User(a) PROVE Served(f)'
  BY <1>3, ServiceStays DEF Served
<1> QED BY <1>1, <1>2, <1>3 DEF Next

\* What there is in a queue, without its order.
LEMMA InQueue ==
    ASSUME NEW S, NEW q \in Seq(S)
    PROVE  /\ \A f : StopIn(q, f) <=> \E m \in ToSet(q) : IsStop(m, f)
           /\ \A i, k : k \in Acks(q, i) <=> \E m \in ToSet(q) : IsAck(m, i) /\ m.off = k
           /\ \A i, k : k \in Sent(q, i) <=> \E x \in ToSet(q) : IsData(x, i) /\ x.off = k
<1>1. \A m : m \in ToSet(q) <=> \E n \in 1..Len(q) : q[n] = m BY DEF ToSet
<1>2. ASSUME NEW f PROVE StopIn(q, f) <=> \E m \in ToSet(q) : IsStop(m, f) BY <1>1 DEF StopIn
<1>3. ASSUME NEW i, NEW k PROVE k \in Acks(q, i) <=> \E m \in ToSet(q) : IsAck(m, i) /\ m.off = k
  BY <1>1 DEF Acks
<1>4. ASSUME NEW i, NEW k PROVE k \in Sent(q, i) <=> \E x \in ToSet(q) : IsData(x, i) /\ x.off = k
  BY <1>1 DEF Sent
<1> QED BY <1>2, <1>3, <1>4

\* A step that leaves a session alone, its requests and what it needs of the queues.
LEMMA FlowKept ==
    ASSUME ServerTypes, ServerTypes', NEW i \in DOMAIN sessions, Flow(i), sessions'[i] = sessions[i],
           NEW c \in Client, c = sessions[i].downloader, NEW f, f = sessions[i].file,
           Busy(c, f)' =>
              /\ Busy(c, f)
              /\ \A m \in ToSet(toServer[c]) :
                    IsAck(m, i) => m \in ToSet(toServer'[c]) \/ m.off \notin sessions[i].pending
              /\ \A x \in ToSet(toClient[c]) : IsData(x, i) =>
                    x \in ToSet(toClient'[c]) \/ \E m \in ToSet(toServer'[c]) : IsAck(m, i) /\ m.off = x.off
              /\ \A x : x.id = i => (x \in requested \cup handling[c].requests
                                        <=> x \in requested' \cup handling'[c].requests)
    PROVE  Flow(i)'
<1> SUFFICES ASSUME Busy(c, f)'
             PROVE  Flowing(sessions[i], Asks(c, i)', Sent(toClient'[c], i) \cup Acks(toServer'[c], i))
  BY DEF Flow
<1>1. Flowing(sessions[i], Asks(c, i), Sent(toClient[c], i) \cup Acks(toServer[c], i)) BY DEF Flow
<1>2. Asks(c, i)' = Asks(c, i) BY DEF Asks
<1>3. /\ toServer[c] \in Seq(Command) /\ toServer'[c] \in Seq(Command)
      /\ toClient[c] \in Seq(GoodFrame) /\ toClient'[c] \in Seq(GoodFrame)
  BY DEF ServerTypes
<1>4. ASSUME NEW k \in sessions[i].pending, k \in Acks(toServer[c], i)
      PROVE  k \in Acks(toServer'[c], i)
  <2>1. PICK m \in ToSet(toServer[c]) : IsAck(m, i) /\ m.off = k BY <1>3, <1>4, InQueue
  <2>2. m \in ToSet(toServer'[c]) BY <1>4, <2>1
  <2> QED BY <1>3, <2>1, <2>2, InQueue
<1>5. ASSUME NEW k, k \in Sent(toClient[c], i)
      PROVE  k \in Sent(toClient'[c], i) \cup Acks(toServer'[c], i)
  <2>1. PICK x \in ToSet(toClient[c]) : IsData(x, i) /\ x.off = k BY <1>3, <1>5, InQueue
  <2>2. CASE x \in ToSet(toClient'[c]) BY <1>3, <2>1, <2>2, InQueue
  <2>3. CASE \E m \in ToSet(toServer'[c]) : IsAck(m, i) /\ m.off = x.off
    BY <1>3, <2>1, <2>3, InQueue
  <2> QED BY <2>1, <2>2, <2>3
<1> QED BY <1>1, <1>2, <1>4, <1>5 DEF Flowing

\* The pair of a session, and its line.
LEMMA OfSession ==
    ASSUME IInv, JInv, NEW i \in DOMAIN sessions, NEW c, c = sessions[i].downloader,
           NEW f, f = sessions[i].file
    PROVE  /\ c \in Client /\ f \in File /\ i \in Ours(c, f) /\ i \in Issued /\ f \in registrations
           /\ Uploader(i) = Owner[f] /\ Owner[f] \in Client /\ sessions[i] \in TransferSession
           /\ alive[c] => /\ \A j \in Ours(c, f) : j = i
                          /\ Pair(c, f) /\ \E B \in SUBSET (0..(Size - 1)) : Session(c, f, i, B)
<1>1. Manager /\ c \in Client /\ f \in File /\ i \in Ours(c, f) /\ sessions[i] \in TransferSession
  BY SessionFacts DEF IInv, Ours
<1>2. i \in Issued /\ f \in registrations BY <1>1, IssuedGrows DEF JInv, Offers
<1>3. ASSUME alive[c] PROVE Line(c, f) BY <1>1, <1>3 DEF JInv, Lines
<1> QED BY <1>1, <1>2, <1>3, TransferAssumption DEF Uploader, Line, Pair

\* A session that is there after a step of the server was not ended by what the step took.
LEMMA BusyServer ==
    ASSUME IInv, IInv', JInv, JInv', NEW a \in Client, Server(a),
           NEW i \in DOMAIN sessions, i \in DOMAIN sessions',
           NEW c, c = sessions[i].downloader, c = sessions'[i].downloader,
           NEW f, f = sessions[i].file, f = sessions'[i].file, Busy(c, f)'
    PROVE  /\ Busy(c, f) /\ ToSet(toClient[c]) \subseteq ToSet(toClient'[c])
           /\ \A m \in ToSet(toServer[c]) :
                 IsAck(m, i) => m \in ToSet(toServer'[c]) \/ (c = a /\ m = Head(toServer[a]))
           /\ HandleAck(a) \/ \A m \in ToSet(toServer[c]) : IsAck(m, i) => m \in ToSet(toServer'[c])
<1>1. /\ ServerTypes /\ ServerTypes' /\ Manager /\ c \in Client /\ f \in File /\ f \in registrations'
      /\ i \in Ours(c, f) /\ alive'[c] /\ alive'[Owner[f]] /\ Owner[f] \in Client
  <2>1. c \in Client /\ f \in File /\ i \in Ours(c, f) /\ Owner[f] \in Client BY OfSession
  <2>2. f \in registrations' /\ ServerTypes /\ ServerTypes' /\ Manager BY DEF IInv, JInv, Offers
  <2> QED BY <2>1, <2>2 DEF Busy
<1>2. /\ alive[c] /\ alive[Owner[f]] /\ ~Cancelled(f)
      /\ \A m \in ToSet(toServer[c]) : m \in ToSet(toServer'[c]) \/ (c = a /\ m = Head(toServer[a]))
      /\ ToSet(toClient[c]) \subseteq ToSet(toClient'[c])
      /\ toServer[c] \in Seq(Command) /\ toServer'[c] \in Seq(Command)
  BY <1>1, ServerQueues, CancelStays DEF Busy, ServerTypes
<1>3. \/ UNCHANGED toServer \/ HandleAck(a) \/ HandleStop(a) \/ (Cleanup(a) /\ c # a)
      \/ Takes(a, {"DOWNLOAD"}) \/ Takes(a, {"UPLOAD"}) \/ Takes(a, {"UPCANCEL"})
  <2>1. Cleanup(a) => ~alive'[a] BY DEF Cleanup
  <2> QED BY <1>1, <2>1 DEF Server, FindFile, StartDownload, AnswerDownload, HandleChunk, HandleUpload, HandleUpCancel
<1>4. HandleAck(a) \/ \A m \in ToSet(toServer[c]) : IsAck(m, i) => m \in ToSet(toServer'[c])
  <2>1. CASE UNCHANGED toServer \/ HandleAck(a) \/ c # a BY <1>2, <2>1
  <2>2. CASE \E kinds \in {{"DWNPAUSE", "DWNCANCEL"}, {"DOWNLOAD"}, {"UPLOAD"}, {"UPCANCEL"}} : Takes(a, kinds)
    <3>1. Head(toServer[a]).kind # "DWACK" BY <1>1, <2>2, TakesMembers
    <3> QED BY <1>2, <3>1 DEF IsAck
  <2> QED BY <1>3, <2>1, <2>2 DEF HandleStop
<1>5. ASSUME StopIn(toServer[c], f) PROVE FALSE
  <2>1. PICK m \in ToSet(toServer[c]) : IsStop(m, f) BY <1>2, <1>5, InQueue
  <2>2. m \notin ToSet(toServer'[c]) BY <1>2, <2>1, InQueue DEF Busy
  <2>3. c = a /\ m = Head(toServer[a]) /\ ~UNCHANGED toServer BY <1>2, <2>2
  <2>4. CASE \E kinds \in {{"DWACK"}, {"DOWNLOAD"}, {"UPLOAD"}, {"UPCANCEL"}} : Takes(a, kinds)
    <3>1. Head(toServer[a]).kind \notin {"DWNPAUSE", "DWNCANCEL"} BY <1>1, <2>4, TakesMembers
    <3> QED BY <2>1, <2>3, <3>1 DEF IsStop
  <2>5. CASE HandleStop(a)
    <3>1. CancelSession(f, a) BY <2>1, <2>3, <2>5 DEF HandleStop, IsStop
    <3>2. NewestSession(f, a) = Ours(a, f) /\ i \in Ours(a, f)
      BY <1>1, <1>2, <2>3, NewestIsAll DEF JInv, Lines, Line, Pair
    <3>3. i \notin DOMAIN sessions' BY <3>1, <3>2 DEF CancelSession, CleanupSessions
    <3> QED BY <3>3
  <2> QED BY <1>3, <2>3, <2>4, <2>5 DEF HandleAck
<1> QED BY <1>2, <1>4, <1>5 DEF Busy

\* A chunk received leaves a transfer flowing.
LEMMA ChunkFlows ==
    ASSUME NEW c \in Client, NEW i, NEW B, Counts(c, i, B),
           NEW s \in TransferSession, NEW t, NEW k, NEW N, ChunkMoved(c, i, k, s, t, N),
           Flowing(s, Asks(c, i), Sent(toClient[c], i) \cup Acks(toServer[c], i))
    PROVE  Flowing(t, Asks(c, i)', Sent(toClient'[c], i) \cup Acks(toServer'[c], i))
<1>1. PICK old, asks : /\ old = Asks(c, i) /\ asks = Asks(c, i)' /\ k \in old
                       /\ \A j : j \in asks <=> (j \in old /\ j # k) \/ j \in N
  BY DEF ChunkMoved
<1>2. /\ s = sessions[i] /\ s.next \in Nat /\ s.received \in Nat
      /\ t.pending = s.pending \cup {k} /\ t.received = s.received + 1
      /\ (s.next < Size /\ t.next = s.next + 1 /\ N = {s.next}) \/ (t.next = s.next /\ N = {})
      /\ old \subseteq 0..(s.next - 1)
      /\ s.next <= s.received + Cardinality(old)
  BY <1>1 DEF ChunkMoved, Counts, Placed, TransferSession, Flowing
<1>3. IsFiniteSet(old)
  <2>1. s.next - 1 \in Int BY <1>2
  <2>2. IsFiniteSet(0..(s.next - 1)) BY <2>1, FS_Interval
  <2> QED BY <1>2, <2>2, FS_Subset
<1>4. PICK rest : rest = old \ {k} /\ IsFiniteSet(rest) /\ Cardinality(rest) = Cardinality(old) - 1
  BY <1>1, <1>3, FS_RemoveElement
<1>5. Cardinality(old) \in Nat BY <1>3, FS_CardinalityType
<1>6. t.next <= t.received + Cardinality(asks)
  <2>1. CASE t.next = s.next + 1 /\ N = {s.next}
    <3>1. s.next \notin rest BY <1>2, <1>4
    <3>2. asks = rest \cup {s.next} BY <1>1, <1>4, <2>1
    <3>3. Cardinality(asks) = Cardinality(rest) + 1 BY <1>4, <3>1, <3>2, FS_AddElement
    <3> QED BY <1>2, <1>4, <1>5, <2>1, <3>3
  <2>2. CASE t.next = s.next /\ N = {}
    <3>1. asks = rest BY <1>1, <1>4, <2>2
    <3> QED BY <1>2, <1>4, <1>5, <2>2, <3>1
  <2> QED BY <1>2, <2>1, <2>2
<1>7. t.pending \subseteq Sent(toClient'[c], i) \cup Acks(toServer'[c], i) /\ t.pending # {}
  BY <1>2 DEF ChunkMoved, Flowing
<1> QED BY <1>1, <1>6, <1>7 DEF Flowing

\* Nor does an acknowledgement stall one that is not complete.
LEMMA AckFlows ==
    ASSUME NEW c \in Client, NEW i, NEW B, Counts(c, i, B),
           NEW s \in TransferSession, NEW t, NEW k, NEW N, AckMoved(c, i, k, s, t, N), alive[Owner[s.file]],
           t.pending = {} => s.received < Size,
           Flowing(s, Asks(c, i), Sent(toClient[c], i) \cup Acks(toServer[c], i))
    PROVE  Flowing(t, Asks(c, i)', Sent(toClient'[c], i) \cup Acks(toServer'[c], i))
<1>1. PICK old, asks : /\ old = Asks(c, i) /\ asks = Asks(c, i)'
                       /\ \A j : j \in asks <=> j \in old \/ j \in N
  BY DEF AckMoved
<1>2. /\ s = sessions[i] /\ s.next \in Nat /\ s.received \in Nat /\ Size \in Nat
      /\ t.pending = s.pending \ {k} /\ t.received = s.received
      /\ (t.next = s.next + 1 /\ N = {s.next}) \/ (t.next = s.next /\ N = {})
      /\ t.next = s.next /\ t.pending = {} => s.next >= Size
      /\ old \subseteq 0..(s.next - 1)
      /\ s.next <= s.received + Cardinality(old)
  BY <1>1, TransferAssumption DEF AckMoved, Counts, Placed, TransferSession, Flowing
<1>3. IsFiniteSet(old)
  <2>1. s.next - 1 \in Int BY <1>2
  <2>2. IsFiniteSet(0..(s.next - 1)) BY <2>1, FS_Interval
  <2> QED BY <1>2, <2>2, FS_Subset
<1>4. Cardinality(old) \in Nat /\ Cardinality({}) = 0 BY <1>3, FS_CardinalityType, FS_EmptySet
<1>5. t.next <= t.received + Cardinality(asks) /\ (t.pending = {} => asks # {})
  <2>1. CASE t.next = s.next + 1 /\ N = {s.next}
    <3>1. s.next \notin old BY <1>2
    <3>2. asks = old \cup {s.next} BY <1>1, <2>1
    <3>3. Cardinality(asks) = Cardinality(old) + 1 BY <1>3, <3>1, <3>2, FS_AddElement
    <3> QED BY <1>2, <1>4, <2>1, <3>2, <3>3
  <2>2. CASE t.next = s.next /\ N = {}
    <3>1. asks = old BY <1>1, <2>2
    <3>2. t.pending = {} => Cardinality(asks) # 0 BY <1>2, <1>4, <2>2, <3>1
    <3> QED BY <1>2, <1>4, <2>2, <3>1, <3>2
  <2> QED BY <1>2, <2>1, <2>2
<1>6. t.pending \subseteq Sent(toClient'[c], i) \cup Acks(toServer'[c], i)
  BY <1>2 DEF AckMoved, Flowing
<1> QED BY <1>1, <1>5, <1>6 DEF Flowing

\* A step of the server that leaves a session as it is, and its requests where they are posted.
LEMMA FlowPassed ==
    ASSUME IInv, IInv', JInv, JInv', NEW a \in Client, Server(a),
           NEW i \in DOMAIN sessions, i \in DOMAIN sessions', sessions'[i] = sessions[i], Flow(i),
           NEW c, c = sessions[i].downloader, NEW f, f = sessions[i].file,
           HandleAck(a) /\ toServer' # toServer /\ c = a /\ IsAck(Head(toServer[a]), i) =>
              Head(toServer[a]).off \notin sessions[i].pending,
           Busy(c, f) => \A x : x.id = i => (x \in requested \cup handling[c].requests
                                                <=> x \in requested' \cup handling'[c].requests)
    PROVE  Flow(i)'
<1>1. ServerTypes /\ ServerTypes' /\ c \in Client BY OfSession DEF IInv
<1>2. ASSUME Busy(c, f)'
      PROVE  /\ Busy(c, f)
             /\ \A m \in ToSet(toServer[c]) :
                   IsAck(m, i) => m \in ToSet(toServer'[c]) \/ m.off \notin sessions[i].pending
             /\ \A x \in ToSet(toClient[c]) : x \in ToSet(toClient'[c])
  BY <1>2, BusyServer
<1> QED BY <1>1, <1>2, FlowKept

\* A session that is busy has its next chunk taken.
LEMMA TakesAsked ==
    ASSUME IInv, JInv, NEW i \in DOMAIN sessions, Flow(i), NEW c, c = sessions[i].downloader,
           NEW f, f = sessions[i].file, Busy(c, f), NEW x \in requested, x.id = i
    PROVE  x.file = f /\ TakesChunk(Owner[f], i, x.off)
<1>1. /\ Uploader(i) = Owner[f] /\ alive[c] /\ sessions[i] \in TransferSession
      /\ \E B \in SUBSET (0..(Size - 1)) : Session(c, f, i, B)
  BY OfSession DEF Busy
<1>2. PICK B \in SUBSET (0..(Size - 1)) : Counts(c, i, B) BY <1>1 DEF Session
<1>3. x.off \in Asks(c, i) BY DEF Asks
<1>4. x.off \in 0..(sessions[i].next - 1) /\ sessions[i].next <= Size /\ sessions[i].next \in Nat
  BY <1>1, <1>2, <1>3 DEF Counts, Placed, TransferSession
<1>5. x.off \notin sessions[i].pending BY <1>2, <1>3 DEF Flow, Flowing, Counts
<1>6. x.off < Size BY <1>4, TransferAssumption
<1>7. x.file = f BY DEF JInv, Lanes, Request
<1> QED BY <1>1, <1>5, <1>6, <1>7 DEF TakesChunk

\* The uploader's browser answers a request, and the server takes the chunk.
LEMMA FlowChunk ==
    ASSUME IInv, IInv', JInv, JInv', NEW a \in Client, HandleChunk(a),
           NEW i \in DOMAIN sessions, i \in DOMAIN sessions', Flow(i)
    PROVE  Flow(i)'
<1>. PICK c, f : c = sessions[i].downloader /\ f = sessions[i].file OBVIOUS
<1>1. PICK x \in Asked(a) :
          \/ /\ TakesChunk(a, x.id, x.off)
             /\ ReceiveChunk(x.id, x.off)
             /\ Post(OnlyTo(sessions[x.id].downloader,
                  <<[kind |-> "DWDATA", file |-> sessions[x.id].file, id |-> x.id, off |-> x.off]>>))
             /\ requested' = (requested \ {x}) \cup NextRequest(x.id, WithChunk(x.id, x.off))
          \/ /\ ~TakesChunk(a, x.id, x.off) /\ requested' = requested \ {x}
             /\ UNCHANGED <<managerVars, toClient>>
  BY DEF HandleChunk
<1>2. x \in requested /\ Owner[x.file] = a /\ handling' = handling /\ Server(a) /\ toServer' = toServer
  BY DEF HandleChunk, Asked, Server
<1>3. CASE TakesChunk(a, x.id, x.off) /\ x.id = i
  <2>1. alive[c] => \E N : ChunkMoved(c, i, x.off, sessions[i], sessions'[i], N)
    BY <1>1, <1>3, ChunkPasses
  <2>2. sessions'[i].downloader = c /\ sessions'[i].file = f
    BY <1>1, <1>3, SessionFacts, RequestNext DEF ReceiveChunk, IInv, Chunk, Asked, ServerTypes
  <2>3. ASSUME Busy(c, f)'
        PROVE  Flowing(sessions'[i], Asks(c, i)', Sent(toClient'[c], i) \cup Acks(toServer'[c], i))
    <3>1. Busy(c, f) /\ alive[c] BY <1>2, <2>2, <2>3, BusyServer DEF Busy
    <3>2. PICK B \in SUBSET (0..(Size - 1)) : Counts(c, i, B) BY <3>1, OfSession DEF Session
    <3>3. c \in Client /\ sessions[i] \in TransferSession BY OfSession
    <3>4. PICK N : ChunkMoved(c, i, x.off, sessions[i], sessions'[i], N) BY <2>1, <3>1
    <3>5. Flowing(sessions[i], Asks(c, i), Sent(toClient[c], i) \cup Acks(toServer[c], i))
      BY <3>1 DEF Flow
    <3> QED BY <3>2, <3>3, <3>4, <3>5, ChunkFlows
  <2> QED BY <2>2, <2>3 DEF Flow
<1>4. CASE x.id # i
  <2>1. sessions'[i] = sessions[i] BY <1>1, <1>4 DEF ReceiveChunk, managerVars, sessionVars
  <2>2. \A y \in NextRequest(x.id, WithChunk(x.id, x.off)) : y.id = x.id BY DEF NextRequest
  <2>3. \A y : y.id = i => (y \in requested <=> y \in requested') BY <1>1, <1>4, <2>2
  <2>4. \A y : y.id = i => (y \in requested \cup handling[c].requests
                               <=> y \in requested' \cup handling'[c].requests)
    BY <1>2, <2>3
  <2> QED BY <1>2, <2>1, <2>4, FlowPassed
<1>5. CASE ~TakesChunk(a, x.id, x.off) /\ x.id = i
  <2>1. sessions' = sessions BY <1>1, <1>5 DEF managerVars, sessionVars
  <2>2. ~Busy(c, f) BY <1>2, <1>5, TakesAsked
  <2> QED BY <1>2, <2>1, <2>2, FlowPassed
<1> QED BY <1>3, <1>4, <1>5

\* The downloader's acknowledgement moves its transfer on.
LEMMA FlowAck ==
    ASSUME IInv, IInv', JInv, JInv', NEW a \in Client, HandleAck(a),
           NEW i \in DOMAIN sessions, i \in DOMAIN sessions', Flow(i)
    PROVE  Flow(i)'
<1> PICK c, f : c = sessions[i].downloader /\ f = sessions[i].file OBVIOUS
<1> PICK m, j, k : m = Head(toServer[a]) /\ j = m.id /\ k = m.off OBVIOUS
<1> DEFINE more == NextRequest(j, WithAck(j, k))
           t == Requesting(WithAck(j, k))
<1>1. Takes(a, {"DWACK"}) /\ UNCHANGED <<alive, handling, departed, browserVars>> /\ Server(a)
  BY Zenon DEF HandleAck, Server
<1>2. sessions[i] \in TransferSession /\ c \in Client /\ f \in File BY OfSession
<1>3. \A x \in more : x.id = j BY DEF NextRequest
<1>4. CASE ~TakesAck(a, j, k)
  <2>1. UNCHANGED <<sessions, requested>> BY <1>4 DEF HandleAck, managerVars, sessionVars
  <2>2. c = a /\ IsAck(m, i) => m.off \notin sessions[i].pending BY <1>4 DEF TakesAck, IsAck
  <2> QED BY <1>1, <2>1, <2>2, FlowPassed
<1>5. CASE TakesAck(a, j, k) /\ IsComplete(WithAck(j, k))
  <2>1. Acknowledge(j, k) /\ PostRequests({}) BY <1>5 DEF HandleAck
  <2>2. sessions' = [l \in DOMAIN sessions \ {j} |-> sessions[l]]
    BY <1>5, <2>1 DEF Acknowledge, CleanupSessions
  <2>3. i # j /\ sessions'[i] = sessions[i] /\ requested' = requested BY <2>1, <2>2 DEF PostRequests
  <2> QED BY <1>1, <2>3, FlowPassed DEF IsAck
<1>6. CASE TakesAck(a, j, k) /\ ~IsComplete(WithAck(j, k))
  <2>1. /\ Acknowledge(j, k) /\ PostRequests(more)
        /\ Post(OnlyTo(a, IF more # {} /\ ~alive[Owner[sessions[j].file]]
                          THEN <<[kind |-> "DWERR", file |-> sessions[j].file]>> ELSE <<>>))
    BY <1>6 DEF HandleAck
  <2>2. sessions' = [sessions EXCEPT ![j] = t] /\ UNCHANGED <<registrations, nextSession>>
    BY <1>6, <2>1, ZenonT(30) DEF Acknowledge, fileVars
  <2>3. GoesOn(a, j, k, t, more) BY <1>1, <1>6, <2>1, <2>2, ZenonT(30) DEF GoesOn
  <2> HIDE DEF more, t
  <2>4. CASE i = j
    <3>1. PICK N : AckMoved(a, i, k, sessions[i], t, N) BY <2>3, <2>4, AckMoves
    <3>2. c = a /\ t = sessions'[i] /\ t.downloader = c /\ t.file = f /\ t.received = sessions[i].received
      BY <1>6, <2>4, <3>1 DEF TakesAck, AckMoved
    <3>3. t.pending = {} => sessions[i].received < Size
      <4>1. WithAck(j, k) \in TransferSession BY <1>6, <2>4, SessionFacts, AckTaken, <1>1 DEF IInv
      <4>2. t.pending = WithAck(j, k).pending /\ t.received = WithAck(j, k).received
        BY <4>1, RequestNext DEF t
      <4>3. t.received \in Nat BY <1>2, <3>2 DEF TransferSession
      <4> QED BY <1>6, <3>2, <4>2, <4>3, TransferAssumption DEF IsComplete
    <3>4. ASSUME Busy(c, f)'
          PROVE  Flowing(t, Asks(c, i)', Sent(toClient'[c], i) \cup Acks(toServer'[c], i))
      <4>1. Busy(c, f) /\ alive[c] /\ alive[Owner[f]] BY <1>1, <3>2, <3>4, BusyServer DEF Busy
      <4>2. PICK B \in SUBSET (0..(Size - 1)) : Counts(c, i, B) BY <4>1, OfSession DEF Session
      <4>3. Flowing(sessions[i], Asks(c, i), Sent(toClient[c], i) \cup Acks(toServer[c], i))
        BY <4>1 DEF Flow
      <4> QED BY <1>2, <3>1, <3>2, <3>3, <4>1, <4>2, <4>3, AckFlows
    <3> QED BY <3>2, <3>4 DEF Flow
  <2>5. CASE i # j
    <3>1. sessions'[i] = sessions[i] BY <2>2, <2>5
    <3>2. \A x : x.id = i => (x \in requested \cup handling[c].requests
                                <=> x \in requested' \cup handling'[c].requests)
      BY <1>1, <1>3, <2>1, <2>5 DEF PostRequests, more
    <3> QED BY <1>1, <2>5, <3>1, <3>2, FlowPassed DEF IsAck
  <2> QED BY <2>4, <2>5
<1> QED BY <1>4, <1>5, <1>6

\* A session has its first window asked for when it starts.
LEMMA FlowStarts ==
    ASSUME IInv, IInv', JInv, NEW a \in Client, StartDownload(a),
           NEW i, i \notin DOMAIN sessions, i \in DOMAIN sessions'
    PROVE  Flow(i)'
<1> PICK f, o : f = handling[a].file /\ o = handling[a].off OBVIOUS
<1>1. /\ CanStart(f, o) /\ StartTransfer(f, a, o)
      /\ handling' = [handling EXCEPT ![a] = [handling[a] EXCEPT !.step = "started",
             !.requests = [file : {f}, id : {nextSession}, off : FirstWindow(o)]]]
      /\ requested' = requested
  BY DEF StartDownload, managerVars, sessionVars
<1>2. i = nextSession /\ i \notin Issued
  BY <1>1 DEF StartTransfer, Issued, IInv, Manager, ManagerTypeOK
<1>3. sessions'[i] = [file |-> f, downloader |-> a, received |-> o, pending |-> {},
                      next |-> o + Cardinality(FirstWindow(o))]
  BY <1>1, <1>2 DEF StartTransfer
<1>4. /\ \A x : x \in handling'[a].requests <=> x \in [file : {f}, id : {i}, off : FirstWindow(o)]
      /\ \A x \in requested' : x.id # i
  <2>1. \A x \in requested : x.id # i BY <1>2, NotIssued
  <2>2. handling[a] \in Handling /\ a \in DOMAIN handling BY DEF IInv, ServerTypes
  <2>3. PICK R : R = [file : {f}, id : {i}, off : FirstWindow(o)] OBVIOUS
  <2>4. handling'[a] = [handling[a] EXCEPT !.step = "started", !.requests = R]
    BY <1>1, <1>2, <2>2, <2>3
  <2>5. handling'[a].requests = R BY <2>2, <2>4 DEF Handling
  <2> QED BY <1>1, <2>1, <2>3, <2>5
<1>5. Asks(a, i)' = FirstWindow(o)
  <2>1. \A k : k \in Asks(a, i)' <=> \E x \in requested' \cup handling'[a].requests : x.id = i /\ x.off = k
    BY DEF Asks
  <2>2. ASSUME NEW k \in FirstWindow(o) PROVE k \in Asks(a, i)'
    <3>1. PICK x : x = [file |-> f, id |-> i, off |-> k] OBVIOUS
    <3>2. x \in [file : {f}, id : {i}, off : FirstWindow(o)] /\ x.id = i /\ x.off = k BY <3>1
    <3> QED BY <1>4, <2>1, <3>2
  <2>3. ASSUME NEW k \in Asks(a, i)' PROVE k \in FirstWindow(o) BY <1>4, <2>1, <2>3
  <2> QED BY <2>2, <2>3
<1>6. FirstWindow(o) # {} /\ o \in Nat /\ o < Size
  <2>1. o \in Nat /\ o < Size BY <1>1 DEF CanStart, IInv, ServerTypes, Handling
  <2>2. o \in FirstWindow(o) BY <2>1, TransferAssumption DEF FirstWindow
  <2> QED BY <2>1, <2>2
<1>7. PICK s : s = sessions'[i] /\ s.downloader = a /\ s.pending = {} /\ s.received = o
                /\ s.next = o + Cardinality(FirstWindow(o))
  BY <1>3
<1>8. Flowing(s, Asks(a, i)', Sent(toClient'[a], i) \cup Acks(toServer'[a], i))
  <2>1. s.next <= s.received + Cardinality(Asks(a, i)') BY <1>5, <1>6, <1>7, FirstWindowIs
  <2> QED BY <1>5, <1>6, <1>7, <2>1 DEF Flowing
<1> QED BY <1>7, <1>8 DEF Flow

\* The step of a lane stalls no session that it leaves or starts.
LEMMA FlowServer ==
    ASSUME IInv, IInv', JInv, JInv', NEW a \in Client, Server(a),
           \A j \in DOMAIN sessions : Flow(j), NEW i \in DOMAIN sessions'
    PROVE  Flow(i)'
<1>1. CASE HandleChunk(a) /\ i \in DOMAIN sessions BY <1>1, FlowChunk
<1>2. CASE HandleAck(a) /\ i \in DOMAIN sessions BY <1>2, FlowAck
<1>3. ASSUME i \notin DOMAIN sessions PROVE Flow(i)'
  <2>1. StartDownload(a)
    <3>1. HandleUpCancel(a) \/ HandleStop(a) => DOMAIN sessions' \subseteq DOMAIN sessions
      BY DEF HandleUpCancel, HandleStop, CancelFile, CancelSession, CleanupSessions
    <3>2. Cleanup(a) => DOMAIN sessions' \subseteq DOMAIN sessions BY DEF Cleanup, CancelBySession
    <3>3. HandleChunk(a) \/ HandleAck(a) => DOMAIN sessions' \subseteq DOMAIN sessions
      BY DEF HandleChunk, HandleAck, ReceiveChunk, Acknowledge, CleanupSessions, managerVars, sessionVars
    <3> QED BY <1>3, <3>1, <3>2, <3>3 DEF Server, FindFile, AnswerDownload, HandleUpload, RegisterFile,
            managerVars, sessionVars
  <2> QED BY <1>3, <2>1, FlowStarts
<1>4. ASSUME i \in DOMAIN sessions, ~HandleChunk(a), ~HandleAck(a) PROVE Flow(i)'
  <2>1. PICK c, f : c = sessions[i].downloader /\ f = sessions[i].file OBVIOUS
  <2>2. /\ ServerTypes /\ Manager /\ c \in Client /\ f \in File /\ i \in Issued /\ Lane(a) /\ i \in Ours(c, f)
    <3>1. c \in Client /\ f \in File /\ i \in Issued /\ i \in Ours(c, f) BY <1>4, <2>1, OfSession
    <3> QED BY <3>1 DEF IInv, JInv, Lanes
  <2>3. sessions'[i] = sessions[i]
    <3>1. CASE HandleUpCancel(a) \/ HandleStop(a)
      BY <1>4, <3>1 DEF HandleUpCancel, HandleStop, CancelFile, CancelSession, CleanupSessions
    <3>2. CASE Cleanup(a) BY <1>4, <3>2 DEF Cleanup, CancelBySession
    <3>3. CASE StartDownload(a)
      <4>1. i # nextSession BY <2>2 DEF Issued, Manager, ManagerTypeOK
      <4> QED BY <1>4, <3>3, <4>1 DEF StartDownload, StartTransfer, managerVars, sessionVars
    <3> QED BY <1>4, <3>1, <3>2, <3>3 DEF Server, FindFile, AnswerDownload, HandleUpload, RegisterFile,
            managerVars, sessionVars
  <2>4. ASSUME Busy(c, f)
        PROVE  \A x : x.id = i => (x \in requested \cup handling[c].requests
                                     <=> x \in requested' \cup handling'[c].requests)
    <3>1. CASE FindFile(a)
      <4>1. handling[a].requests = {} /\ requested' = requested
        BY <2>2, <3>1 DEF FindFile, Takes, LaneFree, Lane, Idle
      <4>2. handling' = handling \/ (handling' = [handling EXCEPT ![a] = handling'[a]] /\ handling'[a].requests = {})
        BY <2>2, <3>1, ZenonT(30) DEF FindFile, Idle, ServerTypes
      <4> QED BY <2>2, <4>1, <4>2 DEF ServerTypes
    <3>2. CASE StartDownload(a)
      <4>1. handling[a].requests = {} /\ requested' = requested
        BY <2>2, <3>2 DEF StartDownload, Lane
      <4>2. handling' = [handling EXCEPT ![a] = handling'[a]] /\ \A x \in handling'[a].requests : x.id # i
        <5>1. CASE handling' = [handling EXCEPT ![a] = Idle] BY <2>2, <5>1 DEF Idle, ServerTypes
        <5>2. CASE handling' = [handling EXCEPT ![a] = [handling[a] EXCEPT !.step = "started",
                     !.requests = [file : {handling[a].file}, id : {nextSession},
                                    off : FirstWindow(handling[a].off)]]]
          <6>1. i # nextSession /\ handling[a] \in Handling
            BY <2>2 DEF Issued, Manager, ManagerTypeOK, ServerTypes
          <6>2. PICK R : R = [file : {handling[a].file}, id : {nextSession}, off : FirstWindow(handling[a].off)]
            OBVIOUS
          <6>3. [handling[a] EXCEPT !.step = "started", !.requests = R].requests = R
            BY <6>1 DEF Handling
          <6>4. \A x \in R : x.id # i BY <6>1, <6>2
          <6> QED BY <2>2, <5>2, <6>2, <6>3, <6>4 DEF ServerTypes
        <5> QED BY <3>2, <5>1, <5>2 DEF StartDownload
      <4> QED BY <2>2, <4>1, <4>2 DEF ServerTypes
    <3>3. CASE AnswerDownload(a)
      <4>1. /\ requested' = requested \cup {x \in handling[a].requests : alive[Owner[x.file]]}
            /\ handling' = [handling EXCEPT ![a] = Idle]
        BY <3>3 DEF AnswerDownload, PostRequests
      <4>2. \A x \in handling[a].requests : x.id = i => a = c /\ alive[Owner[x.file]]
        BY <1>4, <2>2, <2>4 DEF Lane, Ours, Busy
      <4>3. CASE c = a BY <2>2, <4>1, <4>2, <4>3 DEF Idle, ServerTypes
      <4>4. CASE c # a BY <2>2, <4>1, <4>2, <4>4 DEF ServerTypes
      <4> QED BY <4>3, <4>4
    <3> QED BY <1>4, <3>1, <3>2, <3>3 DEF Server, HandleUpload, HandleUpCancel, HandleStop, Cleanup
  <2> QED BY <1>4, <2>1, <2>3, <2>4, FlowPassed
<1> QED BY <1>1, <1>2, <1>3, <1>4

\* Data at the head of a busy transfer's wire finds the download in the browser.
LEMMA DataFound ==
    ASSUME IInv, JInv, NEW i \in DOMAIN sessions, NEW c, c = sessions[i].downloader,
           NEW f, f = sessions[i].file, Busy(c, f), toClient[c] # <<>>, IsData(Head(toClient[c]), i)
    PROVE  Holds(c, f) /\ Head(toClient[c]).file = f
<1>1. /\ c \in Client /\ f \in File /\ Uploader(i) = Owner[f]
      /\ \E B \in SUBSET (0..(Size - 1)) : Session(c, f, i, B)
  BY OfSession DEF Busy
<1>2. PICK B \in SUBSET (0..(Size - 1)) : Stage(c, f, i, B) /\ Course(c, f, i, B)
  BY <1>1 DEF Session
<1>3. PICK w \in Seq(GoodFrame) : w = toClient[c] /\ w # <<>> BY <1>1 DEF IInv, ServerTypes
<1>4. 1 \in 1..Len(w) /\ IsData(w[1], i) BY <1>3
<1>5. ~Doomed(c, i, B) /\ ~StopIn(toServer[c], f) BY <1>1 DEF Busy, Doomed
<1>6. ~Awaiting(c, f)
  <2>1. ~StartIn(toServer[c], f) BY <1>2, <1>5 DEF Course, Fenced, StartIn, StopIn
  <2>2. ~In(w, "DWSTART", f) BY <1>2, <1>3, <1>4 DEF Stage, DataLast, In
  <2>3. handling[c].file # f
    <3>1. Sent(toClient[c], i) # {} BY <1>3, <1>4 DEF Sent
    <3>2. handling[c].step = "idle" => handling[c].file = NoFile BY <1>1 DEF JInv, Lanes, Lane, Idle
    <3>3. f # NoFile /\ handling[c] \in Handling BY <1>1, ClientAssumption DEF IInv, ServerTypes
    <3> QED BY <1>2, <1>5, <3>1, <3>2, <3>3 DEF Stage, Course, Handling
  <2> QED BY <1>1, <1>3, <2>1, <2>2, <2>3, AwaitingIs DEF IInv
<1>7. Holds(c, f) BY <1>2, <1>5, <1>6 DEF Course
<1>8. Head(toClient[c]).file = f BY <1>2, <1>3, <1>4 DEF Stage, DataOf
<1> QED BY <1>7, <1>8

\* Nor does a step of a browser or a user stall one, as long as the uploader's answers.
LEMMA FlowClient ==
    ASSUME IInv, IInv', JInv, NEW a \in Client, Browser(a) \/ User(a), \A f \in File : Served(f),
           NEW i \in DOMAIN sessions, Flow(i)
    PROVE  Flow(i)'
<1> PICK c, f : c = sessions[i].downloader /\ f = sessions[i].file OBVIOUS
<1>1. /\ c \in Client /\ f \in File /\ f \in registrations /\ Owner[f] \in Client
      /\ ServerTypes /\ ServerTypes' /\ Lanes
  BY OfSession DEF IInv, JInv
<1>2. UNCHANGED <<sessions, handling>>
  BY DEF Browser, User, IgnoreRequest, Receive, Select, SendUpload, ClickCancelUpload, ClickDownload, ClickPause,
     ClickResume, ClickCancel, Close, serverVars, managerVars, sessionVars
<1>3. ASSUME Busy(c, f)'
      PROVE  /\ Busy(c, f) /\ ToSet(toServer[c]) \subseteq ToSet(toServer'[c])
             /\ \A x \in ToSet(toClient[c]) : IsData(x, i) =>
                   x \in ToSet(toClient'[c]) \/ \E m \in ToSet(toServer'[c]) : IsAck(m, i) /\ m.off = x.off
             /\ \A x : x.id = i => (x \in requested \cup handling[c].requests
                                       <=> x \in requested' \cup handling'[c].requests)
  <2>1. /\ alive[c] /\ alive[Owner[f]] /\ alive'[Owner[f]]
        /\ ToSet(toServer[c]) \subseteq ToSet(toServer'[c])
        /\ ToSet(toServer[Owner[f]]) \subseteq ToSet(toServer'[Owner[f]])
        /\ \A x \in ToSet(toClient[c]) : x \in ToSet(toClient'[c]) \/ (c = a /\ x = Head(toClient[a]))
    BY <1>1, <1>3, ClientQueues DEF Busy
  <2>2. toServer[c] \in Seq(Command) /\ toServer'[c] \in Seq(Command) BY <1>1 DEF ServerTypes
  <2>3. Busy(c, f) BY <1>3, <2>1, <2>2, InQueue DEF Busy, Cancelled
  <2>4. ASSUME NEW x \in ToSet(toClient[c]), IsData(x, i), x \notin ToSet(toClient'[c])
        PROVE  \E m \in ToSet(toServer'[c]) : IsAck(m, i) /\ m.off = x.off
    <3>1. c = a /\ x = Head(toClient[a]) /\ toClient'[a] # toClient[a] BY <2>1, <2>4
    <3>2. ~Close(a) BY <1>3, <3>1 DEF Close, Busy, IInv, Manager, ManagerTypeOK
    <3>3. Receive(a)
      BY <3>1, <3>2 DEF Browser, User, IgnoreRequest, Select, SendUpload, ClickCancelUpload, ClickDownload,
         ClickPause, ClickResume, ClickCancel
    <3>4. Holds(a, f) /\ x.file = f BY <2>3, <2>4, <3>1, <3>3, DataFound DEF Receive
    <3>5. ReceiveData(a, x) BY <2>4, <3>1, <3>3 DEF Receive, IsData
    <3>6. PICK m : m = [kind |-> "DWACK", id |-> x.id, off |-> x.off] OBVIOUS
    <3>7. toServer'[a] = Append(toServer[a], m)
      BY <1>1, <3>4, <3>5, <3>6 DEF ReceiveData, Send, ServerTypes
    <3>8. m \in Command BY <1>1, <2>2, <2>4, <3>1, <3>6, <3>7, MembersOf
    <3>9. m \in ToSet(toServer'[a]) BY <2>2, <3>1, <3>7, <3>8, MembersOf
    <3>10. IsAck(m, i) /\ m.off = x.off BY <2>4, <3>6 DEF IsAck, IsData
    <3> QED BY <3>1, <3>9, <3>10
  <2>5. ASSUME NEW x \in requested, x.id = i PROVE x \in requested'
    <3>1. x.file = f BY <1>1, <2>5 DEF Lanes, Request
    <3>2. CASE IgnoreRequest(a)
      <4>1. ASSUME x \in Asked(a), ~Answers(a, x) PROVE FALSE
        <5>1. Owner[f] = a /\ ~Contains(toClient[a], [kind |-> "UPOK", file |-> f])
          BY <3>1, <4>1 DEF Asked
        <5>2. ~Answering(f)
          <6>1. ASSUME NEW y \in ToSet(toClient[a]), IsOf(y, "UPOK", f) PROVE FALSE
            <7>1. y \in GoodFrame BY <1>1, <6>1 DEF ServerTypes, ToSet
            <7>2. y = [kind |-> "UPOK", file |-> f] BY <6>1, <7>1 DEF IsOf, GoodFrame, Frame
            <7> QED BY <5>1, <6>1, <7>2 DEF Contains, ToSet
          <6> QED BY <5>1, <6>1 DEF Answering
        <5>3. Serves(f) BY <1>1, <2>1, <2>3, <5>2 DEF Served, Busy
        <5> QED BY <3>1, <4>1, <5>1, <5>3 DEF Serves, Answers
      <4> QED BY <2>5, <3>2, <4>1 DEF IgnoreRequest
    <3>3. CASE Close(a)
      <4>1. Owner[f] # a BY <1>1, <2>1, <3>3 DEF Close, IInv, Manager, ManagerTypeOK
      <4> QED BY <2>5, <3>1, <3>3, <4>1 DEF Close
    <3> QED BY <3>2, <3>3 DEF Browser, User, Receive, Select, SendUpload, ClickCancelUpload, ClickDownload,
            ClickPause, ClickResume, ClickCancel
  <2>6. requested' \subseteq requested
    BY DEF Browser, User, IgnoreRequest, Receive, Select, SendUpload, ClickCancelUpload, ClickDownload,
       ClickPause, ClickResume, ClickCancel, Close
  <2> QED BY <1>2, <2>1, <2>3, <2>4, <2>5, <2>6
<1> QED BY <1>1, <1>2, <1>3, FlowKept

LEMMA InitFlows == Init => Flows
<1> SUFFICES ASSUME Init PROVE Flows OBVIOUS
<1>1. DOMAIN <<>> = {} OBVIOUS
<1>2. DOMAIN sessions = {} /\ registrations = {} BY <1>1 DEF Init, ManagerInit
<1> QED BY <1>2 DEF Flows, Served

\* Every step keeps every transfer flowing, or has begun to end it.
LEMMA NextFlows ==
    ASSUME IInv, IInv', JInv, JInv', Desks, CancelsAlone', Flows, [Next]_vars PROVE Flows'
<1>1. \A f \in File : Served(f)' BY NextServed DEF Flows
<1>2. ASSUME NEW i \in DOMAIN sessions' PROVE Flow(i)'
  <2>1. CASE UNCHANGED vars
    <3>1. UNCHANGED <<sessions, alive, toServer, toClient, requested, handling>>
      BY <2>1 DEF vars, serverVars, managerVars, sessionVars
    <3> QED BY <1>2, <3>1 DEF Flows, Flow, Busy, Cancelled, Asks
  <2>2. ASSUME NEW a \in Client, Server(a) PROVE Flow(i)' BY <1>2, <2>2, FlowServer DEF Flows
  <2>3. ASSUME NEW a \in Client, Browser(a) \/ User(a) PROVE Flow(i)'
    <3>1. UNCHANGED sessions
      BY <2>3 DEF Browser, User, IgnoreRequest, Receive, Select, SendUpload, ClickCancelUpload, ClickDownload,
         ClickPause, ClickResume, ClickCancel, Close, serverVars, managerVars, sessionVars
    <3> QED BY <1>2, <2>3, <3>1, FlowClient DEF Flows
  <2> QED BY <2>1, <2>2, <2>3 DEF Next
<1> QED BY <1>1, <1>2 DEF Flows

\* What flows has something that moves it on.
LEMMA FlowsMove == IInv /\ JInv /\ Flows => NeverStalls
<1> SUFFICES ASSUME IInv, JInv, Flows, NEW i \in DOMAIN sessions PROVE Moves(i) BY DEF NeverStalls
<1> PICK c, f : c = sessions[i].downloader /\ f = sessions[i].file OBVIOUS
<1>1. /\ c \in Client /\ Uploader(i) = Owner[f] /\ DownloaderOf(i) = c
      /\ toServer[c] \in Seq(Command) /\ toServer[Owner[f]] \in Seq(Command) /\ toClient[c] \in Seq(GoodFrame)
  BY OfSession DEF IInv, ServerTypes, DownloaderOf
<1>2. CASE ~Busy(c, f)
  <2>1. CASE ~alive[c] \/ ~alive[Owner[f]] BY <1>1, <2>1 DEF Moves
  <2>2. CASE Cancelled(f)
    <3>1. PICK q \in Seq(Command) : q = toServer[Owner[f]] BY <1>1
    <3>2. PICK m \in ToSet(q) : IsOf(m, "UPCANCEL", f) BY <2>2, <3>1 DEF Cancelled
    <3>3. \E n \in 1..Len(q) : q[n] = m BY DEF ToSet
    <3> QED BY <1>1, <3>1, <3>2, <3>3 DEF Moves, IsOf
  <2>3. CASE StopIn(toServer[c], f) BY <1>1, <2>3 DEF Moves, StopIn, IsStop
  <2> QED BY <1>2, <2>1, <2>2, <2>3 DEF Busy
<1>3. CASE Busy(c, f)
  <2>1. Asks(c, i) # {} \/ Sent(toClient[c], i) # {} \/ Acks(toServer[c], i) # {}
    BY <1>3 DEF Flows, Flow, Flowing
  <2>2. CASE Asks(c, i) # {} BY <1>1, <2>2 DEF Moves, Asks
  <2>3. CASE Sent(toClient[c], i) # {} BY <1>1, <2>3 DEF Moves, Sent, IsData
  <2>4. CASE Acks(toServer[c], i) # {} BY <1>1, <2>4 DEF Moves, Acks, IsAck
  <2> QED BY <2>1, <2>2, <2>3, <2>4
<1> QED BY <1>2, <1>3

\* For any window, file size and number of clients and of DOWNLOADs, every transfer has something
\* under way that moves it on or ends it, if users wait for answers - as long as no cancelled
\* upload leaves its flag behind in a browser that has another file on offer.
THEOREM TransfersMove == Patient => (Spec /\ []CancelsAlone => []NeverStalls)
<1> SUFFICES ASSUME Patient PROVE Spec /\ []CancelsAlone => []NeverStalls OBVIOUS
<1> DEFINE Inv == IInv /\ JInv /\ Desks /\ Flows
<1>1. Init => Inv BY InitIInv, InitJInv, InitDesks, InitFlows
<1>2. Inv /\ CancelsAlone' /\ [Next]_vars => Inv' BY NextIInv, NextJInv, NextDesks, NextFlows
<1>3. Inv => NeverStalls BY FlowsMove
<1> QED BY <1>1, <1>2, <1>3, PTL DEF Spec

\* A cancelled upload stays withdrawn until the next file is selected.
LEMMA NextFlagged ==
    ASSUME IInv, IInv', Desks, Flagged, [Next]_vars PROVE Flagged'
<1>1. ServerTypes /\ ServerTypes' /\ UploadTypes /\ UploadTypes' /\ alive \in [Client -> BOOLEAN]
  BY DEF IInv, Manager, ManagerTypeOK
<1>2. CASE UNCHANGED vars
  BY <1>2 DEF vars, serverVars, browserVars, uploadVars, Flagged, Withdrawn, Answering
<1>3. ASSUME NEW a \in Client, Server(a) \/ Browser(a) \/ User(a), NEW c \in Client, cancelUpload'[c]
      PROVE  alive'[c] /\ \E f \in File : Withdrawn(c, f)'
  <2>1. CASE ~cancelUpload[c]
    <3>1. PICK f \in File : ClickCancelUpload(a, f) /\ a = c
      BY <1>1, <1>3, <2>1, Zenon DEF Server, FindFile, StartDownload, AnswerDownload, HandleChunk, HandleAck, HandleStop,
         HandleUpload, HandleUpCancel, Cleanup, Browser, IgnoreRequest, Receive, User, Select, SendUpload,
         ClickCancelUpload, ClickDownload, ClickPause, ClickResume, ClickCancel, Close,
         browserVars, uploadVars, UploadTypes
    <3>2. /\ alive[c] /\ f \in DOMAIN uploadSessions[c] /\ UNCHANGED <<alive, toClient, uploaded>>
          /\ uploadSessions' = [uploadSessions EXCEPT ![c] = [g \in DOMAIN @ \ {f} |-> @[g]]]
      BY <3>1 DEF ClickCancelUpload, serverVars
    <3>3. f \in DOMAIN uploaded /\ Owner[f] = c /\ \A x \in ToSet(toClient[c]) : ~IsOf(x, "UPOK", f)
      BY <3>2 DEF Desks, Desk, Bound, IsOf
    <3>4. f \notin DOMAIN uploadSessions'[c] BY <1>1, <3>2 DEF UploadTypes
    <3> QED BY <3>2, <3>3, <3>4 DEF Withdrawn, Answering
  <2>2. CASE cancelUpload[c]
    <3>1. PICK f \in File : alive[c] /\ Withdrawn(c, f) BY <2>2 DEF Flagged
    <3>2. alive'[c]
      <4>1. Close(a) => c # a BY <1>1, <1>3 DEF Close, UploadTypes
      <4> QED BY <1>1, <1>3, <3>1, <4>1, Zenon DEF Server, FindFile, StartDownload, AnswerDownload, HandleChunk, HandleAck,
              HandleStop, HandleUpload, HandleUpCancel, Cleanup, Browser, IgnoreRequest, Receive, User, Select,
              SendUpload, ClickCancelUpload, ClickDownload, ClickPause, ClickResume, ClickCancel, Close, serverVars
    <3>3. f \in DOMAIN uploaded' /\ Owner[f] = c /\ f \in DOMAIN uploaded
      BY <1>3, <3>1, UploadsLeft DEF Withdrawn, HandleUpload, Select, SendUpload, Receive, browserVars
    <3>4. ASSUME NEW x \in ToSet(toClient'[c]), IsOf(x, "UPOK", f) PROVE FALSE
      <4>1. CASE HandleUpload(a)
        <5>1. PICK g \in File \ DOMAIN uploaded :
                  Post([ToOthers(a, [kind |-> "FILE", file |-> g]) EXCEPT ![a] = <<[kind |-> "UPOK", file |-> g]>>])
          BY <4>1 DEF HandleUpload
        <5>2. PICK y, z : y = [kind |-> "UPOK", file |-> g] /\ z = [kind |-> "FILE", file |-> g]
          OBVIOUS
        <5>8. y.file = g /\ z.kind = "FILE" BY <5>2
        <5>3. y \in GoodFrame /\ z \in GoodFrame BY <5>2, FrameTypes
        <5>4. PICK fs : fs = [ToOthers(a, z) EXCEPT ![a] = <<y>>] OBVIOUS
        <5>5. fs \in [Client -> Seq(GoodFrame)] /\ fs[c] \in {<<>>, <<y>>, <<z>>}
          <6>1. ToOthers(a, z) \in [Client -> Seq(GoodFrame)] /\ <<y>> \in Seq(GoodFrame)
            BY <5>3, ToOthersTypes
          <6>2. ToOthers(a, z)[c] \in {<<>>, <<z>>} BY DEF ToOthers
          <6> QED BY <5>4, <6>1, <6>2
        <5>6. x \in ToSet(toClient[c]) \/ x \in ToSet(fs[c])
          BY <1>1, <3>4, <5>1, <5>2, <5>4, <5>5, PostMembers
        <5>7. x \notin ToSet(fs[c]) BY <3>3, <3>4, <5>8, <5>1, <5>5 DEF ToSet, IsOf
        <5> QED BY <3>1, <3>4, <5>6, <5>7 DEF Withdrawn, Answering
      <4>2. CASE ~HandleUpload(a)
        <5>1. Behind(toClient[c], toClient'[c], "UPOK") /\ toClient[c] \in Seq(GoodFrame) /\ toClient'[c] \in Seq(GoodFrame)
          BY <1>1, <1>3, <3>2, <4>2, ServerQueues, ClientQueues DEF ServerTypes
        <5>2. x \in ToSet(toClient[c]) BY <3>4, <5>1, BehindOne DEF IsOf
        <5> QED BY <3>1, <3>4, <5>2 DEF Withdrawn, Answering
      <4> QED BY <4>1, <4>2
    <3>5. f \notin DOMAIN uploadSessions'[c]
      <4>1. CASE Receive(a) /\ Head(toClient[a]).kind = "UPOK" /\ c = a
        <5>1. PICK x : x = Head(toClient[a]) /\ x.kind = "UPOK" /\ BindUpload(a, x.file)
          BY <4>1 DEF Receive
        <5>2. x \in ToSet(toClient[c]) BY <1>1, <4>1, <5>1, MembersOf DEF Receive, ServerTypes
        <5>3. x.file # f BY <3>1, <3>3, <5>1, <5>2 DEF Withdrawn, Answering, IsOf
        <5> QED BY <1>1, <3>1, <4>1, <5>1, <5>3 DEF BindUpload, UploadTypes, Withdrawn
      <4>2. CASE Receive(a) /\ Head(toClient[a]).kind = "UPOK" /\ c # a
        BY <3>1, <4>2, UploadBound DEF Withdrawn
      <4>3. CASE ~(Receive(a) /\ Head(toClient[a]).kind = "UPOK")
        BY <1>3, <3>1, <4>3, UploadsLeft DEF Withdrawn, HandleUpload, Select, SendUpload, uploadVars, browserVars
      <4> QED BY <4>1, <4>2, <4>3
    <3> QED BY <3>2, <3>3, <3>4, <3>5 DEF Withdrawn, Answering
  <2> QED BY <2>1, <2>2
<1> QED BY <1>2, <1>3 DEF Next, Flagged

LEMMA FlaggedAlone == OneFileEach /\ IInv /\ Desks /\ Flagged => CancelsAlone
BY DEF OneFileEach, Desks, Bound, Flagged, Withdrawn, CancelsAlone, IInv, UploadTypes

\* For any window, file size and number of clients and of DOWNLOADs: every transfer has something
\* under way that moves it on or ends it, if users wait for answers and offer one file each.
THEOREM NoTransferStalls == Patient /\ OneFileEach => (Spec => []NeverStalls)
<1> SUFFICES ASSUME Patient, OneFileEach PROVE Spec => []NeverStalls OBVIOUS
<1> DEFINE Inv == IInv /\ Desks /\ Flagged
<1>1. Init => Inv BY InitIInv, InitDesks DEF Init, Flagged
<1>2. Inv /\ [Next]_vars => Inv' BY NextIInv, NextDesks, NextFlagged
<1>3. Inv => CancelsAlone BY FlaggedAlone
<1>4. Spec /\ []CancelsAlone => []NeverStalls BY TransfersMove
<1> QED BY <1>1, <1>2, <1>3, <1>4, PTL DEF Spec
=============================================================================
