# ChatServe in TLA+

ChatServe is a chat server written from `epoll` up in C++17, with rooms, file
transfer, WebRTC signalling and a Vue client. This directory models its
concurrent core, its rooms, its file transfer and the protocols of its web
client in TLA+, checks the models with TLC on small instances, and proves the
most important facts with TLAPS for all sizes.

Paths below are relative to the repository's root.

1. [The system](#1-the-system)
2. [The modules](#2-the-modules)
3. [The runs](#3-the-runs)
4. [Fairness](#4-fairness)
5. [The proofs](#5-the-proofs)
6. [What the runs found](#6-what-the-runs-found)
7. [What is not modelled](#7-what-is-not-modelled)
8. [Plan](#8-plan)

## 1. The system

### Threads and the way of a message

The main Reactor accepts connections and gives each to one of N io threads
(`fd % N`), for good. An io thread reads, parses and writes for its connections.
One control thread (`CtrlDispatcher`) stands between the io threads and the
thread pool that runs the commands (`AppHandler`, `AppRouter`).

    browser ── io thread ──(uplink mailbox)──> control thread ──(post_batch)──> pool worker
                  ^                                 |   ^                            |
                  └────────(downlink mailbox)───────┘   └────────(result mailbox)────┘

The only state that threads share: the mailboxes, the pool's queue, the
`Session` blocks (`alive_`, written by io and read by the others; `room_`,
used by the session's own commands), the rooms and their transfer managers,
which workers use under locks.

### Components

| Component | State | Operations | Interacts with | Hard behaviour | What makes it correct |
| --- | --- | --- | --- | --- | --- |
| `Mailbox`, `BatchQueue`, `FdRegistration` | two vectors, `draining_`, an eventfd counter | `attach`, `post`, `post_batch`, wake-up, drain | any thread posts, one loop consumes | deciding to wake and finding the queue empty race; the write to the eventfd comes after the lock | no lost and no redundant wake-up; FIFO, everything posted is delivered |
| `EventLoop` | fd table, its own `BatchQueue`, `quit_` | `add`, `del`, `loop`, `post`, `quit` | everything on its thread | an fd removed or reused inside a batch of events; a drain that never ends | no callback of a removed registration |
| `CtrlDispatcher` | `lanes_`, two mailboxes, the batch and frames of a round | `handle_uplink`, `handle_result`, `enqueue_up`, `handle_close`, `advance_lane`, `submit_ups`, `dispatch` | io threads, `AppHandler` | events of one connection against its close; a refused batch | one event of a session in flight; cleanup once, last, and always; order kept |
| `AppHandler` | none (a task in the pool) | `handle`, `handle_up`, `route` | pool, router, result mailbox | `alive_` is read before and used after | exactly one result for an event taken |
| `AppRouter`, chat and signalling commands | command table, `Session::room_` | JOIN, MSG, LEAVE, signalling, `cleanup` | rooms | snapshots of members taken by different workers | members' views agree with the room |
| `LockFreeQueue` | ring of numbered cells, two positions | `try_push`, `try_push_batch`, `try_pop` | pool | every interleaving of shared accesses; a slow reader at the wrap | each item once, in order; "full" and "empty" are the truth |
| `ThreadPool` | queue, mutex, condition variable, `stop_` | `post_batch`, `worker_loop`, `shutdown` | dispatcher, factory | sleeping against notifying; shutdown against posts | nobody sleeps on work; shutdown drains and returns |
| `TransferManager`, transfer commands | registrations, sessions, indices by uploader and downloader | `register_file`, `start_transfer`, `handle_chunk_data`, `handle_ack`, `cancel_*` | rooms, both browsers | handlers of several clients overlap; parties leave half way | indices agree; nothing of a client that left; a transfer never waits for nothing |
| `Room`, `RoomManager` | members, the map of rooms | `join_room`, `leave_room`, `find_room` | router | a room recycled while others join | at most nine members; no live member in a recycled room |
| `WriteScheduler` | pending bytes, close flag | `enqueue`, `flush` | io, kernel socket | partial sends; closing inside a call | frames whole and in order; bounded buffer; one close |
| `ConnHandler`, `Heartbeat` | connections, read buffers, protocol, time stamps | accept, read, switch to WebSocket, tick, close | mailbox, write engine | close from inside a handler; silence at a tick | CLOSED once; living connections are kept |
| `HttpParser`, `HttpHandler`, file server | parser state | parse in pieces, route, serve | connection | input cut anywhere | same result however it is cut |
| `WsParser`, `WsHandler` | parser state, fragments | frames, fragments, ping, close | connection | control frames between fragments | a message is its fragments, in order |
| `Acceptor`, `Gateway`, `Reactor`, `ReactorFactory` | threads, loops | start, stop | all | order of stopping; a start that fails | nothing runs on destroyed objects |
| Web client, connection (`useChat`) | `ws`, two timers, time stamps, `joined`, `connStatus` | `connect`, `leave`, `heartbeatTick`, `handleDisconnect`, socket events | server, page, user | silent sockets, frozen pages, handlers of sockets replaced | one live socket; a way back into the room; nothing after leaving |
| Web client, calls (`useWebRTC`) | `peers` with a connection and media states, own tracks | `connectTo`, `handleOffer`, `handleAnswer`, `handleMedia`, `closePeer`, devices | browser, other members by way of the server | offers from both sides, permission dialogs, late frames | connections agree; one is shown what is on |
| Web client, files (`useFileTransfer`) | uploads and downloads | selecting, sending, pausing, resuming, cancelling, frames | server | user actions against frames under way | a file handed over is complete; what is shown is so |

`AppParser` and the frame codecs are pure. The Electron shell, scripts and
build files keep no protocol state.

## 2. The modules

    Channel                      the FIFO that a mailbox and the pool promise
      ^            ^
    Mailbox      ThreadPool      LockFreeQueue     Membership
                                                     ^
    Dispatch     TransferManager                   Rooms        ChatClient   Call
                 Transfer

    MCDispatch   MCTransfer      MCLockFreeQueue   MCRooms
    DispatchProofs, MailboxProofs, ThreadPoolProofs, LockFreeQueueProofs, RoomsProofs,
    TransferInvariants, TransferProofs, ChatClientProofs, CallProofs

An arrow is a refinement, shown by `INSTANCE ... WITH` (for LockFreeQueue in its proofs
only). An `MC` module gives TLC values for the constants of a module; a `Proofs` module has the theorems
about it. `TransferInvariants` holds the invariants that `TransferProofs` is about, apart from the
proofs, so that TLC can check them too.

**Channel** is the abstract specification: a queue, a sequence of what was taken
out, a step that appends some items and one that takes some from the front.

**Mailbox** (`include/core/Mailbox.h`, `BatchQueue.h`, `FdRegistration`,
`EventLoop::post`). Posting is two steps, `Push` under the mutex and `Wakeup`,
the write to the eventfd after it; consuming is five: epoll reports the eventfd,
the counter is read, vectors are swapped under the mutex, the callback runs,
the drain ends under the mutex. `owes` holds the producers between their two
steps. `waiting`, `ready`, `draining` and `efd` are the code's own. The constant
`AttachFirst` says whether a post may come before `attach`.

**Dispatch** (`src/server/CtrlDispatcher.cpp`, `src/app/AppHandler.cpp`, the close
path of `src/conn/ConnHandler.cpp`). `BeginClose` and `UplinkClosed` are the two
halves of `close_connection`, which a worker may read `alive_` between;
messages may follow CLOSED, as `handle_ws` lets them. `UplinkRead` posts what one read of the socket
held: `uplink_ws` copies its texts first and its binaries after, so a chunk may
end up behind a text that was sent after it (`Sooner`). A round of the control
thread is `SortUplink` or `SortResult` repeated, then `EndRound`, which dispatches the
frames and submits the batch. A worker is `Pop`, `Admit` (look at `alive_`),
`Act` (the command's effect on the room), `PostResult`. Commands are kept to
four kinds: JOIN changes the room, MSG reads it, CHUNK is a binary, CLOSED cleans up. The
mailboxes are taken from Channel's promise: a FIFO for the uplink. The pool's
queue and the results are sets, because several workers take and fill them. Of the ring is kept when it refuses: `cell`
says where the cell is that a popper has claimed and not given back (`FreeCell`), and `Fits` refuses a
batch that needs it, as `try_push_batch` does, however few tasks are queued. `seen`,
`ran`, `posted` and `refused` are history: the last event of a sender each member was told about, the last
a worker acted on, which message of its client each posted one was, and what was lost with a refused batch.

**LockFreeQueue** (`include/core/LockFreeQueue.h`). One step is one access to
shared memory: loads of a position, of a cell's number, compare-and-exchange
(which may fail spuriously), plain reads and writes of the data, release stores.
The release/acquire pairs on a cell's number order the plain accesses, so
sequential interleaving loses nothing; that no two threads own a cell at once is
checked (`OneOwner`), so there is no data race for which it would.

**ThreadPool** (`src/core/ThreadPool.cpp`). `mutex` says who holds `mutex_`;
`waiting` are the workers in `cv_.wait` that were not notified; spurious wake-ups
are steps. The queue is what LockFreeQueue offers to one pusher at a time: the
items of a batch become visible one by one (`coming` to `queue`), a pop can find
nothing while a batch is being published, and a push may fail while a popper has not
freed its cell. `closing` follows the call of `shutdown`.

**TransferManager** (`src/chatroom/TransferManager.cpp`) has the manager's state
and one operator for each operation, all of which run under `mtx_`. Offsets are counted in
chunks. A file handle is never given out twice, so its owner is a constant.
`sessions` is the table; `uploaderSessions` and `downloaderSessions` are the
indices, kept as the code keeps them and not derived.

**Transfer** (`src/app/AppTransferCommands.cpp`, `AppRouter::cleanup`,
`web/src/composables/useFileTransfer.js`, the buttons of `FileCard.vue`) extends it
to a transfer end to end. `toServer[c]` are commands on their way from a browser, in
order; `toClient[c]` the frames on their way to it; `requested` the chunks asked
of an uploader's browser; `pendingFile` and `uploadSessions` what it has selected and what it
serves. What Dispatch establishes is assumed here: commands of a
client, which are texts, are handled one at a time and in order, its chunks between any of them (binaries may fall behind), its cleanup
after all of them, frames arrive in the order posted and not at a dead connection. Batches are not refused here. DOWNLOAD has two
sections under `mtx_` and looks at `alive_` in between, so it is three steps
(`FindFile`, `StartDownload`, `AnswerDownload`). Other handlers have one section and are one
step with the posting of their frames: what another handler could do between section and
posting is to end the session, and a request or a DWNDONE that then comes late finds
no session at the uploader's next chunk, and no download at the browser. `DWDATA` stands for the header frame and
the binary chunk after it. A page ends with its connection (`Close`). In the code it may
outlive it: `useChat` resets the upload form only, and connects again as a new session, with senders and downloads on the page of handles
the server has withdrawn. Such a page is not modelled.

**Membership** is the abstract specification of the rooms: a place for each
session, outside, in one room or gone, and no more than `MaxMembers` in a room.

**Rooms** (`src/chatroom/Room.cpp`, `AppChatCommands.cpp`, `AppSignalCommands.cpp`,
`AppRouter::cleanup`, and what `useChat.js` makes of the frames). `mapped` is `rooms_`,
which object a number maps to; `members[o]` the connections of object `o`, which may be out of the
map and still held by a handler. A handler's section under the map's lock is
one step (`JoinRoom`, `LeaveRoom`), the posting of its frames another (`PostJoin`, `PostLeave`):
in between, other handlers join, leave and post. Relaying a signal looks up the room
first and the member afterwards (`TakeOffer`, `Relay`). That handlers of one connection
do not overlap and cleanup comes last is what Dispatch shows. On the side of the
browsers, `list` is `memberList` and `peers` the entries of useWebRTC. A JOIN, and
the MEMBERS before it, count as received when posted: io threads keep the order of frames to a browser.

**ChatClient** (`useChat.js`, `LoginPanel.vue`, and of the server the JOIN handler, PING and the
timeout). `ws` is the reference, `sock` the sockets it may have referred to: `connect` leaves
the handlers on those it replaces. `down` are sockets whose path is dead without either end being told;
that is what the heartbeat is for. Time is counted in heartbeat intervals, and a path that
works carries a PING and its answer within one of them (`Answered`). A page may be hidden, and it may be frozen:
it then misses ticks, and on thawing finds its time stamps overdue and one tick due, before or after the
frames that came in meanwhile. The server is as much as the client can tell of it: a connection is
a member or not, or gone.

**Call** (`useWebRTC.js` at both ends of one pair, with the server relaying). "a" is in the room and hears
of the joining of "b". `pc[x]` is the RTCPeerConnection, which is the browser's and is
modelled from how it is used: signalling state, tracks handed to it, negotiated lines, what is sent and
received, which connection the other end is. `run` says what asynchronous operation is under way.
Asking for a device and getting it are two steps (`SwitchOn`, `GotMedia`), with frames and offers in between.
`ensureMicOn` asks once at a time; `toggleMedia` asks for the camera as often as the button is clicked, so a second dialog may be open
beside the first and bring a second track (`cam2`), which goes into the stream and to connections made later, not
to the one there is. `SwitchOff` of the microphone may come while its dialog is open, or with the microphone off.
`ConnectionFails` is `onconnectionstatechange`: any transport may break down at any time, and the entry goes with it. `Lost` says
when that is the only thing that can happen, because the other end is gone or does not play its part. `mishaps`
is history: whether two offers have crossed, and whether a connection was cut that was not lost. What is shown is
`VideoGrid.vue`'s: a camera by its track and not being announced as off, the microphone by the announcement alone.

The **Proofs** modules hold the theorems of section 5. Modules hold, beside each operation, mutated forms of it
(`Mutant of ...`): plausible bugs, used to show that each property can fail.

## 3. The runs

`CHECK_DEADLOCK FALSE` everywhere: all bounds are on what users and callers may
still do, and a system with nothing left to do stops.

| Run | Instance | What it shows |
| --- | --- | --- |
| `mailbox` | 3 producers, batches of up to 2, 2 items each | one wake token at a time, a FIFO, all delivered |
| `dispatch` | 2 sessions sending 2 messages (texts or chunks, in one read or two) and 1, 2 workers, a pool of 2 | one event in flight, cleanup final, events run and are told in order; in the end every close is cleaned up and every message of an open connection run, but those refused |
| `lock_free_queue` | ring of 2, 2 producers with batches of up to 2, 2 consumers, 5 items | no cell shared, the right item at the right position, honest "empty" and "full" |
| `thread_pool` | 2 workers, 2 callers, room for 2, 4 tasks, a shutdown | no worker oversleeps, shutdown drains and returns, accepted tasks run once |
| `transfer` | uploader and downloader, 3 chunks, window 2, 2 DOWNLOADs | indices agree, nothing is left of a client that went, complete files only, no transfer waits for nothing |
| `rooms` | 3 connections, 2 rooms of 2 places | rooms are a membership relation, nothing is lost in a recycled room, one caller for each pair, who leaves is hung up on |
| `chat_client` | 3 sockets, 2 breakdowns, 1 freeze, silence of 2 intervals | one live socket, none after leaving, messages as a member, no healthy socket given up, a way back |
| `call` | 2 browsers, 3 switchings of devices, 2 camera dialogs at a time, 2 connections each | quiet connections agree, nothing is left of one who went, in the end one is shown what is on; the first and the last unless offers crossed or a connection was cut |

Runs that end in a violation, each a disagreement of code and documentation
(section 6): `dispatch_full`, `transfer_two_files`, `rooms_stale`, `call_glare`.

The properties that carry the most:

- `OneWakeToken`: a marked drain is answered for by exactly one of a
  producer about to write, the unread counter, the consumer.
- `SingleFlight`: at most one event of a session among batch, pool, workers and results;
  a lane exactly while there is one.
- `CleanedForGood`: although `alive_` is read early and messages may be posted
  after CLOSED, nothing brings a cleaned-up session back into its room.
- `KeepsOrder`: from a client's socket to the members' io threads, though each event may be run by another
  worker and batches may be refused. Messages run in the order posted, and one is passed over only if the pool refused it or the
  connection has ended. Against the order sent, texts keep theirs, binaries theirs, no text falls behind a
  binary sent after it; a binary may fall behind a later text of the same read, which is what the code does.
- `ClosedSettles`, `SentSettles`: in the end every ended connection is cleaned up and every message of
  an open one has run, or was in a batch the pool refused, or queued behind one.
- `PopsWhatWasPushed`, `AnswersAreHonest`: what a caller of the queue may
  conclude. A worker's decision to sleep rests on "empty" being the truth.
- `NobodyOversleeps`, `DrainedAtShutdown`: the pool between its lock-free fast
  path and its condition variable.
- `IndexesAgree`: cancelling goes through the indices alone, so what they miss leaks.
- `GoneForGood`: a DOWNLOAD half way on another worker sets nothing up with a
  client whose cleanup has run.
- `NeverStalls`: for every session something is under way that moves it on or ends it.
  It is the safety form of "a transfer ends", and stronger than it on finite
  runs; it holds through pauses, late chunks and cancellations.
- `DoneMeansAll`: the file a browser hands to its user has every chunk, though
  resuming starts at the first gap and chunks of abandoned sessions still arrive.
- `ImplementsMembership`, `HeldIsMapped`: objects come and go under a number, and still nobody is in two
  rooms, a room has no more than its limit, and what a handler does with the room it holds
  is done to the room the number names.
- `OneCaller`: of two members exactly one calls the other, however their joins overlap, which
  rests on snapshot and membership being taken under one lock.
- `GoneIsHungUp`: who has gone ends up in nobody's calls, also of those who were joining, or being
  called, when it went.
- `OneVoice`, `LeftIsLeft`: no socket but the one in `ws` can still act, and after leaving nothing can.
- `NoFalseDeath`, `BackInRoom`: the two sides of the heartbeat. No socket is given up whose
  path works, however long the page was frozen, and every breakdown, silence included, ends in the room again
  while the page is in view.
- `CallAgrees`: two browsers with nothing left to say mean each other's connection, with the same lines and each receiving
  what the other sends, as long as no two offers have crossed and no working connection was cut.
- `ViewsSettle`: under the same condition, in the end one is shown the other's devices that are on and no other, although MEDIA
  frames, offers and permission dialogs overlap.

### Bounds

`MaxPosted`, `MaxSent`, `Sends`, `MaxItems`, `MaxOffered`, `MaxBatch`, `MaxDownload`, `MaxSocket`, `MaxFaults`, `MaxFreezes`,
`MaxSwitch`, `MaxPC` and `MaxAsked` bound a run.
Why they are enough for the cases that matter:

- Mailbox: a third producer can post while one owes a wake-up and the consumer is
  anywhere in its drain; two items each allow a second drain after the first.
- Dispatch: with two messages one is in flight and the other in the lane when
  CLOSED arrives or a result comes back, and both may be in one read, in either order of text and chunk; two workers run two
  sessions at once and could run one session's events at once if the gate let them. A pool of two holds an event of
  each session, so that it refuses only because of a popper that still holds its cell; in a ring of 1024 that
  takes a popper that sleeps for a lap, or a batch that reaches round to its cell. MSG differs from JOIN only in leaving the members alone: the runs leave it out
  (`Sends`), the proofs do not.
- LockFreeQueue: five items are two and a half laps of two cells, so a reader
  can be a lap behind a batch that wants its cell. A ring of two is the
  smallest for which the protocol is right: with one cell, which the
  `static_assert` admits, the number that publishes a position is the number
  that frees the cell for the next one, and a push into the full ring overwrites. The pool uses
  1024.
- ThreadPool: four tasks and room for two make a caller meet a full queue and a
  worker an empty one; with two workers a single notification at shutdown would show.
- Transfer: three chunks exceed the window of two, so the last is asked for
  only after an acknowledgement or a chunk; two DOWNLOADs are one resume, or one second attempt.
  One file is offered and as many UPLOADs are made as there are handles.
  The runs take a user who has sent an UPLOAD or a DOWNLOAD and waits for the answer
  (`Patient = TRUE`). The download button stays until DWSTART arrives, and a
  second click makes a second session, whose chunks nobody acknowledges once
  the first has finished. A file deselected, or sent twice, before its UPOK is offered and
  served by nobody. With `Patient = FALSE`, `NeverStalls` fails for these reasons.
- Rooms: with rooms of two places, a third session meets a full one and a room that is recycled while it joins;
  two joins, a join and a leave, a relay and a leave overlap. Each connection has a number of its own: where two
  share one, as when the kernel reuses a descriptor, `OneCaller` fails, because the LEAVE of the
  old connection hangs up on the newcomer.
- ChatClient: three sockets are the one that broke, one that failed and one that works, with two of
  their connections still known to the server. Two breakdowns allow one while reconnecting. A silence limit of two intervals
  (three in the code) tells one tick too early from enough. A second freeze can kill a connection that works: the probe
  is sent, the page is frozen again before the answer is read, and the next tick finds its grace over; hence
  one. The user waits for an attempt to end before another (`Careful`) and the server refuses newcomers only
  (`Refused`), see section 6.
- Call: three switchings are a device of each side and one off again, two cameras of one side beside a microphone, or two
  offers that cross. A browser makes a second connection when it cannot take an offer, or after the first was cut. `CallAgrees` and
  `ViewsSettle` are about calls in which no offers have crossed and none was cut; the crossing has its own run (`call_glare`, section 6), `NoGhost` and `TypeOK`
  hold whatever happens.

Symmetry is used for the interchangeable threads of `lock_free_queue`, which checks no liveness.

## 4. Fairness

- Mailbox: weak fairness of the consumer as a whole (its thread runs and
  `epoll_wait` is level triggered) and of each owed `Wakeup` (a thread that has left the
  mutex reaches its `write`). Nobody has to post.
- Dispatch: weak fairness of `UplinkClosed`, since `close_connection` does not block between
  its halves, of the control thread and of each worker. Nobody has to send or close. Clients send so many messages and
  close once, so what follows each of these has followed from some time on: `ClosedSettles` and `SentSettles` say it in
  that form (`<>[]`).
- ThreadPool: weak fairness of each thread, with every task ending. Nobody has to post or
  shut down, spurious wake-ups are not promised. Weak fairness is enough for the mutex
  because the calls of a run are finitely many.
- Rooms: weak fairness of the worker that has an event of a connection. Nobody has to join or to leave.
- ChatClient: the browser's handlers and timers, the server's handling of frames and its timeout, thawing. A `close` event is
  promised only where the other end closed: a dead path tells nobody. The user and the network owe nothing, and
  `BackInRoom` is about pages that stay in view from some time on, because a hidden one judges nobody dead.
- Call: the steps of each browser (frames taken, negotiation, answers, and the closing of a connection that is `Lost`). Users,
  devices and the network owe nothing: no working connection has to be cut.
- LockFreeQueue and Transfer state no liveness. A lock-free queue lets
  one thread starve. For Transfer, `NeverStalls` takes its place.

## 5. The proofs

Checked by TLAPS for any number of threads, sessions, rooms, messages and any capacity.

| Theorem | Says |
| --- | --- |
| `MailboxProofs!TypeCorrect`, `WakeTokenUnique`, `WakeupNeverLost` | the mailbox run's invariants, and that no item waits without a wake-up |
| `MailboxProofs!MailboxImplementsChannel` | the mailbox is a FIFO channel |
| `DispatchProofs!TypeCorrect`, `GateIsSingleFlight` | the gate lets one event of a session through at a time, refused batches included |
| `DispatchProofs!CleanedUpForGood` | who has been cleaned up never enters the room again, refused batches included |
| `DispatchProofs!OrderIsKept` | `KeepsOrder` for every capacity: in the order posted, with no gap but what the pool refused while the connection lives; in the order sent, but for binaries behind later texts; told in order |
| `LockFreeQueueProofs!TypeCorrect`, `CellsHaveOneOwner`, `PopsAreFaithful`, `AnswersHonest` | the ring run's four properties: no data race, no item lost, doubled or reordered, no wrong "full" or "empty" |
| `LockFreeQueueProofs!QueueImplementsChannel` | the ring is a FIFO channel |
| `ThreadPoolProofs!TypeCorrect`, `NoLostNotification`, `ShutdownDrains` | the pool run's three invariants |
| `ThreadPoolProofs!ThreadPoolImplementsChannel` | tasks leave the pool once each, in the order accepted |
| `RoomsProofs!TypeCorrect`, `HeldRoomIsMapped` | the rooms run's `TypeOK` and `HeldIsMapped`; objects never outnumber sessions |
| `RoomsProofs!RoomsImplementMembership` | the rooms are a membership relation with `kMaxMembers` places |
| `RoomsProofs!OneCallsTheOther` | with numbers of their own, of two members exactly one calls the other, and both have the connection in the end (`OneCaller`) |
| `TransferProofs!TypeCorrect`, `IndexesStayTrue` | the manager's two indices say what the table of sessions says, and every handle, offset and frame is in range |
| `TransferProofs!GoneStaysGone` | nothing of a departed client is registered, served or downloaded any more, late handlers included |
| `TransferProofs!DoneIsWhole` | a file handed to a user of a browser is whole (`DoneMeansAll`), if users wait for the answer to a DOWNLOAD |
| `TransferProofs!NoTransferStalls` | every transfer has something under way that moves it on or ends it (`NeverStalls`), if users wait for answers and offer one file each |
| `TransferProofs!TransfersMove` | the same with any number of files, while no cancelled upload leaves its flag to a browser that serves another |
| `ChatClientProofs!TypeCorrect` | types, whatever the user does |
| `ChatClientProofs!OneLiveSocket`, `LeaveIsFinal` | never two live sockets, and none after leaving |
| `ChatClientProofs!MessagesAreMembers` | a message reaches the server on a connection that is in the room |
| `ChatClientProofs!HealthySurvives` | the heartbeat gives up no connection that works |
| `CallProofs!TypeCorrect`, `NothingLeftBehind` | types; one who has left is in no one's calls (`NoGhost`), whatever the users do |
| `CallProofs!ConnectionsAgree` | two members with nothing left to say have connections that agree (`CallAgrees`), until offers cross or a working connection is cut |

Each rests on an inductive invariant, in most modules `IInv` (`Init => IInv`, `IInv /\ [Next]_vars => IInv'`):

- *Mailbox*. `NoLostWakeup` is not inductive: it must be known that something waiting
  means that the flag is set, and that the flag stands for exactly one token;
  that the swapped-out vector is empty except in the callback (or a swap would bring
  old items back); and that nothing has happened before `attach`. Assumption: `AttachFirst`, which is
  how the server is assembled; without it the property is false (section 6).
- *Dispatch*. `SingleFlight` is not inductive: a lane must hold only events of its
  own session (`PendingIsOwn`), or advancing it would put a stranger in flight. The
  invariant then says it place by place (`OneFlight`): each of batch, pool, workers and results
  holds a session at most once, no two places hold the same, and the lanes are
  those of the sessions held. `SortResult` moves a session from results to the
  batch or out, `EndRound` from the batch to the pool or, refused, out, and so on.
- *Dispatch, the end of a session* (`EndsOk`). `CleanedForGood` is about one step, but that no
  message of a cleaned-up session is on a worker needs the whole way of its CLOSED: from the uplink to the lane that owes
  the cleanup, to the batch, the pool and a worker, it is in one of these places at most, and in
  none before the connection is closed. A message posted after it can only be read by a
  worker that finds `alive_` false. A refused batch may lose the CLOSED, never double it, so no capacity is assumed.
- *Dispatch, order* (`OrderOk`, `Covered`, `FramesOk`, `PostedOk`). The numbers of a session's messages ascend within the uplink and
  within the lane, and all that has left the lane comes before all that waits in it, that before all that is in
  the uplink; what has run comes before everything. `Covered` says that of a living session every number between
  the last run and the last posted is on its way or was refused. Frames made and not yet dispatched all tell of the last event run (`Top`),
  since the gate keeps the next one from running before the round that dispatches them has ended. `PostedOk` relates the order posted to
  the order sent, read by read: each message is posted behind those sent before it, except a binary behind a text
  of its own read. No hypothesis: any capacity, refused batches included.
- *ThreadPool*. Mutual exclusion tied to the program counters; `coming` is
  non-empty exactly while its pusher publishes; a worker that has looked under the lock
  and is about to sleep knows the queue is empty and `stop_` unset; every popped task is done
  or in the hands of a worker. `DrainedAtShutdown` needs the last one with the facts that
  workers leave only through an empty queue and that no caller accepts after `stop_`.

- *Rooms*. `HeldIsMapped` says that a member is in the object its number leads to; a room is recycled
  safely only if the converse holds too (`MembersAreHere`: whoever is in an object is in the room mapped to
  it) and an object has one number (`OneNumber`). `ObjectsAreMade` counts the objects against those who
  ever entered, and keeps a new object empty; `Phases` bounds what a connection can be at, so that a relay
  under way belongs to a member. Numbers of connections may be given out again: `FdOf` is any function. The
  abstract place of a session is a `CHOOSE` over all rooms; the invariant makes it the session's own `room`,
  a successful join an `Enter`, a cleanup an `Exit`, and every other step a stutter.
- *Rooms, who calls* (`PairsOk`). `OneCaller` looks at the end of all the overlapping; the invariant follows each pair through it.
  Whoever is in the snapshot of a JOIN whose frames are still to be handed out will hear of it (`HearsOf`); the snapshot is taken
  under the lock, so of two members one hears of the other and never both. Until the frames are handed out nobody has the
  newcomer's number (`KnownHasJoined`), so each of them calls it. A call is on the way, with a worker, or has arrived
  (`CallIsUnderWay`), since the relay looks for the number in the object where both are, which `HeldIsMapped` gives.
  Hypothesis: `NumbersAreOwn`, no two connections have one number. The kernel gives numbers out again, and then it is false
  (section 3); the theorem speaks of the behaviours in which no number is used twice.

- *LockFreeQueue* (`Order /\ Contents`). A position claimed by a producer and not published, published and not claimed, or
  claimed by a consumer and not freed, has its cell for itself (`Writers`, `Readers`, `Cells`), and the cell's number says which it is;
  what a thread has read of a position or a number may be stale, but bounds the present one from below (`Looks`).
  `Contents` follows an item from the hands of its producer through the cell to those of its consumer. Assumption: `N > 1`.
  With one cell, the number that publishes a position frees the cell for the next, and the properties are false.
- *Transfer* (`Manager`, `LanesEnd`, `GoneForGood` and the types). `GoneForGood` needs that the indices agree, or cancelling by
  index would miss a session, and that a departed client's lane has ended: a DOWNLOAD between its two sections would
  make a session after the cleanup. `alive_` is looked at in between, which is what makes it true.
- *Transfer, whole files* (`JInv`: `Lanes`, `Messages`, `Offers`, `Lines`). Nobody counts chunks by name: the manager calls a session complete when
  as many chunks were received as the file has and none is pending, the browser believes DWNDONE. The invariant has, for
  every client and file, a `Pair` (a start follows a stop of the last one; a session at most; a browser that DWNDONE finds with the file
  has all of it) and, for its session, some set `B` of chunks acknowledged so far, with four parts. `Counts`: a chunk is asked for,
  on its way, pending or acknowledged, and `received` counts no other. `Stage`: nothing comes before DWSTART.
  `Course`: a download that ended in the browser has a stop on its way, or its session is `Doomed`, short of a
  chunk of an uploader who has gone, and never completes. `Safe`: what is acknowledged before a stop is handled is kept, or does not complete the session. A
  resumed download leaves out only what is kept (`Resumes`), since it starts at the first gap. `JInv` was checked with TLC on the
  804,422 states of a small instance before it was proved. Hypothesis: `Patient`, a DOWNLOAD is not sent again before it is answered; otherwise a
  file can have two sessions, and the property is false (section 6).
- *Transfer, uploads* (`Desks`). UPOK names a handle and no file, so `handleUPOK` binds the handle to whatever is selected. Of
  each client at most one UPLOAD or UPOK is on its way, never both, and it is about the file selected (`Desk`); what
  is bound stays bound to it (`Bound`). The queues change by losing or gaining messages of other kinds (`Behind`), which is all
  the steps that are not about uploads have to show. Hypothesis: `Patient`, no second selection before the UPOK.
- *Transfer, no stalls* (`Served`, `Flow`, on top of `JInv` and `Desks`). `NeverStalls` looks at what is on its way now; why the
  next step leaves something on its way is a matter of counting. `Flow` says of a session that nothing has begun to end: each
  chunk pending is a frame or an acknowledgement on its way, the chunks due and not yet received are at most the
  requests made, and with nothing pending there is a request. So the acknowledgement that empties `pending` either
  completes the session or asks for more (`ChunkMoved`, `AckMoved`, shared with `JInv`). `Served` says that a request is answered: a
  file on offer is bound in its owner's browser and not flagged as cancelled, or its UPOK or an UPCANCEL is on its way.
  That needs `CancelsAlone`: a flag set by `cancelUploadFile` finds no other file in the browser. `TransfersMove` has it as a hypothesis
  about the behaviour, and `NoTransferStalls` proves it (`Flagged`) from `OneFileEach`. It is not a technicality:
  `transfer_two_files` is a behaviour in which the flag of one upload does stall the other. TLC finds `IInv`, `Desks`, `Flows`,
  `Flagged` and `CancelsAlone` true in all 804,422 states of the instance of `transfer`, and `CancelsAlone` is false in that of `transfer_two_files`.
- *ChatClient* (`Tidy`, `AllSpokenFor`, `Beats`). Whatever socket lives is the one in `ws` (`OneSocket`), after leaving nothing is
  set (`NothingLeft`), and what is under way on a socket fits the states of its ends (`LaneOK`). A message under way is spoken
  for: its connection is a member, or a JOIN that comes back is ahead of it. On a path that works, silence has a reason, a
  probe or an answer under way or a page that was frozen (`Beats`). Assumptions: a user who does not start an attempt
  while one is under way (`Careful`), for `MessagesAreMembers` a server that refuses nobody who comes back, for
  `HealthySurvives` a page frozen once at most. Each is necessary (sections 3 and 6).
- *Call* (`Parts`, `Frames`, `NothingKept`, `Goodbye`, then `Phase`). LEAVE is the last frame one hears of a member, and a JOIN, which
  makes an entry, the first: so no entry is made after the goodbye. `CallAgrees` speaks of two ends at rest, and
  the invariant of every point on the way there (`Phase`): before the first offer (`Fresh`), before it is taken (`Called`), and then
  `Resting`, `Offering`, `Crossed`, `Answering`, `Replied`, with either browser in either part. Each says which descriptions are under way in
  which direction (`Carries`, MEDIA frames between them left out of account) and what of the two connections agrees already; `Heard` is what
  holds between taking an offer and taking its answer. An answer may have the next offer right behind it (`Replied`),
  and is taken before it. Two offers may be under way against each other (`Crossed`); the first of them to be taken is a
  crossing, after which the property promises nothing and is false (`call_glare`). Users may switch devices at any time and open
  dialogs side by side; a second camera changes no connection there is. In `Phase` a transport can break down only by being cut: no two
  connections that answered each other are `Lost`.

The channel theorems show that every push maps to a send, every delivery or pop
to a receive, and every other step to a stutter. For the ring the channel's queue is the part of the log of all claimed positions that
no pop has claimed yet, so that an item is sent when its position is claimed, before it can be read.

Assumptions on constants are the named `ASSUME`s of the modules, which TLC evaluates
in the runs: `BoundsAssumption`, `ConstantsAssumption`, `PoolAssumption`, `RingAssumption`,
`TransferAssumption`, `ClientAssumption`, `RoomsAssumption`, `ChatAssumption`, `CallAssumption`.

Model-checked only: all liveness (outside the prover's reach, as is
`ENABLED`). Every invariant that a passing run checks is a theorem, `NeverStalls` for uploaders with one file
each or harmless flags. No module uses a `RECURSIVE` operator.

## 6. What the runs found

- `dispatch_full`: when the pool refuses a batch, `submit_ups` erases the lanes of
  its sessions, and with them a cleanup just scheduled or still owed. Nobody is told that
  the connection has gone, and its transfers are never cancelled. (A room holds its members
  weakly, so the entry expires with the session.)
- `transfer_two_files`: `cancelUpload` is one flag for all uploads of a browser and is
  cleared only by the next selection of a file; after cancelling one upload the
  downloads of the other files wait for ever. Nothing else stalls a transfer: with that flag out of the way
  `NeverStalls` is a theorem (`TransfersMove`).
- `call_glare`: two offers cross when both browsers get a device while neither knows of the other's. Each browser rolls its own offer
  back and answers the other's; both answers find a stable connection and are passed over
  (`useWebRTC.js:338`, "偶尔状态冲突可忽略"). Both ends take the active part, so neither transport comes up, both connections are closed, and only a JOIN would
  make others. The cameras are on, both members in the room, and neither is shown the other's.
- `rooms_stale`: members are counted under the lock, and told when the result is dispatched. Of two joins
  the later snapshot may be told first; the browser that joined first then keeps a list
  without the second, which it has called nevertheless: no tile for its picture, and its messages under a number.

Limits that a property meets when a constant is set as said, without a run of their own:

- Mailbox, `AttachFirst = FALSE`: `PostedIsDelivered` fails. `FdRegistration::wakeup` drops the wake-up before
  `attach`, but `draining_` is set already, so no later post wakes the loop either; the comment at
  `FdRegistration.h:27` counts on a first wake-up after attaching. The server attaches every
  mailbox before anything posts to it.
- Transfer, three chunks, window two, one download: `WindowHolds` fails. Each chunk received asks for one more and so does
  each one acknowledged, and requests outstanding are not counted.
- Transfer, one chunk, two downloads: `ShownIsServed` fails. Resume, pause and cancel before the answer to the resumption
  arrives; `handleDWSTART` then puts the download back on the card as running, with no session behind it.
- Transfer, `Patient = FALSE`, two downloads: `DoneMeansAll` fails. The file asked for twice before DWSTART arrives has two
  sessions and one card; the DWSTART of the second opens the card again, empty, after the user had the file, and the
  DWNDONE of the first hands that over (28 steps).
- ChatClient, `Careful = FALSE` or a user who logs in again after a refusal: `OneVoice` fails. The old socket is neither closed nor relieved
  of its handlers; nothing pings for it, the server times it out, and its `onclose` tears down the healthy connection.
- ChatClient, `Refused = {"LOGIN", "RETURN"}`: `SpeaksInRoom` and `BackInRoom` fail. The place of the connection that broke may still be taken when
  the client comes back; the refusal is shown as a message and JOIN is not repeated.

## 7. What is not modelled

- `AppParser`, `WsFrame`, SHA-1, Base64, `StaticFileServer`, `ErrorResponse`: pure
  functions or file I/O, without state that outlives a request.
- ICE candidates (by the same way as offers and answers, after them), the audio gain chain, media streams. In Call a
  browser is done with an offer before it takes the next frame of that member, and nobody leaves with a permission
  dialog open: the code does not look again after the dialog, and the track that comes then stays live
  (`useWebRTC.js:233`). A call that was cut is not made again, in the code either.
- Rendering, scrolling (`MessageList.vue`), the input box (`ChatView.vue`): no state beyond the page.
- Nicknames: they travel with the members they name.
- Electron shell, proxy, build files, styles.
- Commands that throw: `AppHandler` turns the exception into an empty result, which
  Dispatch has as a command without frames.
- Chunks repeated by an uploader, malformed fields: our browser client sends neither.
  (A repeat after the acknowledgement would be counted twice, `TransferManager.cpp:135`.)
- Fairness between the handlers of one loop: `BatchQueue::drain` goes on as long as
  producers append.
- Overflow of positions and session ids (`size_t`, `uint64_t`).

Not modelled yet: writing, reading and heartbeat of connections, event loop, parsers,
startup and shutdown. See the plan.

## 8. Plan

Done: Channel, Mailbox, Dispatch, LockFreeQueue, ThreadPool, TransferManager, Transfer, Membership, Rooms, ChatClient, Call and
the proofs of section 5. Next, in this order:

1. **Writer** and **Connection** (`WriteScheduler.cpp`, `ConnHandler.cpp`, `Heartbeat.h`): partial
   sends, limit, close after flush, HTTP to WebSocket, ticks. Properties: frames whole and in
   order (implements Channel), one close and one CLOSED, no use after close, silence judged right.
   Proof: order and limit.
2. **EventLoop**: batches of epoll events, registration changes inside callbacks, reuse of fd
   numbers. Property: no event reaches a registration made after it.
3. **WsParser**, **HttpParser**: incremental states, fragments; cut anywhere, same result.
4. **Lifecycle** (`ReactorFactory.cpp`, `Gateway.cpp`): start and stop of loops, control
   thread and pool. Properties: nothing runs on destroyed objects, stopping ends, no half-started server.
